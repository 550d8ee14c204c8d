# mKernel in TLA+

mKernel runs fused compute-and-communicate GPU kernels (GEMM + reduce-scatter,
GEMM + all-reduce, all-gather + GEMM, dispatch + GEMM, ring attention) over
several nodes. A persistent kernel does the arithmetic and decides what to send;
it pushes commands into a ring in host memory; a CPU *proxy* thread polls the
ring and posts RDMA writes, each followed by an arrival flag that the kernel of
the receiving node waits for. Within a node the processes share memory through a
small broker. This directory models that machinery, checks it with TLC and proves
parts of it with TLAPS.

Paths below are relative to `src/include/comm/internode/` unless they start with
another directory.

## 1. Inventory

| component | state | operations | interacts through |
|---|---|---|---|
| D2H command FIFO (`d2h_fifo.cuh`) | `head`, `tail`, `tail_cache`, slots of six words, `cpu_head` | `push` (GPU threads), `poll`, `advance_tail` (proxy), reset (host) | pinned host memory, no locks |
| proxy thread (`proxy.h`) | `running_`, `paused_`, `ack_paused_`, `inflight_`, `pending_cmd_`, `sender_seq_`, `qp_rr_idx_`, `cfg_.epoch` | `run`, `post_strided_direct`, `post_stage_barrier`, `poll_forward_notifications`, `pause`/`resume`, `drain_cq`, `stop` | FIFO on one side, queue pairs and a completion queue on the other, atomics shared with the host thread |
| session (`session.h`) | `epoch`, QPs, FIFOs, proxies, buffers, arrival flags | `create_session`, `prepare_epoch`, `commit_epoch`, `stage_barrier`, `drain_proxy`, `destroy_session` | TCP during bootstrap, the proxies' atomics afterwards |
| EFA backend (`proxy_efa.h`, `session_efa.h`, `rdma_transport_efa.h`) | as proxy and session, plus a refused batch, a stashed barrier and receive completions | as above, over SRD; replay of a refused batch; arrivals by immediate data | EFA verbs |
| slots and words (`types.h`, `arrival.cuh`) | arrival queues (slot by slot) or flat flags (one per tile) | peer-slot arithmetic, packing of arrival words | written by the peer's NIC, read by the kernel, reset by host or kernel |
| transport (`rdma_transport.h`, `rdma_gpu_mr.cuh`) | verbs objects | QP transitions, TCP exchange, registration | libibverbs |
| gemm_rs (`operators/gemm_rs`, `src/gemm_rs.cu`) | staging buffer, chunk counters, ready bits, arrival heads, ready and increment queues | compute, send, drain, accumulate, reduce CTAs | FIFO, arrival flags or queues, NVLink atomics |
| gemm_ar (`operators/gemm_ar`, `src/gemm_ar.cu`) | partial and final outputs, multicast ready signals, arrival heads, chunk claims | compute, intra-node sum, send, drain, reduce, publish, end of the iteration | FIFO, arrival queues, NVLink multicast, stage barrier |
| ag_gemm (`operators/ag_gemm`, `src/ag_gemm.cu`) | gathered A, readiness planes, hop gates | gather, send, republish and forward, multiply, reset | FIFO, flat flags, proxy forwarding, NVLink multicast |
| dispatch_gemm (`operators/dispatch_gemm`, `src/dispatch_gemm.cu`) | routing tables, `copy_ready`, row counters | send, copy, dispatch, grouped GEMM, cleanup | FIFO, flat flags, peer memory of the node |
| ring_attention (`operators/ring_attention`, `src/ring_attention.cu`) | two pairs of K/V buffers, partial results | send, stage, copy, reduce, `barrier_all` | FIFO, flat flags, peer memory of the node |
| local broker (`comm/local_broker.cuh`) | vault in shared memory (`init`, `barrier`, `sense`, `data`), one datagram socket per rank | constructor, `sync`, `exchange_data`, `exchange_fds`, `broadcast_fd` | processes of one node |
| parallel buffers (`dist/parallel_buffer.cuh`, `comm/vmm.cuh`, `comm/ipc.cuh`) | mappings | the broker calls, in order; CUDA driver calls | local broker |
| tile library (`memory/`, `common/`) | registers, shared memory | loads, stores, MMA | none |
| benchmarks (`bench/`) | none | the host loops that call an operator repeatedly | `set_epoch`, `torch.distributed.barrier` |

What is hard here:

* *No locks between GPU, host threads and NIC.* The FIFO relies on slot numbers and
  on the order of two stores; pushers overwrite each other's cached tail.
* *An epoch transition that resets what others use.* `commit_epoch` zeroes the FIFO
  and the arrival slots while a proxy thread, a NIC and remote peers exist; a
  handshake of two booleans, a counter and (sometimes) a cluster barrier keep them
  apart.
* *One-sided writes.* The receiver has no say in when flags and buffers are
  written; resets race with writes of a peer that is an iteration ahead.
* *Counters that must agree.* `inflight_` is incremented in commands, WRs or ones
  depending on the path, and decremented by what each completion carries.
* *Arithmetic done twice.* Both ends of a QP, the FIFO and the proxy, the sender's
  slot and the receiver's bank, the walks of the CTAs that produce and that consume a
  tile are computed independently and must agree.
* *Roles in one grid.* CTAs of one launch compute, send, drain, reduce and wait for
  each other through counters, bits, claims and queues in device memory, many of them
  awaited with equality and cleared for the next launch by one of the waiters.
* *Crashes at start-up.* Named shared memory outlives the process that made it.

What makes each part correct: commands are delivered whole, once, in order (FIFO);
flags follow data, arrival slots have no holes, `inflight_` is exact, an epoch ends with
nothing on the way (proxy and session); every command is announced once and not
overtaken by the barrier behind it (EFA); no arrival is lost or stale over iterations
(boundary); QPs are paired and commands reach their addressee (mesh); a sync is a
barrier and an exchange returns the values of the same call (broker); the output of
an operator contains each contribution once, whole, and of this launch (operators); and
everything comes to an end. `PROJECT.json` lists the single hazards by line.

## 2. Modules

| module | models | built on |
|---|---|---|
| `CommandQueue` | what the FIFO promises: claimed, published, delivered in claim order | |
| `D2HFifo` | `push`, `poll`, `advance_tail`, one memory access per step | implements `CommandQueue` |
| `Proxy` | `Proxy::run` with the host's epoch transition, the kernel that feeds it and the NIC | FIFO as `CommandQueue` promises it |
| `ProxyEfa` | the same of the EFA backend, over unordered SRD | FIFO as `CommandQueue` promises it |
| `EpochBoundary` | iterations of several nodes: sends, arrivals, resets, barriers | writes as `Proxy` promises them |
| `PeerMesh` | bootstrap, QP connection, slot arithmetic, routing | |
| `SenseBarrier` | `sync()`, one access to a shared word per step | |
| `LocalBroker` | the exchanges | `SenseBarrier`: every `sync()` inside a call is taken word by word |
| `BrokerStart` | the constructor, with segments of a dead run | |
| `BrokerLife` | construction, then the calls, each rank at its own pace | `BrokerStart` and `LocalBroker` |
| `GemmRs` | the fused gemm_rs kernel seen from one GPU | transfers as `Proxy` promises them |
| `GemmAr` | the fused gemm_ar kernel on the GPUs of a node, over several launches | transfers as `Proxy` promises them, iterations as in `EpochBoundary` |
| `AgGemm` | all-gather + GEMM on all GPUs of all nodes, with the proxy's forwarding and the host loop | transfers as `Proxy` and `PeerMesh` promise them |
| `Dispatch` | dispatch + grouped GEMM on all GPUs of all nodes, with routing tables and host loop | the same |
| `RingAttention` | the kernels of a ring attention launch on the GPUs of a node, with the loops of the benchmark | the same |

`MC*` modules hold the programs, kernels and configurations of the TLC instances,
`*_proofs` modules the theorems. Definitions named "The bug of ..." are variants of
the definition that follows them; the mutants of `PROJECT.json` put them in its
place to show that a property notices.

What a session or launch is created with (`ProxyConfig`, `SessionConfig`, shapes, CTA
splits, environment variables, the host loop of a benchmark) is one record, chosen in
`Init` from the constant `Configs` and kept in the variable `cfg`, so that one run covers
several configurations. What is fixed when the code is compiled (ring capacity, batch
size, queue depths) is a constant of the module.

### Correspondence with the code

**D2HFifo.** A slot is a header (word 0) and a payload (words 1 to 5); each holds the
command it was written for, so a torn record shows. `push()` is `ClaimSlot`
(atomicAdd), `CheckCache` (fast path), `LoadTail` and `StoreCache` (slow path: the
loaded tail is stored to `tail_cache` whatever others stored there meanwhile),
`WritePayload`, `CommitHeader`. `poll()` is `PollCopy` and `PollClear`. That the
payload is visible before the header is what the code's fence and store order give;
it is the one memory-order assumption of the module. `log` and `polled` are history.

**Proxy.** `ppc` is the place in `run()`: the pause gate (`Acknowledge`, `SpinEnds`,
`Withdraw`), the start of a batch with the stashed command, one `Collect` per polled
command (a barrier is posted on the spot, a command for another QP is stashed),
strided commands, the batch's single post, the CQ poll, `advance_tail`. The host
thread (`hpc`) launches a kernel, synchronises, drains, pauses, drains the CQ,
commits, resumes, or stops and joins. `posted[q]`, `done[q]`, `freed[q]` and `cq` are
the NIC: RC executes a QP in order; a chain that does not fit is accepted up to the
first WR that does not; an entry is given back when a later signaled completion has
been polled. Abstracted away: addresses, keys, sizes, timestamps. A WR keeps its
kind, command, slot, epoch and the count in its `wr_id`. Both layouts
(`UseArrivalQueue`), both routings (`ChannelizeGpuPeers`), remote tails and direct
dmabuf are fields of `cfg`. The five seconds of `drain_proxy` are a nondeterministic
choice where `DrainMayTimeOut` allows it.

**ProxyEfa.** The places are those of the EFA `run()`: `OpenGate` (a stashed barrier goes
first, `BarrierDrain`, `PostStageBarrier`), `Replay` of a refused batch or `StartBatch`
with the next FIFO in turn, `Collect`, `PostBatch` or `BatchRefused`, `PollCq`.
`wire` is what SRD has accepted and may carry out in any order; each WR leaves a
completion in `cq`, of which only the last of a command carries a count. `BatchWrs`
gives the WRs of a batch in the write-with-immediate and the remote-flag mode.
`PeerWrites` is the peer's transfer: a receive completion on the same CQ, or a flag.
`drain_cq` drops receive completions, in the model as in the code. `pending_cpu_head` is
saved with a batch and becomes the tail when it has been posted (`SavesHead`, `PollCq`); a
pusher goes by `tail_cache` and the tail alone, and where that lets it into a slot that was
not polled, it overwrites the command there (`Push`). The five seconds of `drain_proxy`
are a nondeterministic choice in configurations with `drain_may_time_out`. The host's part
has the ordinary transition and the fast one (`MKERNEL_PREP_EPOCH_FAST`). The fast one does
not pause the proxy, so that `commit_epoch` must leave FIFO and flags alone: a
configuration with `fast` has `skip_reset`, as `bench/gemm_ar_bench.py:18-21` sets both.

**EpochBoundary.** A node has its epoch, its place in the host program, and what its
kernel has sent and consumed. A write carries its epoch and lands with its flag, in
any order with other writes. `Arrived` is the test of the waiting CTAs: any non-zero
word in the queue layout, the epoch in the flat one. `ClearFlags`, `Ring` and
`KernelEnds` are gemm_ar's end of an iteration. Host programs are those of
`bench/*.py`.

**PeerMesh.** A node is the session of one GPU index on that node. `Exchange` is the
TCP meeting of a pair, `ConnectPeer` the QPs of one peer slot, `Issue` a command on its
way from the kernel through FIFO, proxy and QP to a bank of the receiver.

**SenseBarrier, LocalBroker, BrokerStart, BrokerLife.** Each atomic and each access to
`sense` is a step. A value or descriptor given by rank r in its k-th call is `<<r, k>>`.
A socket holds `QueueLen` datagrams and blocks the sender when full. `LocalBroker`
extends `SenseBarrier`: `at` is the place in the exchange, and a call's syncs are the
barrier's own steps. `BrokerStart` has two segments, one of which an earlier run may
have left with any words it could have left; `Init` chooses whether it did (`stale`).
`BrokerLife` lets a rank that is through with the constructor go on to its calls while
others are still inside.

**GemmRs.** One GPU of a node in full, the compute CTAs of its neighbours, the other
nodes as senders. A compute task has two halves in different warps, in any order:
`StoreTile` (the tile added to the staging buffer of the slice's owner) and `CountTile`
(chunk counter and, with the last tile, the signal to the send CTA). A send CTA takes
ready bits (`TakeReady`), marks the chunk and pushes it (`PushChunk`); the NIC reads it
later (`NicReads`). Arrival words are packed and unpacked with their wrapping run
length; `DrainWord` and `Publish` are the drains. A chunk is claimed from a counter
(`ClaimNext`), from the ready queue (`Scan`, `TryReady`, `EnqueueReady`, `Pop`, `Check`)
or increment by increment (`AccumPop`, `AccumLock`, `AccumStore`, `AccumCount`), and
written by `Reduce`. A chunk's contents are the set of tiles and the count of each peer.

**GemmAr.** The GPUs of one node, launched again and again without a host barrier.
`Compute` writes a tile of a slice; `SumTile` and `CountTile` are the intra-node CTAs with
both kinds of ready signal (`Signalled`), `SendChunk` and `NicReads` the way out,
`PeerWrites` and `DrainWord` the way in, `ReduceStatic`, `ReduceEarly` and `ReduceClaimed`
(window or stealing) the four reduce loops, `FinishSignals`, `FinishSees`, `FinishWaits` the
publication barrier, `ResetFlags`, `BarrierOver` and the peers' `PeerRings` the end of the
iteration, in the kernel or in the epilogue. Buffers keep epoch and contributions. A peer
that has ended an epoch (`Ended`) writes the one word that all its peers look at, and each
of them goes on with the first such write, whoever it is from (`PeerRings` for this GPU,
`PeerWrites` for a peer, which a third node may have let go on).

**AgGemm.** `Gather` multicasts a task's part of A, `Republish` the rows a hop received,
`Forward` pushes them to the next node, or `ProxyForward` does when the proxy forwards;
`ArriveGate` and `ArriveGrid` are the grid-wide counters, `Load` a compute CTA's wait and
multiplication, `ResetPlanes` and `NodeBarrier` the end, `HostReset`, `HostLaunch` and
`Relaunch` the loops of the benchmark.

**RingAttention.** `k.op` and `k.stage` are the kernel a stream is in; `Following` is the
stream order. `CommLoad` and `CommStore` pass a tile on to the next GPU while `Attend` reads
it, `SendTile` and `NicReads` are the zero-copy send, `CopyTile` takes what a peer sent,
`Signal` and `MeetAll` are `barrier_all`: one is added to every word, then a GPU waits until
its own equals their number, whether or not it has gone past that meanwhile. What a peer
sends is what its NIC finds when it reads (`PeerSends`): its own tiles, or those of
`late`, which its ring has put there since. `LaunchAgain` is the default loop of the
benchmark, which launches again without a reset; `Relaunch` the one with a sync, and the
reset between the two.

**Dispatch.** The tables `pull_dispatch_indices` and the work of each CTA are computed once
by the functions that the code and the benchmark use (`build_pull_indices`, `Walk`).
`SendChunk`, `Deliver`, `PublishChunk` bring a chunk over; `PullToken` and `CountSlice` fill
a slice of a row block, `Multiply` uses it, `ArriveCleanup` and `Cleanup` reset the counters,
`HostReset`, `HostLaunch` and `Relaunch` are the loops of the benchmark.

## 3. Runs

| run | instance | shows |
|---|---|---|
| `fifo` | 2 producers, 2 slots, 5 pushes, fair | records are whole, once, in claim order; refinement of `CommandQueue`; every claimed slot is polled |
| `proxy` | 2 QPs, ring of 2, kernels of 3 commands in any order, 2 epochs, in three configurations: queue layout with remote tails and 2 lanes; flat layout with strided, malformed and ignored commands; 3 nodes with a QP per peer, a barrier, one command in flight and a drain that may time out | `inflight_` is exact; data before flag; dense arrival slots; nothing twice and everything under its own epoch; nothing on the way after `prepare_epoch`; a barrier reaches every peer |
| `proxy_live` | 1 QP, ring of 1, SQ of 4, 3 transfers per epoch, 2 epochs, fair | everything is delivered; the session ends |
| `efa` | rings of 2, batches of 2, in six configurations: immediates with a peer an epoch ahead; a FIFO per QP, 2 peers and refused posts; gemm_ar's queues with a barrier and refused posts; its fast transition over 2 epochs; flat flags; refused posts under a `drain_proxy` that may give up. Fair | each command announced once, in a slot of its own, however often its batch is refused; no flag behind the barrier that follows it; nothing left after `prepare_epoch` where the drain looks everywhere (one QP, one peer, immediates, no more in flight than the send queue holds, no barrier, not the fast transition, no time-out); the session ends although `drain_cq` drops receive completions |
| `boundary` | 3 epochs, fair, in three configurations: 3 nodes with the host's reset between barriers; 3 nodes with flat flags and no reset; 2 nodes with gemm_ar's reset-then-notify, 2 tiles, 1 reduce CTA, no host barrier | no stale read, no lost arrival; iterations complete |
| `mesh` | 4 nodes, 24 QPs, 3 proxy threads, fair | bootstrap ends; QPs paired; commands reach addressee and bank, none dropped |
| `broker` | 4 ranks, clean name or any segment of a dead run, 5 calls of 10 syncs, sockets of 2, fair | those who leave the constructor do so together and correctly; nobody leaves a `sync()` early; results of the same call; no stray datagram; on a clean name all calls complete |
| `gemm_rs` | six launches on 2 and 3 nodes: shared counter, two send CTAs, ready queue, transport queues with a draining CTA, receiver-owner, increments alone; run field of 2 tiles. Fair | each chunk written once with each peer once; chunks leave once, after every GPU has counted its tiles; nothing is added to what the NIC reads; no CTA waits for ever |
| `gemm_ar` | two GPUs over 2 launches with either ready signal; 3 nodes with early accumulation; a claim window of one with a draining CTA; stealing. Fair | final outputs complete, once, of this epoch; so is what the NIC reads of its; all launches end |
| `ag_gemm` | rings of 2 and 3 nodes, forwarding by CTAs or proxy, 2 GPUs on a node, 2 gathering CTAs with signals by column, 2 launches. Fair | each tile of C is the product of the right rows of this launch; all launches end |
| `ring` | 2 GPUs in five configurations: 2 nodes over 2 epochs; a peer that may send anything its ring holds; 3 nodes; the default loop with 2 launches; one node with 3 tiles on 2 lanes. Fair | each query block attends to as many tiles as there are, all of this epoch, and in the loop with a sync once to every tile of the node and every one received; every launch ends unless a GPU missed the value of its barrier word |
| `dispatch` | six shapes: tokens straddling chunks, both nodes in full, 2 GPUs and an expert without tokens, 2 slices and 2 column blocks, 3 nodes and a request for too many CTAs, no synchronisation. Fair | each expert multiplies each of its tokens once, whole, of this epoch; all launches end |

### Bounds, and why they are enough

* FIFO: five pushes over two slots wrap the ring twice, so a producer can hold a tail
  that is a lap old while the other stores a newer one. The theorems lift all bounds.
* Proxy: two QPs are needed for the stash; kernels push more commands than the ring
  holds, so the proxy must move for a kernel to end; a batch of two and a limit of two
  in flight per QP are reached; two epochs give one complete transition (pause,
  reset, resume) with work on both sides, and the transition resets every counter.
  Send queues of 12 never fill in `proxy`; one of 4 does in `proxy_live` without the
  throttle.
* EFA: a refusal is followed by a replay at least once, three commands fill a batch and
  leave one over, a peer one epoch ahead is as far as a peer can be. The kernel of the
  time-out configuration pushes three commands through a ring of two; with more (from five on)
  what was overwritten would be missing for good and a kernel could wait for ever (section 6),
  so that its `SessionEnds` is about kernels that do not go round the ring twice.
* EpochBoundary: three epochs let a node be one ahead of a peer that still has one
  behind it; three nodes separate "a peer" from "all peers".
* PeerMesh: four nodes are the largest number whose 3 x 8 channels fit in 24 QPs, five
  the smallest that does not.
* Broker: four ranks and sockets of two make rank 0 block in its distribution; the
  program has `exchange_data` twice in a row and each kind of call next to another.
* Operators: two chunks or tiles for each kind of CTA make two CTAs of a kind compete and
  let one be overtaken; two launches have flags and counters of the first seen by the
  second; three nodes give a second hop, a second peer in a mask and a chunk that belongs
  to neither end. The ring's three tiles on two lanes are on one node, for the time two nodes
  would take; the theorem has any number of both. A row block, a tile or a chunk is one
  value: the arithmetic
  inside it is not modelled, and nothing in the control depends on it.

`MaxPush`, `MaxEpoch` (`max_epoch`, `launches`) and `MaxSyncs` bound counters that are
unbounded (or 64-bit) in the code; `MaxGpus` and `MaxReducers` only name the
processes of the fairness condition. No symmetry is used.

### Fairness

The proxy thread, the host thread, the processes of the broker and the kernel's
threads are scheduled by an operating system or are resident CTAs of one launch (the
operators size their grid to the number of SMs), so each that can take a step
eventually does: weak fairness of each thread's next step. The NIC carries out what it
accepted: weak fairness of each QP, or of the wire. In `D2HFifo`, fairness of
`AdvanceTail` says that the proxy keeps releasing what it polled; `Proxy` models when it
really does. In `AgGemm`, `Dispatch` and `RingAttention` no step can be repeated without end
(a wait is a guard, and every step uses something up), so weak fairness of the
next-state relation as a whole, which is less than fairness of every CTA, is enough; in
`RingAttention` of `Progress`, which is all but a peer's writing the same words again.
Nothing is assumed about which of several enabled commands, kernels or ends of an
epoch is chosen.

Deadlock is checked in all runs but `broker`, where ranks on a stale segment do wait for
ever, and `ring`, where a GPU that has missed the value of its barrier word does.

### Further configurations

These show where a statement of a comment or of the code's intention stops holding; TLC
ends each with a counterexample. Section 6 says what it means.

| configuration | module | property |
|---|---|---|
| `MCProxyStash.cfg` | `MCProxy` | `DrainedAtBoundary` |
| `MCEfaBarrier.cfg` | `MCProxyEfa` | `BarrierAfterWrites` |
| `MCEfaReplay.cfg` | `MCProxyEfa` | `NothingOverwritten` |
| `MCBoundaryGemmRs.cfg` | `MCEpochBoundary` | `NoArrivalLost` |
| `MCBoundaryThree.cfg` | `MCEpochBoundary` | `NoArrivalLost` |
| `MCMeshFive.cfg`, `MCMeshFifo.cfg` | `MCPeerMesh` | `LandsAtAddressee` |
| `MCGemmRsSignal.cfg` | `MCGemmRs` | `StagedBeforeSend` |
| `MCGemmArReset.cfg` | `MCGemmAr` | `ResetBeforeNextWords` |
| `MCGemmArThree.cfg` | `MCGemmAr` | `SentWhole` |
| `MCAgGemmNoSync.cfg` | `MCAgGemm` | `NoSignalCleared` |
| `MCRingSend.cfg` | `MCRingAttention` | `SentOwn` |
| `MCRingNoSync.cfg` | `MCRingAttention` | `AttendsToOwn` |

## 4. Proofs

For every value of the constants, under the named assumptions of the modules:

| theorem | statement |
|---|---|
| `D2HFifo_proofs!TypeCorrect` | `Spec => []TypeOK` |
| `D2HFifo_proofs!Inductive` | `Spec => []IInv` |
| `D2HFifo_proofs!FifoSafe` | `FifoOrder`, `SlotOwned`, `CacheIsConservative` |
| `D2HFifo_proofs!RingImplementsQueue` | `Spec => ImplementsQueue` |
| `D2HFifo_proofs!SlotsAreInverse` | `peer_rank_for_slot` and `slot_at_peer` are inverse |
| `D2HFifo_proofs!MeshIsPaired` | `MeshSpec => []LinksArePairs` |
| `D2HFifo_proofs!CommandsLand` | `MeshSpec => []LandsAtAddressee`, if `RoutesAgree` |
| `LocalBroker_proofs!BarrierInductive` | `Spec => []IInv` |
| `LocalBroker_proofs!SyncIsABarrier` | `Spec => []NoEarlyReturn` |
| `LocalBroker_proofs!StartsTogether` | `BrokerStart`'s `Spec => []StartTogether` |
| `LocalBroker_proofs!BrokerRunsTheBarrier` | `BrokerSpec => SenseBarrier's Spec` |
| `LocalBroker_proofs!CallsNeverMix` | `BrokerSpec => [](ReturnsThisCall /\ NoStrayDatagram)` |
| `LocalBroker_proofs!LifeCallsNeverMix` | the same of `LifeSpec` |
| `LocalBroker_proofs!LifeStartsTogether` | `LifeSpec => []StartTogether` |
| `EpochBoundary_proofs!KernelsReadOwnEpoch` | `Spec => []ReadsOwnEpoch`, if `SafeUse` |
| `EpochBoundary_proofs!ArrivalsAreKept` | `Spec => []NoArrivalLost`, if `SafeUse` |
| `Proxy_proofs!ProxyTypes` | `Spec => []TypeOK` |
| `Proxy_proofs!InflightStaysExact` | `Spec => []InflightExact` |
| `Proxy_proofs!NothingTransferredTwice` | `Spec => []TransferredOnce` |
| `Proxy_proofs!FlagsFollowData` | `Spec => []DataBeforeFlag` |
| `Proxy_proofs!EpochEndsQuiescent` | `Spec /\ []NothingRefused => []QuiescentWhenPrepared` |
| `Proxy_proofs!BarriersGetThrough` | `Spec /\ []NothingRefused => [](CoversPeers => BarrierReachesEveryPeer)` |
| `Proxy_proofs!SlotsStayDense` | `Spec /\ []NothingRefused => [](QueueHasOneQP => ArrivalSlotsDense)` |
| `Proxy_proofs!SendQueuesSuffice` | `Spec => [](Ample => NothingRefused)` |
| `Proxy_proofs!DeepQueuesDeliver` | the three above of `Spec` and `Ample` alone |
| `Proxy_proofs!LanesStayDense` | `Spec => [](Ample /\ ~ChannelizeGpuPeers => ArrivalSlotsDense)` |
| `Proxy_proofs!OneQPIsNeverRefused` | `Spec => [](OneQP => NothingRefused)` |
| `ProxyEfa_proofs!TypeCorrectness` | `Spec => []TypeOK` |
| `ProxyEfa_proofs!InflightExact` | `Spec => []CountInv`: `inflight_` is the number of commands whose counting WR is on the wire or in the CQ |
| `ProxyEfa_proofs!AnnouncedOnceHolds` | `Spec => []AnnouncedOnce` |
| `ProxyEfa_proofs!BarrierAfterFlagsHolds` | `Spec => []BarrierAfterFlags` |
| `ProxyEfa_proofs!QuiescentHolds` | `Spec => []QuiescentWhenPrepared` |
| `GemmRs_proofs!Inductive` | `IInv /\ [Next]_vars => IInv'` |
| `GemmRs_proofs!TypeCorrect` | `Spec => []TypeOK` |
| `GemmRs_proofs!SentAfterCountsHolds` | `Spec => []SentAfterCounts` |
| `GemmRs_proofs!SentUnmodifiedHolds` | `Spec => []SentUnmodified` |
| `GemmRs_proofs!ReducedOnceHolds` | `Spec => []ReducedOnce` |
| `GemmAr_proofs!Inductive` | `Spec => []IInv`, if `SameLayout` and `Paired` |
| `GemmAr_proofs!TypeCorrect` | `Spec => []TypeOK`, if `SameLayout` and `Paired` |
| `GemmAr_proofs!SentIsWhole` | `Spec => []SentWhole`, if `SameLayout` and `Paired` |
| `GemmAr_proofs!FinalIsComplete` | `Spec => []FinalComplete`, if `SameLayout` and `Paired` |
| `RingAttention_proofs!Inductive` | `Spec => []IInv`, if `SyncedLoops` |
| `RingAttention_proofs!TypeCorrect` | `Spec => [](TypeOK /\ launch \in [Gpus -> Nat])`, if `SyncedLoops` |
| `RingAttention_proofs!AttendedOnceHolds` | `Spec => []AttendedOnce`, if `SyncedLoops` |

*The ring.* None of the three properties is inductive. That a header is EMPTY when a
producer writes it depends on the whole window of `Capacity` slots from the cursor on:
`WindowInv` says that a slot of the window holds a whole record if its push is done
and is EMPTY otherwise; `ClaimInv` says what a producer inside `push()` knows of its
slot and that no two share one; `DoneInv` that a finished push lies within `Capacity`
of the tail; `CursorInv` ties cursors and histories together. Two slot numbers of one
window never share an index, which a lemma on the remainder supplies. The
assumptions are a positive capacity and that EMPTY is no command; that the capacity is
a power of two (what makes the mask a remainder) is recorded as an assumption and not
needed beyond `Index`.

*The barrier.* The count alone does not tell who may go: `CountInv` (the word counts
the ranks inside), `PhaseInv` (with the sense up nobody is outside, with it down nobody
is between the waits), `LastInv` (who is about to turn the sense is the only one not
waiting for it) and `GenerationInv` (arrived ranks are exactly one sync ahead) are
preserved together. Finite, non-empty `Ranks` is assumed.

*The mesh.* `BlockInv` says where the QPs of every slot a node has gone through point,
`OnlyInv` that no others are connected; pairing follows with `SlotsAreInverse` and
the equal size of the blocks. It is assumed that there is at least one QP for each
peer (`kMaxPeers` is 16, `kMaxQPs` 24). One proof module extends both `D2HFifo` and
`PeerMesh`, whose specification is therefore called `MeshSpec`.

*Routing.* `CommandsLand` is arithmetic on top of pairing: the QP that a lane or a
channel selects lies in the block of the addressee, and the proxy thread that polls the
FIFO owns it. It needs `RoutesAgree`: with channels the blocks of all peers fit into
`kMaxQPs` and the session has no more QPs than they count, and the FIFO is selected by
what the proxy routes by, unless there is one proxy thread. `MCMeshFive` and `MCMeshFifo`
are the counterexamples without either part (section 6).

*Construction of the broker.* A rank that opens the name may get the segment of a dead run
with any count and sense in it, and the ranks on it run the barrier there too.
`StartsTogether` keeps the two segments apart: on the new one the invariant of the barrier
holds, all ranks being outside until they have mapped it (`NewInv`); on the old one rank 0
is missing, so with any leftover count at most one sync can be passed there and nobody
gets as far as the socket (`OldInv`, with the leftover as a parameter). Ranks are
numbered from zero (`Numbered`, which `BrokerAssumption` says), and the words of the
constructor are those of `BrokerLife`.

*Calls of the broker.* `BrokerRunsTheBarrier` shows that the syncs inside the calls are
steps of `SenseBarrier`, so that its inductive invariant holds there. Nobody is a whole
call ahead of another then, and `BInv` says where a rank is in its call, what it has
copied, and what is in each socket: in the socket of rank 0 one descriptor of each rank
that waits for its answer and has not been heard, in that of rank r what rank 0 has sent it
in this call less what it has taken, in the order of the sources. The empty value is no
descriptor (`BrokerAssumption`). `LifeSpec` adds the constructor; it
implements both specifications, which gives the last two theorems.

*Epoch boundary.* Three ways of looping are safe, and `SafeUse` says that every
configuration is one of them: flat flags, never reset (`FlatUse`), the
loop with a barrier on both sides of the kernel and the reset of `commit_epoch` (`SyncedUse`),
and that of gemm_ar between two nodes with one reduce CTA, which resets, notifies and has no
host barrier (`PairUse`). The configurations of `boundary` are one of each. In the second,
nodes go in lock step and writes fly only while kernels run (`SyncedInv`); in the third a
node may be an epoch ahead of its peer, and the proof tracks how far each has notified the
other and what each word then holds (`PairInv`). Outside of the three TLC finds
counterexamples: `MCBoundaryGemmRs` and `MCBoundaryThree`.

*The proxy: what holds always.* Four properties need no hypothesis at all. `CqInv` is the
base: the completion queue holds, in order, the signaled WRs that the NIC has carried out and
`poll_cq` has not taken. `InflightExact` compares an atomic with a sum over all
queues; a sum over a finite set is a `CHOOSE` of a function, so the module first shows
that one exists, that it is the only one and that it splits and shifts (`Total...`), by
well-founded induction on subsets. The rest is that every chain carries what is added to
`inflight_` in its last wr_id, and that a chain of which the NIC refuses the end neither
adds nor is counted. For `TransferredOnce` and `DataBeforeFlag` a command is followed
through the hands of the proxy: waiting in the FIFO, batched, stashed, posted, one at a time
(`WaitingInv`, `HeldInv`, `OnceInv`), and `Chained` describes what the two kinds of chain
have in common.

*The proxy: what a refusal breaks.* When `ibv_post_send` refuses the end of a chain the proxy
drops it, and then neither is the epoch delivered nor are arrival slots dense. Three properties
therefore assume `[]NothingRefused`: whatever is about to be posted fits. It holds throughout
the run `proxy`. `WholeInv` says that what was polled is in hand, or
posted whole behind a signaled WR, so that `inflight_ = 0` means done; `Slots` that each
send queue has the slots of a logical queue in order and that `sender_seq_` counts them.
Barriers are about a proxy that owns all QPs, and one for each peer (`CoversPeers`: the
fan-out is computed from one thread's QPs). Slots are about queues that go over one QP
(`QueueHasOneQP`): over two, the tail of one QP can overtake a flag of the other. By
lane that is so without further condition, since lane % (G * L) determines lane % G
(`LaneHasOneQP`); by channel it depends on the kernel giving a lane to one channel.

*When nothing is refused.* `Ample` is a condition on the configuration alone: no direct
dmabuf, and the in-flight limit with the barriers of a kernel, times the WRs of a chunk,
fits into the depth of one send queue. `SendQueuesSuffice` shows that the throttle
of the collect loop then suffices: the WRs behind any place of a queue are at most
`WrsPerChunk` for each command still counted (`Backed`), and the loop
collects against the value of `inflight_` it read before, to which only barriers have been added
since. This is an induction in which room is needed to show that nothing is refused, and
that nothing is refused to show that room is left (`Deep`). `DeepQueuesDeliver` restates the
three properties without any hypothesis on the NIC. With the numbers of the code (2048
entries, at most 3 WRs, 512 commands per QP by default) `Ample` holds for one QP and kernels
of up to 170 barrier writes, and whatever `max_inflight` is it holds for up to
`kSafetyMargin` of them (`OneQPIsNeverRefused`). In the run `proxy` it holds of the
queue and the channel configuration, in the first with equality. It does not hold for two QPs and 512
per QP: the limit is on the sum, and one QP may get all of it (section 6). Strided chains
of direct dmabuf are longer than `WrsPerChunk` and not throttled; there `NothingRefused`
stays a hypothesis.

*The EFA proxy.* The theorems need no hypothesis beyond the module's named assumptions.
SRD keeps no order, so nothing can be said about a queue: a command is followed from the
FIFO through the batch, the stash, the gate or the post on the spot to the wire
(`WaitingInv`, `HeldInv`, `OnceInv`, `KeptInv`), and a batch that is refused is where it was.
`WrInv` and `SlotInv` say that what has been posted has a slot below `sender_seq_`, which a
refusal advances as well, so that slots stay distinct though not dense. `CountInv` is about a set:
each counting WR that is on the wire or whose completion waits in the CQ adds one, and
wire and CQ share none. From it follows `BarrierInv`: with `inflight_` at 0 and neither batch
nor stash, the flags of all transfers polled before have landed; that is when a barrier is
posted. `DrainInv` is for the configurations in which the drain looks everywhere: with the limit
below the queue's depth no batch is refused, with one QP and peer nothing is stashed, so
that nothing is left when the host has seen its two counters; `QuiescentWhenPrepared` says
nothing where `drain_proxy` may give up before it has. `PhaseInv` has the proxy spin
from its acknowledgement to the end of `commit_epoch` outside the fast transition.

*gemm_rs.* The theorems are about every shape, chunk size, number of GPUs, nodes and queues,
every split of the CTAs and all four modes; `ConfigAssumption` (positive sizes, two nodes
or more) and a positive `RunLimit` are all that is assumed. On the way out, `CountInv` counts
by tasks: what a GPU has counted of a chunk is the number of its tasks there that their
CTAs have passed, which stays below the tiles of the chunk because the slice decode is
one-to-one (`TasksFitChunk`); so the last tile is seen once, by one CTA, and so is the last
GPU. A chunk is then in one of four hands: the bit (`BitInv`, with the send CTA's numbering
of chunks shown to invert `SenderOf` and `QueueIdx`), the CTA (`PushInv`), the FIFO and what
was sent (`SentInv`). `OwnInv` says that additions only touch chunks that no command is for.
On the way in, whatever a word covers after it has been packed and unpacked, with its run cut
to `RunLimit`, is the chunk it was packed for (`WordCovers`), hence masks and flags never
claim more than has landed (`ArrivalInv`, `FlagInv`). The two queues work
alike: their tail is the number of claims, so the slots suffice; a claimed chunk, or peer of
a chunk, is with the CTA that took the slot, in the slot, with the CTA that popped it, or
taken, in one of them only (`ReadyInv` and `HoldInv`, `AccumInv` and `AccumHoldInv`; for the
shared counter `Taken` is to be below it). Under the lock what a CTA has read
of a chunk is still what is there (`LockInv`), so no addition is lost, and `accum_done` is
the number of peers added and counted (`DoneInv`): at `NumPeers` all of them are in.

*gemm_ar.* The theorems are about every number of GPUs, row blocks, CTAs and queues, both
ready signals and all four reduce loops. Beyond `ConfigAssumption` they assume two things.
`SameLayout`: the host and the device count the same chunks to a row, which is so
unless `GEMM_AR_CHUNK_TILES` is set to something that matters (section 6). `Paired`: there are two
nodes and any number of launches, or any number of nodes and one launch, since with three
nodes the first peer to end an epoch lets a GPU go on while the others still read and write
(`MCGemmArThree`). GPUs are launched
independently, so the argument is about how far apart they can be. `Signals` is how often a
GPU has signalled a chunk since the first launch, `Taken` how often the owner of the slice has
taken the signals back, both of them sums over launches that no variable holds: a GPU is at
most one signal ahead of every owner (`LagInv`), and the word of the barrier, which is never
zeroed, is the number of GPUs that are one ahead (`SignalInv`), so it equals the number of
GPUs only when all have signalled in this epoch. Hence a sum is whole (`SummedInv`), and it
stays so until the NIC has read it: a peer rings when everything posted to it has been
read, and under `Paired` the peer that rings is the only one, or there is no launch to follow
(`SendInv`). `Announced` is the last epoch
whose slice a GPU has announced; nobody is in a launch more than one past it (`EpochInv`), and
what a slot of the final barrier holds is read off it (`SlotInv`, for any number of rows, reused
ones included). As long as a chunk is not published no GPU is in a later launch
(`NobodyAhead`), and once it is counted none is in an earlier one (`NobodyBehind`), so a
publication finds all GPUs in the same launch: that is why zeroing an output on its own stream
destroys nothing, and `FinalInv` can say what each tile of each output holds at any time. On
the way in, the ring bounds how far the peers are (`ArrivalInv`); a word that is still in a
queue is of this epoch, and where the slots have been cleared it is of the next
(`WordInv`), so that a drain never counts a word of another launch; with early accumulation
each peer is added once (`AccumInv`).

*ring_attention.* `AttendedOnceHolds` is about every even number of GPUs, every number of
nodes, tiles, blocks, lanes and epochs, whether or not a peer's NIC reads late and whether or
not a GPU misses the value of its barrier word. Beyond `RingAssumption` it assumes
`SyncedLoops`: one launch in an epoch, as the loop with a sync has it. In the default loop K0,
V0 and O are not restored, so that a launch attends to what the one before left
(`MCRingNoSync`); only the run is about it. A kernel's place in a launch is the number of
barriers that lie before it (`Before`), from which its stage and its round can be read back
(`SamePlace`). Nobody passes a barrier that another has not come to (`NobodyAhead`); the word
of a GPU counts those that are in its next barrier or past it, and those already in the one
after, a second time (`BarrierInv`), so that it equals the number of GPUs only when all have
come and none has come twice (`WordMeansAll`). What the buffers hold is said from the point of view of a
GPU in front (`Leads`), which a GPU that does any work always is (`InFront`): before the first
stage of a round K0 and V0 are filled (`FillInv`); in a stage each GPU finds what it reads in
place, and its successor has what was passed on, in the other pair of buffers (`StageInv`).
That K0 and V0 are the side to be filled when a round begins needs the number of GPUs to be
even (`Sides`). `Source` says what a GPU may find in a place in a stage: what a GPU of the node
has brought into the launch there, its own tile or one that has arrived (`Brought`), which
later arrivals leave alone. The result of a block is the tiles of the stages so far, in order
(`ResultInv`), and the places of a result correspond one for one to the tiles of all GPUs of
all nodes (`CellOfPlace`, `PlaceOfCell`, `CellsDiffer`), so that none is read twice or not at
all, whatever a peer has sent.

Only model-checked: all liveness and what rests on fairness and ENABLED, which are out of
the prover's reach; the safety properties of `AgGemm` and `Dispatch`. `Dispatch` rests on what
its tables hold, which `SelectSeq` and `FlattenSeq` compute by recursion: to prove that for
every routing takes an induction over sequences that the provers cannot instantiate. For
`AgGemm` an inductive invariant would have to follow a tile through gather, hops, forwards and
both ways of counting, as the one of `GemmAr` does; it has not been written. The sums that the
proxy's proofs need are folds over finite sets, for which a minimal counterexample
(`WFMin`) serves in place of induction.

## 5. Modelling assumptions

* Writes and flags of one RC queue pair become visible to the receiving GPU in posting
  order. `session.h` may register buffers with relaxed ordering; what PCIe then does
  is below the model. SRD promises no order, and `ProxyEfa` assumes none; the operator
  modules take data and flag as one step, which is what `DataBeforeFlag` gives over RC.
* Completions are successful. A failed completion is reported and dropped by the code.
* The TCP bootstrap does not run into its retry limit.
* `torch.distributed.barrier` is a barrier.
* The broker's ranks all make the same calls with the same `local_world_size`, as
  `ParallelBuffer` does.
* Of gemm_rs one GPU is modelled in full, of gemm_ar and ring_attention one node; the
  others are environment that does what the modelled part does for them. A peer of
  gemm_ar starts an epoch only when somebody has notified it and ends it with all that
  was sent to it. A peer of ring_attention sends once per launch, for each tile whatever its
  NIC finds among its own tiles and those in `late`; a word is taken to be of the epoch in
  which it is sent.
* The theorems of gemm_ar (`Paired`) and of ring_attention (`SyncedLoops`) leave out
  configurations in which the code does not do what they say (`MCGemmArThree`,
  `MCRingNoSync`).
* Shapes and splits on which the code cannot work are excluded by the modules' named
  assumptions, and section 6 names them.

## 6. Observations

Where the code and what is said of it part, as the further configurations show:

* `drain_proxy` waits for `cpu_head` to reach the pushed head and `inflight_` to be 0, but
  a command stashed in `pending_cmd_` (`proxy.h:903-907`) is in neither count;
  `session.h:685-687` speaks of "all FIFO commands" and "all in-flight RDMA writes"
  (`MCProxyStash`). Over EFA the same goes for a refused batch, a pending barrier and the
  FIFOs from `num_proxy_threads` on under `MKERNEL_FIFO_PER_QP`, and the fast
  `prepare_epoch` waits for less still. `QuiescentWhenPrepared` is stated where `DrainsAll`
  holds. Both `drain_proxy` give up after five seconds and let the transition go on
  (`session.h:697`, `session_efa.h:776`), so that nothing of the kind holds without a bound on
  how long the wire takes.
* Over EFA a batch that was refused and is replayed after `commit_epoch` leaves the tail at a
  `cpu_head` of the epoch before (`proxy_efa.h:862-864`, `1037`). The tail is then ahead of
  what was polled; a pusher overwrites a command that the proxy has not seen, which is lost
  (`MCEfaReplay`). The proxy, finding the slot's next turn empty, stays behind by a round, and
  a kernel that pushes more than about two rings of commands can then wait for ever.
* Over EFA the completion that counts is the last WR's, and SRD carries out the WRs of a
  QP in any order: draining `inflight_` to 0 does not commit the data of earlier WRs, as
  `proxy_efa.h:763-769` says ("forces every prior WRITE to be PCIe-committed at the
  remote before BARRIER leaves the wire") (`MCEfaBarrier`). What holds is `BarrierAfterFlags`.
* `commit_epoch` resets the arrival flags by default, though `session.h:878` says it was
  "removed from the default path"; the steady-state loop of gemm_rs
  (`bench/gemm_rs_bench.py:272-278`) has no barrier after it, and a faster peer's arrival
  can be wiped out (`MCBoundaryGemmRs`).
* All peers of gemm_ar write slot 0 of the stage barrier and one value ends the wait
  (`operators/gemm_ar/gemm_ar.cuh:564`); with three nodes the first peer satisfies it for
  all, where `gemm_ar.cu:1386-1387` speaks of "a true (N*M)-rank sync"
  (`MCBoundaryThree`). A GPU that goes on with one peer's word while the NIC has not read
  what it posted to another sends sums of the next launch under this one (`MCGemmArThree`).
* At five nodes a peer's block has six QPs while `reserved0` counts in eights modulo 24
  (`session.h:301`, `proxy.h:626-628`): a transfer goes over the QP of another peer, against
  `gemm_ar.cuh:377-378` (`MCMeshFive`).
* ag_gemm selects the FIFO by `lane_id` while the proxy routes by `reserved0` and drops a
  command outside its QPs (`ag_gemm.cuh:256`, `proxy.h:895-901`), with the multi-node
  defaults of `ag_gemm/session.cuh:89-90` (`MCMeshFifo`).
* gemm_rs raises the signal of a chunk when its tiles are counted, which another warp
  than the one that stores them does: `gemm_rs.cu:911-913` takes it for "all tile
  atomic-adds for this chunk issued" (`MCGemmRsSignal`).
* The reduce CTAs of gemm_ar clear the arrival flags each on its own and one notifies the
  peers: with two of them flags of the next epoch can be cleared (`gemm_ar.cuh:422-427`,
  `gemm_ar.cu:1372-1373`) (`MCGemmArReset`).
* ag_gemm clears its readiness planes after a barrier that only CTA 0 takes part in; in the
  loop without synchronisation a signal of the next launch can be among what is cleared
  (`ag_gemm.cu:496-499`) (`MCAgGemmNoSync`).
* ring_attention posts K0 and V0 without a copy, and the neighbour fills them again from
  the second stage on, with nothing that waits for the NIC (`ring_attention.cu:437-439`)
  (`MCRingSend`). A peer can therefore receive a tile of another GPU in place of the one it
  is to have, and attends to it: `AttendedOnce` is about what was received.
* The default loop of `bench/ring_attention_bench.py:235-244` launches again and again in one
  epoch without restoring K0, V0 and O, and line 298 checks the O of the last launch. From the
  second launch on flags of the first let the copies go, and K0 and V0 hold what the last round
  left there, so that a GPU need not attend to its own node's tiles (`MCRingNoSync`). What
  `AttendedOnce` says of this loop is the number of tiles and their epoch.

Further observations made while modelling; the conditions of the properties and
instances come from them:

* The in-flight limit is shared by all QPs of a proxy while each send queue has its own
  depth; `poll_forward_notifications` posts without looking at it at all (`proxy.h:778`).
* `resume()` then `pause()` before the proxy has left its spin loop would leave it
  spinning without an acknowledgement. Every kernel of the instances pushes
  something, and draining that needs the proxy out of the loop. With one that pushes
  nothing (`kernels` the set of an empty kernel) TLC finds `SessionEnds` violated.
* Slots of the FIFO are released only by iterations that batch a transfer: a kernel that
  pushes nothing but barriers, strided or dropped commands would not get its ring back.
* A barrier is posted when polled, ahead of transfers collected before it in the same
  batch; gemm_ar waits for every tile as well, so `EpochBoundary` does not need the order.
* The fan-out of a barrier is computed from one proxy thread's QPs: with several threads
  it would miss peers. `BarrierReachesEveryPeer` is checked with one.
* `stage_barrier` (`session.h:938`) waits for equality with a token that a peer which has
  gone on to the next one overwrites. Nothing in the repository calls it.
* A rank may open the segment of a dead run before rank 0 reclaims the name, and then waits
  for ever: `CallsComplete` is stated for a clean name.
* EFA: a refused post has already spent slots of `sender_seq_`, so arrival queues may have
  holes after a replay (`proxy_efa.h:665`; slots stay distinct, which `AnnouncedOnce`
  says); with more QPs than threads under `MKERNEL_FIFO_PER_QP` the last FIFOs have no
  reader; `destroy_session` releases only the address handles of slot 0.
* EFA: `set_epoch` (`proxy_efa.h:255-265`) is said to be called only while the proxy is
  paused with nothing in flight; `MKERNEL_PREP_EPOCH_FAST=2` calls it with a running proxy.
* gemm_rs: increments without receiver-owner modify the buffer that the NIC may still
  read, so `SentUnmodified` excludes that mode; a run length that wraps in its 8 bits only
  shortens what a word covers, which the chunk's other tiles do not need.
* gemm_ar: the rows of the final barrier are reused after 1024 launches, when the old
  value is still there (`gemm_ar.cuh:802-808`); with fewer queues than peers a lane has no
  reader; `GEMM_AR_CHUNK_TILES` changes the host's layout and not the device's
  (`gemm_ar.cuh:175-180`); `recv_ready_queue_enabled` is always 0 (`gemm_ar.cuh:1318`).
* ag_gemm: the loop without synchronisation reuses one epoch, so a launch may take rows of
  the one before it for its own; forwarding by the proxy covers rings of up to three
  nodes; a row is forwarded once by every warp.
* `proxy.h:268-269` says that a strided chain carries "wr_id count=1"; it carries the number
  of its WRs (`370`, `374`), as the accounting of `inflight_` needs.
* ring_attention: `barrier_all` waits for equality, so a GPU that does not look at its word
  between the last arrival and the first at the next barrier misses it and spins for ever
  (`Missed`); nothing but time keeps it from that. `EndsUnlessMissed` says that this is the
  only way for a launch to hang. An odd number of devices leaves the buffers
  swapped; an odd `num_comm_sms` gives a lane a stride of zero.
* dispatch_gemm: a request of send and copy CTAs that leaves no SM for the rest makes the
  kernel wait for ever (`DispatchAssumption` excludes it); without the host's reset
  `copy_ready` stays set, so that the loop is right only while its tokens do not change.

## 7. Plan

Done: the modules and runs above. Next:

1. Theorems. `EachTokenOnce` of `Dispatch`, `ProductOfOwnLaunch` of `AgGemm`; that `Proxy`
   under `Ample` delivers what `EpochBoundary` takes for granted.
2. Several proxy threads under one epoch transition, and send queues under batch and forward
   load together.
3. The wiring of the EFA session.

## 8. Not modelled, and why

* Tile library, MMA and register layouts: single-warp data movement without control
  that a model of states would help with.
* NIC selection, memory registration, clock calibration, diagnostics, plots, Python
  glue: configuration or measurement; nothing in the protocols reads their results.
* `ready_queue.cuh`: every operation is empty. The device-side ready queue of gemm_ar and
  the pipelined reductions behind it: the host never enables them.
* The wiring of `create_session` over EFA (`session_efa.h:243-756`): address handles and
  rkey tables; planned above.
* `stage_barrier`: no caller.
* The pipeline between load, multiply and store warps inside one CTA: hardware barriers
  with a fixed order, repeated for every tile.
