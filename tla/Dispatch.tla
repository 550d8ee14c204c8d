------------------------------ MODULE Dispatch ------------------------------
(***************************************************************************)
(* The fused MoE dispatch + grouped GEMM kernel (src/dispatch_gemm.cu,     *)
(* operators/dispatch_gemm/dispatch_gemm.cuh) on every GPU of every node,  *)
(* with the routing tables and the host loop of its benchmark.             *)
(*                                                                         *)
(* The tokens of a GPU go to the same GPU of every other node by RDMA, in  *)
(* chunks that a token may straddle.  Copy CTAs turn arrival flags into    *)
(* copy_ready flags that all GPUs of the node read; dispatch CTAs pull the *)
(* tokens of the GPU's experts into post_tokens, row block by row block,   *)
(* the ones without a remote token first; compute CTAs multiply a row      *)
(* block when its counter says that all its rows are there.                *)
(*                                                                         *)
(* The contents of a buffer are the epoch whose tokens are in it.  How a   *)
(* command reaches its peer is the subject of the Proxy and PeerMesh       *)
(* modules: here data and flag arrive together.                            *)
(***************************************************************************)
EXTENDS Integers, Sequences, FiniteSets, FiniteSetsExt, SequencesExt

CONSTANT Configs    \* shapes, routings, CTA splits and host loops

ASSUME DispatchAssumption == \A c \in Configs :
    /\ {c.devices, c.tokens, c.token_bytes, c.chunk_bytes, c.experts, c.col_blocks, c.slice,
        c.slices, c.warps, c.launches} \subseteq Nat \ {0}
    /\ c.nodes \in Nat \ {0, 1}
    /\ c.watched \in 1..c.nodes    \* the other nodes are left out but for what they send
    /\ {c.req_send, c.req_copy, c.req_dispatch} \subseteq Nat
    /\ Max({1, c.req_send}) + Max({1, c.req_copy}) + 2 <= c.sm_count
    /\ c.chosen \in [0..(c.nodes * c.devices * c.tokens - 1)
                       -> SUBSET (0..(c.nodes * c.devices * c.experts - 1))]
    /\ c.sync \in BOOLEAN

VARIABLE cfg

-----------------------------------------------------------------------------
\* Layout.

Nodes == 0..(cfg.nodes - 1)
Gpus == Nodes \X (0..(cfg.devices - 1))
NodeOf(g) == g[1]
Watched(g) == NodeOf(g) < cfg.watched
GlobalIdx(g) == g[1] * cfg.devices + g[2]
Slots == 0..(cfg.nodes - 2)
peer_rank_for_slot(node, slot) == (node + 1 + slot) % cfg.nodes
slot_at_peer(rank, peer) == (rank - peer - 1) % cfg.nodes

\* The CTA split of fused().
NumSend == Max({1, cfg.req_send})
NumCopy == Max({1, cfg.req_copy})
NumDispatch ==
    LET n == Max({1, cfg.req_dispatch})
    IN  IF NumSend + NumCopy + n >= cfg.sm_count
          THEN Max({1, cfg.sm_count - NumSend - NumCopy - 1}) ELSE n
NumComp == Max({1, cfg.sm_count - NumSend - NumCopy - NumDispatch})

Ctas == 0..(cfg.sm_count - 1)
SendCtas == {b \in Ctas : b < NumSend}
CopyCtas == {b \in Ctas \ SendCtas : b < NumSend + NumCopy}
DispatchCtas == {b \in Ctas \ (SendCtas \cup CopyCtas) : b < NumSend + NumCopy + NumDispatch}
CompCtas == Ctas \ (SendCtas \cup CopyCtas \cup DispatchCtas)

\* Chunks of a GPU's tokens, and those that a token lies in.
TotalChunks == (cfg.tokens * cfg.token_bytes + cfg.chunk_bytes - 1) \div cfg.chunk_bytes
Chunks == 0..(TotalChunks - 1)

ChunksOf(tok) ==
    (tok * cfg.token_bytes) \div cfg.chunk_bytes
      .. (tok * cfg.token_bytes + cfg.token_bytes - 1) \div cfg.chunk_bytes

-----------------------------------------------------------------------------
\* Routing: build_routing and build_pull_indices.

RowBlock == cfg.slice * cfg.slices       \* rows of a row block
Pad == [node |-> -1, dev |-> -1, token |-> -1]
Source(t) == [node |-> t \div (cfg.tokens * cfg.devices),
              dev |-> (t \div cfg.tokens) % cfg.devices, token |-> t % cfg.tokens]
Tokens == DOMAIN cfg.chosen
ExpertsOf(g) == [i \in 1..cfg.experts |-> GlobalIdx(g) * cfg.experts + i - 1]

\* The sources of an expert's tokens, in the order of the tokens.
expert_to_tokens(e) ==
    LET s == SetToSortSeq({t \in Tokens : e \in cfg.chosen[t]}, <)
    IN  [i \in 1..Len(s) |-> Source(s[i])]

Locals(g, e) == SelectSeq(expert_to_tokens(e), LAMBDA s : s.node = NodeOf(g))
Remotes(g, e) == SelectSeq(expert_to_tokens(e), LAMBDA s : s.node # NodeOf(g))

\* Row blocks of an expert on its GPU, and how many of them need nothing from the network.
TotalRb(e) == (Len(expert_to_tokens(e)) + RowBlock - 1) \div RowBlock
LocalRb(g, e) == Len(Locals(g, e)) \div RowBlock

\* Local sources first, padded to whole row blocks.
Padded(g, e) ==
    LET s == Locals(g, e) \o Remotes(g, e)
    IN  [i \in 1..(TotalRb(e) * RowBlock) |-> IF i <= Len(s) THEN s[i] ELSE Pad]
build_pull_indices(g) == FlattenSeq([i \in 1..cfg.experts |-> Padded(g, ExpertsOf(g)[i])])
RowsOf(rb) == {rb * RowBlock + i : i \in 0..(RowBlock - 1)}

-----------------------------------------------------------------------------
\* Walks over the row blocks: those without a remote token first, then the others,
\* each time expert by expert.

RbStart(g, i) == FoldSet(LAMBDA j, n : n + TotalRb(ExpertsOf(g)[j]), 0, 1..(i - 1))

Pass(g, pass) ==
    FlattenSeq([i \in 1..cfg.experts |->
        LET e == ExpertsOf(g)[i]
            n == IF pass = 0 THEN LocalRb(g, e) ELSE TotalRb(e) - LocalRb(g, e)
            from == RbStart(g, i) + (IF pass = 0 THEN 0 ELSE LocalRb(g, e))
        IN  [k \in 1..n |-> [expert |-> e, rb |-> from + k - 1]]])

\* Each row block is `parts' tasks.  A CTA takes every stride-th of them, and carries the
\* remainder over from one expert to the next, but not from one pass to the next.
TasksOf(g, pass, first, stride, parts) ==
    LET all == Pass(g, pass)
        tasks == [k \in 1..(Len(all) * parts) |->
                    [expert |-> all[(k - 1) \div parts + 1].expert,
                     rb |-> all[(k - 1) \div parts + 1].rb, part |-> (k - 1) % parts]]
    IN  SelectSeq([k \in 1..Len(tasks) |-> <<k - 1, tasks[k]>>],
                  LAMBDA x : x[1] % stride = first)

Walk(g, first, stride, parts) ==
    LET both == TasksOf(g, 0, first, stride, parts) \o TasksOf(g, 1, first, stride, parts)
    IN  [k \in 1..Len(both) |-> both[k][2]]

\* What a CTA has to do, in order.
CopyWork(b) ==
    LET mine == SetToSortSeq({c \in Chunks : c % NumCopy = b - NumSend}, <)
    IN  [k \in 1..(Len(mine) * (cfg.nodes - 1)) |->
           <<(k - 1) % (cfg.nodes - 1), mine[(k - 1) \div (cfg.nodes - 1) + 1]>>]
DispatchWork(g, b) == Walk(g, b - NumSend - NumCopy, NumDispatch, cfg.slices)
CompWork(g, b) == Walk(g, b - NumSend - NumCopy - NumDispatch, NumComp, cfg.col_blocks)
CtaWork(g, b) ==
    IF b \in CopyCtas THEN CopyWork(b)
    ELSE IF b \in DispatchCtas THEN DispatchWork(g, b)
    ELSE IF b \in CompCtas THEN CompWork(g, b) ELSE <<>>
Pushers == NumSend * cfg.warps
PushesOf(b) == {c \in Chunks : (c % Pushers) \div cfg.warps = b}

-----------------------------------------------------------------------------
VARIABLES
    pull_dispatch_indices,  \* the host's table: the source of each row of post_tokens
    work,           \* what each CTA but the senders walks over; both follow from cfg
    launch,         \* launches of each GPU so far, the one that runs included
    host,           \* "run", or "reset" between the two host barriers
    pos,            \* each CTA: its role, "cleanup" or "over"
    count,          \* how many items of its work a CTA has done
    sent,           \* chunks of this launch that were pushed
    posted,         \* commands <<slot, chunk, epoch>> that the NIC has not carried out
    peer_tokens,    \* the epoch of the tokens in each chunk; RDMA writes land here
    arrival_flags, copy_ready,
    lanes,          \* rows of the slice in hand that a dispatch CTA has stored
    post_tokens,    \* each row: the epochs of the tokens, by chunk, it was read from
    barrier,        \* rows accounted for in each row block
    cleanup_done,   \* CTAs that are through
    outputs         \* each tile: the products stored to it, in order

net == <<posted, peer_tokens, arrival_flags>>
tables == <<cfg, pull_dispatch_indices, work>>
vars == <<tables, launch, host, pos, count, sent, net, copy_ready, lanes, post_tokens,
          barrier, cleanup_done, outputs>>

Epoch(g) == IF cfg.sync THEN launch[g] ELSE 1

\* The tokens of a GPU: others in every epoch.
pre_tokens(g) == Epoch(g)

RowBlocks(g) == 0..(Len(pull_dispatch_indices[g]) \div RowBlock - 1)
Tiles(g) == RowBlocks(g) \X (0..(cfg.col_blocks - 1))
Fresh(g) == [b \in Ctas |->
    CASE ~Watched(g) -> "over"
      [] Watched(g) /\ b \in SendCtas -> "send"
      [] Watched(g) /\ b \in CopyCtas -> "copy"
      [] Watched(g) /\ b \in DispatchCtas -> "dispatch"
      [] Watched(g) /\ b \in CompCtas -> "comp"]
NotBegun == [b \in Ctas |-> 0]
NoLanes == [b \in DispatchCtas |-> {}]
NoOutputs(g) == [x \in Tiles(g) |-> <<>>]
\* A GPU whose kernel is left out posts its tokens at once.
AllPosted(g, e) == IF Watched(g) THEN {} ELSE Slots \X Chunks \X {e}

Init ==
    /\ cfg \in Configs
    /\ pull_dispatch_indices = [g \in Gpus |-> build_pull_indices(g)]
    /\ work = [g \in Gpus |-> [b \in Ctas |-> CtaWork(g, b)]]
    /\ launch = [g \in Gpus |-> 1] /\ host = [g \in Gpus |-> "run"]
    /\ pos = [g \in Gpus |-> Fresh(g)] /\ count = [g \in Gpus |-> NotBegun]
    /\ sent = [g \in Gpus |-> {}]
    /\ posted = [g \in Gpus |-> AllPosted(g, 1)]
    /\ peer_tokens = [g \in Gpus |-> [x \in Slots \X Chunks |-> 0]]
    /\ arrival_flags = peer_tokens /\ copy_ready = peer_tokens
    /\ lanes = [g \in Gpus |-> NoLanes]
    /\ post_tokens = [g \in Gpus |-> [i \in DOMAIN pull_dispatch_indices[g] |-> {}]]
    /\ barrier = [g \in Gpus |-> [rb \in RowBlocks(g) |-> 0]]
    /\ cleanup_done = [g \in Gpus |-> 0]
    /\ outputs = [g \in Gpus |-> NoOutputs(g)]

Working(g, b, role) == host[g] = "run" /\ pos[g][b] = role

-----------------------------------------------------------------------------
\* fused_inter_send_sm: a command for each peer; the data is read where it lies.
SendChunk(g, b, c) ==
    /\ Working(g, b, "send") /\ c \in PushesOf(b) \ sent[g]
    /\ c >= Pushers => c - Pushers \in sent[g]
    /\ sent' = [sent EXCEPT ![g] = @ \cup {c}]
    /\ posted' = [posted EXCEPT ![g] = @ \cup (Slots \X {c} \X {Epoch(g)})]
    /\ UNCHANGED <<tables, launch, host, pos, count, peer_tokens, arrival_flags, copy_ready,
                   lanes, post_tokens, barrier, cleanup_done, outputs>>

\* The proxy and the NIC: the chunk, then its flag.
Deliver(g, x) ==
    LET h == <<peer_rank_for_slot(NodeOf(g), x[1]), g[2]>>
        at == <<slot_at_peer(NodeOf(g), NodeOf(h)), x[2]>>
    IN  /\ x \in posted[g]
        /\ posted' = [posted EXCEPT ![g] = @ \ {x}]
        /\ peer_tokens' = [peer_tokens EXCEPT ![h][at] = pre_tokens(g)]
        /\ arrival_flags' = [arrival_flags EXCEPT ![h][at] = x[3]]
        /\ UNCHANGED <<tables, launch, host, pos, count, sent, copy_ready, lanes, post_tokens,
                       barrier, cleanup_done, outputs>>

\* fused_inter_copy_sm: an arrival flag becomes a flag that the node's GPUs read.
PublishChunk(g, b) ==
    LET x == work[g][b][count[g][b] + 1]
    IN  /\ Working(g, b, "copy") /\ count[g][b] < Len(work[g][b])
        /\ arrival_flags[g][x] = Epoch(g)
        /\ copy_ready' = [copy_ready EXCEPT ![g][x] = 1]
        /\ count' = [count EXCEPT ![g][b] = @ + 1]
        /\ UNCHANGED <<tables, launch, host, pos, sent, net, lanes, post_tokens, barrier,
                       cleanup_done, outputs>>

-----------------------------------------------------------------------------
\* dispatch_fused: the lanes of a warp, a row each.

SliceRows(s) == {s.rb * RowBlock + s.part * cfg.slice + l : l \in 0..(cfg.slice - 1)}
Slice(g, b) == work[g][b][count[g][b] + 1]
Dispatching(g, b) ==
    Working(g, b, "dispatch") /\ count[g][b] < Len(work[g][b])

\* The buffers that the token of a source lies in, with what is in them.
ReadFrom(g, s) ==
    IF s.node = NodeOf(g) THEN {pre_tokens(<<s.node, s.dev>>)}
    ELSE {peer_tokens[<<NodeOf(g), s.dev>>][<<slot_at_peer(s.node, NodeOf(g)), c>>] :
            c \in ChunksOf(s.token)}

\* The bug of waiting for the chunk in which the token begins.
ReadyFirst(g, s) ==
    s.node # NodeOf(g) =>
        copy_ready[<<NodeOf(g), s.dev>>][<<slot_at_peer(s.node, NodeOf(g)),
                                           Min(ChunksOf(s.token))>>] = 1

Ready(g, s) ==
    s.node # NodeOf(g) => \A c \in ChunksOf(s.token) :
        copy_ready[<<NodeOf(g), s.dev>>][<<slot_at_peer(s.node, NodeOf(g)), c>>] = 1

\* A lane waits for its token's chunks and stores the token; a padding row is left alone.
PullToken(g, b, row) ==
    LET s == pull_dispatch_indices[g][row + 1]
    IN  /\ Dispatching(g, b) /\ row \in SliceRows(Slice(g, b)) \ lanes[g][b]
        /\ s # Pad /\ Ready(g, s)
        /\ post_tokens' = [post_tokens EXCEPT ![g][row + 1] = ReadFrom(g, s)]
        /\ lanes' = [lanes EXCEPT ![g][b] = @ \cup {row}]
        /\ UNCHANGED <<tables, launch, host, pos, count, sent, net, copy_ready, barrier,
                       cleanup_done, outputs>>

\* One atomic for the warp: all rows of the slice, padding included.
CountSlice(g, b) ==
    LET s == Slice(g, b)
    IN  /\ Dispatching(g, b)
        /\ lanes[g][b] = {row \in SliceRows(s) : pull_dispatch_indices[g][row + 1] # Pad}
        /\ barrier' = [barrier EXCEPT ![g][s.rb] = @ + cfg.slice]
        /\ lanes' = [lanes EXCEPT ![g][b] = {}]
        /\ count' = [count EXCEPT ![g][b] = @ + 1]
        /\ UNCHANGED <<tables, launch, host, pos, sent, net, copy_ready, post_tokens,
                       cleanup_done, outputs>>

\* group_gemm_fused: when the row block is complete, its rows times a column block of the
\* expert's weights.  Nobody writes a complete row block again in the same launch, so
\* that the loads of the loader warp are one step.
Multiply(g, b) ==
    LET t == work[g][b][count[g][b] + 1]
        rows == [i \in RowsOf(t.rb) |->
                   [from |-> pull_dispatch_indices[g][i + 1], epochs |-> post_tokens[g][i + 1]]]
    IN  /\ Working(g, b, "comp") /\ count[g][b] < Len(work[g][b])
        /\ barrier[g][t.rb] = RowBlock
        /\ outputs' = [outputs EXCEPT ![g][<<t.rb, t.part>>] =
             Append(@, [expert |-> t.expert, rows |-> rows])]
        /\ count' = [count EXCEPT ![g][b] = @ + 1]
        /\ UNCHANGED <<tables, launch, host, pos, sent, net, copy_ready, lanes, post_tokens,
                       barrier, cleanup_done>>

-----------------------------------------------------------------------------
\* The end of fused_kernel: the CTA that comes last clears the counters of the rows.

WorkDone(g, b) ==
    /\ pos[g][b] = "send" => PushesOf(b) \subseteq sent[g]
    /\ count[g][b] = Len(work[g][b])

ArriveCleanup(g, b) ==
    /\ \E role \in {"send", "copy", "dispatch", "comp"} : Working(g, b, role)
    /\ WorkDone(g, b)
    /\ LET last == cleanup_done[g] + 1 = cfg.sm_count
       IN  /\ cleanup_done' = [cleanup_done EXCEPT ![g] = IF last THEN 0 ELSE @ + 1]
           /\ pos' = [pos EXCEPT ![g][b] = IF last THEN "cleanup" ELSE "over"]
    /\ UNCHANGED <<tables, launch, host, count, sent, net, copy_ready, lanes, post_tokens,
                   barrier, outputs>>

\* The bug of leaving the counters to the host.
CleanupNothing(g, b) ==
    /\ pos[g][b] = "cleanup"
    /\ pos' = [pos EXCEPT ![g][b] = "over"]
    /\ UNCHANGED <<tables, launch, host, count, sent, net, copy_ready, lanes, post_tokens,
                   barrier, cleanup_done, outputs>>

Cleanup(g, b) ==
    /\ pos[g][b] = "cleanup"
    /\ barrier' = [barrier EXCEPT ![g] = [rb \in DOMAIN @ |-> 0]]
    /\ pos' = [pos EXCEPT ![g][b] = "over"]
    /\ UNCHANGED <<tables, launch, host, count, sent, net, copy_ready, lanes, post_tokens,
                   cleanup_done, outputs>>

-----------------------------------------------------------------------------
\* The host loop.  The kernel of a node that is left out is over when its copy CTAs have
\* seen their flags.
KernelOver(g) ==
    /\ host[g] = "run" /\ \A b \in Ctas : pos[g][b] = "over"
    /\ ~Watched(g) => \A x \in Slots \X Chunks : arrival_flags[g][x] = Epoch(g)

Relaunched(g) ==
    /\ launch' = [launch EXCEPT ![g] = @ + 1]
    /\ pos' = [pos EXCEPT ![g] = Fresh(g)] /\ count' = [count EXCEPT ![g] = NotBegun]
    /\ sent' = [sent EXCEPT ![g] = {}]
    /\ outputs' = [outputs EXCEPT ![g] = NoOutputs(g)]

\* With synchronisation: all kernels are over, the GPU's flags are cleared ...
HostReset(g) ==
    /\ cfg.sync /\ launch[g] < cfg.launches
    /\ KernelOver(g)
    /\ \A h \in Gpus : launch[h] = launch[g] + 1 \/ (launch[h] = launch[g] /\ KernelOver(h))
    /\ Relaunched(g)
    /\ host' = [host EXCEPT ![g] = "reset"]
    /\ copy_ready' = [copy_ready EXCEPT ![g] = [x \in DOMAIN @ |-> 0]]
    /\ barrier' = [barrier EXCEPT ![g] = [rb \in DOMAIN @ |-> 0]]
    /\ UNCHANGED <<tables, net, lanes, post_tokens, cleanup_done>>

\* ... and the launch waits for all GPUs to have done so.
HostLaunch(g) ==
    /\ host[g] = "reset" /\ \A h \in Gpus : launch[h] >= launch[g]
    /\ host' = [host EXCEPT ![g] = "run"]
    /\ posted' = [posted EXCEPT ![g] = @ \cup AllPosted(g, Epoch(g))]
    /\ UNCHANGED <<tables, launch, pos, count, sent, peer_tokens, arrival_flags, copy_ready,
                   lanes, post_tokens, barrier, cleanup_done, outputs>>

\* Without it the stream goes on to the next launch, in the same epoch: nothing is reset
\* but what the kernel itself has cleared.
Relaunch(g) ==
    /\ ~cfg.sync /\ launch[g] < cfg.launches /\ KernelOver(g)
    /\ Relaunched(g)
    /\ posted' = [posted EXCEPT ![g] = @ \cup AllPosted(g, Epoch(g))]
    /\ UNCHANGED <<tables, host, peer_tokens, arrival_flags, copy_ready, lanes, post_tokens,
                   barrier, cleanup_done>>

-----------------------------------------------------------------------------
Cta(g, b) ==
    \/ \E c \in Chunks : SendChunk(g, b, c)
    \/ PublishChunk(g, b)
    \/ Dispatching(g, b) /\ \E row \in SliceRows(Slice(g, b)) : PullToken(g, b, row)
    \/ CountSlice(g, b)
    \/ Multiply(g, b)
    \/ ArriveCleanup(g, b) \/ Cleanup(g, b)

Host(g) == HostReset(g) \/ HostLaunch(g) \/ Relaunch(g)
Network(g) == \E x \in posted[g] : Deliver(g, x)

AllOver == \A g \in Gpus : launch[g] = cfg.launches /\ KernelOver(g)
Finished == AllOver /\ UNCHANGED vars

Next == (\E g \in Gpus : Host(g) \/ Network(g) \/ \E b \in Ctas : Cta(g, b)) \/ Finished

Spec == Init /\ [][Next]_vars

\* All CTAs of the grid are resident, the NIC carries out what is posted, and the hosts
\* go on.  No step can be repeated without end, so that it is enough that some step that
\* can be taken is taken.
FairSpec == Spec /\ WF_vars(Next)

-----------------------------------------------------------------------------
\* Properties.

\* Whatever the order in which chunks arrive and CTAs walk: when a kernel is over, each
\* expert of the GPU has multiplied every token that was routed to it exactly once for
\* each column block, with the contents of this epoch in all the chunks it lies in, and
\* no other token.
EachTokenOnce ==
    \A g \in Gpus : Watched(g) /\ KernelOver(g) =>
        /\ \A x \in Tiles(g) : Len(outputs[g][x]) = 1
        /\ \A i \in 1..cfg.experts, col \in 0..(cfg.col_blocks - 1) :
             LET e == ExpertsOf(g)[i]
                 mine == {rb \in RowBlocks(g) : outputs[g][<<rb, col>>][1].expert = e}
                 used == UNION {{<<row, outputs[g][<<rb, col>>][1].rows[row]>> : row \in RowsOf(rb)} :
                                  rb \in mine}
                 real == {u \in used : u[2].from # Pad}
             IN  /\ {u[2].from : u \in real} = {Source(t) : t \in {t \in Tokens : e \in cfg.chosen[t]}}
                 /\ Cardinality(real) = Cardinality({t \in Tokens : e \in cfg.chosen[t]})
                 /\ \A u \in real : u[2].epochs = {Epoch(g)}

\* Every launch ends on every GPU, with the host's resets between the launches or
\* without them: no counter overshoots the value it is waited for with equality.
LaunchesEnd == <>AllOver
=============================================================================
