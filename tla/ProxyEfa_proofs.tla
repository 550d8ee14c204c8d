--------------------------- MODULE ProxyEfa_proofs ---------------------------
(***************************************************************************)
(* The EFA proxy thread, for every configuration, kernel, queue depth and  *)
(* batch size: however SRD orders the WRs and whatever the NIC refuses, a  *)
(* command is announced once and in a slot of its own, inflight_ is the    *)
(* number of commands on the way, no flag lands behind the barrier that    *)
(* follows it, and, where the drain looks everywhere, an epoch ends with   *)
(* nothing on the way.                                                     *)
(***************************************************************************)
EXTENDS ProxyEfa, TLAPS, FunctionTheorems, FiniteSetTheorems, SequenceTheorems

-----------------------------------------------------------------------------
\* Types.

Cmds == {Of(d, e) : d \in UNION cfg.kernels, e \in Nat} \cup {Empty}
TransferWrs == [op : {"imm", "data", "flag", "tail"}, cmd : Cmds, qp : QPs, slot : Nat,
                epoch : Nat, n : {0, 1}]
NotifyWrs == [op : {"barrier"}, cmd : [peer : Peers, for : Cmds], qp : {0}, slot : {0},
              epoch : Nat, n : {1}]

ProxyAt == {"top", "spin", "unack", "gate", "collect", "accumulate", "inline", "post",
            "poll", "poll_posted", "exit", "ended"}
HostAt == {"idle", "kernel", "drain", "drained", "pausing", "drain_cq", "prepared", "resume",
           "resuming", "join", "destroyed"}

TypeOK ==
    /\ cfg \in Configs
    /\ todo \in SUBSET Cmds /\ fifo \in [Fifos -> Seq(Cmds)]
    /\ cpu_head \in [Fifos -> Nat] /\ tail \in [Fifos -> Nat]
    /\ tail_cache \in [Fifos -> Nat] /\ pending_cpu_head \in Nat
    /\ ppc \in ProxyAt /\ hpc \in HostAt /\ cur \in Fifos
    /\ batch \in Seq(Cmds) /\ stash \in Seq(Cmds) /\ barrier \in Seq(Cmds)
    /\ refused \in BOOLEAN /\ pre_inflight \in Int /\ inflight \in Int
    /\ sender_seq \in [QPs -> Nat]
    /\ running \in BOOLEAN /\ paused \in BOOLEAN /\ ack_paused \in BOOLEAN
    /\ epoch \in Nat \ {0}
    /\ wire \in SUBSET (TransferWrs \cup NotifyWrs) /\ IsFiniteSet(wire)
    /\ landed \in SUBSET (TransferWrs \cup NotifyWrs)
    /\ cq \in SUBSET (TransferWrs \cup NotifyWrs \cup [op : {"arrival"}, tile : cfg.incoming])
    /\ IsFiniteSet(cq)
    /\ flag \in [cfg.incoming -> Nat] /\ sent \in [cfg.incoming -> Nat]

-----------------------------------------------------------------------------
\* The inductive invariant.

\* Where the two threads are relative to each other: outside the fast transition the
\* proxy spins from the acknowledgement to the end of commit_epoch.
PhaseInv ==
    /\ ack_paused => ppc = "spin" /\ paused
    /\ paused <=> ~cfg.fast /\ hpc \in {"pausing", "drain_cq", "prepared", "resume", "resuming"}
    /\ hpc = "drain_cq" \/ (~cfg.fast /\ hpc \in {"prepared", "resume"}) => ack_paused
    /\ hpc = "resuming" /\ ~cfg.fast => ppc = "spin" /\ ~ack_paused
    /\ hpc # "kernel" => todo = {}
    /\ running <=> hpc \notin {"join", "destroyed"}
    /\ ppc \in {"exit", "ended"} => ~running
    /\ hpc = "destroyed" => ppc = "ended"
    /\ cfg.fast => hpc \notin {"drained", "pausing", "drain_cq"}

\* What the proxy holds: a batch of transfers over one QP, a stash that is not
\* overwritten since nothing is collected while it is full, a barrier at its gate.
LoopInv ==
    /\ \A i \in 1..Len(batch) :
         batch[i].type = "WRITE" /\ LocalQp(batch[i]) = LocalQp(batch[1])
    /\ \A i, j \in 1..Len(batch) : batch[i] = batch[j] => i = j
    /\ \A i \in 1..Len(stash) : stash[i].type = "WRITE"
    /\ \A i \in 1..Len(barrier) : barrier[i].type = "BARRIER_NOTIFY"
    /\ Len(stash) <= 1 /\ Len(barrier) <= 1
    /\ refused => batch # <<>> /\ ppc \notin {"gate", "collect", "accumulate", "inline", "poll_posted"}
    /\ ppc = "gate" => barrier # <<>> /\ stash = <<>>
    /\ ppc = "inline" => batch = <<>> /\ stash = <<>> /\ cpu_head[cur] > 0
                         /\ fifo[cur][cpu_head[cur]].type = "BARRIER_NOTIFY"
    /\ ppc \in {"collect", "accumulate"} /\ stash # <<>> => pre_inflight >= EffectiveMaxInflight
    /\ ppc = "accumulate" => batch # <<>> /\ stash = <<>>

\* What waits is of this epoch at the latest, all different, and not in the kernel's hands.
Unlaunched == hpc \in {"resume", "resuming", "idle"}
WaitingInv ==
    /\ \A c \in todo : c.gen = epoch
    /\ \A f \in Fifos : cpu_head[f] <= Len(fifo[f])
    /\ \A f \in Fifos : \A i \in 1..Len(fifo[f]) :
         fifo[f][i].gen <= epoch /\ fifo[f][i] \notin todo
         /\ (Unlaunched => fifo[f][i].gen < epoch)
    /\ \A f, g \in Fifos : \A i \in 1..Len(fifo[f]), j \in 1..Len(fifo[g]) :
         fifo[f][i].type # "EMPTY" /\ fifo[f][i] = fifo[g][j] => f = g /\ i = j

\* A command the proxy has taken: in the batch it has still to post, stashed, posted;
\* a barrier waiting, on its way to be posted, or posted.
Unposted == refused \/ ppc \in {"collect", "accumulate", "inline", "post"}
InBatch(c) == Unposted /\ \E i \in 1..Len(batch) : batch[i] = c
InStash(c) == \E i \in 1..Len(stash) : stash[i] = c
InPosted(c) == \E w \in wire \cup landed : w.op # "barrier" /\ w.cmd = c
InGate(c) == \E i \in 1..Len(barrier) : barrier[i] = c
Inline(c) == ppc = "inline" /\ fifo[cur][cpu_head[cur]] = c
InNotified(c) == \E w \in wire \cup landed : w.op = "barrier" /\ w.cmd.for = c
Held(c) == InBatch(c) \/ InStash(c) \/ InPosted(c) \/ InGate(c) \/ Inline(c) \/ InNotified(c)

HeldInv ==
    \A c \in Cmds : Held(c) =>
        /\ c.type # "EMPTY"
        /\ c.gen <= epoch /\ c \notin todo /\ (Unlaunched => c.gen < epoch)
        /\ \A f \in Fifos : \A i \in (cpu_head[f] + 1)..Len(fifo[f]) : fifo[f][i] # c

\* It is held in one place only.
OnceInv ==
    \A c \in Cmds :
        /\ InStash(c) => ~InBatch(c) /\ ~InPosted(c)
        /\ InBatch(c) => ~InPosted(c)
        /\ InGate(c) => ~Inline(c) /\ ~InNotified(c)
        /\ Inline(c) => ~InNotified(c)

\* Nothing polled is lost: a transfer is in hand or has its announcement.
Flagged(c) == \E w \in wire \cup landed : Announces(w) /\ w.cmd = c
KeptInv ==
    \A f \in Fifos : \A i \in 1..cpu_head[f] :
        fifo[f][i].type = "WRITE" =>
            InBatch(fifo[f][i]) \/ InStash(fifo[f][i]) \/ Flagged(fifo[f][i])

\* A WR is on the way, or landed and at most waiting to be polled; a command has one
\* announcement, and the slots of this epoch's queues are those below sender_seq_.
WrInv ==
    /\ wire \cap landed = {}
    /\ \A w \in cq : w.op # "arrival" => w \in landed
    /\ \A v, w \in wire \cup landed : Announces(v) /\ Announces(w) /\ v.cmd = w.cmd => v = w
    /\ ~HasTail => \A w \in wire \cup landed : Announces(w) => w.n > 0
    /\ WriteImm => \A w \in wire \cup landed : w.n > 0

SlotInv ==
    UseArrivalQueue /\ ~WriteImm =>
        /\ \A w \in wire \cup landed : Announces(w) =>
             w.epoch <= epoch /\ (w.epoch = epoch => w.slot < sender_seq[w.qp])
        /\ \A v, w \in wire \cup landed :
             Announces(v) /\ Announces(w) /\ v # w /\ v.epoch = w.epoch /\ v.qp = w.qp
               => v.slot # w.slot

\* inflight_ is exact.
CountInv == inflight = Cardinality(Counted(wire \cup cq))

\* The flags of the transfers ahead of a posted barrier have landed.
BarrierInv ==
    ~HasTail => \A w \in Barriers : \A f \in Fifos : \A i \in 1..Len(fifo[f]) :
        fifo[f][i] = w.cmd.for =>
            \A k \in 1..(i - 1) : fifo[f][k].type = "WRITE" => Announced(fifo[f][k])

\* Where drain_proxy looks everywhere, nothing is refused, stashed or left behind.
Drained == {"drained", "pausing", "drain_cq", "prepared", "join", "destroyed"}
DrainInv ==
    /\ hpc = "prepared" /\ ~cfg.fast => inflight = 0
    /\ ppc = "ended" => inflight <= 0
    /\ DrainsAll =>
         /\ ~refused /\ stash = <<>> /\ barrier = <<>> /\ ppc \notin {"gate", "inline"}
         /\ ppc \in {"collect", "accumulate", "post"} =>
              /\ inflight = pre_inflight
              /\ batch # <<>> => pre_inflight + Len(batch) <= EffectiveMaxInflight
         /\ hpc \in Drained => \A f \in Fifos : cpu_head[f] >= Len(fifo[f])

IInv ==
    /\ TypeOK /\ PhaseInv /\ LoopInv /\ WaitingInv /\ HeldInv /\ OnceInv /\ KeptInv
    /\ WrInv /\ SlotInv /\ CountInv /\ BarrierInv /\ DrainInv

-----------------------------------------------------------------------------
\* The configuration.

\* The configuration of a session never changes.
LEMMA ConstNext == [Next]_vars => cfg' = cfg
<1> SUFFICES ASSUME [Next]_vars PROVE cfg' = cfg
  OBVIOUS
<1>1. CASE ProxyStep
  BY <1>1 DEF ProxyStep, Leave, Acknowledge, SpinEnds, Withdraw, OpenGate, Replay, StartBatch,
     Collect, Polls, CollectEnds, BarrierDrain, PostStageBarrier, PostBatch, BatchRefused,
     PostNothing, PollCq, ExitDrain, Exit
<1>2. CASE HostStep
  BY <1>2 DEF HostStep, Launch, KernelEnds, DrainProxy, Pause, PauseReturns, HostDrainCq,
     Prepared, CommitEpoch, ResumeAck, Resume, Stop, Join
<1>3. CASE \/ \E c \in todo : Push(c)
           \/ \E w \in wire : Execute(w)
           \/ \E t \in DOMAIN sent : PeerWrites(t)
  BY <1>3 DEF Push, Execute, PeerWrites
<1>4. CASE Finished \/ UNCHANGED vars
  BY <1>4 DEF Finished, vars
<1> QED
  BY <1>1, <1>2, <1>3, <1>4 DEF Next

\* So what it defines stays as it is.
LEMMA CfgFrame ==
    ASSUME cfg' = cfg
    PROVE  /\ QPs' = QPs /\ Peers' = Peers /\ Fifos' = Fifos /\ Cmds' = Cmds
           /\ TransferWrs' = TransferWrs /\ NotifyWrs' = NotifyWrs
           /\ WriteImm' = WriteImm /\ UseArrivalQueue' = UseArrivalQueue /\ HasTail' = HasTail
           /\ EffectiveMaxInflight' = EffectiveMaxInflight /\ DrainsAll' = DrainsAll
           /\ NumFifos' = NumFifos
<1>1. QPs' = QPs /\ Peers' = Peers /\ Fifos' = Fifos /\ NumFifos' = NumFifos
  BY DEF QPs, Peers, Fifos, NumFifos
<1>2. Cmds' = Cmds
  BY DEF Cmds
<1>3. TransferWrs' = TransferWrs /\ NotifyWrs' = NotifyWrs
  BY <1>1, <1>2 DEF TransferWrs, NotifyWrs
<1>4. WriteImm' = WriteImm /\ UseArrivalQueue' = UseArrivalQueue /\ HasTail' = HasTail
  BY DEF WriteImm, UseArrivalQueue, HasTail
<1>5. EffectiveMaxInflight' = EffectiveMaxInflight
  BY <1>4 DEF EffectiveMaxInflight
<1>6. DrainsAll' = DrainsAll
  BY <1>4 DEF DrainsAll, DrainMayTimeOut
<1> QED
  BY <1>1, <1>2, <1>3, <1>4, <1>5, <1>6

\* Numbers of the configuration.
LEMMA CfgTypes ==
    ASSUME cfg \in Configs
    PROVE  /\ cfg.num_qps \in Nat \ {0} /\ cfg.max_inflight \in Nat \ {0}
           /\ NumFifos \in Nat \ {0} /\ 0 \in Fifos /\ 0 \in QPs
           /\ WriteImm \in BOOLEAN /\ UseArrivalQueue \in BOOLEAN /\ HasTail \in BOOLEAN
           /\ cfg.fast \in BOOLEAN
           /\ cfg.fast => cfg.skip_reset
<1>1. /\ {cfg.num_qps, cfg.num_peers, cfg.max_inflight, cfg.max_epoch} \subseteq Nat \ {0}
      /\ {cfg.write_imm, cfg.use_arrival_queue, cfg.enable_remote_tail, cfg.fifo_per_qp,
          cfg.refuses, cfg.fast, cfg.skip_reset, cfg.peer_ahead,
          cfg.drain_may_time_out} \subseteq BOOLEAN
      /\ cfg.fast => cfg.skip_reset
  BY ConfigAssumption
<1>2. NumFifos \in Nat \ {0}
  BY <1>1 DEF NumFifos
<1> QED
  BY <1>1, <1>2 DEF Fifos, QPs, WriteImm, UseArrivalQueue, HasTail

\* The remainder and the quotient of the lane, without overshooting.
LEMMA ModFifo == \A l \in Nat : \A n \in Nat \ {0} :
                    l % n \in 0..(n - 1) /\ (l % n) \div n = 0 /\ (l % n) \div 1 = l % n
<1> TAKE l \in Nat, n \in Nat \ {0}
<1>1. l % n \in 0..(n - 1)
  BY SMT
<1> DEFINE k == l % n
<1>2. k \in Nat /\ k < n
  BY <1>1
<1> HIDE DEF k
<1>3. k \div n = 0 /\ k \div 1 = k
  BY <1>2, SMT
<1> QED
  BY <1>1, <1>3 DEF k

\* The fields of a command, and where it is routed.
LEMMA CmdTypes ==
    ASSUME cfg \in Configs, NEW c \in Cmds
    PROVE  /\ c.type \in {"WRITE", "FENCE", "BARRIER_NOTIFY", "EMPTY"}
           /\ c.tile \in Nat /\ c.lane \in Nat /\ c.dst \in Nat /\ c.gen \in Nat
           /\ LocalQp(c) \in QPs /\ FifoOf(c) \in Fifos
<1>1. c = Empty \/ \E d \in UNION cfg.kernels, e \in Nat : c = Of(d, e)
  BY DEF Cmds
<1>2. \A d \in UNION cfg.kernels :
        d \in [type : {"WRITE", "FENCE", "BARRIER_NOTIFY"}, tile : Nat, lane : Nat, dst : Nat]
  BY KernelAssumption
<1>3. /\ c.type \in {"WRITE", "FENCE", "BARRIER_NOTIFY", "EMPTY"}
      /\ c.tile \in Nat /\ c.lane \in Nat /\ c.dst \in Nat /\ c.gen \in Nat
  BY <1>1, <1>2 DEF Of, Empty
<1>4. LocalQp(c) \in QPs
  BY <1>3, CfgTypes, ModFifo DEF LocalQp, QPs
<1>5. FifoOf(c) \in Fifos
  <2>1. CASE NumFifos = 1
    <3>1. cfg.num_qps \div NumFifos = cfg.num_qps
      BY <2>1, CfgTypes
    <3>2. (c.lane % cfg.num_qps) \div cfg.num_qps = 0
      BY <1>3, CfgTypes, ModFifo
    <3> QED
      BY <3>1, <3>2, CfgTypes DEF FifoOf
  <2>2. CASE NumFifos = cfg.num_qps
    <3>1. cfg.num_qps \div NumFifos = 1
      BY <2>2, CfgTypes
    <3>2. FifoOf(c) = c.lane % cfg.num_qps
      BY <1>3, <3>1, CfgTypes, ModFifo DEF FifoOf
    <3> QED
      BY <1>3, <2>2, <3>2, CfgTypes, ModFifo DEF Fifos
  <2> QED
    BY <2>1, <2>2 DEF NumFifos
<1> QED
  BY <1>3, <1>4, <1>5

\* A command of a kernel, launched in this epoch, is a command.
LEMMA LaunchedCmds ==
    ASSUME NEW k \in cfg.kernels, NEW e \in Nat
    PROVE  {Of(c, e) : c \in k} \in SUBSET Cmds
BY DEF Cmds

-----------------------------------------------------------------------------
\* The work requests of a batch.

\* The WR that announces the i-th command of b, and the one whose completion counts.
Announcement(b, i) ==
    IF WriteImm
      THEN Wr("imm", b[i], LocalQp(b[1]), b[i].tile, 1)
      ELSE Wr("flag", b[i], LocalQp(b[1]), SlotOf(b, i),
              IF UseArrivalQueue /\ HasTail THEN 0 ELSE 1)
Final(b, i) ==
    IF ~WriteImm /\ UseArrivalQueue /\ HasTail
      THEN Wr("tail", b[i], LocalQp(b[1]), SlotOf(b, i) + 1, 1)
      ELSE Announcement(b, i)

\* A batch for one QP takes consecutive slots of its queue.
LEMMA SlotIs ==
    ASSUME cfg \in Configs, NEW b \in Seq(Cmds), NEW i \in 1..Len(b),
           sender_seq \in [QPs -> Nat],
           \A k \in 1..Len(b) : LocalQp(b[k]) = LocalQp(b[1])
    PROVE  /\ SlotOf(b, i) \in Nat
           /\ UseArrivalQueue => SlotOf(b, i) = sender_seq[LocalQp(b[1])] + (i - 1)
<1>1. b[i] \in Cmds /\ b[1] \in Cmds
  OBVIOUS
<1>2. b[i].tile \in Nat /\ sender_seq[LocalQp(b[1])] \in Nat /\ LocalQp(b[i]) = LocalQp(b[1])
  BY <1>1, CmdTypes
<1>3. {h \in 1..(i - 1) : LocalQp(b[h]) = LocalQp(b[i])} = 1..(i - 1)
  OBVIOUS
<1>4. Cardinality(1..(i - 1)) = i - 1
  BY FS_Interval
<1>5. UseArrivalQueue =>
        SlotOf(b, i) = sender_seq[LocalQp(b[i])]
                         + Cardinality({h \in 1..(i - 1) : LocalQp(b[h]) = LocalQp(b[i])})
  BY DEF SlotOf
<1>6. ~UseArrivalQueue => SlotOf(b, i) = b[i].tile
  BY DEF SlotOf
<1>7. UseArrivalQueue => SlotOf(b, i) = sender_seq[LocalQp(b[1])] + (i - 1)
  BY <1>2, <1>3, <1>4, <1>5
<1> QED
  BY <1>2, <1>6, <1>7

\* Every WR of a batch is about one of its commands, on the QP of the batch.
LEMMA BatchWrIs ==
    ASSUME cfg \in Configs, NEW b \in Seq(Cmds), b # <<>>, epoch \in Nat,
           sender_seq \in [QPs -> Nat],
           \A k \in 1..Len(b) : LocalQp(b[k]) = LocalQp(b[1]),
           NEW w \in BatchWrs(b)
    PROVE  /\ w \in TransferWrs /\ w.qp = LocalQp(b[1]) /\ w.epoch = epoch
           /\ \E i \in 1..Len(b) :
                /\ w.cmd = b[i]
                /\ Announces(w) => w = Announcement(b, i)
                /\ w.n > 0 => w = Final(b, i)
           /\ WriteImm => w.n = 1
<1> DEFINE q == LocalQp(b[1])
<1>1. q \in QPs /\ \A i \in 1..Len(b) : b[i] \in Cmds /\ b[i].tile \in Nat /\ SlotOf(b, i) \in Nat
  BY CmdTypes, SlotIs
<1>2. CASE WriteImm
  <2>1. PICK i \in 1..Len(b) : w = Wr("imm", b[i], q, b[i].tile, 1)
    BY <1>2 DEF BatchWrs, ImmWrs
  <2> QED
    BY <1>1, <1>2, <2>1 DEF Wr, TransferWrs, Announces, Announcement, Final
<1>3. CASE ~WriteImm
  <2> DEFINE tails == UseArrivalQueue /\ HasTail
  <2>1. PICK i \in 1..Len(b) :
           \/ w = Wr("data", b[i], q, 0, 0)
           \/ w = Wr("flag", b[i], q, SlotOf(b, i), IF tails THEN 0 ELSE 1)
           \/ tails /\ w = Wr("tail", b[i], q, SlotOf(b, i) + 1, 1)
    BY <1>3 DEF BatchWrs, FlagWrs
  <2>2. CASE w = Wr("data", b[i], q, 0, 0)
    BY <1>1, <1>3, <2>2 DEF Wr, TransferWrs, Announces
  <2>3. CASE w = Wr("flag", b[i], q, SlotOf(b, i), IF tails THEN 0 ELSE 1)
    BY <1>1, <1>3, <2>3 DEF Wr, TransferWrs, Announces, Announcement, Final
  <2>4. CASE tails /\ w = Wr("tail", b[i], q, SlotOf(b, i) + 1, 1)
    BY <1>1, <1>3, <2>4 DEF Wr, TransferWrs, Announces, Final
  <2> QED
    BY <2>1, <2>2, <2>3, <2>4
<1> QED
  BY <1>2, <1>3

\* Every command of a batch has its announcement and its last WR.
LEMMA BatchWrHas ==
    ASSUME NEW b \in Seq(Cmds), NEW i \in 1..Len(b)
    PROVE  /\ Announcement(b, i) \in BatchWrs(b) /\ Announces(Announcement(b, i))
           /\ Announcement(b, i).cmd = b[i]
           /\ ~HasTail => Announcement(b, i).n = 1
           /\ Final(b, i) \in BatchWrs(b) /\ Final(b, i).n = 1 /\ Final(b, i).cmd = b[i]
           /\ Final(b, i).op # "arrival"
<1>1. CASE WriteImm
  BY <1>1 DEF BatchWrs, ImmWrs, Wr, Announces, Announcement, Final
<1>2. CASE ~WriteImm
  <2> DEFINE q == LocalQp(b[1])
             tails == UseArrivalQueue /\ HasTail
             own == {Wr("data", b[i], q, 0, 0),
                     Wr("flag", b[i], q, SlotOf(b, i), IF tails THEN 0 ELSE 1)}
                    \cup (IF tails THEN {Wr("tail", b[i], q, SlotOf(b, i) + 1, 1)} ELSE {})
  <2>1. own \subseteq BatchWrs(b)
    BY <1>2 DEF BatchWrs, FlagWrs
  <2>2. Announcement(b, i) \in own
    BY <1>2 DEF Announcement
  <2>3. Final(b, i) \in own
    BY <1>2 DEF Announcement, Final
  <2>4. /\ Announces(Announcement(b, i)) /\ Announcement(b, i).cmd = b[i]
        /\ ~HasTail => Announcement(b, i).n = 1
    BY <1>2 DEF Announcement, Wr, Announces
  <2>5. Final(b, i).n = 1 /\ Final(b, i).cmd = b[i] /\ Final(b, i).op # "arrival"
    BY <1>2 DEF Announcement, Final, Wr
  <2> QED
    BY <2>1, <2>2, <2>3, <2>4, <2>5
<1> QED
  BY <1>1, <1>2

\* There are finitely many.
LEMMA BatchFinite ==
    ASSUME NEW b \in Seq(Cmds)
    PROVE  IsFiniteSet(BatchWrs(b))
<1> DEFINE n == Len(b)
           q == LocalQp(b[1])
           tails == UseArrivalQueue /\ HasTail
           I == [i \in 1..n |-> Wr("imm", b[i], q, b[i].tile, 1)]
           D == [i \in 1..n |-> Wr("data", b[i], q, 0, 0)]
           F == [i \in 1..n |-> Wr("flag", b[i], q, SlotOf(b, i), IF tails THEN 0 ELSE 1)]
           T == [i \in 1..n |-> Wr("tail", b[i], q, SlotOf(b, i) + 1, 1)]
           im(G) == {G[i] : i \in 1..n}
<1>1. IsFiniteSet(1..n)
  BY FS_Interval
<1>2. IsFiniteSet(im(I)) /\ IsFiniteSet(im(D)) /\ IsFiniteSet(im(F)) /\ IsFiniteSet(im(T))
  <2>1. ASSUME NEW G, G \in [1..n -> im(G)] PROVE IsFiniteSet(im(G))
    <3>1. G \in Surjection(1..n, im(G))
      BY <2>1, Fun_IsSurj
    <3> QED
      BY <1>1, <3>1, FS_Surjection
  <2>2. /\ I \in [1..n -> im(I)] /\ D \in [1..n -> im(D)]
        /\ F \in [1..n -> im(F)] /\ T \in [1..n -> im(T)]
    OBVIOUS
  <2> HIDE DEF im, I, D, F, T
  <2> QED
    BY <2>1, <2>2, Zenon
<1>3. BatchWrs(b) \subseteq (im(I) \cup im(D)) \cup (im(F) \cup im(T))
  <2>1. CASE WriteImm
    BY <2>1 DEF BatchWrs, ImmWrs
  <2>2. CASE ~WriteImm
    BY <2>2 DEF BatchWrs, FlagWrs
  <2> QED
    BY <2>1, <2>2
<1>4. IsFiniteSet((im(I) \cup im(D)) \cup (im(F) \cup im(T)))
  <2> HIDE DEF im, I, D, F, T
  <2>1. IsFiniteSet(im(I) \cup im(D)) /\ IsFiniteSet(im(F) \cup im(T))
    BY <1>2, FS_Union
  <2> QED
    BY <2>1, FS_Union
<1> QED
  BY <1>3, <1>4, FS_Subset

\* One WR of each command counts.
LEMMA BatchCount ==
    ASSUME cfg \in Configs, NEW b \in Seq(Cmds), b # <<>>, epoch \in Nat,
           sender_seq \in [QPs -> Nat],
           \A k \in 1..Len(b) : LocalQp(b[k]) = LocalQp(b[1]),
           \A j, k \in 1..Len(b) : b[j] = b[k] => j = k
    PROVE  Cardinality(Counted(BatchWrs(b))) = Len(b)
<1> DEFINE F == [i \in 1..Len(b) |-> Final(b, i)]
           T == Counted(BatchWrs(b))
<1>1. \A i \in 1..Len(b) : F[i] \in T /\ F[i].cmd = b[i]
  BY BatchWrHas DEF Counted
<1>2. \A w \in T : \E i \in 1..Len(b) : w = F[i]
  BY BatchWrIs DEF Counted
<1>3. F \in [1..Len(b) -> T]
  BY <1>1
<1>4. \A i, j \in 1..Len(b) : F[i] = F[j] => i = j
  BY <1>1
<1> HIDE DEF F
<1>5. F \in Bijection(1..Len(b), T)
  BY <1>2, <1>3, <1>4, Fun_IsBij
<1>6. IsFiniteSet(1..Len(b)) /\ Cardinality(1..Len(b)) = Len(b)
  BY FS_Interval
<1> QED
  BY <1>5, <1>6, FS_Bijection DEF ExistsBijection

\* The WRs of a barrier, one for each peer.
LEMMA BarrierWrIs ==
    ASSUME cfg \in Configs, BarrierCmd \in Cmds, epoch \in Nat
    PROVE  /\ BarrierWrs \subseteq NotifyWrs /\ IsFiniteSet(BarrierWrs)
           /\ \A w \in BarrierWrs : w.op = "barrier" /\ w.cmd.for = BarrierCmd /\ w.n = 1
<1>1. BarrierWrs \subseteq NotifyWrs
  BY DEF BarrierWrs, Wr, NotifyWrs
<1>2. \A w \in BarrierWrs : w.op = "barrier" /\ w.cmd.for = BarrierCmd /\ w.n = 1
  BY DEF BarrierWrs, Wr
<1>3. IsFiniteSet(BarrierWrs)
  <2> DEFINE G == [p \in Peers |-> Wr("barrier", [peer |-> p, for |-> BarrierCmd], 0, 0, 1)]
  <2>1. G \in Surjection(Peers, BarrierWrs)
    <3>1. G \in [Peers -> BarrierWrs]
      BY DEF BarrierWrs
    <3>2. \A w \in BarrierWrs : \E p \in Peers : G[p] = w
      BY DEF BarrierWrs
    <3> QED
      BY <3>1, <3>2, Fun_IsSurj
  <2>2. cfg.num_peers \in Nat
    BY ConfigAssumption
  <2>3. IsFiniteSet(Peers)
    BY <2>2, FS_Interval DEF Peers
  <2> QED
    BY <2>1, <2>3, FS_Surjection
<1> QED
  BY <1>1, <1>2, <1>3

-----------------------------------------------------------------------------
\* Type correctness.

\* The command a barrier stands for, while it is being posted.
LEMMA BarrierCmdType ==
    ASSUME TypeOK, LoopInv, WaitingInv, ppc \in {"gate", "inline"}
    PROVE  BarrierCmd \in Cmds /\ BarrierCmd.type = "BARRIER_NOTIFY"
<1>1. CASE ppc = "gate"
  <2>1. 1 \in 1..Len(barrier)
    BY <1>1 DEF TypeOK, LoopInv
  <2> QED
    BY <1>1, <2>1 DEF TypeOK, LoopInv, BarrierCmd
<1>2. CASE ppc = "inline"
  <2>1. fifo[cur] \in Seq(Cmds) /\ cpu_head[cur] \in Nat /\ cpu_head[cur] <= Len(fifo[cur])
    BY DEF TypeOK, WaitingInv
  <2>2. cpu_head[cur] \in 1..Len(fifo[cur])
    BY <1>2, <2>1 DEF LoopInv
  <2>3. fifo[cur][cpu_head[cur]] \in Cmds
    BY <2>1, <2>2
  <2>4. BarrierCmd = fifo[cur][cpu_head[cur]]
    BY <1>2 DEF BarrierCmd
  <2> QED
    BY <1>2, <2>3, <2>4 DEF LoopInv
<1> QED
  BY <1>1, <1>2

\* What the proxy polls is a command, and the batch stays a sequence of commands.
LEMMA CollectTypes ==
    ASSUME TypeOK, Collect
    PROVE  /\ batch' \in Seq(Cmds) /\ stash' \in Seq(Cmds) /\ barrier' \in Seq(Cmds)
           /\ cpu_head' \in [Fifos -> Nat] /\ ppc' \in ProxyAt
<1> DEFINE c == fifo[cur][cpu_head[cur] + 1]
<1>1. Polls(c) /\ (TakeWrite(c) \/ TakeStash(c) \/ TakeBarrier(c) \/ TakeNothing(c))
      /\ ppc \in {"collect", "accumulate"}
  BY DEF Collect
<1>2. fifo[cur] \in Seq(Cmds) /\ cpu_head[cur] \in Nat /\ cpu_head[cur] + 1 \in 1..Len(fifo[cur])
  BY <1>1 DEF TypeOK, Polls, More
<1>3. c \in Cmds
  BY <1>2
<1>4. cpu_head' \in [Fifos -> Nat]
  BY <1>1, <1>2 DEF Polls, TypeOK
<1> HIDE DEF c
<1>5. <<c>> \in Seq(Cmds) /\ Append(batch, c) \in Seq(Cmds)
  BY <1>3 DEF TypeOK
<1>6. CASE TakeWrite(c)
  BY <1>4, <1>5, <1>6 DEF TakeWrite, TypeOK
<1>7. CASE TakeStash(c)
  BY <1>4, <1>5, <1>7 DEF TakeStash, TypeOK, ProxyAt
<1>8. CASE TakeBarrier(c)
  BY <1>4, <1>5, <1>8 DEF TakeBarrier, TypeOK, ProxyAt, AfterCollect
<1>9. CASE TakeNothing(c)
  BY <1>4, <1>5, <1>9 DEF TakeNothing, TypeOK
<1> QED
  BY <1>1, <1>6, <1>7, <1>8, <1>9

\* The arrival slots counted after a batch.
LEMMA SeqAfterType ==
    ASSUME TypeOK
    PROVE  /\ SeqAfter(batch) \in [QPs -> Nat]
           /\ \A l \in QPs : SeqAfter(batch)[l] >= sender_seq[l]
<1> DEFINE s(l) == {i \in 1..Len(batch) : LocalQp(batch[i]) = l}
<1>1. ASSUME NEW l \in QPs PROVE Cardinality(s(l)) \in Nat
  <2>1. IsFiniteSet(1..Len(batch))
    BY FS_Interval DEF TypeOK
  <2>2. IsFiniteSet(s(l))
    BY <2>1, FS_Subset
  <2> QED
    BY <2>2, FS_CardinalityType
<1>2. \A l \in QPs : sender_seq[l] \in Nat
  BY DEF TypeOK
<1>3. SeqAfter(batch) =
        [l \in QPs |-> sender_seq[l] +
            IF UseArrivalQueue /\ ~WriteImm THEN Cardinality(s(l)) ELSE 0]
  BY DEF SeqAfter
<1> HIDE DEF s
<1> QED
  BY <1>1, <1>2, <1>3

\* What polling takes off the count.
LEMMA RetiredType ==
    ASSUME IsFiniteSet(cq)
    PROVE  Retired \in Nat
<1>1. IsFiniteSet(Counted(cq))
  BY FS_Subset DEF Counted
<1> QED
  BY <1>1, FS_CardinalityType DEF Retired

\* The next command that goes into the slot of entry h + 1 .. n + 1 is found there first.
LEMMA SlotTurn ==
    ASSUME NEW n \in Nat, NEW h \in Nat, h <= n
    PROVE  h + 1 + ((n - h) % Capacity) \in (h + 1)..(n + 1)
<1> DEFINE a == n - h
<1>1. a \in Nat /\ n = h + a /\ Capacity \in Nat \ {0}
  BY LimitAssumption
<1> HIDE DEF a
<1>2. a % Capacity \in Nat /\ a % Capacity <= a
  BY <1>1, SMT
<1>3. h + 1 + (a % Capacity) \in (h + 1)..(n + 1)
  BY <1>1, <1>2
<1> QED
  BY <1>3 DEF a

\* What a push does: one more entry in one FIFO, the command there or in place of one that
\* was not polled.
LEMMA PushIs ==
    ASSUME TypeOK, WaitingInv, NEW c \in todo, Push(c)
    PROVE  /\ c \in Cmds /\ FifoOf(c) \in Fifos /\ todo' = todo \ {c}
           /\ fifo[FifoOf(c)] \in Seq(Cmds) /\ fifo' \in [Fifos -> Seq(Cmds)]
           /\ cpu_head[FifoOf(c)] \in Nat /\ cpu_head[FifoOf(c)] <= Len(fifo[FifoOf(c)])
           /\ Len(fifo'[FifoOf(c)]) = Len(fifo[FifoOf(c)]) + 1
           /\ \E at \in (cpu_head[FifoOf(c)] + 1)..(Len(fifo[FifoOf(c)]) + 1) :
                /\ fifo'[FifoOf(c)][at] = c
                /\ \A i \in 1..(Len(fifo[FifoOf(c)]) + 1) : i # at =>
                     \/ i \in 1..Len(fifo[FifoOf(c)]) /\ fifo'[FifoOf(c)][i] = fifo[FifoOf(c)][i]
                     \/ i = Len(fifo[FifoOf(c)]) + 1 /\ fifo'[FifoOf(c)][i] = Empty
           /\ \A i \in 1..cpu_head[FifoOf(c)] : fifo'[FifoOf(c)][i] = fifo[FifoOf(c)][i]
           /\ \A f \in Fifos : f # FifoOf(c) => fifo'[f] = fifo[f]
           /\ UNCHANGED <<cfg, cpu_head, hpc, epoch, ppc, cur, batch, refused, stash, barrier,
                          wire, cq, landed, inflight, sender_seq, pre_inflight>>
<1> DEFINE q == FifoOf(c)
           n == Len(fifo[q])
           h == cpu_head[q]
           at == h + 1 + ((n - h) % Capacity)
           old == Append(fifo[q], Empty)
<1>1. c \in Cmds /\ q \in Fifos /\ fifo[q] \in Seq(Cmds) /\ n \in Nat /\ Empty \in Cmds
  <2>1. c \in Cmds /\ q \in Fifos
    BY CmdTypes DEF TypeOK
  <2> HIDE DEF q
  <2>2. fifo[q] \in Seq(Cmds)
    BY <2>1 DEF TypeOK
  <2> QED
    BY <2>1, <2>2 DEF Cmds
<1>2. h \in Nat /\ h <= n
  BY <1>1 DEF TypeOK, WaitingInv
<1>3. todo' = todo \ {c} /\ fifo' = [fifo EXCEPT ![q] = [Append(@, Empty) EXCEPT ![at] = c]]
      /\ UNCHANGED <<cfg, cpu_head, hpc, epoch, ppc, cur, batch, refused, stash, barrier,
                     wire, cq, landed, inflight, sender_seq, pre_inflight>>
  BY DEF Push, rings, loop, nic
<1>4. at \in (h + 1)..(n + 1) /\ at \in 1..(n + 1)
  <2>1. at \in (h + 1)..(n + 1)
    BY <1>1, <1>2, SlotTurn
  <2> HIDE DEF at
  <2> QED
    BY <1>1, <1>2, <2>1
<1> HIDE DEF q, at
<1>5. /\ fifo'[q] = [old EXCEPT ![at] = c]
      /\ \A f \in Fifos : f # q => fifo'[f] = fifo[f]
      /\ DOMAIN fifo' = Fifos
  BY <1>1, <1>3 DEF TypeOK
<1>6. /\ old \in Seq(Cmds) /\ Len(old) = n + 1 /\ old[n + 1] = Empty
      /\ \A i \in 1..n : old[i] = fifo[q][i]
  BY <1>1, AppendProperties
<1> HIDE DEF n, h, old
<1>7. /\ fifo'[q] \in Seq(Cmds) /\ Len(fifo'[q]) = n + 1
      /\ \A i \in 1..(n + 1) : fifo'[q][i] = IF i = at THEN c ELSE old[i]
  <2>1. old \in [1..(n + 1) -> Cmds]
    BY <1>1, <1>6
  <2>2. fifo'[q] \in [1..(n + 1) -> Cmds]
    BY <1>1, <1>4, <1>5, <2>1
  <2>3. \A i \in 1..(n + 1) : fifo'[q][i] = IF i = at THEN c ELSE old[i]
    BY <1>4, <1>5, <2>1
  <2>4. n + 1 \in Nat
    BY <1>1
  <2> QED
    BY <2>2, <2>3, <2>4
<1>8. fifo'[q][at] = c /\ \A i \in 1..(n + 1) : i # at =>
         \/ i \in 1..n /\ fifo'[q][i] = fifo[q][i]
         \/ i = n + 1 /\ fifo'[q][i] = Empty
  <2>1. \A i \in 1..(n + 1) : i \in 1..n \/ i = n + 1
    BY <1>1
  <2> QED
    BY <1>4, <1>6, <1>7, <2>1
<1>9. \A i \in 1..h : fifo'[q][i] = fifo[q][i]
  <2> SUFFICES ASSUME NEW i \in 1..h PROVE fifo'[q][i] = fifo[q][i]
    OBVIOUS
  <2>1. i \in 1..(n + 1) /\ i # at /\ i # n + 1
    BY <1>1, <1>2, <1>4
  <2> QED
    BY <1>8, <2>1
<1>10. fifo' \in [Fifos -> Seq(Cmds)]
  <2>1. \A f \in Fifos : fifo'[f] \in Seq(Cmds)
    BY <1>5, <1>7 DEF TypeOK
  <2>2. fifo' = [f \in Fifos |-> fifo'[f]]
    BY <1>3 DEF TypeOK
  <2> QED
    BY <2>1, <2>2
<1>11. \E x \in (h + 1)..(n + 1) :
         /\ fifo'[q][x] = c
         /\ \A i \in 1..(n + 1) : i # x =>
              \/ i \in 1..n /\ fifo'[q][i] = fifo[q][i]
              \/ i = n + 1 /\ fifo'[q][i] = Empty
  BY <1>4, <1>8
<1> QED
  BY <1>1, <1>2, <1>3, <1>5, <1>7, <1>9, <1>10, <1>11 DEF q, n, h

\* Every step keeps the types.
LEMMA TypeStep ==
    ASSUME TypeOK, PhaseInv, LoopInv, WaitingInv, [Next]_vars
    PROVE  TypeOK'
<1> DEFINE W == TransferWrs \cup NotifyWrs
           A == [op : {"arrival"}, tile : cfg.incoming]
           Gpu == /\ todo' \in SUBSET Cmds /\ fifo' \in [Fifos -> Seq(Cmds)]
                  /\ cpu_head' \in [Fifos -> Nat] /\ tail' \in [Fifos -> Nat]
                  /\ tail_cache' \in [Fifos -> Nat]
           Loop == /\ ppc' \in ProxyAt /\ cur' \in Fifos
                   /\ batch' \in Seq(Cmds) /\ stash' \in Seq(Cmds) /\ barrier' \in Seq(Cmds)
                   /\ refused' \in BOOLEAN /\ pending_cpu_head' \in Nat /\ pre_inflight' \in Int
                   /\ sender_seq' \in [QPs -> Nat]
           Host == /\ hpc' \in HostAt /\ inflight' \in Int /\ epoch' \in Nat \ {0}
                   /\ running' \in BOOLEAN /\ paused' \in BOOLEAN /\ ack_paused' \in BOOLEAN
           Nic == /\ wire' \in SUBSET W /\ IsFiniteSet(wire') /\ landed' \in SUBSET W
                  /\ cq' \in SUBSET (W \cup A) /\ IsFiniteSet(cq')
           Peer == flag' \in [cfg.incoming -> Nat] /\ sent' \in [cfg.incoming -> Nat]
<1>0. cfg' = cfg /\ cfg \in Configs
  BY ConstNext DEF TypeOK
<1>1. SUFFICES Gpu /\ Loop /\ Host /\ Nic /\ Peer
  BY <1>0, CfgFrame DEF TypeOK
<1> USE DEF TypeOK
<1> HIDE DEF W, A
<1>a. cq \in SUBSET (W \cup A) /\ wire \in SUBSET W /\ landed \in SUBSET W
  BY DEF W, A
<1>b. {} \in SUBSET (W \cup A) /\ IsFiniteSet({})
  BY FS_EmptySet
<1>c. Retired \in Nat
  BY RetiredType
<1>d. 0 \in Fifos /\ 0 \in QPs /\ NumFifos \in Nat \ {0}
  BY <1>0, CfgTypes
<1>e. DrainsCq => inflight' \in Int /\ Nic /\ flag' = flag
  BY <1>a, <1>b, <1>c DEF DrainsCq
<1>2. CASE Leave \/ Acknowledge \/ SpinEnds \/ Withdraw \/ OpenGate \/ Replay \/ CollectEnds
           \/ PostNothing \/ Exit
  <2>1. Loop
    BY <1>2 DEF Leave, Acknowledge, SpinEnds, Withdraw, OpenGate, Replay, CollectEnds,
       PostNothing, Exit, loop, ProxyAt, AfterCollect
  <2>2. Gpu /\ Host /\ Nic /\ Peer
    BY <1>2, <1>a DEF Leave, Acknowledge, SpinEnds, Withdraw, OpenGate, Replay, CollectEnds,
       PostNothing, Exit, gpu, rings, flow, nic
  <2> QED
    BY <2>1, <2>2
<1>3. CASE StartBatch
  <2>1. (cur + 1) % NumFifos \in Fifos
    <3>1. cur \in Nat
      BY <1>d DEF Fifos
    <3>2. cur + 1 \in Nat
      BY <3>1
    <3>3. (cur + 1) % NumFifos \in 0..(NumFifos - 1)
      BY <3>2, <1>d, ModFifo
    <3> QED
      BY <3>3 DEF Fifos
  <2>2. <<>> \in Seq(Cmds)
    OBVIOUS
  <2>3. Loop
    BY <1>3, <2>1, <2>2 DEF StartBatch, ProxyAt
  <2> QED
    BY <1>3, <1>a, <2>3 DEF StartBatch, gpu, rings, flow, nic
<1>4. CASE Collect
  <2>1. UNCHANGED <<cfg, gpu, tail, tail_cache, cur, refused, pending_cpu_head, pre_inflight,
                    sender_seq, flow, inflight, epoch, hpc, nic, flag, sent>>
    BY <1>4 DEF Collect, Polls
  <2> QED
    BY <1>4, <1>a, <2>1, CollectTypes DEF gpu, flow, nic
<1>5. CASE BarrierDrain \/ ExitDrain
  <2>1. DrainsCq /\ UNCHANGED <<gpu, rings, ppc, loop, flow, epoch, hpc, sent>>
    BY <1>5 DEF BarrierDrain, ExitDrain
  <2> QED
    BY <2>1, <1>e DEF gpu, rings, loop, flow
<1>6. CASE PostStageBarrier
  <2>1. PICK ok \in SUBSET BarrierWrs :
          wire' = wire \cup ok /\ inflight' = inflight + Cardinality(ok)
    BY <1>6 DEF PostStageBarrier
  <2>2. BarrierWrs \subseteq NotifyWrs /\ IsFiniteSet(BarrierWrs)
    BY <1>6, BarrierCmdType, BarrierWrIs DEF PostStageBarrier
  <2>3. IsFiniteSet(ok) /\ Cardinality(ok) \in Nat
    BY <2>2, FS_Subset, FS_CardinalityType
  <2>4. IsFiniteSet(wire') /\ wire' \in SUBSET W
    BY <2>1, <2>2, <2>3, <1>a, FS_Union DEF W
  <2>5. inflight' \in Int
    BY <2>1, <2>3
  <2>6. Loop
    <3>1. UNCHANGED <<cur, batch, refused, pending_cpu_head, stash, pre_inflight, sender_seq>>
      BY <1>6 DEF PostStageBarrier
    <3>2. barrier' \in {barrier, <<>>} /\ ppc' \in {"top", "collect"}
      BY <1>6 DEF PostStageBarrier
    <3>3. barrier' \in Seq(Cmds)
      BY <3>2, <<>> \in Seq(Cmds)
    <3> QED
      BY <3>1, <3>2, <3>3 DEF ProxyAt
  <2> QED
    BY <1>6, <1>a, <2>4, <2>5, <2>6 DEF PostStageBarrier, gpu, rings, flow
<1>7. CASE PostBatch
  <2>1. BatchWrs(batch) \subseteq TransferWrs /\ IsFiniteSet(BatchWrs(batch))
    BY <1>7, BatchWrIs, BatchFinite DEF PostBatch, LoopInv
  <2>2. IsFiniteSet(wire') /\ wire' \in SUBSET W
    BY <1>7, <2>1, <1>a, FS_Union DEF PostBatch, W
  <2>3. inflight' \in Int
    BY <1>7 DEF PostBatch
  <2>4. Loop
    <3>1. pending_cpu_head' \in Nat
      BY <1>7 DEF PostBatch, SavesHead
    <3> QED
      BY <1>7, <3>1, SeqAfterType DEF PostBatch, ProxyAt
  <2> QED
    BY <1>7, <1>a, <2>2, <2>3, <2>4 DEF PostBatch, gpu, rings, flow
<1>8. CASE BatchRefused
  <2>1. Loop
    <3>1. pending_cpu_head' \in Nat
      BY <1>8 DEF BatchRefused, SavesHead
    <3> QED
      BY <1>8, <3>1, SeqAfterType DEF BatchRefused, ProxyAt
  <2> QED
    BY <1>8, <1>a, <2>1 DEF BatchRefused, gpu, rings, flow, nic
<1>9. CASE PollCq
  <2>1. Loop
    BY <1>9 DEF PollCq, loop, ProxyAt
  <2>2. tail' \in [Fifos -> Nat]
    BY <1>9 DEF PollCq
  <2>3. flag' \in [cfg.incoming -> Nat]
    BY <1>9 DEF PollCq
  <2> QED
    <3>1. /\ cq' = {} /\ inflight' = inflight - Retired
          /\ UNCHANGED <<todo, fifo, cpu_head, tail_cache, running, paused, ack_paused, epoch,
                         hpc, wire, landed, sent>>
      BY <1>9 DEF PollCq, gpu, flow
    <3>2. inflight' \in Int
      BY <3>1, <1>c
    <3> QED
      BY <1>a, <1>b, <2>1, <2>2, <2>3, <3>1, <3>2
<1>10. CASE \E k \in cfg.kernels : Launch(k)
  BY <1>10, <1>a, LaunchedCmds DEF Launch, rings, loop, flow, nic, HostAt
<1>11. CASE KernelEnds \/ DrainProxy \/ Pause \/ PauseReturns \/ ResumeAck \/ Resume \/ Stop
            \/ Join
  <2>1. Host
    BY <1>11 DEF KernelEnds, DrainProxy, Pause, PauseReturns, ResumeAck, Resume, Stop, Join,
       flow, HostAt
  <2> QED
    BY <1>11, <1>a, <2>1 DEF KernelEnds, DrainProxy, Pause, PauseReturns, ResumeAck, Resume, Stop,
       Join, gpu, rings, loop, nic
<1>12. CASE HostDrainCq
  BY <1>12, <1>e DEF HostDrainCq, gpu, rings, loop, flow
<1>13. CASE Prepared
  <2>1. <<>> \in Seq(Cmds)
    OBVIOUS
  <2> QED
    BY <1>13, <1>a, <2>1 DEF Prepared, gpu, rings, flow, nic, HostAt
<1>14. CASE CommitEpoch
  <2>1. Gpu
    <3>1. <<>> \in Seq(Cmds)
      OBVIOUS
    <3>2. CASE cfg.skip_reset
      BY <1>14, <3>2 DEF CommitEpoch, rings
    <3>3. CASE ~cfg.skip_reset
      <4>1. /\ fifo' = [fifo EXCEPT ![0] = <<>>] /\ cpu_head' = [cpu_head EXCEPT ![0] = 0]
            /\ tail' = [tail EXCEPT ![0] = 0] /\ tail_cache' = [tail_cache EXCEPT ![0] = 0]
            /\ todo' = todo
        BY <1>14, <3>3 DEF CommitEpoch
      <4> QED
        BY <4>1, <3>1
    <3> QED
      BY <3>2, <3>3
  <2>2. flag' \in [cfg.incoming -> Nat]
    BY <1>14 DEF CommitEpoch
  <2>3. Loop
    BY <1>14 DEF CommitEpoch
  <2> QED
    BY <1>14, <1>a, <2>1, <2>2, <2>3 DEF CommitEpoch, flow, nic, HostAt
<1>15. ASSUME NEW c \in todo, Push(c) PROVE Gpu /\ Loop /\ Host /\ Nic /\ Peer
  <2>1. c \in Cmds /\ FifoOf(c) \in Fifos
    BY <1>0, <1>15, CmdTypes
  <2>2. Gpu
    <3>1. todo' \in SUBSET Cmds /\ fifo' \in [Fifos -> Seq(Cmds)]
      BY <1>15, PushIs
    <3>2. UNCHANGED <<cpu_head, tail>> /\ tail_cache' \in [Fifos -> Nat]
      BY <1>15, <2>1 DEF Push
    <3> QED
      BY <3>1, <3>2
  <2> QED
    BY <1>15, <1>a, <2>2 DEF Push, loop, flow, nic
<1>16. ASSUME NEW w \in wire, Execute(w) PROVE Gpu /\ Loop /\ Host /\ Nic /\ Peer
  <2>1. IsFiniteSet(wire \ {w}) /\ IsFiniteSet(cq \cup {w})
    BY FS_RemoveElement, FS_AddElement
  <2> QED
    BY <1>16, <1>a, <2>1 DEF Execute, gpu, rings, loop, flow
<1>17. ASSUME NEW t \in DOMAIN sent, PeerWrites(t) PROVE Gpu /\ Loop /\ Host /\ Nic /\ Peer
  <2>1. PeerEpoch \in Nat
    BY DEF PeerEpoch
  <2>2. t \in cfg.incoming
    OBVIOUS
  <2>3. CASE WriteImm
    <3>1. [op |-> "arrival", tile |-> t] \in A
      BY <2>2 DEF A
    <3>2. cq' = cq \cup {[op |-> "arrival", tile |-> t]}
      BY <1>17, <2>3 DEF PeerWrites
    <3>3. IsFiniteSet(cq') /\ cq' \in SUBSET (W \cup A)
      BY <3>1, <3>2, <1>a, FS_AddElement
    <3>4. Peer
      BY <1>17, <2>1, <2>2, <2>3 DEF PeerWrites
    <3> QED
      BY <1>17, <1>a, <3>3, <3>4 DEF PeerWrites, gpu, rings, loop, flow
  <2>4. CASE ~WriteImm
    <3>1. Peer
      BY <1>17, <2>1, <2>2, <2>4 DEF PeerWrites
    <3> QED
      BY <1>17, <1>a, <2>4, <3>1 DEF PeerWrites, gpu, rings, loop, flow
  <2> QED
    BY <2>3, <2>4
<1>18. CASE Finished \/ UNCHANGED vars
  BY <1>18, <1>a DEF Finished, vars, gpu, rings, loop, flow, nic
<1> QED
  BY <1>2, <1>3, <1>4, <1>5, <1>6, <1>7, <1>8, <1>9, <1>10, <1>11, <1>12, <1>13, <1>14, <1>15,
     <1>16, <1>17, <1>18 DEF Next, ProxyStep, HostStep

-----------------------------------------------------------------------------
\* Phases of the two threads.

\* Where run() goes from each place, and that it touches nothing of the pause handshake
\* elsewhere than at its gate.
LEMMA ProxyPlaces ==
    ASSUME PhaseInv, ProxyStep
    PROVE  /\ UNCHANGED <<todo, running, paused, hpc, epoch>>
           /\ ~Acknowledge /\ ~Withdraw => ack_paused' = ack_paused
           /\ ppc = "top" => ppc' \in {"exit", "spin", "gate", "post", "collect"}
           /\ ppc = "spin" => ppc' = "unack" /\ ~paused
           /\ ppc = "unack" => ppc' = "top"
           /\ ppc = "exit" => ppc' \in {"exit", "ended"}
           /\ ppc # "ended"
           /\ ppc' \in {"exit", "ended"} => ~running
           /\ ppc' = "spin" => Acknowledge
           /\ ppc' = "ended" => Exit
           /\ ppc = "unack" => Withdraw
           /\ ppc' = "inline" => BarrierDrain \/ Collect
<1>1. CASE Leave \/ Acknowledge \/ SpinEnds \/ Withdraw \/ OpenGate \/ Replay \/ StartBatch
  BY <1>1 DEF Leave, Acknowledge, SpinEnds, Withdraw, OpenGate, Replay, StartBatch, gpu, flow
<1>2. CASE Collect
  <2>1. PICK c : Polls(c) /\ (TakeWrite(c) \/ TakeStash(c) \/ TakeBarrier(c) \/ TakeNothing(c))
    BY <1>2 DEF Collect
  <2>2. UNCHANGED <<todo, running, paused, hpc, epoch, ack_paused>>
    BY <2>1 DEF Polls, gpu, flow
  <2>3. ppc \in {"collect", "accumulate"}
    BY <1>2 DEF Collect
  <2>4. ppc' \in {"collect", "accumulate", "post", "inline"}
    BY <2>1, <2>3 DEF TakeWrite, TakeStash, TakeBarrier, TakeNothing, AfterCollect
  <2> QED
    BY <1>2, <2>2, <2>3, <2>4
<1>3. CASE CollectEnds \/ BarrierDrain \/ PostStageBarrier
  BY <1>3 DEF CollectEnds, BarrierDrain, PostStageBarrier, AfterCollect, gpu, flow
<1>4. CASE PostBatch \/ BatchRefused \/ PostNothing \/ PollCq
  BY <1>4 DEF PostBatch, BatchRefused, PostNothing, PollCq, gpu, flow
<1>5. CASE ExitDrain \/ Exit
  BY <1>5 DEF ExitDrain, Exit, gpu, flow, PhaseInv
<1> QED
  BY <1>1, <1>2, <1>3, <1>4, <1>5 DEF ProxyStep

\* Every step keeps the phases.
LEMMA PhaseStep ==
    ASSUME TypeOK, PhaseInv, [Next]_vars
    PROVE  PhaseInv'
<1>0. cfg' = cfg /\ cfg \in Configs /\ cfg.fast \in BOOLEAN
  BY ConstNext, CfgTypes DEF TypeOK
<1> USE DEF PhaseInv
<1>1. CASE Acknowledge
  BY <1>0, <1>1 DEF Acknowledge, gpu
<1>2. CASE Withdraw
  BY <1>0, <1>2 DEF Withdraw, gpu
<1>3. CASE ProxyStep /\ ~Acknowledge /\ ~Withdraw
  <2>1. UNCHANGED <<todo, running, paused, hpc, ack_paused>>
    BY <1>3, ProxyPlaces
  <2>2. ppc # "spin" \/ ~paused
    BY <1>3, ProxyPlaces
  <2>3. ppc' # "spin" /\ ppc # "ended" /\ (ppc' \in {"exit", "ended"} => ~running)
    BY <1>3, ProxyPlaces
  <2> QED
    BY <1>0, <2>1, <2>2, <2>3 DEF TypeOK
<1>4. CASE \E k \in cfg.kernels : Launch(k)
  BY <1>0, <1>4 DEF Launch, rings, loop, flow, TypeOK, HostAt
<1>5. CASE KernelEnds
  BY <1>0, <1>5 DEF KernelEnds, gpu, flow, TypeOK
<1>6. CASE DrainProxy
  BY <1>0, <1>6 DEF DrainProxy, gpu, flow, TypeOK
<1>7. CASE Pause
  BY <1>0, <1>7 DEF Pause, gpu, TypeOK
<1>8. CASE PauseReturns
  BY <1>0, <1>8 DEF PauseReturns, gpu, flow, TypeOK
<1>9. CASE HostDrainCq
  BY <1>0, <1>9 DEF HostDrainCq, gpu, flow, TypeOK
<1>10. CASE Prepared
  BY <1>0, <1>10 DEF Prepared, gpu, flow, TypeOK
<1>11. CASE CommitEpoch
  <2>1. UNCHANGED <<todo, ppc, flow>> /\ hpc = "prepared" /\ hpc' = "resume"
    BY <1>11 DEF CommitEpoch
  <2> QED
    BY <1>0, <2>1 DEF flow, TypeOK
<1>12. CASE ResumeAck
  BY <1>0, <1>12 DEF ResumeAck, gpu, TypeOK
<1>13. CASE Resume
  BY <1>0, <1>13 DEF Resume, gpu, TypeOK
<1>14. CASE Stop
  BY <1>0, <1>14 DEF Stop, gpu, TypeOK
<1>15. CASE Join
  BY <1>0, <1>15 DEF Join, gpu, flow, TypeOK
<1>16. ASSUME NEW c \in todo, Push(c) PROVE PhaseInv'
  <2>1. todo' \subseteq todo /\ UNCHANGED <<cfg, ppc, flow, hpc>>
    BY <1>16 DEF Push
  <2> QED
    BY <1>0, <2>1 DEF flow
<1>17. CASE (\E w \in wire : Execute(w)) \/ (\E t \in DOMAIN sent : PeerWrites(t))
  <2>1. UNCHANGED <<todo, ppc, flow, hpc>>
    BY <1>17 DEF Execute, PeerWrites, gpu
  <2> QED
    BY <1>0, <2>1 DEF flow
<1>18. CASE Finished \/ UNCHANGED vars
  BY <1>0, <1>18 DEF Finished, vars, gpu, flow
<1> QED
  BY <1>1, <1>2, <1>3, <1>4, <1>5, <1>6, <1>7, <1>8, <1>9, <1>10, <1>11, <1>12, <1>13, <1>14,
     <1>15, <1>16, <1>17, <1>18 DEF Next, HostStep

-----------------------------------------------------------------------------
\* What the loop holds.

\* Outside the fast transition commit_epoch finds the proxy spinning, and the fast one
\* leaves the FIFOs alone.
LEMMA CommitPlace ==
    ASSUME TypeOK, PhaseInv, CommitEpoch, ppc # "spin"
    PROVE  cfg.fast /\ UNCHANGED <<fifo, cpu_head, tail>>
<1>1. hpc = "prepared" /\ cfg \in Configs
  BY DEF CommitEpoch, TypeOK
<1>2. cfg.fast /\ cfg.skip_reset
  BY <1>1, CfgTypes DEF PhaseInv
<1> QED
  BY <1>2 DEF CommitEpoch, rings

\* The entry a barrier posted from inside the collection was polled from is not rewritten.
LEMMA InlineEntry ==
    ASSUME TypeOK, PhaseInv, WaitingInv, LoopInv, [Next]_vars, ppc = "inline", ppc' = "inline"
    PROVE  cur' = cur /\ cpu_head'[cur] = cpu_head[cur]
           /\ fifo'[cur][cpu_head[cur]] = fifo[cur][cpu_head[cur]]
<1>1. CASE ProxyStep
  <2>1. BarrierDrain \/ Collect
    BY <1>1, ProxyPlaces
  <2>2. ~Collect
    BY DEF Collect
  <2> QED
    BY <2>1, <2>2 DEF BarrierDrain, gpu, rings, loop
<1>2. CASE CommitEpoch
  <2>1. UNCHANGED <<fifo, cpu_head, cur>>
    BY <1>2, CommitPlace DEF CommitEpoch
  <2> QED
    BY <2>1
<1>3. CASE HostStep /\ ~CommitEpoch
  <2>1. UNCHANGED <<fifo, cpu_head, cur>>
    BY <1>3 DEF HostStep, Launch, KernelEnds, DrainProxy, Pause, PauseReturns, HostDrainCq,
       Prepared, ResumeAck, Resume, Stop, Join, gpu, rings, loop
  <2> QED
    BY <2>1
<1>4. ASSUME NEW c \in todo, Push(c)
      PROVE  cur' = cur /\ cpu_head'[cur] = cpu_head[cur]
             /\ fifo'[cur][cpu_head[cur]] = fifo[cur][cpu_head[cur]]
  <2> DEFINE q == FifoOf(c)
  <2>1. /\ UNCHANGED <<cur, cpu_head>>
        /\ \A i \in 1..cpu_head[q] : fifo'[q][i] = fifo[q][i]
        /\ \A f \in Fifos : f # q => fifo'[f] = fifo[f]
    BY <1>4, PushIs
  <2>2. cur \in Fifos /\ cpu_head[cur] \in 1..cpu_head[cur]
    BY DEF TypeOK, LoopInv
  <2> HIDE DEF q
  <2> QED
    BY <2>1, <2>2
<1>5. CASE \/ \E w \in wire : Execute(w)
           \/ \E t \in DOMAIN sent : PeerWrites(t)
           \/ Finished \/ UNCHANGED vars
  <2>1. UNCHANGED <<fifo, cpu_head, cur>>
    BY <1>5 DEF Execute, PeerWrites, Finished, vars, gpu, rings, loop
  <2> QED
    BY <2>1
<1> QED
  BY <1>1, <1>2, <1>3, <1>4, <1>5 DEF Next

\* Every other step of the system leaves it alone, except that reset_inflight forgets the
\* barrier of a spinning proxy.
LEMMA HoldFrame ==
    ASSUME TypeOK, PhaseInv, [Next]_vars, ~ProxyStep
    PROVE  /\ UNCHANGED <<cfg, batch, stash, refused, ppc, pre_inflight, cur>>
           /\ barrier' = barrier \/ (Prepared /\ barrier' = <<>> /\ ppc = "spin")
<1>0. cfg' = cfg
  BY ConstNext
<1>1. CASE Prepared
  BY <1>0, <1>1 DEF Prepared, PhaseInv
<1>2. CASE HostStep /\ ~Prepared
  BY <1>0, <1>2 DEF HostStep, Launch, KernelEnds, DrainProxy, Pause, PauseReturns, HostDrainCq,
     CommitEpoch, ResumeAck, Resume, Stop, Join, loop
<1>3. CASE \/ \E c \in todo : Push(c)
           \/ \E w \in wire : Execute(w)
           \/ \E t \in DOMAIN sent : PeerWrites(t)
           \/ Finished \/ UNCHANGED vars
  BY <1>0, <1>3 DEF Push, Execute, PeerWrites, Finished, vars, loop
<1> QED
  BY <1>1, <1>2, <1>3 DEF Next

\* The greater and the smaller of two numbers.
LEMMA MaxMin ==
    ASSUME NEW a \in Int, NEW b \in Int
    PROVE  /\ Max({a, b}) = IF a >= b THEN a ELSE b
           /\ Min({a, b}) = IF a <= b THEN a ELSE b
<1>1. \E x \in {a, b} : \A y \in {a, b} : x >= y
  OBVIOUS
<1>2. Max({a, b}) \in {a, b} /\ \A y \in {a, b} : Max({a, b}) >= y
  BY <1>1 DEF Max
<1>3. \E x \in {a, b} : \A y \in {a, b} : x <= y
  OBVIOUS
<1>4. Min({a, b}) \in {a, b} /\ \A y \in {a, b} : Min({a, b}) <= y
  BY <1>3 DEF Min
<1> QED
  BY <1>2, <1>4

\* The cap on commands on the way; with immediates and one QP it is max_inflight itself.
LEMMA EffectiveType ==
    ASSUME cfg \in Configs
    PROVE  /\ EffectiveMaxInflight \in Nat \ {0}
           /\ WriteImm /\ cfg.num_qps = 1 => EffectiveMaxInflight = cfg.max_inflight
<1> DEFINE quarter == SqDepth \div 4
           cap == IF WriteImm THEN cfg.max_inflight
                  ELSE IF quarter > BatchSize THEN quarter - BatchSize ELSE quarter
           small == Min({cap, cfg.max_inflight})
           m == Max({1, small})
<1>1. cfg.max_inflight \in Nat \ {0} /\ cfg.num_qps \in Nat \ {0}
  BY CfgTypes
<1>2. quarter \in Nat /\ BatchSize \in Nat
  BY LimitAssumption
<1> HIDE DEF quarter
<1>3. cap \in Nat /\ (WriteImm => cap = cfg.max_inflight)
  BY <1>1, <1>2
<1> HIDE DEF cap
<1>4. small \in Int /\ (WriteImm => small = cfg.max_inflight)
  <2>1. cap \in Int /\ cfg.max_inflight \in Int
    BY <1>1, <1>3
  <2>2. small = IF cap <= cfg.max_inflight THEN cap ELSE cfg.max_inflight
    BY <2>1, MaxMin
  <2> QED
    BY <1>1, <1>3, <2>2
<1> HIDE DEF small
<1>5. m \in Nat \ {0} /\ (WriteImm => m = cfg.max_inflight)
  BY <1>1, <1>4, MaxMin
<1>6. EffectiveMaxInflight = m * cfg.num_qps
  BY DEF EffectiveMaxInflight, m, small, cap, quarter
<1> HIDE DEF m
<1>7. \A x, y \in Nat \ {0} : x * y \in Nat \ {0} /\ x * 1 = x
  OBVIOUS
<1> QED
  BY <1>1, <1>5, <1>6, <1>7

\* Polling a command keeps what the loop holds as it should be.
LEMMA LoopCollect ==
    ASSUME TypeOK, WaitingInv, HeldInv, LoopInv, Collect
    PROVE  LoopInv'
<1> DEFINE c == fifo[cur][cpu_head[cur] + 1]
<1>1. Polls(c) /\ (TakeWrite(c) \/ TakeStash(c) \/ TakeBarrier(c) \/ TakeNothing(c))
      /\ ppc \in {"collect", "accumulate"}
  BY DEF Collect
<1>2. /\ cpu_head[cur] + 1 \in 1..Len(fifo[cur]) /\ c \in Cmds /\ cpu_head[cur] \in Nat
      /\ cpu_head' = [cpu_head EXCEPT ![cur] = @ + 1] /\ cpu_head'[cur] = cpu_head[cur] + 1
      /\ UNCHANGED <<cfg, fifo, cur, refused, pre_inflight>>
  <2>1. fifo[cur] \in Seq(Cmds) /\ cpu_head[cur] \in Nat /\ cpu_head[cur] + 1 \in 1..Len(fifo[cur])
    BY <1>1 DEF TypeOK, Polls, More
  <2> QED
    BY <1>1, <2>1 DEF Polls, gpu, TypeOK
<1>3. stash = <<>> /\ ~refused
  <2>1. CanCollect
    BY <1>1 DEF Polls
  <2>2. Len(batch) \in Nat /\ pre_inflight \in Int
    BY DEF TypeOK
  <2>3. ~(stash # <<>> /\ pre_inflight >= EffectiveMaxInflight)
    <3> DEFINE m == EffectiveMaxInflight
               n == Len(batch)
    <3>1. pre_inflight + n < m
      BY <2>1 DEF CanCollect
    <3>2. m \in Int
      BY <3>1, EffectiveType DEF TypeOK
    <3> HIDE DEF m, n
    <3>3. n \in Nat
      BY <2>2 DEF n
    <3>4. ~(pre_inflight >= m)
      BY <2>2, <3>1, <3>2, <3>3
    <3> QED
      BY <3>4 DEF m
  <2> QED
    BY <1>1, <2>3 DEF LoopInv
<1>4. \A d \in Cmds : LocalQp(d)' = LocalQp(d)
  BY <1>2 DEF LocalQp
<1> HIDE DEF c
<1>5. ~refused' /\ ppc # "gate" /\ ppc # "inline"
  BY <1>1, <1>2, <1>3
<1>6. CASE TakeWrite(c)
  <2>1. batch' = Append(batch, c) /\ c.type = "WRITE" /\ UNCHANGED <<ppc, stash, barrier>>
        /\ (batch # <<>> => LocalQp(c) = LocalQp(batch[1]))
    BY <1>6 DEF TakeWrite, Joins
  <2>2. batch \in Seq(Cmds) /\ Len(batch') = Len(batch) + 1 /\ batch'[Len(batch) + 1] = c
        /\ \A i \in 1..Len(batch) : batch'[i] = batch[i]
    BY <1>2, <2>1, AppendProperties DEF TypeOK
  <2>3. \A i \in 1..Len(batch) : batch[i] # c
    <3>1. ASSUME NEW i \in 1..Len(batch), batch[i] = c PROVE FALSE
      <4>1. InBatch(c)
        BY <1>1, <3>1 DEF InBatch, Unposted
      <4>2. cpu_head[cur] + 1 \in (cpu_head[cur] + 1)..Len(fifo[cur]) /\ cur \in Fifos
        BY <1>2 DEF TypeOK
      <4>3. fifo[cur][cpu_head[cur] + 1] # c
        BY <1>2, <4>1, <4>2 DEF HeldInv, Held
      <4> QED
        BY <4>3 DEF c
    <3> QED
      BY <3>1
  <2>4. \A i \in 1..Len(batch') : batch'[i].type = "WRITE" /\ LocalQp(batch'[i]) = LocalQp(batch'[1])
    <3>1. CASE batch = <<>>
      <4>1. Len(batch') = 1 /\ batch'[1] = c
        BY <2>2, <3>1
      <4> QED
        BY <2>1, <4>1
    <3>2. CASE batch # <<>>
      <4>1. 1 \in 1..Len(batch)
        BY <2>2, <3>2
      <4>2. \A i \in 1..Len(batch) : batch[i].type = "WRITE" /\ LocalQp(batch[i]) = LocalQp(batch[1])
        BY DEF LoopInv
      <4>3. ASSUME NEW i \in 1..Len(batch')
            PROVE  batch'[i].type = "WRITE" /\ LocalQp(batch'[i]) = LocalQp(batch'[1])
        <5>1. i \in 1..Len(batch) \/ i = Len(batch) + 1
          BY <2>2
        <5>2. CASE i \in 1..Len(batch)
          BY <2>2, <4>1, <4>2, <5>2
        <5>3. CASE i = Len(batch) + 1
          BY <2>1, <2>2, <3>2, <4>1, <5>3
        <5> QED
          BY <5>1, <5>2, <5>3
      <4> QED
        BY <4>3
    <3> QED
      BY <3>1, <3>2
  <2>5. \A i \in 1..Len(batch') : batch'[i] \in Cmds
    <3>1. ASSUME NEW i \in 1..Len(batch') PROVE batch'[i] \in Cmds
      <4>1. i \in 1..Len(batch) \/ i = Len(batch) + 1
        BY <2>2
      <4>2. i \in 1..Len(batch) => batch[i] \in Cmds
        BY DEF TypeOK
      <4> QED
        BY <1>2, <2>2, <4>1, <4>2
    <3> QED
      BY <3>1
  <2>6. (\A i \in 1..Len(batch) :
           batch[i].type = "WRITE" /\ LocalQp(batch[i]) = LocalQp(batch[1]))'
    <3>1. Len(batch') > 0
      BY <2>2
    <3> QED
      BY <2>4, <2>5, <1>4, <3>1
  <2>7. \A i, j \in 1..Len(batch') : batch'[i] = batch'[j] => i = j
    <3>1. \A i, j \in 1..Len(batch) : batch[i] = batch[j] => i = j
      BY DEF LoopInv
    <3> QED
      BY <2>2, <2>3, <3>1
  <2>8. batch' # <<>>
    BY <2>2
  <2> QED
    BY <1>2, <1>3, <1>5, <2>1, <2>6, <2>7, <2>8 DEF LoopInv
<1>7. CASE TakeStash(c)
  <2>1. stash' = <<c>> /\ c.type = "WRITE" /\ ppc' = "post" /\ UNCHANGED <<batch, barrier>>
    BY <1>7 DEF TakeStash
  <2>2. (\A i \in 1..Len(batch) :
           batch[i].type = "WRITE" /\ LocalQp(batch[i]) = LocalQp(batch[1]))'
    BY <1>4, <2>1 DEF LoopInv, TypeOK
  <2>3. Len(stash') = 1 /\ \A i \in 1..Len(stash') : stash'[i].type = "WRITE"
    BY <2>1
  <2> QED
    BY <1>2, <1>5, <2>1, <2>2, <2>3 DEF LoopInv
<1>8. CASE TakeBarrier(c)
  <2>1. c.type = "BARRIER_NOTIFY" /\ UNCHANGED <<batch, stash>>
    BY <1>8 DEF TakeBarrier
  <2>2. (\A i \in 1..Len(batch) :
           batch[i].type = "WRITE" /\ LocalQp(batch[i]) = LocalQp(batch[1]))'
    BY <1>4, <2>1 DEF LoopInv, TypeOK
  <2>3. CASE batch = <<>>
    <3>1. ppc' = "inline" /\ barrier' = barrier
      BY <1>8, <2>3 DEF TakeBarrier
    <3>2. cpu_head'[cur'] > 0 /\ fifo'[cur'][cpu_head'[cur']].type = "BARRIER_NOTIFY"
      BY <1>2, <2>1 DEF c
    <3> QED
      BY <1>2, <1>3, <1>5, <2>1, <2>2, <2>3, <3>1, <3>2 DEF LoopInv
  <2>4. CASE batch # <<>>
    <3>1. barrier' = <<c>> /\ ppc' \in {"accumulate", "post"}
      BY <1>8, <2>4 DEF TakeBarrier, AfterCollect
    <3>2. Len(barrier') = 1 /\ \A i \in 1..Len(barrier') : barrier'[i].type = "BARRIER_NOTIFY"
      BY <2>1, <3>1
    <3> QED
      BY <1>2, <1>3, <1>5, <2>1, <2>2, <2>4, <3>1, <3>2 DEF LoopInv
  <2> QED
    BY <2>3, <2>4
<1>9. CASE TakeNothing(c)
  <2>1. UNCHANGED <<ppc, batch, stash, barrier>>
    BY <1>9 DEF TakeNothing
  <2>2. (\A i \in 1..Len(batch) :
           batch[i].type = "WRITE" /\ LocalQp(batch[i]) = LocalQp(batch[1]))'
    BY <1>4, <2>1 DEF LoopInv, TypeOK
  <2> QED
    BY <1>2, <1>3, <1>5, <2>1, <2>2 DEF LoopInv
<1> QED
  BY <1>1, <1>6, <1>7, <1>8, <1>9 DEF c

\* Every step keeps what the loop holds as it should be.
LEMMA LoopStep ==
    ASSUME TypeOK, PhaseInv, WaitingInv, HeldInv, LoopInv, [Next]_vars
    PROVE  LoopInv'
<1>0. cfg' = cfg /\ cfg \in Configs
  BY ConstNext DEF TypeOK
<1>1. \A d \in Cmds : LocalQp(d)' = LocalQp(d)
  BY <1>0 DEF LocalQp
<1>2. EffectiveMaxInflight' = EffectiveMaxInflight
  BY <1>0, CfgFrame
<1>3. batch' = batch => (\A i \in 1..Len(batch) :
        batch[i].type = "WRITE" /\ LocalQp(batch[i]) = LocalQp(batch[1]))'
  <2> SUFFICES ASSUME batch' = batch, NEW i \in 1..Len(batch)
               PROVE  batch[i].type = "WRITE" /\ LocalQp(batch[i])' = LocalQp(batch[1])'
    OBVIOUS
  <2>1. batch[i] \in Cmds /\ batch[1] \in Cmds
    BY DEF TypeOK
  <2> QED
    BY <1>1, <2>1 DEF LoopInv
<1>4. ppc = "inline" /\ ppc' = "inline" =>
        cpu_head'[cur'] > 0 /\ fifo'[cur'][cpu_head'[cur']].type = "BARRIER_NOTIFY"
  BY InlineEntry DEF LoopInv
<1>5. CASE ~ProxyStep
  <2>1. UNCHANGED <<batch, stash, refused, ppc, pre_inflight, cur>>
        /\ (barrier' = barrier \/ (barrier' = <<>> /\ ppc = "spin"))
    BY <1>5, HoldFrame
  <2>2. CASE barrier' = barrier
    BY <1>2, <1>3, <1>4, <2>1, <2>2 DEF LoopInv
  <2>3. CASE barrier' = <<>> /\ ppc = "spin"
    BY <1>2, <1>3, <2>1, <2>3 DEF LoopInv
  <2> QED
    BY <2>1, <2>2, <2>3
<1>6. CASE Leave \/ Acknowledge \/ SpinEnds \/ Withdraw \/ PollCq \/ ExitDrain \/ Exit
  <2>1. UNCHANGED loop /\ ppc' \notin {"gate", "collect", "accumulate", "inline", "poll_posted"}
    BY <1>6 DEF Leave, Acknowledge, SpinEnds, Withdraw, PollCq, ExitDrain, Exit
  <2> QED
    BY <1>3, <2>1 DEF LoopInv, loop
<1>7. CASE OpenGate
  BY <1>3, <1>7 DEF OpenGate, loop, LoopInv, GateReady
<1>8. CASE Replay
  BY <1>3, <1>8 DEF Replay, LoopInv
<1>9. CASE StartBatch
  <2> DEFINE seed == stash # <<>> /\ inflight < EffectiveMaxInflight
  <2>1. /\ batch' = IF seed THEN stash ELSE <<>>
        /\ stash' = IF seed THEN <<>> ELSE stash
        /\ ~refused /\ ppc' = "collect" /\ pre_inflight' = inflight
        /\ UNCHANGED <<refused, barrier>>
    BY <1>9 DEF StartBatch
  <2>2. inflight \in Int /\ EffectiveMaxInflight \in Int
    BY <1>0, EffectiveType DEF TypeOK
  <2>3. CASE seed
    <3>1. batch' = stash /\ stash' = <<>>
      BY <2>1, <2>3
    <3>2. stash \in Seq(Cmds) /\ Len(stash) = 1
      <4>1. stash \in Seq(Cmds) /\ stash # <<>> /\ Len(stash) <= 1
        BY <2>3 DEF LoopInv, TypeOK
      <4> DEFINE n == Len(stash)
      <4>2. n \in Nat /\ n # 0 /\ n <= 1
        BY <4>1, EmptySeq
      <4> HIDE DEF n
      <4>3. n = 1
        BY <4>2
      <4> QED
        BY <4>1, <4>3 DEF n
    <3>3. (\A i \in 1..Len(batch) :
             batch[i].type = "WRITE" /\ LocalQp(batch[i]) = LocalQp(batch[1]))'
      BY <3>1, <3>2 DEF LoopInv
    <3>4. \A i, j \in 1..Len(batch') : batch'[i] = batch'[j] => i = j
      BY <3>1, <3>2
    <3> QED
      BY <2>1, <3>1, <3>2, <3>3, <3>4 DEF LoopInv
  <2>4. CASE ~seed
    <3>1. batch' = <<>> /\ stash' = stash
      BY <2>1, <2>4
    <3>2. stash' # <<>> => pre_inflight' >= EffectiveMaxInflight
      BY <2>1, <2>2, <2>4, <3>1
    <3>3. Len(batch') = 0
      BY <3>1
    <3>4. (\A i \in 1..Len(batch) :
             batch[i].type = "WRITE" /\ LocalQp(batch[i]) = LocalQp(batch[1]))'
      BY <3>3
    <3>5. \A i, j \in 1..Len(batch') : batch'[i] = batch'[j] => i = j
      BY <3>3
    <3> QED
      BY <1>2, <2>1, <3>1, <3>2, <3>4, <3>5 DEF LoopInv
  <2> QED
    BY <2>3, <2>4
<1>10. CASE Collect
  BY <1>10, LoopCollect
<1>11. CASE CollectEnds
  <2>1. UNCHANGED loop /\ ppc \in {"collect", "accumulate"}
        /\ ppc' \in {"post", IF batch # <<>> /\ stash = <<>> THEN "accumulate" ELSE "post"}
    BY <1>11 DEF CollectEnds, AfterCollect
  <2> QED
    BY <1>2, <1>3, <2>1 DEF LoopInv, loop
<1>12. CASE BarrierDrain
  <2>1. UNCHANGED <<loop, ppc>>
    BY <1>12 DEF BarrierDrain
  <2> QED
    BY <1>2, <1>3, <1>4, <2>1 DEF LoopInv, loop
<1>13. CASE PostStageBarrier
  <2>1. UNCHANGED <<batch, stash, refused, pre_inflight>>
    BY <1>13 DEF PostStageBarrier
  <2>2. CASE ppc = "gate"
    <3>1. ppc' = "top" /\ barrier' = <<>>
      BY <1>13, <2>2 DEF PostStageBarrier
    <3> QED
      BY <1>3, <2>1, <3>1 DEF LoopInv
  <2>3. CASE ppc = "inline"
    <3>1. ppc' = "collect" /\ barrier' = barrier
      BY <1>13, <2>3 DEF PostStageBarrier
    <3> QED
      BY <1>3, <2>1, <2>3, <3>1 DEF LoopInv
  <2> QED
    BY <1>13, <2>2, <2>3 DEF PostStageBarrier
<1>14. CASE PostBatch
  BY <1>3, <1>14 DEF PostBatch, LoopInv
<1>15. CASE BatchRefused
  BY <1>3, <1>15 DEF BatchRefused, LoopInv
<1>16. CASE PostNothing
  BY <1>3, <1>16 DEF PostNothing, LoopInv, loop
<1> QED
  BY <1>5, <1>6, <1>7, <1>8, <1>9, <1>10, <1>11, <1>12, <1>13, <1>14, <1>15, <1>16 DEF ProxyStep

-----------------------------------------------------------------------------
\* What waits in the FIFOs.

\* Who changes the kernel's list, the FIFOs, and the place in the epoch.
LEMMA WaitingFrame ==
    ASSUME PhaseInv, [Next]_vars, ~Collect, ~CommitEpoch,
           \A c \in todo : ~Push(c), \A k \in cfg.kernels : ~Launch(k)
    PROVE  UNCHANGED <<cfg, todo, fifo, cpu_head, epoch>> /\ (Unlaunched' => Unlaunched)
<1>0. cfg' = cfg
  BY ConstNext
<1>1. CASE Leave \/ Acknowledge \/ SpinEnds \/ Withdraw \/ OpenGate \/ Replay \/ StartBatch
           \/ CollectEnds \/ BarrierDrain
  BY <1>0, <1>1 DEF Leave, Acknowledge, SpinEnds, Withdraw, OpenGate, Replay, StartBatch,
     CollectEnds, BarrierDrain, gpu, rings, Unlaunched
<1>2. CASE PostStageBarrier \/ PostBatch \/ BatchRefused \/ PostNothing \/ PollCq \/ ExitDrain
           \/ Exit
  BY <1>0, <1>2 DEF PostStageBarrier, PostBatch, BatchRefused, PostNothing, PollCq, ExitDrain,
     Exit, gpu, rings, Unlaunched
<1>3. CASE KernelEnds \/ DrainProxy \/ Pause \/ PauseReturns \/ HostDrainCq \/ Prepared
           \/ ResumeAck \/ Resume \/ Stop \/ Join
  BY <1>0, <1>3 DEF KernelEnds, DrainProxy, Pause, PauseReturns, HostDrainCq, Prepared,
     ResumeAck, Resume, Stop, Join, gpu, rings, Unlaunched
<1>4. CASE \/ \E w \in wire : Execute(w)
           \/ \E t \in DOMAIN sent : PeerWrites(t)
           \/ Finished \/ UNCHANGED vars
  BY <1>0, <1>4 DEF Execute, PeerWrites, Finished, vars, gpu, rings, Unlaunched
<1> QED
  BY <1>1, <1>2, <1>3, <1>4 DEF Next, ProxyStep, HostStep

\* Every step keeps what waits of this epoch and all different.
LEMMA WaitingStep ==
    ASSUME TypeOK, PhaseInv, WaitingInv, [Next]_vars
    PROVE  WaitingInv'
<1>0. cfg' = cfg /\ cfg \in Configs /\ Fifos' = Fifos /\ epoch \in Nat
  BY ConstNext, CfgFrame DEF TypeOK
<1>a. \A f \in Fifos : /\ fifo[f] \in Seq(Cmds) /\ cpu_head[f] \in Nat /\ Len(fifo[f]) \in Nat
                       /\ \A i \in 1..Len(fifo[f]) : fifo[f][i] \in Cmds
  BY DEF TypeOK
<1>b. \A f, g \in Fifos : \A i \in 1..Len(fifo[f]), j \in 1..Len(fifo[g]) :
        fifo[f][i].type # "EMPTY" /\ fifo[f][i] = fifo[g][j] => f = g /\ i = j
  BY DEF WaitingInv
<1>1. CASE /\ ~Collect /\ ~CommitEpoch
           /\ (\A c \in todo : ~Push(c)) /\ (\A k \in cfg.kernels : ~Launch(k))
  <2>1. UNCHANGED <<cfg, todo, fifo, cpu_head, epoch>> /\ (Unlaunched' => Unlaunched)
    BY <1>1, WaitingFrame
  <2> QED
    BY <1>0, <2>1 DEF WaitingInv
<1>2. CASE Collect
  <2>1. UNCHANGED <<todo, fifo, epoch, hpc>> /\ cpu_head' = [cpu_head EXCEPT ![cur] = @ + 1]
        /\ cpu_head[cur] < Len(fifo[cur])
    BY <1>2 DEF Collect, Polls, More, gpu
  <2>2. \A f \in Fifos : cpu_head'[f] <= Len(fifo[f])
    <3> SUFFICES ASSUME NEW f \in Fifos PROVE cpu_head'[f] <= Len(fifo[f])
      OBVIOUS
    <3>1. CASE f = cur
      BY <1>a, <2>1, <3>1 DEF TypeOK
    <3>2. CASE f # cur
      BY <1>a, <2>1, <3>2 DEF TypeOK, WaitingInv
    <3> QED
      BY <3>1, <3>2
  <2> QED
    BY <1>0, <2>1, <2>2 DEF WaitingInv, Unlaunched
<1>3. CASE CommitEpoch
  <2>1. todo = {} /\ todo' = {} /\ epoch' = epoch + 1
    BY <1>3 DEF CommitEpoch, PhaseInv
  <2>2. \A f \in Fifos : \/ fifo'[f] = fifo[f] /\ cpu_head'[f] = cpu_head[f]
                         \/ fifo'[f] = <<>> /\ cpu_head'[f] = 0
    <3>1. CASE cfg.skip_reset
      BY <1>3, <3>1 DEF CommitEpoch, rings
    <3>2. CASE ~cfg.skip_reset
      <4>1. fifo' = [fifo EXCEPT ![0] = <<>>] /\ cpu_head' = [cpu_head EXCEPT ![0] = 0]
        BY <1>3, <3>2 DEF CommitEpoch
      <4> QED
        BY <4>1 DEF TypeOK
    <3> QED
      BY <3>1, <3>2
  <2>3. \A f \in Fifos : Len(fifo'[f]) \in 0..Len(fifo[f]) /\ cpu_head'[f] <= Len(fifo'[f])
                         /\ \A i \in 1..Len(fifo'[f]) : i \in 1..Len(fifo[f]) /\ fifo'[f][i] = fifo[f][i]
    <3> SUFFICES ASSUME NEW f \in Fifos
                 PROVE Len(fifo'[f]) \in 0..Len(fifo[f]) /\ cpu_head'[f] <= Len(fifo'[f])
                       /\ \A i \in 1..Len(fifo'[f]) : i \in 1..Len(fifo[f]) /\ fifo'[f][i] = fifo[f][i]
      OBVIOUS
    <3>1. CASE fifo'[f] = fifo[f] /\ cpu_head'[f] = cpu_head[f]
      BY <1>a, <3>1 DEF WaitingInv
    <3>2. CASE fifo'[f] = <<>> /\ cpu_head'[f] = 0
      <4>1. Len(fifo'[f]) = 0
        BY <3>2
      <4> QED
        BY <1>a, <3>2, <4>1
    <3> QED
      BY <2>2, <3>1, <3>2
  <2>4. \A f \in Fifos : \A i \in 1..Len(fifo'[f]) : fifo'[f][i].gen < epoch'
    <3> SUFFICES ASSUME NEW f \in Fifos, NEW i \in 1..Len(fifo'[f]) PROVE fifo'[f][i].gen < epoch'
      OBVIOUS
    <3>1. i \in 1..Len(fifo[f]) /\ fifo'[f][i] = fifo[f][i]
      BY <2>3
    <3> DEFINE g == fifo[f][i].gen
    <3>2. g <= epoch /\ g \in Nat
      BY <1>0, <1>a, <3>1, CmdTypes DEF WaitingInv
    <3> HIDE DEF g
    <3>3. g < epoch'
      BY <1>0, <2>1, <3>2
    <3> QED
      BY <3>1, <3>3 DEF g
  <2>5. \A f \in Fifos : \A i \in 1..Len(fifo'[f]) : fifo'[f][i].gen <= epoch'
    <3> SUFFICES ASSUME NEW f \in Fifos, NEW i \in 1..Len(fifo'[f]) PROVE fifo'[f][i].gen <= epoch'
      OBVIOUS
    <3>1. fifo'[f][i] \in Cmds
      BY <1>a, <2>3
    <3> DEFINE g == fifo'[f][i].gen
    <3>2. g < epoch' /\ g \in Nat
      BY <1>0, <2>4, <3>1, CmdTypes
    <3> HIDE DEF g
    <3>3. g <= epoch'
      BY <1>0, <2>1, <3>2
    <3> QED
      BY <3>3 DEF g
  <2>6. \A f, g \in Fifos : \A i \in 1..Len(fifo'[f]), j \in 1..Len(fifo'[g]) :
           fifo'[f][i].type # "EMPTY" /\ fifo'[f][i] = fifo'[g][j] => f = g /\ i = j
    <3> SUFFICES ASSUME NEW f \in Fifos, NEW g \in Fifos, NEW i \in 1..Len(fifo'[f]),
                        NEW j \in 1..Len(fifo'[g]), fifo'[f][i].type # "EMPTY",
                        fifo'[f][i] = fifo'[g][j]
                 PROVE  f = g /\ i = j
      OBVIOUS
    <3>1. /\ i \in 1..Len(fifo[f]) /\ fifo'[f][i] = fifo[f][i]
          /\ j \in 1..Len(fifo[g]) /\ fifo'[g][j] = fifo[g][j]
      BY <2>3
    <3>2. fifo[f][i] = fifo[g][j] /\ fifo[f][i].type # "EMPTY"
      BY <3>1
    <3> QED
      BY <1>b, <3>1, <3>2, SMT
  <2> QED
    BY <1>0, <2>1, <2>3, <2>4, <2>5, <2>6 DEF WaitingInv
<1>4. ASSUME NEW k \in cfg.kernels, Launch(k) PROVE WaitingInv'
  <2>1. hpc = "idle" /\ hpc' = "kernel" /\ todo' = {Of(c, epoch) : c \in k}
        /\ UNCHANGED <<fifo, cpu_head, epoch>>
    BY <1>4 DEF Launch, rings
  <2>2. \A c \in todo' : c.gen = epoch
    BY <2>1 DEF Of
  <2>3. \A f \in Fifos : \A i \in 1..Len(fifo[f]) : fifo[f][i].gen < epoch
    BY <2>1 DEF WaitingInv, Unlaunched
  <2>4. \A f \in Fifos : \A i \in 1..Len(fifo[f]) : fifo[f][i] \notin todo'
    BY <1>0, <2>2, <2>3
  <2>5. ~Unlaunched'
    BY <2>1 DEF Unlaunched
  <2>6. \A c \in todo' : c.gen = epoch'
    BY <2>1, <2>2
  <2>7. \A f \in Fifos : cpu_head'[f] <= Len(fifo'[f])
    BY <2>1 DEF WaitingInv
  <2>8. \A f \in Fifos : \A i \in 1..Len(fifo'[f]) : fifo'[f][i].gen <= epoch' /\ fifo'[f][i] \notin todo'
    BY <2>1, <2>4 DEF WaitingInv
  <2>9. \A f, g \in Fifos : \A i \in 1..Len(fifo'[f]), j \in 1..Len(fifo'[g]) :
           fifo'[f][i].type # "EMPTY" /\ fifo'[f][i] = fifo'[g][j] => f = g /\ i = j
    BY <2>1 DEF WaitingInv
  <2> QED
    BY <1>0, <2>5, <2>6, <2>7, <2>8, <2>9 DEF WaitingInv
<1>5. ASSUME NEW c \in todo, Push(c) PROVE WaitingInv'
  <2> DEFINE q == FifoOf(c)
             n == Len(fifo[q])
  <2>0. PICK at \in (cpu_head[q] + 1)..(n + 1) :
           /\ fifo'[q][at] = c
           /\ \A i \in 1..(n + 1) : i # at =>
                \/ i \in 1..n /\ fifo'[q][i] = fifo[q][i]
                \/ i = n + 1 /\ fifo'[q][i] = Empty
    BY <1>5, PushIs
  <2>1. /\ c \in Cmds /\ q \in Fifos /\ todo' = todo \ {c} /\ n \in Nat
        /\ Len(fifo'[q]) = n + 1
        /\ \A f \in Fifos : f # q => fifo'[f] = fifo[f]
        /\ UNCHANGED <<cpu_head, hpc, epoch>>
    BY <1>5, <1>a, PushIs
  <2>2. c.gen = epoch /\ hpc = "kernel"
    BY DEF WaitingInv, PhaseInv
  <2> HIDE DEF q, n
  <2>3. \A f \in Fifos : \A i \in 1..Len(fifo'[f]) :
           \/ f = q /\ i = at /\ fifo'[f][i] = c
           \/ i \in 1..Len(fifo[f]) /\ fifo'[f][i] = fifo[f][i]
           \/ fifo'[f][i] = Empty
    <3> SUFFICES ASSUME NEW f \in Fifos, NEW i \in 1..Len(fifo'[f])
                 PROVE  \/ f = q /\ i = at /\ fifo'[f][i] = c
                        \/ i \in 1..Len(fifo[f]) /\ fifo'[f][i] = fifo[f][i]
                        \/ fifo'[f][i] = Empty
      OBVIOUS
    <3>1. CASE f = q
      BY <2>0, <2>1, <3>1 DEF n
    <3>2. CASE f # q
      BY <2>1, <3>2
    <3> QED
      BY <3>1, <3>2
  <2>4. \A f \in Fifos : \A i \in 1..Len(fifo[f]) : fifo[f][i] \notin todo /\ fifo[f][i].gen <= epoch
    BY DEF WaitingInv
  <2>5. \A f \in Fifos : cpu_head'[f] <= Len(fifo'[f])
    <3> SUFFICES ASSUME NEW f \in Fifos PROVE cpu_head'[f] <= Len(fifo'[f])
      OBVIOUS
    <3>1. cpu_head[f] <= Len(fifo[f])
      BY DEF WaitingInv
    <3>2. CASE f = q
      BY <1>a, <2>1, <3>1, <3>2 DEF n
    <3>3. CASE f # q
      BY <2>1, <3>1, <3>3
    <3> QED
      BY <3>2, <3>3
  <2>6. \A f \in Fifos : \A i \in 1..Len(fifo'[f]) :
           fifo'[f][i].gen <= epoch' /\ fifo'[f][i] \notin todo'
    <3> SUFFICES ASSUME NEW f \in Fifos, NEW i \in 1..Len(fifo'[f])
                 PROVE  fifo'[f][i].gen <= epoch' /\ fifo'[f][i] \notin todo'
      OBVIOUS
    <3>1. CASE fifo'[f][i] = c
      BY <1>0, <2>1, <2>2, <3>1
    <3>2. CASE i \in 1..Len(fifo[f]) /\ fifo'[f][i] = fifo[f][i]
      BY <2>1, <2>4, <3>2
    <3>3. CASE fifo'[f][i] = Empty
      <4>1. Empty.gen = 0 /\ 0 <= epoch /\ epoch # 0
        BY DEF TypeOK, Empty
      <4>2. Empty \notin todo
        BY <4>1 DEF WaitingInv
      <4> QED
        BY <2>1, <3>3, <4>1, <4>2
    <3> QED
      BY <2>3, <3>1, <3>2, <3>3
  <2>7. \A f, g \in Fifos : \A i \in 1..Len(fifo'[f]), j \in 1..Len(fifo'[g]) :
           fifo'[f][i].type # "EMPTY" /\ fifo'[f][i] = fifo'[g][j] => f = g /\ i = j
    <3> SUFFICES ASSUME NEW f \in Fifos, NEW g \in Fifos, NEW i \in 1..Len(fifo'[f]),
                        NEW j \in 1..Len(fifo'[g]), fifo'[f][i].type # "EMPTY",
                        fifo'[f][i] = fifo'[g][j]
                 PROVE  f = g /\ i = j
      OBVIOUS
    <3>1. CASE i \in 1..Len(fifo[f]) /\ fifo'[f][i] = fifo[f][i]
               /\ j \in 1..Len(fifo[g]) /\ fifo'[g][j] = fifo[g][j]
      <4>1. fifo[f][i] = fifo[g][j] /\ fifo[f][i].type # "EMPTY"
        BY <3>1
      <4> QED
        BY <1>b, <3>1, <4>1, SMT
    <3>4. fifo'[f][i] # Empty /\ fifo'[g][j] # Empty
      BY DEF Empty
    <3>2. CASE f = q /\ i = at /\ fifo'[f][i] = c
      BY <2>3, <2>4, <3>2, <3>4
    <3>3. CASE g = q /\ j = at /\ fifo'[g][j] = c
      BY <2>3, <2>4, <3>3, <3>4
    <3> QED
      BY <2>3, <3>1, <3>2, <3>3, <3>4
  <2>8. ~Unlaunched'
    BY <2>1, <2>2 DEF Unlaunched
  <2>9. \A d \in todo' : d.gen = epoch'
    BY <2>1 DEF WaitingInv
  <2> QED
    BY <1>0, <2>5, <2>6, <2>7, <2>8, <2>9 DEF WaitingInv
<1> QED
  BY <1>1, <1>2, <1>3, <1>4, <1>5

-----------------------------------------------------------------------------
\* Where a command is held, and how it moves.

\* The command at the head of the current FIFO.
Polled == fifo[cur][cpu_head[cur] + 1]

\* It is in nobody's hands yet.
LEMMA PolledFresh ==
    ASSUME TypeOK, WaitingInv, HeldInv, LoopInv, Collect
    PROVE  /\ Polled \in Cmds /\ ~Held(Polled) /\ stash = <<>>
           /\ cpu_head[cur] + 1 \in 1..Len(fifo[cur]) /\ cpu_head[cur] \in Nat
           /\ cpu_head' = [cpu_head EXCEPT ![cur] = @ + 1] /\ cpu_head'[cur] = cpu_head[cur] + 1
           /\ UNCHANGED <<cfg, todo, fifo, cur, refused, wire, landed, epoch, hpc, pre_inflight,
                          inflight>>
           /\ Unposted /\ Unposted'
           /\ TakeWrite(Polled) \/ TakeStash(Polled) \/ TakeBarrier(Polled) \/ TakeNothing(Polled)
<1>1. /\ Polls(Polled) /\ ppc \in {"collect", "accumulate"}
      /\ TakeWrite(Polled) \/ TakeStash(Polled) \/ TakeBarrier(Polled) \/ TakeNothing(Polled)
  BY DEF Collect, Polled
<1>2. fifo[cur] \in Seq(Cmds) /\ cpu_head[cur] \in Nat /\ cpu_head[cur] + 1 \in 1..Len(fifo[cur])
  BY <1>1 DEF TypeOK, Polls, More
<1>3. Polled \in Cmds
  BY <1>2 DEF Polled
<1>4. ~Held(Polled)
  <2>1. cpu_head[cur] + 1 \in (cpu_head[cur] + 1)..Len(fifo[cur]) /\ cur \in Fifos
    BY <1>2 DEF TypeOK
  <2> QED
    BY <1>3, <2>1 DEF HeldInv, Polled
<1>5. stash = <<>>
  <2>1. pre_inflight + Len(batch) < EffectiveMaxInflight
    BY <1>1 DEF Polls, CanCollect
  <2> DEFINE m == EffectiveMaxInflight
             n == Len(batch)
  <2>2. m \in Int /\ n \in Nat /\ pre_inflight \in Int
    BY EffectiveType DEF TypeOK
  <2>3. pre_inflight + n < m
    BY <2>1
  <2> HIDE DEF m, n
  <2>4. ~(pre_inflight >= m)
    BY <2>2, <2>3
  <2> QED
    BY <1>1, <2>4 DEF LoopInv, m
<1>6. /\ cpu_head' = [cpu_head EXCEPT ![cur] = @ + 1] /\ cpu_head'[cur] = cpu_head[cur] + 1
      /\ UNCHANGED <<cfg, todo, fifo, cur, refused, wire, landed, epoch, hpc, pre_inflight,
                     inflight>>
  BY <1>1, <1>2 DEF Polls, gpu, nic, TypeOK
<1>7. Unposted /\ Unposted'
  <2>1. ppc' \in {"collect", "accumulate", "inline", "post"}
    BY <1>1 DEF TakeWrite, TakeStash, TakeBarrier, TakeNothing, AfterCollect
  <2> QED
    BY <1>1, <2>1 DEF Unposted
<1> QED
  BY <1>1, <1>2, <1>3, <1>4, <1>5, <1>6, <1>7

\* Polling moves the command polled, and only it, to one place.
LEMMA MoveCollect ==
    ASSUME TypeOK, WaitingInv, HeldInv, LoopInv, Collect, NEW d \in Cmds
    PROVE  /\ InPosted(d)' = InPosted(d) /\ InNotified(d)' = InNotified(d)
           /\ InBatch(d)' \/ InStash(d)' => InBatch(d) \/ InStash(d) \/ d = Polled
           /\ InGate(d)' \/ Inline(d)' => InGate(d) \/ Inline(d) \/ d = Polled
           /\ InBatch(d) => InBatch(d)'
           /\ InStash(d)' => d = Polled /\ ~InBatch(d)'
           /\ ~(InGate(d)' /\ Inline(d)')
           /\ d = Polled /\ d.type = "WRITE" => InBatch(d)' \/ InStash(d)'
<1>1. /\ Polled \in Cmds /\ ~Held(Polled) /\ stash = <<>>
      /\ UNCHANGED <<cfg, fifo, cur, refused, wire, landed>>
      /\ cpu_head'[cur] = cpu_head[cur] + 1
      /\ Unposted /\ Unposted'
      /\ TakeWrite(Polled) \/ TakeStash(Polled) \/ TakeBarrier(Polled) \/ TakeNothing(Polled)
  BY PolledFresh
<1>2. InPosted(d)' = InPosted(d) /\ InNotified(d)' = InNotified(d)
  BY <1>1 DEF InPosted, InNotified
<1>3. fifo'[cur'][cpu_head'[cur']] = Polled /\ ppc \in {"collect", "accumulate"}
  BY <1>1 DEF Polled, Collect
<1>4. Inline(d)' <=> ppc' = "inline" /\ d = Polled
  BY <1>3 DEF Inline
<1>5. ~InStash(d)
  BY <1>1 DEF InStash
<1>6. ~InBatch(Polled) /\ ~InGate(Polled)
  BY <1>1 DEF Held
<1>7. batch \in Seq(Cmds)
  BY DEF TypeOK
<1>8. CASE TakeWrite(Polled)
  <2>1. batch' = Append(batch, Polled) /\ UNCHANGED <<ppc, stash, barrier>>
    BY <1>8 DEF TakeWrite
  <2>2. Len(batch') = Len(batch) + 1 /\ batch'[Len(batch) + 1] = Polled
        /\ \A i \in 1..Len(batch) : batch'[i] = batch[i]
    BY <1>1, <1>7, <2>1, AppendProperties
  <2>3. InBatch(d)' <=> InBatch(d) \/ d = Polled
    <3>1. InBatch(d)' <=> \E i \in 1..Len(batch') : batch'[i] = d
      BY <1>1 DEF InBatch
    <3>2. InBatch(d) <=> \E i \in 1..Len(batch) : batch[i] = d
      BY <1>1 DEF InBatch
    <3>3. Len(batch) \in Nat
      BY <1>7
    <3>4. ASSUME InBatch(d)' PROVE InBatch(d) \/ d = Polled
      <4>1. PICK i \in 1..Len(batch') : batch'[i] = d
        BY <3>1, <3>4
      <4>2. i \in 1..Len(batch) \/ i = Len(batch) + 1
        BY <2>2, <3>3
      <4> QED
        BY <2>2, <3>2, <4>1, <4>2
    <3>5. ASSUME InBatch(d) PROVE InBatch(d)'
      <4>1. PICK i \in 1..Len(batch) : batch[i] = d
        BY <3>2, <3>5
      <4>2. i \in 1..Len(batch') /\ batch'[i] = d
        BY <2>2, <3>3, <4>1
      <4> QED
        BY <3>1, <4>2
    <3>6. ASSUME d = Polled PROVE InBatch(d)'
      <4>1. Len(batch) + 1 \in 1..Len(batch')
        BY <2>2, <3>3
      <4> QED
        BY <2>2, <3>1, <3>6, <4>1
    <3> QED
      BY <3>4, <3>5, <3>6
  <2>4. InStash(d)' = InStash(d) /\ InGate(d)' = InGate(d) /\ ppc' # "inline"
    BY <1>3, <2>1 DEF InStash, InGate
  <2> QED
    BY <1>2, <1>4, <1>5, <2>3, <2>4
<1>9. CASE TakeStash(Polled)
  <2>1. stash' = <<Polled>> /\ ppc' = "post" /\ UNCHANGED <<batch, barrier>>
    BY <1>9 DEF TakeStash
  <2>2. InStash(d)' <=> d = Polled
    BY <2>1 DEF InStash
  <2>3. InBatch(d)' = InBatch(d) /\ InGate(d)' = InGate(d)
    BY <1>1, <2>1 DEF InBatch, InGate
  <2> QED
    BY <1>2, <1>4, <1>6, <2>1, <2>2, <2>3
<1>10. CASE TakeBarrier(Polled)
  <2>1. UNCHANGED <<batch, stash>> /\ Polled.type # "WRITE"
        /\ \/ ppc' = "inline" /\ barrier' = barrier
           \/ ppc' # "inline" /\ barrier' = <<Polled>>
    BY <1>10 DEF TakeBarrier, AfterCollect
  <2>2. InBatch(d)' = InBatch(d) /\ InStash(d)' = InStash(d)
    BY <1>1, <2>1 DEF InBatch, InStash
  <2>3. CASE ppc' = "inline" /\ barrier' = barrier
    <3>1. InGate(d)' = InGate(d)
      BY <2>3 DEF InGate
    <3> QED
      BY <1>2, <1>4, <1>5, <1>6, <2>1, <2>2, <3>1
  <2>4. CASE ppc' # "inline" /\ barrier' = <<Polled>>
    <3>1. InGate(d)' <=> d = Polled
      BY <2>4 DEF InGate
    <3> QED
      BY <1>2, <1>4, <1>5, <2>1, <2>2, <2>4, <3>1
  <2> QED
    BY <2>1, <2>3, <2>4
<1>11. CASE TakeNothing(Polled)
  <2>1. UNCHANGED <<ppc, batch, stash, barrier>> /\ Polled.type # "WRITE"
    BY <1>11 DEF TakeNothing
  <2>2. InBatch(d)' = InBatch(d) /\ InStash(d)' = InStash(d) /\ InGate(d)' = InGate(d)
    BY <1>1, <2>1 DEF InBatch, InStash, InGate
  <2> QED
    BY <1>2, <1>3, <1>4, <1>5, <2>1, <2>2
<1> QED
  BY <1>1, <1>8, <1>9, <1>10, <1>11

\* A new batch takes the stash or leaves it; whatever was in the old one was posted.
LEMMA MoveStart ==
    ASSUME TypeOK, StartBatch, NEW d \in Cmds
    PROVE  /\ InPosted(d)' = InPosted(d) /\ InNotified(d)' = InNotified(d)
           /\ InGate(d)' = InGate(d) /\ ~Inline(d)' /\ ~InBatch(d)
           /\ InBatch(d)' => InStash(d) /\ ~InStash(d)'
           /\ InStash(d)' => InStash(d)
           /\ InStash(d) => InBatch(d)' \/ InStash(d)'
<1>1. /\ ppc = "top" /\ ppc' = "collect" /\ ~refused
      /\ UNCHANGED <<barrier, wire, landed>>
      /\ \/ batch' = stash /\ stash' = <<>>
         \/ batch' = <<>> /\ stash' = stash
  BY DEF StartBatch, nic
<1>2. InPosted(d)' = InPosted(d) /\ InNotified(d)' = InNotified(d) /\ InGate(d)' = InGate(d)
      /\ ~Inline(d)'
  BY <1>1 DEF InPosted, InNotified, InGate, Inline
<1>3. Unposted' /\ ~Unposted
  BY <1>1 DEF Unposted
<1>4. CASE batch' = stash /\ stash' = <<>>
  <2>1. InBatch(d)' <=> InStash(d)
    BY <1>3, <1>4 DEF InBatch, InStash
  <2>2. ~InStash(d)'
    BY <1>4 DEF InStash
  <2> QED
    BY <1>2, <1>3, <2>1, <2>2 DEF InBatch
<1>5. CASE batch' = <<>> /\ stash' = stash
  <2>1. ~InBatch(d)' /\ InStash(d)' = InStash(d)
    BY <1>5 DEF InBatch, InStash
  <2> QED
    BY <1>2, <1>3, <2>1 DEF InBatch
<1> QED
  BY <1>1, <1>4, <1>5

\* What PostBatch does: the WRs of the batch, no more.
LEMMA PostIs ==
    ASSUME TypeOK, LoopInv, PostBatch
    PROVE  /\ batch \in Seq(Cmds) /\ batch # <<>> /\ ppc = "post" /\ ppc' = "poll_posted"
           /\ ~refused' /\ Unposted /\ ~Unposted'
           /\ wire' = wire \cup BatchWrs(batch)
           /\ UNCHANGED <<cfg, todo, fifo, cpu_head, cur, batch, stash, barrier, cq, landed,
                          epoch, hpc, pre_inflight>>
           /\ \A w \in BatchWrs(batch) :
                /\ w \in TransferWrs /\ w.qp = LocalQp(batch[1]) /\ w.epoch = epoch
                /\ w.op \in {"imm", "data", "flag", "tail"}
                /\ \E i \in 1..Len(batch) :
                     /\ w.cmd = batch[i]
                     /\ Announces(w) => w = Announcement(batch, i)
                /\ WriteImm => w.n = 1
           /\ \A i \in 1..Len(batch) :
                /\ Announcement(batch, i) \in BatchWrs(batch)
                /\ Announces(Announcement(batch, i)) /\ Announcement(batch, i).cmd = batch[i]
                /\ ~HasTail => Announcement(batch, i).n = 1
<1>1. /\ batch \in Seq(Cmds) /\ batch # <<>> /\ ppc = "post" /\ ppc' = "poll_posted"
      /\ ~refused' /\ wire' = wire \cup BatchWrs(batch)
      /\ UNCHANGED <<cfg, todo, fifo, cpu_head, cur, batch, stash, barrier, cq, landed,
                     epoch, hpc, pre_inflight>>
  BY DEF PostBatch, TypeOK, gpu, rings
<1>2. Unposted /\ ~Unposted'
  BY <1>1 DEF Unposted
<1>3. /\ cfg \in Configs /\ epoch \in Nat /\ sender_seq \in [QPs -> Nat]
      /\ \A k \in 1..Len(batch) : LocalQp(batch[k]) = LocalQp(batch[1])
  BY DEF TypeOK, LoopInv
<1>4. \A w \in BatchWrs(batch) :
         /\ w \in TransferWrs /\ w.qp = LocalQp(batch[1]) /\ w.epoch = epoch
         /\ \E i \in 1..Len(batch) :
              /\ w.cmd = batch[i]
              /\ Announces(w) => w = Announcement(batch, i)
         /\ WriteImm => w.n = 1
  BY <1>1, <1>3, BatchWrIs
<1>5. \A w \in BatchWrs(batch) : w.op \in {"imm", "data", "flag", "tail"}
  BY <1>4 DEF TransferWrs
<1>6. \A i \in 1..Len(batch) :
         /\ Announcement(batch, i) \in BatchWrs(batch)
         /\ Announces(Announcement(batch, i)) /\ Announcement(batch, i).cmd = batch[i]
         /\ ~HasTail => Announcement(batch, i).n = 1
  BY <1>1, BatchWrHas
<1> HIDE DEF Unposted
<1> QED
  BY <1>1, <1>2, <1>4, <1>5, <1>6

\* So the batch is posted, the announcements of its commands with it.
LEMMA MovePost ==
    ASSUME TypeOK, LoopInv, PostBatch, NEW d \in Cmds
    PROVE  /\ ~InBatch(d)' /\ InStash(d)' = InStash(d) /\ InGate(d)' = InGate(d) /\ ~Inline(d)'
           /\ InNotified(d)' = InNotified(d)
           /\ InPosted(d)' <=> InPosted(d) \/ InBatch(d)
           /\ InBatch(d) \/ Flagged(d) => Flagged(d)'
<1> DEFINE b == batch
           ws == BatchWrs(batch)
<1>1. /\ Unposted /\ ~Unposted' /\ ppc' = "poll_posted" /\ UNCHANGED <<stash, barrier, landed>>
      /\ wire' = wire \cup ws
      /\ \A w \in ws : w.op \in {"imm", "data", "flag", "tail"} /\ \E i \in 1..Len(b) : w.cmd = b[i]
      /\ \A i \in 1..Len(b) : \E w \in ws : Announces(w) /\ w.cmd = b[i]
  BY PostIs
<1> HIDE DEF ws, b
<1>2. InStash(d)' = InStash(d) /\ InGate(d)' = InGate(d) /\ ~Inline(d)' /\ ~InBatch(d)'
  BY <1>1 DEF InStash, InGate, Inline, InBatch
<1>3. InNotified(d)' = InNotified(d)
  BY <1>1 DEF InNotified
<1>4. InBatch(d) <=> \E i \in 1..Len(b) : b[i] = d
  BY <1>1 DEF InBatch, b
<1>5. InPosted(d)' <=> InPosted(d) \/ InBatch(d)
  BY <1>1, <1>4 DEF InPosted, Announces
<1>6. InBatch(d) \/ Flagged(d) => Flagged(d)'
  BY <1>1, <1>4 DEF Flagged, Announces
<1> QED
  BY <1>2, <1>3, <1>5, <1>6

\* What PostStageBarrier does: the WRs of one barrier, those the NIC takes.
LEMMA NotifyIs ==
    ASSUME TypeOK, LoopInv, WaitingInv, PostStageBarrier
    PROVE  /\ ppc \in {"gate", "inline"} /\ inflight <= 0
           /\ BarrierCmd \in Cmds /\ BarrierCmd.type = "BARRIER_NOTIFY"
           /\ \E ok \in SUBSET BarrierWrs :
                /\ wire' = wire \cup ok /\ inflight' = inflight + Cardinality(ok)
                /\ ok \subseteq NotifyWrs /\ IsFiniteSet(ok)
                /\ \A w \in ok : w.op = "barrier" /\ w.cmd.for = BarrierCmd /\ w.n = 1
           /\ UNCHANGED <<cfg, todo, fifo, cpu_head, cur, batch, refused, stash, pre_inflight,
                          sender_seq, cq, landed, epoch, hpc>>
           /\ \/ ppc = "gate" /\ ppc' = "top" /\ barrier' = <<>>
              \/ ppc = "inline" /\ ppc' = "collect" /\ barrier' = barrier
<1>1. ppc \in {"gate", "inline"} /\ inflight <= 0
  BY DEF PostStageBarrier
<1>2. BarrierCmd \in Cmds /\ BarrierCmd.type = "BARRIER_NOTIFY"
  BY <1>1, BarrierCmdType
<1>3. cfg \in Configs /\ epoch \in Nat
  BY DEF TypeOK
<1>4. /\ BarrierWrs \subseteq NotifyWrs /\ IsFiniteSet(BarrierWrs)
      /\ \A w \in BarrierWrs : w.op = "barrier" /\ w.cmd.for = BarrierCmd /\ w.n = 1
  BY <1>2, <1>3, BarrierWrIs
<1>5. PICK ok \in SUBSET BarrierWrs :
         wire' = wire \cup ok /\ inflight' = inflight + Cardinality(ok)
  BY DEF PostStageBarrier
<1>6. IsFiniteSet(ok)
  BY <1>4, FS_Subset
<1>7. /\ UNCHANGED <<cfg, todo, fifo, cpu_head, cur, batch, refused, stash, pre_inflight,
                     sender_seq, cq, landed, epoch, hpc>>
      /\ \/ ppc = "gate" /\ ppc' = "top" /\ barrier' = <<>>
         \/ ppc = "inline" /\ ppc' = "collect" /\ barrier' = barrier
  BY <1>1 DEF PostStageBarrier, gpu, rings
<1> QED
  BY <1>1, <1>2, <1>4, <1>5, <1>6, <1>7

\* The barrier leaves its place as it is posted.
LEMMA MoveNotify ==
    ASSUME TypeOK, LoopInv, WaitingInv, OnceInv, PostStageBarrier, NEW d \in Cmds
    PROVE  /\ InBatch(d)' = InBatch(d) /\ InStash(d)' = InStash(d) /\ InPosted(d)' = InPosted(d)
           /\ InGate(d)' => InGate(d) /\ d # BarrierCmd
           /\ ~Inline(d)'
           /\ InNotified(d)' => InNotified(d) \/ d = BarrierCmd
           /\ InGate(BarrierCmd) \/ Inline(BarrierCmd)
           /\ Flagged(d)' = Flagged(d)
<1>1. PICK ok \in SUBSET BarrierWrs :
         /\ wire' = wire \cup ok
         /\ \A w \in ok : w.op = "barrier" /\ w.cmd.for = BarrierCmd
  BY NotifyIs
<1>2. /\ UNCHANGED <<batch, refused, stash, landed>> /\ BarrierCmd \in Cmds
      /\ \/ ppc = "gate" /\ ppc' = "top" /\ barrier' = <<>>
         \/ ppc = "inline" /\ ppc' = "collect" /\ barrier' = barrier
  BY NotifyIs
<1>3. InPosted(d)' = InPosted(d) /\ Flagged(d)' = Flagged(d)
  BY <1>1, <1>2 DEF InPosted, Flagged, Announces
<1>4. InNotified(d)' => InNotified(d) \/ d = BarrierCmd
  BY <1>1, <1>2 DEF InNotified
<1>5. InStash(d)' = InStash(d) /\ ~Inline(d)'
  BY <1>2 DEF InStash, Inline
<1>6. CASE ppc = "gate" /\ ppc' = "top" /\ barrier' = <<>>
  <2>1. BarrierCmd = barrier[1] /\ barrier # <<>> /\ barrier \in Seq(Cmds)
    BY <1>6 DEF BarrierCmd, LoopInv, TypeOK
  <2>2. 1 \in 1..Len(barrier)
    BY <2>1
  <2>3. InGate(BarrierCmd)
    BY <2>1, <2>2 DEF InGate
  <2>4. ~InGate(d)'
    BY <1>6 DEF InGate
  <2>5. InBatch(d)' = InBatch(d)
    BY <1>2, <1>6 DEF InBatch, Unposted
  <2> QED
    BY <1>3, <1>4, <1>5, <2>3, <2>4, <2>5
<1>7. CASE ppc = "inline" /\ ppc' = "collect" /\ barrier' = barrier
  <2>1. Inline(BarrierCmd)
    BY <1>7 DEF Inline, BarrierCmd
  <2>2. ~InGate(BarrierCmd)
    BY <1>2, <2>1 DEF OnceInv
  <2>3. InGate(d)' = InGate(d)
    BY <1>7 DEF InGate
  <2>4. InBatch(d)' = InBatch(d)
    BY <1>2, <1>7 DEF InBatch, Unposted
  <2> QED
    BY <1>3, <1>4, <1>5, <2>1, <2>2, <2>3, <2>4
<1> QED
  BY <1>2, <1>6, <1>7

\* Who adds a WR: PostBatch and PostStageBarrier.  A WR carried out stays known.
LEMMA WiredFrame ==
    ASSUME [Next]_vars, ~PostBatch, ~PostStageBarrier
    PROVE  (wire \cup landed)' = wire \cup landed /\ landed \subseteq landed'
<1>1. CASE Leave \/ Acknowledge \/ SpinEnds \/ Withdraw \/ OpenGate \/ Replay \/ StartBatch
           \/ CollectEnds \/ BarrierDrain
  BY <1>1 DEF Leave, Acknowledge, SpinEnds, Withdraw, OpenGate, Replay, StartBatch, CollectEnds,
     BarrierDrain, DrainsCq, nic
<1>2. CASE Collect
  BY <1>2 DEF Collect, Polls, nic
<1>3. CASE BatchRefused \/ PostNothing \/ PollCq \/ ExitDrain \/ Exit
  BY <1>3 DEF BatchRefused, PostNothing, PollCq, ExitDrain, Exit, DrainsCq, nic
<1>4. CASE HostStep
  BY <1>4 DEF HostStep, Launch, KernelEnds, DrainProxy, Pause, PauseReturns, HostDrainCq,
     Prepared, CommitEpoch, ResumeAck, Resume, Stop, Join, DrainsCq, nic
<1>5. CASE \/ \E c \in todo : Push(c)
           \/ \E w \in wire : Execute(w)
           \/ \E t \in DOMAIN sent : PeerWrites(t)
           \/ Finished \/ UNCHANGED vars
  BY <1>5 DEF Push, Execute, PeerWrites, Finished, vars, nic
<1> QED
  BY <1>1, <1>2, <1>3, <1>4, <1>5 DEF Next, ProxyStep

\* Every other step of the proxy leaves the batch, the stash and the barrier as they are.
LEMMA ProxyFrame ==
    ASSUME LoopInv, ProxyStep, ~Collect, ~StartBatch, ~PostBatch, ~PostStageBarrier
    PROVE  /\ UNCHANGED <<batch, stash, barrier, cur, cpu_head, fifo>>
           /\ Unposted' <=> Unposted /\ ~(PostNothing /\ batch = <<>>)
           /\ ppc' = "inline" => ppc = "inline"
<1>1. CASE Leave \/ Acknowledge \/ SpinEnds \/ Withdraw \/ OpenGate \/ Replay
  BY <1>1 DEF Leave, Acknowledge, SpinEnds, Withdraw, OpenGate, Replay, PostNothing, gpu, rings,
     loop, Unposted
<1>2. CASE CollectEnds \/ BarrierDrain
  BY <1>2 DEF CollectEnds, AfterCollect, BarrierDrain, PostNothing, gpu, rings, loop, Unposted
<1>3. CASE BatchRefused \/ PollCq \/ ExitDrain \/ Exit
  BY <1>3 DEF BatchRefused, PollCq, ExitDrain, Exit, PostNothing, gpu, rings, loop, Unposted
<1>4. CASE PostNothing
  BY <1>4 DEF PostNothing, gpu, rings, loop, Unposted, LoopInv
<1> QED
  BY <1>1, <1>2, <1>3, <1>4 DEF ProxyStep

\* No other step moves a command; reset_inflight may drop a barrier.
LEMMA MoveOther ==
    ASSUME TypeOK, PhaseInv, LoopInv, WaitingInv, [Next]_vars,
           ~Collect, ~StartBatch, ~PostBatch, ~PostStageBarrier, NEW d \in Cmds
    PROVE  /\ InBatch(d)' <=> InBatch(d)
           /\ InStash(d)' <=> InStash(d)
           /\ InPosted(d)' <=> InPosted(d)
           /\ InGate(d)' => InGate(d)
           /\ Inline(d)' => Inline(d)
           /\ InNotified(d)' <=> InNotified(d)
           /\ Flagged(d)' <=> Flagged(d)
<1>1. (wire \cup landed)' = wire \cup landed
  BY WiredFrame
<1>2. (InPosted(d)' <=> InPosted(d)) /\ (InNotified(d)' <=> InNotified(d))
      /\ (Flagged(d)' <=> Flagged(d))
  BY <1>1 DEF InPosted, InNotified, Flagged, Announces
<1>3. ppc = "inline" /\ ppc' = "inline" => (Inline(d)' <=> Inline(d))
  BY InlineEntry DEF Inline
<1>4. CASE ProxyStep
  <2>1. /\ UNCHANGED <<batch, stash, barrier>>
        /\ Unposted' <=> Unposted /\ ~(PostNothing /\ batch = <<>>)
        /\ ppc' = "inline" => ppc = "inline"
    BY <1>4, ProxyFrame
  <2>2. (InStash(d)' <=> InStash(d)) /\ (InGate(d)' <=> InGate(d))
    BY <2>1 DEF InStash, InGate
  <2>3. batch = <<>> => ~InBatch(d) /\ ~InBatch(d)'
    BY <2>1 DEF InBatch
  <2>4. InBatch(d)' <=> InBatch(d)
    BY <2>1, <2>3 DEF InBatch
  <2>5. Inline(d)' => Inline(d)
    BY <1>3, <2>1 DEF Inline
  <2> QED
    BY <1>2, <2>2, <2>4, <2>5
<1>5. CASE ~ProxyStep
  <2>1. UNCHANGED <<batch, stash, refused, ppc>> /\ (barrier' = barrier \/ barrier' = <<>>)
    BY <1>5, HoldFrame
  <2>2. (InStash(d)' <=> InStash(d)) /\ (InBatch(d)' <=> InBatch(d))
    BY <2>1 DEF InStash, InBatch, Unposted
  <2>3. InGate(d)' => InGate(d)
    BY <2>1 DEF InGate
  <2>4. Inline(d)' => Inline(d)
    BY <1>3, <2>1 DEF Inline
  <2> QED
    BY <1>2, <2>2, <2>3, <2>4
<1> QED
  BY <1>4, <1>5

\* A command is in hand after a step only if it was before, or has just been polled.
LEMMA HeldMoves ==
    ASSUME TypeOK, PhaseInv, LoopInv, WaitingInv, HeldInv, OnceInv, [Next]_vars,
           NEW d \in Cmds, Held(d)'
    PROVE  Held(d) \/ (Collect /\ d = Polled)
<1>1. CASE Collect
  <2>1. /\ InPosted(d)' = InPosted(d) /\ InNotified(d)' = InNotified(d)
        /\ InBatch(d)' \/ InStash(d)' => InBatch(d) \/ InStash(d) \/ d = Polled
        /\ InGate(d)' \/ Inline(d)' => InGate(d) \/ Inline(d) \/ d = Polled
    BY <1>1, MoveCollect
  <2> QED
    BY <1>1, <2>1 DEF Held
<1>2. CASE StartBatch
  <2>1. /\ InPosted(d)' = InPosted(d) /\ InNotified(d)' = InNotified(d)
        /\ InGate(d)' = InGate(d) /\ ~Inline(d)'
        /\ InBatch(d)' => InStash(d)
        /\ InStash(d)' => InStash(d)
    BY <1>2, MoveStart
  <2> QED
    BY <2>1 DEF Held
<1>3. CASE PostBatch
  <2>1. /\ ~InBatch(d)' /\ InStash(d)' = InStash(d) /\ InGate(d)' = InGate(d) /\ ~Inline(d)'
        /\ InNotified(d)' = InNotified(d)
        /\ InPosted(d)' <=> InPosted(d) \/ InBatch(d)
    BY <1>3, MovePost
  <2> QED
    BY <2>1 DEF Held
<1>4. CASE PostStageBarrier
  <2>1. /\ InBatch(d)' = InBatch(d) /\ InStash(d)' = InStash(d) /\ InPosted(d)' = InPosted(d)
        /\ InGate(d)' => InGate(d)
        /\ ~Inline(d)'
        /\ InNotified(d)' => InNotified(d) \/ d = BarrierCmd
        /\ InGate(BarrierCmd) \/ Inline(BarrierCmd)
    BY <1>4, MoveNotify
  <2> QED
    BY <2>1 DEF Held
<1>5. CASE ~Collect /\ ~StartBatch /\ ~PostBatch /\ ~PostStageBarrier
  <2>1. /\ InBatch(d)' <=> InBatch(d)
        /\ InStash(d)' <=> InStash(d)
        /\ InPosted(d)' <=> InPosted(d)
        /\ InGate(d)' => InGate(d)
        /\ Inline(d)' => Inline(d)
        /\ InNotified(d)' <=> InNotified(d)
    BY <1>5, MoveOther
  <2> QED
    BY <2>1 DEF Held
<1> QED
  BY <1>1, <1>2, <1>3, <1>4, <1>5

\* Every step keeps what is held out of the kernel's hands and off the FIFOs.
LEMMA HeldStep ==
    ASSUME TypeOK, PhaseInv, LoopInv, WaitingInv, HeldInv, OnceInv, [Next]_vars
    PROVE  HeldInv'
<1>0. Cmds' = Cmds /\ Fifos' = Fifos /\ epoch \in Nat /\ cfg \in Configs
  BY ConstNext, CfgFrame DEF TypeOK
<1> SUFFICES ASSUME NEW d \in Cmds, Held(d)'
             PROVE  /\ d.type # "EMPTY"
                    /\ d.gen <= epoch' /\ d \notin todo' /\ (Unlaunched' => d.gen < epoch')
                    /\ \A f \in Fifos : \A i \in (cpu_head'[f] + 1)..Len(fifo'[f]) : fifo'[f][i] # d
  BY <1>0 DEF HeldInv
<1>1. Held(d) \/ (Collect /\ d = Polled)
  BY HeldMoves
<1>9. d.type # "EMPTY"
  <2>1. Collect => Polled.type # "EMPTY"
    BY DEF Collect, Polls, More, Polled
  <2> QED
    BY <1>1, <2>1 DEF HeldInv
<1>2. Held(d) => /\ d.gen <= epoch /\ d \notin todo /\ (Unlaunched => d.gen < epoch)
                 /\ \A f \in Fifos : \A i \in (cpu_head[f] + 1)..Len(fifo[f]) : fifo[f][i] # d
  BY DEF HeldInv
<1>3. d.gen \in Nat /\ \A f \in Fifos : Len(fifo[f]) \in Nat /\ cpu_head[f] \in Nat
  BY <1>0, CmdTypes DEF TypeOK
<1>4. CASE /\ ~Collect /\ ~CommitEpoch
           /\ (\A c \in todo : ~Push(c)) /\ (\A k \in cfg.kernels : ~Launch(k))
  <2>1. UNCHANGED <<todo, fifo, cpu_head, epoch>> /\ (Unlaunched' => Unlaunched)
    BY <1>4, WaitingFrame
  <2> QED
    BY <1>1, <1>2, <1>4, <1>9, <2>1
<1>5. CASE Collect
  <2>1. /\ cpu_head[cur] + 1 \in 1..Len(fifo[cur]) /\ cpu_head[cur] \in Nat /\ cur \in Fifos
        /\ cpu_head' = [cpu_head EXCEPT ![cur] = @ + 1]
        /\ UNCHANGED <<todo, fifo, epoch, hpc>>
    BY <1>5, PolledFresh DEF TypeOK
  <2>2. \A f \in Fifos : cpu_head'[f] >= cpu_head[f] /\ cpu_head'[f] \in Nat
    BY <1>3, <2>1 DEF TypeOK
  <2>3. Unlaunched' = Unlaunched
    BY <2>1 DEF Unlaunched
  <2>4. CASE Held(d)
    <3>1. \A f \in Fifos : \A i \in (cpu_head'[f] + 1)..Len(fifo'[f]) :
             i \in (cpu_head[f] + 1)..Len(fifo[f])
      BY <1>3, <2>1, <2>2
    <3> QED
      BY <1>2, <1>9, <2>1, <2>3, <2>4, <3>1
  <2>5. CASE d = Polled
    <3>1. d.gen <= epoch /\ d \notin todo /\ (Unlaunched => d.gen < epoch)
      BY <2>1, <2>5 DEF WaitingInv, Polled
    <3>2. ASSUME NEW f \in Fifos, NEW i \in (cpu_head'[f] + 1)..Len(fifo'[f]) PROVE fifo'[f][i] # d
      <4>1. \A g, h \in Fifos : \A j \in 1..Len(fifo[g]), k \in 1..Len(fifo[h]) :
               fifo[g][j].type # "EMPTY" /\ fifo[g][j] = fifo[h][k] => g = h /\ j = k
        BY DEF WaitingInv
      <4>2. i \in 1..Len(fifo[f]) /\ (f = cur => i # cpu_head[cur] + 1)
        BY <1>3, <2>1, <2>2, <3>2 DEF TypeOK
      <4>3. d = fifo[cur][cpu_head[cur] + 1]
        BY <2>5 DEF Polled
      <4>4. fifo[f][i] # d
        BY <1>9, <2>1, <4>1, <4>2, <4>3, SMT
      <4> QED
        BY <2>1, <4>4
    <3> QED
      BY <1>9, <2>1, <2>3, <3>1, <3>2
  <2> QED
    BY <1>1, <2>4, <2>5
<1>6. CASE CommitEpoch
  <2>1. todo' = {} /\ epoch' = epoch + 1 /\ Held(d)
    BY <1>1, <1>6 DEF CommitEpoch, PhaseInv, Collect, Polls
  <2>2. \A f \in Fifos : \/ fifo'[f] = fifo[f] /\ cpu_head'[f] = cpu_head[f]
                         \/ fifo'[f] = <<>> /\ cpu_head'[f] = 0
    <3>1. CASE cfg.skip_reset
      BY <1>6, <3>1 DEF CommitEpoch, rings
    <3>2. CASE ~cfg.skip_reset
      <4>1. fifo' = [fifo EXCEPT ![0] = <<>>] /\ cpu_head' = [cpu_head EXCEPT ![0] = 0]
        BY <1>6, <3>2 DEF CommitEpoch
      <4> QED
        BY <4>1 DEF TypeOK
    <3> QED
      BY <3>1, <3>2
  <2>3. \A f \in Fifos : \A i \in (cpu_head'[f] + 1)..Len(fifo'[f]) : fifo'[f][i] # d
    <3> SUFFICES ASSUME NEW f \in Fifos, NEW i \in (cpu_head'[f] + 1)..Len(fifo'[f])
                 PROVE  fifo'[f][i] # d
      OBVIOUS
    <3>1. CASE fifo'[f] = fifo[f] /\ cpu_head'[f] = cpu_head[f]
      BY <1>2, <2>1, <3>1
    <3>2. CASE fifo'[f] = <<>> /\ cpu_head'[f] = 0
      <4>1. Len(fifo'[f]) = 0
        BY <3>2
      <4> QED
        BY <3>2, <4>1
    <3> QED
      BY <2>2, <3>1, <3>2
  <2>4. d.gen < epoch'
    <3> DEFINE g == d.gen
    <3>1. g <= epoch /\ g \in Nat
      BY <1>2, <1>3, <2>1
    <3> HIDE DEF g
    <3>2. g < epoch'
      BY <1>0, <2>1, <3>1
    <3> QED
      BY <3>2 DEF g
  <2>5. d.gen <= epoch'
    BY <1>0, <1>3, <2>1, <2>4
  <2> QED
    BY <1>9, <2>1, <2>3, <2>4, <2>5
<1>7. ASSUME NEW k \in cfg.kernels, Launch(k)
      PROVE  /\ d.gen <= epoch' /\ d \notin todo' /\ (Unlaunched' => d.gen < epoch')
             /\ \A f \in Fifos : \A i \in (cpu_head'[f] + 1)..Len(fifo'[f]) : fifo'[f][i] # d
  <2>1. hpc = "idle" /\ hpc' = "kernel" /\ todo' = {Of(c, epoch) : c \in k}
        /\ UNCHANGED <<fifo, cpu_head, epoch, cur>>
    BY <1>7 DEF Launch, rings, loop
  <2>2. Held(d)
    <3>1. Collect => cpu_head' # cpu_head
      BY PolledFresh
    <3> QED
      BY <1>1, <2>1, <3>1
  <2>3. d.gen < epoch
    BY <1>2, <2>1, <2>2 DEF Unlaunched
  <2>4. \A c \in todo' : c.gen = epoch
    BY <2>1 DEF Of
  <2>5. d \notin todo'
    BY <1>0, <1>3, <2>3, <2>4
  <2>6. ~Unlaunched'
    BY <2>1 DEF Unlaunched
  <2> QED
    BY <1>2, <2>1, <2>2, <2>5, <2>6
<1>8. ASSUME NEW c \in todo, Push(c)
      PROVE  /\ d.gen <= epoch' /\ d \notin todo' /\ (Unlaunched' => d.gen < epoch')
             /\ \A f \in Fifos : \A i \in (cpu_head'[f] + 1)..Len(fifo'[f]) : fifo'[f][i] # d
  <2> DEFINE q == FifoOf(c)
             n == Len(fifo[q])
  <2>0. PICK at \in (cpu_head[q] + 1)..(n + 1) :
           /\ fifo'[q][at] = c
           /\ \A i \in 1..(n + 1) : i # at =>
                \/ i \in 1..n /\ fifo'[q][i] = fifo[q][i]
                \/ i = n + 1 /\ fifo'[q][i] = Empty
    BY <1>8, PushIs
  <2>1. /\ q \in Fifos /\ todo' = todo \ {c} /\ n \in Nat
        /\ Len(fifo'[q]) = n + 1
        /\ \A f \in Fifos : f # q => fifo'[f] = fifo[f]
        /\ UNCHANGED <<cpu_head, hpc, epoch>>
    BY <1>3, <1>8, PushIs
  <2>2. Held(d)
    <3>1. Collect => cpu_head' # cpu_head
      BY PolledFresh
    <3> QED
      BY <1>1, <2>1, <3>1
  <2>3. d # c /\ d \notin todo'
    BY <1>2, <2>1, <2>2
  <2> HIDE DEF q, n
  <2>4. ASSUME NEW f \in Fifos, NEW i \in (cpu_head'[f] + 1)..Len(fifo'[f]) PROVE fifo'[f][i] # d
    <3>1. cpu_head[f] \in Nat /\ \A j \in (cpu_head[f] + 1)..Len(fifo[f]) : fifo[f][j] # d
      BY <1>2, <1>3, <2>2
    <3>2. CASE f # q
      BY <2>1, <2>4, <3>1, <3>2
    <3>3. CASE f = q /\ i = at
      BY <2>0, <2>3, <3>3
    <3>4. CASE f = q /\ i # at
      <4>1. i \in 1..(n + 1) /\ i \in (cpu_head[f] + 1)..(n + 1)
        BY <2>1, <2>4, <3>1, <3>4
      <4>2. CASE i \in 1..n /\ fifo'[q][i] = fifo[q][i]
        <5>1. i \in (cpu_head[f] + 1)..Len(fifo[f])
          BY <2>1, <3>1, <3>4, <4>1, <4>2 DEF n
        <5> QED
          BY <3>1, <3>4, <4>2, <5>1
      <4>3. CASE fifo'[q][i] = Empty
        BY <1>9, <3>4, <4>3 DEF Empty
      <4> QED
        BY <2>0, <3>4, <4>1, <4>2, <4>3
    <3> QED
      BY <3>2, <3>3, <3>4
  <2>5. Unlaunched' = Unlaunched
    BY <2>1 DEF Unlaunched
  <2> QED
    BY <1>2, <2>1, <2>2, <2>3, <2>4, <2>5
<1> QED
  BY <1>4, <1>5, <1>6, <1>7, <1>8, <1>9

\* Every step keeps a command in one place.
LEMMA OnceStep ==
    ASSUME TypeOK, PhaseInv, LoopInv, WaitingInv, HeldInv, OnceInv, [Next]_vars
    PROVE  OnceInv'
<1>0. Cmds' = Cmds
  BY ConstNext, CfgFrame
<1> SUFFICES ASSUME NEW d \in Cmds
             PROVE  /\ InStash(d)' => ~InBatch(d)' /\ ~InPosted(d)'
                    /\ InBatch(d)' => ~InPosted(d)'
                    /\ InGate(d)' => ~Inline(d)' /\ ~InNotified(d)'
                    /\ Inline(d)' => ~InNotified(d)'
  BY <1>0 DEF OnceInv
<1>1. /\ InStash(d) => ~InBatch(d) /\ ~InPosted(d)
      /\ InBatch(d) => ~InPosted(d)
      /\ InGate(d) => ~Inline(d) /\ ~InNotified(d)
      /\ Inline(d) => ~InNotified(d)
  BY DEF OnceInv
<1>2. CASE Collect
  <2>1. /\ InPosted(d)' = InPosted(d) /\ InNotified(d)' = InNotified(d)
        /\ InBatch(d)' \/ InStash(d)' => InBatch(d) \/ InStash(d) \/ d = Polled
        /\ InGate(d)' \/ Inline(d)' => InGate(d) \/ Inline(d) \/ d = Polled
        /\ InStash(d)' => d = Polled /\ ~InBatch(d)'
        /\ ~(InGate(d)' /\ Inline(d)')
    BY <1>2, MoveCollect
  <2>2. d = Polled => ~InPosted(d) /\ ~InNotified(d)
    BY <1>2, PolledFresh DEF Held
  <2> QED
    BY <1>1, <2>1, <2>2
<1>3. CASE StartBatch
  <2>1. /\ InPosted(d)' = InPosted(d) /\ InNotified(d)' = InNotified(d)
        /\ InGate(d)' = InGate(d) /\ ~Inline(d)'
        /\ InBatch(d)' => InStash(d) /\ ~InStash(d)'
        /\ InStash(d)' => InStash(d)
    BY <1>3, MoveStart
  <2> QED
    BY <1>1, <2>1
<1>4. CASE PostBatch
  <2>1. /\ ~InBatch(d)' /\ InStash(d)' = InStash(d) /\ InGate(d)' = InGate(d) /\ ~Inline(d)'
        /\ InNotified(d)' = InNotified(d)
        /\ InPosted(d)' <=> InPosted(d) \/ InBatch(d)
    BY <1>4, MovePost
  <2> QED
    BY <1>1, <2>1
<1>5. CASE PostStageBarrier
  <2>1. /\ InBatch(d)' = InBatch(d) /\ InStash(d)' = InStash(d) /\ InPosted(d)' = InPosted(d)
        /\ InGate(d)' => InGate(d) /\ d # BarrierCmd
        /\ ~Inline(d)'
        /\ InNotified(d)' => InNotified(d) \/ d = BarrierCmd
    BY <1>5, MoveNotify
  <2> QED
    BY <1>1, <2>1
<1>6. CASE ~Collect /\ ~StartBatch /\ ~PostBatch /\ ~PostStageBarrier
  <2>1. /\ InBatch(d)' <=> InBatch(d)
        /\ InStash(d)' <=> InStash(d)
        /\ InPosted(d)' <=> InPosted(d)
        /\ InGate(d)' => InGate(d)
        /\ Inline(d)' => Inline(d)
        /\ InNotified(d)' <=> InNotified(d)
    BY <1>6, MoveOther
  <2> QED
    BY <1>1, <2>1
<1> QED
  BY <1>2, <1>3, <1>4, <1>5, <1>6

\* A transfer stays in hand until its announcement is posted.
LEMMA KeptMoves ==
    ASSUME TypeOK, PhaseInv, LoopInv, WaitingInv, HeldInv, OnceInv, [Next]_vars, NEW d \in Cmds,
           InBatch(d) \/ InStash(d) \/ Flagged(d)
    PROVE  InBatch(d)' \/ InStash(d)' \/ Flagged(d)'
<1>1. ~PostBatch /\ ~PostStageBarrier => (Flagged(d)' <=> Flagged(d))
  BY WiredFrame DEF Flagged, Announces
<1>2. CASE Collect
  <2>1. ~PostBatch /\ ~PostStageBarrier
    BY <1>2 DEF Collect, PostBatch, PostStageBarrier
  <2>2. InBatch(d) => InBatch(d)'
    BY <1>2, MoveCollect
  <2>3. ~InStash(d)
    BY <1>2, PolledFresh DEF InStash
  <2> QED
    BY <1>1, <2>1, <2>2, <2>3
<1>3. CASE StartBatch
  <2>1. ~PostBatch /\ ~PostStageBarrier
    BY <1>3 DEF StartBatch, PostBatch, PostStageBarrier
  <2>2. ~InBatch(d) /\ (InStash(d) => InBatch(d)' \/ InStash(d)')
    BY <1>3, MoveStart
  <2> QED
    BY <1>1, <2>1, <2>2
<1>4. CASE PostBatch
  <2>1. InStash(d)' = InStash(d) /\ (InBatch(d) \/ Flagged(d) => Flagged(d)')
    BY <1>4, MovePost
  <2> QED
    BY <2>1
<1>5. CASE PostStageBarrier
  <2>1. InBatch(d)' = InBatch(d) /\ InStash(d)' = InStash(d) /\ Flagged(d)' = Flagged(d)
    BY <1>5, MoveNotify
  <2> QED
    BY <2>1
<1>6. CASE ~Collect /\ ~StartBatch /\ ~PostBatch /\ ~PostStageBarrier
  <2>1. (InBatch(d)' <=> InBatch(d)) /\ (InStash(d)' <=> InStash(d)) /\ (Flagged(d)' <=> Flagged(d))
    BY <1>6, MoveOther
  <2> QED
    BY <2>1
<1> QED
  BY <1>2, <1>3, <1>4, <1>5, <1>6

\* How the FIFOs move: an entry that has been polled was polled before, unless it has just been.
LEMMA PolledMoves ==
    ASSUME TypeOK, PhaseInv, LoopInv, WaitingInv, HeldInv, [Next]_vars,
           NEW f \in Fifos, NEW i \in 1..cpu_head'[f]
    PROVE  /\ fifo'[f][i] = fifo[f][i] /\ i \in 1..Len(fifo[f])
           /\ i \in 1..cpu_head[f] \/ (Collect /\ fifo[f][i] = Polled)
<1>1. \A g \in Fifos : /\ Len(fifo[g]) \in Nat /\ cpu_head[g] \in Nat /\ cpu_head[g] <= Len(fifo[g])
                       /\ fifo[g] \in Seq(Cmds)
  BY DEF TypeOK, WaitingInv
<1>2. CASE /\ ~Collect /\ ~CommitEpoch
           /\ (\A c \in todo : ~Push(c)) /\ (\A k \in cfg.kernels : ~Launch(k))
  <2>1. UNCHANGED <<fifo, cpu_head>>
    BY <1>2, WaitingFrame
  <2> QED
    BY <1>1, <2>1
<1>3. CASE Collect
  <2>1. /\ cpu_head[cur] + 1 \in 1..Len(fifo[cur]) /\ cpu_head[cur] \in Nat /\ cur \in Fifos
        /\ cpu_head' = [cpu_head EXCEPT ![cur] = @ + 1] /\ fifo' = fifo
    BY <1>3, PolledFresh DEF TypeOK
  <2>2. CASE f = cur
    <3>1. i \in 1..cpu_head[cur] \/ i = cpu_head[cur] + 1
      BY <2>1, <2>2 DEF TypeOK
    <3> QED
      BY <1>1, <1>3, <2>1, <2>2, <3>1 DEF Polled
  <2>3. CASE f # cur
    <3>1. cpu_head'[f] = cpu_head[f]
      BY <2>1, <2>3 DEF TypeOK
    <3> QED
      BY <1>1, <2>1, <3>1
  <2> QED
    BY <2>2, <2>3
<1>4. CASE CommitEpoch
  <2>1. \/ fifo'[f] = fifo[f] /\ cpu_head'[f] = cpu_head[f]
        \/ fifo'[f] = <<>> /\ cpu_head'[f] = 0
    <3>1. CASE cfg.skip_reset
      BY <1>4, <3>1 DEF CommitEpoch, rings
    <3>2. CASE ~cfg.skip_reset
      <4>1. fifo' = [fifo EXCEPT ![0] = <<>>] /\ cpu_head' = [cpu_head EXCEPT ![0] = 0]
        BY <1>4, <3>2 DEF CommitEpoch
      <4> QED
        BY <4>1 DEF TypeOK
    <3> QED
      BY <3>1, <3>2
  <2> QED
    BY <1>1, <2>1
<1>5. ASSUME NEW k \in cfg.kernels, Launch(k)
      PROVE  /\ fifo'[f][i] = fifo[f][i] /\ i \in 1..Len(fifo[f])
             /\ i \in 1..cpu_head[f]
  <2>1. UNCHANGED <<fifo, cpu_head>>
    BY <1>5 DEF Launch, rings
  <2> QED
    BY <1>1, <2>1
<1>6. ASSUME NEW c \in todo, Push(c)
      PROVE  /\ fifo'[f][i] = fifo[f][i] /\ i \in 1..Len(fifo[f])
             /\ i \in 1..cpu_head[f]
  <2> DEFINE q == FifoOf(c)
  <2>1. /\ q \in Fifos /\ cpu_head' = cpu_head
        /\ \A j \in 1..cpu_head[q] : fifo'[q][j] = fifo[q][j]
        /\ \A g \in Fifos : g # q => fifo'[g] = fifo[g]
    BY <1>6, PushIs
  <2> HIDE DEF q
  <2>2. i \in 1..cpu_head[f] /\ i \in 1..Len(fifo[f])
    BY <1>1, <2>1
  <2>3. CASE f = q
    BY <2>1, <2>2, <2>3
  <2>4. CASE f # q
    BY <2>1, <2>2, <2>4
  <2> QED
    BY <2>2, <2>3, <2>4
<1> QED
  BY <1>2, <1>3, <1>4, <1>5, <1>6

\* Every step keeps what was polled.
LEMMA KeptStep ==
    ASSUME TypeOK, PhaseInv, LoopInv, WaitingInv, HeldInv, OnceInv, KeptInv, [Next]_vars
    PROVE  KeptInv'
<1>0. Fifos' = Fifos
  BY ConstNext, CfgFrame
<1> SUFFICES ASSUME NEW f \in Fifos, NEW i \in 1..cpu_head'[f], fifo'[f][i].type = "WRITE"
             PROVE  (InBatch(fifo[f][i]) \/ InStash(fifo[f][i]) \/ Flagged(fifo[f][i]))'
  BY <1>0 DEF KeptInv
<1>1. /\ fifo'[f][i] = fifo[f][i] /\ i \in 1..Len(fifo[f])
      /\ i \in 1..cpu_head[f] \/ (Collect /\ fifo[f][i] = Polled)
  BY PolledMoves
<1>2. PICK d \in Cmds : d = fifo[f][i] /\ d = fifo'[f][i]
  BY <1>1 DEF TypeOK
<1>3. InBatch(d)' \/ InStash(d)' \/ Flagged(d)'
  <2>1. CASE i \in 1..cpu_head[f]
    <3>1. InBatch(fifo[f][i]) \/ InStash(fifo[f][i]) \/ Flagged(fifo[f][i])
      BY <1>1, <2>1 DEF KeptInv
    <3>2. InBatch(d) \/ InStash(d) \/ Flagged(d)
      BY <1>2, <3>1
    <3> QED
      BY <3>2, KeptMoves
  <2>2. CASE Collect /\ fifo[f][i] = Polled
    BY <1>1, <1>2, <2>2, MoveCollect
  <2> QED
    BY <1>1, <2>1, <2>2
<1> QED
  BY <1>2, <1>3 DEF InBatch, InStash, Flagged

-----------------------------------------------------------------------------
\* The work requests.

\* What the WRs of a step are: those of a batch or of a barrier, about commands that were
\* not posted before; or none.
LEMMA PostedIs ==
    ASSUME TypeOK, PhaseInv, LoopInv, WaitingInv, OnceInv, [Next]_vars
    PROVE  \E new \in SUBSET (TransferWrs \cup NotifyWrs) :
             /\ (wire \cup landed)' = wire \cup landed \cup new
             /\ new \cap (wire \cup landed) = {}
             /\ wire' \cup landed' = wire \cup landed \cup new /\ wire' \subseteq wire \cup new
             /\ landed \subseteq landed' /\ landed' \cap wire' \subseteq landed \cap wire
             /\ new # {} => PostBatch \/ PostStageBarrier
             /\ PostBatch => new = BatchWrs(batch)
             /\ PostStageBarrier => /\ inflight' = inflight + Cardinality(new)
                                    /\ \A w \in new : w.op = "barrier" /\ w.cmd.for = BarrierCmd
                                                      /\ w.n = 1
<1>1. CASE PostBatch
  <2> DEFINE ws == BatchWrs(batch)
  <2>1. /\ wire' = wire \cup ws /\ landed' = landed /\ ws \subseteq TransferWrs
        /\ \A w \in ws : w.op # "barrier" /\ w.cmd \in Cmds /\ InBatch(w.cmd)
    <3>1. /\ wire' = wire \cup ws /\ landed' = landed /\ Unposted /\ batch \in Seq(Cmds)
          /\ \A w \in ws : /\ w \in TransferWrs /\ w.op \in {"imm", "data", "flag", "tail"}
                           /\ \E i \in 1..Len(batch) : w.cmd = batch[i]
      BY <1>1, PostIs
    <3>2. \A w \in ws : InBatch(w.cmd) /\ w.cmd \in Cmds
      BY <3>1 DEF InBatch
    <3> QED
      BY <3>1, <3>2
  <2>2. ws \cap (wire \cup landed) = {}
    <3>1. ASSUME NEW w \in ws, w \in wire \cup landed PROVE FALSE
      <4>1. InPosted(w.cmd)
        BY <2>1, <3>1 DEF InPosted
      <4> QED
        BY <2>1, <3>1, <4>1 DEF OnceInv
    <3> QED
      BY <3>1
  <2>3. ~PostStageBarrier
    BY <1>1 DEF PostBatch, PostStageBarrier
  <2> HIDE DEF ws
  <2>4. ws \in SUBSET (TransferWrs \cup NotifyWrs)
    BY <2>1
  <2> WITNESS ws \in SUBSET (TransferWrs \cup NotifyWrs)
  <2> QED
    BY <1>1, <2>1, <2>2, <2>3 DEF ws
<1>2. CASE PostStageBarrier
  <2>1. PICK ok \in SUBSET BarrierWrs :
           /\ wire' = wire \cup ok /\ inflight' = inflight + Cardinality(ok)
           /\ ok \subseteq NotifyWrs
           /\ \A w \in ok : w.op = "barrier" /\ w.cmd.for = BarrierCmd /\ w.n = 1
    BY <1>2, NotifyIs
  <2>2. landed' = landed /\ BarrierCmd \in Cmds
    BY <1>2, NotifyIs
  <2>3. InGate(BarrierCmd) \/ Inline(BarrierCmd)
    BY <1>2, <2>2, MoveNotify
  <2>4. ok \cap (wire \cup landed) = {}
    <3>1. ASSUME NEW w \in ok, w \in wire \cup landed PROVE FALSE
      <4>1. InNotified(BarrierCmd)
        BY <2>1, <3>1 DEF InNotified
      <4> QED
        BY <2>2, <2>3, <4>1 DEF OnceInv
    <3> QED
      BY <3>1
  <2>5. ~PostBatch
    BY <1>2 DEF PostBatch, PostStageBarrier
  <2>6. ok \in SUBSET (TransferWrs \cup NotifyWrs)
    BY <2>1
  <2> WITNESS ok \in SUBSET (TransferWrs \cup NotifyWrs)
  <2> QED
    BY <1>2, <2>1, <2>2, <2>4, <2>5
<1>3. CASE ~PostBatch /\ ~PostStageBarrier
  <2>1. (wire \cup landed)' = wire \cup landed /\ landed \subseteq landed'
    BY <1>3, WiredFrame
  <2>2. wire' \subseteq wire /\ landed' \cap wire' \subseteq landed \cap wire
    <3>1. ASSUME NEW w \in wire, Execute(w) PROVE wire' = wire \ {w} /\ landed' = landed \cup {w}
      BY <3>1 DEF Execute
    <3>2. (\A w \in wire : ~Execute(w)) => UNCHANGED <<wire, landed>>
      <4>1. CASE Leave \/ Acknowledge \/ SpinEnds \/ Withdraw \/ OpenGate \/ Replay \/ StartBatch
                 \/ CollectEnds \/ BarrierDrain
        BY <4>1 DEF Leave, Acknowledge, SpinEnds, Withdraw, OpenGate, Replay, StartBatch,
           CollectEnds, BarrierDrain, DrainsCq, nic
      <4>2. CASE Collect
        BY <4>2 DEF Collect, Polls, nic
      <4>3. CASE BatchRefused \/ PostNothing \/ PollCq \/ ExitDrain \/ Exit
        BY <4>3 DEF BatchRefused, PostNothing, PollCq, ExitDrain, Exit, DrainsCq, nic
      <4>4. CASE HostStep
        BY <4>4 DEF HostStep, Launch, KernelEnds, DrainProxy, Pause, PauseReturns, HostDrainCq,
           Prepared, CommitEpoch, ResumeAck, Resume, Stop, Join, DrainsCq, nic
      <4>5. CASE \/ \E c \in todo : Push(c)
                 \/ \E t \in DOMAIN sent : PeerWrites(t)
                 \/ Finished \/ UNCHANGED vars
        BY <4>5 DEF Push, PeerWrites, Finished, vars, nic
      <4> QED
        BY <1>3, <4>1, <4>2, <4>3, <4>4, <4>5 DEF Next, ProxyStep
    <3> QED
      BY <3>1, <3>2
  <2> WITNESS {} \in SUBSET (TransferWrs \cup NotifyWrs)
  <2> QED
    BY <1>3, <2>1, <2>2
<1> QED
  BY <1>1, <1>2, <1>3

\* A completion is there once its WR was carried out, until the CQ is polled.
LEMMA CqMoves ==
    ASSUME [Next]_vars, \A w \in cq : w.op # "arrival" => w \in landed
    PROVE  \A w \in cq' : w.op # "arrival" => w \in landed'
<1>1. CASE Leave \/ Acknowledge \/ SpinEnds \/ Withdraw \/ OpenGate \/ Replay \/ StartBatch
           \/ CollectEnds \/ BarrierDrain
  BY <1>1 DEF Leave, Acknowledge, SpinEnds, Withdraw, OpenGate, Replay, StartBatch, CollectEnds,
     BarrierDrain, DrainsCq, nic
<1>2. CASE Collect
  BY <1>2 DEF Collect, Polls, nic
<1>3. CASE PostStageBarrier \/ PostBatch \/ BatchRefused \/ PostNothing \/ PollCq \/ ExitDrain
           \/ Exit
  BY <1>3 DEF PostStageBarrier, PostBatch, BatchRefused, PostNothing, PollCq, ExitDrain, Exit,
     DrainsCq, nic
<1>4. CASE HostStep
  BY <1>4 DEF HostStep, Launch, KernelEnds, DrainProxy, Pause, PauseReturns, HostDrainCq,
     Prepared, CommitEpoch, ResumeAck, Resume, Stop, Join, DrainsCq, nic
<1>5. CASE \E c \in todo : Push(c)
  BY <1>5 DEF Push, nic
<1>6. CASE \E w \in wire : Execute(w)
  BY <1>6 DEF Execute
<1>7. CASE \E t \in DOMAIN sent : PeerWrites(t)
  <2>1. landed' = landed /\ \A w \in cq' : w \in cq \/ w.op = "arrival"
    BY <1>7 DEF PeerWrites
  <2> QED
    BY <2>1
<1>8. CASE Finished \/ UNCHANGED vars
  BY <1>8 DEF Finished, vars, nic
<1> QED
  BY <1>1, <1>2, <1>3, <1>4, <1>5, <1>6, <1>7, <1>8 DEF Next, ProxyStep

\* Every step keeps one announcement for a command.
LEMMA WrStep ==
    ASSUME TypeOK, PhaseInv, LoopInv, WaitingInv, OnceInv, WrInv, [Next]_vars
    PROVE  WrInv'
<1>0. cfg' = cfg /\ WriteImm' = WriteImm /\ HasTail' = HasTail
  BY ConstNext, CfgFrame
<1>1. PICK new \in SUBSET (TransferWrs \cup NotifyWrs) :
         /\ wire' \cup landed' = wire \cup landed \cup new /\ new \cap (wire \cup landed) = {}
         /\ wire' \subseteq wire \cup new
         /\ landed \subseteq landed' /\ landed' \cap wire' \subseteq landed \cap wire
         /\ new # {} => PostBatch \/ PostStageBarrier
         /\ PostBatch => new = BatchWrs(batch)
         /\ PostStageBarrier => \A w \in new : w.op = "barrier" /\ w.n = 1
  BY PostedIs
<1>2. wire' \cap landed' = {}
  BY <1>1 DEF WrInv
<1>3. \A w \in cq' : w.op # "arrival" => w \in landed'
  BY CqMoves DEF WrInv
<1>4. \A v, w \in wire \cup landed : Announces(v) /\ Announces(w) /\ v.cmd = w.cmd => v = w
  BY DEF WrInv
<1>5. /\ ~HasTail => \A w \in wire \cup landed : Announces(w) => w.n > 0
      /\ WriteImm => \A w \in wire \cup landed : w.n > 0
  BY DEF WrInv
<1>6. CASE PostBatch
  <2>1. /\ Unposted /\ batch \in Seq(Cmds) /\ new = BatchWrs(batch)
        /\ \A w \in new : /\ w.op # "barrier"
                          /\ \E i \in 1..Len(batch) :
                               w.cmd = batch[i] /\ (Announces(w) => w = Announcement(batch, i))
                          /\ WriteImm => w.n = 1
        /\ \A i \in 1..Len(batch) : ~HasTail => Announcement(batch, i).n = 1
    BY <1>1, <1>6, PostIs
  <2>2. \A i, j \in 1..Len(batch) : batch[i] = batch[j] => i = j
    BY DEF LoopInv
  <2>3. \A w \in new : \A v \in wire \cup landed : Announces(v) => v.cmd # w.cmd
    <3> SUFFICES ASSUME NEW w \in new, NEW v \in wire \cup landed, Announces(v), v.cmd = w.cmd
                 PROVE  FALSE
      OBVIOUS
    <3>1. w.cmd \in Cmds /\ InBatch(w.cmd)
      BY <2>1 DEF InBatch
    <3>2. InPosted(w.cmd)
      BY DEF InPosted, Announces
    <3> QED
      BY <3>1, <3>2 DEF OnceInv
  <2>4. \A v, w \in new : Announces(v) /\ Announces(w) /\ v.cmd = w.cmd => v = w
    <3> SUFFICES ASSUME NEW v \in new, NEW w \in new, Announces(v), Announces(w), v.cmd = w.cmd
                 PROVE  v = w
      OBVIOUS
    <3>1. PICK i \in 1..Len(batch) : v.cmd = batch[i] /\ v = Announcement(batch, i)
      BY <2>1
    <3>2. PICK j \in 1..Len(batch) : w.cmd = batch[j] /\ w = Announcement(batch, j)
      BY <2>1
    <3>3. i = j
      BY <2>2, <3>1, <3>2
    <3> QED
      BY <3>1, <3>2, <3>3
  <2>5. /\ ~HasTail => \A w \in new : Announces(w) => w.n > 0
        /\ WriteImm => \A w \in new : w.n > 0
    <3>1. ASSUME ~HasTail, NEW w \in new, Announces(w) PROVE w.n > 0
      <4>1. w.n = 1
        BY <2>1, <3>1
      <4> QED
        BY <4>1
    <3>2. ASSUME WriteImm, NEW w \in new PROVE w.n > 0
      <4>1. w.n = 1
        BY <2>1, <3>2
      <4> QED
        BY <4>1
    <3> QED
      BY <3>1, <3>2
  <2>6. \A v, w \in wire' \cup landed' : Announces(v) /\ Announces(w) /\ v.cmd = w.cmd => v = w
    BY <1>1, <1>4, <2>3, <2>4
  <2>7. /\ ~HasTail => \A w \in wire' \cup landed' : Announces(w) => w.n > 0
        /\ WriteImm => \A w \in wire' \cup landed' : w.n > 0
    BY <1>1, <1>5, <2>5
  <2> QED
    BY <1>0, <1>2, <1>3, <2>6, <2>7 DEF WrInv, Announces
<1>7. CASE ~PostBatch
  <2>1. \A w \in new : ~Announces(w) /\ w.n > 0
    <3> SUFFICES ASSUME NEW w \in new PROVE ~Announces(w) /\ w.n > 0
      OBVIOUS
    <3>1. w.op = "barrier" /\ w.n = 1
      BY <1>1, <1>7
    <3> QED
      BY <3>1 DEF Announces
  <2>2. \A v, w \in wire' \cup landed' : Announces(v) /\ Announces(w) /\ v.cmd = w.cmd => v = w
    BY <1>1, <1>4, <2>1
  <2>3. /\ ~HasTail => \A w \in wire' \cup landed' : Announces(w) => w.n > 0
        /\ WriteImm => \A w \in wire' \cup landed' : w.n > 0
    BY <1>1, <1>5, <2>1
  <2> QED
    BY <1>0, <1>2, <1>3, <2>2, <2>3 DEF WrInv, Announces
<1> QED
  BY <1>6, <1>7

\* A batch for one QP moves the end of its queue by its length.
LEMMA SeqAfterIs ==
    ASSUME TypeOK, LoopInv, batch # <<>>, UseArrivalQueue, ~WriteImm
    PROVE  SeqAfter(batch)[LocalQp(batch[1])] = sender_seq[LocalQp(batch[1])] + Len(batch)
<1> DEFINE q == LocalQp(batch[1])
<1>1. batch \in Seq(Cmds) /\ cfg \in Configs
  BY DEF TypeOK
<1>2. 1 \in 1..Len(batch)
  BY <1>1
<1>3. q \in QPs
  BY <1>1, <1>2, CmdTypes
<1>4. {i \in 1..Len(batch) : LocalQp(batch[i]) = q} = 1..Len(batch)
  BY DEF LoopInv
<1>5. Cardinality(1..Len(batch)) = Len(batch)
  BY <1>1, FS_Interval
<1>6. SeqAfter(batch) =
        [l \in QPs |-> sender_seq[l] + Cardinality({i \in 1..Len(batch) : LocalQp(batch[i]) = l})]
  BY DEF SeqAfter
<1> QED
  BY <1>3, <1>4, <1>5, <1>6

\* Who moves the slots and the epoch.
LEMMA SeqFrame ==
    ASSUME [Next]_vars, ~PostBatch, ~BatchRefused, ~CommitEpoch
    PROVE  UNCHANGED <<sender_seq, epoch>>
<1>1. CASE Leave \/ Acknowledge \/ SpinEnds \/ Withdraw \/ OpenGate \/ Replay \/ StartBatch
           \/ CollectEnds \/ BarrierDrain
  BY <1>1 DEF Leave, Acknowledge, SpinEnds, Withdraw, OpenGate, Replay, StartBatch, CollectEnds,
     BarrierDrain, loop
<1>2. CASE Collect
  BY <1>2 DEF Collect, Polls
<1>3. CASE PostStageBarrier \/ PostNothing \/ PollCq \/ ExitDrain \/ Exit
  BY <1>3 DEF PostStageBarrier, PostNothing, PollCq, ExitDrain, Exit, loop
<1>4. CASE HostStep
  BY <1>4 DEF HostStep, Launch, KernelEnds, DrainProxy, Pause, PauseReturns, HostDrainCq,
     Prepared, ResumeAck, Resume, Stop, Join, loop
<1>5. CASE \/ \E c \in todo : Push(c)
           \/ \E w \in wire : Execute(w)
           \/ \E t \in DOMAIN sent : PeerWrites(t)
           \/ Finished \/ UNCHANGED vars
  BY <1>5 DEF Push, Execute, PeerWrites, Finished, vars, loop
<1> QED
  BY <1>1, <1>2, <1>3, <1>4, <1>5 DEF Next, ProxyStep

\* A WR is a transfer or a barrier's.
LEMMA WrTypes ==
    ASSUME TypeOK, NEW w \in wire \cup landed
    PROVE  /\ w.epoch \in Nat /\ w.qp \in QPs /\ w.slot \in Nat /\ w.n \in {0, 1}
           /\ w.op \in {"imm", "data", "flag", "tail", "barrier"}
           /\ w.op # "barrier" => w.cmd \in Cmds
           /\ w.op = "barrier" => w.cmd.for \in Cmds
<1>1. w \in TransferWrs \/ w \in NotifyWrs
  BY DEF TypeOK
<1>2. 0 \in QPs
  BY CfgTypes DEF TypeOK
<1> QED
  BY <1>1, <1>2 DEF TransferWrs, NotifyWrs

\* Every step keeps the slots of an epoch apart.
LEMMA SlotStep ==
    ASSUME TypeOK, PhaseInv, LoopInv, WaitingInv, OnceInv, SlotInv, [Next]_vars
    PROVE  SlotInv'
<1>0. WriteImm' = WriteImm /\ UseArrivalQueue' = UseArrivalQueue /\ cfg \in Configs
      /\ epoch \in Nat /\ sender_seq \in [QPs -> Nat]
  BY ConstNext, CfgFrame DEF TypeOK
<1> SUFFICES ASSUME UseArrivalQueue, ~WriteImm
             PROVE  /\ \A w \in wire' \cup landed' : Announces(w) =>
                         w.epoch <= epoch' /\ (w.epoch = epoch' => w.slot < sender_seq'[w.qp])
                    /\ \A v, w \in wire' \cup landed' :
                         Announces(v) /\ Announces(w) /\ v # w /\ v.epoch = w.epoch /\ v.qp = w.qp
                           => v.slot # w.slot
  BY <1>0 DEF SlotInv, Announces
<1>1. \A w \in wire \cup landed : Announces(w) =>
         w.epoch <= epoch /\ (w.epoch = epoch => w.slot < sender_seq[w.qp])
  BY DEF SlotInv
<1>2. \A v, w \in wire \cup landed :
         Announces(v) /\ Announces(w) /\ v # w /\ v.epoch = w.epoch /\ v.qp = w.qp
           => v.slot # w.slot
  BY DEF SlotInv
<1>3. PICK new \in SUBSET (TransferWrs \cup NotifyWrs) :
         /\ wire' \cup landed' = wire \cup landed \cup new
         /\ new # {} => PostBatch \/ PostStageBarrier
         /\ PostBatch => new = BatchWrs(batch)
         /\ PostStageBarrier => \A w \in new : w.op = "barrier"
  BY PostedIs
<1>4. CASE PostBatch
  <2> DEFINE q == LocalQp(batch[1])
             s == sender_seq[q]
             n == Len(batch)
  <2>1. /\ batch \in Seq(Cmds) /\ batch # <<>> /\ new = BatchWrs(batch) /\ epoch' = epoch
        /\ \A w \in new : /\ w.qp = q /\ w.epoch = epoch
                          /\ \E i \in 1..Len(batch) : Announces(w) => w = Announcement(batch, i)
    BY <1>3, <1>4, PostIs
  <2>2. q \in QPs /\ s \in Nat /\ n \in Nat
    <3>1. 1 \in 1..Len(batch)
      BY <2>1
    <3> QED
      BY <1>0, <2>1, <3>1, CmdTypes
  <2>3. sender_seq'[q] = s + n /\ \A l \in QPs : sender_seq'[l] >= sender_seq[l]
    <3>1. sender_seq' = SeqAfter(batch)
      BY <1>4 DEF PostBatch
    <3> QED
      BY <2>1, <3>1, SeqAfterIs, SeqAfterType
  <2>4. \A i \in 1..n : Announcement(batch, i).slot = s + (i - 1)
    <3> SUFFICES ASSUME NEW i \in 1..n PROVE Announcement(batch, i).slot = s + (i - 1)
      OBVIOUS
    <3>1. SlotOf(batch, i) = s + (i - 1)
      BY <1>0, <2>1, SlotIs DEF LoopInv
    <3>2. Announcement(batch, i).slot = SlotOf(batch, i)
      BY DEF Announcement, Wr
    <3> QED
      BY <3>1, <3>2
  <2>5. ASSUME NEW w \in new, Announces(w)
        PROVE  w.epoch = epoch /\ w.qp = q /\ w.slot \in s..(s + n - 1)
    <3>1. PICK i \in 1..n : w = Announcement(batch, i)
      BY <2>1, <2>5
    <3> DEFINE x == w.slot
    <3>2. x = s + (i - 1)
      BY <2>4, <3>1
    <3> HIDE DEF x, s, n
    <3>3. x \in s..(s + n - 1)
      BY <2>2, <3>2
    <3> QED
      BY <2>1, <3>3 DEF x
  <2>6. ASSUME NEW v \in new, NEW w \in new, Announces(v), Announces(w), v.slot = w.slot
        PROVE  v = w
    <3>1. PICK i \in 1..n : v = Announcement(batch, i)
      BY <2>1, <2>6
    <3>2. PICK j \in 1..n : w = Announcement(batch, j)
      BY <2>1, <2>6
    <3>3. s + (i - 1) = s + (j - 1)
      BY <2>4, <2>6, <3>1, <3>2
    <3> HIDE DEF s, n
    <3>4. i = j
      BY <2>2, <3>3
    <3> QED
      BY <3>1, <3>2, <3>4
  <2>7. ASSUME NEW v \in wire \cup landed, NEW w \in new, Announces(v), Announces(w),
               v.epoch = w.epoch, v.qp = w.qp
        PROVE  v.slot # w.slot
    <3> DEFINE x == v.slot
               y == w.slot
    <3>1. y \in s..(s + n - 1) /\ v.qp = q /\ v.epoch = epoch
      BY <2>5, <2>7
    <3>2. x < s /\ x \in Nat
      BY <1>1, <2>7, <3>1, WrTypes
    <3> HIDE DEF x, y, s, n
    <3>3. x # y
      BY <2>2, <3>1, <3>2
    <3> QED
      BY <3>3 DEF x, y
  <2>8. ASSUME NEW w \in wire \cup landed, Announces(w)
        PROVE  w.epoch <= epoch' /\ (w.epoch = epoch' => w.slot < sender_seq'[w.qp])
    <3>1. w.qp \in QPs /\ w.slot \in Nat
      BY WrTypes
    <3> DEFINE x == w.slot
               a == sender_seq[w.qp]
               a1 == sender_seq'[w.qp]
    <3>2. a \in Nat /\ a1 >= a /\ a1 \in Nat
      <4>1. sender_seq' = SeqAfter(batch)
        BY <1>4 DEF PostBatch
      <4> QED
        BY <1>0, <2>3, <3>1, <4>1, SeqAfterType
    <3>3. w.epoch <= epoch /\ (w.epoch = epoch => x < a)
      BY <1>1, <2>8
    <3> HIDE DEF x, a, a1
    <3>4. x < a => x < a1
      BY <3>1, <3>2 DEF x
    <3> QED
      BY <2>1, <3>3, <3>4 DEF x, a1
  <2>9. ASSUME NEW w \in new, Announces(w)
        PROVE  w.epoch <= epoch' /\ (w.epoch = epoch' => w.slot < sender_seq'[w.qp])
    <3> DEFINE x == w.slot
               a1 == sender_seq'[w.qp]
    <3>1. w.epoch = epoch /\ w.qp = q /\ x \in s..(s + n - 1) /\ a1 = s + n
      BY <2>3, <2>5, <2>9
    <3> HIDE DEF x, a1, s, n
    <3>2. x < a1
      BY <2>2, <3>1
    <3> QED
      BY <1>0, <2>1, <3>1, <3>2 DEF x, a1
  <2> HIDE DEF q, s, n
  <2>10. \A w \in wire' \cup landed' : Announces(w) =>
           w.epoch <= epoch' /\ (w.epoch = epoch' => w.slot < sender_seq'[w.qp])
    BY <1>3, <2>8, <2>9
  <2>11. \A v, w \in wire' \cup landed' :
           Announces(v) /\ Announces(w) /\ v # w /\ v.epoch = w.epoch /\ v.qp = w.qp
             => v.slot # w.slot
    BY <1>2, <1>3, <2>6, <2>7
  <2> QED
    BY <2>10, <2>11
<1>5. CASE ~PostBatch
  <2>1. \A w \in wire' \cup landed' : Announces(w) => w \in wire \cup landed
    BY <1>3, <1>5 DEF Announces
  <2>2. \A w \in wire \cup landed : Announces(w) =>
          w.epoch <= epoch' /\ (w.epoch = epoch' => w.slot < sender_seq'[w.qp])
    <3> SUFFICES ASSUME NEW w \in wire \cup landed, Announces(w)
                 PROVE  w.epoch <= epoch' /\ (w.epoch = epoch' => w.slot < sender_seq'[w.qp])
      OBVIOUS
    <3> DEFINE x == w.slot
               a == sender_seq[w.qp]
               a1 == sender_seq'[w.qp]
               e == w.epoch
    <3>1. w.qp \in QPs /\ x \in Nat /\ e \in Nat /\ a \in Nat /\ e <= epoch /\ (e = epoch => x < a)
      BY <1>0, <1>1, WrTypes
    <3>2. CASE CommitEpoch
      <4>1. epoch' = epoch + 1
        BY <3>2 DEF CommitEpoch
      <4> HIDE DEF e
      <4>2. e <= epoch' /\ e # epoch'
        BY <1>0, <3>1, <4>1
      <4> QED
        BY <4>2 DEF e
    <3>3. CASE BatchRefused
      <4>1. epoch' = epoch /\ sender_seq' = SeqAfter(batch)
        BY <3>3 DEF BatchRefused
      <4>2. a1 >= a /\ a1 \in Nat
        BY <3>1, <4>1, SeqAfterType
      <4> HIDE DEF x, a, a1
      <4>3. x < a => x < a1
        BY <3>1, <4>2
      <4> QED
        BY <3>1, <4>1, <4>3 DEF x, a1
    <3>4. CASE ~CommitEpoch /\ ~BatchRefused
      <4>1. UNCHANGED <<sender_seq, epoch>>
        BY <1>5, <3>4, SeqFrame
      <4> QED
        BY <3>1, <4>1
    <3> QED
      BY <3>2, <3>3, <3>4
  <2> QED
    BY <1>2, <2>1, <2>2
<1> QED
  BY <1>4, <1>5

\* A step that is neither a post nor a poll keeps the count and what is counted.
LEMMA CountFrame ==
    ASSUME [Next]_vars, ~PostBatch, ~PostStageBarrier, ~Prepared
    PROVE  \/ inflight' = inflight /\ Counted(wire \cup cq)' = Counted(wire \cup cq)
           \/ inflight' = inflight - Retired /\ wire' = wire /\ cq' = {}
<1>1. CASE Leave \/ Acknowledge \/ SpinEnds \/ Withdraw \/ OpenGate \/ Replay \/ StartBatch
           \/ CollectEnds
  BY <1>1 DEF Leave, Acknowledge, SpinEnds, Withdraw, OpenGate, Replay, StartBatch, CollectEnds,
     nic, Counted
<1>2. CASE Collect
  BY <1>2 DEF Collect, Polls, nic, Counted
<1>3. CASE BatchRefused \/ PostNothing \/ Exit
  BY <1>3 DEF BatchRefused, PostNothing, Exit, nic, Counted
<1>4. CASE BarrierDrain \/ PollCq \/ ExitDrain \/ HostDrainCq
  BY <1>4 DEF BarrierDrain, PollCq, ExitDrain, HostDrainCq, DrainsCq
<1>5. CASE HostStep /\ ~HostDrainCq
  BY <1>5 DEF HostStep, Launch, KernelEnds, DrainProxy, Pause, PauseReturns, CommitEpoch,
     ResumeAck, Resume, Stop, Join, nic, Counted
<1>6. CASE (\E c \in todo : Push(c)) \/ Finished \/ UNCHANGED vars
  BY <1>6 DEF Push, Finished, vars, nic, Counted
<1>7. CASE \E w \in wire : Execute(w)
  <2>1. inflight' = inflight /\ wire' \cup cq' = wire \cup cq
    BY <1>7 DEF Execute
  <2> QED
    BY <2>1 DEF Counted
<1>8. CASE \E t \in DOMAIN sent : PeerWrites(t)
  <2>1. inflight' = inflight /\ wire' = wire /\ cq \subseteq cq'
        /\ \A w \in cq' : w \in cq \/ w.op = "arrival"
    BY <1>8 DEF PeerWrites
  <2> QED
    BY <2>1 DEF Counted
<1> QED
  BY <1>1, <1>2, <1>3, <1>4, <1>5, <1>6, <1>7, <1>8 DEF Next, ProxyStep

\* What is on the way or completed is finite, and a WR accepted has no completion yet.
LEMMA CountTypes ==
    ASSUME TypeOK, WrInv
    PROVE  /\ IsFiniteSet(Counted(wire)) /\ IsFiniteSet(Counted(cq))
           /\ IsFiniteSet(Counted(wire \cup cq))
           /\ Counted(wire \cup cq) = Counted(wire) \cup Counted(cq)
           /\ Counted(wire) \cap Counted(cq) = {}
           /\ Cardinality(Counted(wire)) \in Nat /\ Cardinality(Counted(cq)) \in Nat
           /\ Cardinality(Counted(wire \cup cq))
                = Cardinality(Counted(wire)) + Cardinality(Counted(cq))
<1>1. IsFiniteSet(wire) /\ IsFiniteSet(cq)
  BY DEF TypeOK
<1>2. IsFiniteSet(Counted(wire)) /\ IsFiniteSet(Counted(cq))
  <2>1. Counted(wire) \subseteq wire /\ Counted(cq) \subseteq cq
    BY DEF Counted
  <2> QED
    BY <1>1, <2>1, FS_Subset
<1>3. Counted(wire \cup cq) = Counted(wire) \cup Counted(cq)
  BY DEF Counted
<1>4. Counted(wire) \cap Counted(cq) = {}
  BY DEF Counted, WrInv
<1>5. IsFiniteSet(Counted(wire \cup cq))
  BY <1>2, <1>3, FS_Union
<1>6. /\ Cardinality(Counted(wire)) \in Nat /\ Cardinality(Counted(cq)) \in Nat
      /\ Cardinality({}) = 0
  BY <1>2, FS_CardinalityType, FS_EmptySet
<1>7. Cardinality(Counted(wire) \cup Counted(cq))
        = Cardinality(Counted(wire)) + Cardinality(Counted(cq)) - Cardinality({})
  BY <1>2, <1>4, FS_Union
<1>8. Cardinality(Counted(wire \cup cq)) = Cardinality(Counted(wire)) + Cardinality(Counted(cq))
  <2> DEFINE a == Cardinality(Counted(wire))
             b == Cardinality(Counted(cq))
             z == Cardinality({})
  <2> HIDE DEF a, b, z
  <2>1. a + b - z = a + b
    BY <1>6 DEF a, b, z
  <2> QED
    BY <1>3, <1>7, <2>1 DEF a, b, z
<1> QED
  BY <1>2, <1>3, <1>4, <1>5, <1>6, <1>8

\* WRs that are not yet known add themselves to the count.
LEMMA CountAdds ==
    ASSUME TypeOK, WrInv, CountInv, NEW new, IsFiniteSet(Counted(new)),
           new \subseteq TransferWrs \cup NotifyWrs, new \cap (wire \cup landed) = {}
    PROVE  inflight + Cardinality(Counted(new)) = Cardinality(Counted((wire \cup new) \cup cq))
<1> DEFINE A == Counted(wire \cup cq)
           B == Counted(new)
<1>1. Counted((wire \cup new) \cup cq) = A \cup B
  BY DEF Counted
<1>2. A \cap B = {}
  BY DEF Counted, WrInv
<1>3. IsFiniteSet(A) /\ IsFiniteSet(B)
  BY CountTypes
<1>4. inflight = Cardinality(A)
  BY DEF CountInv
<1> HIDE DEF A, B
<1>5. Cardinality(A) \in Nat /\ Cardinality(B) \in Nat /\ Cardinality({}) = 0
  BY <1>3, FS_CardinalityType, FS_EmptySet
<1>6. Cardinality(A \cup B) = Cardinality(A) + Cardinality(B) - Cardinality({})
  BY <1>2, <1>3, FS_Union
<1>7. inflight + Cardinality(B) = Cardinality(A \cup B)
  BY <1>4, <1>5, <1>6
<1> QED
  BY <1>1, <1>7 DEF B

\* inflight_ stays exact.
LEMMA CountStep ==
    ASSUME TypeOK, PhaseInv, LoopInv, WaitingInv, OnceInv, WrInv, CountInv, [Next]_vars
    PROVE  CountInv'
<1>0. PICK new \in SUBSET (TransferWrs \cup NotifyWrs) :
         /\ new \cap (wire \cup landed) = {}
         /\ PostBatch => new = BatchWrs(batch)
         /\ PostStageBarrier => /\ inflight' = inflight + Cardinality(new)
                                /\ \A w \in new : w.op = "barrier" /\ w.n = 1
         /\ wire' \cup landed' = wire \cup landed \cup new
  BY PostedIs
<1>1. CASE PostBatch
  <2>1. batch \in Seq(Cmds) /\ batch # <<>> /\ wire' = wire \cup BatchWrs(batch) /\ cq' = cq
    BY <1>1, PostIs
  <2>2. /\ cfg \in Configs /\ epoch \in Nat /\ sender_seq \in [QPs -> Nat]
        /\ \A k \in 1..Len(batch) : LocalQp(batch[k]) = LocalQp(batch[1])
        /\ \A j, k \in 1..Len(batch) : batch[j] = batch[k] => j = k
    BY DEF TypeOK, LoopInv
  <2>3. Cardinality(Counted(new)) = Len(batch)
    BY <1>0, <1>1, <2>1, <2>2, BatchCount
  <2>4. IsFiniteSet(Counted(new))
    <3>1. IsFiniteSet(new) /\ Counted(new) \subseteq new
      BY <1>0, <1>1, <2>1, BatchFinite DEF Counted
    <3> QED
      BY <3>1, FS_Subset
  <2>5. inflight' = inflight + Cardinality(Counted(new))
    BY <1>1, <2>3 DEF PostBatch
  <2>6. inflight' = Cardinality(Counted((wire \cup new) \cup cq))
    BY <1>0, <2>4, <2>5, CountAdds
  <2>7. wire' \cup cq' = (wire \cup new) \cup cq
    BY <1>0, <1>1, <2>1
  <2> QED
    BY <2>6, <2>7 DEF CountInv, Counted
<1>2. CASE PostStageBarrier
  <2>1. PICK ok \in SUBSET BarrierWrs : wire' = wire \cup ok /\ IsFiniteSet(ok) /\ cq' = cq
    BY <1>2, NotifyIs
  <2>2. wire' = wire \cup new /\ IsFiniteSet(new)
    <3>1. landed' = landed
      BY <1>2, NotifyIs
    <3>2. ASSUME NEW w \in ok PROVE w \notin landed
      <4>1. wire' \cap landed' = {}
        BY WrStep DEF WrInv
      <4> QED
        BY <2>1, <3>1, <4>1
    <3>3. new \subseteq ok /\ ok \subseteq wire \cup new
      BY <1>0, <2>1, <3>1, <3>2
    <3> QED
      BY <2>1, <3>3, FS_Subset
  <2>3. Counted(new) = new
    <3>1. \A w \in new : w.op # "arrival" /\ w.n > 0
      <4>1. \A w \in new : w.op = "barrier" /\ w.n = 1
        BY <1>0, <1>2
      <4> QED
        BY <4>1
    <3> QED
      BY <3>1 DEF Counted
  <2>4. inflight' = inflight + Cardinality(Counted(new))
    BY <1>0, <1>2, <2>3
  <2>5. inflight' = Cardinality(Counted((wire \cup new) \cup cq))
    BY <1>0, <2>2, <2>3, <2>4, CountAdds
  <2> QED
    BY <2>1, <2>2, <2>5 DEF CountInv, Counted
<1>3. CASE Prepared
  <2>1. inflight <= 0 /\ inflight' = 0 /\ UNCHANGED <<wire, cq>>
    BY <1>3 DEF Prepared, nic
  <2>2. inflight \in Nat
    BY CountTypes DEF CountInv
  <2>3. inflight' = inflight
    BY <2>1, <2>2
  <2> QED
    BY <2>1, <2>3 DEF CountInv, Counted
<1>4. CASE ~PostBatch /\ ~PostStageBarrier /\ ~Prepared
  <2>1. CASE inflight' = inflight /\ Counted(wire \cup cq)' = Counted(wire \cup cq)
    BY <2>1 DEF CountInv
  <2>2. CASE inflight' = inflight - Retired /\ wire' = wire /\ cq' = {}
    <3> DEFINE a == Cardinality(Counted(wire))
               b == Cardinality(Counted(cq))
    <3>1. inflight = a + b /\ a \in Nat /\ b \in Nat
      BY CountTypes DEF CountInv
    <3>2. inflight' = inflight - b
      BY <2>2 DEF Retired
    <3> HIDE DEF a, b
    <3>3. inflight' = a
      BY <3>1, <3>2
    <3>4. wire' \cup cq' = wire
      BY <2>2
    <3> QED
      BY <3>3, <3>4 DEF a, CountInv, Counted
  <2> QED
    BY <1>4, <2>1, <2>2, CountFrame
<1> QED
  BY <1>1, <1>2, <1>3, <1>4

-----------------------------------------------------------------------------
\* A barrier and the flags ahead of it.

\* An entry of a FIFO was there with all that is ahead of it, or was there and is not
\* polled, or has just been pushed.
LEMMA EntryMoves ==
    ASSUME TypeOK, PhaseInv, WaitingInv, [Next]_vars,
           NEW f \in Fifos, NEW i \in 1..Len(fifo'[f])
    PROVE  \/ i \in 1..Len(fifo[f]) /\ \A k \in 1..i : fifo'[f][k] = fifo[f][k]
           \/ i \in (cpu_head[f] + 1)..Len(fifo[f]) /\ fifo'[f][i] = fifo[f][i]
           \/ fifo'[f][i] \in todo \cup {Empty}
<1>1. \A g \in Fifos : Len(fifo[g]) \in Nat /\ cpu_head[g] \in Nat
  BY DEF TypeOK
<1>2. CASE /\ ~Collect /\ ~CommitEpoch
           /\ (\A c \in todo : ~Push(c)) /\ (\A k \in cfg.kernels : ~Launch(k))
  <2>1. UNCHANGED fifo
    BY <1>2, WaitingFrame
  <2> QED
    BY <2>1
<1>3. CASE Collect
  <2>1. UNCHANGED fifo
    BY <1>3 DEF Collect, Polls, gpu
  <2> QED
    BY <2>1
<1>4. CASE CommitEpoch
  <2>1. fifo'[f] = fifo[f] \/ fifo'[f] = <<>>
    BY <1>4 DEF CommitEpoch, TypeOK
  <2> QED
    BY <2>1
<1>5. CASE \E k \in cfg.kernels : Launch(k)
  <2>1. UNCHANGED fifo
    BY <1>5 DEF Launch
  <2> QED
    BY <2>1
<1>6. ASSUME NEW c \in todo, Push(c)
      PROVE  \/ i \in 1..Len(fifo[f]) /\ \A k \in 1..i : fifo'[f][k] = fifo[f][k]
             \/ i \in (cpu_head[f] + 1)..Len(fifo[f]) /\ fifo'[f][i] = fifo[f][i]
             \/ fifo'[f][i] \in todo \cup {Empty}
  <2> DEFINE q == FifoOf(c)
             n == Len(fifo[q])
             h == cpu_head[q]
  <2>1. /\ q \in Fifos /\ Len(fifo'[q]) = n + 1
        /\ \A j \in 1..h : fifo'[q][j] = fifo[q][j]
        /\ \A g \in Fifos : g # q => fifo'[g] = fifo[g]
    BY <1>6, PushIs
  <2>2. PICK at \in (h + 1)..(n + 1) :
          /\ fifo'[q][at] = c
          /\ \A j \in 1..(n + 1) : j # at =>
               \/ j \in 1..n /\ fifo'[q][j] = fifo[q][j]
               \/ j = n + 1 /\ fifo'[q][j] = Empty
    BY <1>6, PushIs
  <2>3. n \in Nat /\ h \in Nat
    BY <1>1, <2>1
  <2> HIDE DEF q, n, h
  <2>4. CASE f # q
    BY <2>1, <2>4
  <2>5. CASE f = q
    <3>1. i \in 1..(n + 1)
      BY <2>1, <2>5
    <3>2. CASE i = at
      BY <2>2, <2>5, <3>2
    <3>3. CASE i # at /\ i = n + 1
      BY <2>2, <2>3, <2>5, <3>1, <3>3
    <3>4. CASE i # at /\ i \in 1..n
      <4>1. fifo'[q][i] = fifo[q][i]
        BY <2>2, <2>3, <3>1, <3>4
      <4>2. CASE i > h
        <5>1. i \in (h + 1)..n
          BY <2>3, <3>4, <4>2
        <5> QED
          BY <2>5, <4>1, <5>1 DEF n, h
      <4>3. CASE i <= h
        <5>1. \A k \in 1..i : k \in 1..h
          BY <2>3, <3>1, <4>3
        <5> QED
          BY <2>1, <2>5, <3>4, <5>1 DEF n
      <4> QED
        BY <2>3, <3>1, <4>2, <4>3
    <3> QED
      BY <2>3, <3>1, <3>2, <3>3, <3>4
  <2> QED
    BY <2>4, <2>5
<1> QED
  BY <1>2, <1>3, <1>4, <1>5, <1>6

\* When a barrier is posted, every transfer polled before has landed, its flag at least.
LEMMA PolledLanded ==
    ASSUME TypeOK, LoopInv, WaitingInv, KeptInv, WrInv, CountInv, ~HasTail,
           ppc \in {"gate", "inline"}, inflight <= 0,
           NEW f \in Fifos, NEW k \in 1..cpu_head[f], fifo[f][k].type = "WRITE"
    PROVE  Announced(fifo[f][k])
<1> DEFINE c == fifo[f][k]
<1>1. InBatch(c) \/ InStash(c) \/ Flagged(c)
  BY DEF KeptInv
<1>2. ~InBatch(c) /\ ~InStash(c)
  <2>1. stash = <<>>
    BY DEF LoopInv
  <2>2. Unposted => batch = <<>>
    BY DEF Unposted, LoopInv
  <2> QED
    BY <2>1, <2>2 DEF InBatch, InStash
<1>3. PICK w \in wire \cup landed : Announces(w) /\ w.cmd = c
  BY <1>1, <1>2 DEF Flagged
<1>4. w \notin wire
  <2>1. ASSUME w \in wire PROVE FALSE
    <3>1. w.n > 0
      BY <1>3 DEF WrInv
    <3>2. w \in Counted(wire \cup cq)
      BY <1>3, <2>1, <3>1 DEF Counted, Announces
    <3>3. IsFiniteSet(Counted(wire \cup cq)) /\ Cardinality(Counted(wire \cup cq)) = inflight
      BY CountTypes DEF CountInv
    <3>4. Cardinality(Counted(wire \cup cq)) \in Nat /\ Cardinality(Counted(wire \cup cq)) # 0
      BY <3>2, <3>3, FS_CardinalityType, FS_EmptySet
    <3> QED
      BY <3>3, <3>4
  <2> QED
    BY <2>1
<1> QED
  BY <1>3, <1>4 DEF Announced

\* Every step keeps the flags ahead of a posted barrier landed.
LEMMA BarrierStep ==
    ASSUME TypeOK, PhaseInv, LoopInv, WaitingInv, HeldInv, OnceInv, KeptInv, WrInv, CountInv,
           BarrierInv, [Next]_vars
    PROVE  BarrierInv'
<1>0. Fifos' = Fifos /\ HasTail' = HasTail
  BY ConstNext, CfgFrame
<1>1. PICK new \in SUBSET (TransferWrs \cup NotifyWrs) :
         /\ wire' \cup landed' = wire \cup landed \cup new
         /\ landed \subseteq landed'
         /\ new # {} => PostBatch \/ PostStageBarrier
         /\ PostBatch => new = BatchWrs(batch)
         /\ PostStageBarrier => \A w \in new : w.op = "barrier" /\ w.cmd.for = BarrierCmd
  BY PostedIs
<1> SUFFICES ASSUME ~HasTail, NEW w \in wire' \cup landed', w.op = "barrier",
                    NEW f \in Fifos, NEW i \in 1..Len(fifo'[f]), fifo'[f][i] = w.cmd.for,
                    NEW k \in 1..(i - 1), fifo'[f][k].type = "WRITE"
             PROVE  \E v \in landed' : Announces(v) /\ v.cmd = fifo'[f][k]
  BY <1>0 DEF BarrierInv, Barriers, Announced, Announces
<1>2. Len(fifo[f]) \in Nat /\ cpu_head[f] \in Nat /\ cpu_head[f] <= Len(fifo[f])
  BY DEF TypeOK, WaitingInv
<1>3. CASE w \in wire \cup landed
  <2>1. w.cmd.for \in Cmds /\ InNotified(w.cmd.for)
    BY <1>3, WrTypes DEF InNotified
  <2>2. /\ w.cmd.for \notin todo /\ w.cmd.for.type # "EMPTY"
        /\ \A j \in (cpu_head[f] + 1)..Len(fifo[f]) : fifo[f][j] # w.cmd.for
    BY <2>1 DEF HeldInv, Held
  <2>3. i \in 1..Len(fifo[f]) /\ \A j \in 1..i : fifo'[f][j] = fifo[f][j]
    <3>1. w.cmd.for # Empty
      BY <2>2 DEF Empty
    <3> QED
      BY <2>2, <3>1, EntryMoves
  <2>4. fifo[f][i] = w.cmd.for /\ fifo'[f][k] = fifo[f][k]
    <3>1. i \in 1..i /\ k \in 1..i
      BY <1>2, <2>3
    <3> QED
      BY <2>3, <3>1
  <2>5. Announced(fifo[f][k])
    <3>1. w \in Barriers
      BY <1>3 DEF Barriers
    <3>2. \A v \in Barriers : \A g \in Fifos : \A j \in 1..Len(fifo[g]) :
             fifo[g][j] = v.cmd.for =>
               \A h \in 1..(j - 1) : fifo[g][h].type = "WRITE" => Announced(fifo[g][h])
      BY DEF BarrierInv
    <3> QED
      BY <2>3, <2>4, <3>1, <3>2
  <2> QED
    BY <1>1, <2>4, <2>5 DEF Announced
<1>4. CASE w \notin wire \cup landed
  <2>1. w \in new
    BY <1>1, <1>4
  <2>2. ~PostBatch
    <3>1. ASSUME PostBatch PROVE FALSE
      <4>1. w \in BatchWrs(batch)
        BY <1>1, <2>1, <3>1
      <4>2. w.op \in {"imm", "data", "flag", "tail"}
        BY <3>1, <4>1, PostIs
      <4> QED
        BY <4>2
    <3> QED
      BY <3>1
  <2>3. PostStageBarrier /\ w.cmd.for = BarrierCmd
    BY <1>1, <2>1, <2>2
  <2>4. /\ ppc \in {"gate", "inline"} /\ inflight <= 0 /\ BarrierCmd \in Cmds
        /\ UNCHANGED <<fifo, landed>>
    BY <2>3, NotifyIs
  <2>5. InGate(BarrierCmd) \/ Inline(BarrierCmd)
    BY <2>3, <2>4, MoveNotify
  <2>6. i \notin (cpu_head[f] + 1)..Len(fifo[f])
    <3>1. \A j \in (cpu_head[f] + 1)..Len(fifo[f]) : fifo[f][j] # BarrierCmd
      BY <2>4, <2>5 DEF HeldInv, Held
    <3> QED
      BY <2>3, <2>4, <3>1
  <2>7. k \in 1..cpu_head[f]
    BY <1>2, <2>4, <2>6
  <2>8. Announced(fifo[f][k])
    BY <2>4, <2>7, PolledLanded
  <2> QED
    BY <2>4, <2>8 DEF Announced
<1> QED
  BY <1>3, <1>4

-----------------------------------------------------------------------------
\* The end of an epoch.

\* What the drain looks at: one QP, one FIFO, one peer, no barrier, and a send queue that
\* holds all that may be on the way.
LEMMA DrainsCmds ==
    ASSUME cfg \in Configs, DrainsAll
    PROVE  /\ WriteImm /\ ~cfg.refuses /\ Fifos = {0}
           /\ EffectiveMaxInflight \in Nat /\ EffectiveMaxInflight <= SqDepth
           /\ \A c \in Cmds : c.type # "BARRIER_NOTIFY" /\ LocalQp(c) = 0
           /\ \A c, d \in Cmds : c.type = "WRITE" /\ d.type = "WRITE" => c.dst = d.dst
<1>1. /\ WriteImm /\ cfg.num_qps = 1 /\ ~cfg.refuses /\ cfg.max_inflight <= SqDepth
      /\ \A c, d \in UNION cfg.kernels : c.type # "BARRIER_NOTIFY" /\ c.dst = d.dst
  BY DEF DrainsAll
<1>2. Fifos = {0}
  BY <1>1 DEF Fifos, NumFifos
<1>3. EffectiveMaxInflight \in Nat /\ EffectiveMaxInflight <= SqDepth
  BY <1>1, EffectiveType
<1>4. \A c \in Cmds : c.type # "BARRIER_NOTIFY"
  BY <1>1 DEF Cmds, Of, Empty
<1>5. \A c, d \in Cmds : c.type = "WRITE" /\ d.type = "WRITE" => c.dst = d.dst
  <2> SUFFICES ASSUME NEW c \in Cmds, NEW d \in Cmds, c.type = "WRITE", d.type = "WRITE"
               PROVE  c.dst = d.dst
    OBVIOUS
  <2>1. PICK c1 \in UNION cfg.kernels : c.dst = c1.dst
    BY DEF Cmds, Of, Empty
  <2>2. PICK d1 \in UNION cfg.kernels : d.dst = d1.dst
    BY DEF Cmds, Of, Empty
  <2> QED
    BY <1>1, <2>1, <2>2
<1>6. \A c \in Cmds : LocalQp(c) = 0
  <2> TAKE c \in Cmds
  <2>1. LocalQp(c) \in 0..(1 - 1)
    BY <1>1, CmdTypes DEF QPs
  <2> QED
    BY <2>1
<1> QED
  BY <1>1, <1>2, <1>3, <1>4, <1>5, <1>6

\* Who moves inflight_.
LEMMA InflightFrame ==
    ASSUME [Next]_vars, ~ProxyStep, ~HostDrainCq, ~Prepared
    PROVE  inflight' = inflight
<1>1. CASE HostStep
  BY <1>1 DEF HostStep, Launch, KernelEnds, DrainProxy, Pause, PauseReturns, CommitEpoch,
     ResumeAck, Resume, Stop, Join
<1>2. CASE \/ \E c \in todo : Push(c)
           \/ \E w \in wire : Execute(w)
           \/ \E t \in DOMAIN sent : PeerWrites(t)
           \/ Finished \/ UNCHANGED vars
  BY <1>2 DEF Push, Execute, PeerWrites, Finished, vars
<1> QED
  BY <1>1, <1>2 DEF Next

\* What is on a send queue is on the way.
LEMMA OccupiedCount ==
    ASSUME TypeOK, WrInv, CountInv, WriteImm, NEW q
    PROVE  Cardinality(Occupied(q)) \in Nat /\ Cardinality(Occupied(q)) <= inflight
<1>1. Occupied(q) \subseteq Counted(wire \cup cq)
  <2> SUFFICES ASSUME NEW w \in Occupied(q) PROVE w \in Counted(wire \cup cq)
    OBVIOUS
  <2>1. w \in wire \cup cq /\ w.op # "arrival"
    BY DEF Occupied
  <2>2. w \in wire \cup landed
    BY <2>1 DEF WrInv
  <2>3. w.n > 0
    BY <2>2 DEF WrInv
  <2> QED
    BY <2>1, <2>3 DEF Counted
<1>2. IsFiniteSet(Counted(wire \cup cq)) /\ Cardinality(Counted(wire \cup cq)) = inflight
  BY CountTypes DEF CountInv
<1> QED
  BY <1>1, <1>2, FS_Subset, FS_CardinalityType

\* A batch collected under the cap fits the send queue: it is not refused.
LEMMA NeverRefused ==
    ASSUME TypeOK, LoopInv, WrInv, CountInv, DrainInv, DrainsAll
    PROVE  ~BatchRefused
<1> SUFFICES ASSUME BatchRefused PROVE FALSE
  OBVIOUS
<1>1. /\ ppc = "post" /\ batch # <<>> /\ batch \in Seq(Cmds) /\ cfg \in Configs /\ epoch \in Nat
      /\ sender_seq \in [QPs -> Nat]
      /\ \A k \in 1..Len(batch) : LocalQp(batch[k]) = LocalQp(batch[1])
      /\ \A j, k \in 1..Len(batch) : batch[j] = batch[k] => j = k
  BY DEF BatchRefused, TypeOK, LoopInv
<1>2. WriteImm /\ ~cfg.refuses /\ EffectiveMaxInflight \in Nat /\ EffectiveMaxInflight <= SqDepth
  BY <1>1, DrainsCmds
<1>3. Counted(BatchWrs(batch)) = BatchWrs(batch)
  <2>1. \A w \in BatchWrs(batch) : w \in TransferWrs /\ w.n = 1
    BY <1>1, <1>2, BatchWrIs
  <2>2. \A w \in BatchWrs(batch) : w.op # "arrival" /\ w.n > 0
    <3> SUFFICES ASSUME NEW w \in BatchWrs(batch) PROVE w.op # "arrival" /\ w.n > 0
      OBVIOUS
    <3>1. w.n = 1 /\ w.op \in {"imm", "data", "flag", "tail"}
      BY <2>1 DEF TransferWrs
    <3> QED
      BY <3>1
  <2> QED
    BY <2>2 DEF Counted
<1>4. Cardinality(BatchWrs(batch)) = Len(batch)
  BY <1>1, <1>3, BatchCount
<1> DEFINE o == Cardinality(Occupied(LocalQp(batch[1])))
           n == Len(batch)
           m == EffectiveMaxInflight
<1>5. o \in Nat /\ o <= inflight
  BY <1>2, OccupiedCount
<1>6. inflight \in Int /\ n \in Nat /\ inflight + n <= m
  BY <1>1 DEF DrainInv, TypeOK
<1>7. o + n > SqDepth
  BY <1>2, <1>4 DEF BatchRefused, MayRefuse
<1>8. m \in Nat /\ m <= SqDepth /\ SqDepth \in Nat
  BY <1>2, LimitAssumption
<1> HIDE DEF o, n, m
<1> QED
  BY <1>5, <1>6, <1>7, <1>8

\* Where the drain looks everywhere, polling only fills the batch, up to the cap.
LEMMA DrainCollect ==
    ASSUME TypeOK, WaitingInv, HeldInv, LoopInv, DrainInv, DrainsAll, Collect
    PROVE  /\ UNCHANGED <<stash, barrier, ppc, refused, pre_inflight, inflight>>
           /\ batch' # <<>> => batch' = batch \/ pre_inflight + Len(batch') <= EffectiveMaxInflight
<1>1. /\ Polled \in Cmds /\ stash = <<>> /\ UNCHANGED <<refused, pre_inflight, inflight>>
      /\ TakeWrite(Polled) \/ TakeStash(Polled) \/ TakeBarrier(Polled) \/ TakeNothing(Polled)
  BY PolledFresh
<1>2. cfg \in Configs /\ batch \in Seq(Cmds) /\ pre_inflight \in Int
  BY DEF TypeOK
<1>3. Polled.type = "WRITE" => Joins(Polled)
  <2>1. ASSUME batch # <<>>, Polled.type = "WRITE"
        PROVE  LocalQp(Polled) = LocalQp(batch[1]) /\ Polled.dst = batch[1].dst
    <3>1. batch[1] \in Cmds /\ batch[1].type = "WRITE"
      BY <1>2, <2>1 DEF LoopInv
    <3> QED
      BY <1>1, <1>2, <2>1, <3>1, DrainsCmds
  <2> QED
    BY <2>1 DEF Joins
<1>4. Polled.type # "BARRIER_NOTIFY"
  BY <1>1, <1>2, DrainsCmds
<1>5. TakeWrite(Polled) \/ TakeNothing(Polled)
  BY <1>1, <1>3, <1>4 DEF TakeStash, TakeBarrier
<1>6. UNCHANGED <<stash, barrier, ppc>> /\ (batch' = batch \/ batch' = Append(batch, Polled))
  BY <1>5 DEF TakeWrite, TakeNothing
<1>7. CASE batch' = Append(batch, Polled)
  <2> DEFINE n == Len(batch)
             m == EffectiveMaxInflight
  <2>1. Len(batch') = n + 1 /\ n \in Nat
    BY <1>1, <1>2, <1>7
  <2>2. pre_inflight + n < m
    BY DEF Collect, Polls, CanCollect
  <2>3. m \in Nat
    BY <1>2, DrainsCmds
  <2> HIDE DEF n, m
  <2>4. pre_inflight + (n + 1) <= m
    BY <1>2, <2>1, <2>2, <2>3
  <2> QED
    BY <1>1, <1>6, <2>1, <2>4 DEF m
<1> QED
  BY <1>1, <1>6, <1>7

\* The proxy leaves the spin only when the host lets it, and the host leaves a proxy
\* that has ended alone.
LEMMA StillInflight ==
    ASSUME TypeOK, PhaseInv, [Next]_vars, ~ProxyStep, ppc # "spin" \/ hpc # "drain_cq"
    PROVE  inflight' = inflight
<1>1. ~HostDrainCq /\ ~Prepared
  BY DEF HostDrainCq, Prepared, PhaseInv
<1> QED
  BY <1>1, InflightFrame

\* How the drained part of the transition is entered, and that the FIFOs are not pushed
\* to in it.
LEMMA DrainedMoves ==
    ASSUME TypeOK, PhaseInv, WaitingInv, HeldInv, LoopInv, [Next]_vars, hpc' \in Drained
    PROVE  /\ hpc \in Drained \/ DrainProxy
           /\ fifo' = fifo /\ \A f \in Fifos : cpu_head'[f] >= cpu_head[f]
<1>1. /\ hpc \in Drained \/ DrainProxy
      /\ ~CommitEpoch /\ \A k \in cfg.kernels : ~Launch(k)
  <2>1. CASE ProxyStep
    <3>1. hpc' = hpc
      BY <2>1, ProxyPlaces
    <3>2. ~CommitEpoch /\ \A k \in cfg.kernels : ~Launch(k)
      BY <3>1 DEF CommitEpoch, Launch
    <3> QED
      BY <3>1, <3>2
  <2>2. CASE HostStep
    BY <2>2 DEF HostStep, Launch, KernelEnds, DrainProxy, Pause, PauseReturns, HostDrainCq,
       Prepared, CommitEpoch, ResumeAck, Resume, Stop, Join, Drained
  <2>3. CASE \/ \E c \in todo : Push(c)
             \/ \E w \in wire : Execute(w)
             \/ \E t \in DOMAIN sent : PeerWrites(t)
             \/ Finished \/ UNCHANGED vars
    <3>1. hpc' = hpc
      BY <2>3 DEF Push, Execute, PeerWrites, Finished, vars
    <3>2. ~CommitEpoch /\ \A k \in cfg.kernels : ~Launch(k)
      BY <3>1 DEF CommitEpoch, Launch
    <3> QED
      BY <3>1, <3>2
  <2> QED
    BY <2>1, <2>2, <2>3 DEF Next
<1>2. \A c \in todo : ~Push(c)
  <2>1. hpc # "kernel"
    BY <1>1 DEF Drained, DrainProxy
  <2> QED
    BY <2>1 DEF PhaseInv
<1>3. CASE Collect
  <2>1. /\ cpu_head[cur] \in Nat /\ cpu_head' = [cpu_head EXCEPT ![cur] = @ + 1] /\ fifo' = fifo
    BY <1>3, PolledFresh
  <2> QED
    BY <1>1, <2>1 DEF TypeOK
<1>4. CASE ~Collect
  <2>1. UNCHANGED <<fifo, cpu_head>>
    BY <1>1, <1>2, <1>4, WaitingFrame
  <2> QED
    BY <1>1, <2>1 DEF TypeOK
<1> QED
  BY <1>3, <1>4

\* Every step keeps the end of an epoch clean.
LEMMA DrainStep ==
    ASSUME TypeOK, PhaseInv, LoopInv, WaitingInv, HeldInv, WrInv, CountInv, DrainInv, [Next]_vars
    PROVE  DrainInv'
<1>0. /\ cfg' = cfg /\ cfg \in Configs /\ Fifos' = Fifos /\ DrainsAll' = DrainsAll
      /\ EffectiveMaxInflight' = EffectiveMaxInflight
  BY ConstNext, CfgFrame DEF TypeOK
<1>1. hpc' = "prepared" /\ ~cfg.fast => inflight' = 0
  <2> SUFFICES ASSUME hpc' = "prepared", ~cfg.fast PROVE inflight' = 0
    OBVIOUS
  <2>1. CASE Prepared
    BY <2>1 DEF Prepared
  <2>2. CASE ~Prepared
    <3>1. hpc = "prepared"
      <4>1. CASE ProxyStep
        BY <4>1, ProxyPlaces
      <4>2. CASE HostStep
        BY <1>0, <2>2, <4>2 DEF HostStep, Launch, KernelEnds, DrainProxy, Pause, PauseReturns,
           HostDrainCq, CommitEpoch, ResumeAck, Resume, Stop, Join
      <4>3. CASE \/ \E c \in todo : Push(c)
                 \/ \E w \in wire : Execute(w)
                 \/ \E t \in DOMAIN sent : PeerWrites(t)
                 \/ Finished \/ UNCHANGED vars
        BY <4>3 DEF Push, Execute, PeerWrites, Finished, vars
      <4> QED
        BY <4>1, <4>2, <4>3 DEF Next
    <3>2. ppc = "spin" /\ paused
      BY <3>1 DEF PhaseInv
    <3>3. ~ProxyStep
      BY <3>2, ProxyPlaces
    <3> QED
      BY <3>1, <3>3, StillInflight DEF DrainInv
  <2> QED
    BY <2>1, <2>2
<1>2. ppc' = "ended" => inflight' <= 0
  <2> SUFFICES ASSUME ppc' = "ended" PROVE inflight' <= 0
    OBVIOUS
  <2>1. CASE ProxyStep
    BY <2>1, ProxyPlaces DEF Exit
  <2>2. CASE ~ProxyStep
    <3>1. ppc = "ended"
      BY <2>2, HoldFrame
    <3> QED
      BY <2>2, <3>1, StillInflight DEF DrainInv
  <2> QED
    BY <2>1, <2>2
<1>3. DrainsAll =>
        /\ ~refused' /\ stash' = <<>> /\ barrier' = <<>> /\ ppc' \notin {"gate", "inline"}
        /\ ppc' \in {"collect", "accumulate", "post"} =>
             /\ inflight' = pre_inflight'
             /\ batch' # <<>> => pre_inflight' + Len(batch') <= EffectiveMaxInflight
  <2> SUFFICES ASSUME DrainsAll
               PROVE  /\ ~refused' /\ stash' = <<>> /\ barrier' = <<>> /\ ppc' \notin {"gate", "inline"}
                      /\ ppc' \in {"collect", "accumulate", "post"} =>
                           /\ inflight' = pre_inflight'
                           /\ batch' # <<>> => pre_inflight' + Len(batch') <= EffectiveMaxInflight
    OBVIOUS
  <2>1. /\ ~refused /\ stash = <<>> /\ barrier = <<>> /\ ppc \notin {"gate", "inline"}
        /\ ppc \in {"collect", "accumulate", "post"} =>
             /\ inflight = pre_inflight
             /\ batch # <<>> => pre_inflight + Len(batch) <= EffectiveMaxInflight
    BY DEF DrainInv
  <2>2. CASE ~ProxyStep
    <3>1. UNCHANGED <<batch, stash, refused, ppc, pre_inflight>> /\ (barrier' = barrier \/ barrier' = <<>>)
      BY <2>2, HoldFrame
    <3>2. ppc # "spin" => inflight' = inflight
      BY <2>2, StillInflight
    <3> QED
      BY <2>1, <3>1, <3>2
  <2>3. CASE Leave \/ Acknowledge \/ SpinEnds \/ Withdraw \/ PollCq \/ ExitDrain \/ Exit
    BY <2>1, <2>3 DEF Leave, Acknowledge, SpinEnds, Withdraw, PollCq, ExitDrain, Exit, loop
  <2>4. CASE OpenGate \/ Replay \/ BarrierDrain \/ PostStageBarrier
    BY <2>1, <2>4 DEF OpenGate, GateReady, Replay, BarrierDrain, PostStageBarrier
  <2>5. CASE StartBatch
    <3>1. /\ batch' = <<>> /\ stash' = <<>> /\ pre_inflight' = inflight /\ inflight' = inflight
          /\ ppc' = "collect" /\ UNCHANGED <<refused, barrier>>
      BY <2>1, <2>5 DEF StartBatch
    <3> QED
      BY <2>1, <3>1
  <2>6. CASE Collect
    <3>1. /\ UNCHANGED <<stash, barrier, ppc, refused, pre_inflight, inflight>>
          /\ batch' # <<>> => batch' = batch \/ pre_inflight + Len(batch') <= EffectiveMaxInflight
      BY <2>6, DrainCollect
    <3> QED
      BY <2>1, <3>1
  <2>7. CASE CollectEnds
    BY <2>1, <2>7 DEF CollectEnds, AfterCollect, loop
  <2>8. CASE PostBatch \/ PostNothing
    BY <2>1, <2>8 DEF PostBatch, PostNothing, loop
  <2>9. ~BatchRefused
    BY NeverRefused
  <2> QED
    BY <2>2, <2>3, <2>4, <2>5, <2>6, <2>7, <2>8, <2>9 DEF ProxyStep
<1>4. DrainsAll /\ hpc' \in Drained => \A f \in Fifos : cpu_head'[f] >= Len(fifo'[f])
  <2> SUFFICES ASSUME DrainsAll, hpc' \in Drained, NEW f \in Fifos
               PROVE  cpu_head'[f] >= Len(fifo'[f])
    OBVIOUS
  <2>1. /\ hpc \in Drained \/ DrainProxy
        /\ fifo' = fifo /\ cpu_head'[f] >= cpu_head[f]
    BY DrainedMoves
  <2>2. cpu_head[f] >= Len(fifo[f])
    <3>1. CASE hpc \in Drained
      BY <3>1 DEF DrainInv
    <3>2. CASE DrainProxy
      <4>1. f = 0
        BY <1>0, DrainsCmds
      <4>2. ~DrainMayTimeOut
        BY DEF DrainsAll
      <4> QED
        BY <3>2, <4>1, <4>2 DEF DrainProxy
    <3> QED
      BY <2>1, <3>1, <3>2
  <2> DEFINE h == cpu_head[f]
             h1 == cpu_head'[f]
             n == Len(fifo[f])
  <2>3. h \in Nat /\ n \in Nat /\ h1 \in Int
    <3>1. cpu_head' \in [Fifos -> Nat]
      BY <1>0, TypeStep DEF TypeOK
    <3> QED
      BY <3>1 DEF TypeOK
  <2>4. h1 >= h /\ h >= n
    BY <2>1, <2>2
  <2> HIDE DEF h, h1, n
  <2>5. h1 >= n
    BY <2>3, <2>4
  <2> QED
    BY <2>1, <2>5 DEF h1, n
<1> QED
  BY <1>0, <1>1, <1>2, <1>3, <1>4 DEF DrainInv, Drained

-----------------------------------------------------------------------------
\* The theorems.

\* A new session has nothing waiting, held or on the way.
LEMMA InitInv == Init => IInv
<1> SUFFICES ASSUME Init PROVE IInv
  OBVIOUS
<1> USE DEF Init
<1>1. cfg \in Configs /\ 0 \in Fifos /\ Cardinality({}) = 0 /\ IsFiniteSet({})
  BY CfgTypes, FS_EmptySet
<1>2. TypeOK
  <2>1. <<>> \in Seq(Cmds)
    OBVIOUS
  <2>2. fifo \in [Fifos -> Seq(Cmds)]
    BY <2>1
  <2>3. /\ cpu_head \in [Fifos -> Nat] /\ tail \in [Fifos -> Nat] /\ sender_seq \in [QPs -> Nat]
        /\ flag \in [cfg.incoming -> Nat] /\ sent \in [cfg.incoming -> Nat]
        /\ tail_cache \in [Fifos -> Nat] /\ pending_cpu_head \in Nat
    OBVIOUS
  <2>4. /\ todo \in SUBSET Cmds /\ ppc \in ProxyAt /\ hpc \in HostAt /\ cur \in Fifos
        /\ batch \in Seq(Cmds) /\ stash \in Seq(Cmds) /\ barrier \in Seq(Cmds)
    BY <1>1, <2>1 DEF ProxyAt, HostAt
  <2>5. pre_inflight \in Int /\ inflight \in Int /\ epoch \in Nat \ {0}
    OBVIOUS
  <2>6. refused \in BOOLEAN /\ running \in BOOLEAN /\ paused \in BOOLEAN /\ ack_paused \in BOOLEAN
    <3>1. refused = FALSE /\ running = TRUE /\ paused = FALSE /\ ack_paused = FALSE
      OBVIOUS
    <3> HIDE DEF Init
    <3> QED
      BY <3>1, Zenon
  <2>7. /\ wire \in SUBSET (TransferWrs \cup NotifyWrs) /\ IsFiniteSet(wire)
        /\ landed \in SUBSET (TransferWrs \cup NotifyWrs)
        /\ cq \in SUBSET (TransferWrs \cup NotifyWrs \cup [op : {"arrival"}, tile : cfg.incoming])
        /\ IsFiniteSet(cq)
    BY <1>1
  <2> HIDE DEF Init
  <2> QED
    BY <1>1, <2>2, <2>3, <2>4, <2>5, <2>6, <2>7 DEF TypeOK
<1>3. PhaseInv
  BY DEF PhaseInv
<1>4. LoopInv
  BY DEF LoopInv
<1>5. WaitingInv
  BY DEF WaitingInv
<1>6. \A c : ~Held(c)
  BY DEF Held, InBatch, InStash, InPosted, InGate, Inline, InNotified
<1>7. HeldInv
  BY <1>6 DEF HeldInv
<1>8. OnceInv
  BY <1>6 DEF OnceInv, Held
<1>9. KeptInv
  BY DEF KeptInv
<1>10. WrInv
  BY DEF WrInv
<1>11. SlotInv
  BY DEF SlotInv
<1>12. CountInv
  <2>1. Counted(wire \cup cq) = {}
    BY DEF Counted
  <2> QED
    BY <1>1, <2>1 DEF CountInv
<1>13. BarrierInv
  BY DEF BarrierInv, Barriers
<1>14. DrainInv
  BY DEF DrainInv, Drained
<1> QED
  BY <1>2, <1>3, <1>4, <1>5, <1>7, <1>8, <1>9, <1>10, <1>11, <1>12, <1>13, <1>14 DEF IInv

\* No step of the proxy, the host, the kernel, the NIC or the peer breaks the invariant.
LEMMA NextInv == IInv /\ [Next]_vars => IInv'
<1> SUFFICES ASSUME IInv, [Next]_vars PROVE IInv'
  OBVIOUS
<1>0. /\ TypeOK /\ PhaseInv /\ LoopInv /\ WaitingInv /\ HeldInv /\ OnceInv /\ KeptInv
      /\ WrInv /\ SlotInv /\ CountInv /\ BarrierInv /\ DrainInv
  BY DEF IInv
<1>1. TypeOK' /\ PhaseInv' /\ LoopInv' /\ WaitingInv'
  BY <1>0, TypeStep, PhaseStep, LoopStep, WaitingStep
<1>2. HeldInv' /\ OnceInv' /\ KeptInv'
  BY <1>0, HeldStep, OnceStep, KeptStep
<1>3. WrInv' /\ SlotInv' /\ CountInv'
  BY <1>0, WrStep, SlotStep, CountStep
<1>4. BarrierInv' /\ DrainInv'
  BY <1>0, BarrierStep, DrainStep
<1> QED
  BY <1>1, <1>2, <1>3, <1>4 DEF IInv

\* So it always holds.
THEOREM Invariance == Spec => []IInv
<1>1. Init => IInv
  BY InitInv
<1>2. IInv /\ [Next]_vars => IInv'
  BY NextInv
<1> QED
  BY <1>1, <1>2, PTL DEF Spec

\* Every variable of the proxy, the session and the NIC keeps its type: in particular cur
\* stays a FIFO of the proxy, an epoch is never 0 and a WR is of one of the five kinds
\* post_batch and post_stage_barrier make.
THEOREM TypeCorrectness == Spec => []TypeOK
<1>1. IInv => TypeOK
  BY DEF IInv
<1> QED
  BY <1>1, Invariance, PTL

\* inflight_ counts, at every moment and whatever the CQ holds, exactly the WRs with a
\* wr_id of 1 that are on the way or completed and not polled: post_batch and
\* post_stage_barrier add what drain_cq and the poll of run() take off, and
\* reset_inflight finds it at 0 and takes nothing from it.
THEOREM InflightExact == Spec => []CountInv
<1>1. IInv => CountInv
  BY DEF IInv
<1> QED
  BY <1>1, Invariance, PTL

\* However often ibv_wr_complete refuses a batch and post_batch replays it, each command
\* has one arrival flag (or immediate) posted, never one on the way again after it was
\* carried out, and no two of an epoch and a QP share a slot of the receiver's queue,
\* although a refusal spends slots.
THEOREM AnnouncedOnceHolds == Spec => []AnnouncedOnce
<1>1. IInv => AnnouncedOnce
  BY DEF IInv, WrInv, SlotInv, AnnouncedOnce
<1> QED
  BY <1>1, Invariance, PTL

\* Where a command has no tail, post_stage_barrier, which waits until inflight_ is 0 with
\* no batch, replay or stash in hand, posts a barrier only after the flag of every
\* transfer ahead of it in its FIFO has landed, in whatever order SRD carries WRs out.
THEOREM BarrierAfterFlagsHolds == Spec => []BarrierAfterFlags
<1>1. IInv => BarrierAfterFlags
  <2> SUFFICES ASSUME BarrierInv, ~HasTail, NEW w \in Barriers, NEW c \in AheadOf(w.cmd.for)
               PROVE  Announced(c)
    BY DEF IInv, BarrierAfterFlags
  <2>1. PICK f \in Fifos :
           c \in LET at == {i \in 1..Len(fifo[f]) : fifo[f][i] = w.cmd.for}
                 IN  {fifo[f][k] : k \in {h \in 1..Len(fifo[f]) :
                        fifo[f][h].type = "WRITE" /\ \E i \in at : h < i}}
    BY DEF AheadOf
  <2>2. PICK k \in 1..Len(fifo[f]), i \in 1..Len(fifo[f]) :
           c = fifo[f][k] /\ fifo[f][k].type = "WRITE" /\ fifo[f][i] = w.cmd.for /\ k < i
    BY <2>1
  <2>3. k \in 1..(i - 1)
    BY <2>2
  <2> QED
    BY <2>2, <2>3 DEF BarrierInv
<1> QED
  BY <1>1, Invariance, PTL

\* With one QP, one FIFO and one peer, immediates, and a send queue that holds
\* max_inflight, drain_proxy and the drains that follow it leave nothing: when
\* prepare_epoch (not the fast one) or destroy_session has returned, every transfer pushed
\* has been announced and no WR is on the way.
THEOREM QuiescentHolds == Spec => []QuiescentWhenPrepared
<1>1. IInv => QuiescentWhenPrepared
  <2> SUFFICES ASSUME IInv, DrainsAll, hpc = "destroyed" \/ (hpc = "prepared" /\ ~cfg.fast)
               PROVE  wire = {} /\ \A c \in Pushed : c.type = "WRITE" => Announced(c)
    BY DEF QuiescentWhenPrepared
  <2>0. TypeOK /\ PhaseInv /\ KeptInv /\ WrInv /\ CountInv /\ DrainInv
    BY DEF IInv
  <2>1. ppc \in {"spin", "ended"} /\ inflight <= 0 /\ inflight \in Int
    BY <2>0 DEF PhaseInv, DrainInv, TypeOK
  <2>2. wire = {}
    <3> SUFFICES ASSUME NEW w \in wire PROVE FALSE
      OBVIOUS
    <3>1. w.n > 0 /\ w.op # "arrival"
      BY <2>0, WrTypes DEF WrInv, DrainsAll
    <3>2. w \in Counted(wire \cup cq)
      BY <3>1 DEF Counted
    <3>3. IsFiniteSet(Counted(wire \cup cq)) /\ Cardinality(Counted(wire \cup cq)) = inflight
      BY <2>0, CountTypes DEF CountInv
    <3>4. Cardinality(Counted(wire \cup cq)) \in Nat /\ Cardinality(Counted(wire \cup cq)) # 0
      BY <3>2, <3>3, FS_CardinalityType, FS_EmptySet
    <3> QED
      BY <2>1, <3>3, <3>4
  <2>3. ASSUME NEW f \in Fifos, NEW i \in 1..Len(fifo[f]), fifo[f][i].type = "WRITE"
        PROVE  Announced(fifo[f][i])
    <3>1. i \in 1..cpu_head[f]
      <4>1. cpu_head[f] >= Len(fifo[f]) /\ cpu_head[f] \in Nat /\ Len(fifo[f]) \in Nat
        BY <2>0 DEF DrainInv, Drained, TypeOK
      <4> QED
        BY <4>1
    <3>2. InBatch(fifo[f][i]) \/ InStash(fifo[f][i]) \/ Flagged(fifo[f][i])
      BY <2>0, <2>3, <3>1 DEF KeptInv
    <3>3. ~Unposted /\ stash = <<>>
      BY <2>0, <2>1 DEF Unposted, DrainInv
    <3>4. Flagged(fifo[f][i])
      BY <3>2, <3>3 DEF InBatch, InStash
    <3> QED
      BY <2>2, <3>4 DEF Flagged, Announced
  <2>4. ASSUME NEW c \in Pushed, c.type = "WRITE" PROVE Announced(c)
    <3>1. PICK f \in Fifos : \E i \in 1..Len(fifo[f]) : c = fifo[f][i]
      BY DEF Pushed
    <3>2. PICK i \in 1..Len(fifo[f]) : c = fifo[f][i]
      BY <3>1
    <3> QED
      BY <2>3, <2>4, <3>2
  <2> QED
    BY <2>2, <2>4
<1> QED
  BY <1>1, Invariance, PTL
=============================================================================
