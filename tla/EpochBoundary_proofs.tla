------------------------ MODULE EpochBoundary_proofs ------------------------
(***************************************************************************)
(* No kernel reads the data of another epoch and no reset wipes out an     *)
(* arrival, for any number of epochs and tiles, in the three ways of       *)
(* crossing an epoch boundary that are safe: flat flags that are never     *)
(* reset, under any host program and between any nodes; the synchronised   *)
(* loop with the reset of commit_epoch, between any nodes; and the         *)
(* boundary inside the kernel of gemm_ar, between two nodes and with one   *)
(* reduce CTA.                                                             *)
(***************************************************************************)
EXTENDS EpochBoundary, TLAPS

\* Flat flags that carry the epoch and are never reset.
FlatUse(c) == ~c.queue_layout /\ ~c.host_reset /\ ~c.kernel_reset

\* The synchronised loop of the benchmarks, with the reset of commit_epoch.
SyncedUse(c) ==
    /\ c.program = <<"prepare", "commit", "barrier", "kernel", "barrier">>
    /\ c.host_reset /\ ~c.kernel_reset

\* The steady-state loop of gemm_ar between two nodes, with one reduce CTA.
PairUse(c) ==
    /\ c.program = <<"prepare", "commit", "kernel">>
    /\ ~c.host_reset /\ c.kernel_reset /\ c.num_reduce = 1
    /\ \E a, b \in c.nodes : a # b /\ c.nodes = {a, b}

SafeUse == \A c \in Configs : FlatUse(c) \/ SyncedUse(c) \/ PairUse(c)

-----------------------------------------------------------------------------
\* The parts of the inductive invariant that hold in all three uses.

TypeInv ==
    /\ cfg \in Configs
    /\ epoch \in [Nodes -> Nat \ {0}]
    /\ at \in [Nodes -> 1..Len(Program)]
    /\ sent \in [Nodes -> SUBSET (Nodes \X Tiles)]
    /\ got \in [Nodes -> SUBSET (Nodes \X Tiles)]
    /\ \A n \in Nodes : sent[n] \subseteq Words(n) /\ got[n] \subseteq Words(n)
    /\ read = [n \in Nodes |-> read[n]]
    /\ buf = [n \in Nodes |-> buf[n]]
    /\ flag = [n \in Nodes |-> flag[n]]
    /\ \A n \in Nodes : /\ read[n] \in [Words(n) -> Nat]
                         /\ buf[n] \in [Words(n) -> Nat]
                         /\ flag[n] \in [Words(n) -> Nat]
    /\ cleared \in [Nodes -> SUBSET CTAs]
    /\ rung \in [Nodes -> BOOLEAN]
    /\ slot \in [Nodes -> Nat]
    /\ wire \subseteq [src : Nodes, dst : Nodes, tile : Tiles, epoch : Nat \ {0}]
    /\ bells \subseteq [src : Nodes, dst : Nodes, epoch : Nat]
    /\ \A r \in wire \cup bells : r.src # r.dst

\* A flag that is up shows the epoch of the data under it.
FlagShowsData ==
    \A n \in Nodes : \A w \in Words(n) : flag[n][w] \in {0, buf[n][w]}

-----------------------------------------------------------------------------
\* Flat flags: never cleared.
FlatInv == \A n \in Nodes : \A w \in Words(n) : flag[n][w] = buf[n][w]

-----------------------------------------------------------------------------
\* The synchronised loop.

\* All nodes are before the kernel, or all are in it or waiting after it; those that
\* have committed are one epoch ahead of those that have not.
LockStep ==
    /\ (\A n \in Nodes : at[n] \in {1, 2, 3}) \/ (\A n \in Nodes : at[n] \in {4, 5})
    /\ \A m, n \in Nodes :
         /\ at[m] = 3 /\ at[n] \in {1, 2} => epoch[m] = epoch[n] + 1
         /\ (at[m] = 3 <=> at[n] = 3) => epoch[m] = epoch[n]

\* Writes are in flight only while kernels run, and to words still to be consumed.
SyncedWire ==
    \A r \in wire :
        /\ at[r.src] \in {4, 5} /\ r.epoch = epoch[r.src]
        /\ <<r.dst, r.tile>> \in sent[r.src]
        /\ flag[r.dst][<<r.src, r.tile>>] = 0
        /\ <<r.src, r.tile>> \notin got[r.dst]

\* Where a node is in its loop, and what it then knows of a word.
SyncedWord(n, w) ==
    /\ buf[n][w] <= epoch[n]
    /\ at[n] \in {1, 2} => buf[n][w] < epoch[n] \/ w \in got[n]
    /\ at[n] = 3 => flag[n][w] = 0 /\ buf[n][w] < epoch[n]
    /\ at[n] \in {4, 5} =>
         /\ flag[n][w] \in {0, epoch[n]}
         /\ flag[n][w] # 0 => <<n, w[2]>> \in sent[w[1]]
         /\ w \in got[n] => flag[n][w] # 0
         /\ buf[n][w] = epoch[n] => flag[n][w] = epoch[n]

SyncedWords ==
    \A n \in Nodes :
        /\ at[n] = 3 => sent[n] = {} /\ got[n] = {}
        /\ at[n] = 5 => got[n] = Words(n)
        /\ \A w \in Words(n) : SyncedWord(n, w)

SyncedInv == LockStep /\ SyncedWire /\ SyncedWords

-----------------------------------------------------------------------------
\* The boundary of gemm_ar.

\* What a node has done when it has gone so far in its kernel, or past it.
PairNode(n) ==
    /\ at[n] = 3 => epoch[n] >= 2
    /\ at[n] # 3 /\ epoch[n] >= 2 => rung[n] /\ slot[n] >= epoch[n]
    /\ rung[n] => 0 \in cleared[n]
    /\ 0 \in cleared[n] => sent[n] = Words(n) /\ got[n] = Words(n) /\ epoch[n] >= 2
    /\ at[n] = 2 => \A r \in wire \cup bells : r.src # n

\* The barrier slot of n shows how far its peer m has notified.
PairSlot(m, n) == slot[n] <= epoch[m] /\ (slot[n] = epoch[m] => rung[m])

PairBell(r) == r.epoch = epoch[r.src] /\ rung[r.src]

\* Node m is ahead of its peer n by an epoch at most, and only when n has notified it,
\* or has not begun.
PairEpochs(m, n) ==
    /\ at[m] # 3 => epoch[n] >= epoch[m]
    /\ epoch[n] >= epoch[m] - 1
    /\ epoch[n] = epoch[m] - 1 => rung[n] \/ epoch[n] = 1

\* No write in flight is late, and none is to a word already consumed.
PairWrite(r) ==
    /\ r.epoch = epoch[r.src] /\ r.epoch >= 2 /\ r.epoch >= epoch[r.dst]
    /\ <<r.dst, r.tile>> \in sent[r.src]
    /\ buf[r.dst][<<r.src, r.tile>>] < r.epoch
    /\ r.epoch = epoch[r.dst] => <<r.src, r.tile>> \notin got[r.dst]

PairWord(n, w) ==
    /\ buf[n][w] <= epoch[w[1]]
    /\ buf[n][w] = epoch[w[1]] => <<n, w[2]>> \in sent[w[1]]
    /\ w \in got[n] => buf[n][w] >= epoch[n]
    /\ flag[n][w] # 0 => flag[n][w] >= 2 /\ flag[n][w] >= epoch[n]
    /\ 0 \in cleared[n] => flag[n][w] # epoch[n]

PairNodes == \A n \in Nodes : PairNode(n)
PairSlots == \A m, n \in Nodes : m # n => PairSlot(m, n) /\ PairEpochs(m, n)
PairBells == \A r \in bells : PairBell(r)
PairWrites == \A r \in wire : PairWrite(r)
PairWords == \A n \in Nodes : \A w \in Words(n) : PairWord(n, w)

PairInv == PairNodes /\ PairSlots /\ PairBells /\ PairWrites /\ PairWords

-----------------------------------------------------------------------------
\* The conjunction the proof carries from state to state.
IInv ==
    /\ TypeInv /\ FlagShowsData /\ ReadsOwnEpoch /\ NoArrivalLost
    /\ FlatUse(cfg) => FlatInv
    /\ SyncedUse(cfg) => SyncedInv
    /\ PairUse(cfg) => PairInv

-----------------------------------------------------------------------------
\* What the assumption says of the configuration in use.
LEMMA CfgFacts ==
    ASSUME cfg \in Configs
    PROVE  /\ NumTiles \in Nat /\ NumReduce \in Nat \ {0}
           /\ Program \in Seq(Steps) /\ Len(Program) \in Nat \ {0}
  BY BoundaryAssumption DEF NumTiles, NumReduce, Program

\* Going round the program stays within it.
LEMMA AdvanceType ==
    ASSUME TypeInv, NEW n \in Nodes
    PROVE  (at[n] % Len(Program)) + 1 \in 1..Len(Program)
<1>1. Len(Program) \in Nat \ {0} /\ at[n] \in Nat
  BY CfgFacts DEF TypeInv
<1>2. at[n] % Len(Program) \in 0..(Len(Program) - 1)
  BY <1>1
<1> QED
  BY <1>1, <1>2

\* The initial state is well typed.
LEMMA InitType == Init => TypeInv
<1> SUFFICES ASSUME Init PROVE TypeInv
  OBVIOUS
<1>1. Len(Program) \in Nat \ {0}
  BY CfgFacts DEF Init
<1> QED
  BY <1>1 DEF Init, TypeInv

\* Every step keeps the types.
LEMMA TypeStep == TypeInv /\ [Next]_vars => TypeInv'
<1> SUFFICES ASSUME TypeInv, [Next]_vars PROVE TypeInv'
  OBVIOUS
<1> USE DEF TypeInv, Nodes, Tiles, Words, Peers, NumTiles, CTAs, NumReduce, Program, kernel, net
<1>1. ASSUME NEW n \in Nodes, NEW w \in Words(n), Send(n, w[1], w[2]) PROVE TypeInv'
  <2>1. w[1] \in Nodes /\ w[1] # n /\ w[2] \in Tiles /\ w = <<w[1], w[2]>>
    OBVIOUS
  <2>2. sent' \in [Nodes -> SUBSET (Nodes \X Tiles)]
    BY <1>1, <2>1 DEF Send
  <2>3. \A k \in Nodes : sent'[k] \subseteq Words(k)
    BY <1>1, <2>1 DEF Send
  <2>4. wire' \subseteq [src : Nodes, dst : Nodes, tile : Tiles, epoch : Nat \ {0}]
    BY <1>1, <2>1 DEF Send
  <2>5. \A r \in wire' : r.src # r.dst
    BY <1>1, <2>1 DEF Send
  <2> QED
    BY <1>1, <2>2, <2>3, <2>4, <2>5 DEF Send
<1>2. ASSUME NEW n \in Nodes, NEW w \in Words(n), Consume(n, w) PROVE TypeInv'
  <2>1. got' \in [Nodes -> SUBSET (Nodes \X Tiles)] /\ \A k \in Nodes : got'[k] \subseteq Words(k)
    BY <1>2, ZenonT(40) DEF Consume
  <2>2. read' = [k \in Nodes |-> read'[k]] /\ \A k \in Nodes : read'[k] \in [Words(k) -> Nat]
    BY <1>2 DEF Consume
  <2> QED
    BY <1>2, <2>1, <2>2 DEF Consume
<1>3. ASSUME NEW n \in Nodes, NEW k \in CTAs, ClearFlags(n, k) PROVE TypeInv'
  <2>1. flag' = [m \in Nodes |-> flag'[m]] /\ \A m \in Nodes : flag'[m] \in [Words(m) -> Nat]
    BY <1>3 DEF ClearFlags
  <2>2. cleared' \in [Nodes -> SUBSET CTAs]
    BY <1>3 DEF ClearFlags
  <2> QED
    BY <1>3, <2>1, <2>2 DEF ClearFlags
<1>4. ASSUME NEW n \in Nodes, Ring(n) PROVE TypeInv'
  <2>1. bells' \subseteq [src : Nodes, dst : Nodes, epoch : Nat] /\ \A r \in bells' : r.src # r.dst
    BY <1>4 DEF Ring
  <2> QED
    BY <1>4, <2>1 DEF Ring
<1>5. ASSUME NEW n \in Nodes, KernelEnds(n) \/ Prepare(n) PROVE TypeInv'
  <2>1. (at[n] % Len(Program)) + 1 \in 1..Len(Program)
    BY AdvanceType
  <2>2. at' \in [Nodes -> 1..Len(Program)]
    BY <1>5, <2>1 DEF KernelEnds, Prepare, Advance
  <2> QED
    BY <1>5, <2>2 DEF KernelEnds, Prepare
<1>6. ASSUME NEW n \in Nodes, Commit(n) PROVE TypeInv'
  <2>1. (at[n] % Len(Program)) + 1 \in 1..Len(Program)
    BY AdvanceType
  <2>2. flag' = [m \in Nodes |-> flag'[m]] /\ \A m \in Nodes : flag'[m] \in [Words(m) -> Nat]
    BY <1>6 DEF Commit
  <2>3. sent' \in [Nodes -> SUBSET (Nodes \X Tiles)] /\ \A k \in Nodes : sent'[k] \subseteq Words(k)
    BY <1>6 DEF Commit
  <2>4. got' \in [Nodes -> SUBSET (Nodes \X Tiles)] /\ \A k \in Nodes : got'[k] \subseteq Words(k)
    BY <1>6 DEF Commit
  <2>5. epoch' \in [Nodes -> Nat \ {0}] /\ at' \in [Nodes -> 1..Len(Program)]
    BY <1>6, <2>1 DEF Commit, Advance
  <2>6. cleared' \in [Nodes -> SUBSET CTAs] /\ rung' \in [Nodes -> BOOLEAN]
    BY <1>6 DEF Commit
  <2> QED
    BY <1>6, <2>2, <2>3, <2>4, <2>5, <2>6 DEF Commit
<1>7. CASE Barrier
  <2>1. \A n \in Nodes : (at[n] % Len(Program)) + 1 \in 1..Len(Program)
    BY AdvanceType
  <2> QED
    BY <1>7, <2>1 DEF Barrier
<1>8. ASSUME NEW r \in wire, Land(r) PROVE TypeInv'
  <2>1. r.src \in Nodes /\ r.dst \in Nodes /\ r.tile \in Tiles /\ r.epoch \in Nat /\ r.src # r.dst
    OBVIOUS
  <2>2. <<r.src, r.tile>> \in Words(r.dst)
    BY <2>1
  <2>3. flag' = [m \in Nodes |-> flag'[m]] /\ \A m \in Nodes : flag'[m] \in [Words(m) -> Nat]
    BY <1>8, <2>1, <2>2 DEF Land
  <2>4. buf' = [m \in Nodes |-> buf'[m]] /\ \A m \in Nodes : buf'[m] \in [Words(m) -> Nat]
    BY <1>8, <2>1, <2>2 DEF Land
  <2> QED
    BY <1>8, <2>3, <2>4 DEF Land
<1>9. ASSUME NEW r \in bells, LandBell(r) PROVE TypeInv'
  <2>1. r.dst \in Nodes /\ r.epoch \in Nat
    OBVIOUS
  <2> QED
    BY <1>9, <2>1 DEF LandBell
<1>10. CASE Finished \/ UNCHANGED vars
  BY <1>10 DEF Finished, vars
<1> QED
  BY <1>1, <1>2, <1>3, <1>4, <1>5, <1>6, <1>7, <1>8, <1>9, <1>10 DEF Next, NodeStep

-----------------------------------------------------------------------------
\* What the actions do, word by word.

\* A word names another node and a tile.
LEMMA WordShape ==
    ASSUME NEW n, NEW w \in Words(n)
    PROVE  w = <<w[1], w[2]>> /\ w[1] \in Nodes \ {n} /\ w[2] \in Tiles
  BY DEF Words, Peers

\* The configuration, and with it the words, never change.
LEMMA SameCfg ==
    ASSUME [Next]_vars
    PROVE  cfg' = cfg /\ Nodes' = Nodes /\ Tiles' = Tiles /\ \A n : Words(n)' = Words(n)
<1>1. cfg' = cfg
  BY DEF Next, NodeStep, Send, Consume, ClearFlags, Ring, KernelEnds, Prepare, Commit, Barrier,
         Land, LandBell, Finished, vars
<1> QED
  BY <1>1 DEF Nodes, Words, Peers, Tiles, NumTiles

SendDoes(n, w) ==
    /\ Step(n) = "kernel" /\ w \notin sent[n]
    /\ wire' = wire \cup {[src |-> n, dst |-> w[1], tile |-> w[2], epoch |-> epoch[n]]}
    /\ \A m \in Nodes : sent'[m] = IF m = n THEN sent[n] \cup {w} ELSE sent[m]
    /\ UNCHANGED <<cfg, epoch, at, got, read, cleared, rung, bells, buf, flag, slot>>

\* A kernel's send, component by component.
LEMMA SendEffect ==
    ASSUME TypeInv, NEW n \in Nodes, NEW w \in Words(n), Send(n, w[1], w[2])
    PROVE  SendDoes(n, w)
<1>1. <<w[1], w[2]>> = w
  BY WordShape
<1>2. sent' = [sent EXCEPT ![n] = @ \cup {w}] /\ w \notin sent[n]
  BY <1>1 DEF Send
<1> QED
  BY <1>2 DEF Send, SendDoes, TypeInv

ConsumeDoes(n, w) ==
    /\ Step(n) = "kernel" /\ w \notin got[n] /\ Arrived(n, w)
    /\ \A m \in Nodes : got'[m] = IF m = n THEN got[n] \cup {w} ELSE got[m]
    /\ \A m \in Nodes : \A v \in Words(m) :
         read'[m][v] = IF m = n /\ v = w THEN buf[n][w] ELSE read[m][v]
    /\ UNCHANGED <<cfg, epoch, at, sent, cleared, rung, wire, bells, buf, flag, slot>>

\* A kernel's read of an arrived word.
LEMMA ConsumeEffect ==
    ASSUME TypeInv, NEW n \in Nodes, NEW w \in Words(n), Consume(n, w)
    PROVE  ConsumeDoes(n, w)
  BY DEF Consume, ConsumeDoes, TypeInv, net

ClearDoes(n, k) ==
    /\ KernelReset /\ Step(n) = "kernel" /\ k \notin cleared[n]
    /\ got[n] = Words(n) /\ sent[n] = Words(n)
    /\ \A m \in Nodes : \A w \in Words(m) :
         flag'[m][w] = IF m = n /\ w \in Share(n, k) THEN 0 ELSE flag[m][w]
    /\ \A m \in Nodes : cleared'[m] = IF m = n THEN cleared[n] \cup {k} ELSE cleared[m]
    /\ UNCHANGED <<cfg, epoch, at, sent, got, read, rung, wire, bells, buf, slot>>

\* A reduce CTA's clearing of its words.
LEMMA ClearEffect ==
    ASSUME TypeInv, NEW n \in Nodes, NEW k \in CTAs, ClearFlags(n, k)
    PROVE  ClearDoes(n, k)
  BY DEF ClearFlags, ClearDoes, TypeInv

RingDoes(n) ==
    /\ KernelReset /\ Step(n) = "kernel" /\ ~rung[n] /\ 0 \in cleared[n]
    /\ \A m \in Nodes : rung'[m] = IF m = n THEN TRUE ELSE rung[m]
    /\ \A r \in bells' : r \in bells \/ (r.src = n /\ r.dst \in Peers(n) /\ r.epoch = epoch[n])
    /\ UNCHANGED <<cfg, epoch, at, sent, got, read, cleared, wire, buf, flag, slot>>

\* The notification of the peers.
LEMMA RingEffect ==
    ASSUME TypeInv, NEW n \in Nodes, Ring(n)
    PROVE  RingDoes(n)
  BY DEF Ring, RingDoes, TypeInv

AdvanceDoes(n) ==
    \A m \in Nodes : at'[m] = IF m = n THEN (at[n] % Len(Program)) + 1 ELSE at[m]

EndsDoes(n) ==
    /\ Step(n) = "kernel" /\ sent[n] = Words(n) /\ got[n] = Words(n)
    /\ KernelReset => rung[n] /\ slot[n] >= epoch[n]
    /\ AdvanceDoes(n)
    /\ UNCHANGED <<cfg, epoch, sent, got, read, cleared, rung, wire, bells, buf, flag, slot>>

PrepareDoes(n) ==
    /\ Step(n) = "prepare" /\ \A r \in wire \cup bells : r.src # n
    /\ AdvanceDoes(n)
    /\ UNCHANGED <<cfg, epoch, sent, got, read, cleared, rung, wire, bells, buf, flag, slot>>

\* The steps that only move a node on: end of a kernel, prepare_epoch, barriers.
LEMMA AdvanceEffect ==
    ASSUME TypeInv, NEW n \in Nodes
    PROVE  /\ Advance(n) => AdvanceDoes(n)
           /\ KernelEnds(n) => EndsDoes(n)
           /\ Prepare(n) => PrepareDoes(n)
<1>1. Advance(n) => AdvanceDoes(n)
  BY DEF Advance, AdvanceDoes, TypeInv
<1> QED
  BY <1>1 DEF KernelEnds, EndsDoes, Prepare, PrepareDoes, kernel, net

CommitDoes(n) ==
    /\ Step(n) = "commit" /\ AdvanceDoes(n)
    /\ \A m \in Nodes : epoch'[m] = IF m = n THEN epoch[n] + 1 ELSE epoch[m]
    /\ \A m \in Nodes : \A w \in Words(m) :
         flag'[m][w] = IF m = n /\ HostReset THEN 0 ELSE flag[m][w]
    /\ \A m \in Nodes : sent'[m] = IF m = n THEN {} ELSE sent[m]
    /\ \A m \in Nodes : got'[m] = IF m = n THEN {} ELSE got[m]
    /\ \A m \in Nodes : cleared'[m] = IF m = n THEN {} ELSE cleared[m]
    /\ \A m \in Nodes : rung'[m] = IF m = n THEN FALSE ELSE rung[m]
    /\ UNCHANGED <<cfg, read, wire, bells, buf, slot>>

\* commit_epoch, with or without the reset of the arrival words.
LEMMA CommitEffect ==
    ASSUME TypeInv, NEW n \in Nodes, Commit(n)
    PROVE  CommitDoes(n)
<1>1. \A m \in Nodes : \A w \in Words(m) :
        flag'[m][w] = IF m = n /\ HostReset THEN 0 ELSE flag[m][w]
  BY DEF Commit, TypeInv
<1> QED
  BY <1>1, AdvanceEffect DEF Commit, CommitDoes, TypeInv

LandDoes(r) ==
    /\ r.src \in Nodes /\ r.dst \in Nodes /\ r.src # r.dst /\ r.tile \in Tiles
    /\ r.epoch \in Nat \ {0} /\ <<r.src, r.tile>> \in Words(r.dst)
    /\ wire' = wire \ {r}
    /\ \A m \in Nodes : \A w \in Words(m) :
         LET here == m = r.dst /\ w = <<r.src, r.tile>>
         IN  /\ flag'[m][w] = IF here THEN r.epoch ELSE flag[m][w]
             /\ buf'[m][w] = IF here THEN r.epoch ELSE buf[m][w]
    /\ UNCHANGED <<cfg, epoch, at, sent, got, read, cleared, rung, bells, slot>>

\* The NIC's writes.
LEMMA LandEffect ==
    ASSUME TypeInv, NEW r \in wire, Land(r)
    PROVE  LandDoes(r)
<1>1. /\ r.src \in Nodes /\ r.dst \in Nodes /\ r.src # r.dst /\ r.tile \in Tiles
      /\ r.epoch \in Nat \ {0}
  BY DEF TypeInv
<1>2. <<r.src, r.tile>> \in Words(r.dst)
  BY <1>1 DEF Words, Peers
<1> QED
  BY <1>1, <1>2 DEF Land, LandDoes, TypeInv, kernel

BarrierDoes ==
    /\ \A n \in Nodes : Step(n) = "barrier" /\ at'[n] = (at[n] % Len(Program)) + 1
    /\ UNCHANGED <<cfg, epoch, sent, got, read, cleared, rung, wire, bells, buf, flag, slot>>

BellDoes(r) ==
    /\ r \in bells /\ r.src \in Nodes /\ r.dst \in Nodes /\ r.src # r.dst /\ r.epoch \in Nat
    /\ bells' = bells \ {r}
    /\ \A n \in Nodes : slot'[n] = IF n = r.dst THEN r.epoch ELSE slot[n]
    /\ UNCHANGED <<cfg, epoch, at, sent, got, read, cleared, rung, wire, buf, flag>>

StepDoes ==
    \/ \E n \in Nodes : \E w \in Words(n) : SendDoes(n, w) \/ ConsumeDoes(n, w)
    \/ \E n \in Nodes, k \in CTAs : ClearDoes(n, k)
    \/ \E n \in Nodes : RingDoes(n) \/ EndsDoes(n) \/ PrepareDoes(n) \/ CommitDoes(n)
    \/ BarrierDoes
    \/ \E r \in wire : LandDoes(r)
    \/ \E r \in bells : BellDoes(r)
    \/ UNCHANGED <<cfg, epoch, at, sent, got, read, cleared, rung, wire, bells, buf, flag, slot>>

\* Every step is one of the above.
LEMMA Effects ==
    ASSUME TypeInv, [Next]_vars
    PROVE  StepDoes
<1>1. ASSUME NEW n \in Nodes, NodeStep(n) PROVE StepDoes
  <2>1. ASSUME NEW w \in Words(n), Send(n, w[1], w[2]) PROVE StepDoes
    BY <2>1, SendEffect DEF StepDoes
  <2>2. ASSUME NEW w \in Words(n), Consume(n, w) PROVE StepDoes
    BY <2>2, ConsumeEffect DEF StepDoes
  <2>3. ASSUME NEW k \in CTAs, ClearFlags(n, k) PROVE StepDoes
    BY <2>3, ClearEffect DEF StepDoes
  <2>4. CASE Ring(n)
    BY <2>4, RingEffect DEF StepDoes
  <2>5. CASE KernelEnds(n) \/ Prepare(n)
    BY <2>5, AdvanceEffect DEF StepDoes
  <2>6. CASE Commit(n)
    BY <2>6, CommitEffect DEF StepDoes
  <2> QED
    BY <1>1, <2>1, <2>2, <2>3, <2>4, <2>5, <2>6 DEF NodeStep
<1>2. CASE Barrier
  <2>1. BarrierDoes
    BY <1>2 DEF Barrier, BarrierDoes, TypeInv, kernel, net
  <2> QED
    BY <2>1 DEF StepDoes
<1>3. ASSUME NEW r \in wire, Land(r) PROVE StepDoes
  BY <1>3, LandEffect DEF StepDoes
<1>4. ASSUME NEW r \in bells, LandBell(r) PROVE StepDoes
  <2>1. BellDoes(r)
    BY <1>4 DEF LandBell, BellDoes, TypeInv, kernel
  <2> QED
    BY <2>1 DEF StepDoes
<1>5. CASE Finished \/ UNCHANGED vars
  BY <1>5 DEF Finished, vars, kernel, net, StepDoes
<1> QED
  BY <1>1, <1>2, <1>3, <1>4, <1>5 DEF Next

-----------------------------------------------------------------------------
\* A flag never shows more than the buffer holds.
LEMMA FlagStep ==
    ASSUME TypeInv, FlagShowsData, [Next]_vars
    PROVE  FlagShowsData'
<1> SUFFICES ASSUME NEW m \in Nodes, NEW w \in Words(m)
             PROVE  flag'[m][w] \in {0, buf'[m][w]}
  BY SameCfg DEF FlagShowsData
<1> USE DEF FlagShowsData
<1>1. ASSUME NEW n \in Nodes, NEW k \in CTAs, ClearDoes(n, k)
      PROVE  flag'[m][w] \in {0, buf'[m][w]}
  BY <1>1 DEF ClearDoes
<1>2. ASSUME NEW n \in Nodes, CommitDoes(n) PROVE flag'[m][w] \in {0, buf'[m][w]}
  BY <1>2 DEF CommitDoes
<1>3. ASSUME NEW r \in wire, LandDoes(r) PROVE flag'[m][w] \in {0, buf'[m][w]}
  BY <1>3 DEF LandDoes
<1>4. CASE UNCHANGED <<buf, flag>>
  BY <1>4
<1> QED
  BY <1>1, <1>2, <1>3, <1>4, Effects
     DEF StepDoes, SendDoes, ConsumeDoes, RingDoes, EndsDoes, PrepareDoes, BarrierDoes, BellDoes

\* Flat flags that nobody clears.
LEMMA FlatStep ==
    ASSUME TypeInv, FlatUse(cfg), FlatInv, [Next]_vars
    PROVE  FlatInv'
<1> SUFFICES ASSUME NEW m \in Nodes, NEW w \in Words(m)
             PROVE  flag'[m][w] = buf'[m][w]
  BY SameCfg DEF FlatInv
<1> USE DEF FlatInv
<1>1. ASSUME NEW n \in Nodes, NEW k \in CTAs, ClearDoes(n, k) PROVE FALSE
  BY <1>1 DEF ClearDoes, FlatUse, KernelReset
<1>2. ASSUME NEW n \in Nodes, CommitDoes(n) PROVE flag'[m][w] = buf'[m][w]
  BY <1>2 DEF CommitDoes, FlatUse, HostReset
<1>3. ASSUME NEW r \in wire, LandDoes(r) PROVE flag'[m][w] = buf'[m][w]
  BY <1>3 DEF LandDoes
<1>4. CASE UNCHANGED <<buf, flag>>
  BY <1>4
<1> QED
  BY <1>1, <1>2, <1>3, <1>4, Effects
     DEF StepDoes, SendDoes, ConsumeDoes, RingDoes, EndsDoes, PrepareDoes, BarrierDoes, BellDoes

-----------------------------------------------------------------------------
\* The synchronised loop.

\* Where a node stands in the five steps of the synchronised loop.
LEMMA SyncedAt ==
    ASSUME TypeInv, SyncedUse(cfg), NEW n \in Nodes
    PROVE  /\ at[n] \in {1, 2, 3, 4, 5}
           /\ Step(n) = "prepare" <=> at[n] = 1
           /\ Step(n) = "commit" <=> at[n] = 2
           /\ Step(n) = "barrier" <=> at[n] \in {3, 5}
           /\ Step(n) = "kernel" <=> at[n] = 4
           /\ (at[n] % Len(Program)) + 1 = IF at[n] = 5 THEN 1 ELSE at[n] + 1
<1>1. Program = <<"prepare", "commit", "barrier", "kernel", "barrier">> /\ Len(Program) = 5
  BY DEF SyncedUse, Program
<1>2. at[n] \in {1, 2, 3, 4, 5}
  BY <1>1 DEF TypeInv
<1>3. (at[n] % 5) + 1 = IF at[n] = 5 THEN 1 ELSE at[n] + 1
  BY <1>2
<1> QED
  BY <1>1, <1>2, <1>3 DEF Step

\* With barriers on both sides of the kernel no node is two steps ahead.
LEMMA LockStepStep ==
    ASSUME TypeInv, SyncedUse(cfg), LockStep, [Next]_vars
    PROVE  LockStep'
<1>1. ASSUME NEW k \in Nodes, EndsDoes(k) \/ PrepareDoes(k) PROVE LockStep'
  <2>1. /\ at[k] \in {1, 4} /\ epoch' = epoch /\ Nodes' = Nodes
        /\ \A m \in Nodes : at'[m] = IF m = k THEN at[k] + 1 ELSE at[m]
    BY <1>1, SyncedAt, SameCfg DEF EndsDoes, PrepareDoes, AdvanceDoes
  <2> QED
    BY <2>1, SyncedAt DEF LockStep
<1>2. ASSUME NEW k \in Nodes, CommitDoes(k) PROVE LockStep'
  <2>1. /\ at[k] = 2 /\ Nodes' = Nodes
        /\ \A m \in Nodes : at'[m] = IF m = k THEN 3 ELSE at[m]
        /\ \A m \in Nodes : epoch'[m] = IF m = k THEN epoch[k] + 1 ELSE epoch[m]
    BY <1>2, SyncedAt, SameCfg DEF CommitDoes, AdvanceDoes
  <2>2. \A m \in Nodes : epoch[m] \in Nat
    BY DEF TypeInv
  <2> QED
    BY <2>1, <2>2, SyncedAt DEF LockStep
<1>3. CASE BarrierDoes
  <2>1. /\ epoch' = epoch /\ Nodes' = Nodes
        /\ \A m \in Nodes : at[m] \in {3, 5} /\ at'[m] = IF at[m] = 5 THEN 1 ELSE 4
    BY <1>3, SyncedAt, SameCfg DEF BarrierDoes
  <2> QED
    BY <2>1, SyncedAt DEF LockStep
<1>4. CASE UNCHANGED <<cfg, epoch, at>>
  BY <1>4 DEF LockStep, Nodes
<1> QED
  BY <1>1, <1>2, <1>3, <1>4, Effects
     DEF StepDoes, SendDoes, ConsumeDoes, ClearDoes, RingDoes, LandDoes, BellDoes

\* The facts about one step of the synchronised loop that the two lemmas below need.
SyncedMoves ==
    /\ Nodes' = Nodes /\ \A n : Words(n)' = Words(n)
    /\ \A n \in Nodes : /\ at[n] \in {1, 2, 3, 4, 5} /\ at'[n] \in {1, 2, 3, 4, 5}
                         /\ epoch[n] \in Nat \ {0} /\ epoch'[n] \in Nat \ {0}
    /\ \A n \in Nodes : \A w \in Words(n) : buf[n][w] \in Nat /\ flag[n][w] \in Nat

\* What the steps of a synced use leave alone.
LEMMA SyncedTypes ==
    ASSUME TypeInv, SyncedUse(cfg), [Next]_vars
    PROVE  SyncedMoves
<1>1. TypeInv' /\ cfg' = cfg /\ Nodes' = Nodes /\ \A n : Words(n)' = Words(n)
  BY TypeStep, SameCfg
<1>2. \A n \in Nodes : at[n] \in {1, 2, 3, 4, 5}
  BY SyncedAt
<1>3. \A n \in Nodes : at'[n] \in {1, 2, 3, 4, 5}
  <2>1. Program' = <<"prepare", "commit", "barrier", "kernel", "barrier">>
    BY <1>1 DEF SyncedUse, Program
  <2>2. Len(Program') = 5
    BY <2>1
  <2>3. \A n \in Nodes : at'[n] \in 1..5
    BY <1>1, <2>2 DEF TypeInv
  <2> QED
    BY <2>3
<1>4. \A n \in Nodes : epoch[n] \in Nat \ {0} /\ epoch'[n] \in Nat \ {0}
  BY <1>1 DEF TypeInv
<1>5. \A n \in Nodes : \A w \in Words(n) : buf[n][w] \in Nat /\ flag[n][w] \in Nat
  BY DEF TypeInv
<1> QED
  BY <1>1, <1>2, <1>3, <1>4, <1>5 DEF SyncedMoves

\* Synced use: what is on the wire belongs to the running kernels.
LEMMA SyncedWireStep ==
    ASSUME TypeInv, SyncedUse(cfg), SyncedInv, [Next]_vars
    PROVE  SyncedWire'
<1> USE DEF SyncedInv
<1>0. SyncedMoves
  BY SyncedTypes
<1>t. \A r \in wire : r.src \in Nodes /\ r.dst \in Nodes /\ r.src # r.dst
                       /\ <<r.src, r.tile>> \in Words(r.dst)
  BY DEF TypeInv, Words, Peers
<1>1. ASSUME NEW n \in Nodes, NEW w \in Words(n), SendDoes(n, w) PROVE SyncedWire'
  <2> SUFFICES ASSUME NEW r \in wire'
               PROVE  /\ at'[r.src] \in {4, 5} /\ r.epoch = epoch'[r.src]
                      /\ <<r.dst, r.tile>> \in sent'[r.src]
                      /\ flag'[r.dst][<<r.src, r.tile>>] = 0
                      /\ <<r.src, r.tile>> \notin got'[r.dst]
    BY DEF SyncedWire
  <2>1. CASE r \in wire
    BY <1>1, <1>t, <2>1 DEF SyncedWire, SendDoes
  <2>2. CASE r = [src |-> n, dst |-> w[1], tile |-> w[2], epoch |-> epoch[n]]
    <3>1. w = <<w[1], w[2]>> /\ w[1] \in Nodes \ {n} /\ w[2] \in Tiles
      BY WordShape
    <3>2. <<n, w[2]>> \in Words(w[1])
      BY <3>1 DEF Words, Peers
    <3>3. at[n] = 4 /\ w \notin sent[n]
      BY <1>1, SyncedAt DEF SendDoes
    <3>4. at[w[1]] \in {4, 5}
      BY <3>1, <3>3, <1>0 DEF LockStep, SyncedMoves
    <3>5. flag[w[1]][<<n, w[2]>>] = 0
      BY <3>1, <3>2, <3>3, <3>4 DEF SyncedWords, SyncedWord
    <3>6. <<n, w[2]>> \notin got[w[1]]
      BY <3>1, <3>2, <3>4, <3>5 DEF SyncedWords, SyncedWord
    <3> QED
      BY <1>1, <2>2, <3>1, <3>3, <3>5, <3>6 DEF SendDoes
  <2> QED
    BY <1>1, <2>1, <2>2 DEF SendDoes
<1>2. ASSUME NEW n \in Nodes, NEW w \in Words(n), ConsumeDoes(n, w) PROVE SyncedWire'
  <2>1. flag[n][w] # 0
    BY <1>2, <1>0 DEF ConsumeDoes, Arrived, SyncedMoves
  <2> QED
    <3> SUFFICES ASSUME NEW r \in wire
                 PROVE  /\ at[r.src] \in {4, 5} /\ r.epoch = epoch[r.src]
                        /\ <<r.dst, r.tile>> \in sent[r.src]
                        /\ flag[r.dst][<<r.src, r.tile>>] = 0
                        /\ <<r.src, r.tile>> \notin got'[r.dst]
      BY <1>2 DEF SyncedWire, ConsumeDoes
    <3>1. /\ at[r.src] \in {4, 5} /\ r.epoch = epoch[r.src]
          /\ <<r.dst, r.tile>> \in sent[r.src]
          /\ flag[r.dst][<<r.src, r.tile>>] = 0
          /\ <<r.src, r.tile>> \notin got[r.dst]
      BY DEF SyncedWire
    <3>2. r.dst \in Nodes
      BY DEF TypeInv
    <3>3. r.dst = n => <<r.src, r.tile>> # w
      BY <2>1, <3>1
    <3> QED
      BY <1>2, <3>1, <3>2, <3>3 DEF ConsumeDoes
<1>3. ASSUME NEW n \in Nodes, EndsDoes(n) \/ PrepareDoes(n) \/ CommitDoes(n) PROVE SyncedWire'
  <2>1. \A r \in wire : r.src = n => at[n] = 4
    BY <1>3, SyncedAt DEF SyncedWire, EndsDoes, PrepareDoes, CommitDoes
  <2>2. CASE EndsDoes(n)
    <3>1. \A m \in Nodes : at'[m] = IF m = n THEN 5 ELSE at[m]
      BY <2>2, SyncedAt DEF EndsDoes, AdvanceDoes
    <3> QED
      BY <2>2, <3>1, <1>t DEF SyncedWire, EndsDoes
  <2>3. CASE PrepareDoes(n)
    <3>1. \A m \in Nodes : at'[m] = IF m = n THEN 2 ELSE at[m]
      BY <2>3, SyncedAt DEF PrepareDoes, AdvanceDoes
    <3> QED
      BY <2>3, <3>1, <1>t DEF SyncedWire, PrepareDoes
  <2>4. CASE CommitDoes(n)
    <3>1. at[n] = 2
      BY <2>4, SyncedAt DEF CommitDoes
    <3>2. \A m \in Nodes : at[m] \in {1, 2, 3}
      BY <3>1 DEF LockStep
    <3>3. ASSUME NEW r \in wire PROVE FALSE
      <4>1. r.src \in Nodes
        BY <1>t
      <4>2. at[r.src] \in {4, 5}
        BY DEF SyncedWire
      <4> QED
        BY <3>2, <4>1, <4>2
    <3>4. \A r \in wire' : FALSE
      BY <2>4, <3>3 DEF CommitDoes
    <3> QED
      BY <3>4 DEF SyncedWire
  <2> QED
    BY <1>3, <2>2, <2>3, <2>4
<1>4. CASE BarrierDoes
  <2>1. \A m \in Nodes : at[m] \in {3, 5}
    BY <1>4, SyncedAt DEF BarrierDoes
  <2>2. ASSUME NEW r \in wire PROVE FALSE
    <3>1. r.dst \in Nodes /\ r.src \in Nodes /\ <<r.src, r.tile>> \in Words(r.dst)
      BY <1>t
    <3>2. at[r.src] = 5 /\ <<r.src, r.tile>> \notin got[r.dst]
      BY <2>1, <3>1 DEF SyncedWire
    <3>3. at[r.dst] = 5
      BY <2>1, <3>1, <3>2 DEF LockStep
    <3> QED
      BY <3>1, <3>2, <3>3 DEF SyncedWords, SyncedWord
  <2> QED
    BY <1>4, <2>2 DEF SyncedWire, BarrierDoes
<1>5. ASSUME NEW q \in wire, LandDoes(q) PROVE SyncedWire'
  <2> SUFFICES ASSUME NEW r \in wire, r # q
               PROVE  flag'[r.dst][<<r.src, r.tile>>] = 0
    BY <1>5, <1>t DEF SyncedWire, LandDoes
  <2>1. ~(r.dst = q.dst /\ <<r.src, r.tile>> = <<q.src, q.tile>>)
    <3>1. r.epoch = epoch[r.src] /\ q.epoch = epoch[q.src]
      BY DEF SyncedWire
    <3>2. /\ r = [src |-> r.src, dst |-> r.dst, tile |-> r.tile, epoch |-> r.epoch]
          /\ q = [src |-> q.src, dst |-> q.dst, tile |-> q.tile, epoch |-> q.epoch]
      BY DEF TypeInv
    <3> QED
      BY <3>1, <3>2
  <2> QED
    BY <1>5, <2>1, <1>t DEF SyncedWire, LandDoes
<1>6. CASE UNCHANGED <<epoch, at, sent, got, wire, flag>>
  BY <1>6 DEF SyncedWire
<1>7. ASSUME NEW n \in Nodes, NEW k \in CTAs, ClearDoes(n, k) PROVE FALSE
  BY <1>7 DEF ClearDoes, SyncedUse, KernelReset
<1> QED
  BY <1>1, <1>2, <1>3, <1>4, <1>5, <1>6, <1>7, Effects DEF StepDoes, RingDoes, BellDoes

\* Synced use: what a word holds, by where its node and its writer are.
LEMMA SyncedWordsStep ==
    ASSUME TypeInv, SyncedUse(cfg), SyncedInv, [Next]_vars
    PROVE  SyncedWords'
<1> USE DEF SyncedInv
<1>0. SyncedMoves
  BY SyncedTypes
<1>1. ASSUME NEW n \in Nodes, NEW w \in Words(n), SendDoes(n, w) PROVE SyncedWords'
  <2>1. at[n] = 4 /\ \A m \in Nodes : sent[m] \subseteq sent'[m] /\ (at[m] = 3 => sent'[m] = sent[m])
    BY <1>1, SyncedAt DEF SendDoes
  <2>2. \A m \in Nodes : \A v \in Words(m) : v[1] \in Nodes
    BY WordShape
  <2> QED
    BY <1>0, <1>1, <2>1, <2>2 DEF SyncedWords, SyncedWord, SendDoes, SyncedMoves
<1>2. ASSUME NEW n \in Nodes, NEW w \in Words(n), ConsumeDoes(n, w) PROVE SyncedWords'
  <2>1. flag[n][w] # 0 /\ at[n] = 4
    BY <1>2, <1>0, SyncedAt DEF ConsumeDoes, Arrived, SyncedMoves
  <2> QED
    BY <1>0, <1>2, <2>1 DEF SyncedWords, SyncedWord, ConsumeDoes, SyncedMoves
<1>3. ASSUME NEW n \in Nodes, EndsDoes(n) PROVE SyncedWords'
  <2>1. at[n] = 4 /\ \A m \in Nodes : at'[m] = IF m = n THEN 5 ELSE at[m]
    BY <1>3, SyncedAt DEF EndsDoes, AdvanceDoes
  <2> QED
    BY <1>0, <1>3, <2>1 DEF SyncedWords, SyncedWord, EndsDoes, SyncedMoves
<1>4. ASSUME NEW n \in Nodes, PrepareDoes(n) PROVE SyncedWords'
  <2>1. at[n] = 1 /\ \A m \in Nodes : at'[m] = IF m = n THEN 2 ELSE at[m]
    BY <1>4, SyncedAt DEF PrepareDoes, AdvanceDoes
  <2> QED
    BY <1>0, <1>4, <2>1 DEF SyncedWords, SyncedWord, PrepareDoes, SyncedMoves
<1>5. ASSUME NEW n \in Nodes, CommitDoes(n) PROVE SyncedWords'
  <2>1. at[n] = 2 /\ \A m \in Nodes : at'[m] = IF m = n THEN 3 ELSE at[m]
    BY <1>5, SyncedAt DEF CommitDoes, AdvanceDoes
  <2>2. \A m \in Nodes : at[m] \in {1, 2, 3}
    BY <2>1 DEF LockStep
  <2>3. HostReset
    BY DEF SyncedUse, HostReset
  <2> QED
    BY <1>0, <1>5, <2>1, <2>2, <2>3 DEF SyncedWords, SyncedWord, CommitDoes, SyncedMoves
<1>6. CASE BarrierDoes
  <2>1. \A m \in Nodes : at[m] \in {3, 5} /\ at'[m] = IF at[m] = 5 THEN 1 ELSE 4
    BY <1>6, SyncedAt DEF BarrierDoes
  <2>2. /\ Nodes' = Nodes /\ (\A n : Words(n)' = Words(n))
        /\ epoch' = epoch /\ sent' = sent /\ got' = got /\ buf' = buf /\ flag' = flag
    BY <1>0, <1>6 DEF BarrierDoes, SyncedMoves
  <2>3. ASSUME NEW n \in Nodes, NEW w \in Words(n) PROVE SyncedWord(n, w)'
    <3>1. /\ SyncedWord(n, w) /\ epoch[n] \in Nat \ {0} /\ buf[n][w] \in Nat
          /\ at[n] = 5 => w \in got[n]
          /\ at[n] = 3 => got[n] = {}
      BY <1>0 DEF SyncedWords, SyncedMoves
    <3> QED
      BY <2>1, <2>2, <3>1 DEF SyncedWord
  <2> QED
    BY <2>1, <2>2, <2>3 DEF SyncedWords
<1>7. ASSUME NEW r \in wire, LandDoes(r) PROVE SyncedWords'
  <2>1. at[r.src] \in {4, 5} /\ r.epoch = epoch[r.src] /\ <<r.dst, r.tile>> \in sent[r.src]
    BY <1>7 DEF SyncedWire
  <2>2. at[r.dst] \in {4, 5} /\ r.epoch = epoch[r.dst]
    BY <1>0, <1>7, <2>1 DEF LockStep, LandDoes, SyncedMoves
  <2>3. /\ Nodes' = Nodes /\ (\A n : Words(n)' = Words(n))
        /\ epoch' = epoch /\ at' = at /\ sent' = sent /\ got' = got
    BY <1>0, <1>7 DEF LandDoes, SyncedMoves
  <2>4. ASSUME NEW n \in Nodes, NEW w \in Words(n) PROVE SyncedWord(n, w)'
    <3>0. SyncedWord(n, w)
      BY DEF SyncedWords
    <3>1. CASE n = r.dst /\ w = <<r.src, r.tile>>
      <4>1. flag'[n][w] = epoch[n] /\ buf'[n][w] = epoch[n] /\ w[1] = r.src /\ w[2] = r.tile
        BY <1>7, <2>2, <3>1 DEF LandDoes
      <4> QED
        BY <1>0, <2>1, <2>2, <2>3, <3>1, <4>1 DEF SyncedMoves, SyncedWord
    <3>2. CASE ~(n = r.dst /\ w = <<r.src, r.tile>>)
      <4>1. flag'[n][w] = flag[n][w] /\ buf'[n][w] = buf[n][w]
        BY <1>7, <3>2 DEF LandDoes
      <4> QED
        BY <2>3, <3>0, <4>1 DEF SyncedWord
    <3> QED
      BY <3>1, <3>2
  <2> QED
    BY <2>3, <2>4 DEF SyncedWords
<1>8. CASE UNCHANGED <<epoch, at, sent, got, buf, flag>>
  BY <1>0, <1>8 DEF SyncedWords, SyncedWord, SyncedMoves
<1>9. ASSUME NEW n \in Nodes, NEW k \in CTAs, ClearDoes(n, k) PROVE FALSE
  BY <1>9 DEF ClearDoes, SyncedUse, KernelReset
<1> QED
  BY <1>1, <1>2, <1>3, <1>4, <1>5, <1>6, <1>7, <1>8, <1>9, Effects DEF StepDoes, RingDoes, BellDoes

-----------------------------------------------------------------------------
\* The boundary of gemm_ar.

\* Where a node stands in the three steps of the loop of gemm_ar.
LEMMA PairAt ==
    ASSUME TypeInv, PairUse(cfg), NEW n \in Nodes
    PROVE  /\ at[n] \in {1, 2, 3}
           /\ Step(n) = "prepare" <=> at[n] = 1
           /\ Step(n) = "commit" <=> at[n] = 2
           /\ Step(n) = "kernel" <=> at[n] = 3
           /\ Step(n) # "barrier"
           /\ (at[n] % Len(Program)) + 1 = IF at[n] = 3 THEN 1 ELSE at[n] + 1
<1>1. Program = <<"prepare", "commit", "kernel">> /\ Len(Program) = 3
  BY DEF PairUse, Program
<1>2. at[n] \in {1, 2, 3}
  BY <1>1 DEF TypeInv
<1>3. (at[n] % 3) + 1 = IF at[n] = 3 THEN 1 ELSE at[n] + 1
  BY <1>2
<1> QED
  BY <1>1, <1>2, <1>3 DEF Step

\* There is one peer, one reduce CTA that clears every word, and no host barrier.
LEMMA PairFacts ==
    ASSUME TypeInv, PairUse(cfg)
    PROVE  /\ CTAs = {0} /\ \A n \in Nodes : Share(n, 0) = Words(n)
           /\ \A m, n, k \in Nodes : m # n /\ k # n => k = m
           /\ ~HostReset /\ Nodes # {}
<1>1. CTAs = {0} /\ NumReduce = 1
  BY DEF PairUse, CTAs, NumReduce
<1>2. NumTiles \in Nat
  BY CfgFacts DEF TypeInv
<1>3. \A n \in Nodes : \A w \in Words(n) : w[2] % NumReduce = 0
  BY <1>1, <1>2, WordShape DEF Tiles
<1> QED
  BY <1>1, <1>3 DEF PairUse, Share, HostReset, Nodes

\* Types, and what never changes in a step.
PairMoves ==
    /\ Nodes' = Nodes /\ \A n : Words(n)' = Words(n)
    /\ \A n \in Nodes : /\ at[n] \in {1, 2, 3} /\ at'[n] \in {1, 2, 3}
                         /\ epoch[n] \in Nat \ {0} /\ epoch'[n] \in Nat \ {0}
                         /\ slot[n] \in Nat
    /\ \A n \in Nodes : \A w \in Words(n) :
         buf[n][w] \in Nat /\ flag[n][w] \in Nat /\ w[1] \in Nodes /\ w[1] # n
    /\ \A r \in wire \cup bells : r.src \in Nodes /\ r.dst \in Nodes /\ r.src # r.dst /\ r.epoch \in Nat
    /\ \A r \in wire : <<r.src, r.tile>> \in Words(r.dst) /\ <<r.dst, r.tile>> \in Words(r.src)
    /\ \A m, n, k \in Nodes : m # n /\ k # n => k = m

\* What the steps of a pair leave alone.
LEMMA PairTypes ==
    ASSUME TypeInv, PairUse(cfg), [Next]_vars
    PROVE  PairMoves
<1>1. TypeInv' /\ cfg' = cfg /\ Nodes' = Nodes /\ \A n : Words(n)' = Words(n)
  BY TypeStep, SameCfg
<1>2. \A n \in Nodes : at[n] \in {1, 2, 3}
  BY PairAt
<1>3. \A n \in Nodes : at'[n] \in {1, 2, 3}
  <2>1. Program' = <<"prepare", "commit", "kernel">>
    BY <1>1 DEF PairUse, Program
  <2>2. Len(Program') = 3
    BY <2>1
  <2>3. \A n \in Nodes : at'[n] \in 1..3
    BY <1>1, <2>2 DEF TypeInv
  <2> QED
    BY <2>3
<1>4. \A n \in Nodes : epoch[n] \in Nat \ {0} /\ epoch'[n] \in Nat \ {0} /\ slot[n] \in Nat
  BY <1>1 DEF TypeInv
<1>5. \A n \in Nodes : \A w \in Words(n) :
         buf[n][w] \in Nat /\ flag[n][w] \in Nat /\ w[1] \in Nodes /\ w[1] # n
  BY WordShape DEF TypeInv
<1>6. \A r \in wire \cup bells : r.src \in Nodes /\ r.dst \in Nodes /\ r.src # r.dst /\ r.epoch \in Nat
  BY DEF TypeInv
<1>7. \A r \in wire : <<r.src, r.tile>> \in Words(r.dst) /\ <<r.dst, r.tile>> \in Words(r.src)
  BY DEF TypeInv, Words, Peers
<1> QED
  BY <1>1, <1>2, <1>3, <1>4, <1>5, <1>6, <1>7, PairFacts DEF PairMoves

\* A node that has not notified its peer is not behind it.
LEMMA PairNotBehind ==
    ASSUME TypeInv, PairUse(cfg), PairInv, NEW m \in Nodes, NEW n \in Nodes, m # n,
           at[n] = 3, ~rung[n]
    PROVE  epoch[m] <= epoch[n]
<1>1. PairEpochs(m, n) /\ PairNode(n)
  BY DEF PairInv, PairSlots, PairNodes
<1>2. epoch[m] \in Nat /\ epoch[n] \in Nat
  BY DEF TypeInv
<1> QED
  BY <1>1, <1>2 DEF PairEpochs, PairNode

\* Pair: a send.
LEMMA PairSend ==
    ASSUME TypeInv, PairUse(cfg), PairInv, PairMoves,
           NEW n \in Nodes, NEW w \in Words(n), SendDoes(n, w)
    PROVE  PairInv'
<1>1. /\ w = <<w[1], w[2]>> /\ w[1] \in Nodes \ {n} /\ w[2] \in Tiles /\ <<n, w[2]>> \in Words(w[1])
  BY WordShape DEF Words, Peers
<1>2. /\ at[n] = 3 /\ w \notin sent[n] /\ epoch[n] >= 2 /\ 0 \notin cleared[n] /\ ~rung[n]
  BY PairAt DEF SendDoes, PairInv, PairNodes, PairNode
<1>3. /\ Nodes' = Nodes /\ (\A k : Words(k)' = Words(k))
      /\ epoch' = epoch /\ at' = at /\ got' = got /\ cleared' = cleared /\ rung' = rung
      /\ bells' = bells /\ buf' = buf /\ flag' = flag /\ slot' = slot
  BY DEF SendDoes, PairMoves
<1>4. \A k \in Nodes : sent'[k] = IF k = n THEN sent[n] \cup {w} ELSE sent[k]
  BY DEF SendDoes
<1> DEFINE new == [src |-> n, dst |-> w[1], tile |-> w[2], epoch |-> epoch[n]]
<1>5. wire' = wire \cup {new}
  BY DEF SendDoes
<1>6. ASSUME NEW k \in Nodes PROVE PairNode(k)'
  <2>1. PairNode(k)
    BY DEF PairInv, PairNodes
  <2>2. at[k] = 2 => \A r \in wire' \cup bells' : r.src # k
    BY <1>2, <1>3, <1>5, <2>1 DEF PairNode
  <2>3. 0 \in cleared[k] => sent'[k] = sent[k]
    BY <1>2, <1>4
  <2> QED
    BY <1>3, <2>1, <2>2, <2>3 DEF PairNode
<1>7. PairSlots' /\ PairBells'
  BY <1>3 DEF PairInv, PairSlots, PairSlot, PairEpochs, PairBells, PairBell
<1>8. ASSUME NEW r \in wire' PROVE PairWrite(r)'
  <2>1. CASE r \in wire
    <3>1. PairWrite(r) /\ r.src \in Nodes
      BY <2>1 DEF PairInv, PairWrites, PairMoves
    <3> QED
      BY <3>1, <1>3, <1>4 DEF PairWrite
  <2>2. CASE r = new
    <3>1. epoch[w[1]] <= epoch[n] /\ epoch[n] \in Nat /\ epoch[w[1]] \in Nat
      BY <1>1, <1>2, PairNotBehind DEF PairMoves
    <3>2. PairWord(w[1], <<n, w[2]>>)
      BY <1>1 DEF PairInv, PairWords
    <3>3. buf[w[1]][<<n, w[2]>>] < epoch[n] /\ buf[w[1]][<<n, w[2]>>] \in Nat
      BY <1>1, <1>2, <3>1, <3>2 DEF PairWord, PairMoves
    <3>4. epoch[n] = epoch[w[1]] => <<n, w[2]>> \notin got[w[1]]
      BY <3>1, <3>2, <3>3 DEF PairWord
    <3>5. <<w[1], w[2]>> \in sent'[n]
      BY <1>1, <1>4
    <3> QED
      BY <2>2, <1>2, <1>3, <3>1, <3>3, <3>4, <3>5 DEF PairWrite
  <2> QED
    BY <1>5, <2>1, <2>2
<1>9. ASSUME NEW k \in Nodes, NEW v \in Words(k) PROVE PairWord(k, v)'
  <2>1. PairWord(k, v) /\ v[1] \in Nodes
    BY WordShape DEF PairInv, PairWords
  <2> QED
    BY <2>1, <1>3, <1>4 DEF PairWord
<1> QED
  BY <1>3, <1>6, <1>7, <1>8, <1>9 DEF PairInv, PairNodes, PairWrites, PairWords

\* Pair: a read of an arrived word.
LEMMA PairConsume ==
    ASSUME TypeInv, FlagShowsData, PairUse(cfg), PairInv, PairMoves,
           NEW n \in Nodes, NEW w \in Words(n), ConsumeDoes(n, w)
    PROVE  PairInv' /\ buf[n][w] = epoch[n]
<1>1. /\ Nodes' = Nodes /\ (\A k : Words(k)' = Words(k))
      /\ epoch' = epoch /\ at' = at /\ sent' = sent /\ cleared' = cleared /\ rung' = rung
      /\ wire' = wire /\ bells' = bells /\ buf' = buf /\ flag' = flag /\ slot' = slot
  BY DEF ConsumeDoes, PairMoves
<1>2. /\ at[n] = 3 /\ w \notin got[n] /\ 0 \notin cleared[n] /\ ~rung[n]
  BY PairAt DEF ConsumeDoes, PairInv, PairNodes, PairNode
<1>3. PairWord(n, w) /\ w[1] \in Nodes /\ w[1] # n
  BY WordShape DEF PairInv, PairWords
<1>4. flag[n][w] # 0
  BY DEF ConsumeDoes, Arrived, PairMoves
<1>5. epoch[w[1]] <= epoch[n]
  BY <1>2, <1>3, PairNotBehind
<1>6. buf[n][w] = epoch[n]
  BY <1>3, <1>4, <1>5 DEF PairWord, FlagShowsData, PairMoves
<1>7. \A k \in Nodes : got'[k] = IF k = n THEN got[n] \cup {w} ELSE got[k]
  BY DEF ConsumeDoes
<1>8. ASSUME NEW k \in Nodes PROVE PairNode(k)'
  <2>1. PairNode(k) /\ (0 \in cleared[k] => got'[k] = got[k])
    BY <1>2, <1>7 DEF PairInv, PairNodes
  <2> QED
    BY <1>1, <2>1 DEF PairNode
<1>9. PairSlots' /\ PairBells'
  BY <1>1 DEF PairInv, PairSlots, PairSlot, PairEpochs, PairBells, PairBell
<1>10. ASSUME NEW r \in wire PROVE PairWrite(r)'
  <2>1. PairWrite(r) /\ r.dst \in Nodes /\ r.epoch \in Nat /\ epoch[n] \in Nat
    BY DEF PairInv, PairWrites, PairMoves
  <2>2. r.dst = n /\ r.epoch = epoch[n] => <<r.src, r.tile>> # w
    BY <1>6, <2>1 DEF PairWrite
  <2> QED
    BY <1>1, <1>7, <2>1, <2>2 DEF PairWrite
<1>11. ASSUME NEW k \in Nodes, NEW v \in Words(k) PROVE PairWord(k, v)'
  <2>1. PairWord(k, v)
    BY DEF PairInv, PairWords
  <2>2. k = n /\ v = w => buf[k][v] >= epoch[k]
    BY <1>6 DEF PairMoves
  <2> QED
    BY <2>1, <2>2, <1>1, <1>7 DEF PairWord
<1> QED
  BY <1>1, <1>6, <1>8, <1>9, <1>10, <1>11 DEF PairInv, PairNodes, PairWrites, PairWords

\* Pair: the kernel clears its words.
LEMMA PairClear ==
    ASSUME TypeInv, PairUse(cfg), PairInv, PairMoves,
           NEW n \in Nodes, NEW c \in CTAs, ClearDoes(n, c)
    PROVE  /\ PairInv' /\ c = 0
           /\ \A w \in Words(n) : buf[n][w] <= epoch[n]
<1>1. /\ Nodes' = Nodes /\ (\A k : Words(k)' = Words(k))
      /\ epoch' = epoch /\ at' = at /\ sent' = sent /\ got' = got /\ rung' = rung
      /\ wire' = wire /\ bells' = bells /\ buf' = buf /\ slot' = slot
  BY DEF ClearDoes, PairMoves
<1>2. /\ c = 0 /\ at[n] = 3 /\ 0 \notin cleared[n] /\ sent[n] = Words(n) /\ got[n] = Words(n)
      /\ epoch[n] >= 2 /\ ~rung[n]
  BY PairAt, PairFacts DEF ClearDoes, PairInv, PairNodes, PairNode
<1>3. /\ \A k \in Nodes : cleared'[k] = IF k = n THEN cleared[n] \cup {0} ELSE cleared[k]
      /\ \A k \in Nodes : \A w \in Words(k) : flag'[k][w] = IF k = n THEN 0 ELSE flag[k][w]
  <2>1. ASSUME NEW k \in Nodes, NEW w \in Words(k)
        PROVE  flag'[k][w] = IF k = n THEN 0 ELSE flag[k][w]
    BY <1>2, PairFacts DEF ClearDoes
  <2>2. ASSUME NEW k \in Nodes
        PROVE  cleared'[k] = IF k = n THEN cleared[n] \cup {0} ELSE cleared[k]
    BY <1>2, PairFacts DEF ClearDoes
  <2> QED
    BY <2>1, <2>2
<1>4. ASSUME NEW w \in Words(n) PROVE buf[n][w] <= epoch[n]
  <2>1. PairWord(n, w) /\ w[1] \in Nodes /\ w[1] # n
    BY WordShape DEF PairInv, PairWords
  <2>2. epoch[w[1]] <= epoch[n]
    BY <1>2, <2>1, PairNotBehind
  <2> QED
    BY <2>1, <2>2 DEF PairWord, PairMoves
<1>5. ASSUME NEW k \in Nodes PROVE PairNode(k)'
  <2>1. PairNode(k)
    BY DEF PairInv, PairNodes
  <2> QED
    BY <1>1, <1>2, <1>3, <2>1 DEF PairNode
<1>6. PairSlots' /\ PairBells' /\ PairWrites'
  BY <1>1 DEF PairInv, PairSlots, PairSlot, PairEpochs, PairBells, PairBell, PairWrites, PairWrite
<1>7. ASSUME NEW k \in Nodes, NEW v \in Words(k) PROVE PairWord(k, v)'
  <2>1. PairWord(k, v) /\ epoch[k] # 0
    BY DEF PairInv, PairWords, PairMoves
  <2> QED
    BY <2>1, <1>1, <1>3 DEF PairWord
<1> QED
  BY <1>1, <1>2, <1>4, <1>5, <1>6, <1>7 DEF PairInv, PairNodes, PairWords

\* Pair: the notification.
LEMMA PairRing ==
    ASSUME TypeInv, PairUse(cfg), PairInv, PairMoves, NEW n \in Nodes, RingDoes(n)
    PROVE  PairInv'
<1>1. /\ Nodes' = Nodes /\ (\A k : Words(k)' = Words(k))
      /\ epoch' = epoch /\ at' = at /\ sent' = sent /\ got' = got /\ cleared' = cleared
      /\ wire' = wire /\ buf' = buf /\ flag' = flag /\ slot' = slot
  BY DEF RingDoes, PairMoves
<1>2. /\ at[n] = 3 /\ 0 \in cleared[n]
      /\ \A k \in Nodes : rung'[k] = IF k = n THEN TRUE ELSE rung[k]
  BY PairAt DEF RingDoes
<1>3. \A r \in bells' : r \in bells \/ (r.src = n /\ r.epoch = epoch[n])
  BY DEF RingDoes
<1>4. ASSUME NEW k \in Nodes PROVE PairNode(k)'
  <2>1. PairNode(k)
    BY DEF PairInv, PairNodes
  <2>2. at[k] = 2 => \A r \in wire' \cup bells' : r.src # k
    BY <1>1, <1>2, <1>3, <2>1 DEF PairNode
  <2> QED
    BY <1>1, <1>2, <2>1, <2>2 DEF PairNode
<1>5. PairSlots'
  BY <1>1, <1>2 DEF PairInv, PairSlots, PairSlot, PairEpochs
<1>6. ASSUME NEW r \in bells' PROVE PairBell(r)'
  <2>1. CASE r \in bells
    <3>1. PairBell(r) /\ r.src \in Nodes
      BY <2>1 DEF PairInv, PairBells, PairMoves
    <3> QED
      BY <3>1, <1>1, <1>2 DEF PairBell
  <2>2. CASE r.src = n /\ r.epoch = epoch[n]
    BY <2>2, <1>1, <1>2 DEF PairBell
  <2> QED
    BY <1>3, <2>1, <2>2
<1>7. PairWrites' /\ PairWords'
  BY <1>1 DEF PairInv, PairWrites, PairWrite, PairWords, PairWord
<1> QED
  BY <1>1, <1>4, <1>5, <1>6, <1>7 DEF PairInv, PairNodes, PairBells

\* Pair: a node moves on.
LEMMA PairAdvance ==
    ASSUME TypeInv, PairUse(cfg), PairInv, PairMoves, NEW n \in Nodes, EndsDoes(n) \/ PrepareDoes(n)
    PROVE  PairInv'
<1>1. /\ Nodes' = Nodes /\ (\A k : Words(k)' = Words(k))
      /\ epoch' = epoch /\ sent' = sent /\ got' = got /\ cleared' = cleared /\ rung' = rung
      /\ wire' = wire /\ bells' = bells /\ buf' = buf /\ flag' = flag /\ slot' = slot
  BY DEF EndsDoes, PrepareDoes, PairMoves
<1>2. \/ /\ at[n] = 3 /\ rung[n] /\ slot[n] >= epoch[n]
         /\ \A k \in Nodes : at'[k] = IF k = n THEN 1 ELSE at[k]
      \/ /\ at[n] = 1 /\ \A r \in wire \cup bells : r.src # n
         /\ \A k \in Nodes : at'[k] = IF k = n THEN 2 ELSE at[k]
  BY PairAt DEF EndsDoes, PrepareDoes, AdvanceDoes, PairUse, KernelReset
<1>3. ASSUME NEW k \in Nodes PROVE PairNode(k)'
  <2>1. PairNode(k)
    BY DEF PairInv, PairNodes
  <2> QED
    BY <1>1, <1>2, <2>1 DEF PairNode
<1>4. ASSUME NEW m \in Nodes, NEW k \in Nodes, m # k PROVE PairSlot(m, k)' /\ PairEpochs(m, k)'
  <2>1. PairSlot(m, k) /\ PairEpochs(m, k) /\ PairSlot(k, m)
    BY <1>4 DEF PairInv, PairSlots
  <2>2. /\ epoch[m] \in Nat /\ epoch[k] \in Nat /\ slot[m] \in Nat
    BY DEF PairMoves
  <2> QED
    BY <1>1, <1>2, <2>1, <2>2 DEF PairSlot, PairEpochs
<1>5. PairBells' /\ PairWrites' /\ PairWords'
  BY <1>1 DEF PairInv, PairBells, PairBell, PairWrites, PairWrite, PairWords, PairWord
<1> QED
  BY <1>1, <1>3, <1>4, <1>5 DEF PairInv, PairNodes, PairSlots

\* Pair: commit_epoch.
LEMMA PairCommit ==
    ASSUME TypeInv, PairUse(cfg), PairInv, PairMoves, NEW n \in Nodes, CommitDoes(n)
    PROVE  PairInv'
<1>1. /\ Nodes' = Nodes /\ (\A k : Words(k)' = Words(k))
      /\ wire' = wire /\ bells' = bells /\ buf' = buf /\ slot' = slot
  BY DEF CommitDoes, PairMoves
<1>2. /\ \A k \in Nodes : epoch'[k] = IF k = n THEN epoch[n] + 1 ELSE epoch[k]
      /\ \A k \in Nodes : at'[k] = IF k = n THEN 3 ELSE at[k]
      /\ at[n] = 2
  BY PairAt DEF CommitDoes, AdvanceDoes
<1>3. /\ \A k \in Nodes : sent'[k] = IF k = n THEN {} ELSE sent[k]
      /\ \A k \in Nodes : got'[k] = IF k = n THEN {} ELSE got[k]
      /\ \A k \in Nodes : cleared'[k] = IF k = n THEN {} ELSE cleared[k]
      /\ \A k \in Nodes : rung'[k] = IF k = n THEN FALSE ELSE rung[k]
  BY DEF CommitDoes
<1>4. \A k \in Nodes : \A w \in Words(k) : flag'[k][w] = flag[k][w]
  BY PairFacts DEF CommitDoes
<1>5. /\ \A r \in wire \cup bells : r.src # n
      /\ epoch[n] = 1 \/ (0 \in cleared[n] /\ got[n] = Words(n) /\ slot[n] >= epoch[n])
      /\ epoch[n] \in Nat \ {0}
  BY <1>2 DEF PairInv, PairNodes, PairNode, PairMoves
<1>6. ASSUME NEW k \in Nodes PROVE PairNode(k)'
  <2>1. PairNode(k)
    BY DEF PairInv, PairNodes
  <2>2. CASE k = n
    <3>1. at'[k] = 3 /\ epoch'[k] >= 2
      BY <2>2, <1>2, <1>5
    <3>2. ~rung'[k] /\ cleared'[k] = {}
      BY <2>2, <1>3
    <3> QED
      BY <3>1, <3>2 DEF PairNode
  <2>3. CASE k # n
    <3>1. /\ at'[k] = at[k] /\ epoch'[k] = epoch[k] /\ rung'[k] = rung[k]
          /\ cleared'[k] = cleared[k] /\ sent'[k] = sent[k] /\ got'[k] = got[k]
      BY <2>3, <1>2, <1>3
    <3> QED
      BY <1>1, <2>1, <3>1 DEF PairNode
  <2> QED
    BY <2>2, <2>3
<1>7. ASSUME NEW m \in Nodes, NEW k \in Nodes, m # k PROVE PairSlot(m, k)' /\ PairEpochs(m, k)'
  <2>1. PairSlot(m, k) /\ PairEpochs(m, k) /\ PairSlot(k, m)
    BY <1>7 DEF PairInv, PairSlots
  <2>2. epoch[m] \in Nat \ {0} /\ epoch[k] \in Nat \ {0} /\ slot[m] \in Nat /\ slot[k] \in Nat
    BY DEF PairMoves
  <2>3. CASE m = n
    <3>1. /\ at'[m] = 3 /\ epoch'[m] = epoch[m] + 1 /\ epoch'[k] = epoch[k] /\ rung'[k] = rung[k]
      BY <2>3, <1>2, <1>3, <1>7
    <3>2. epoch[k] >= epoch[m] /\ (epoch[m] = 1 \/ slot[m] >= epoch[m])
      BY <2>1, <2>3, <1>2, <1>5 DEF PairEpochs
    <3> QED
      BY <1>1, <2>1, <2>2, <3>1, <3>2 DEF PairSlot, PairEpochs
  <2>4. CASE k = n
    <3>1. /\ at'[m] = at[m] /\ epoch'[m] = epoch[m] /\ epoch'[k] = epoch[k] + 1
          /\ rung'[m] = rung[m]
      BY <2>4, <1>2, <1>3, <1>7
    <3> QED
      BY <1>1, <2>1, <2>2, <3>1 DEF PairSlot, PairEpochs
  <2>5. m = n \/ k = n
    BY <1>7 DEF PairMoves
  <2> QED
    BY <2>3, <2>4, <2>5
<1>8. ASSUME NEW r \in bells PROVE PairBell(r)'
  <2>1. PairBell(r) /\ r.src \in Nodes /\ r.src # n
    BY <1>5 DEF PairInv, PairBells, PairMoves
  <2>2. epoch'[r.src] = epoch[r.src] /\ rung'[r.src] = rung[r.src]
    BY <1>2, <1>3, <2>1
  <2> QED
    BY <2>1, <2>2 DEF PairBell
<1>9. ASSUME NEW r \in wire PROVE PairWrite(r)'
  <2>1. /\ PairWrite(r) /\ r.src \in Nodes /\ r.dst \in Nodes /\ r.epoch \in Nat
        /\ <<r.src, r.tile>> \in Words(r.dst) /\ r.src # n /\ epoch[r.dst] \in Nat
    BY <1>5 DEF PairInv, PairWrites, PairMoves
  <2>2. r.dst = n => r.epoch >= epoch[n] + 1
    BY <2>1, <1>5 DEF PairWrite
  <2> QED
    BY <1>1, <1>2, <1>3, <2>1, <2>2 DEF PairWrite
<1>10. ASSUME NEW k \in Nodes, NEW v \in Words(k) PROVE PairWord(k, v)'
  <2>1. PairWord(k, v) /\ v[1] \in Nodes /\ v[1] # k
    BY WordShape DEF PairInv, PairWords
  <2>2. /\ buf[k][v] \in Nat /\ flag[k][v] \in Nat /\ epoch[k] \in Nat /\ epoch[v[1]] \in Nat
    BY <2>1 DEF PairMoves
  <2>3. k = n /\ flag[k][v] # 0 => flag[k][v] >= epoch[k] + 1
    BY <2>1, <2>2, <1>5 DEF PairWord
  <2> QED
    BY <1>1, <1>2, <1>3, <1>4, <2>1, <2>2, <2>3 DEF PairWord
<1> QED
  BY <1>1, <1>6, <1>7, <1>8, <1>9, <1>10
     DEF PairInv, PairNodes, PairSlots, PairBells, PairWrites, PairWords

\* Pair: a write lands.
LEMMA PairLand ==
    ASSUME TypeInv, PairUse(cfg), PairInv, PairMoves, NEW q \in wire, LandDoes(q)
    PROVE  PairInv'
<1>1. /\ Nodes' = Nodes /\ (\A k : Words(k)' = Words(k))
      /\ epoch' = epoch /\ at' = at /\ sent' = sent /\ got' = got /\ cleared' = cleared /\ rung' = rung
      /\ bells' = bells /\ slot' = slot /\ wire' = wire \ {q}
  BY DEF LandDoes, PairMoves
<1>2. /\ q.src \in Nodes /\ q.dst \in Nodes /\ q.src # q.dst /\ q.epoch \in Nat
      /\ <<q.src, q.tile>> \in Words(q.dst) /\ PairWrite(q)
  BY DEF LandDoes, PairInv, PairWrites
<1>3. PairNodes' /\ PairSlots' /\ PairBells'
  BY <1>1 DEF PairInv, PairNodes, PairNode, PairSlots, PairSlot, PairEpochs, PairBells, PairBell
<1>4. ASSUME NEW r \in wire, r # q PROVE PairWrite(r)'
  <2>1. PairWrite(r) /\ r.dst \in Nodes /\ <<r.src, r.tile>> \in Words(r.dst)
    BY DEF PairInv, PairWrites, PairMoves
  <2>2. ~(r.dst = q.dst /\ <<r.src, r.tile>> = <<q.src, q.tile>>)
    <3>1. r.epoch = epoch[r.src] /\ q.epoch = epoch[q.src]
      BY <1>2, <2>1 DEF PairWrite
    <3>2. /\ r = [src |-> r.src, dst |-> r.dst, tile |-> r.tile, epoch |-> r.epoch]
          /\ q = [src |-> q.src, dst |-> q.dst, tile |-> q.tile, epoch |-> q.epoch]
      BY DEF TypeInv
    <3> QED
      BY <3>1, <3>2, <1>4
  <2>3. buf'[r.dst][<<r.src, r.tile>>] = buf[r.dst][<<r.src, r.tile>>]
    BY <2>1, <2>2 DEF LandDoes
  <2> QED
    BY <1>1, <2>1, <2>3 DEF PairWrite
<1>5. ASSUME NEW k \in Nodes, NEW v \in Words(k) PROVE PairWord(k, v)'
  <2>1. PairWord(k, v) /\ v[1] \in Nodes
    BY WordShape DEF PairInv, PairWords
  <2>2. CASE k = q.dst /\ v = <<q.src, q.tile>>
    <3>1. flag'[k][v] = q.epoch /\ buf'[k][v] = q.epoch /\ v[1] = q.src /\ v[2] = q.tile
      BY <2>2 DEF LandDoes
    <3>2. 0 \in cleared[k] => v \in got[k]
      BY DEF PairInv, PairNodes, PairNode
    <3> QED
      BY <1>1, <1>2, <2>2, <3>1, <3>2 DEF PairWord, PairWrite
  <2>3. CASE ~(k = q.dst /\ v = <<q.src, q.tile>>)
    <3>1. flag'[k][v] = flag[k][v] /\ buf'[k][v] = buf[k][v]
      BY <2>3 DEF LandDoes
    <3> QED
      BY <1>1, <2>1, <3>1 DEF PairWord
  <2> QED
    BY <2>2, <2>3
<1> QED
  BY <1>1, <1>3, <1>4, <1>5 DEF PairInv, PairWrites, PairWords

\* Pair: a notification lands.
LEMMA PairLandBell ==
    ASSUME TypeInv, PairUse(cfg), PairInv, PairMoves, NEW q \in bells, BellDoes(q)
    PROVE  PairInv'
<1>1. /\ Nodes' = Nodes /\ (\A k : Words(k)' = Words(k))
      /\ epoch' = epoch /\ at' = at /\ sent' = sent /\ got' = got /\ cleared' = cleared /\ rung' = rung
      /\ wire' = wire /\ buf' = buf /\ flag' = flag /\ bells' = bells \ {q}
      /\ \A k \in Nodes : slot'[k] = IF k = q.dst THEN q.epoch ELSE slot[k]
  BY DEF BellDoes, PairMoves
<1>2. /\ q.src \in Nodes /\ q.dst \in Nodes /\ q.src # q.dst /\ q.epoch \in Nat /\ PairBell(q)
  BY DEF PairInv, PairBells, PairMoves
<1>3. PairBells' /\ PairWrites' /\ PairWords'
  BY <1>1 DEF PairInv, PairBells, PairBell, PairWrites, PairWrite, PairWords, PairWord
<1>4. ASSUME NEW k \in Nodes PROVE PairNode(k)'
  <2>1. PairNode(k) /\ (k = q.dst => PairEpochs(k, q.src))
    BY <1>2 DEF PairInv, PairNodes, PairSlots
  <2>2. k = q.dst /\ at[k] # 3 => q.epoch >= epoch[k]
    BY <2>1, <1>2 DEF PairEpochs, PairBell
  <2> QED
    BY <1>1, <2>1, <2>2 DEF PairNode
<1>5. ASSUME NEW m \in Nodes, NEW k \in Nodes, m # k PROVE PairSlot(m, k)' /\ PairEpochs(m, k)'
  <2>1. PairSlot(m, k) /\ PairEpochs(m, k)
    BY <1>5 DEF PairInv, PairSlots
  <2>2. k = q.dst => m = q.src
    BY <1>2, <1>5 DEF PairMoves
  <2>3. epoch[m] \in Nat
    BY DEF PairMoves
  <2> QED
    BY <1>1, <1>2, <2>1, <2>2, <2>3 DEF PairSlot, PairEpochs, PairBell
<1> QED
  BY <1>1, <1>3, <1>4, <1>5 DEF PairInv, PairNodes, PairSlots

\* Pair: every step keeps the invariant.
LEMMA PairStep ==
    ASSUME TypeInv, FlagShowsData, PairUse(cfg), PairInv, [Next]_vars
    PROVE  PairInv'
<1>0. PairMoves
  BY PairTypes
<1>1. ASSUME NEW n \in Nodes, NEW w \in Words(n), SendDoes(n, w) \/ ConsumeDoes(n, w) PROVE PairInv'
  BY <1>0, <1>1, PairSend, PairConsume
<1>2. ASSUME NEW n \in Nodes, NEW k \in CTAs, ClearDoes(n, k) PROVE PairInv'
  BY <1>0, <1>2, PairClear
<1>3. ASSUME NEW n \in Nodes, RingDoes(n) \/ EndsDoes(n) \/ PrepareDoes(n) \/ CommitDoes(n)
      PROVE  PairInv'
  BY <1>0, <1>3, PairRing, PairAdvance, PairCommit
<1>4. CASE BarrierDoes
  BY <1>4, PairAt, PairFacts DEF BarrierDoes
<1>5. ASSUME NEW r \in wire, LandDoes(r) PROVE PairInv'
  BY <1>0, <1>5, PairLand
<1>6. ASSUME NEW r \in bells, BellDoes(r) PROVE PairInv'
  BY <1>0, <1>6, PairLandBell
<1>7. CASE UNCHANGED <<cfg, epoch, at, sent, got, read, cleared, rung, wire, bells, buf, flag, slot>>
  <2>1. Nodes' = Nodes /\ \A n : Words(n)' = Words(n)
    BY <1>0 DEF PairMoves
  <2>2. PairNodes' /\ PairSlots' /\ PairBells'
    BY <1>7, <2>1
       DEF PairInv, PairNodes, PairNode, PairSlots, PairSlot, PairEpochs, PairBells, PairBell
  <2>3. PairWrites' /\ PairWords'
    BY <1>7, <2>1 DEF PairInv, PairWrites, PairWrite, PairWords, PairWord
  <2> QED
    BY <2>2, <2>3 DEF PairInv
<1> QED
  BY <1>1, <1>2, <1>3, <1>4, <1>5, <1>6, <1>7, Effects DEF StepDoes

-----------------------------------------------------------------------------
\* What a waiting CTA takes for an arrival is one of its own epoch.
LEMMA ArrivalIsOwn ==
    ASSUME IInv, SafeUse, [Next]_vars, NEW n \in Nodes, NEW w \in Words(n), ConsumeDoes(n, w)
    PROVE  buf[n][w] = epoch[n]
<1>1. flag[n][w] \in {0, buf[n][w]} /\ epoch[n] # 0 /\ Arrived(n, w)
  BY DEF IInv, FlagShowsData, TypeInv, ConsumeDoes
<1>2. CASE FlatUse(cfg)
  BY <1>1, <1>2 DEF FlatUse, Arrived, QueueLayout
<1>3. CASE SyncedUse(cfg)
  <2>1. SyncedWord(n, w) /\ at[n] = 4
    BY <1>3, SyncedAt DEF IInv, SyncedInv, SyncedWords, ConsumeDoes
  <2> QED
    BY <1>1, <2>1 DEF SyncedWord, Arrived
<1>4. CASE PairUse(cfg)
  BY <1>4, PairConsume, PairTypes DEF IInv
<1> QED
  BY <1>2, <1>3, <1>4 DEF SafeUse, IInv, TypeInv

\* A kernel that reads an arrived word reads the data of its own epoch.
LEMMA OwnStep ==
    ASSUME IInv, SafeUse, [Next]_vars
    PROVE  ReadsOwnEpoch'
<1> USE DEF ReadsOwnEpoch
<1>0. /\ TypeInv /\ ReadsOwnEpoch /\ Nodes' = Nodes
      /\ \A n \in Nodes : got[n] \subseteq Words(n)
  BY SameCfg DEF IInv, TypeInv
<1>1. ASSUME NEW n \in Nodes, NEW w \in Words(n), ConsumeDoes(n, w) PROVE ReadsOwnEpoch'
  <2>1. buf[n][w] = epoch[n]
    BY <1>1, ArrivalIsOwn
  <2>2. ASSUME NEW m \in Nodes, NEW v \in got'[m] PROVE read'[m][v] = epoch'[m]
    <3>1. epoch' = epoch /\ (v \in got[m] \/ (m = n /\ v = w)) /\ v \in Words(m)
      BY <1>0, <1>1 DEF ConsumeDoes
    <3>2. read'[m][v] = IF m = n /\ v = w THEN buf[n][w] ELSE read[m][v]
      BY <1>1, <3>1 DEF ConsumeDoes
    <3> QED
      BY <1>0, <2>1, <3>1, <3>2
  <2> QED
    BY <1>0, <2>2
<1>2. ASSUME NEW n \in Nodes, CommitDoes(n) PROVE ReadsOwnEpoch'
  BY <1>0, <1>2 DEF CommitDoes
<1>3. CASE UNCHANGED <<epoch, got, read>>
  BY <1>0, <1>3
<1> QED
  BY <1>0, <1>1, <1>2, <1>3, Effects
     DEF StepDoes, SendDoes, ClearDoes, RingDoes, EndsDoes, PrepareDoes, BarrierDoes, LandDoes,
         BellDoes

\* Under the first two uses nothing is lost as it stands; under the third each step
\* has to be looked at.
LEMMA KeptWhenFlat == ASSUME FlatInv PROVE NoArrivalLost
  BY DEF FlatInv, NoArrivalLost

\* Synced use: what has arrived and is awaited is still there.
LEMMA KeptWhenSynced ==
    ASSUME TypeInv, SyncedUse(cfg), SyncedInv
    PROVE  NoArrivalLost
<1> SUFFICES ASSUME NEW n \in Nodes, NEW w \in Words(n),
                    buf[n][w] > epoch[n] \/ (buf[n][w] = epoch[n] /\ w \notin got[n])
             PROVE  flag[n][w] = buf[n][w]
  BY DEF NoArrivalLost
<1>1. SyncedWord(n, w) /\ at[n] \in {1, 2, 3, 4, 5}
  BY SyncedAt DEF SyncedInv, SyncedWords
<1>2. buf[n][w] \in Nat /\ epoch[n] \in Nat
  BY DEF TypeInv
<1> QED
  BY <1>1, <1>2 DEF SyncedWord

\* Pair: a step never loses an arrival.
LEMMA KeptWhenPair ==
    ASSUME TypeInv, PairUse(cfg), PairInv, NoArrivalLost, [Next]_vars
    PROVE  NoArrivalLost'
<1>0. PairMoves
  BY PairTypes
<1>t. Nodes' = Nodes /\ \A n : Words(n)' = Words(n)
  BY <1>0 DEF PairMoves
<1> DEFINE due(n, w) == buf[n][w] > epoch[n] \/ (buf[n][w] = epoch[n] /\ w \notin got[n])
<1> SUFFICES ASSUME NEW n \in Nodes, NEW w \in Words(n), due(n, w)'
             PROVE  flag'[n][w] = buf'[n][w]
  BY <1>t DEF NoArrivalLost
<1>1. due(n, w) => flag[n][w] = buf[n][w]
  BY DEF NoArrivalLost
<1>2. buf[n][w] \in Nat /\ epoch[n] \in Nat
  BY DEF TypeInv
<1> HIDE DEF due
<1>3. ASSUME NEW k \in Nodes, NEW v \in Words(k), ConsumeDoes(k, v) PROVE flag'[n][w] = buf'[n][w]
  BY <1>1, <1>3 DEF due, ConsumeDoes
<1>4. ASSUME NEW k \in Nodes, NEW c \in CTAs, ClearDoes(k, c) PROVE flag'[n][w] = buf'[n][w]
  <2>1. k = n => buf[n][w] <= epoch[n] /\ w \in got[n]
    BY <1>0, <1>4, PairClear DEF ClearDoes
  <2>2. epoch' = epoch /\ got' = got /\ buf' = buf /\ (k # n => flag'[n][w] = flag[n][w])
    BY <1>4 DEF ClearDoes
  <2> QED
    BY <1>1, <1>2, <2>1, <2>2 DEF due
<1>5. ASSUME NEW k \in Nodes, CommitDoes(k) PROVE flag'[n][w] = buf'[n][w]
  <2>1. /\ flag'[n][w] = flag[n][w] /\ buf' = buf
        /\ epoch'[n] = IF n = k THEN epoch[k] + 1 ELSE epoch[n]
        /\ got'[n] = IF n = k THEN {} ELSE got[n]
    BY <1>5, PairFacts DEF CommitDoes
  <2> QED
    BY <1>1, <1>2, <2>1 DEF due
<1>6. ASSUME NEW r \in wire, LandDoes(r) PROVE flag'[n][w] = buf'[n][w]
  <2>1. CASE n = r.dst /\ w = <<r.src, r.tile>>
    BY <1>6, <2>1 DEF LandDoes
  <2>2. CASE ~(n = r.dst /\ w = <<r.src, r.tile>>)
    <3>1. /\ flag'[n][w] = flag[n][w] /\ buf'[n][w] = buf[n][w]
          /\ epoch' = epoch /\ got' = got
      BY <1>6, <2>2 DEF LandDoes
    <3> QED
      BY <1>1, <3>1 DEF due
  <2> QED
    BY <2>1, <2>2
<1>7. CASE UNCHANGED <<epoch, got, buf, flag>>
  BY <1>1, <1>7 DEF due
<1> QED
  BY <1>3, <1>4, <1>5, <1>6, <1>7, Effects
     DEF StepDoes, SendDoes, RingDoes, EndsDoes, PrepareDoes, BarrierDoes, BellDoes

-----------------------------------------------------------------------------
\* The invariant holds at first.
LEMMA BoundaryInit == Init => IInv
<1> SUFFICES ASSUME Init PROVE IInv
  OBVIOUS
<1>1. TypeInv
  BY InitType
<1>2. /\ epoch = [n \in Nodes |-> 1] /\ at = [n \in Nodes |-> 1] /\ wire = {} /\ bells = {}
      /\ sent = [n \in Nodes |-> {}] /\ got = [n \in Nodes |-> {}] /\ slot = [n \in Nodes |-> 0]
      /\ cleared = [n \in Nodes |-> {}] /\ rung = [n \in Nodes |-> FALSE]
  BY DEF Init
<1>3. \A n \in Nodes : \A w \in Words(n) : buf[n][w] = 0 /\ flag[n][w] = 0 /\ w[1] \in Nodes
  BY WordShape DEF Init
<1>4. FlagShowsData /\ ReadsOwnEpoch /\ NoArrivalLost /\ FlatInv
  BY <1>2, <1>3 DEF FlagShowsData, ReadsOwnEpoch, NoArrivalLost, FlatInv
<1>5. SyncedInv
  BY <1>2, <1>3 DEF SyncedInv, LockStep, SyncedWire, SyncedWords, SyncedWord
<1>6. PairInv
  <2>1. PairNodes /\ PairSlots
    BY <1>2 DEF PairNodes, PairNode, PairSlots, PairSlot, PairEpochs
  <2>2. PairBells /\ PairWrites
    BY <1>2 DEF PairBells, PairWrites
  <2>3. PairWords
    BY <1>2, <1>3 DEF PairWords, PairWord
  <2> QED
    BY <2>1, <2>2, <2>3 DEF PairInv
<1> QED
  BY <1>1, <1>4, <1>5, <1>6 DEF IInv

\* Every step keeps the invariant, in each of the three uses.
LEMMA BoundaryStep ==
    ASSUME SafeUse, IInv, [Next]_vars
    PROVE  IInv'
<1>0. TypeInv /\ FlagShowsData /\ NoArrivalLost /\ cfg' = cfg
  BY SameCfg DEF IInv
<1>1. TypeInv' /\ FlagShowsData' /\ ReadsOwnEpoch'
  BY <1>0, TypeStep, FlagStep, OwnStep
<1>2. FlatUse(cfg) => FlatInv'
  BY <1>0, FlatStep DEF IInv
<1>3. SyncedUse(cfg) => SyncedInv'
  BY <1>0, LockStepStep, SyncedWireStep, SyncedWordsStep DEF IInv, SyncedInv
<1>4. PairUse(cfg) => PairInv'
  BY <1>0, PairStep DEF IInv
<1>5. FlatUse(cfg)' <=> FlatUse(cfg)
  BY <1>0
<1>6. SyncedUse(cfg)' <=> SyncedUse(cfg)
  BY <1>0
<1>7. PairUse(cfg)' <=> PairUse(cfg)
  BY <1>0
<1>8. NoArrivalLost'
  <2>1. FlatUse(cfg) \/ SyncedUse(cfg) \/ PairUse(cfg)
    BY <1>0 DEF SafeUse, TypeInv
  <2>2. FlatInv' => NoArrivalLost'
    BY KeptWhenFlat, PTL
  <2>3. TypeInv' /\ SyncedUse(cfg)' /\ SyncedInv' => NoArrivalLost'
    BY KeptWhenSynced, PTL
  <2>4. PairUse(cfg) => NoArrivalLost'
    BY <1>0, KeptWhenPair DEF IInv
  <2> QED
    BY <2>1, <2>2, <2>3, <2>4, <1>1, <1>2, <1>3, <1>6
<1> QED
  BY <1>1, <1>2, <1>3, <1>4, <1>5, <1>6, <1>7, <1>8 DEF IInv

\* Under every safe use, for all epochs, tiles and, but for gemm_ar, all sets of nodes:
\* a kernel reads data of its own epoch only.
THEOREM KernelsReadOwnEpoch ==
    ASSUME SafeUse
    PROVE  Spec => []ReadsOwnEpoch
<1>1. IInv /\ [Next]_vars => IInv'
  BY BoundaryStep
<1>2. IInv => ReadsOwnEpoch
  BY DEF IInv
<1> QED
  BY <1>1, <1>2, BoundaryInit, PTL DEF Spec

\* Under every safe use no reset, of commit_epoch or of the kernel, wipes out an arrival.
THEOREM ArrivalsAreKept ==
    ASSUME SafeUse
    PROVE  Spec => []NoArrivalLost
<1>1. IInv /\ [Next]_vars => IInv'
  BY BoundaryStep
<1>2. IInv => NoArrivalLost
  BY DEF IInv
<1> QED
  BY <1>1, <1>2, BoundaryInit, PTL DEF Spec
=============================================================================
