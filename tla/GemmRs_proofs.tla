---------------------------- MODULE GemmRs_proofs ----------------------------
(***************************************************************************)
(* The fused gemm_rs kernel, for every shape, split of CTAs and mode: a    *)
(* chunk leaves once and after all of its tiles are counted, what the NIC  *)
(* reads is this GPU's own sum, and a chunk of the output is written once  *)
(* with every peer in it once.                                             *)
(***************************************************************************)
EXTENDS GemmRs, TLAPS, FiniteSetTheorems, FunctionTheorems

-----------------------------------------------------------------------------
\* Types.

Ctas == Blocks \cup OthersCompute
Gpus == 0..(cfg.devices - 1)
Senders == 0..(cfg.num_send - 1)
Halves == {"store", "count"}
Works == Peers \X Chunks
Places == {"compute", "send", "push", "progress", "drain", "publish", "enqueue_accum",
           "claim", "try", "enqueue_ready", "pop", "pop_wait", "check", "accum_pop",
           "accum_wait", "accum_lock", "accum_store", "accum_count", "wait", "reduce", "exit"}
Word(w) == pack_arrival_work(w[1] * SinglePeerTiles + FirstTile(w[2]), TilesOf(w[2]))

CtaTypes ==
    /\ pc \in [Ctas -> Places]
    /\ task \in [Ctas -> Nat] /\ did \in [Ctas -> SUBSET Halves]
    /\ chunk \in [Ctas -> Nat] /\ peer \in [Ctas -> Nat] /\ slot \in [Ctas -> Nat]
    /\ marks \in [Ctas -> SUBSET Works] /\ copy \in [Ctas -> [Peers -> Nat]]

CountTypes ==
    /\ comp_gemm_done \in [Gpus -> [Chunks -> Nat]]
    /\ ready_count \in [Chunks -> Nat] /\ ready_bits \in [Senders -> SUBSET Nat]
    /\ sender_done \in SUBSET Chunks /\ pushed \in SUBSET Works
    /\ sent \in SUBSET [to : Peers, chunk : Chunks, own : BOOLEAN, whole : BOOLEAN]

ArrivalTypes ==
    /\ arrived \in SUBSET Works /\ queue \in [Queues -> Seq([tile : Nat, run : Nat])]
    /\ arrival_queue_head \in [Queues -> Nat]
    /\ peer_mask \in [Chunks -> SUBSET Peers] /\ remote_arrived_flag \in [Chunks -> {0, 1, 2}]

ReduceTypes ==
    /\ next_reduce \in Nat /\ scan \in Nat
    /\ ready_slots \in [0..(TotalChunks - 1) -> Nat] /\ ready_head \in Nat /\ ready_tail \in Nat
    /\ accum_slots \in [0..(TotalChunks * NumPeers - 1) -> {<<>>} \cup Works]
    /\ accum_head \in Nat /\ accum_tail \in Nat
    /\ accum \in [Chunks -> [Peers -> Nat]] /\ accum_lock \in SUBSET Chunks
    /\ accum_done \in [Chunks -> Nat] /\ chunk_reduce_done \in SUBSET Chunks
    /\ output \in [Chunks -> Seq([Peers -> Nat])]

TypeOK == cfg \in Configs /\ CtaTypes /\ CountTypes /\ ArrivalTypes /\ ReduceTypes

-----------------------------------------------------------------------------
\* The inductive invariant.

\* Which CTAs and which modes a place is for.
PlaceInv ==
    \A c \in Ctas :
        /\ pc[c] = "compute" => IsCompute(c)
        /\ c[1] # Dev => pc[c] \in {"compute", "exit"}
        /\ pc[c] \in {"send", "push"} => IsSend(c)
        /\ pc[c] \in {"drain", "publish"} => Incremental \/ Transport
        /\ pc[c] = "progress" => Transport
        /\ pc[c] \in {"drain", "publish", "enqueue_accum", "try", "enqueue_ready", "pop", "pop_wait", "check"}
             => ReadyQueue
        /\ pc[c] = "try" => ~Incremental
        /\ pc[c] \in {"enqueue_accum", "accum_pop", "accum_wait", "accum_lock", "accum_store",
                      "accum_count"} => Incremental

\* The tasks of a GPU that add to a chunk here, and the CTA that each belongs to.
Tasks(d, ch) == {t \in 0..(NumBlocksOfWork - 1) : SliceOf(t, d) = Dev /\ ChunkOf(t) = ch}
CtaOf(d, t) == IF d = Dev THEN <<d, t % NumComp>> ELSE <<d, 0>>
HasCounted(c, t) == t < task[c] \/ (t = task[c] /\ "count" \in did[c])
CountedTasks(d, ch) == {t \in Tasks(d, ch) : HasCounted(CtaOf(d, t), t)}
FullGpus(ch) == {d \in Gpus : comp_gemm_done[d][ch] = TilesOf(ch)}

TaskInv ==
    \A c \in Ctas : IsCompute(c) =>
        \/ task[c] = NumBlocksOfWork
        \/ /\ task[c] < NumBlocksOfWork /\ SliceOf(task[c], c[1]) = Dev
           /\ CtaOf(c[1], task[c]) = c
CountInv ==
    /\ \A d \in Gpus : \A ch \in Chunks :
         comp_gemm_done[d][ch] = Cardinality(CountedTasks(d, ch))
    /\ \A ch \in Chunks : ready_count[ch] = Cardinality(FullGpus(ch))

\* A chunk on its way out: signalled, taken, pushed and read, each once.
Decode(s, idx) ==
    (s + (idx \div ChunksPerRow) * cfg.num_send) * ChunksPerRow + (idx % ChunksPerRow)
Full(ch) == ready_count[ch] = cfg.devices
WasSent(w) == \E x \in sent : x.to = w[1] /\ x.chunk = w[2]

BitInv ==
    \A s \in Senders : \A idx \in ready_bits[s] :
        \E ch \in Chunks : /\ SenderOf(ch) = s /\ QueueIdx(ch) = idx
                           /\ Full(ch) /\ ch \notin sender_done
PushInv ==
    \A c \in Ctas : pc[c] = "push" =>
        /\ chunk[c] \in sender_done /\ SenderOf(chunk[c]) = SendId(c)
        /\ \A p \in Peers : <<p, chunk[c]>> \notin pushed /\ ~WasSent(<<p, chunk[c]>>)
SentInv ==
    /\ \A ch \in sender_done : Full(ch)
    /\ \A w \in pushed : w[2] \in sender_done /\ ~WasSent(w)
    /\ \A x \in sent : x.chunk \in sender_done
    /\ \A x, y \in sent : x.to = y.to /\ x.chunk = y.chunk => x = y

\* What is added to is not sent, or not at all.
OwnInv ==
    /\ \A w \in pushed : w[1] \in Receivers(w[2])
    /\ \A c \in Ctas : pc[c] \in {"accum_lock", "accum_store"} => Owns(chunk[c])
    /\ ~Incremental => \A ch \in Chunks : \A p \in Peers : accum[ch][p] = 0
    /\ \A ch \in Chunks : ~Owns(ch) => \A p \in Peers : accum[ch][p] = 0
    /\ SentUnmodified

\* What the words of a queue, the masks and the flags say has landed.
AllArrived(ch) == \A p \in Peers : <<p, ch>> \in arrived
ArrivalInv ==
    /\ \A q \in Queues : \A i \in DOMAIN queue[q] : \E w \in arrived : queue[q][i] = Word(w)
    /\ \A c \in Ctas : marks[c] \subseteq arrived
    /\ \A ch \in Chunks : \A p \in peer_mask[ch] : <<p, ch>> \in arrived
FlagInv ==
    \A ch \in Chunks :
        /\ remote_arrived_flag[ch] # 0 => AllArrived(ch)
        /\ Transport /\ ~Incremental /\ remote_arrived_flag[ch] # 0
             => Cardinality(peer_mask[ch]) >= NumPeers

\* The ready queue: a chunk is claimed, then in one place: with the CTA that has its
\* slot, in the slot, with the CTA that popped the slot, or taken.
Claimed(ch) == IF Incremental THEN ch \in chunk_reduce_done ELSE remote_arrived_flag[ch] = 2
Popping(s) == \E c \in Ctas : pc[c] = "pop_wait" /\ slot[c] = s
Taken(ch) ==
    IF ReadyQueue THEN \E s \in 0..(TotalChunks - 1) : /\ s < ready_head /\ ~Popping(s)
                                                       /\ ready_slots[s] = ch + 1
    ELSE ch < next_reduce
Holds(c) == pc[c] \in {"wait", "reduce"}

ReadyTailInv ==
    /\ ready_head <= ready_tail
    /\ ReadyQueue => ready_tail = Cardinality({ch \in Chunks : Claimed(ch)})
ReadyEnqInv ==
    \A c \in Ctas : pc[c] = "enqueue_ready" =>
        /\ chunk[c] \in Chunks /\ Claimed(chunk[c])
        /\ slot[c] < ready_tail /\ ready_slots[slot[c]] = 0
        /\ \A s \in 0..(TotalChunks - 1) : ready_slots[s] # chunk[c] + 1
        /\ \A d \in Ctas : pc[d] = "enqueue_ready" /\ d # c =>
             slot[d] # slot[c] /\ chunk[d] # chunk[c]
ReadySlotInv ==
    /\ \A s \in 0..(TotalChunks - 1) : ready_slots[s] # 0 =>
         s < ready_tail /\ ready_slots[s] - 1 \in Chunks /\ Claimed(ready_slots[s] - 1)
    /\ \A s, t \in 0..(TotalChunks - 1) :
         ready_slots[s] # 0 /\ ready_slots[s] = ready_slots[t] => s = t
ReadyPopInv ==
    \A c \in Ctas : pc[c] = "pop_wait" =>
        /\ slot[c] < ready_head
        /\ \A d \in Ctas : pc[d] = "pop_wait" /\ d # c => slot[d] # slot[c]
HoldInv ==
    /\ \A c \in Ctas : Holds(c) =>
         /\ chunk[c] \in Chunks /\ Taken(chunk[c]) /\ output[chunk[c]] = <<>>
         /\ \A d \in Ctas : Holds(d) /\ d # c => chunk[d] # chunk[c]
    /\ \A ch \in Chunks : output[ch] # <<>> => Taken(ch)

\* The queue of peers to be added, the same way.
AccumPopping(s) == \E c \in Ctas : pc[c] = "accum_wait" /\ slot[c] = s
AccumTaken(w) == \E s \in 0..(TotalChunks * NumPeers - 1) :
                    s < accum_head /\ ~AccumPopping(s) /\ accum_slots[s] = w
Masked(w) == w[1] \in peer_mask[w[2]]
Work(c) == <<peer[c], chunk[c]>>
Adds(c) == pc[c] \in {"accum_lock", "accum_store", "accum_count"}

AccumTailInv ==
    /\ accum_head <= accum_tail
    /\ Incremental => accum_tail = Cardinality({w \in Works : Masked(w)})
AccumEnqInv ==
    \A c \in Ctas : pc[c] = "enqueue_accum" =>
        /\ Work(c) \in Works /\ Masked(Work(c))
        /\ slot[c] < accum_tail /\ accum_slots[slot[c]] = <<>>
        /\ \A s \in 0..(TotalChunks * NumPeers - 1) : accum_slots[s] # Work(c)
        /\ \A d \in Ctas : pc[d] = "enqueue_accum" /\ d # c =>
             slot[d] # slot[c] /\ Work(d) # Work(c)
AccumSlotInv ==
    /\ \A s \in 0..(TotalChunks * NumPeers - 1) : accum_slots[s] # <<>> =>
         s < accum_tail /\ Masked(accum_slots[s])
    /\ \A s, t \in 0..(TotalChunks * NumPeers - 1) :
         accum_slots[s] # <<>> /\ accum_slots[s] = accum_slots[t] => s = t
AccumPopInv ==
    \A c \in Ctas : pc[c] = "accum_wait" =>
        /\ slot[c] < accum_head
        /\ \A d \in Ctas : pc[d] = "accum_wait" /\ d # c => slot[d] # slot[c]
AccumHoldInv ==
    /\ \A c \in Ctas : Adds(c) =>
         /\ Work(c) \in Works /\ AccumTaken(Work(c))
         /\ accum[chunk[c]][peer[c]] = IF pc[c] = "accum_count" THEN 1 ELSE 0
         /\ \A d \in Ctas : Adds(d) /\ d # c => Work(d) # Work(c)
    /\ \A ch \in Chunks : \A p \in Peers :
         accum[ch][p] # 0 => accum[ch][p] = 1 /\ AccumTaken(<<p, ch>>)

\* Under its lock a chunk is what the CTA has read of it.
LockInv ==
    \A c \in Ctas : pc[c] = "accum_store" =>
        /\ chunk[c] \in accum_lock /\ copy[c] = accum[chunk[c]]
        /\ \A d \in Ctas : pc[d] = "accum_store" /\ d # c => chunk[d] # chunk[c]

\* The count of a chunk is that of the peers added to it, the last one excepted that a
\* CTA has still to count.
CountedPeers(ch) ==
    {p \in Peers : /\ accum[ch][p] = 1
                   /\ \A c \in Ctas : pc[c] = "accum_count" => Work(c) # <<p, ch>>}
DoneInv ==
    \A ch \in Chunks :
        /\ accum_done[ch] = Cardinality(CountedPeers(ch))
        /\ ch \in chunk_reduce_done <=> accum_done[ch] = NumPeers

OutputInv ==
    /\ \A c \in Ctas : pc[c] = "reduce" =>
         IF Incremental THEN chunk[c] \in chunk_reduce_done ELSE AllArrived(chunk[c])
    /\ ReducedOnce

SendInv == BitInv /\ PushInv /\ SentInv
ReadyInv == ReadyTailInv /\ ReadyEnqInv /\ ReadySlotInv /\ ReadyPopInv
AccumInv == AccumTailInv /\ AccumEnqInv /\ AccumSlotInv /\ AccumPopInv
IInv == /\ TypeOK /\ PlaceInv /\ TaskInv /\ CountInv /\ SendInv /\ OwnInv
        /\ ArrivalInv /\ FlagInv /\ ReadyInv /\ HoldInv
        /\ AccumInv /\ AccumHoldInv /\ LockInv /\ DoneInv /\ OutputInv

-----------------------------------------------------------------------------
\* Numbers.

\* Every non-empty set of naturals has a least element, which is its Min.
LEMMA MinIsLeast ==
    ASSUME NEW T \in SUBSET Nat, T # {}
    PROVE  Min(T) \in T /\ \A m \in T : Min(T) <= m
<1>1. PICK n \in T : \A m \in T : ~(<<m, n>> \in OpToRel(<, Nat))
  BY NatLessThanWellFounded, WFMin
<1>2. \A m \in T : ~(m < n)
  BY <1>1 DEF OpToRel
<1>3. \E x \in T : \A m \in T : x <= m
  BY <1>2
<1> QED
  BY <1>3 DEF Min

\* The greater and the smaller of two numbers.
LEMMA MaxMin ==
    ASSUME NEW a \in Int, NEW b \in Int
    PROVE  /\ Max({a, b}) = IF a >= b THEN a ELSE b
           /\ Min({a, b}) = IF a <= b THEN a ELSE b
<1>1. \E x \in {a, b} : \A y \in {a, b} : x >= y
  OBVIOUS
<1>2. Max({a, b}) \in {a, b} /\ \A y \in {a, b} : Max({a, b}) >= y
  BY <1>1 DEF Max
<1>3. \E x \in {a, b} : \A y \in {a, b} : x <= y
  OBVIOUS
<1>4. Min({a, b}) \in {a, b} /\ \A y \in {a, b} : Min({a, b}) <= y
  BY <1>3 DEF Min
<1> QED
  BY <1>2, <1>4

\* Division with remainder ...
LEMMA Divides ==
    ASSUME NEW a \in Nat, NEW b \in Nat \ {0}
    PROVE  /\ a \div b \in Nat /\ a % b \in Nat /\ a % b < b
           /\ a = b * (a \div b) + (a % b)
  OBVIOUS

\* ... and what it gives for a number put together from a quotient and a remainder.
LEMMA DivideBack ==
    ASSUME NEW q \in Nat, NEW b \in Nat \ {0}, NEW r \in Nat, r < b
    PROVE  (q * b + r) \div b = q /\ (q * b + r) % b = r
<1> DEFINE a == q * b + r
           p == a \div b
           s == a % b
<1>1. a \in Nat
  OBVIOUS
<1>2. p \in Nat /\ s \in Nat /\ s < b /\ a = b * p + s
  BY <1>1, Divides
<1>3. ~(p < q)
  <2> SUFFICES ASSUME p < q PROVE FALSE
    OBVIOUS
  <2> DEFINE d == q - p - 1
  <2>1. d \in Nat /\ q = p + 1 + d
    BY <1>2
  <2>2. (p + 1 + d) * b = b * p + b + d * b /\ d * b \in Nat /\ b * p \in Nat
    BY <1>2, <2>1
  <2> QED
    BY <1>2, <2>1, <2>2
<1>4. ~(q < p)
  <2> SUFFICES ASSUME q < p PROVE FALSE
    OBVIOUS
  <2> DEFINE d == p - q - 1
  <2>1. d \in Nat /\ p = q + 1 + d
    BY <1>2
  <2>2. b * (q + 1 + d) = q * b + b + d * b /\ d * b \in Nat /\ q * b \in Nat
    BY <1>2, <2>1
  <2> QED
    BY <1>2, <2>1, <2>2
<1>5. p = q
  BY <1>2, <1>3, <1>4
<1> QED
  BY <1>2, <1>5

-----------------------------------------------------------------------------
\* The shape of a launch.

LEMMA LaunchFacts ==
    ASSUME cfg \in Configs
    PROVE  /\ cfg.devices \in Nat \ {0} /\ cfg.rows \in Nat \ {0} /\ cfg.cols \in Nat \ {0}
           /\ cfg.chunk_tiles \in Nat \ {0} /\ cfg.num_blocks \in Nat \ {0}
           /\ cfg.num_comp \in Nat \ {0} /\ cfg.num_send \in Nat \ {0} /\ cfg.qps \in Nat \ {0}
           /\ cfg.num_intra \in Nat /\ cfg.num_reduce \in Nat /\ cfg.progress_sms \in Nat
           /\ cfg.node \in Nat /\ cfg.nodes \in Nat /\ cfg.nodes >= 2
           /\ cfg.receiver_owner \in BOOLEAN /\ cfg.incremental \in BOOLEAN
           /\ cfg.transport \in BOOLEAN /\ cfg.ready_queue \in BOOLEAN
  BY ConfigAssumption

\* Rows are cut into chunks of ChunkTiles tiles, the last one shorter.
LEMMA ChunkFacts ==
    ASSUME cfg \in Configs
    PROVE  /\ ChunkTiles \in Nat \ {0} /\ ChunkTiles <= cfg.cols
           /\ ChunksPerRow \in Nat \ {0}
           /\ (ChunksPerRow - 1) * ChunkTiles < cfg.cols
           /\ cfg.cols <= ChunksPerRow * ChunkTiles
<1> DEFINE t == ChunkTiles
           n == cfg.cols
           k == ChunksPerRow
<1>1. t \in Nat \ {0} /\ t <= n /\ n \in Nat \ {0}
  <2>1. cfg.chunk_tiles \in Nat \ {0} /\ n \in Nat \ {0}
    BY LaunchFacts
  <2>2. \A a, b \in Int : Min({a, b}) = IF a <= b THEN a ELSE b
    BY MaxMin
  <2>3. Min({cfg.chunk_tiles, cfg.cols}) = IF cfg.chunk_tiles <= n THEN cfg.chunk_tiles ELSE n
    BY <2>1, <2>2
  <2> QED
    BY <2>1, <2>3 DEF ChunkTiles
<1>2. k = (n + t - 1) \div t
  BY DEF ChunksPerRow
<1> DEFINE a == n + t - 1
           r == a % t
<1> HIDE DEF t, n, k
<1>0. a \in Nat
  BY <1>1
<1> HIDE DEF a
<1>3. k \in Nat /\ r \in Nat /\ r < t /\ a = t * k + r
  <2>1. k = a \div t
    BY <1>2 DEF a
  <2> QED
    BY <1>0, <1>1, <2>1, Divides
<1> USE DEF a
<1>4. k # 0
  BY <1>1, <1>3
<1>5. (k - 1) * t = t * k - t /\ k * t = t * k
  BY <1>1, <1>3
<1>6. (k - 1) * t < n /\ n <= k * t
  BY <1>1, <1>3, <1>5
<1> QED
  BY <1>1, <1>3, <1>4, <1>6 DEF t, n, k

\* Chunks are numbered from zero, row by row.
LEMMA ChunkNumbers ==
    ASSUME cfg \in Configs
    PROVE  /\ TotalChunks \in Nat \ {0} /\ TotalChunks = cfg.rows * ChunksPerRow
           /\ Chunks = 0..(TotalChunks - 1) /\ IsFiniteSet(Chunks)
           /\ Cardinality(Chunks) = TotalChunks
           /\ NumPeers \in Nat \ {0} /\ IsFiniteSet(Peers) /\ Cardinality(Peers) = NumPeers
           /\ Chunks \subseteq Nat /\ Peers \subseteq Nat
<1> DEFINE n == cfg.rows * ChunksPerRow
<1>1. n \in Nat \ {0}
  <2> DEFINE a == cfg.rows
             b == ChunksPerRow
  <2>1. a \in Nat \ {0} /\ b \in Nat \ {0}
    BY LaunchFacts, ChunkFacts
  <2> HIDE DEF a, b
  <2>2. a * b \in Nat \ {0}
    BY <2>1
  <2> QED
    BY <2>2 DEF a, b
<1>2. Chunks = 0..(n - 1)
  BY DEF Chunks
<1>3. IsFiniteSet(Chunks) /\ Cardinality(Chunks) = n
  BY <1>1, <1>2, FS_Interval
<1>4. NumPeers \in Nat \ {0}
  BY LaunchFacts DEF NumPeers
<1>5. IsFiniteSet(Peers) /\ Cardinality(Peers) = NumPeers
  BY <1>4, FS_Interval DEF Peers
<1>6. Peers \subseteq Nat /\ Chunks \subseteq Nat
  BY <1>1, <1>2, <1>4 DEF Peers
<1> QED
  BY <1>1, <1>2, <1>3, <1>4, <1>5, <1>6 DEF TotalChunks

\* A chunk has at least one tile, all in its row; the first tile tells the chunk.
LEMMA ChunkTilesFit ==
    ASSUME cfg \in Configs, NEW ch \in Chunks
    PROVE  /\ ch \div ChunksPerRow \in 0..(cfg.rows - 1)
           /\ ch % ChunksPerRow \in 0..(ChunksPerRow - 1)
           /\ ch = (ch \div ChunksPerRow) * ChunksPerRow + (ch % ChunksPerRow)
           /\ (ch % ChunksPerRow) * ChunkTiles \in Nat
           /\ TilesOf(ch) \in Nat \ {0} /\ TilesOf(ch) <= ChunkTiles
           /\ (ch % ChunksPerRow) * ChunkTiles + TilesOf(ch) <= cfg.cols
<1> DEFINE t == ChunkTiles
           n == cfg.cols
           k == ChunksPerRow
           R == cfg.rows
           row == ch \div k
           j == ch % k
<1>1. /\ t \in Nat \ {0} /\ k \in Nat \ {0} /\ n \in Nat \ {0} /\ R \in Nat \ {0}
      /\ (k - 1) * t < n
  BY LaunchFacts, ChunkFacts
<1>2. ch \in Nat /\ ch < R * k
  <2>1. ch \in 0..(R * k - 1)
    BY DEF Chunks
  <2> HIDE DEF R, k
  <2> QED
    BY <2>1, <1>1
<1>3. row \in Nat /\ j \in Nat /\ j < k /\ ch = k * row + j
  BY <1>1, <1>2, Divides
<1>4. TilesOf(ch) = Min({t, n - j * t})
  BY DEF TilesOf
<1> HIDE DEF t, n, k, R, row, j
<1>5. row < R
  <2> SUFFICES ASSUME R <= row PROVE FALSE
    BY <1>1, <1>3
  <2> DEFINE d == row - R
  <2>1. d \in Nat /\ row = R + d
    BY <1>1, <1>3
  <2>2. k * (R + d) = R * k + k * d /\ k * d \in Nat /\ R * k \in Nat
    BY <1>1, <2>1
  <2> QED
    BY <1>2, <1>3, <2>1, <2>2
<1>6. j * t \in Nat /\ j * t < n
  <2> DEFINE d == k - 1 - j
  <2>1. d \in Nat /\ k - 1 = j + d
    BY <1>1, <1>3
  <2>2. (j + d) * t = j * t + d * t /\ d * t \in Nat /\ j * t \in Nat
    BY <1>1, <1>3, <2>1
  <2> QED
    BY <1>1, <2>1, <2>2
<1>7. TilesOf(ch) = IF t <= n - j * t THEN t ELSE n - j * t
  <2> DEFINE m == n - j * t
  <2>1. m \in Int
    BY <1>1, <1>6
  <2> HIDE DEF m
  <2>2. Min({t, m}) = IF t <= m THEN t ELSE m
    BY <1>1, <2>1, MaxMin
  <2> QED
    BY <1>4, <2>2 DEF m
<1>8. TilesOf(ch) \in Nat \ {0} /\ TilesOf(ch) <= t /\ j * t + TilesOf(ch) <= n
  BY <1>1, <1>6, <1>7
<1>9. row \in 0..(R - 1) /\ j \in 0..(k - 1) /\ ch = row * k + j
  BY <1>1, <1>3, <1>5
<1> QED
  BY <1>6, <1>8, <1>9 DEF t, n, k, R, row, j

-----------------------------------------------------------------------------
\* CTAs and their tasks.

\* There is a compute CTA, and no more of them than blocks.
LEMMA CompFacts ==
    ASSUME cfg \in Configs
    PROVE  NumComp \in Nat \ {0} /\ NumComp <= cfg.num_blocks
<1> DEFINE comp == cfg.num_comp + cfg.num_intra
           rest == cfg.num_send + cfg.num_reduce
           b == cfg.num_blocks
           m == Max({1, b - rest})
<1>1. comp \in Nat \ {0} /\ rest \in Nat /\ b \in Nat \ {0}
      /\ comp + cfg.num_send + cfg.num_reduce = comp + rest
  BY LaunchFacts
<1>2. NumComp = IF comp + rest - b <= 0 THEN comp - (comp + rest - b)
                ELSE IF comp > comp + rest - b THEN comp - (comp + rest - b) ELSE m
  BY <1>1 DEF NumComp
<1>3. m = IF 1 >= b - rest THEN 1 ELSE b - rest
  <2> DEFINE x == b - rest
  <2>1. x \in Int
    BY <1>1
  <2> HIDE DEF x
  <2>2. Max({1, x}) = IF 1 >= x THEN 1 ELSE x
    BY <2>1, MaxMin
  <2> QED
    BY <2>2 DEF x
<1> HIDE DEF comp, rest, b, m
<1>4. NumComp \in Nat \ {0} /\ NumComp <= b
  BY <1>1, <1>2, <1>3
<1> QED
  BY <1>4 DEF b

LEMMA ProgressFacts ==
    ASSUME cfg \in Configs
    PROVE  Progress \in Int /\ Max({1, Progress}) \in Nat \ {0}
<1>1. Progress \in Int
  <2>1. \A a, b \in Int : Min({a, b}) \in Int
    BY MaxMin
  <2>2. NumReduce \in Int
    <3> DEFINE r == cfg.num_blocks - (NumComp + cfg.num_send + cfg.num_reduce)
               x == cfg.num_reduce + r
    <3>1. r \in Int /\ x \in Int /\ cfg.num_reduce \in Int
      BY LaunchFacts, CompFacts
    <3>2. \A a, b \in Int : Max({a, b}) \in Int
      BY MaxMin
    <3>3. NumReduce = IF r < 0 THEN Max({1, x}) ELSE cfg.num_reduce
      BY DEF NumReduce
    <3> HIDE DEF r, x
    <3> QED
      BY <3>1, <3>2, <3>3
  <2>3. cfg.progress_sms \in Int
    BY LaunchFacts
  <2> QED
    BY <2>1, <2>2, <2>3 DEF Progress
<1>2. \A a, b \in Int : Max({a, b}) = IF a >= b THEN a ELSE b
  BY MaxMin
<1> QED
  BY <1>1, <1>2

LEMMA CtaFacts ==
    ASSUME cfg \in Configs, NEW c \in Ctas
    PROVE  /\ c = <<c[1], c[2]>> /\ c[1] \in Gpus /\ c[2] \in Nat
           /\ c[1] # Dev => c[2] = 0
           /\ Stride(c) \in Nat \ {0}
           /\ IsSend(c) => SendId(c) \in Senders
<1>1. cfg.devices \in Nat \ {0} /\ cfg.num_blocks \in Nat \ {0} /\ cfg.num_send \in Nat \ {0}
  BY LaunchFacts
<1>2. NumComp \in Nat \ {0}
  BY CompFacts
<1>3. CASE c \in Blocks
  <2>1. PICK b \in 0..(cfg.num_blocks - 1) : c = <<Dev, b>>
    BY <1>3 DEF Blocks
  <2> QED
    BY <1>1, <1>2, <2>1 DEF Dev, Gpus, Stride, IsSend, SendId, Senders
<1>4. CASE c \in OthersCompute
  <2>1. PICK d \in 1..(cfg.devices - 1) : c = <<d, 0>>
    BY <1>4 DEF OthersCompute
  <2> QED
    BY <1>1, <1>2, <2>1 DEF Dev, Gpus, Stride, IsSend
<1> QED
  BY <1>3, <1>4 DEF Ctas

\* A send CTA is told by the number of its queue.
LEMMA SendersDiffer ==
    ASSUME cfg \in Configs, NEW c \in Ctas, NEW d \in Ctas, IsSend(c), IsSend(d),
           SendId(c) = SendId(d)
    PROVE  c = d
<1>1. NumComp \in Nat
  BY CompFacts
<1>2. c = <<c[1], c[2]>> /\ c[2] \in Nat /\ d = <<d[1], d[2]>> /\ d[2] \in Nat
  BY CtaFacts
<1>3. c[1] = Dev /\ d[1] = Dev /\ c[2] - NumComp = d[2] - NumComp
  BY DEF IsSend, SendId
<1>4. c[2] = d[2]
  BY <1>1, <1>2, <1>3
<1> QED
  BY <1>2, <1>3, <1>4

\* Each task has one compute CTA.
LEMMA TaskHasCta ==
    ASSUME cfg \in Configs, NEW d \in Gpus, NEW t \in Nat
    PROVE  CtaOf(d, t) \in Ctas /\ CtaOf(d, t)[1] = d /\ IsCompute(CtaOf(d, t))
<1>1. cfg.devices \in Nat \ {0} /\ cfg.num_blocks \in Nat
  BY LaunchFacts
<1>2. NumComp \in Nat \ {0} /\ NumComp <= cfg.num_blocks
  BY CompFacts
<1>3. CASE d = Dev
  <2>1. t % NumComp \in Nat /\ t % NumComp < NumComp
    BY <1>2, Divides
  <2>2. CtaOf(d, t) = <<Dev, t % NumComp>>
    BY <1>3 DEF CtaOf
  <2> DEFINE b == t % NumComp
  <2> HIDE DEF b
  <2>3. b \in 0..(cfg.num_blocks - 1) /\ b < NumComp
    BY <1>1, <1>2, <2>1 DEF b
  <2>4. CtaOf(d, t) = <<Dev, b>>
    BY <2>2 DEF b
  <2> QED
    BY <1>3, <2>3, <2>4 DEF Ctas, Blocks, IsCompute
<1>4. CASE d # Dev
  <2>1. CtaOf(d, t) = <<d, 0>> /\ d \in 1..(cfg.devices - 1)
    BY <1>1, <1>4 DEF CtaOf, Gpus, Dev
  <2> QED
    BY <1>4, <2>1 DEF Ctas, OthersCompute, IsCompute
<1> QED
  BY <1>3, <1>4

\* From one of its tasks on, a CTA has those at multiples of its stride.
LEMMA StrideTasks ==
    ASSUME cfg \in Configs, NEW c \in Ctas, NEW t \in Nat, CtaOf(c[1], t) = c, NEW e \in Nat
    PROVE  e % Stride(c) = 0 <=> CtaOf(c[1], t + e) = c
<1>1. NumComp \in Nat \ {0}
  BY CompFacts
<1>2. c = <<c[1], c[2]>> /\ c[2] \in Nat
  BY CtaFacts
<1>3. CASE c[1] = Dev
  <2> DEFINE n == NumComp
             u == t + e
             a == t \div n
             r == t % n
             p == e \div n
             s == e % n
  <2>1. Stride(c) = n /\ c = <<Dev, r>>
    BY <1>3 DEF Stride, CtaOf
  <2> HIDE DEF n
  <2>2. /\ n \in Nat \ {0} /\ a \in Nat /\ r \in Nat /\ r < n /\ t = n * a + r
        /\ p \in Nat /\ s \in Nat /\ s < n /\ e = n * p + s
    BY <1>1, Divides DEF n
  <2> HIDE DEF a, r, p, s
  <2>3. s = 0 => u % n = r
    <3> SUFFICES ASSUME s = 0 PROVE u % n = r
      OBVIOUS
    <3> DEFINE q == a + p
    <3>1. u = q * n + r /\ q \in Nat
      BY <2>2
    <3> HIDE DEF q, u
    <3> QED
      BY <2>2, <3>1, DivideBack
  <2>4. s # 0 => u % n # r
    <3> SUFFICES ASSUME s # 0 PROVE u % n # r
      OBVIOUS
    <3>1. CASE r + s < n
      <4> DEFINE q == a + p
                 x == r + s
      <4>1. u = q * n + x /\ q \in Nat /\ x \in Nat /\ x < n /\ x # r
        BY <2>2, <3>1
      <4> HIDE DEF q, x, u
      <4> QED
        BY <2>2, <4>1, DivideBack
    <3>2. CASE r + s >= n
      <4> DEFINE q == a + p + 1
                 x == r + s - n
      <4>1. u = q * n + x /\ q \in Nat /\ x \in Nat /\ x < n /\ x # r
        BY <2>2, <3>2
      <4> HIDE DEF q, x, u
      <4> QED
        BY <2>2, <4>1, DivideBack
    <3> QED
      BY <2>2, <3>1, <3>2
  <2>5. CtaOf(c[1], u) = <<Dev, u % n>>
    BY <1>3 DEF CtaOf, n
  <2>6. s = 0 <=> <<Dev, u % n>> = <<Dev, r>>
    BY <2>3, <2>4
  <2> QED
    BY <2>1, <2>5, <2>6 DEF s
<1>4. CASE c[1] # Dev
  <2>1. c = <<c[1], 0>> /\ CtaOf(c[1], t + e) = <<c[1], 0>>
    BY <1>2, <1>4, CtaFacts DEF CtaOf
  <2>2. Stride(c) = 1 /\ e % 1 = 0
    BY <1>4 DEF Stride
  <2> QED
    BY <2>1, <2>2
<1> QED
  BY <1>3, <1>4

LEMMA WorkIsNat == ASSUME cfg \in Configs PROVE NumBlocksOfWork \in Nat \ {0}
<1> DEFINE a == cfg.devices
           b == cfg.rows
           d == cfg.cols
<1>1. a \in Nat \ {0} /\ b \in Nat \ {0} /\ d \in Nat \ {0}
  BY LaunchFacts
<1>2. NumBlocksOfWork = a * b * d
  BY DEF NumBlocksOfWork
<1> HIDE DEF a, b, d
<1>3. a * b \in Nat \ {0}
  BY <1>1
<1> DEFINE e == a * b
<1> HIDE DEF e
<1>4. e * d \in Nat \ {0}
  BY <1>1, <1>3 DEF e
<1> QED
  BY <1>2, <1>4 DEF e

\* The next task of a CTA is one of its own for this GPU, and none is left out.
LEMMA NextTaskIs ==
    ASSUME cfg \in Configs, NEW c \in Ctas, NEW t \in Nat, CtaOf(c[1], t) = c
    PROVE  /\ NextTask(c, t) \in Nat /\ NextTask(c, t) <= NumBlocksOfWork
           /\ NextTask(c, t) # NumBlocksOfWork =>
                /\ t <= NextTask(c, t) /\ SliceOf(NextTask(c, t), c[1]) = Dev
                /\ CtaOf(c[1], NextTask(c, t)) = c
           /\ \A v \in t..(NumBlocksOfWork - 1) :
                CtaOf(c[1], v) = c /\ SliceOf(v, c[1]) = Dev => NextTask(c, t) <= v
<1> DEFINE W == NumBlocksOfWork
           U == {u \in t..(W - 1) : (u - t) % Stride(c) = 0 /\ SliceOf(u, c[1]) = Dev}
           n == NextTask(c, t)
<1>1. W \in Nat
  BY WorkIsNat
<1>2. n = Min({W} \cup U)
  BY DEF NextTask
<1> HIDE DEF W, n
<1>3. {W} \cup U \in SUBSET Nat /\ {W} \cup U # {}
  BY <1>1
<1>4. n \in {W} \cup U /\ \A m \in {W} \cup U : n <= m
  BY <1>2, <1>3, MinIsLeast
<1>5. \A v \in t..(W - 1) : (v - t) % Stride(c) = 0 <=> CtaOf(c[1], v) = c
  <2> TAKE v \in t..(W - 1)
  <2> DEFINE e == v - t
  <2>1. e \in Nat /\ v = t + e
    BY <1>1
  <2> HIDE DEF e
  <2>2. e % Stride(c) = 0 <=> CtaOf(c[1], t + e) = c
    BY <2>1, StrideTasks
  <2> QED
    BY <2>1, <2>2 DEF e
<1>6. n \in Nat /\ n <= W
  BY <1>1, <1>3, <1>4
<1>7. n # W => n \in t..(W - 1) /\ SliceOf(n, c[1]) = Dev /\ CtaOf(c[1], n) = c
  BY <1>4, <1>5
<1>8. \A v \in t..(W - 1) : CtaOf(c[1], v) = c /\ SliceOf(v, c[1]) = Dev => n <= v
  BY <1>4, <1>5
<1> QED
  BY <1>1, <1>6, <1>7, <1>8 DEF W, n

\* Row, column and slice of a task; no two tasks of a GPU have all three in common.
LEMMA TaskParts ==
    ASSUME cfg \in Configs, NEW d \in Gpus, NEW t \in Nat
    PROVE  /\ RowOf(t) \in Nat /\ ColOf(t) \in 0..(cfg.cols - 1)
           /\ SliceOf(t, d) = Dev =>
                t = (cfg.devices * cfg.cols) * RowOf(t)
                    + (cfg.cols * (IF d = 0 THEN 0 ELSE cfg.devices - d) + ColOf(t))
<1> DEFINE D == cfg.devices
           n == cfg.cols
           N == D * n
           row == t \div N
           w == t % N
           k == w \div n
           col == w % n
<1>1. D \in Nat \ {0} /\ n \in Nat \ {0} /\ d \in Nat /\ d < D
  BY LaunchFacts DEF Gpus
<1> HIDE DEF D, n
<1>2. N \in Nat \ {0}
  BY <1>1
<1> HIDE DEF N
<1>3. row \in Nat /\ w \in Nat /\ w < N /\ t = N * row + w
  BY <1>2, Divides
<1>4. RowOf(t) = row /\ ColOf(t) = t % n /\ SliceOf(t, d) = (k + d) % D
  BY DEF RowOf, ColOf, SliceOf, N, D, n
<1> HIDE DEF row, w
<1>5. k \in Nat /\ col \in Nat /\ col < n /\ w = n * k + col
  BY <1>1, <1>3, Divides
<1> HIDE DEF k, col
<1>6. k < D
  <2> SUFFICES ASSUME D <= k PROVE FALSE
    BY <1>1, <1>5
  <2> DEFINE e == k - D
  <2>1. e \in Nat /\ k = D + e
    BY <1>1, <1>5
  <2>2. n * (D + e) = D * n + n * e /\ n * e \in Nat
    BY <1>1, <2>1
  <2> QED
    BY <1>2, <1>3, <1>5, <2>1, <2>2 DEF N
<1>7. t % n = col
  <2> DEFINE q == D * row + k
  <2>1. q \in Nat /\ t = q * n + col
    <3>1. D * row \in Nat /\ (D * row) * n = (D * n) * row
      BY <1>1, <1>3
    <3> DEFINE x == D * row
    <3> HIDE DEF x
    <3>2. x \in Nat /\ x * n = N * row
      BY <3>1 DEF x, N
    <3>3. (x + k) * n = x * n + n * k
      BY <1>1, <1>5, <3>2
    <3>4. q = x + k
      BY DEF x
    <3> HIDE DEF q
    <3>5. q * n = N * row + n * k
      BY <3>2, <3>3, <3>4
    <3>6. N * row \in Nat /\ n * k \in Nat /\ q \in Nat
      BY <1>1, <1>2, <1>3, <1>5, <3>2, <3>4
    <3> QED
      BY <1>3, <1>5, <3>5, <3>6
  <2> HIDE DEF q
  <2> QED
    BY <1>1, <1>5, <2>1, DivideBack
<1>8. (k + d) % D = 0 => k = IF d = 0 THEN 0 ELSE D - d
  <2> SUFFICES ASSUME (k + d) % D = 0 PROVE k = IF d = 0 THEN 0 ELSE D - d
    OBVIOUS
  <2> DEFINE x == k + d
  <2>1. x \in Nat /\ x < D + D
    BY <1>1, <1>5, <1>6
  <2>2. x % D = 0
    OBVIOUS
  <2> HIDE DEF x
  <2>3. x \div D \in Nat /\ x = D * (x \div D)
    BY <1>1, <2>1, <2>2, Divides
  <2> DEFINE p == x \div D
  <2> HIDE DEF p
  <2>4. p \in Nat /\ x = D * p
    BY <2>3 DEF p
  <2>5. p < 2
    <3> SUFFICES ASSUME p >= 2 PROVE FALSE
      BY <2>4
    <3> DEFINE y == p - 2
    <3>1. y \in Nat /\ p = 2 + y
      BY <2>4
    <3>2. D * (2 + y) = D + D + D * y /\ D * y \in Nat
      BY <1>1, <3>1
    <3> QED
      BY <1>1, <2>1, <2>4, <3>1, <3>2
  <2>6. x = 0 \/ x = D
    <3>1. p = 0 \/ p = 1
      BY <2>4, <2>5
    <3> QED
      BY <1>1, <2>4, <3>1
  <2> QED
    BY <1>1, <1>5, <1>6, <2>6 DEF x
<1>9. /\ RowOf(t) \in Nat /\ ColOf(t) \in 0..(n - 1)
      /\ SliceOf(t, d) = Dev =>
           t = N * RowOf(t) + (n * (IF d = 0 THEN 0 ELSE D - d) + ColOf(t))
  <2>1. RowOf(t) \in Nat /\ ColOf(t) = col
    BY <1>3, <1>4, <1>7
  <2>2. col \in 0..(n - 1)
    BY <1>1, <1>5
  <2>3. SliceOf(t, d) = Dev => t = N * row + (n * (IF d = 0 THEN 0 ELSE D - d) + col)
    BY <1>3, <1>4, <1>5, <1>8 DEF Dev
  <2> QED
    BY <1>4, <2>1, <2>2, <2>3
<1> QED
  BY <1>9 DEF N, n, D

\* A chunk is a run of columns of a row.
LEMMA ChunkColumns ==
    ASSUME cfg \in Configs, NEW d \in Gpus, NEW ch \in Chunks, NEW t \in Tasks(d, ch)
    PROVE  /\ t \in Nat /\ RowOf(t) = ch \div ChunksPerRow
           /\ ColOf(t) \in (ch % ChunksPerRow) * ChunkTiles
                             ..((ch % ChunksPerRow) * ChunkTiles + TilesOf(ch) - 1)
<1> DEFINE T == ChunkTiles
           n == cfg.cols
           k == ChunksPerRow
           row == RowOf(t)
           col == ColOf(t)
           j == col \div T
           r == col % T
<1>1. /\ T \in Nat \ {0} /\ k \in Nat \ {0} /\ n \in Nat \ {0}
      /\ n <= k * T
  BY LaunchFacts, ChunkFacts
<1>2. t \in Nat /\ row * k + j = ch
  BY WorkIsNat DEF Tasks, ChunkOf
<1>3. row \in Nat /\ col \in Nat /\ col < n
  BY <1>1, <1>2, TaskParts
<1> HIDE DEF T, n, k, row, col
<1>4. j \in Nat /\ r \in Nat /\ r < T /\ col = T * j + r
  BY <1>1, <1>3, Divides
<1> HIDE DEF j, r
<1>5. j < k
  <2> SUFFICES ASSUME k <= j PROVE FALSE
    BY <1>1, <1>4
  <2> DEFINE e == j - k
  <2>1. e \in Nat /\ j = k + e
    BY <1>1, <1>4
  <2>2. T * (k + e) = k * T + T * e /\ T * e \in Nat
    BY <1>1, <2>1
  <2> QED
    BY <1>1, <1>3, <1>4, <2>1, <2>2
<1>6. ch \div k = row /\ ch % k = j
  BY <1>1, <1>2, <1>3, <1>4, <1>5, DivideBack
<1>7. TilesOf(ch) = IF T <= n - j * T THEN T ELSE n - j * T
  <2> DEFINE m == n - j * T
  <2>1. m \in Int
    BY <1>1, <1>4
  <2>2. TilesOf(ch) = Min({T, m})
    BY <1>6 DEF TilesOf, T, n, k
  <2> HIDE DEF m
  <2>3. \A x, y \in Int : Min({x, y}) = IF x <= y THEN x ELSE y
    BY MaxMin
  <2>4. Min({T, m}) = IF T <= m THEN T ELSE m
    BY <1>1, <2>1, <2>3
  <2> QED
    BY <2>2, <2>4 DEF m
<1>8. col \in (j * T)..(j * T + TilesOf(ch) - 1)
  <2>1. j * T = T * j /\ j * T \in Nat
    BY <1>1, <1>4
  <2> QED
    BY <1>1, <1>3, <1>4, <1>7, <2>1
<1> QED
  BY <1>2, <1>6, <1>8 DEF T, k, row, col

\* A GPU has no more tasks in a chunk than the chunk has tiles.
LEMMA TasksFitChunk ==
    ASSUME cfg \in Configs, NEW d \in Gpus, NEW ch \in Chunks
    PROVE  IsFiniteSet(Tasks(d, ch)) /\ Cardinality(Tasks(d, ch)) <= TilesOf(ch)
<1> DEFINE a == (ch % ChunksPerRow) * ChunkTiles
           b == a + TilesOf(ch) - 1
           f == [t \in Tasks(d, ch) |-> ColOf(t)]
<1>1. a \in Nat /\ TilesOf(ch) \in Nat \ {0}
  BY ChunkTilesFit
<1>2. \A t \in Tasks(d, ch) : f[t] \in a..b
  BY ChunkColumns
<1>3. \A t, u \in Tasks(d, ch) : f[t] = f[u] => t = u
  <2> SUFFICES ASSUME NEW t \in Tasks(d, ch), NEW u \in Tasks(d, ch), ColOf(t) = ColOf(u)
               PROVE  t = u
    OBVIOUS
  <2>1. t \in Nat /\ u \in Nat /\ RowOf(t) = RowOf(u)
    BY ChunkColumns
  <2>2. SliceOf(t, d) = Dev /\ SliceOf(u, d) = Dev
    BY DEF Tasks
  <2>3. t = (cfg.devices * cfg.cols) * RowOf(t)
            + (cfg.cols * (IF d = 0 THEN 0 ELSE cfg.devices - d) + ColOf(t))
    BY <2>1, <2>2, TaskParts
  <2>4. u = (cfg.devices * cfg.cols) * RowOf(u)
            + (cfg.cols * (IF d = 0 THEN 0 ELSE cfg.devices - d) + ColOf(u))
    BY <2>1, <2>2, TaskParts
  <2> QED
    BY <2>1, <2>3, <2>4
<1> HIDE DEF a, f
<1>4. f \in Injection(Tasks(d, ch), a..b)
  <2>1. f \in [Tasks(d, ch) -> a..b]
    BY <1>2 DEF f
  <2> QED
    BY <1>3, <2>1 DEF Injection, IsInjective
<1>5. IsFiniteSet(a..b) /\ Cardinality(a..b) = TilesOf(ch)
  <2>1. b \in Int /\ a \in Int /\ ~(a > b) /\ b - a + 1 = TilesOf(ch)
    BY <1>1
  <2> HIDE DEF b
  <2> QED
    BY <2>1, FS_Interval
<1> QED
  BY <1>4, <1>5, FS_Injection

-----------------------------------------------------------------------------
\* Numbers for chunks.

\* The send CTA and its queue index together tell the chunk.
LEMMA DecodeBack ==
    ASSUME cfg \in Configs, NEW ch \in Chunks
    PROVE  /\ SenderOf(ch) \in Senders /\ QueueIdx(ch) \in Nat
           /\ Decode(SenderOf(ch), QueueIdx(ch)) = ch
<1> DEFINE k == ChunksPerRow
           m == cfg.num_send
           row == ch \div k
           j == ch % k
           s == row % m
           q == row \div m
<1>1. k \in Nat \ {0} /\ m \in Nat \ {0}
  BY LaunchFacts, ChunkFacts
<1>2. row \in Nat /\ j \in Nat /\ j < k /\ ch = row * k + j
  BY LaunchFacts, ChunkFacts, ChunkTilesFit
<1>3. SenderOf(ch) = s /\ QueueIdx(ch) = q * k + j
  BY DEF SenderOf, QueueIdx
<1> HIDE DEF k, m, row, j
<1>4. s \in Nat /\ s < m /\ q \in Nat /\ row = m * q + s
  BY <1>1, <1>2, Divides
<1> HIDE DEF s, q
<1> DEFINE x == q * k + j
<1>5. x \in Nat
  BY <1>1, <1>2, <1>4
<1>6. x \div k = q /\ x % k = j
  BY <1>1, <1>2, <1>4, DivideBack
<1>7. Decode(s, x) = (s + (x \div k) * m) * k + (x % k)
  BY DEF Decode, k, m
<1> HIDE DEF x
<1>8. s + q * m = row
  BY <1>1, <1>4
<1>9. Decode(s, x) = ch
  BY <1>2, <1>6, <1>7, <1>8
<1>10. s \in Senders
  BY <1>1, <1>4 DEF Senders, m
<1> QED
  BY <1>3, <1>5, <1>9, <1>10 DEF x

\* An arrival word stands for its chunk and peer, whatever its run field has lost.
LEMMA WordCovers ==
    ASSUME cfg \in Configs, NEW w \in Works
    PROVE  /\ Word(w) \in [tile : Nat, run : Nat]
           /\ \A m \in Covered(Word(w)) : m = w
<1> DEFINE p == w[1]
           ch == w[2]
           T == ChunkTiles
           k == ChunksPerRow
           n == cfg.cols
           R == cfg.rows
           row == ch \div k
           j == ch % k
           S == SinglePeerTiles
           F == FirstTile(ch)
           g == TilesOf(ch)
           run == (Max({g, 1}) - 1) % RunLimit
           first == p * S + F
<1>1. p \in Peers /\ ch \in Chunks /\ p \in Nat /\ ch \in Nat /\ w = <<p, ch>>
  <2>1. w[1] \in Peers /\ w[2] \in Chunks /\ w = <<w[1], w[2]>>
    BY DEF Works
  <2> QED
    BY <2>1, ChunkNumbers
<1>2. /\ T \in Nat \ {0} /\ k \in Nat \ {0} /\ n \in Nat \ {0} /\ R \in Nat \ {0}
      /\ RunLimit \in Nat \ {0}
  BY LaunchFacts, ChunkFacts, RunAssumption
<1>3. /\ row \in 0..(R - 1) /\ j \in 0..(k - 1) /\ ch = row * k + j /\ j * T \in Nat
      /\ g \in Nat \ {0} /\ g <= T /\ j * T + g <= n
  BY <1>1, ChunkTilesFit
<1>4. S = R * n /\ F = row * n + j * T
  BY DEF SinglePeerTiles, FirstTile
<1>5. Word(w) = [tile |-> first + 1, run |-> run]
  BY DEF Word, pack_arrival_work
<1> HIDE DEF p, ch, T, k, n, R, row, j, S, F, g
<1>6. run \in Nat /\ run + 1 <= g
  <2> DEFINE x == g - 1
  <2>1. x \in Nat /\ Max({g, 1}) - 1 = x
    <3>1. \A a, b \in Int : Max({a, b}) = IF a >= b THEN a ELSE b
      BY MaxMin
    <3>2. Max({g, 1}) = g
      BY <1>3, <3>1
    <3> QED
      BY <1>3, <3>2
  <2> HIDE DEF x
  <2>2. \A a \in Nat, b \in Nat \ {0} : a % b \in Nat /\ a % b <= a
    <3> SUFFICES ASSUME NEW a \in Nat, NEW b \in Nat \ {0} PROVE a % b \in Nat /\ a % b <= a
      OBVIOUS
    <3> DEFINE y == a \div b
               z == a % b
    <3>1. y \in Nat /\ z \in Nat /\ a = b * y + z
      BY Divides
    <3> HIDE DEF y, z
    <3>2. b * y \in Nat
      BY <3>1
    <3>3. z \in Nat /\ z <= a
      BY <3>1, <3>2
    <3> QED
      BY <3>3 DEF z
  <2>3. x % RunLimit \in Nat /\ x % RunLimit <= x
    BY <1>2, <2>1, <2>2
  <2>4. run = x % RunLimit
    BY <2>1
  <2> HIDE DEF run
  <2> QED
    BY <1>3, <2>1, <2>3, <2>4 DEF x
<1> HIDE DEF run
<1>7. F \in Nat /\ F < S /\ S \in Nat \ {0}
  <2> DEFINE d == R - 1 - row
  <2>1. d \in Nat /\ R = row + 1 + d /\ row \in Nat
    BY <1>2, <1>3
  <2>2. (row + 1 + d) * n = row * n + n + d * n /\ d * n \in Nat /\ row * n \in Nat
    BY <1>2, <2>1
  <2>3. S = row * n + n + d * n
    BY <1>4, <2>1, <2>2
  <2> QED
    BY <1>2, <1>3, <1>4, <2>2, <2>3
<1>8. first \in Nat /\ first \div S = p /\ first % S = F
  <2>1. p * S \in Nat
    BY <1>1, <1>7
  <2> QED
    BY <1>1, <1>7, <2>1, DivideBack
<1>9. F \div n = row /\ F % n = j * T
  <2> DEFINE x == j * T
  <2>1. x \in Nat /\ x < n /\ row \in Nat
    BY <1>2, <1>3
  <2>2. F = row * n + x
    BY <1>4
  <2> HIDE DEF x
  <2>3. F \div n = row /\ F % n = x
    BY <1>2, <2>1, <2>2, DivideBack
  <2> QED
    BY <2>3 DEF x
<1> HIDE DEF first
<1> DEFINE v == Word(w)
           col == j * T
           u == Min({run + 1, n - col})
<1>10. Covered(v) = {<<p, row * k + i \div T>> : i \in col..(col + u - 1)}
  <2>1. unpack_arrival_first_tile(v) = first /\ unpack_arrival_num_tiles(v) = run + 1
    BY <1>5, <1>6, <1>8 DEF unpack_arrival_first_tile, unpack_arrival_num_tiles
  <2> HIDE DEF v
  <2> QED
    BY <1>8, <1>9, <2>1 DEF Covered, S, n, T, k
<1>11. u <= g
  <2> DEFINE a == run + 1
             b == n - col
  <2>1. a \in Int /\ b \in Int /\ a <= g
    BY <1>2, <1>3, <1>6
  <2>2. \A x, y \in Int : Min({x, y}) = IF x <= y THEN x ELSE y
    BY MaxMin
  <2> HIDE DEF a, b
  <2>3. Min({a, b}) = IF a <= b THEN a ELSE b
    BY <2>1, <2>2
  <2>4. Min({a, b}) <= g
    BY <1>3, <2>1, <2>3
  <2> QED
    BY <2>4 DEF a, b
<1> HIDE DEF u
<1>12. \A i \in col..(col + u - 1) : u \in Int => i \div T = j
  <2> TAKE i \in col..(col + u - 1)
  <2> SUFFICES ASSUME u \in Int PROVE i \div T = j
    OBVIOUS
  <2> DEFINE r == i - col
  <2>1. r \in Nat /\ r < T /\ i = j * T + r /\ j \in Nat
    BY <1>2, <1>3, <1>11
  <2> HIDE DEF r
  <2> QED
    BY <1>2, <2>1, DivideBack
<1>13. u \in Int
  <2> DEFINE a == run + 1
             b == n - col
  <2>1. a \in Int /\ b \in Int
    BY <1>2, <1>3, <1>6
  <2>2. \A x, y \in Int : Min({x, y}) = IF x <= y THEN x ELSE y
    BY MaxMin
  <2> HIDE DEF a, b
  <2>3. Min({a, b}) \in Int
    BY <2>1, <2>2
  <2> QED
    BY <2>3 DEF a, b, u
<1>14. \A m \in Covered(v) : m = w
  BY <1>1, <1>3, <1>10, <1>12, <1>13
<1> QED
  BY <1>5, <1>6, <1>8, <1>14

-----------------------------------------------------------------------------
\* Steps.

\* The launch does not change, nor what is computed from it.
LEMMA LaunchStays ==
    ASSUME cfg' = cfg
    PROVE  /\ Ctas' = Ctas /\ Gpus' = Gpus /\ Senders' = Senders /\ Peers' = Peers
           /\ Chunks' = Chunks /\ Queues' = Queues /\ Works' = Works
           /\ TotalChunks' = TotalChunks /\ NumPeers' = NumPeers
           /\ NumBlocksOfWork' = NumBlocksOfWork /\ ChunksPerRow' = ChunksPerRow
           /\ (Incremental' <=> Incremental) /\ (Transport' <=> Transport)
           /\ (ReadyQueue' <=> ReadyQueue) /\ (ReceiverOwner' <=> ReceiverOwner)
<1>1. /\ Peers' = Peers /\ NumPeers' = NumPeers /\ Queues' = Queues /\ Gpus' = Gpus
      /\ Senders' = Senders /\ NumBlocksOfWork' = NumBlocksOfWork
      /\ ChunkTiles' = ChunkTiles
  BY DEF Peers, NumPeers, Queues, Gpus, Senders, NumBlocksOfWork, ChunkTiles
<1>2. ChunksPerRow' = ChunksPerRow
  BY <1>1 DEF ChunksPerRow
<1>3. Chunks' = Chunks
  BY <1>2 DEF Chunks
<1>4. TotalChunks' = TotalChunks /\ Works' = Works
  BY <1>1, <1>3 DEF TotalChunks, Works
<1>5. Blocks' = Blocks /\ OthersCompute' = OthersCompute
  BY DEF Blocks, OthersCompute
<1>6. Ctas' = Ctas
  BY <1>5 DEF Ctas
<1>7. (Incremental' <=> Incremental) /\ (Transport' <=> Transport)
      /\ (ReceiverOwner' <=> ReceiverOwner)
  BY DEF Incremental, Transport, ReceiverOwner
<1>8. ReadyQueue' <=> ReadyQueue
  BY <1>7 DEF ReadyQueue
<1> QED
  BY <1>1, <1>2, <1>3, <1>4, <1>6, <1>7, <1>8

\* What the other CTAs have for themselves.
Others(c) ==
    \A d \in Ctas : d # c =>
        /\ pc'[d] = pc[d] /\ chunk'[d] = chunk[d] /\ peer'[d] = peer[d] /\ slot'[d] = slot[d]
        /\ marks'[d] = marks[d] /\ copy'[d] = copy[d] /\ task'[d] = task[d] /\ did'[d] = did[d]

LEMMA OthersStay ==
    ASSUME TypeOK, NEW c \in Ctas, Cta(c)
    PROVE  Others(c) /\ cfg' = cfg
<1> USE DEF TypeOK, CtaTypes, Others, At, Goes, Takes, computing, sending, arriving,
            draining, readyq, accumq, adding, done, local
<1>1. CASE StoreTile(c)
  BY <1>1 DEF StoreTile, Finish
<1>2. CASE CountTile(c)
  BY <1>2 DEF CountTile, Finish
<1>3. CASE ComputeEnds(c)
  BY <1>3 DEF ComputeEnds
<1>4. CASE TakeReady(c)
  BY <1>4 DEF TakeReady
<1>5. CASE PushChunk(c)
  BY <1>5 DEF PushChunk
<1>6. CASE SendEnds(c)
  BY <1>6 DEF SendEnds
<1>7. ASSUME NEW q \in Queues, DrainWord(c, q) PROVE Others(c) /\ cfg' = cfg
  BY <1>7 DEF DrainWord
<1>8. ASSUME NEW m \in marks[c], Publish(c, m) PROVE Others(c) /\ cfg' = cfg
  BY <1>8 DEF Publish
<1>9. CASE EnqueueAccum(c)
  BY <1>9 DEF EnqueueAccum
<1>10. CASE Published(c)
  BY <1>10 DEF Published
<1>11. CASE DrainEnds(c)
  BY <1>11 DEF DrainEnds
<1>12. CASE ProgressLoop(c)
  BY <1>12 DEF ProgressLoop
<1>13. CASE ClaimNext(c)
  BY <1>13 DEF ClaimNext
<1>14. CASE Scan(c)
  BY <1>14 DEF Scan
<1>15. CASE TryReady(c)
  BY <1>15 DEF TryReady
<1>16. CASE EnqueueReady(c)
  BY <1>16 DEF EnqueueReady
<1>17. CASE Pop(c)
  BY <1>17 DEF Pop
<1>18. CASE PopWait(c)
  BY <1>18 DEF PopWait
<1>19. CASE Check(c)
  BY <1>19 DEF Check
<1>20. CASE AccumPop(c)
  BY <1>20 DEF AccumPop
<1>21. CASE AccumWait(c)
  BY <1>21 DEF AccumWait
<1>22. CASE AccumLock(c)
  BY <1>22 DEF AccumLock
<1>23. CASE AccumStore(c)
  BY <1>23 DEF AccumStore
<1>24. CASE AccumCount(c)
  BY <1>24 DEF AccumCount
<1>25. CASE WaitPrereqs(c)
  BY <1>25 DEF WaitPrereqs
<1>26. CASE Reduce(c)
  BY <1>26 DEF Reduce
<1> QED
  BY <1>1, <1>2, <1>3, <1>4, <1>5, <1>6, <1>7, <1>8, <1>9, <1>10, <1>11, <1>12, <1>13,
     <1>14, <1>15, <1>16, <1>17, <1>18, <1>19, <1>20, <1>21, <1>22, <1>23, <1>24, <1>25,
     <1>26 DEF Cta

LEMMA NextTaskNat ==
    ASSUME cfg \in Configs, NEW c, NEW t \in Nat PROVE NextTask(c, t) \in Nat
<1> DEFINE W == NumBlocksOfWork
           U == {u \in t..(W - 1) : (u - t) % Stride(c) = 0 /\ SliceOf(u, c[1]) = Dev}
<1>1. W \in Nat
  BY WorkIsNat
<1>2. {W} \cup U \in SUBSET Nat /\ {W} \cup U # {}
  BY <1>1
<1>3. NextTask(c, t) = Min({W} \cup U)
  BY DEF NextTask
<1> HIDE DEF W, U
<1> QED
  BY <1>2, <1>3, MinIsLeast

\* A chunk taken by a send CTA was signalled and not taken before.
LEMMA TakenChunk ==
    ASSUME IInv, NEW c \in Ctas, TakeReady(c)
    PROVE  LET s == SendId(c)
               idx == Min(ready_bits[s])
               ch == Decode(s, idx)
           IN  /\ IsSend(c) /\ s \in Senders /\ idx \in ready_bits[s]
               /\ ch \in Chunks /\ SenderOf(ch) = s /\ QueueIdx(ch) = idx
               /\ Full(ch) /\ ch \notin sender_done
<1> DEFINE s == SendId(c)
           idx == Min(ready_bits[s])
<1>1. cfg \in Configs /\ pc[c] = "send" /\ ready_bits[s] # {}
  BY DEF IInv, TypeOK, TakeReady, At
<1>2. IsSend(c) /\ s \in Senders
  BY <1>1, CtaFacts DEF IInv, PlaceInv
<1>3. ready_bits[s] \in SUBSET Nat
  BY <1>2 DEF IInv, TypeOK, CountTypes
<1>4. idx \in ready_bits[s]
  BY <1>1, <1>3, MinIsLeast
<1>5. PICK ch \in Chunks : /\ SenderOf(ch) = s /\ QueueIdx(ch) = idx
                           /\ Full(ch) /\ ch \notin sender_done
  BY <1>2, <1>4 DEF IInv, SendInv, BitInv
<1>6. Decode(s, idx) = ch
  BY <1>1, <1>5, DecodeBack
<1> QED
  BY <1>2, <1>4, <1>5, <1>6

\* What a CTA drains from a queue has arrived.
LEMMA DrainedArrived ==
    ASSUME IInv, NEW c \in Ctas, NEW q \in Queues, DrainWord(c, q)
    PROVE  marks'[c] \subseteq arrived
<1> DEFINE i == arrival_queue_head[q] + 1
<1>1. /\ cfg \in Configs /\ queue[q] \in Seq([tile : Nat, run : Nat])
      /\ arrival_queue_head[q] \in Nat /\ arrived \subseteq Works
      /\ marks \in [Ctas -> SUBSET Works]
  BY DEF IInv, TypeOK, ArrivalTypes, CtaTypes
<1>2. arrival_queue_head[q] < Len(queue[q])
  BY DEF DrainWord, Waiting
<1>3. i \in DOMAIN queue[q]
  BY <1>1, <1>2
<1>4. PICK w \in arrived : queue[q][i] = Word(w)
  BY <1>3 DEF IInv, ArrivalInv
<1>5. \A m \in Covered(queue[q][i]) : m = w
  BY <1>1, <1>4, WordCovers
<1>6. marks'[c] = {m \in Covered(queue[q][i]) : Owns(m[2])}
  BY <1>1 DEF DrainWord
<1> HIDE DEF i
<1> QED
  BY <1>4, <1>5, <1>6

\* The queues never hold more than they have slots for.
LEMMA QueuesSuffice ==
    ASSUME IInv
    PROVE  /\ ReadyQueue => ready_tail <= TotalChunks
           /\ Incremental => accum_tail <= TotalChunks * NumPeers
           /\ TotalChunks * NumPeers \in Nat
           /\ IsFiniteSet({ch \in Chunks : Claimed(ch)})
           /\ IsFiniteSet({w \in Works : Masked(w)})
<1>1. cfg \in Configs
  BY DEF IInv, TypeOK
<1>2. /\ IsFiniteSet(Chunks) /\ Cardinality(Chunks) = TotalChunks /\ TotalChunks \in Nat
      /\ IsFiniteSet(Peers) /\ Cardinality(Peers) = NumPeers /\ NumPeers \in Nat
  BY <1>1, ChunkNumbers
<1>3. IsFiniteSet(Works) /\ Cardinality(Works) = TotalChunks * NumPeers
  <2>1. IsFiniteSet(Works) /\ Cardinality(Works) = Cardinality(Peers) * Cardinality(Chunks)
    BY <1>2, FS_Product DEF Works
  <2>2. NumPeers * TotalChunks = TotalChunks * NumPeers
    BY <1>2
  <2> QED
    BY <1>2, <2>1, <2>2
<1>4. /\ IsFiniteSet({ch \in Chunks : Claimed(ch)})
      /\ Cardinality({ch \in Chunks : Claimed(ch)}) <= TotalChunks
  BY <1>2, FS_Subset
<1>5. /\ IsFiniteSet({w \in Works : Masked(w)})
      /\ Cardinality({w \in Works : Masked(w)}) <= TotalChunks * NumPeers
  BY <1>3, FS_Subset
<1>6. TotalChunks * NumPeers \in Nat
  BY <1>2
<1> QED
  BY <1>4, <1>5, <1>6 DEF IInv, ReadyInv, ReadyTailInv, AccumInv, AccumTailInv

\* What a CTA that has claimed a slot finds there.
LEMMA PoppedChunk ==
    ASSUME IInv, NEW c \in Ctas, pc[c] = "pop_wait"
    PROVE  /\ slot[c] \in 0..(TotalChunks - 1) /\ slot[c] < ready_head /\ ReadyQueue
           /\ ready_slots[slot[c]] # 0 =>
                ready_slots[slot[c]] - 1 \in Chunks /\ Claimed(ready_slots[slot[c]] - 1)
<1>1. ReadyQueue
  BY DEF IInv, PlaceInv
<1>2. slot[c] < ready_head /\ slot[c] \in Nat /\ ready_head \in Nat /\ ready_tail \in Nat
      /\ ready_head <= ready_tail
  BY DEF IInv, ReadyInv, ReadyPopInv, ReadyTailInv, TypeOK, CtaTypes, ReduceTypes
<1>3. TotalChunks \in Nat /\ ready_tail <= TotalChunks
  BY <1>1, QueuesSuffice, ChunkNumbers DEF IInv, TypeOK
<1>4. slot[c] \in 0..(TotalChunks - 1)
  BY <1>2, <1>3
<1> QED
  BY <1>1, <1>2, <1>4 DEF IInv, ReadyInv, ReadySlotInv

LEMMA PoppedWork ==
    ASSUME IInv, NEW c \in Ctas, pc[c] = "accum_wait"
    PROVE  /\ slot[c] \in 0..(TotalChunks * NumPeers - 1) /\ slot[c] < accum_head
           /\ Incremental
           /\ accum_slots[slot[c]] # <<>> =>
                accum_slots[slot[c]] \in Works /\ Masked(accum_slots[slot[c]])
<1>1. Incremental
  BY DEF IInv, PlaceInv
<1>2. slot[c] < accum_head /\ slot[c] \in Nat /\ accum_head \in Nat /\ accum_tail \in Nat
      /\ accum_head <= accum_tail
  BY DEF IInv, AccumInv, AccumPopInv, AccumTailInv, TypeOK, CtaTypes, ReduceTypes
<1>3. TotalChunks * NumPeers \in Nat /\ accum_tail <= TotalChunks * NumPeers
  BY <1>1, QueuesSuffice
<1> DEFINE n == TotalChunks * NumPeers
<1> HIDE DEF n
<1>4. n \in Nat /\ accum_tail <= n
  BY <1>3 DEF n
<1>5. slot[c] \in 0..(n - 1)
  BY <1>2, <1>4
<1>6. slot[c] \in 0..(TotalChunks * NumPeers - 1)
  BY <1>5 DEF n
<1>7. accum_slots[slot[c]] \in {<<>>} \cup Works
  BY <1>6 DEF IInv, TypeOK, ReduceTypes
<1> QED
  BY <1>1, <1>2, <1>6, <1>7 DEF IInv, AccumInv, AccumSlotInv

-----------------------------------------------------------------------------
\* Types are kept.

LEMMA CtaTypesStep ==
    ASSUME IInv, NEW c \in Ctas, Cta(c)
    PROVE  CtaTypes'
<1>0. CtaTypes /\ cfg \in Configs /\ cfg' = cfg
  BY OthersStay DEF IInv, TypeOK
<1>00. Ctas' = Ctas /\ Peers' = Peers /\ Works' = Works
  BY <1>0, LaunchStays
<1>c. /\ pc' \in [Ctas -> Places] /\ task' \in [Ctas -> Nat] /\ did' \in [Ctas -> SUBSET Halves]
      /\ chunk' \in [Ctas -> Nat] /\ peer' \in [Ctas -> Nat] /\ slot' \in [Ctas -> Nat]
      /\ marks' \in [Ctas -> SUBSET Works] /\ copy' \in [Ctas -> [Peers -> Nat]]
      => CtaTypes'
  BY <1>00 DEF CtaTypes
<1> DEFINE Goal == /\ pc' \in [Ctas -> Places] /\ task' \in [Ctas -> Nat]
                   /\ did' \in [Ctas -> SUBSET Halves] /\ chunk' \in [Ctas -> Nat]
                   /\ peer' \in [Ctas -> Nat] /\ slot' \in [Ctas -> Nat]
                   /\ marks' \in [Ctas -> SUBSET Works] /\ copy' \in [Ctas -> [Peers -> Nat]]
<1>t. \A t \in Nat : NextTask(c, t) \in Nat /\ Stride(c) \in Nat
  BY <1>0, NextTaskNat, CtaFacts
<1>n. /\ ready_tail \in Nat /\ ready_head \in Nat /\ accum_tail \in Nat /\ accum_head \in Nat
      /\ scan \in Nat /\ next_reduce \in Nat /\ TotalChunks \in Nat \ {0}
      /\ Chunks \subseteq Nat /\ Peers \subseteq Nat
      /\ accum \in [Chunks -> [Peers -> Nat]]
  BY <1>0, ChunkNumbers DEF IInv, TypeOK, ReduceTypes
<1> USE DEF At, Goes, Takes, computing, sending, arriving, draining, readyq, accumq, adding,
            done, local
<1>1. ASSUME StoreTile(c) \/ CountTile(c) PROVE Goal
  <2>1. PICK half \in Halves : Finish(c, half)
    BY <1>1 DEF StoreTile, CountTile, Halves
  <2>2. UNCHANGED <<pc, chunk, peer, slot, marks, copy>>
    BY <1>1 DEF StoreTile, CountTile
  <2>a. NextTask(c, task[c] + Stride(c)) \in Nat
    <3>1. task[c] + Stride(c) \in Nat
      BY <1>0, <1>t DEF CtaTypes
    <3> QED
      BY <3>1, <1>t
  <2>3. task' \in [Ctas -> Nat]
    BY <1>0, <2>1, <2>a DEF Finish, CtaTypes
  <2>4. did' \in [Ctas -> SUBSET Halves]
    BY <1>0, <2>1 DEF Finish, CtaTypes
  <2> QED
    BY <1>0, <2>2, <2>3, <2>4 DEF CtaTypes
<1>2. ASSUME ComputeEnds(c) \/ PushChunk(c) \/ SendEnds(c) \/ EnqueueAccum(c) \/ Published(c)
             \/ DrainEnds(c) \/ ProgressLoop(c) \/ EnqueueReady(c) \/ Check(c)
             \/ AccumStore(c) \/ WaitPrereqs(c) \/ Reduce(c)
      PROVE  Goal
  <2>1. UNCHANGED <<task, did, chunk, peer, slot, marks, copy>>
    BY <1>2 DEF ComputeEnds, PushChunk, SendEnds, EnqueueAccum, Published, DrainEnds,
                ProgressLoop, EnqueueReady, Check, AccumStore, WaitPrereqs, Reduce
  <2>2. \E to \in Places : pc' = [pc EXCEPT ![c] = to]
    BY <1>2 DEF ComputeEnds, PushChunk, SendEnds, EnqueueAccum, Published, DrainEnds, Places,
                ProgressLoop, EnqueueReady, Check, AccumStore, WaitPrereqs, Reduce
  <2> QED
    BY <1>0, <2>1, <2>2 DEF CtaTypes
<1>3. ASSUME TakeReady(c) PROVE Goal
  <2>1. chunk' = [chunk EXCEPT ![c] = Decode(SendId(c), Min(ready_bits[SendId(c)]))]
    BY <1>3 DEF TakeReady, Decode
  <2>2. Decode(SendId(c), Min(ready_bits[SendId(c)])) \in Nat
    BY <1>3, <1>n, TakenChunk
  <2> QED
    BY <1>0, <1>3, <2>1, <2>2 DEF TakeReady, CtaTypes, Places
<1>4. ASSUME NEW q \in Queues, DrainWord(c, q) PROVE Goal
  <2>1. marks'[c] \subseteq Works
    BY <1>4, DrainedArrived DEF IInv, TypeOK, ArrivalTypes
  <2>2. \E M : marks' = [marks EXCEPT ![c] = M]
    BY <1>4 DEF DrainWord
  <2>3. marks' \in [Ctas -> SUBSET Works]
    BY <1>0, <2>1, <2>2 DEF CtaTypes
  <2>4. UNCHANGED <<task, did, chunk, peer, slot, copy>> /\ pc' = [pc EXCEPT ![c] = "publish"]
    BY <1>4 DEF DrainWord
  <2> QED
    BY <1>0, <2>3, <2>4 DEF CtaTypes, Places
<1>5. ASSUME NEW m \in marks[c], Publish(c, m) PROVE Goal
  <2>0. m \in Works
    BY <1>0 DEF CtaTypes
  <2>1. m[1] \in Nat /\ m[2] \in Nat
    BY <1>n, <2>0 DEF Works
  <2> QED
    BY <1>0, <1>5, <1>n, <2>1 DEF Publish, CtaTypes, Places
<1>6. ASSUME ClaimNext(c) PROVE Goal
  BY <1>0, <1>6, <1>n DEF ClaimNext, CtaTypes, Places
<1>7. ASSUME Scan(c) PROVE Goal
  <2>1. Max({1, Progress}) \in Nat \ {0}
    BY <1>0, ProgressFacts
  <2> DEFINE n == Max({1, Progress})
  <2>2. scan % TotalChunks \in Nat /\ scan % n \in Nat
    BY <1>n, <2>1, Divides
  <2> HIDE DEF n
  <2>3. /\ chunk' = [chunk EXCEPT ![c] = scan % TotalChunks]
        /\ slot' = [slot EXCEPT ![c] = scan % n]
        /\ UNCHANGED <<task, did, peer, marks, copy>>
        /\ \E to \in Places : pc' = [pc EXCEPT ![c] = to]
    BY <1>7 DEF Scan, Places, n
  <2> QED
    BY <1>0, <2>2, <2>3 DEF CtaTypes
<1>8. ASSUME TryReady(c) PROVE Goal
  BY <1>0, <1>8, <1>n DEF TryReady, CtaTypes, Places
<1>9. ASSUME Pop(c) PROVE Goal
  BY <1>0, <1>9, <1>n DEF Pop, CtaTypes, Places
<1>10. ASSUME PopWait(c) PROVE Goal
  <2>1. ready_slots[slot[c]] - 1 \in Nat
    BY <1>10, <1>n, PoppedChunk DEF PopWait
  <2> QED
    BY <1>0, <1>10, <2>1 DEF PopWait, CtaTypes, Places
<1>11. ASSUME AccumPop(c) PROVE Goal
  BY <1>0, <1>11, <1>n DEF AccumPop, CtaTypes, Places
<1>12. ASSUME AccumWait(c) PROVE Goal
  <2>1. accum_slots[slot[c]][1] \in Nat /\ accum_slots[slot[c]][2] \in Nat
    BY <1>12, <1>n, PoppedWork DEF AccumWait, Works
  <2> QED
    BY <1>0, <1>12, <2>1 DEF AccumWait, CtaTypes, Places
<1>13. ASSUME AccumLock(c) PROVE Goal
  <2>1. accum[chunk[c]] \in [Peers -> Nat]
    <3>1. Work(c) \in Works
      BY <1>13 DEF AccumLock, IInv, AccumHoldInv, Adds
    <3> QED
      BY <1>n, <3>1 DEF Work, Works
  <2> QED
    BY <1>0, <1>13, <2>1 DEF AccumLock, CtaTypes, Places
<1>14. ASSUME AccumCount(c) PROVE Goal
  BY <1>0, <1>14, <1>n DEF AccumCount, CtaTypes, Places
<1> HIDE DEF Goal
<1> QED
  BY <1>1, <1>2, <1>3, <1>4, <1>5, <1>6, <1>7, <1>8, <1>9, <1>10, <1>11, <1>12, <1>13, <1>14,
     <1>c DEF Cta, Goal

LEMMA CountTypesStep ==
    ASSUME IInv, NEW c \in Ctas, Cta(c)
    PROVE  CountTypes'
<1>0. CountTypes /\ cfg \in Configs /\ cfg' = cfg
  BY OthersStay DEF IInv, TypeOK
<1>00. /\ Gpus' = Gpus /\ Peers' = Peers /\ Works' = Works /\ Chunks' = Chunks
       /\ Senders' = Senders
  BY <1>0, LaunchStays
<1> USE DEF At, Goes, Takes, computing, sending, arriving, draining, readyq, accumq, adding,
            done, local
<1>1. ASSUME CountTile(c) PROVE CountTypes'
  <2> DEFINE ch == ChunkOf(task[c])
  <2>1. comp_gemm_done' = [comp_gemm_done EXCEPT ![c[1]][ch] = @ + 1]
        /\ (\E k \in {0, 1} : ready_count' = [ready_count EXCEPT ![ch] = @ + k])
        /\ (ready_bits' = ready_bits
              \/ ready_bits' = [ready_bits EXCEPT ![SenderOf(ch)] = @ \cup {QueueIdx(ch)}])
        /\ UNCHANGED <<sender_done, pushed, sent>>
    BY <1>1 DEF CountTile
  <2>2. ch \in Nat
    <3>1. task[c] \in Nat
      BY DEF IInv, TypeOK, CtaTypes
    <3> DEFINE t == task[c]
    <3> HIDE DEF t
    <3>2. t \in Nat
      BY <3>1 DEF t
    <3>3. c[1] \in Gpus
      BY <1>0, CtaFacts
    <3>4. RowOf(t) \in Nat /\ ColOf(t) \in Nat
      BY <1>0, <3>2, <3>3, TaskParts
    <3>5. ChunksPerRow \in Nat /\ ChunkTiles \in Nat \ {0}
      BY <1>0, ChunkFacts
    <3>6. ColOf(t) \div ChunkTiles \in Nat
      BY <3>4, <3>5, Divides
    <3> DEFINE x == RowOf(t)
               y == ChunksPerRow
               z == ColOf(t) \div ChunkTiles
    <3> HIDE DEF x, y, z
    <3>7. x \in Nat /\ y \in Nat /\ z \in Nat
      BY <3>4, <3>5, <3>6 DEF x, y, z
    <3>8. x * y + z \in Nat
      BY <3>7
    <3> QED
      BY <3>8 DEF ChunkOf, x, y, z, t
  <2>3. QueueIdx(ch) \in Nat
    <3> HIDE DEF ch
    <3>1. ChunksPerRow \in Nat \ {0} /\ cfg.num_send \in Nat \ {0}
      BY <1>0, ChunkFacts, LaunchFacts
    <3>2. ch \div ChunksPerRow \in Nat /\ ch % ChunksPerRow \in Nat
      BY <2>2, <3>1, Divides
    <3>3. (ch \div ChunksPerRow) \div cfg.num_send \in Nat
      BY <3>1, <3>2, Divides
    <3> DEFINE x == (ch \div ChunksPerRow) \div cfg.num_send
               y == ChunksPerRow
               z == ch % ChunksPerRow
    <3> HIDE DEF x, y, z
    <3>4. x \in Nat /\ y \in Nat /\ z \in Nat
      BY <3>1, <3>2, <3>3 DEF x, y, z
    <3>5. x * y + z \in Nat
      BY <3>4
    <3> QED
      BY <3>5 DEF QueueIdx, x, y, z
  <2> HIDE DEF ch
  <2>4. comp_gemm_done' \in [Gpus -> [Chunks -> Nat]]
    <3> DEFINE f == comp_gemm_done[c[1]]
               g == [f EXCEPT ![ch] = @ + 1]
    <3>1. f \in [Chunks -> Nat]
      BY <1>0, CtaFacts DEF CountTypes
    <3>2. comp_gemm_done' = [comp_gemm_done EXCEPT ![c[1]] = g]
      BY <2>1
    <3> HIDE DEF f
    <3>3. g = [x \in Chunks |-> IF x = ch THEN f[x] + 1 ELSE f[x]]
      BY <3>1
    <3>4. \A x \in Chunks : f[x] \in Nat
      BY <3>1
    <3> HIDE DEF g
    <3>5. g \in [Chunks -> Nat]
      <4>1. \A x \in Chunks : (IF x = ch THEN f[x] + 1 ELSE f[x]) \in Nat
        BY <3>4
      <4> QED
        BY <3>3, <4>1
    <3> QED
      BY <1>0, <3>2, <3>5 DEF CountTypes
  <2>5. ready_count' \in [Chunks -> Nat]
    <3>1. PICK k \in {0, 1} : ready_count' = [ready_count EXCEPT ![ch] = @ + k]
      BY <2>1
    <3>2. ready_count \in [Chunks -> Nat]
      BY <1>0 DEF CountTypes
    <3>3. ready_count' = [x \in Chunks |-> IF x = ch THEN ready_count[x] + k ELSE ready_count[x]]
      BY <3>1, <3>2
    <3>4. \A x \in Chunks : (IF x = ch THEN ready_count[x] + k ELSE ready_count[x]) \in Nat
      BY <3>1, <3>2
    <3> QED
      BY <3>3, <3>4
  <2>6. ready_bits' \in [Senders -> SUBSET Nat]
    BY <1>0, <2>1, <2>3 DEF CountTypes
  <2> QED
    BY <1>0, <1>00, <2>1, <2>4, <2>5, <2>6 DEF CountTypes
<1>2. ASSUME TakeReady(c) PROVE CountTypes'
  <2> DEFINE ch == Decode(SendId(c), Min(ready_bits[SendId(c)]))
  <2>1. /\ sender_done' = sender_done \cup {ch}
        /\ \E n : ready_bits' = [ready_bits EXCEPT ![SendId(c)] = @ \ {n}]
        /\ UNCHANGED <<comp_gemm_done, ready_count, pushed, sent>>
    BY <1>2 DEF TakeReady, Decode
  <2>2. ch \in Chunks
    BY <1>2, TakenChunk
  <2> QED
    BY <1>0, <1>00, <2>1, <2>2 DEF CountTypes
<1>3. ASSUME PushChunk(c) PROVE CountTypes'
  <2>1. chunk[c] \in Chunks
    BY <1>0, <1>3 DEF PushChunk, IInv, SendInv, PushInv, CountTypes
  <2>2. \A p \in Receivers(chunk[c]) : p \in Peers
    BY DEF Receivers
  <2>3. pushed' \in SUBSET Works
    BY <1>0, <1>3, <2>1, <2>2 DEF PushChunk, CountTypes, Works
  <2>4. UNCHANGED <<comp_gemm_done, ready_count, ready_bits, sender_done, sent>>
    BY <1>3 DEF PushChunk
  <2> QED
    BY <1>0, <1>00, <2>3, <2>4 DEF CountTypes
<1>4. ASSUME UNCHANGED <<comp_gemm_done, ready_count, ready_bits, sender_done, pushed, sent>>
      PROVE  CountTypes'
  BY <1>0, <1>00, <1>4 DEF CountTypes
<1>5. StoreTile(c) \/ ComputeEnds(c) \/ SendEnds(c) \/ EnqueueAccum(c) \/ Published(c)
      \/ DrainEnds(c) \/ ProgressLoop(c) \/ EnqueueReady(c) \/ Check(c)
        => UNCHANGED <<comp_gemm_done, ready_count, ready_bits, sender_done, pushed, sent>>
  BY DEF StoreTile, ComputeEnds, SendEnds, EnqueueAccum, Published, DrainEnds, ProgressLoop,
         EnqueueReady, Check
<1>6. (\E q \in Queues : DrainWord(c, q)) \/ (\E m \in marks[c] : Publish(c, m))
      \/ ClaimNext(c) \/ Scan(c) \/ TryReady(c) \/ Pop(c) \/ PopWait(c)
        => UNCHANGED <<comp_gemm_done, ready_count, ready_bits, sender_done, pushed, sent>>
  BY DEF DrainWord, Publish, ClaimNext, Scan, TryReady, Pop, PopWait
<1>7. AccumPop(c) \/ AccumWait(c) \/ AccumLock(c) \/ AccumStore(c) \/ AccumCount(c)
      \/ WaitPrereqs(c) \/ Reduce(c)
        => UNCHANGED <<comp_gemm_done, ready_count, ready_bits, sender_done, pushed, sent>>
  BY DEF AccumPop, AccumWait, AccumLock, AccumStore, AccumCount, WaitPrereqs, Reduce
<1> QED
  BY <1>1, <1>2, <1>3, <1>4, <1>5, <1>6, <1>7 DEF Cta

LEMMA ArrivalTypesStep ==
    ASSUME IInv, NEW c \in Ctas, Cta(c)
    PROVE  ArrivalTypes'
<1>0. ArrivalTypes /\ cfg \in Configs /\ cfg' = cfg
  BY OthersStay DEF IInv, TypeOK
<1>00. Peers' = Peers /\ Works' = Works /\ Chunks' = Chunks /\ Queues' = Queues
  BY <1>0, LaunchStays
<1> USE DEF At, Goes, Takes, computing, sending, arriving, draining, readyq, accumq, adding,
            done, local
<1>1. ASSUME NEW q \in Queues, DrainWord(c, q) PROVE ArrivalTypes'
  BY <1>0, <1>00, <1>1 DEF DrainWord, ArrivalTypes
<1>2. ASSUME NEW m \in marks[c], Publish(c, m) PROVE ArrivalTypes'
  <2>1. m \in Works
    BY DEF IInv, TypeOK, CtaTypes
  <2>2. m[1] \in Peers /\ m[2] \in Chunks
    BY <2>1 DEF Works
  <2>3. /\ peer_mask' = [peer_mask EXCEPT ![m[2]] = @ \cup {m[1]}]
        /\ (remote_arrived_flag' = remote_arrived_flag
              \/ remote_arrived_flag' = [remote_arrived_flag EXCEPT ![m[2]] = 1])
        /\ UNCHANGED <<arrived, queue, arrival_queue_head>>
    BY <1>2 DEF Publish
  <2> QED
    BY <1>0, <1>00, <2>2, <2>3 DEF ArrivalTypes
<1>3. ASSUME TryReady(c) \/ WaitPrereqs(c) PROVE ArrivalTypes'
  <2>1. /\ (\/ remote_arrived_flag' = remote_arrived_flag
            \/ \E k \in {1, 2} : remote_arrived_flag' = [remote_arrived_flag EXCEPT ![chunk[c]] = k])
        /\ UNCHANGED <<arrived, queue, arrival_queue_head, peer_mask>>
    BY <1>3 DEF TryReady, WaitPrereqs
  <2> QED
    BY <1>0, <1>00, <2>1 DEF ArrivalTypes
<1>4. ASSUME UNCHANGED <<arrived, queue, arrival_queue_head, peer_mask, remote_arrived_flag>>
      PROVE  ArrivalTypes'
  BY <1>0, <1>00, <1>4 DEF ArrivalTypes
<1>5. StoreTile(c) \/ CountTile(c) \/ ComputeEnds(c) \/ TakeReady(c) \/ PushChunk(c) \/ SendEnds(c)
      \/ EnqueueAccum(c) \/ Published(c) \/ DrainEnds(c) \/ ProgressLoop(c)
        => UNCHANGED <<arrived, queue, arrival_queue_head, peer_mask, remote_arrived_flag>>
  BY DEF StoreTile, CountTile, ComputeEnds, TakeReady, PushChunk, SendEnds, EnqueueAccum,
         Published, DrainEnds, ProgressLoop
<1>6. EnqueueReady(c) \/ Check(c) \/ ClaimNext(c) \/ Scan(c) \/ Pop(c) \/ PopWait(c)
        => UNCHANGED <<arrived, queue, arrival_queue_head, peer_mask, remote_arrived_flag>>
  BY DEF EnqueueReady, Check, ClaimNext, Scan, Pop, PopWait
<1>7. AccumPop(c) \/ AccumWait(c) \/ AccumLock(c) \/ AccumStore(c) \/ AccumCount(c) \/ Reduce(c)
        => UNCHANGED <<arrived, queue, arrival_queue_head, peer_mask, remote_arrived_flag>>
  BY DEF AccumPop, AccumWait, AccumLock, AccumStore, AccumCount, Reduce
<1> QED
  BY <1>1, <1>2, <1>3, <1>4, <1>5, <1>6, <1>7 DEF Cta

LEMMA ReduceTypesStep ==
    ASSUME IInv, NEW c \in Ctas, Cta(c)
    PROVE  ReduceTypes'
<1>0. ReduceTypes /\ cfg \in Configs /\ cfg' = cfg
  BY OthersStay DEF IInv, TypeOK
<1>00. Peers' = Peers /\ Works' = Works /\ Chunks' = Chunks /\ TotalChunks' = TotalChunks
       /\ NumPeers' = NumPeers
  BY <1>0, LaunchStays
<1>n. chunk[c] \in Nat /\ slot[c] \in Nat /\ peer[c] \in Nat
  BY DEF IInv, TypeOK, CtaTypes
<1> DEFINE lists == <<next_reduce, scan, output>>
           ready == <<ready_slots, ready_head, ready_tail>>
           acc == <<accum_slots, accum_head, accum_tail>>
           sums == <<accum, accum_lock, accum_done, chunk_reduce_done>>
<1> USE DEF At, Goes, Takes, computing, sending, arriving, draining, readyq, accumq, adding,
            done, local
<1>1. ASSUME NEW m \in marks[c], Publish(c, m) PROVE ReduceTypes'
  <2>1. UNCHANGED <<lists, ready, sums, accum_slots, accum_head>>
        /\ accum_tail' \in {accum_tail, accum_tail + 1}
    BY <1>1 DEF Publish
  <2> QED
    BY <1>0, <1>00, <2>1 DEF ReduceTypes
<1>2. ASSUME EnqueueAccum(c) PROVE ReduceTypes'
  <2>1. UNCHANGED <<lists, ready, sums, accum_head, accum_tail>>
        /\ (accum_slots' = accum_slots
              \/ accum_slots' = [accum_slots EXCEPT ![slot[c]] = <<peer[c], chunk[c]>>])
    BY <1>2 DEF EnqueueAccum
  <2>2. <<peer[c], chunk[c]>> \in Works
    BY <1>2 DEF EnqueueAccum, IInv, AccumInv, AccumEnqInv, Work
  <2> HIDE DEF lists, ready, sums
  <2>3. accum_slots' \in [0..(TotalChunks * NumPeers - 1) -> {<<>>} \cup Works]
    BY <1>0, <2>1, <2>2 DEF ReduceTypes
  <2> QED
    BY <1>0, <1>00, <2>1, <2>3 DEF ReduceTypes, lists, ready, sums
<1>3. ASSUME ClaimNext(c) PROVE ReduceTypes'
  <2>1. UNCHANGED <<ready, acc, sums, scan, output>> /\ next_reduce' = next_reduce + 1
    BY <1>3 DEF ClaimNext
  <2> QED
    BY <1>0, <1>00, <2>1 DEF ReduceTypes
<1>4. ASSUME Scan(c) PROVE ReduceTypes'
  <2> DEFINE n == TotalChunks * Max({1, Progress})
  <2>1. UNCHANGED <<ready, acc, sums, next_reduce, output>> /\ scan' \in {scan, (scan + 1) % n}
    BY <1>4 DEF Scan
  <2>2. n \in Nat \ {0}
    <3> DEFINE a == TotalChunks
               b == Max({1, Progress})
    <3>1. a \in Nat \ {0} /\ b \in Nat \ {0}
      BY <1>0, ProgressFacts, ChunkNumbers
    <3> HIDE DEF a, b
    <3>2. a * b \in Nat \ {0}
      BY <3>1
    <3> QED
      BY <3>2 DEF a, b
  <2> HIDE DEF n
  <2>3. (scan + 1) % n \in Nat
    BY <1>0, <2>2, Divides DEF ReduceTypes
  <2> QED
    BY <1>0, <1>00, <2>1, <2>3 DEF ReduceTypes
<1>5. ASSUME TryReady(c) PROVE ReduceTypes'
  <2>1. UNCHANGED <<lists, acc, sums, ready_slots, ready_head>>
        /\ ready_tail' \in {ready_tail, ready_tail + 1}
    BY <1>5 DEF TryReady
  <2> QED
    BY <1>0, <1>00, <2>1 DEF ReduceTypes
<1>6. ASSUME EnqueueReady(c) PROVE ReduceTypes'
  <2>1. UNCHANGED <<lists, acc, sums, ready_head, ready_tail>>
        /\ (ready_slots' = ready_slots
              \/ ready_slots' = [ready_slots EXCEPT ![slot[c]] = chunk[c] + 1])
    BY <1>6 DEF EnqueueReady
  <2> HIDE DEF lists, acc, sums
  <2>2. ready_slots' \in [0..(TotalChunks - 1) -> Nat]
    BY <1>0, <1>n, <2>1 DEF ReduceTypes
  <2> QED
    BY <1>0, <1>00, <2>1, <2>2 DEF ReduceTypes, lists, acc, sums
<1>7. ASSUME Pop(c) PROVE ReduceTypes'
  <2>1. UNCHANGED <<lists, acc, sums, ready_slots, ready_tail>>
        /\ ready_head' \in {ready_head, ready_head + 1}
    BY <1>7 DEF Pop
  <2> QED
    BY <1>0, <1>00, <2>1 DEF ReduceTypes
<1>8. ASSUME AccumPop(c) PROVE ReduceTypes'
  <2>1. UNCHANGED <<lists, ready, sums, accum_slots, accum_tail>>
        /\ accum_head' \in {accum_head, accum_head + 1}
    BY <1>8 DEF AccumPop
  <2> QED
    BY <1>0, <1>00, <2>1 DEF ReduceTypes
<1>a. Adds(c) => peer[c] \in Peers /\ chunk[c] \in Chunks
  <2>1. Adds(c) => Work(c) \in Works
    BY DEF IInv, AccumHoldInv
  <2> QED
    BY <2>1 DEF Work, Works
<1>9. ASSUME AccumLock(c) PROVE ReduceTypes'
  <2>1. UNCHANGED <<lists, ready, acc, accum, accum_done, chunk_reduce_done>>
        /\ accum_lock' = accum_lock \cup {chunk[c]}
    BY <1>9 DEF AccumLock
  <2>2. chunk[c] \in Chunks
    BY <1>9, <1>a DEF AccumLock, Adds
  <2> QED
    BY <1>0, <1>00, <2>1, <2>2 DEF ReduceTypes
<1>10. ASSUME AccumStore(c) PROVE ReduceTypes'
  <2>1. UNCHANGED <<lists, ready, acc, accum_done, chunk_reduce_done>>
        /\ accum_lock' = accum_lock \ {chunk[c]}
        /\ \E k \in {0, 1} :
             accum' = [accum EXCEPT ![chunk[c]] = [copy[c] EXCEPT ![peer[c]] = @ + k]]
    BY <1>10 DEF AccumStore
  <2>2. copy[c] \in [Peers -> Nat]
    BY DEF IInv, TypeOK, CtaTypes
  <2>3. PICK k \in {0, 1} :
             accum' = [accum EXCEPT ![chunk[c]] = [copy[c] EXCEPT ![peer[c]] = @ + k]]
    BY <2>1
  <2>4. [copy[c] EXCEPT ![peer[c]] = @ + k] \in [Peers -> Nat]
    <3> DEFINE f == copy[c]
               g == [f EXCEPT ![peer[c]] = @ + k]
    <3> HIDE DEF f
    <3>1. f \in [Peers -> Nat] /\ k \in Nat
      BY <2>2 DEF f
    <3>2. g = [x \in Peers |-> IF x = peer[c] THEN f[x] + k ELSE f[x]]
      BY <3>1
    <3>3. \A x \in Peers : f[x] \in Nat
      BY <3>1
    <3>4. \A x \in Peers : (IF x = peer[c] THEN f[x] + k ELSE f[x]) \in Nat
      BY <3>1, <3>3
    <3> HIDE DEF g
    <3>5. g \in [Peers -> Nat]
      BY <3>2, <3>4
    <3> QED
      BY <3>5 DEF f, g
  <2>5. accum' \in [Chunks -> [Peers -> Nat]]
    BY <1>0, <2>3, <2>4 DEF ReduceTypes
  <2> QED
    BY <1>0, <1>00, <2>1, <2>5 DEF ReduceTypes
<1>11. ASSUME AccumCount(c) PROVE ReduceTypes'
  <2>1. UNCHANGED <<lists, acc, ready_slots, ready_head, accum, accum_lock>>
        /\ ready_tail' \in {ready_tail, ready_tail + 1}
        /\ accum_done' = [accum_done EXCEPT ![chunk[c]] = @ + 1]
        /\ chunk_reduce_done' \in {chunk_reduce_done, chunk_reduce_done \cup {chunk[c]}}
    BY <1>11 DEF AccumCount
  <2>2. chunk[c] \in Chunks
    BY <1>11, <1>a DEF AccumCount, Adds
  <2>3. accum_done' \in [Chunks -> Nat]
    BY <1>0, <2>1, <2>2 DEF ReduceTypes
  <2>4. chunk_reduce_done' \in SUBSET Chunks
    BY <1>0, <2>1, <2>2 DEF ReduceTypes
  <2> QED
    BY <1>0, <1>00, <2>1, <2>3, <2>4 DEF ReduceTypes
<1>12. ASSUME Reduce(c) PROVE ReduceTypes'
  <2> DEFINE ch == chunk[c]
             sum == IF Incremental THEN accum[ch]
                    ELSE [p \in Peers |-> IF <<p, ch>> \in arrived THEN 1 ELSE 0]
  <2>1. UNCHANGED <<ready, acc, sums, next_reduce, scan>>
        /\ output' = [output EXCEPT ![ch] = Append(@, sum)]
    BY <1>12 DEF Reduce
  <2>2. ch \in Chunks
    BY <1>12 DEF Reduce, IInv, HoldInv, Holds
  <2>3. sum \in [Peers -> Nat]
    BY <1>0, <2>2 DEF ReduceTypes
  <2> HIDE DEF sum, ch, ready, acc, sums
  <2>4. Append(output[ch], sum) \in Seq([Peers -> Nat])
    BY <1>0, <2>2, <2>3 DEF ReduceTypes
  <2>5. output' \in [Chunks -> Seq([Peers -> Nat])]
    BY <1>0, <2>1, <2>4 DEF ReduceTypes
  <2> QED
    BY <1>0, <1>00, <2>1, <2>5 DEF ReduceTypes, ready, acc, sums
<1>13. ASSUME UNCHANGED <<lists, ready, acc, sums>> PROVE ReduceTypes'
  BY <1>0, <1>00, <1>13 DEF ReduceTypes
<1>14. StoreTile(c) \/ CountTile(c) \/ ComputeEnds(c) \/ TakeReady(c) \/ PushChunk(c) \/ SendEnds(c)
       \/ Published(c) \/ DrainEnds(c) \/ ProgressLoop(c)
         => UNCHANGED <<lists, ready, acc, sums>>
  BY DEF StoreTile, CountTile, ComputeEnds, TakeReady, PushChunk, SendEnds, Published,
         DrainEnds, ProgressLoop
<1>15. (\E q \in Queues : DrainWord(c, q)) \/ Check(c) \/ PopWait(c) \/ AccumWait(c) \/ WaitPrereqs(c)
         => UNCHANGED <<lists, ready, acc, sums>>
  BY DEF DrainWord, Check, PopWait, AccumWait, WaitPrereqs
<1> QED
  BY <1>1, <1>2, <1>3, <1>4, <1>5, <1>6, <1>7, <1>8, <1>9, <1>10, <1>11, <1>12, <1>13,
     <1>14, <1>15 DEF Cta

\* The four kinds of steps.
LEMMA NextCases ==
    ASSUME IInv, [Next]_vars
    PROVE  \/ \E c \in Ctas : Cta(c)
           \/ \E m \in pushed : NicReads(m)
           \/ \E p \in Peers : \E ch \in Chunks : PeerWrites(p, ch)
           \/ UNCHANGED vars
<1>1. DOMAIN pc = Ctas
  BY DEF IInv, TypeOK, CtaTypes
<1> QED
  BY <1>1 DEF Next, Finished

\* The NIC and the peers leave the CTAs alone.
LEMMA EnvironmentStays ==
    ASSUME \/ \E m \in pushed : NicReads(m)
           \/ \E p \in Peers : \E ch \in Chunks : PeerWrites(p, ch)
           \/ UNCHANGED vars
    PROVE  /\ UNCHANGED <<cfg, pc, task, did, chunk, peer, slot, marks, copy>>
           /\ UNCHANGED <<comp_gemm_done, ready_count, ready_bits, sender_done>>
           /\ UNCHANGED <<arrival_queue_head, peer_mask, remote_arrived_flag>>
           /\ UNCHANGED <<next_reduce, scan, output, ready_slots, ready_head, ready_tail>>
           /\ UNCHANGED <<accum_slots, accum_head, accum_tail>>
           /\ UNCHANGED <<accum, accum_lock, accum_done, chunk_reduce_done>>
  BY DEF NicReads, PeerWrites, vars, computing, sending, arriving, draining, readyq, accumq,
         adding, done, local

LEMMA TypesStep ==
    ASSUME IInv, [Next]_vars
    PROVE  TypeOK'
<1>0. TypeOK /\ CtaTypes /\ CountTypes /\ ArrivalTypes /\ ReduceTypes
  BY DEF IInv, TypeOK
<1>1. ASSUME NEW c \in Ctas, Cta(c) PROVE TypeOK'
  BY <1>0, <1>1, OthersStay, CtaTypesStep, CountTypesStep, ArrivalTypesStep, ReduceTypesStep
     DEF TypeOK
<1>2. ASSUME \/ \E m \in pushed : NicReads(m)
             \/ \E p \in Peers : \E ch \in Chunks : PeerWrites(p, ch)
             \/ UNCHANGED vars
      PROVE  TypeOK'
  <2>1. /\ Ctas' = Ctas /\ Gpus' = Gpus /\ Senders' = Senders /\ Peers' = Peers
        /\ Chunks' = Chunks /\ Queues' = Queues /\ Works' = Works
        /\ TotalChunks' = TotalChunks /\ NumPeers' = NumPeers
    BY <1>2, EnvironmentStays, LaunchStays
  <2>2. CtaTypes' /\ cfg' \in Configs
    BY <1>0, <1>2, <2>1, EnvironmentStays DEF CtaTypes, TypeOK
  <2>3. ReduceTypes'
    BY <1>0, <1>2, <2>1, EnvironmentStays DEF ReduceTypes
  <2>4. CountTypes'
    <3>1. pushed' \subseteq pushed
      BY <1>2 DEF NicReads, PeerWrites, vars, sending
    <3>2. sent' \in SUBSET [to : Peers, chunk : Chunks, own : BOOLEAN, whole : BOOLEAN]
      <4>1. ASSUME NEW m \in pushed, NicReads(m)
            PROVE  sent' \in SUBSET [to : Peers, chunk : Chunks, own : BOOLEAN, whole : BOOLEAN]
        <5> DEFINE own == \A p \in Peers : accum[m[2]][p] = 0
                   whole == (0..(cfg.devices - 1)) \X TilesIn(m[2]) \subseteq stored
                   x == [to |-> m[1], chunk |-> m[2], own |-> own, whole |-> whole]
        <5>1. sent' = sent \cup {x}
          BY <4>1 DEF NicReads
        <5>2. m[1] \in Peers /\ m[2] \in Chunks
          BY <1>0 DEF CountTypes, Works
        <5>3. own \in BOOLEAN /\ whole \in BOOLEAN
          OBVIOUS
        <5> HIDE DEF own, whole
        <5>4. x \in [to : Peers, chunk : Chunks, own : BOOLEAN, whole : BOOLEAN]
          BY <5>2, <5>3
        <5> HIDE DEF x
        <5> QED
          BY <1>0, <5>1, <5>4 DEF CountTypes
      <4>2. UNCHANGED vars \/ (\E p \in Peers : \E ch \in Chunks : PeerWrites(p, ch))
              => sent' = sent
        BY DEF PeerWrites, vars, sending
      <4> QED
        BY <1>0, <1>2, <4>1, <4>2 DEF CountTypes
    <3> QED
      BY <1>0, <1>2, <2>1, <3>1, <3>2, EnvironmentStays DEF CountTypes
  <2>5. ArrivalTypes'
    <3>1. ASSUME NEW p \in Peers, NEW ch \in Chunks, PeerWrites(p, ch)
          PROVE  /\ arrived' \in SUBSET Works
                 /\ queue' \in [Queues -> Seq([tile : Nat, run : Nat])]
      <4> DEFINE v == Word(<<p, ch>>)
      <4>1. <<p, ch>> \in Works
        BY DEF Works
      <4>2. v \in [tile : Nat, run : Nat]
        BY <1>0, <4>1, WordCovers DEF TypeOK
      <4>3. queue' \in {queue, [queue EXCEPT ![QueueFrom(p, ch)] = Append(@, v)]}
            /\ arrived' = arrived \cup {<<p, ch>>}
        BY <3>1 DEF PeerWrites, Word
      <4> HIDE DEF v
      <4>4. \A q \in Queues : Append(queue[q], v) \in Seq([tile : Nat, run : Nat])
        BY <1>0, <4>2 DEF ArrivalTypes
      <4>5. [queue EXCEPT ![QueueFrom(p, ch)] = Append(@, v)]
              \in [Queues -> Seq([tile : Nat, run : Nat])]
        BY <1>0, <4>4 DEF ArrivalTypes
      <4> QED
        BY <1>0, <4>1, <4>3, <4>5 DEF ArrivalTypes
    <3>2. UNCHANGED vars \/ (\E m \in pushed : NicReads(m)) => UNCHANGED <<arrived, queue>>
      BY DEF NicReads, vars, arriving
    <3>3. arrived' \in SUBSET Works /\ queue' \in [Queues -> Seq([tile : Nat, run : Nat])]
      BY <1>0, <1>2, <3>1, <3>2 DEF ArrivalTypes
    <3> QED
      BY <1>0, <1>2, <2>1, <3>3, EnvironmentStays DEF ArrivalTypes
  <2> QED
    BY <2>2, <2>3, <2>4, <2>5 DEF TypeOK
<1> QED
  BY <1>1, <1>2, NextCases

-----------------------------------------------------------------------------
\* Places.

LEMMA PlaceStep ==
    ASSUME IInv, [Next]_vars
    PROVE  PlaceInv'
<1>0. cfg \in Configs /\ PlaceInv /\ pc \in [Ctas -> Places]
  BY DEF IInv, TypeOK, CtaTypes
<1> DEFINE Fits(c, x) ==
      /\ x = "compute" => IsCompute(c)
      /\ c[1] # Dev => x \in {"compute", "exit"}
      /\ x \in {"send", "push"} => IsSend(c)
      /\ x \in {"drain", "publish"} => Incremental \/ Transport
      /\ x = "progress" => Transport
      /\ x \in {"drain", "publish", "enqueue_accum", "try", "enqueue_ready", "pop",
                "pop_wait", "check"} => ReadyQueue
      /\ x = "try" => ~Incremental
      /\ x \in {"enqueue_accum", "accum_pop", "accum_wait", "accum_lock", "accum_store",
                "accum_count"} => Incremental
<1>1. ASSUME cfg' = cfg, \A c \in Ctas : Fits(c, pc'[c]) PROVE PlaceInv'
  <2>1. \A c : IsCompute(c)' <=> IsCompute(c)
    BY <1>1 DEF IsCompute, NumComp
  <2>2. \A c : IsSend(c)' <=> IsSend(c)
    BY <1>1 DEF IsSend, NumComp
  <2> QED
    BY <1>1, <2>1, <2>2, LaunchStays DEF PlaceInv
<1>2. \A c \in Ctas : Fits(c, pc[c])
  BY <1>0 DEF PlaceInv
<1>3. ASSUME NEW c \in Ctas, Cta(c) PROVE Fits(c, pc'[c])
  <2>a. Fits(c, pc[c])
    BY <1>2
  <2>b. ReadyQueue <=> Incremental \/ Transport \/ cfg.ready_queue
    BY DEF ReadyQueue
  <2>c. IsProgress(c) => Transport
    BY DEF IsProgress, Progress
  <2> USE DEF At, Goes, Takes, computing, sending, arriving, draining, readyq, accumq, adding,
              done, local
  <2>1. ASSUME StoreTile(c) \/ CountTile(c) PROVE Fits(c, pc'[c])
    BY <1>0, <2>a, <2>1 DEF StoreTile, CountTile
  <2>2. ASSUME ComputeEnds(c) \/ TakeReady(c) \/ PushChunk(c) \/ SendEnds(c) PROVE Fits(c, pc'[c])
    BY <1>0, <2>a, <2>2 DEF ComputeEnds, TakeReady, PushChunk, SendEnds
  <2>3. ASSUME NEW q \in Queues, DrainWord(c, q) PROVE Fits(c, pc'[c])
    BY <1>0, <2>a, <2>3 DEF DrainWord
  <2>4. ASSUME NEW m \in marks[c], Publish(c, m) PROVE Fits(c, pc'[c])
    BY <1>0, <2>a, <2>4 DEF Publish
  <2>5. ASSUME EnqueueAccum(c) \/ Published(c) PROVE Fits(c, pc'[c])
    BY <1>0, <2>a, <2>b, <2>5 DEF EnqueueAccum, Published
  <2>6. ASSUME DrainEnds(c) \/ ProgressLoop(c) PROVE Fits(c, pc'[c])
    BY <1>0, <2>a, <2>b, <2>c, <2>6 DEF DrainEnds, ProgressLoop
  <2>7. ASSUME ClaimNext(c) \/ Scan(c) PROVE Fits(c, pc'[c])
    BY <1>0, <2>a, <2>b, <2>7 DEF ClaimNext, Scan
  <2>8. ASSUME TryReady(c) \/ EnqueueReady(c) \/ Pop(c) PROVE Fits(c, pc'[c])
    BY <1>0, <2>a, <2>b, <2>8 DEF TryReady, EnqueueReady, Pop
  <2>9. ASSUME PopWait(c) \/ Check(c) \/ AccumPop(c) PROVE Fits(c, pc'[c])
    BY <1>0, <2>a, <2>b, <2>9 DEF PopWait, Check, AccumPop
  <2>10. ASSUME AccumWait(c) \/ AccumLock(c) \/ AccumStore(c) \/ AccumCount(c)
         PROVE  Fits(c, pc'[c])
    BY <1>0, <2>a, <2>b, <2>10 DEF AccumWait, AccumLock, AccumStore, AccumCount
  <2>11. ASSUME WaitPrereqs(c) \/ Reduce(c) PROVE Fits(c, pc'[c])
    BY <1>0, <2>a, <2>11 DEF WaitPrereqs, Reduce
  <2> HIDE DEF Fits
  <2> QED
    BY <1>3, <2>1, <2>2, <2>3, <2>4, <2>5, <2>6, <2>7, <2>8, <2>9, <2>10, <2>11 DEF Cta
<1> HIDE DEF Fits
<1>4. ASSUME NEW c \in Ctas, Cta(c) PROVE PlaceInv'
  <2>1. Others(c) /\ cfg' = cfg
    BY <1>4, OthersStay DEF IInv
  <2>2. \A d \in Ctas : Fits(d, pc'[d])
    BY <1>2, <1>3, <1>4, <2>1 DEF Others
  <2> QED
    BY <1>1, <2>1, <2>2
<1>5. ASSUME \/ \E m \in pushed : NicReads(m)
             \/ \E p \in Peers : \E ch \in Chunks : PeerWrites(p, ch)
             \/ UNCHANGED vars
      PROVE  PlaceInv'
  BY <1>1, <1>2, <1>5, EnvironmentStays
<1> QED
  BY <1>4, <1>5, NextCases

-----------------------------------------------------------------------------
\* Tasks and their counts.

\* What the numbers of tasks and chunks say does not change either.
LEMMA NumbersStay ==
    ASSUME cfg' = cfg
    PROVE  /\ \A t, d : SliceOf(t, d)' = SliceOf(t, d)
           /\ \A d, t : CtaOf(d, t)' = CtaOf(d, t)
           /\ \A d, ch : Tasks(d, ch)' = Tasks(d, ch)
           /\ \A ch : TilesOf(ch)' = TilesOf(ch)
           /\ \A c : IsCompute(c)' <=> IsCompute(c)
           /\ \A ch : SenderOf(ch)' = SenderOf(ch)
           /\ \A ch : QueueIdx(ch)' = QueueIdx(ch)
           /\ \A ch : Owns(ch)' <=> Owns(ch)
           /\ \A ch : Receivers(ch)' = Receivers(ch)
           /\ \A c : SendId(c)' = SendId(c)
           /\ \A w : Word(w)' = Word(w)
<1>1. /\ ChunksPerRow' = ChunksPerRow /\ NumBlocksOfWork' = NumBlocksOfWork /\ Peers' = Peers
      /\ (ReceiverOwner' <=> ReceiverOwner)
  BY LaunchStays
<1>2. ChunkTiles' = ChunkTiles /\ NumComp' = NumComp /\ SinglePeerTiles' = SinglePeerTiles
  BY DEF ChunkTiles, NumComp, SinglePeerTiles
<1>3. \A t, d : SliceOf(t, d)' = SliceOf(t, d)
  BY DEF SliceOf
<1>4. \A t : ChunkOf(t)' = ChunkOf(t)
  BY <1>1, <1>2 DEF ChunkOf, RowOf, ColOf
<1>5. \A d, t : CtaOf(d, t)' = CtaOf(d, t)
  BY <1>2 DEF CtaOf
<1>6. \A d, ch : Tasks(d, ch)' = Tasks(d, ch)
  BY <1>1, <1>3, <1>4 DEF Tasks
<1>7. \A ch : TilesOf(ch)' = TilesOf(ch) /\ FirstTile(ch)' = FirstTile(ch)
  BY <1>1, <1>2 DEF TilesOf, FirstTile
<1>8. \A c : IsCompute(c)' <=> IsCompute(c)
  BY <1>2 DEF IsCompute
<1>9. \A ch : SenderOf(ch)' = SenderOf(ch) /\ QueueIdx(ch)' = QueueIdx(ch)
  BY <1>1 DEF SenderOf, QueueIdx
<1>10. \A ch : Owns(ch)' <=> Owns(ch)
  BY <1>1 DEF Owns
<1>11. \A ch : Receivers(ch)' = Receivers(ch)
  BY <1>1, <1>10 DEF Receivers, PeerRank
<1>12. \A c : SendId(c)' = SendId(c)
  BY <1>2 DEF SendId
<1>13. \A w : Word(w)' = Word(w)
  BY <1>2, <1>7 DEF Word, pack_arrival_work
<1> QED
  BY <1>3, <1>5, <1>6, <1>7, <1>8, <1>9, <1>10, <1>11, <1>12, <1>13

\* Half a task over: the CTA's tasks are as before, and the one task has been counted if
\* that was the half.
LEMMA FinishCounts ==
    ASSUME IInv, NEW c \in Ctas, IsCompute(c), task[c] < NumBlocksOfWork,
           NEW half \in Halves, half \notin did[c], Finish(c, half), Others(c), cfg' = cfg
    PROVE  /\ TaskInv'
           /\ \A d \in Gpus : \A ch \in Chunks : \A t \in Tasks(d, ch) :
                HasCounted(CtaOf(d, t), t)' <=>
                    \/ HasCounted(CtaOf(d, t), t)
                    \/ half = "count" /\ d = c[1] /\ t = task[c]
<1> DEFINE W == NumBlocksOfWork
           a == task[c]
           n == NextTask(c, a + Stride(c))
<1>1. /\ cfg \in Configs /\ task \in [Ctas -> Nat] /\ did \in [Ctas -> SUBSET Halves]
      /\ a \in Nat /\ a < W /\ W \in Nat /\ SliceOf(a, c[1]) = Dev /\ CtaOf(c[1], a) = c
  BY WorkIsNat DEF IInv, TypeOK, CtaTypes, TaskInv
<1>2. Ctas' = Ctas /\ W' = W
  BY LaunchStays
<1>3. c[1] \in Gpus /\ Stride(c) \in Nat \ {0}
  BY <1>1, CtaFacts
<1>4. CtaOf(c[1], a + Stride(c)) = c
  <2> DEFINE e == Stride(c)
  <2>1. e % e = 0
    <3> HIDE DEF e
    <3>1. e \in Nat \ {0}
      BY <1>3 DEF e
    <3>2. (1 * e + 0) % e = 0 /\ 1 * e + 0 = e
      BY <3>1, DivideBack
    <3> QED
      BY <3>2
  <2>2. e \in Nat
    BY <1>3
  <2> QED
    BY <1>1, <2>1, <2>2, StrideTasks
<1>5. a + Stride(c) \in Nat
  BY <1>1, <1>3
<1>6. /\ n \in Nat /\ n <= W
      /\ n # W => a + Stride(c) <= n /\ SliceOf(n, c[1]) = Dev /\ CtaOf(c[1], n) = c
      /\ \A v \in (a + Stride(c))..(W - 1) :
           CtaOf(c[1], v) = c /\ SliceOf(v, c[1]) = Dev => n <= v
  BY <1>1, <1>4, <1>5, NextTaskIs
<1>7. a < n
  BY <1>1, <1>3, <1>6
<1>8. \A v \in (a + 1)..(W - 1) : CtaOf(c[1], v) = c /\ SliceOf(v, c[1]) = Dev => n <= v
  <2> SUFFICES ASSUME NEW v \in (a + 1)..(W - 1), CtaOf(c[1], v) = c, SliceOf(v, c[1]) = Dev
               PROVE  n <= v
    OBVIOUS
  <2> DEFINE e == v - a
             s == Stride(c)
  <2>1. e \in Nat \ {0} /\ v = a + e
    BY <1>1
  <2>2. e % s = 0
    <3> HIDE DEF e
    <3> QED
      BY <1>1, <2>1, StrideTasks
  <2>3. s \in Nat \ {0}
    BY <1>3
  <2> HIDE DEF e, s
  <2>4. ~(e < s)
    <3> SUFFICES ASSUME e < s PROVE FALSE
      OBVIOUS
    <3>1. (0 * s + e) % s = e /\ 0 * s + e = e
      BY <2>1, <2>3, DivideBack
    <3> QED
      BY <2>1, <2>2, <3>1
  <2>5. v \in (a + s)..(W - 1)
    BY <1>1, <2>1, <2>3, <2>4
  <2> QED
    BY <1>6, <2>5 DEF s
<1> HIDE DEF n, W
<1>9. \/ task'[c] = n /\ did'[c] = {} /\ did[c] \cup {half} = Halves
      \/ task'[c] = a /\ did'[c] = did[c] \cup {half}
  BY <1>1 DEF Finish, Halves, n
<1>10. /\ task'[c] \in Nat
       /\ task'[c] = W \/ (task'[c] < W /\ SliceOf(task'[c], c[1]) = Dev
                            /\ CtaOf(c[1], task'[c]) = c)
  BY <1>1, <1>6, <1>9
<1>11. TaskInv'
  <2>1. ASSUME NEW d \in Ctas, IsCompute(d)
        PROVE  \/ task'[d] = W
               \/ task'[d] < W /\ SliceOf(task'[d], d[1]) = Dev /\ CtaOf(d[1], task'[d]) = d
    <3>1. CASE d = c
      BY <1>10, <3>1
    <3>2. CASE d # c
      <4>1. task'[d] = task[d]
        BY <3>2 DEF Others
      <4> QED
        BY <2>1, <4>1 DEF IInv, TaskInv, W
    <3> QED
      BY <3>1, <3>2
  <2> QED
    BY <1>2, <2>1, NumbersStay DEF TaskInv, W
<1>12. ASSUME NEW d \in Gpus, NEW ch \in Chunks, NEW t \in Tasks(d, ch)
       PROVE  HasCounted(CtaOf(d, t), t)' <=>
                    \/ HasCounted(CtaOf(d, t), t)
                    \/ half = "count" /\ d = c[1] /\ t = task[c]
  <2> DEFINE e == CtaOf(d, t)
  <2>1. t \in Nat /\ t < W /\ SliceOf(t, d) = Dev
    BY <1>1 DEF Tasks, W
  <2>2. e \in Ctas /\ e[1] = d
    BY <1>1, <2>1, TaskHasCta
  <2>3. e' = e
    BY NumbersStay
  <2>4. HasCounted(e, t)' <=> t < task'[e] \/ (t = task'[e] /\ "count" \in did'[e])
    BY <2>3 DEF HasCounted
  <2>5. HasCounted(e, t) <=> t < task[e] \/ (t = task[e] /\ "count" \in did[e])
    BY DEF HasCounted
  <2>6. CASE e # c
    <3>1. task'[e] = task[e] /\ did'[e] = did[e]
      BY <2>2, <2>6 DEF Others
    <3>2. ~(d = c[1] /\ t = task[c])
      BY <1>1, <2>6
    <3> QED
      BY <2>4, <2>5, <3>1, <3>2
  <2>7. CASE e = c
    <3> HIDE DEF e
    <3>1. d = c[1]
      BY <2>2, <2>7
    <3>2. t > a => n <= t
      <4> SUFFICES ASSUME t > a PROVE n <= t
        OBVIOUS
      <4>1. t \in (a + 1)..(W - 1)
        BY <1>1, <2>1
      <4> QED
        BY <1>8, <2>1, <2>7, <3>1, <4>1 DEF e
    <3>3. CASE task'[c] = n /\ did'[c] = {} /\ did[c] \cup {half} = Halves
      <4>1. half # "count" => "count" \in did[c]
        BY <3>3 DEF Halves
      <4>2. HasCounted(e, t)' <=> t <= a
        BY <1>1, <1>6, <1>7, <2>1, <2>4, <2>7, <3>2, <3>3
      <4>3. t <= a <=> t < a \/ t = a
        BY <1>1, <2>1
      <4> QED
        BY <2>5, <2>7, <3>1, <4>1, <4>2, <4>3 DEF e
    <3>4. CASE task'[c] = a /\ did'[c] = did[c] \cup {half}
      BY <2>4, <2>5, <2>7, <3>1, <3>4 DEF e
    <3> QED
      BY <1>9, <3>3, <3>4
  <2> QED
    BY <2>6, <2>7
<1> QED
  BY <1>11, <1>12

\* A task adds to a chunk of the launch.
LEMMA ChunkOfTask ==
    ASSUME cfg \in Configs, NEW t \in 0..(NumBlocksOfWork - 1)
    PROVE  ChunkOf(t) \in Chunks
<1> DEFINE D == cfg.devices
           R == cfg.rows
           n == cfg.cols
           T == ChunkTiles
           k == ChunksPerRow
           N == D * n
           row == t \div N
           col == t % n
           j == col \div T
<1>1. /\ D \in Nat \ {0} /\ R \in Nat \ {0} /\ n \in Nat \ {0} /\ T \in Nat \ {0}
      /\ k \in Nat \ {0} /\ n <= k * T /\ t \in Nat
  BY LaunchFacts, ChunkFacts, WorkIsNat
<1>2. t < R * N
  <2>1. NumBlocksOfWork = D * R * n /\ t < NumBlocksOfWork
    BY WorkIsNat DEF NumBlocksOfWork
  <2> HIDE DEF D, R, n
  <2>2. D * R * n = R * (D * n)
    BY <1>1
  <2> QED
    BY <2>1, <2>2
<1>3. ChunkOf(t) = row * k + j
  BY DEF ChunkOf, RowOf, ColOf
<1> HIDE DEF D, R, n, T, k
<1>4. N \in Nat \ {0}
  BY <1>1
<1> HIDE DEF N
<1>5. row \in Nat /\ (t % N) \in Nat /\ t = N * row + (t % N)
  BY <1>1, <1>4, Divides
<1>6. col \in Nat /\ col < n
  BY <1>1, Divides
<1> HIDE DEF col
<1>7. j \in Nat /\ (col % T) \in Nat /\ col = T * j + (col % T)
  BY <1>1, <1>6, Divides
<1> HIDE DEF row, j
<1> DEFINE x == t % N
           y == col % T
<1>8. x \in Nat /\ y \in Nat /\ t = N * row + x /\ col = T * j + y
  BY <1>5, <1>7
<1> HIDE DEF x, y
<1>9. row < R
  <2> SUFFICES ASSUME R <= row PROVE FALSE
    BY <1>1, <1>5
  <2> DEFINE e == row - R
  <2>1. e \in Nat /\ row = R + e
    BY <1>1, <1>5
  <2>2. N * (R + e) = R * N + N * e /\ N * e \in Nat /\ R * N \in Nat
    BY <1>1, <1>4, <2>1
  <2> QED
    BY <1>1, <1>2, <1>8, <2>1, <2>2
<1>10. j < k
  <2> SUFFICES ASSUME k <= j PROVE FALSE
    BY <1>1, <1>7
  <2> DEFINE e == j - k
  <2>1. e \in Nat /\ j = k + e
    BY <1>1, <1>7
  <2>2. T * (k + e) = k * T + T * e /\ T * e \in Nat /\ k * T \in Nat
    BY <1>1, <2>1
  <2> QED
    BY <1>1, <1>6, <1>8, <2>1, <2>2
<1>11. row * k + j \in 0..(R * k - 1)
  <2> DEFINE e == R - 1 - row
  <2>1. e \in Nat /\ R = row + 1 + e
    BY <1>1, <1>5, <1>9
  <2>2. (row + 1 + e) * k = row * k + k + e * k /\ e * k \in Nat /\ row * k \in Nat
    BY <1>1, <1>5, <2>1
  <2> QED
    BY <1>1, <1>7, <1>10, <2>1, <2>2
<1> QED
  BY <1>3, <1>11 DEF Chunks, R, k

\* Counting a tile.
LEMMA CountTileStep ==
    ASSUME IInv, NEW c \in Ctas, CountTile(c)
    PROVE  /\ TaskInv' /\ CountInv'
           /\ \A x \in Chunks : Full(x) => Full(x)'
           /\ \/ ready_bits' = ready_bits
              \/ \E ch \in Chunks :
                   /\ ~Full(ch) /\ Full(ch)'
                   /\ ready_bits' = [ready_bits EXCEPT ![SenderOf(ch)] = @ \cup {QueueIdx(ch)}]
<1> DEFINE a == task[c]
           g == c[1]
           ch == ChunkOf(a)
           last == comp_gemm_done[g][ch] = TilesOf(ch) - 1
<1>1. /\ cfg \in Configs /\ task \in [Ctas -> Nat] /\ did \in [Ctas -> SUBSET Halves]
      /\ comp_gemm_done \in [Gpus -> [Chunks -> Nat]] /\ ready_count \in [Chunks -> Nat]
  BY DEF IInv, TypeOK, CtaTypes, CountTypes
<1>2. /\ pc[c] = "compute" /\ a < NumBlocksOfWork /\ "count" \notin did[c]
      /\ comp_gemm_done' = [comp_gemm_done EXCEPT ![g][ch] = @ + 1]
      /\ ready_count' = [ready_count EXCEPT ![ch] = @ + (IF last THEN 1 ELSE 0)]
      /\ ready_bits' = IF last /\ ready_count[ch] = cfg.devices - 1
             THEN [ready_bits EXCEPT ![SenderOf(ch)] = @ \cup {QueueIdx(ch)}] ELSE ready_bits
      /\ Finish(c, "count")
  BY DEF CountTile, At
<1>3. Others(c) /\ cfg' = cfg
  BY OthersStay DEF IInv, Cta
<1>4. IsCompute(c) /\ g \in Gpus /\ a \in 0..(NumBlocksOfWork - 1)
  BY <1>1, <1>2, CtaFacts, WorkIsNat DEF IInv, PlaceInv
<1>5. ch \in Chunks /\ SliceOf(a, g) = Dev /\ CtaOf(g, a) = c
  BY <1>1, <1>2, <1>4, ChunkOfTask, WorkIsNat DEF IInv, TaskInv
<1>6. a \in Tasks(g, ch)
  BY <1>4, <1>5 DEF Tasks
<1>7. /\ TaskInv'
      /\ \A d \in Gpus : \A x \in Chunks : \A t \in Tasks(d, x) :
           HasCounted(CtaOf(d, t), t)' <=> HasCounted(CtaOf(d, t), t) \/ (d = g /\ t = a)
  BY <1>2, <1>3, <1>4, FinishCounts DEF Halves
<1> HIDE DEF a
<1>8. \A d \in Gpus : \A x \in Chunks :
        CountedTasks(d, x)' = IF d = g /\ x = ch THEN CountedTasks(d, x) \cup {a}
                              ELSE CountedTasks(d, x)
  <2> TAKE d \in Gpus
  <2> TAKE x \in Chunks
  <2>1. CountedTasks(d, x)' = {t \in Tasks(d, x) : HasCounted(CtaOf(d, t), t)'}
    BY <1>3, NumbersStay DEF CountedTasks
  <2>2. d = g /\ a \in Tasks(d, x) => x = ch
    BY DEF Tasks
  <2> HIDE DEF ch
  <2> QED
    BY <1>6, <1>7, <2>1, <2>2 DEF CountedTasks
<1>9. a \notin CountedTasks(g, ch)
  BY <1>1, <1>2, <1>5 DEF CountedTasks, HasCounted, a
<1> HIDE DEF ch, g, last
<1>10. \A d \in Gpus : \A x \in Chunks :
         /\ IsFiniteSet(CountedTasks(d, x)) /\ Cardinality(CountedTasks(d, x)) <= TilesOf(x)
         /\ Cardinality(CountedTasks(d, x)) \in Nat
  <2> TAKE d \in Gpus
  <2> TAKE x \in Chunks
  <2>1. IsFiniteSet(Tasks(d, x)) /\ Cardinality(Tasks(d, x)) <= TilesOf(x)
    BY <1>1, TasksFitChunk
  <2>2. /\ IsFiniteSet(CountedTasks(d, x))
        /\ Cardinality(CountedTasks(d, x)) <= Cardinality(Tasks(d, x))
    BY <2>1, FS_Subset DEF CountedTasks
  <2>3. /\ Cardinality(CountedTasks(d, x)) \in Nat /\ Cardinality(Tasks(d, x)) \in Nat
        /\ TilesOf(x) \in Nat
    BY <1>1, <2>1, <2>2, FS_CardinalityType, ChunkTilesFit
  <2> QED
    BY <2>1, <2>2, <2>3
<1> DEFINE n == Cardinality(CountedTasks(g, ch))
<1>11. /\ Cardinality(CountedTasks(g, ch) \cup {a}) = n + 1
       /\ comp_gemm_done[g][ch] = n /\ n + 1 <= TilesOf(ch)
  <2>1. Cardinality(CountedTasks(g, ch) \cup {a}) = n + 1
    BY <1>4, <1>5, <1>9, <1>10, FS_AddElement
  <2>2. comp_gemm_done[g][ch] = n
    BY <1>4, <1>5 DEF IInv, CountInv
  <2>3. /\ IsFiniteSet(Tasks(g, ch)) /\ Cardinality(Tasks(g, ch)) <= TilesOf(ch)
        /\ TilesOf(ch) \in Nat
    BY <1>1, <1>4, <1>5, TasksFitChunk, ChunkTilesFit
  <2>4. CountedTasks(g, ch) \cup {a} \subseteq Tasks(g, ch)
    BY <1>6 DEF CountedTasks
  <2>5. Cardinality(CountedTasks(g, ch) \cup {a}) <= Cardinality(Tasks(g, ch))
    BY <2>3, <2>4, FS_Subset
  <2>6. Cardinality(Tasks(g, ch)) \in Nat /\ n \in Nat
    BY <1>4, <1>5, <1>10, <2>3, FS_CardinalityType
  <2> QED
    BY <2>1, <2>2, <2>3, <2>5, <2>6
<1>12. n \in Nat /\ TilesOf(ch) \in Nat
  BY <1>1, <1>4, <1>5, <1>10, ChunkTilesFit
<1>13. \A d \in Gpus : \A x \in Chunks :
         comp_gemm_done'[d][x] = IF d = g /\ x = ch THEN n + 1 ELSE comp_gemm_done[d][x]
  BY <1>1, <1>2, <1>4, <1>5, <1>11 DEF g, ch
<1>14. \A d \in Gpus : \A x \in Chunks :
         comp_gemm_done'[d][x] = Cardinality(CountedTasks(d, x)')
  <2>1. \A d \in Gpus : \A x \in Chunks : comp_gemm_done[d][x] = Cardinality(CountedTasks(d, x))
    BY DEF IInv, CountInv
  <2> QED
    BY <1>8, <1>11, <1>13, <2>1
<1>15. last <=> n + 1 = TilesOf(ch)
  BY <1>11, <1>12 DEF last
<1>16. \A x \in Chunks :
         FullGpus(x)' = IF x = ch /\ last THEN FullGpus(x) \cup {g} ELSE FullGpus(x)
  <2> TAKE x \in Chunks
  <2>1. FullGpus(x)' = {d \in Gpus : comp_gemm_done'[d][x] = TilesOf(x)}
    BY <1>3, NumbersStay, LaunchStays DEF FullGpus
  <2>2. n # TilesOf(ch)
    BY <1>11, <1>12
  <2> HIDE DEF n
  <2> QED
    BY <1>4, <1>11, <1>13, <1>15, <2>1, <2>2 DEF FullGpus
<1>17. g \notin FullGpus(ch)
  BY <1>11, <1>12 DEF FullGpus
<1>18. \A x \in Chunks : ready_count'[x] = Cardinality(FullGpus(x)')
  <2>1. \A x \in Chunks : ready_count[x] = Cardinality(FullGpus(x))
    BY DEF IInv, CountInv
  <2>2. IsFiniteSet(FullGpus(ch)) /\ Cardinality(FullGpus(ch)) \in Nat
    <3>1. cfg.devices \in Nat \ {0}
      BY <1>1, LaunchFacts
    <3>2. IsFiniteSet(Gpus)
      BY <3>1, FS_Interval DEF Gpus
    <3>3. IsFiniteSet(FullGpus(ch))
      BY <3>2, FS_Subset DEF FullGpus
    <3> QED
      BY <3>3, FS_CardinalityType
  <2>3. Cardinality(FullGpus(ch) \cup {g}) = Cardinality(FullGpus(ch)) + 1
    BY <1>17, <2>2, FS_AddElement
  <2>4. \A x \in Chunks : ready_count'[x] = IF x = ch /\ last THEN ready_count[x] + 1
                                            ELSE ready_count[x]
    BY <1>1, <1>2, <1>5 DEF ch, last
  <2> QED
    BY <1>5, <1>16, <2>1, <2>2, <2>3, <2>4
<1>19. CountInv'
  BY <1>3, <1>14, <1>18, LaunchStays DEF CountInv
<1>20. /\ \A x \in Chunks : Full(x) => Full(x)'
       /\ \A x \in Chunks : x = ch /\ last /\ ready_count[x] = cfg.devices - 1
            => ~Full(x) /\ Full(x)'
  <2> DEFINE D == cfg.devices
  <2>1. D \in Nat \ {0}
    BY <1>1, LaunchFacts
  <2>2. \A x \in Chunks : ready_count'[x] = IF x = ch /\ last THEN ready_count[x] + 1
                                            ELSE ready_count[x]
    BY <1>1, <1>2, <1>5 DEF ch, last
  <2>3. \A x \in Chunks : (Full(x) <=> ready_count[x] = D) /\ (Full(x)' <=> ready_count'[x] = D)
    BY <1>3 DEF Full
  <2>4. ready_count[ch] # D \/ ~last
    <3> SUFFICES ASSUME ready_count[ch] = D, last PROVE FALSE
      OBVIOUS
    <3>1. IsFiniteSet(Gpus) /\ Cardinality(Gpus) = D
      <4>1. Gpus = 0..(D - 1)
        BY DEF Gpus
      <4> HIDE DEF D
      <4> QED
        BY <2>1, <4>1, FS_Interval
    <3>2. FullGpus(ch) \subseteq Gpus /\ Cardinality(FullGpus(ch)) = Cardinality(Gpus)
      BY <1>5, <3>1 DEF FullGpus, IInv, CountInv
    <3>3. FullGpus(ch) = Gpus
      BY <3>1, <3>2, FS_Subset
    <3> QED
      BY <1>4, <1>17, <3>3
  <2> HIDE DEF D
  <2>5. ready_count[ch] \in Nat
    BY <1>1, <1>5
  <2>6. \A x \in Chunks : Full(x) => Full(x)'
    BY <2>2, <2>3, <2>4
  <2>7. \A x \in Chunks : x = ch /\ last /\ ready_count[x] = D - 1 => ~Full(x) /\ Full(x)'
    BY <1>5, <2>1, <2>2, <2>3, <2>5
  <2> QED
    BY <2>6, <2>7 DEF D
<1>21. \/ ready_bits' = ready_bits
       \/ \E x \in Chunks :
            /\ ~Full(x) /\ Full(x)'
            /\ ready_bits' = [ready_bits EXCEPT ![SenderOf(x)] = @ \cup {QueueIdx(x)}]
  BY <1>2, <1>5, <1>20
<1> QED
  BY <1>5, <1>7, <1>19, <1>20, <1>21

LEMMA CountsStep ==
    ASSUME IInv, [Next]_vars
    PROVE  TaskInv' /\ CountInv' /\ \A x \in Chunks : Full(x) => Full(x)'
<1>0. /\ TaskInv /\ CountInv /\ task \in [Ctas -> Nat] /\ did \in [Ctas -> SUBSET Halves]
      /\ cfg \in Configs
  BY DEF IInv, TypeOK, CtaTypes
<1>1. ASSUME cfg' = cfg, comp_gemm_done' = comp_gemm_done, ready_count' = ready_count,
             \A d \in Gpus : \A ch \in Chunks : \A t \in Tasks(d, ch) :
                HasCounted(CtaOf(d, t), t)' <=> HasCounted(CtaOf(d, t), t)
      PROVE  CountInv' /\ \A x \in Chunks : Full(x) => Full(x)'
  <2>1. \A d \in Gpus : \A x \in Chunks : CountedTasks(d, x)' = CountedTasks(d, x)
    <3> TAKE d \in Gpus
    <3> TAKE x \in Chunks
    <3>1. CountedTasks(d, x)' = {t \in Tasks(d, x) : HasCounted(CtaOf(d, t), t)'}
      BY <1>1, NumbersStay DEF CountedTasks
    <3> QED
      BY <1>1, <3>1 DEF CountedTasks
  <2>2. \A x \in Chunks : FullGpus(x)' = FullGpus(x)
    BY <1>1, NumbersStay, LaunchStays DEF FullGpus
  <2>3. CountInv'
    BY <1>0, <1>1, <2>1, <2>2, LaunchStays DEF CountInv
  <2> QED
    BY <1>1, <2>3 DEF Full
<1>2. ASSUME UNCHANGED <<cfg, task, did, comp_gemm_done, ready_count>>
      PROVE  TaskInv' /\ CountInv' /\ \A x \in Chunks : Full(x) => Full(x)'
  <2>1. TaskInv'
    BY <1>0, <1>2, NumbersStay, LaunchStays DEF TaskInv
  <2>2. \A d \in Gpus : \A ch \in Chunks : \A t \in Tasks(d, ch) :
                HasCounted(CtaOf(d, t), t)' <=> HasCounted(CtaOf(d, t), t)
    BY <1>2, NumbersStay DEF HasCounted
  <2> QED
    BY <1>1, <1>2, <2>1, <2>2
<1>3. ASSUME NEW c \in Ctas, StoreTile(c)
      PROVE  TaskInv' /\ CountInv' /\ \A x \in Chunks : Full(x) => Full(x)'
  <2>1. Others(c) /\ cfg' = cfg
    BY <1>3, OthersStay DEF IInv, Cta
  <2>2. /\ pc[c] = "compute" /\ task[c] < NumBlocksOfWork /\ "store" \notin did[c]
        /\ Finish(c, "store") /\ comp_gemm_done' = comp_gemm_done /\ ready_count' = ready_count
    BY <1>3 DEF StoreTile, At
  <2>3. IsCompute(c)
    BY <2>2 DEF IInv, PlaceInv
  <2>4. /\ TaskInv'
        /\ \A d \in Gpus : \A ch \in Chunks : \A t \in Tasks(d, ch) :
                HasCounted(CtaOf(d, t), t)' <=> HasCounted(CtaOf(d, t), t)
    BY <2>1, <2>2, <2>3, FinishCounts DEF Halves
  <2> QED
    BY <1>1, <2>1, <2>2, <2>4
<1>4. ASSUME NEW c \in Ctas, Cta(c)
      PROVE  TaskInv' /\ CountInv' /\ \A x \in Chunks : Full(x) => Full(x)'
  <2> USE DEF At, Goes, Takes, computing, sending, arriving, draining, readyq, accumq, adding,
              done, local
  <2>1. ComputeEnds(c) \/ TakeReady(c) \/ PushChunk(c) \/ SendEnds(c) \/ EnqueueAccum(c)
        \/ Published(c) \/ DrainEnds(c) \/ ProgressLoop(c) \/ EnqueueReady(c) \/ Check(c)
          => UNCHANGED <<cfg, task, did, comp_gemm_done, ready_count>>
    BY DEF ComputeEnds, TakeReady, PushChunk, SendEnds, EnqueueAccum, Published, DrainEnds,
           ProgressLoop, EnqueueReady, Check
  <2>2. (\E q \in Queues : DrainWord(c, q)) \/ (\E m \in marks[c] : Publish(c, m))
        \/ ClaimNext(c) \/ Scan(c) \/ TryReady(c) \/ Pop(c) \/ PopWait(c)
          => UNCHANGED <<cfg, task, did, comp_gemm_done, ready_count>>
    BY DEF DrainWord, Publish, ClaimNext, Scan, TryReady, Pop, PopWait
  <2>3. AccumPop(c) \/ AccumWait(c) \/ AccumLock(c) \/ AccumStore(c) \/ AccumCount(c)
        \/ WaitPrereqs(c) \/ Reduce(c)
          => UNCHANGED <<cfg, task, did, comp_gemm_done, ready_count>>
    BY DEF AccumPop, AccumWait, AccumLock, AccumStore, AccumCount, WaitPrereqs, Reduce
  <2> QED
    BY <1>2, <1>3, <1>4, <2>1, <2>2, <2>3, CountTileStep DEF Cta
<1>5. ASSUME \/ \E m \in pushed : NicReads(m)
             \/ \E p \in Peers : \E ch \in Chunks : PeerWrites(p, ch)
             \/ UNCHANGED vars
      PROVE  TaskInv' /\ CountInv' /\ \A x \in Chunks : Full(x) => Full(x)'
  BY <1>2, <1>5, EnvironmentStays
<1> QED
  BY <1>4, <1>5, NextCases

-----------------------------------------------------------------------------
\* Sending.

LEMMA SendStep ==
    ASSUME IInv, [Next]_vars
    PROVE  SendInv'
<1>0. /\ BitInv /\ PushInv /\ SentInv /\ cfg \in Configs
      /\ pc \in [Ctas -> Places] /\ chunk \in [Ctas -> Nat]
      /\ ready_bits \in [Senders -> SUBSET Nat] /\ sender_done \subseteq Chunks
      /\ pushed \subseteq Works
      /\ sent \in SUBSET [to : Peers, chunk : Chunks, own : BOOLEAN, whole : BOOLEAN]
  BY DEF IInv, TypeOK, CtaTypes, CountTypes, SendInv
<1>f. \A x \in Chunks : Full(x) => Full(x)'
  BY CountsStep
<1>p. \A w \in Works : w = <<w[1], w[2]>> /\ w[1] \in Peers /\ w[2] \in Chunks
  BY DEF Works
\* Enough of the three parts in terms of the next state.
<1>b. ASSUME cfg' = cfg,
             \A s \in Senders : \A idx \in ready_bits'[s] :
               \E ch \in Chunks : /\ SenderOf(ch) = s /\ QueueIdx(ch) = idx
                                  /\ Full(ch)' /\ ch \notin sender_done'
      PROVE  BitInv'
  BY <1>b, LaunchStays, NumbersStay DEF BitInv
<1>q. ASSUME cfg' = cfg,
             \A c \in Ctas : pc'[c] = "push" =>
               /\ chunk'[c] \in sender_done' /\ SenderOf(chunk'[c]) = SendId(c)
               /\ \A p \in Peers : /\ <<p, chunk'[c]>> \notin pushed'
                                   /\ \A x \in sent' : ~(x.to = p /\ x.chunk = chunk'[c])
      PROVE  PushInv'
  <2>1. ASSUME NEW c \in Ctas, pc'[c] = "push"
        PROVE  /\ chunk'[c] \in sender_done' /\ SenderOf(chunk[c])' = SendId(c)'
               /\ \A p \in Peers : <<p, chunk'[c]>> \notin pushed' /\ ~WasSent(<<p, chunk[c]>>)'
    <3>1. SenderOf(chunk[c])' = SenderOf(chunk'[c])
      BY <1>q, LaunchStays DEF SenderOf
    <3> QED
      BY <1>q, <2>1, <3>1, NumbersStay DEF WasSent
  <2> QED
    BY <1>q, <2>1, LaunchStays DEF PushInv
<1>u. ASSUME UNCHANGED <<cfg, ready_bits, sender_done, pushed, sent>>,
             \A c \in Ctas : pc'[c] = "push" => pc[c] = "push" /\ chunk'[c] = chunk[c]
      PROVE  SendInv'
  <2>1. BitInv'
    BY <1>0, <1>b, <1>f, <1>u DEF BitInv
  <2>2. PushInv'
    BY <1>0, <1>q, <1>u DEF PushInv, WasSent
  <2>3. SentInv'
    BY <1>0, <1>f, <1>u DEF SentInv, WasSent
  <2> QED
    BY <2>1, <2>2, <2>3 DEF SendInv
<1>1. ASSUME NEW c \in Ctas, CountTile(c) PROVE SendInv'
  <2>1. cfg' = cfg /\ UNCHANGED <<pc, chunk, sender_done, pushed, sent>>
    BY <1>1 DEF CountTile, local, sending
  <2>2. BitInv'
    <3>1. CASE ready_bits' = ready_bits
      BY <1>0, <1>b, <1>f, <2>1, <3>1 DEF BitInv
    <3>2. ASSUME NEW ch \in Chunks, ~Full(ch), Full(ch)',
                 ready_bits' = [ready_bits EXCEPT ![SenderOf(ch)] = @ \cup {QueueIdx(ch)}]
          PROVE  BitInv'
      <4>1. ch \notin sender_done
        BY <1>0, <3>2 DEF SentInv
      <4>2. SenderOf(ch) \in Senders
        BY <1>0, DecodeBack
      <4>3. ASSUME NEW s \in Senders, NEW idx \in ready_bits'[s]
            PROVE  \E x \in Chunks : /\ SenderOf(x) = s /\ QueueIdx(x) = idx
                                     /\ Full(x)' /\ x \notin sender_done'
        <5>1. idx \in ready_bits[s] \/ (s = SenderOf(ch) /\ idx = QueueIdx(ch))
          BY <1>0, <3>2, <4>2, <4>3
        <5>2. CASE idx \in ready_bits[s]
          BY <1>0, <1>f, <2>1, <5>2 DEF BitInv
        <5>3. CASE s = SenderOf(ch) /\ idx = QueueIdx(ch)
          BY <2>1, <3>2, <4>1, <5>3
        <5> QED
          BY <5>1, <5>2, <5>3
      <4> QED
        BY <1>b, <2>1, <4>3
    <3> QED
      BY <1>1, <3>1, <3>2, CountTileStep
  <2>3. PushInv'
    BY <1>0, <1>q, <2>1 DEF PushInv, WasSent
  <2>4. SentInv'
    BY <1>0, <1>f, <2>1 DEF SentInv, WasSent
  <2> QED
    BY <2>2, <2>3, <2>4 DEF SendInv
<1>2. ASSUME NEW c \in Ctas, TakeReady(c) PROVE SendInv'
  <2>1. Others(c) /\ cfg' = cfg
    BY <1>2, OthersStay DEF IInv, Cta
  <2> DEFINE s == SendId(c)
             idx == Min(ready_bits[s])
             t == Decode(s, idx)
  <2>2. /\ pc[c] = "send" /\ pc' = [pc EXCEPT ![c] = "push"] /\ chunk' = [chunk EXCEPT ![c] = t]
        /\ ready_bits' = [ready_bits EXCEPT ![s] = @ \ {idx}]
        /\ sender_done' = sender_done \cup {t} /\ UNCHANGED <<pushed, sent>>
    BY <1>2 DEF TakeReady, At, Goes, Takes, Decode
  <2>3. /\ IsSend(c) /\ s \in Senders /\ idx \in ready_bits[s]
        /\ t \in Chunks /\ SenderOf(t) = s /\ QueueIdx(t) = idx /\ Full(t) /\ t \notin sender_done
    BY <1>2, TakenChunk
  <2>s. s = SendId(c)
    OBVIOUS
  <2> HIDE DEF s, idx, t
  <2>4. BitInv'
    <3>1. ASSUME NEW r \in Senders, NEW i \in ready_bits'[r]
          PROVE  \E x \in Chunks : /\ SenderOf(x) = r /\ QueueIdx(x) = i
                                   /\ Full(x)' /\ x \notin sender_done'
      <4>1. i \in ready_bits[r] /\ ~(r = s /\ i = idx)
        BY <1>0, <2>2, <2>3, <3>1
      <4>2. PICK x \in Chunks : /\ SenderOf(x) = r /\ QueueIdx(x) = i
                                /\ Full(x) /\ x \notin sender_done
        BY <1>0, <4>1 DEF BitInv
      <4>3. x # t
        BY <2>3, <4>1, <4>2
      <4> QED
        BY <1>f, <2>2, <4>2, <4>3
    <3> QED
      BY <1>b, <2>1, <3>1
  <2>5. PushInv'
    <3>1. ASSUME NEW d \in Ctas, pc'[d] = "push"
          PROVE  /\ chunk'[d] \in sender_done' /\ SenderOf(chunk'[d]) = SendId(d)
                 /\ \A p \in Peers : /\ <<p, chunk'[d]>> \notin pushed'
                                     /\ \A x \in sent' : ~(x.to = p /\ x.chunk = chunk'[d])
      <4>1. CASE d = c
        <5>1. chunk'[d] = t /\ t \in sender_done'
          BY <1>0, <2>2, <4>1
        <5>2. \A p \in Peers : <<p, t>> \notin pushed
          BY <1>0, <2>3 DEF SentInv
        <5>3. \A x \in sent : x.chunk # t
          BY <1>0, <2>3 DEF SentInv
        <5> QED
          BY <2>2, <2>3, <2>s, <4>1, <5>1, <5>2, <5>3
      <4>2. CASE d # c
        <5>1. pc[d] = "push" /\ chunk'[d] = chunk[d]
          BY <2>1, <3>1, <4>2 DEF Others
        <5> QED
          BY <1>0, <2>2, <5>1 DEF PushInv, WasSent
      <4> QED
        BY <4>1, <4>2
    <3> QED
      BY <1>q, <2>1, <3>1
  <2>6. SentInv'
    BY <1>0, <1>f, <2>2, <2>3 DEF SentInv, WasSent
  <2> QED
    BY <2>4, <2>5, <2>6 DEF SendInv
<1>3. ASSUME NEW c \in Ctas, PushChunk(c) PROVE SendInv'
  <2>1. Others(c) /\ cfg' = cfg
    BY <1>3, OthersStay DEF IInv, Cta
  <2>2. /\ pc[c] = "push" /\ pc' = [pc EXCEPT ![c] = "send"] /\ chunk' = chunk
        /\ pushed' = pushed \cup {<<p, chunk[c]>> : p \in Receivers(chunk[c])}
        /\ UNCHANGED <<ready_bits, sender_done, sent>>
    BY <1>3 DEF PushChunk, At, Goes, local, computing
  <2> DEFINE t == chunk[c]
  <2>3. /\ t \in sender_done /\ SenderOf(t) = SendId(c)
        /\ \A p \in Peers : <<p, t>> \notin pushed /\ ~WasSent(<<p, t>>)
    BY <1>0, <2>2 DEF PushInv
  <2>4. \A p \in Receivers(t) : p \in Peers
    BY DEF Receivers
  <2>5. BitInv'
    BY <1>0, <1>b, <1>f, <2>1, <2>2 DEF BitInv
  <2>6. PushInv'
    <3>1. ASSUME NEW d \in Ctas, pc'[d] = "push"
          PROVE  /\ chunk'[d] \in sender_done' /\ SenderOf(chunk'[d]) = SendId(d)
                 /\ \A p \in Peers : /\ <<p, chunk'[d]>> \notin pushed'
                                     /\ \A x \in sent' : ~(x.to = p /\ x.chunk = chunk'[d])
      <4>1. d # c /\ pc[d] = "push"
        BY <1>0, <2>2, <3>1
      <4>2. chunk[d] # t
        <5> SUFFICES ASSUME chunk[d] = t PROVE FALSE
          OBVIOUS
        <5>1. SendId(c) = SendId(d)
          BY <1>0, <2>3, <4>1 DEF PushInv
        <5>2. IsSend(c) /\ IsSend(d)
          BY <2>2, <4>1 DEF IInv, PlaceInv
        <5> QED
          BY <1>0, <4>1, <5>1, <5>2, SendersDiffer
      <4> HIDE DEF t
      <4>3. \A p \in Peers : <<p, chunk[d]>> \notin pushed'
        BY <1>0, <2>2, <4>1, <4>2 DEF PushInv, t
      <4> QED
        BY <1>0, <2>2, <4>1, <4>3 DEF PushInv, WasSent
    <3> QED
      BY <1>q, <2>1, <3>1
  <2>7. SentInv'
    BY <1>0, <1>f, <2>2, <2>3, <2>4 DEF SentInv, WasSent
  <2> QED
    BY <2>5, <2>6, <2>7 DEF SendInv
<1>4. ASSUME NEW m \in pushed, NicReads(m) PROVE SendInv'
  <2>1. UNCHANGED <<cfg, pc, chunk, ready_bits, sender_done>>
    BY <1>4, EnvironmentStays
  <2>2. /\ pushed' = pushed \ {m}
        /\ \E own, whole : sent' = sent \cup {[to |-> m[1], chunk |-> m[2],
                                               own |-> own, whole |-> whole]}
    BY <1>4 DEF NicReads
  <2>3. PICK own, whole : sent' = sent \cup {[to |-> m[1], chunk |-> m[2],
                                               own |-> own, whole |-> whole]}
    BY <2>2
  <2>4. /\ m = <<m[1], m[2]>> /\ m[2] \in sender_done /\ m[1] \in Peers /\ m[2] \in Chunks
        /\ \A x \in sent : ~(x.to = m[1] /\ x.chunk = m[2])
    BY <1>0, <1>p DEF SentInv, WasSent
  <2>5. \A x \in sent' : x \in sent \/ (x.to = m[1] /\ x.chunk = m[2])
    BY <2>3
  <2>6. BitInv'
    BY <1>0, <1>b, <1>f, <2>1 DEF BitInv
  <2>7. PushInv'
    <3>1. ASSUME NEW d \in Ctas, pc'[d] = "push"
          PROVE  /\ chunk'[d] \in sender_done' /\ SenderOf(chunk'[d]) = SendId(d)
                 /\ \A p \in Peers : /\ <<p, chunk'[d]>> \notin pushed'
                                     /\ \A x \in sent' : ~(x.to = p /\ x.chunk = chunk'[d])
      <4>1. /\ chunk[d] \in sender_done /\ SenderOf(chunk[d]) = SendId(d)
            /\ \A p \in Peers : /\ <<p, chunk[d]>> \notin pushed
                                /\ \A x \in sent : ~(x.to = p /\ x.chunk = chunk[d])
        BY <1>0, <2>1, <3>1 DEF PushInv, WasSent
      <4>2. chunk[d] # m[2]
        BY <2>4, <4>1
      <4> QED
        BY <2>1, <2>2, <2>5, <4>1, <4>2
    <3> QED
      BY <1>q, <2>1, <3>1
  <2>8. SentInv'
    <3>1. \A ch \in sender_done' : Full(ch)'
      BY <1>0, <1>f, <2>1 DEF SentInv
    <3>2. \A w \in pushed' : w[2] \in sender_done' /\ \A x \in sent' : ~(x.to = w[1] /\ x.chunk = w[2])
      <4> TAKE w \in pushed'
      <4>1. w \in pushed /\ w # m /\ w = <<w[1], w[2]>>
        BY <1>0, <1>p, <2>2
      <4>2. w[2] \in sender_done /\ \A x \in sent : ~(x.to = w[1] /\ x.chunk = w[2])
        BY <1>0, <4>1 DEF SentInv, WasSent
      <4>3. ~(w[1] = m[1] /\ w[2] = m[2])
        BY <2>4, <4>1
      <4> QED
        BY <2>1, <2>5, <4>2, <4>3
    <3>3. \A x \in sent' : x.chunk \in sender_done'
      BY <1>0, <2>1, <2>4, <2>5 DEF SentInv
    <3>4. \A x, y \in sent' : x.to = y.to /\ x.chunk = y.chunk => x = y
      <4>1. \A x, y \in sent : x.to = y.to /\ x.chunk = y.chunk => x = y
        BY <1>0 DEF SentInv
      <4> DEFINE r == [to |-> m[1], chunk |-> m[2], own |-> own, whole |-> whole]
      <4>2. r.to = m[1] /\ r.chunk = m[2] /\ sent' = sent \cup {r}
        BY <2>3
      <4> HIDE DEF r
      <4> QED
        BY <2>4, <4>1, <4>2
    <3> QED
      BY <3>1, <3>2, <3>3, <3>4 DEF SentInv, WasSent
  <2> QED
    BY <2>6, <2>7, <2>8 DEF SendInv
<1>5. ASSUME NEW c \in Ctas, Cta(c) PROVE SendInv'
  <2>1. Others(c) /\ cfg' = cfg
    BY <1>5, OthersStay DEF IInv
  <2> DEFINE Still == UNCHANGED <<ready_bits, sender_done, pushed, sent>> /\ pc'[c] # "push"
  <2>2. Still => SendInv'
    <3> SUFFICES ASSUME Still PROVE SendInv'
      OBVIOUS
    <3>1. \A d \in Ctas : pc'[d] = "push" => pc[d] = "push" /\ chunk'[d] = chunk[d]
      BY <2>1 DEF Others
    <3> QED
      BY <1>u, <2>1, <3>1
  <2> USE DEF At, Goes, Takes, computing, sending, arriving, draining, readyq, accumq, adding,
              done, local
  <2>3. StoreTile(c) \/ ComputeEnds(c) \/ SendEnds(c) \/ EnqueueAccum(c) \/ Published(c)
        \/ DrainEnds(c) \/ ProgressLoop(c) \/ EnqueueReady(c) \/ Check(c) => Still
    BY <1>0 DEF StoreTile, ComputeEnds, SendEnds, EnqueueAccum, Published, DrainEnds,
           ProgressLoop, EnqueueReady, Check
  <2>4. (\E q \in Queues : DrainWord(c, q)) \/ (\E m \in marks[c] : Publish(c, m))
        \/ ClaimNext(c) \/ Scan(c) \/ TryReady(c) \/ Pop(c) \/ PopWait(c) => Still
    BY <1>0 DEF DrainWord, Publish, ClaimNext, Scan, TryReady, Pop, PopWait
  <2>5. AccumPop(c) \/ AccumWait(c) \/ AccumLock(c) \/ AccumStore(c) \/ AccumCount(c)
        \/ WaitPrereqs(c) \/ Reduce(c) => Still
    BY <1>0 DEF AccumPop, AccumWait, AccumLock, AccumStore, AccumCount, WaitPrereqs, Reduce
  <2> HIDE DEF Still
  <2> QED
    BY <1>1, <1>2, <1>3, <1>5, <2>2, <2>3, <2>4, <2>5 DEF Cta
<1>6. ASSUME UNCHANGED vars \/ (\E p \in Peers : \E ch \in Chunks : PeerWrites(p, ch))
      PROVE  SendInv'
  <2>1. UNCHANGED <<cfg, pc, chunk, ready_bits, sender_done, pushed, sent>>
    BY <1>6 DEF PeerWrites, vars, local, computing, sending
  <2> QED
    BY <1>u, <2>1
<1> QED
  BY <1>4, <1>5, <1>6, NextCases

\* What the NIC reads, and what is added to.
LEMMA OwnStep ==
    ASSUME IInv, [Next]_vars
    PROVE  OwnInv'
<1>0. /\ OwnInv /\ cfg \in Configs /\ pc \in [Ctas -> Places] /\ chunk \in [Ctas -> Nat]
      /\ accum \in [Chunks -> [Peers -> Nat]] /\ pushed \subseteq Works
  BY DEF IInv, TypeOK, CtaTypes, CountTypes, ReduceTypes
<1> DEFINE Lk == {"accum_lock", "accum_store"}
           Zero(a) == \A ch \in Chunks : ~Incremental \/ ~Owns(ch) => \A p \in Peers : a[ch][p] = 0
           Clean(S) == (Incremental => ReceiverOwner) => \A x \in S : x.own
<1>1. /\ \A w \in pushed : w[1] \in Receivers(w[2])
      /\ \A c \in Ctas : pc[c] \in Lk => Owns(chunk[c])
      /\ Zero(accum) /\ Clean(sent)
  BY <1>0 DEF OwnInv, SentUnmodified
<1> HIDE DEF Lk
<1>2. ASSUME cfg' = cfg, \A w \in pushed' : w[1] \in Receivers(w[2]),
             \A c \in Ctas : pc'[c] \in Lk => Owns(chunk'[c]),
             Zero(accum'), Clean(sent')
      PROVE  OwnInv'
  <2>1. \A w \in pushed' : w[1] \in Receivers(w[2])'
    BY <1>2, NumbersStay
  <2>2. \A c \in Ctas : pc'[c] \in Lk => Owns(chunk[c])'
    <3>1. \A c : Owns(chunk[c])' <=> Owns(chunk'[c])
      BY <1>2, LaunchStays DEF Owns
    <3> QED
      BY <1>2, <3>1
  <2>3. Clean(sent') => SentUnmodified'
    BY <1>2, LaunchStays DEF SentUnmodified
  <2>4. /\ ~Incremental' => \A ch \in Chunks' : \A p \in Peers' : accum'[ch][p] = 0
        /\ \A ch \in Chunks' : ~Owns(ch)' => \A p \in Peers' : accum'[ch][p] = 0
    BY <1>2, LaunchStays, NumbersStay
  <2> HIDE DEF Zero, Clean
  <2> QED
    BY <1>2, <2>1, <2>2, <2>3, <2>4, LaunchStays DEF OwnInv, Lk
<1> HIDE DEF Clean, Zero
<1>3. ASSUME NEW c \in Ctas, Cta(c) PROVE OwnInv'
  <2>1. Others(c) /\ cfg' = cfg
    BY <1>3, OthersStay DEF IInv
  <2>2. ASSUME pc'[c] \in Lk => Owns(chunk'[c])
        PROVE  \A d \in Ctas : pc'[d] \in Lk => Owns(chunk'[d])
    BY <1>1, <2>1, <2>2 DEF Others
  <2>3. ASSUME PushChunk(c) PROVE OwnInv'
    <3>1. /\ pc' = [pc EXCEPT ![c] = "send"] /\ accum' = accum /\ sent' = sent
          /\ pushed' = pushed \cup {<<p, chunk[c]>> : p \in Receivers(chunk[c])}
      BY <2>3 DEF PushChunk, Goes, adding
    <3>2. pc'[c] \notin Lk
      BY <1>0, <3>1 DEF Lk
    <3>3. \A w \in pushed' : w[1] \in Receivers(w[2])
      BY <1>1, <3>1
    <3> QED
      BY <1>1, <1>2, <2>1, <2>2, <3>1, <3>2, <3>3
  <2>4. ASSUME AccumStore(c) PROVE OwnInv'
    <3>1. /\ pc[c] = "accum_store" /\ pc' = [pc EXCEPT ![c] = "accum_count"]
          /\ \E f : accum' = [accum EXCEPT ![chunk[c]] = f]
          /\ pushed' = pushed /\ sent' = sent
      BY <2>4 DEF AccumStore, At, Goes, sending
    <3>2. pc'[c] \notin Lk
      BY <1>0, <3>1 DEF Lk
    <3>3. Incremental /\ Owns(chunk[c])
      BY <1>1, <3>1 DEF IInv, PlaceInv, Lk
    <3>4. Zero(accum')
      BY <1>0, <1>1, <3>1, <3>3 DEF Zero
    <3> QED
      BY <1>1, <1>2, <2>1, <2>2, <3>1, <3>2, <3>4
  <2> DEFINE Still == UNCHANGED <<pushed, sent, accum>> /\ (pc'[c] \in Lk => Owns(chunk'[c]))
  <2>5. Still => OwnInv'
    BY <1>1, <1>2, <2>1, <2>2
  <2> USE DEF At, Goes, Takes, computing, sending, arriving, draining, readyq, accumq, adding,
              done, local
  <2>6. StoreTile(c) \/ CountTile(c) \/ ComputeEnds(c) \/ TakeReady(c) \/ SendEnds(c)
        \/ EnqueueAccum(c) \/ Published(c) \/ DrainEnds(c) \/ ProgressLoop(c)
        \/ EnqueueReady(c) \/ Check(c) => Still
    BY <1>0 DEF Lk, StoreTile, CountTile, ComputeEnds, TakeReady, SendEnds, EnqueueAccum,
                Published, DrainEnds, ProgressLoop, EnqueueReady, Check
  <2>7. (\E q \in Queues : DrainWord(c, q)) \/ (\E m \in marks[c] : Publish(c, m))
        \/ ClaimNext(c) \/ Scan(c) \/ TryReady(c) \/ Pop(c) \/ PopWait(c) => Still
    BY <1>0 DEF Lk, DrainWord, Publish, ClaimNext, Scan, TryReady, Pop, PopWait
  <2>8. AccumPop(c) \/ AccumCount(c) \/ WaitPrereqs(c) \/ Reduce(c) => Still
    BY <1>0 DEF Lk, AccumPop, AccumCount, WaitPrereqs, Reduce
  <2>9. AccumWait(c) => Still
    BY <1>0 DEF Lk, AccumWait
  <2>10. AccumLock(c) => Still
    BY <1>0, <1>1 DEF Lk, AccumLock
  <2> HIDE DEF Still
  <2> QED
    BY <1>3, <2>3, <2>4, <2>5, <2>6, <2>7, <2>8, <2>9, <2>10 DEF Cta
<1>4. ASSUME NEW m \in pushed, NicReads(m) PROVE OwnInv'
  <2>1. UNCHANGED <<cfg, pc, chunk, accum>>
    BY <1>4, EnvironmentStays
  <2> DEFINE own == \A p \in Peers : accum[m[2]][p] = 0
             whole == (0..(cfg.devices - 1)) \X TilesIn(m[2]) \subseteq stored
             r == [to |-> m[1], chunk |-> m[2], own |-> own, whole |-> whole]
  <2>2. pushed' \subseteq pushed /\ sent' = sent \cup {r}
    BY <1>4 DEF NicReads
  <2>3. (Incremental => ReceiverOwner) => own
    <3>1. m[2] \in Chunks
      BY <1>0 DEF Works
    <3>2. m[1] \in Receivers(m[2])
      BY <1>1
    <3>3. ReceiverOwner => ~Owns(m[2])
      BY <3>2 DEF Receivers
    <3> QED
      BY <1>1, <3>1, <3>3 DEF Zero
  <2> HIDE DEF own, whole
  <2>4. (Incremental => ReceiverOwner) => r.own
    BY <2>3
  <2> HIDE DEF r
  <2>5. Clean(sent')
    BY <1>1, <2>2, <2>4 DEF Clean
  <2> QED
    BY <1>1, <1>2, <2>1, <2>2, <2>5
<1>5. ASSUME UNCHANGED vars \/ (\E p \in Peers : \E ch \in Chunks : PeerWrites(p, ch))
      PROVE  OwnInv'
  <2>1. UNCHANGED <<cfg, pc, chunk, accum, pushed, sent>>
    BY <1>5 DEF PeerWrites, vars, local, computing, sending, adding
  <2> QED
    BY <1>1, <1>2, <2>1
<1> QED
  BY <1>3, <1>4, <1>5, NextCases

-----------------------------------------------------------------------------
\* Arrivals.

LEMMA ArrivalStep ==
    ASSUME IInv, [Next]_vars
    PROVE  ArrivalInv' /\ arrived \subseteq arrived'
<1>0. /\ ArrivalInv /\ cfg \in Configs /\ marks \in [Ctas -> SUBSET Works]
      /\ arrived \subseteq Works /\ queue \in [Queues -> Seq([tile : Nat, run : Nat])]
      /\ peer_mask \in [Chunks -> SUBSET Peers]
  BY DEF IInv, TypeOK, CtaTypes, ArrivalTypes
<1>1. ASSUME cfg' = cfg, arrived \subseteq arrived', queue' = queue,
             \A c \in Ctas : marks'[c] \subseteq arrived,
             \A ch \in Chunks : \A p \in peer_mask'[ch] : <<p, ch>> \in arrived
      PROVE  ArrivalInv'
  <2>1. \A q \in Queues : \A i \in DOMAIN queue[q] : \E w \in arrived' : queue[q][i] = Word(w)'
    BY <1>0, <1>1, NumbersStay DEF ArrivalInv
  <2> QED
    BY <1>1, <2>1, LaunchStays DEF ArrivalInv
<1>2. ASSUME NEW c \in Ctas, Cta(c) PROVE ArrivalInv' /\ arrived \subseteq arrived'
  <2>1. Others(c) /\ cfg' = cfg
    BY <1>2, OthersStay DEF IInv
  <2>2. ASSUME marks'[c] \subseteq arrived
        PROVE  \A d \in Ctas : marks'[d] \subseteq arrived
    BY <1>0, <2>1, <2>2 DEF Others, ArrivalInv
  <2>3. ASSUME NEW q \in Queues, DrainWord(c, q) PROVE ArrivalInv' /\ arrived \subseteq arrived'
    <3>1. UNCHANGED <<arrived, queue, peer_mask>>
      BY <2>3 DEF DrainWord, arriving
    <3>2. marks'[c] \subseteq arrived
      BY <2>3, DrainedArrived
    <3> QED
      BY <1>0, <1>1, <2>1, <2>2, <3>1, <3>2 DEF ArrivalInv
  <2>4. ASSUME NEW m \in marks[c], Publish(c, m) PROVE ArrivalInv' /\ arrived \subseteq arrived'
    <3>1. /\ UNCHANGED <<arrived, queue>> /\ marks' = [marks EXCEPT ![c] = @ \ {m}]
          /\ peer_mask' = [peer_mask EXCEPT ![m[2]] = @ \cup {m[1]}]
      BY <2>4 DEF Publish, arriving
    <3>2. m \in arrived /\ marks'[c] \subseteq arrived /\ m = <<m[1], m[2]>>
      BY <1>0, <3>1 DEF ArrivalInv, Works
    <3>3. \A ch \in Chunks : \A p \in peer_mask'[ch] : <<p, ch>> \in arrived
      BY <1>0, <3>1, <3>2 DEF ArrivalInv
    <3> QED
      BY <1>1, <2>1, <2>2, <3>1, <3>2, <3>3
  <2> DEFINE Still == UNCHANGED <<arrived, queue, peer_mask, marks>>
  <2>5. Still => ArrivalInv' /\ arrived \subseteq arrived'
    BY <1>0, <1>1, <2>1 DEF ArrivalInv
  <2> USE DEF At, Goes, Takes, computing, sending, arriving, draining, readyq, accumq, adding,
              done, local
  <2>6. StoreTile(c) \/ CountTile(c) \/ ComputeEnds(c) \/ TakeReady(c) \/ PushChunk(c)
        \/ SendEnds(c) \/ EnqueueAccum(c) \/ Published(c) \/ DrainEnds(c) \/ ProgressLoop(c)
        \/ EnqueueReady(c) \/ Check(c) => Still
    BY DEF StoreTile, CountTile, ComputeEnds, TakeReady, PushChunk, SendEnds, EnqueueAccum,
           Published, DrainEnds, ProgressLoop, EnqueueReady, Check
  <2>7. ClaimNext(c) \/ Scan(c) \/ TryReady(c) \/ Pop(c) \/ PopWait(c) => Still
    BY DEF ClaimNext, Scan, TryReady, Pop, PopWait
  <2>8. AccumPop(c) \/ AccumWait(c) \/ AccumLock(c) \/ AccumStore(c) \/ AccumCount(c)
        \/ WaitPrereqs(c) \/ Reduce(c) => Still
    BY DEF AccumPop, AccumWait, AccumLock, AccumStore, AccumCount, WaitPrereqs, Reduce
  <2> HIDE DEF Still
  <2> QED
    BY <1>2, <2>3, <2>4, <2>5, <2>6, <2>7, <2>8 DEF Cta
<1>3. ASSUME NEW p \in Peers, NEW ch \in Chunks, PeerWrites(p, ch)
      PROVE  ArrivalInv' /\ arrived \subseteq arrived'
  <2> DEFINE w == <<p, ch>>
             v == Word(w)
  <2>1. UNCHANGED <<cfg, marks, peer_mask>>
    BY <1>3, EnvironmentStays
  <2>2. /\ arrived' = arrived \cup {w}
        /\ queue' \in {queue, [queue EXCEPT ![QueueFrom(p, ch)] = Append(@, v)]}
    BY <1>3 DEF PeerWrites, Word
  <2> HIDE DEF v
  <2>3. \A q \in Queues : \A i \in DOMAIN queue'[q] :
          \/ i \in DOMAIN queue[q] /\ queue'[q][i] = queue[q][i]
          \/ queue'[q][i] = v
    <3> TAKE q \in Queues
    <3>1. queue[q] \in Seq([tile : Nat, run : Nat])
      BY <1>0
    <3>2. queue'[q] \in {queue[q], Append(queue[q], v)}
      BY <1>0, <2>2
    <3>3. \A s \in Seq([tile : Nat, run : Nat]) : \A x : \A i \in DOMAIN Append(s, x) :
            \/ i \in DOMAIN s /\ Append(s, x)[i] = s[i]
            \/ Append(s, x)[i] = x
      OBVIOUS
    <3>4. CASE queue'[q] = queue[q]
      BY <3>4
    <3>5. CASE queue'[q] = Append(queue[q], v)
      BY <3>1, <3>3, <3>5
    <3> QED
      BY <3>2, <3>4, <3>5
  <2>4. \A q \in Queues : \A i \in DOMAIN queue'[q] : \E x \in arrived' : queue'[q][i] = Word(x)'
    <3> TAKE q \in Queues
    <3> TAKE i \in DOMAIN queue'[q]
    <3>1. CASE i \in DOMAIN queue[q] /\ queue'[q][i] = queue[q][i]
      BY <1>0, <2>1, <2>2, <3>1, NumbersStay DEF ArrivalInv
    <3>2. CASE queue'[q][i] = v
      <4>1. v = Word(w)'
        BY <2>1, NumbersStay DEF v
      <4>2. w \in arrived'
        BY <2>2
      <4> HIDE DEF w
      <4> QED
        BY <3>2, <4>1, <4>2
    <3> QED
      BY <2>3, <3>1, <3>2
  <2> QED
    BY <1>0, <2>1, <2>2, <2>4, LaunchStays DEF ArrivalInv
<1>4. ASSUME UNCHANGED vars \/ (\E m \in pushed : NicReads(m))
      PROVE  ArrivalInv' /\ arrived \subseteq arrived'
  <2>1. UNCHANGED <<cfg, marks, peer_mask, arrived, queue>>
    BY <1>4 DEF NicReads, vars, local, arriving, draining
  <2> QED
    BY <1>0, <1>1, <2>1 DEF ArrivalInv
<1> QED
  BY <1>2, <1>3, <1>4, NextCases

\* A chunk taken from the ready queue is claimed.
LEMMA TakenClaimed ==
    ASSUME IInv, NEW ch \in Chunks, Taken(ch), ReadyQueue
    PROVE  Claimed(ch)
<1>1. PICK s \in 0..(TotalChunks - 1) : ready_slots[s] = ch + 1
  BY DEF Taken
<1>2. ch \in Nat
  BY ChunkNumbers DEF IInv, TypeOK
<1>3. ready_slots[s] # 0 /\ ready_slots[s] - 1 = ch
  BY <1>1, <1>2
<1> QED
  BY <1>3 DEF IInv, ReadyInv, ReadySlotInv

LEMMA FlagStep ==
    ASSUME IInv, [Next]_vars
    PROVE  FlagInv'
<1>0. /\ FlagInv /\ cfg \in Configs /\ marks \in [Ctas -> SUBSET Works]
      /\ arrived \subseteq Works /\ peer_mask \in [Chunks -> SUBSET Peers]
      /\ remote_arrived_flag \in [Chunks -> {0, 1, 2}] /\ sender_done \subseteq Chunks
  BY DEF IInv, TypeOK, CtaTypes, CountTypes, ArrivalTypes
<1>a. \A ch \in Chunks : AllArrived(ch) => \A p \in Peers : <<p, ch>> \in arrived'
  BY ArrivalStep DEF AllArrived
<1>1. ASSUME cfg' = cfg,
             \A ch \in Chunks :
               /\ remote_arrived_flag'[ch] # 0 => AllArrived(ch)
               /\ Transport /\ ~Incremental /\ remote_arrived_flag'[ch] # 0
                    => Cardinality(peer_mask'[ch]) >= NumPeers
      PROVE  FlagInv'
  BY <1>1, <1>a, LaunchStays DEF FlagInv, AllArrived
<1>2. ASSUME cfg' = cfg, peer_mask' = peer_mask, remote_arrived_flag' = remote_arrived_flag
      PROVE  FlagInv'
  BY <1>0, <1>1, <1>2 DEF FlagInv
<1>3. ASSUME NEW c \in Ctas, NEW m \in marks[c], Publish(c, m) PROVE FlagInv'
  <2>1. cfg' = cfg
    BY <1>3 DEF Publish
  <2>2. /\ peer_mask' = [peer_mask EXCEPT ![m[2]] = @ \cup {m[1]}]
        /\ \/ remote_arrived_flag' = remote_arrived_flag
           \/ /\ Cardinality(peer_mask[m[2]] \cup {m[1]}) >= NumPeers
              /\ remote_arrived_flag' = [remote_arrived_flag EXCEPT ![m[2]] = 1]
    BY <1>3 DEF Publish
  <2>3. m \in arrived /\ m = <<m[1], m[2]>> /\ m[1] \in Peers /\ m[2] \in Chunks
    BY <1>0 DEF IInv, ArrivalInv, Works
  <2>4. IsFiniteSet(Peers) /\ Cardinality(Peers) = NumPeers /\ NumPeers \in Nat
    BY <1>0, ChunkNumbers
  <2>5. \A ch \in Chunks :
          /\ peer_mask[ch] \subseteq peer_mask'[ch] /\ peer_mask'[ch] \subseteq Peers
          /\ IsFiniteSet(peer_mask'[ch]) /\ IsFiniteSet(peer_mask[ch])
    <3>1. \A ch \in Chunks : /\ peer_mask[ch] \subseteq peer_mask'[ch]
                             /\ peer_mask'[ch] \subseteq Peers
      BY <1>0, <2>2, <2>3
    <3> QED
      BY <2>4, <3>1, FS_Subset
  <2>6. \A ch \in Chunks : /\ Cardinality(peer_mask[ch]) <= Cardinality(peer_mask'[ch])
                           /\ Cardinality(peer_mask[ch]) \in Nat
                           /\ Cardinality(peer_mask'[ch]) \in Nat
    BY <2>5, FS_Subset, FS_CardinalityType
  <2>7. ASSUME Cardinality(peer_mask'[m[2]]) >= NumPeers
        PROVE  AllArrived(m[2])
    <3>1. Cardinality(peer_mask'[m[2]]) <= NumPeers /\ Cardinality(peer_mask'[m[2]]) \in Nat
      BY <2>3, <2>4, <2>5, <2>6, FS_Subset
    <3>2. Cardinality(peer_mask'[m[2]]) = Cardinality(Peers)
      BY <2>4, <2>7, <3>1
    <3>3. peer_mask'[m[2]] = Peers
      BY <2>3, <2>4, <2>5, <3>2, FS_Subset
    <3>4. \A p \in peer_mask'[m[2]] : <<p, m[2]>> \in arrived
      BY <1>0, <2>2, <2>3 DEF IInv, ArrivalInv
    <3> QED
      BY <3>3, <3>4 DEF AllArrived
  <2>8. peer_mask'[m[2]] = peer_mask[m[2]] \cup {m[1]}
    BY <1>0, <2>2, <2>3
  <2>9. \A ch \in Chunks :
               /\ remote_arrived_flag'[ch] # 0 => AllArrived(ch)
               /\ Transport /\ ~Incremental /\ remote_arrived_flag'[ch] # 0
                    => Cardinality(peer_mask'[ch]) >= NumPeers
    <3> TAKE ch \in Chunks
    <3>1. CASE remote_arrived_flag'[ch] = remote_arrived_flag[ch]
      <4>1. /\ remote_arrived_flag[ch] # 0 => AllArrived(ch)
            /\ Transport /\ ~Incremental /\ remote_arrived_flag[ch] # 0
                    => Cardinality(peer_mask[ch]) >= NumPeers
        BY <1>0 DEF FlagInv
      <4>2. Cardinality(peer_mask[ch]) >= NumPeers => Cardinality(peer_mask'[ch]) >= NumPeers
        BY <2>4, <2>6
      <4> QED
        BY <3>1, <4>1, <4>2
    <3>2. CASE remote_arrived_flag'[ch] # remote_arrived_flag[ch]
      <4>1. ch = m[2] /\ Cardinality(peer_mask'[m[2]]) >= NumPeers
        BY <1>0, <2>2, <2>3, <2>8, <3>2
      <4> QED
        BY <2>7, <4>1
    <3> QED
      BY <3>1, <3>2
  <2> QED
    BY <1>1, <2>1, <2>9
<1>4. ASSUME NEW c \in Ctas, TryReady(c) PROVE FlagInv'
  <2>1. /\ cfg' = cfg /\ peer_mask' = peer_mask
        /\ \/ remote_arrived_flag' = remote_arrived_flag
           \/ /\ Ready(chunk[c]) /\ (Transport => remote_arrived_flag[chunk[c]] = 1)
              /\ remote_arrived_flag' = [remote_arrived_flag EXCEPT ![chunk[c]] = 2]
    BY <1>4 DEF TryReady
  <2>2. ASSUME Ready(chunk[c]) PROVE AllArrived(chunk[c]) /\ chunk[c] \in Chunks
    BY <1>0, <2>2 DEF Ready, AllArrived, FlagInv
  <2>3. \A ch \in Chunks :
               /\ remote_arrived_flag'[ch] # 0 => AllArrived(ch)
               /\ Transport /\ ~Incremental /\ remote_arrived_flag'[ch] # 0
                    => Cardinality(peer_mask'[ch]) >= NumPeers
    BY <1>0, <2>1, <2>2 DEF FlagInv
  <2> QED
    BY <1>1, <2>1, <2>3
<1>5. ASSUME NEW c \in Ctas, WaitPrereqs(c) PROVE FlagInv'
  <2>1. /\ cfg' = cfg /\ peer_mask' = peer_mask /\ pc[c] = "wait"
        /\ \/ remote_arrived_flag' = remote_arrived_flag
           \/ /\ ~Incremental /\ remote_arrived_flag[chunk[c]] = 0 /\ AllArrived(chunk[c])
              /\ remote_arrived_flag' = [remote_arrived_flag EXCEPT ![chunk[c]] = 1]
    BY <1>5 DEF WaitPrereqs, At, AllArrived
  <2>2. chunk[c] \in Chunks /\ Taken(chunk[c])
    BY <2>1 DEF IInv, HoldInv, Holds
  <2>3. Transport /\ ~Incremental => remote_arrived_flag[chunk[c]] = 2
    BY <2>2, TakenClaimed DEF Claimed, ReadyQueue
  <2>4. \A ch \in Chunks :
               /\ remote_arrived_flag'[ch] # 0 => AllArrived(ch)
               /\ Transport /\ ~Incremental /\ remote_arrived_flag'[ch] # 0
                    => Cardinality(peer_mask'[ch]) >= NumPeers
    BY <1>0, <2>1, <2>2, <2>3 DEF FlagInv
  <2> QED
    BY <1>1, <2>1, <2>4
<1>6. ASSUME NEW c \in Ctas, Cta(c) PROVE FlagInv'
  <2> DEFINE Still == UNCHANGED <<cfg, peer_mask, remote_arrived_flag>>
  <2> USE DEF At, Goes, Takes, computing, sending, arriving, draining, readyq, accumq, adding,
              done, local
  <2>1. StoreTile(c) \/ CountTile(c) \/ ComputeEnds(c) \/ TakeReady(c) \/ PushChunk(c)
        \/ SendEnds(c) \/ EnqueueAccum(c) \/ Published(c) \/ DrainEnds(c) \/ ProgressLoop(c)
        \/ EnqueueReady(c) \/ Check(c) => Still
    BY DEF StoreTile, CountTile, ComputeEnds, TakeReady, PushChunk, SendEnds, EnqueueAccum,
           Published, DrainEnds, ProgressLoop, EnqueueReady, Check
  <2>2. (\E q \in Queues : DrainWord(c, q)) \/ ClaimNext(c) \/ Scan(c) \/ Pop(c) \/ PopWait(c)
          => Still
    BY DEF DrainWord, ClaimNext, Scan, Pop, PopWait
  <2>3. AccumPop(c) \/ AccumWait(c) \/ AccumLock(c) \/ AccumStore(c) \/ AccumCount(c)
        \/ Reduce(c) => Still
    BY DEF AccumPop, AccumWait, AccumLock, AccumStore, AccumCount, Reduce
  <2>4. Still => FlagInv'
    BY <1>2
  <2> HIDE DEF Still
  <2> QED
    BY <1>3, <1>4, <1>5, <1>6, <2>1, <2>2, <2>3, <2>4 DEF Cta
<1>7. ASSUME \/ \E m \in pushed : NicReads(m)
             \/ \E p \in Peers : \E ch \in Chunks : PeerWrites(p, ch)
             \/ UNCHANGED vars
      PROVE  FlagInv'
  BY <1>2, <1>7, EnvironmentStays
<1> QED
  BY <1>6, <1>7, NextCases

-----------------------------------------------------------------------------
\* The ready queue.

Slots == 0..(TotalChunks - 1)
NextClaimed(ch) ==
    IF Incremental THEN ch \in chunk_reduce_done' ELSE remote_arrived_flag'[ch] = 2
NextPopping(s) == \E c \in Ctas : pc'[c] = "pop_wait" /\ slot'[c] = s
NextTaken(ch) ==
    IF ReadyQueue THEN \E s \in Slots : s < ready_head' /\ ~NextPopping(s) /\ ready_slots'[s] = ch + 1
    ELSE ch < next_reduce'
NextHolds(c) == pc'[c] \in {"wait", "reduce"}

\* The invariants of the ready queue, of the next state.
LEMMA ReadyPrimed ==
    ASSUME cfg' = cfg
    PROVE  /\ ReadyTailInv' <=>
                /\ ready_head' <= ready_tail'
                /\ ReadyQueue => ready_tail' = Cardinality({ch \in Chunks : NextClaimed(ch)})
           /\ ReadyEnqInv' <=> \A c \in Ctas : pc'[c] = "enqueue_ready" =>
                /\ chunk'[c] \in Chunks /\ NextClaimed(chunk'[c])
                /\ slot'[c] < ready_tail' /\ ready_slots'[slot'[c]] = 0
                /\ \A s \in Slots : ready_slots'[s] # chunk'[c] + 1
                /\ \A d \in Ctas : pc'[d] = "enqueue_ready" /\ d # c =>
                     slot'[d] # slot'[c] /\ chunk'[d] # chunk'[c]
           /\ ReadySlotInv' <=>
                /\ \A s \in Slots : ready_slots'[s] # 0 =>
                     /\ s < ready_tail' /\ ready_slots'[s] - 1 \in Chunks
                     /\ NextClaimed(ready_slots'[s] - 1)
                /\ \A s, t \in Slots :
                     ready_slots'[s] # 0 /\ ready_slots'[s] = ready_slots'[t] => s = t
           /\ ReadyPopInv' <=> \A c \in Ctas : pc'[c] = "pop_wait" =>
                /\ slot'[c] < ready_head'
                /\ \A d \in Ctas : pc'[d] = "pop_wait" /\ d # c => slot'[d] # slot'[c]
           /\ HoldInv' <=>
                /\ \A c \in Ctas : NextHolds(c) =>
                     /\ chunk'[c] \in Chunks /\ NextTaken(chunk'[c]) /\ output'[chunk'[c]] = <<>>
                     /\ \A d \in Ctas : NextHolds(d) /\ d # c => chunk'[d] # chunk'[c]
                /\ \A ch \in Chunks : output'[ch] # <<>> => NextTaken(ch)
<1>1. /\ Ctas' = Ctas /\ Chunks' = Chunks /\ TotalChunks' = TotalChunks
      /\ (Incremental' <=> Incremental) /\ (ReadyQueue' <=> ReadyQueue)
  BY LaunchStays
<1>2. ReadyTailInv' <=>
                /\ ready_head' <= ready_tail'
                /\ ReadyQueue => ready_tail' = Cardinality({ch \in Chunks : NextClaimed(ch)})
  <2>1. {ch \in Chunks : Claimed(ch)}' = {ch \in Chunks : NextClaimed(ch)}
    BY <1>1 DEF Claimed, NextClaimed
  <2> QED
    BY <1>1, <2>1 DEF ReadyTailInv
<1>3. ReadyEnqInv' <=> \A c \in Ctas : pc'[c] = "enqueue_ready" =>
                /\ chunk'[c] \in Chunks /\ NextClaimed(chunk'[c])
                /\ slot'[c] < ready_tail' /\ ready_slots'[slot'[c]] = 0
                /\ \A s \in Slots : ready_slots'[s] # chunk'[c] + 1
                /\ \A d \in Ctas : pc'[d] = "enqueue_ready" /\ d # c =>
                     slot'[d] # slot'[c] /\ chunk'[d] # chunk'[c]
  BY <1>1 DEF ReadyEnqInv, Claimed, NextClaimed, Slots
<1>4. ReadySlotInv' <=>
                /\ \A s \in Slots : ready_slots'[s] # 0 =>
                     /\ s < ready_tail' /\ ready_slots'[s] - 1 \in Chunks
                     /\ NextClaimed(ready_slots'[s] - 1)
                /\ \A s, t \in Slots :
                     ready_slots'[s] # 0 /\ ready_slots'[s] = ready_slots'[t] => s = t
  BY <1>1 DEF ReadySlotInv, Claimed, NextClaimed, Slots
<1>5. ReadyPopInv' <=> \A c \in Ctas : pc'[c] = "pop_wait" =>
                /\ slot'[c] < ready_head'
                /\ \A d \in Ctas : pc'[d] = "pop_wait" /\ d # c => slot'[d] # slot'[c]
  BY <1>1 DEF ReadyPopInv
<1>6. HoldInv' <=>
                /\ \A c \in Ctas : NextHolds(c) =>
                     /\ chunk'[c] \in Chunks /\ NextTaken(chunk'[c]) /\ output'[chunk'[c]] = <<>>
                     /\ \A d \in Ctas : NextHolds(d) /\ d # c => chunk'[d] # chunk'[c]
                /\ \A ch \in Chunks : output'[ch] # <<>> => NextTaken(ch)
  BY <1>1 DEF HoldInv, Holds, NextHolds, Taken, NextTaken, Popping, NextPopping, Slots
<1> QED
  BY <1>2, <1>3, <1>4, <1>5, <1>6

\* Nothing happens to the queue and to the CTAs busy with it.
LEMMA ReadyFrame ==
    ASSUME IInv, cfg' = cfg,
           UNCHANGED <<ready_slots, ready_head, ready_tail, next_reduce, output>>,
           \A ch \in Chunks : NextClaimed(ch) <=> Claimed(ch),
           \A c \in Ctas :
             /\ pc'[c] = "enqueue_ready" <=> pc[c] = "enqueue_ready"
             /\ pc'[c] = "pop_wait" <=> pc[c] = "pop_wait"
             /\ NextHolds(c) <=> Holds(c)
             /\ pc[c] \in {"enqueue_ready", "pop_wait", "wait", "reduce"} =>
                  chunk'[c] = chunk[c] /\ slot'[c] = slot[c]
    PROVE  ReadyInv' /\ HoldInv'
<1>0. ReadyTailInv /\ ReadyEnqInv /\ ReadySlotInv /\ ReadyPopInv /\ HoldInv
  BY DEF IInv, ReadyInv
<1>1. \A s : NextPopping(s) <=> Popping(s)
  BY DEF NextPopping, Popping
<1>2. \A ch : NextTaken(ch) <=> Taken(ch)
  BY <1>1 DEF NextTaken, Taken, Slots
<1>3. {ch \in Chunks : NextClaimed(ch)} = {ch \in Chunks : Claimed(ch)}
  OBVIOUS
<1>4. ReadyTailInv'
  BY <1>0, <1>3, ReadyPrimed DEF ReadyTailInv
<1>5. ReadyEnqInv'
  BY <1>0, ReadyPrimed DEF ReadyEnqInv, Slots
<1>6. ReadySlotInv'
  BY <1>0, ReadyPrimed DEF ReadySlotInv, Slots
<1>7. ReadyPopInv'
  BY <1>0, ReadyPrimed DEF ReadyPopInv
<1>8. HoldInv'
  BY <1>0, <1>2, ReadyPrimed DEF HoldInv, Holds
<1> QED
  BY <1>4, <1>5, <1>6, <1>7, <1>8 DEF ReadyInv

\* A CTA claims a chunk and the next slot for it.
LEMMA ReadyClaim ==
    ASSUME IInv, NEW c \in Ctas, NEW k \in Chunks, ReadyQueue, ~Claimed(k), Others(c), cfg' = cfg,
           pc[c] \notin {"enqueue_ready", "pop_wait", "wait", "reduce"},
           pc'[c] = "enqueue_ready", chunk'[c] = k, slot'[c] = ready_tail,
           ready_tail' = ready_tail + 1,
           UNCHANGED <<ready_slots, ready_head, next_reduce, output>>,
           \A ch \in Chunks : NextClaimed(ch) <=> Claimed(ch) \/ ch = k
    PROVE  ReadyInv' /\ HoldInv'
<1>0. ReadyTailInv /\ ReadyEnqInv /\ ReadySlotInv /\ ReadyPopInv /\ HoldInv /\ cfg \in Configs
  BY DEF IInv, ReadyInv, TypeOK
<1>t. /\ ready_tail \in Nat /\ ready_head \in Nat /\ slot \in [Ctas -> Nat]
      /\ ready_slots \in [Slots -> Nat] /\ Chunks \subseteq Nat
  BY <1>0, ChunkNumbers DEF IInv, TypeOK, CtaTypes, ReduceTypes, Slots
<1>o. \A d \in Ctas : d # c => /\ pc'[d] = pc[d] /\ chunk'[d] = chunk[d] /\ slot'[d] = slot[d]
  BY DEF Others
<1>1. \A s : NextPopping(s) <=> Popping(s)
  BY <1>o DEF NextPopping, Popping
<1>2. \A ch : NextTaken(ch) <=> Taken(ch)
  BY <1>1 DEF NextTaken, Taken, Slots
<1> DEFINE A == {ch \in Chunks : Claimed(ch)}
<1>3. {ch \in Chunks : NextClaimed(ch)} = A \cup {k} /\ k \notin A
  OBVIOUS
<1>4. IsFiniteSet(A) /\ ready_tail = Cardinality(A)
  BY <1>0, QueuesSuffice DEF ReadyTailInv
<1>5. Cardinality(A \cup {k}) = ready_tail + 1
  BY <1>3, <1>4, FS_AddElement
<1>6. ready_tail \in Slots
  <2>1. IsFiniteSet(Chunks) /\ Cardinality(Chunks) = TotalChunks /\ TotalChunks \in Nat
    BY <1>0, ChunkNumbers
  <2>2. Cardinality(A \cup {k}) <= TotalChunks
    BY <2>1, FS_Subset
  <2> QED
    BY <1>t, <1>5, <2>1, <2>2 DEF Slots
<1>7. ReadyTailInv'
  <2>1. ready_tail' = Cardinality({ch \in Chunks : NextClaimed(ch)})
    BY <1>3, <1>5
  <2>2. ready_head' <= ready_tail'
    BY <1>0, <1>t DEF ReadyTailInv
  <2> QED
    BY <2>1, <2>2, ReadyPrimed
<1>8. ready_slots[ready_tail] = 0
  BY <1>0, <1>t, <1>6 DEF ReadySlotInv, Slots
<1>9. \A s \in Slots : ready_slots[s] # k + 1
  <2> SUFFICES ASSUME NEW s \in Slots, ready_slots[s] = k + 1 PROVE FALSE
    OBVIOUS
  <2>1. ready_slots[s] # 0 /\ ready_slots[s] - 1 = k
    BY <1>t
  <2> QED
    BY <1>0, <2>1 DEF ReadySlotInv, Slots
<1>10. ReadyEnqInv'
  <2>1. ASSUME NEW d \in Ctas, pc'[d] = "enqueue_ready"
        PROVE  /\ chunk'[d] \in Chunks /\ NextClaimed(chunk'[d])
               /\ slot'[d] < ready_tail' /\ ready_slots'[slot'[d]] = 0
               /\ \A s \in Slots : ready_slots'[s] # chunk'[d] + 1
               /\ \A e \in Ctas : pc'[e] = "enqueue_ready" /\ e # d =>
                     slot'[e] # slot'[d] /\ chunk'[e] # chunk'[d]
    <3>1. \A e \in Ctas : e # c /\ pc'[e] = "enqueue_ready" =>
            /\ pc[e] = "enqueue_ready" /\ slot[e] < ready_tail /\ slot[e] # ready_tail
            /\ chunk[e] \in Chunks /\ Claimed(chunk[e]) /\ chunk[e] # k
      BY <1>0, <1>t, <1>o DEF ReadyEnqInv
    <3>2. CASE d = c
      <4>1. slot'[d] < ready_tail' /\ ready_slots'[slot'[d]] = 0
        BY <1>t, <1>8, <3>2
      <4> QED
        BY <1>9, <1>o, <3>1, <3>2, <4>1
    <3>3. CASE d # c
      <4>1. /\ pc[d] = "enqueue_ready" /\ slot[d] < ready_tail /\ slot[d] # ready_tail
            /\ chunk[d] \in Chunks /\ Claimed(chunk[d]) /\ chunk[d] # k
            /\ chunk'[d] = chunk[d] /\ slot'[d] = slot[d]
        BY <1>o, <2>1, <3>1, <3>3
      <4>2. slot'[d] < ready_tail'
        BY <1>t, <4>1
      <4>3. ready_slots'[slot'[d]] = 0 /\ \A s \in Slots : ready_slots'[s] # chunk'[d] + 1
        BY <1>0, <4>1 DEF ReadyEnqInv, Slots
      <4>4. \A e \in Ctas : pc'[e] = "enqueue_ready" /\ e # d =>
                     slot'[e] # slot'[d] /\ chunk'[e] # chunk'[d]
        BY <1>0, <1>o, <3>1, <4>1 DEF ReadyEnqInv
      <4> QED
        BY <4>1, <4>2, <4>3, <4>4
    <3> QED
      BY <3>2, <3>3
  <2> QED
    BY <2>1, ReadyPrimed
<1>11. ReadySlotInv'
  <2>1. \A s \in Slots : ready_slots'[s] # 0 =>
                     /\ s < ready_tail' /\ ready_slots'[s] - 1 \in Chunks
                     /\ NextClaimed(ready_slots'[s] - 1)
    <3> TAKE s \in Slots
    <3>1. s \in Int
      BY DEF Slots
    <3>2. ready_slots[s] # 0 => /\ s < ready_tail /\ ready_slots[s] - 1 \in Chunks
                                /\ Claimed(ready_slots[s] - 1)
      BY <1>0 DEF ReadySlotInv, Slots
    <3> QED
      BY <1>t, <3>1, <3>2
  <2>2. \A s, t \in Slots : ready_slots'[s] # 0 /\ ready_slots'[s] = ready_slots'[t] => s = t
    BY <1>0 DEF ReadySlotInv, Slots
  <2> QED
    BY <2>1, <2>2, ReadyPrimed
<1>12. ReadyPopInv'
  <2>1. \A d \in Ctas : pc'[d] = "pop_wait" => d # c /\ pc[d] = "pop_wait" /\ slot'[d] = slot[d]
    BY <1>o
  <2> QED
    BY <1>0, <2>1, ReadyPrimed DEF ReadyPopInv
<1>13. HoldInv'
  <2>1. \A d \in Ctas : NextHolds(d) => d # c /\ Holds(d) /\ chunk'[d] = chunk[d]
    BY <1>o DEF NextHolds, Holds
  <2> QED
    BY <1>0, <1>2, <2>1, ReadyPrimed DEF HoldInv
<1> QED
  BY <1>7, <1>10, <1>11, <1>12, <1>13 DEF ReadyInv

\* The chunk is stored in its slot.
LEMMA ReadyEnqueue ==
    ASSUME IInv, NEW c \in Ctas, EnqueueReady(c)
    PROVE  ReadyInv' /\ HoldInv'
<1>0. ReadyTailInv /\ ReadyEnqInv /\ ReadySlotInv /\ ReadyPopInv /\ HoldInv /\ cfg \in Configs
  BY DEF IInv, ReadyInv, TypeOK
<1>t. /\ ready_tail \in Nat /\ ready_head \in Nat /\ slot \in [Ctas -> Nat]
      /\ ready_slots \in [Slots -> Nat] /\ Chunks \subseteq Nat /\ pc \in [Ctas -> Places]
  BY <1>0, ChunkNumbers DEF IInv, TypeOK, CtaTypes, ReduceTypes, Slots
<1>o. /\ cfg' = cfg
      /\ \A d \in Ctas : d # c => pc'[d] = pc[d] /\ chunk'[d] = chunk[d] /\ slot'[d] = slot[d]
  BY OthersStay DEF Others, IInv, Cta
<1> DEFINE z == slot[c]
           k == chunk[c]
<1>1. /\ pc[c] = "enqueue_ready" /\ pc'[c] \in {"claim", "pop"}
      /\ ready_slots' = IF z < TotalChunks THEN [ready_slots EXCEPT ![z] = k + 1] ELSE ready_slots
      /\ UNCHANGED <<slot, chunk, ready_head, ready_tail, next_reduce, output,
                     remote_arrived_flag, chunk_reduce_done>>
  BY <1>t DEF EnqueueReady, At, Goes, local, draining, adding, done
<1>2. ReadyQueue
  BY <1>1 DEF IInv, PlaceInv
<1>3. /\ k \in Chunks /\ Claimed(k) /\ z < ready_tail /\ ready_slots[z] = 0
      /\ \A s \in Slots : ready_slots[s] # k + 1
      /\ \A d \in Ctas : pc[d] = "enqueue_ready" /\ d # c => slot[d] # z /\ chunk[d] # k
  BY <1>0, <1>1 DEF ReadyEnqInv, Slots
<1>4. z \in Slots /\ TotalChunks \in Nat
  <2>1. ready_tail <= TotalChunks /\ TotalChunks \in Nat /\ z \in Nat
    BY <1>0, <1>2, <1>t, QueuesSuffice, ChunkNumbers
  <2> QED
    BY <1>3, <1>t, <2>1 DEF Slots
<1>5. \A s \in Slots : ready_slots'[s] = IF s = z THEN k + 1 ELSE ready_slots[s]
  BY <1>1, <1>4, <1>t DEF Slots
<1> HIDE DEF z, k
<1>6. \A ch : NextClaimed(ch) <=> Claimed(ch)
  BY <1>1 DEF NextClaimed, Claimed
<1>7. \A s : NextPopping(s) <=> Popping(s)
  BY <1>1, <1>o DEF NextPopping, Popping
<1>8. \A ch \in Chunks : Taken(ch) => NextTaken(ch)
  <2> SUFFICES ASSUME NEW ch \in Chunks, Taken(ch) PROVE NextTaken(ch)
    OBVIOUS
  <2>1. PICK s \in Slots : s < ready_head /\ ~Popping(s) /\ ready_slots[s] = ch + 1
    BY <1>2 DEF Taken, Slots
  <2>2. s # z
    BY <1>3, <1>t, <2>1 DEF z
  <2> QED
    BY <1>1, <1>2, <1>5, <1>7, <2>1, <2>2 DEF NextTaken
<1>9. ReadyTailInv'
  BY <1>0, <1>1, <1>6, <1>o, ReadyPrimed DEF ReadyTailInv
<1>10. ReadyEnqInv'
  <2>1. ASSUME NEW d \in Ctas, pc'[d] = "enqueue_ready"
        PROVE  /\ chunk'[d] \in Chunks /\ NextClaimed(chunk'[d])
               /\ slot'[d] < ready_tail' /\ ready_slots'[slot'[d]] = 0
               /\ \A s \in Slots : ready_slots'[s] # chunk'[d] + 1
               /\ \A e \in Ctas : pc'[e] = "enqueue_ready" /\ e # d =>
                     slot'[e] # slot'[d] /\ chunk'[e] # chunk'[d]
    <3>1. d # c /\ pc[d] = "enqueue_ready" /\ chunk'[d] = chunk[d] /\ slot'[d] = slot[d]
      BY <1>1, <1>o, <2>1
    <3>2. /\ chunk[d] \in Chunks /\ Claimed(chunk[d])
          /\ slot[d] < ready_tail /\ ready_slots[slot[d]] = 0
          /\ \A s \in Slots : ready_slots[s] # chunk[d] + 1
          /\ \A e \in Ctas : pc[e] = "enqueue_ready" /\ e # d =>
               slot[e] # slot[d] /\ chunk[e] # chunk[d]
      BY <1>0, <3>1 DEF ReadyEnqInv, Slots
    <3>3. slot[d] # z /\ chunk[d] # k /\ slot[d] \in Nat
      BY <1>3, <1>t, <3>1
    <3>4. k + 1 # chunk[d] + 1
      <4>1. k \in Nat /\ chunk[d] \in Nat
        BY <1>3, <1>t, <3>2
      <4> QED
        BY <3>3, <4>1
    <3>5. \A s \in Slots : ready_slots'[s] # chunk'[d] + 1
      BY <1>5, <3>1, <3>2, <3>4
    <3>6. ready_slots'[slot'[d]] = 0
      <4>1. slot[d] \in Slots
        <5>1. ready_tail <= TotalChunks /\ TotalChunks \in Nat
          BY <1>0, <1>2, QueuesSuffice, ChunkNumbers
        <5> QED
          BY <1>t, <3>2, <3>3, <5>1 DEF Slots
      <4> QED
        BY <1>5, <3>1, <3>2, <3>3, <4>1
    <3>7. \A e \in Ctas : pc'[e] = "enqueue_ready" => pc[e] = "enqueue_ready"
      BY <1>1, <1>o
    <3> QED
      BY <1>1, <1>6, <3>1, <3>2, <3>5, <3>6, <3>7
  <2> QED
    BY <1>o, <2>1, ReadyPrimed
<1>11. ReadySlotInv'
  <2>1. \A s \in Slots : ready_slots'[s] # 0 =>
                     /\ s < ready_tail' /\ ready_slots'[s] - 1 \in Chunks
                     /\ NextClaimed(ready_slots'[s] - 1)
    <3> TAKE s \in Slots
    <3>1. CASE s = z
      <4>1. k \in Nat
        BY <1>3, <1>t
      <4>2. ready_slots'[s] = k + 1
        BY <1>5, <3>1
      <4>3. ready_slots'[s] - 1 = k
        BY <4>1, <4>2
      <4> QED
        BY <1>1, <1>3, <1>6, <3>1, <4>3
    <3>2. CASE s # z
      BY <1>0, <1>1, <1>5, <1>6, <3>2 DEF ReadySlotInv, Slots
    <3> QED
      BY <3>1, <3>2
  <2>2. \A s, t \in Slots : ready_slots'[s] # 0 /\ ready_slots'[s] = ready_slots'[t] => s = t
    <3>1. \A s, t \in Slots : ready_slots[s] # 0 /\ ready_slots[s] = ready_slots[t] => s = t
      BY <1>0 DEF ReadySlotInv, Slots
    <3> QED
      BY <1>3, <1>5, <3>1
  <2> QED
    BY <1>o, <2>1, <2>2, ReadyPrimed
<1>12. ReadyPopInv'
  <2>1. \A d \in Ctas : pc'[d] = "pop_wait" => pc[d] = "pop_wait" /\ slot'[d] = slot[d]
    BY <1>1, <1>o
  <2> QED
    BY <1>0, <1>1, <1>o, <2>1, ReadyPrimed DEF ReadyPopInv
<1>13. HoldInv'
  <2>1. \A d \in Ctas : NextHolds(d) => Holds(d) /\ chunk'[d] = chunk[d]
    BY <1>1, <1>o DEF NextHolds, Holds
  <2> QED
    BY <1>0, <1>1, <1>8, <1>o, <2>1, ReadyPrimed DEF HoldInv
<1> QED
  BY <1>9, <1>10, <1>11, <1>12, <1>13 DEF ReadyInv

\* The head of the queue is claimed.
LEMMA ReadyPop ==
    ASSUME IInv, NEW c \in Ctas, Pop(c), ready_head < ready_tail
    PROVE  ReadyInv' /\ HoldInv'
<1>0. ReadyTailInv /\ ReadyEnqInv /\ ReadySlotInv /\ ReadyPopInv /\ HoldInv /\ cfg \in Configs
  BY DEF IInv, ReadyInv, TypeOK
<1>t. /\ ready_tail \in Nat /\ ready_head \in Nat /\ slot \in [Ctas -> Nat]
      /\ ready_slots \in [Slots -> Nat] /\ Chunks \subseteq Nat /\ pc \in [Ctas -> Places]
  BY <1>0, ChunkNumbers DEF IInv, TypeOK, CtaTypes, ReduceTypes, Slots
<1>o. /\ cfg' = cfg
      /\ \A d \in Ctas : d # c => pc'[d] = pc[d] /\ chunk'[d] = chunk[d] /\ slot'[d] = slot[d]
  BY OthersStay DEF Others, IInv, Cta
<1>1. /\ pc[c] = "pop" /\ pc'[c] = "pop_wait" /\ slot'[c] = ready_head
      /\ ready_head' = ready_head + 1
      /\ UNCHANGED <<chunk, ready_slots, ready_tail, next_reduce, output,
                     remote_arrived_flag, chunk_reduce_done>>
  BY <1>t DEF Pop, At, Goes, draining, adding, done
<1>2. ReadyQueue
  BY <1>1 DEF IInv, PlaceInv
<1>6. \A ch : NextClaimed(ch) <=> Claimed(ch)
  BY <1>1 DEF NextClaimed, Claimed
<1>7. \A s : s # ready_head => (NextPopping(s) <=> Popping(s))
  BY <1>1, <1>o DEF NextPopping, Popping
<1>8. \A ch \in Chunks : Taken(ch) => NextTaken(ch)
  <2> SUFFICES ASSUME NEW ch \in Chunks, Taken(ch) PROVE NextTaken(ch)
    OBVIOUS
  <2>1. PICK s \in Slots : s < ready_head /\ ~Popping(s) /\ ready_slots[s] = ch + 1
    BY <1>2 DEF Taken, Slots
  <2>2. s # ready_head /\ s < ready_head'
    BY <1>1, <1>t, <2>1 DEF Slots
  <2> QED
    BY <1>1, <1>2, <1>7, <2>1, <2>2 DEF NextTaken
<1>9. ReadyTailInv'
  <2>1. ready_head' <= ready_tail'
    BY <1>1, <1>t
  <2> QED
    BY <1>0, <1>1, <1>6, <1>o, <2>1, ReadyPrimed DEF ReadyTailInv
<1>10. ReadyEnqInv'
  <2>1. \A d \in Ctas : pc'[d] = "enqueue_ready" =>
          d # c /\ pc[d] = "enqueue_ready" /\ chunk'[d] = chunk[d] /\ slot'[d] = slot[d]
    BY <1>1, <1>o
  <2> QED
    BY <1>0, <1>1, <1>6, <1>o, <2>1, ReadyPrimed DEF ReadyEnqInv, Slots
<1>11. ReadySlotInv'
  BY <1>0, <1>1, <1>6, <1>o, ReadyPrimed DEF ReadySlotInv, Slots
<1>12. ReadyPopInv'
  <2>1. \A d \in Ctas : pc'[d] = "pop_wait" /\ d # c =>
          pc[d] = "pop_wait" /\ slot'[d] = slot[d] /\ slot[d] < ready_head /\ slot[d] \in Nat
    BY <1>0, <1>o, <1>t DEF ReadyPopInv
  <2>2. ASSUME NEW d \in Ctas, pc'[d] = "pop_wait"
        PROVE  /\ slot'[d] < ready_head'
               /\ \A e \in Ctas : pc'[e] = "pop_wait" /\ e # d => slot'[e] # slot'[d]
    <3>1. CASE d = c
      <4>1. \A e \in Ctas : pc'[e] = "pop_wait" /\ e # c => slot'[e] # ready_head
        BY <1>t, <2>1
      <4> QED
        BY <1>1, <1>t, <3>1, <4>1
    <3>2. CASE d # c
      <4>1. slot'[d] = slot[d] /\ slot[d] < ready_head + 1 /\ slot[d] # ready_head
        BY <1>t, <2>1, <2>2, <3>2
      <4>2. \A e \in Ctas : pc'[e] = "pop_wait" /\ e # d => slot'[e] # slot'[d]
        BY <1>0, <1>1, <1>o, <2>1, <2>2, <3>2, <4>1 DEF ReadyPopInv
      <4> QED
        BY <1>1, <4>1, <4>2
    <3> QED
      BY <3>1, <3>2
  <2> QED
    BY <1>o, <2>2, ReadyPrimed
<1>13. HoldInv'
  <2>1. \A d \in Ctas : NextHolds(d) => d # c /\ Holds(d) /\ chunk'[d] = chunk[d]
    BY <1>1, <1>o DEF NextHolds, Holds
  <2> QED
    BY <1>0, <1>1, <1>8, <1>o, <2>1, ReadyPrimed DEF HoldInv
<1> QED
  BY <1>9, <1>10, <1>11, <1>12, <1>13 DEF ReadyInv

\* The slot of the head has been stored: its chunk has been in no other hands.
LEMMA ReadyPopWait ==
    ASSUME IInv, NEW c \in Ctas, PopWait(c)
    PROVE  ReadyInv' /\ HoldInv'
<1>0. ReadyTailInv /\ ReadyEnqInv /\ ReadySlotInv /\ ReadyPopInv /\ HoldInv /\ cfg \in Configs
  BY DEF IInv, ReadyInv, TypeOK
<1>t. /\ ready_tail \in Nat /\ ready_head \in Nat /\ slot \in [Ctas -> Nat]
      /\ ready_slots \in [Slots -> Nat] /\ Chunks \subseteq Nat /\ pc \in [Ctas -> Places]
      /\ chunk \in [Ctas -> Nat]
  BY <1>0, ChunkNumbers DEF IInv, TypeOK, CtaTypes, ReduceTypes, Slots
<1>o. /\ cfg' = cfg
      /\ \A d \in Ctas : d # c => pc'[d] = pc[d] /\ chunk'[d] = chunk[d] /\ slot'[d] = slot[d]
  BY OthersStay DEF Others, IInv, Cta
<1> DEFINE z == slot[c]
           k == ready_slots[z] - 1
<1>1. /\ pc[c] = "pop_wait" /\ pc'[c] \in {"wait", "claim"} /\ chunk'[c] = k
      /\ ready_slots[z] # 0
      /\ UNCHANGED <<slot, ready_slots, ready_head, ready_tail, next_reduce, output,
                     remote_arrived_flag, chunk_reduce_done>>
  BY <1>t DEF PopWait, At, Goes, draining, adding, done, readyq
<1>2. ReadyQueue /\ z \in Slots /\ z < ready_head /\ k \in Chunks
  BY <1>1, PoppedChunk DEF Slots
<1>3. ready_slots[z] = k + 1
  BY <1>2, <1>t
<1> HIDE DEF z, k
<1>4. Popping(z) /\ ~NextPopping(z)
  <2>1. Popping(z)
    BY <1>1 DEF Popping, z
  <2>2. \A d \in Ctas : d # c /\ pc[d] = "pop_wait" => slot[d] # z
    BY <1>0, <1>1 DEF ReadyPopInv, z
  <2> QED
    BY <1>1, <1>o, <2>1, <2>2 DEF NextPopping
<1>5. \A s : NextPopping(s) => Popping(s)
  BY <1>1, <1>o DEF NextPopping, Popping
<1>6. \A ch : NextClaimed(ch) <=> Claimed(ch)
  BY <1>1 DEF NextClaimed, Claimed
<1>7. \A ch \in Chunks : Taken(ch) => NextTaken(ch) /\ ch # k
  <2> SUFFICES ASSUME NEW ch \in Chunks, Taken(ch) PROVE NextTaken(ch) /\ ch # k
    OBVIOUS
  <2>1. PICK s \in Slots : s < ready_head /\ ~Popping(s) /\ ready_slots[s] = ch + 1
    BY <1>2 DEF Taken, Slots
  <2>2. NextTaken(ch)
    BY <1>1, <1>2, <1>5, <2>1 DEF NextTaken
  <2>3. ch # k
    <3> SUFFICES ASSUME ch = k PROVE FALSE
      OBVIOUS
    <3>1. ready_slots[z] # 0 /\ ready_slots[s] = ready_slots[z]
      BY <1>1, <1>3, <2>1 DEF z
    <3>2. s = z
      BY <1>0, <1>2, <3>1 DEF ReadySlotInv, Slots
    <3> QED
      BY <1>4, <2>1, <3>2
  <2> QED
    BY <2>2, <2>3
<1>8. NextTaken(k)
  BY <1>1, <1>2, <1>3, <1>4 DEF NextTaken
<1>9. ReadyTailInv'
  BY <1>0, <1>1, <1>6, <1>o, ReadyPrimed DEF ReadyTailInv
<1>10. ReadyEnqInv'
  <2>1. \A d \in Ctas : pc'[d] = "enqueue_ready" =>
          d # c /\ pc[d] = "enqueue_ready" /\ chunk'[d] = chunk[d] /\ slot'[d] = slot[d]
    BY <1>1, <1>o
  <2> QED
    BY <1>0, <1>1, <1>6, <1>o, <2>1, ReadyPrimed DEF ReadyEnqInv, Slots
<1>11. ReadySlotInv'
  BY <1>0, <1>1, <1>6, <1>o, ReadyPrimed DEF ReadySlotInv, Slots
<1>12. ReadyPopInv'
  <2>1. \A d \in Ctas : pc'[d] = "pop_wait" => pc[d] = "pop_wait" /\ slot'[d] = slot[d]
    BY <1>1, <1>o
  <2> QED
    BY <1>0, <1>1, <1>o, <2>1, ReadyPrimed DEF ReadyPopInv
<1>13. HoldInv'
  <2>1. \A d \in Ctas : NextHolds(d) /\ d # c => /\ Holds(d) /\ chunk'[d] = chunk[d]
                                                 /\ chunk[d] \in Chunks /\ Taken(chunk[d])
                                                 /\ output[chunk[d]] = <<>> /\ chunk[d] # k
    BY <1>0, <1>7, <1>o DEF NextHolds, Holds, HoldInv
  <2>2. output[k] = <<>>
    BY <1>0, <1>2, <1>7 DEF HoldInv
  <2>3. ASSUME NEW d \in Ctas, NextHolds(d)
        PROVE  /\ chunk'[d] \in Chunks /\ NextTaken(chunk'[d]) /\ output'[chunk'[d]] = <<>>
               /\ \A e \in Ctas : NextHolds(e) /\ e # d => chunk'[e] # chunk'[d]
    <3>1. CASE d = c
      BY <1>1, <1>2, <1>8, <2>1, <2>2, <3>1
    <3>2. CASE d # c
      <4>1. \A e \in Ctas : NextHolds(e) /\ e # d => chunk'[e] # chunk'[d]
        BY <1>0, <1>1, <2>1, <2>3, <3>2 DEF HoldInv
      <4> QED
        BY <1>1, <1>7, <2>1, <2>3, <3>2, <4>1
    <3> QED
      BY <3>1, <3>2
  <2>4. \A ch \in Chunks : output'[ch] # <<>> => NextTaken(ch)
    BY <1>0, <1>1, <1>7 DEF HoldInv
  <2> QED
    BY <1>o, <2>3, <2>4, ReadyPrimed
<1> QED
  BY <1>9, <1>10, <1>11, <1>12, <1>13 DEF ReadyInv

\* Without the queue the shared counter hands the chunks out.
LEMMA ReadyCounter ==
    ASSUME IInv, NEW c \in Ctas, ClaimNext(c)
    PROVE  ReadyInv' /\ HoldInv'
<1>0. ReadyTailInv /\ ReadyEnqInv /\ ReadySlotInv /\ ReadyPopInv /\ HoldInv /\ cfg \in Configs
  BY DEF IInv, ReadyInv, TypeOK
<1>t. pc \in [Ctas -> Places] /\ chunk \in [Ctas -> Nat] /\ next_reduce \in Nat
  BY DEF IInv, TypeOK, CtaTypes, ReduceTypes
<1>o. /\ cfg' = cfg
      /\ \A d \in Ctas : d # c => pc'[d] = pc[d] /\ chunk'[d] = chunk[d] /\ slot'[d] = slot[d]
  BY OthersStay DEF Others, IInv, Cta
<1>1. /\ pc[c] = "claim" /\ ~ReadyQueue /\ next_reduce' = next_reduce + 1
      /\ pc'[c] \in {"exit", "wait", "claim"} /\ (pc'[c] = "wait" => next_reduce < TotalChunks)
      /\ chunk'[c] = next_reduce
      /\ UNCHANGED <<slot, ready_slots, ready_head, ready_tail, output,
                     remote_arrived_flag, chunk_reduce_done>>
  <2>1. TotalChunks \in Nat
    BY <1>0, ChunkNumbers
  <2>2. pc'[c] = IF next_reduce >= TotalChunks THEN "exit"
                 ELSE IF Owns(next_reduce) THEN "wait" ELSE "claim"
    BY <1>t DEF ClaimNext, Goes
  <2>3. pc'[c] \in {"exit", "wait", "claim"} /\ (pc'[c] = "wait" => next_reduce < TotalChunks)
    BY <1>t, <2>1, <2>2
  <2> QED
    BY <1>t, <2>3 DEF ClaimNext, At, draining, adding, done, readyq
<1>2. Chunks = 0..(TotalChunks - 1) /\ TotalChunks \in Nat
  BY <1>0, ChunkNumbers
<1>3. \A ch \in Chunks : Taken(ch) => NextTaken(ch) /\ ch # next_reduce
  BY <1>1, <1>2, <1>t DEF Taken, NextTaken
<1>4. NextTaken(next_reduce)
  BY <1>1, <1>t DEF NextTaken
<1>6. \A ch : NextClaimed(ch) <=> Claimed(ch)
  BY <1>1 DEF NextClaimed, Claimed
<1>9. ReadyTailInv'
  BY <1>0, <1>1, <1>6, <1>o, ReadyPrimed DEF ReadyTailInv
<1>10. ReadyEnqInv'
  <2>1. \A d \in Ctas : pc'[d] = "enqueue_ready" =>
          d # c /\ pc[d] = "enqueue_ready" /\ chunk'[d] = chunk[d] /\ slot'[d] = slot[d]
    BY <1>1, <1>o
  <2> QED
    BY <1>0, <1>1, <1>6, <1>o, <2>1, ReadyPrimed DEF ReadyEnqInv, Slots
<1>11. ReadySlotInv'
  BY <1>0, <1>1, <1>6, <1>o, ReadyPrimed DEF ReadySlotInv, Slots
<1>12. ReadyPopInv'
  <2>1. \A d \in Ctas : pc'[d] = "pop_wait" => pc[d] = "pop_wait" /\ slot'[d] = slot[d]
    BY <1>1, <1>o
  <2> QED
    BY <1>0, <1>1, <1>o, <2>1, ReadyPrimed DEF ReadyPopInv
<1>13. HoldInv'
  <2>1. \A d \in Ctas : NextHolds(d) /\ d # c => /\ Holds(d) /\ chunk'[d] = chunk[d]
                                                 /\ chunk[d] \in Chunks /\ Taken(chunk[d])
                                                 /\ output[chunk[d]] = <<>>
                                                 /\ chunk[d] # next_reduce
    BY <1>0, <1>3, <1>o DEF NextHolds, Holds, HoldInv
  <2>2. NextHolds(c) => next_reduce \in Chunks /\ output[next_reduce] = <<>>
    BY <1>0, <1>1, <1>2, <1>3, <1>t DEF HoldInv, NextHolds
  <2>3. ASSUME NEW d \in Ctas, NextHolds(d)
        PROVE  /\ chunk'[d] \in Chunks /\ NextTaken(chunk'[d]) /\ output'[chunk'[d]] = <<>>
               /\ \A e \in Ctas : NextHolds(e) /\ e # d => chunk'[e] # chunk'[d]
    <3>1. CASE d = c
      BY <1>1, <1>4, <2>1, <2>2, <2>3, <3>1
    <3>2. CASE d # c
      <4>1. \A e \in Ctas : NextHolds(e) /\ e # d => chunk'[e] # chunk'[d]
        BY <1>0, <1>1, <2>1, <2>3, <3>2 DEF HoldInv
      <4> QED
        BY <1>1, <1>3, <2>1, <2>3, <3>2, <4>1
    <3> QED
      BY <3>1, <3>2
  <2>4. \A ch \in Chunks : output'[ch] # <<>> => NextTaken(ch)
    BY <1>0, <1>1, <1>3 DEF HoldInv
  <2> QED
    BY <1>o, <2>3, <2>4, ReadyPrimed
<1> QED
  BY <1>9, <1>10, <1>11, <1>12, <1>13 DEF ReadyInv

\* The chunk is written, by the one CTA that holds it.
LEMMA ReadyReduce ==
    ASSUME IInv, NEW c \in Ctas, Reduce(c)
    PROVE  ReadyInv' /\ HoldInv'
<1>0. ReadyTailInv /\ ReadyEnqInv /\ ReadySlotInv /\ ReadyPopInv /\ HoldInv /\ cfg \in Configs
  BY DEF IInv, ReadyInv, TypeOK
<1>t. /\ pc \in [Ctas -> Places] /\ chunk \in [Ctas -> Nat]
      /\ output \in [Chunks -> Seq([Peers -> Nat])]
  BY DEF IInv, TypeOK, CtaTypes, ReduceTypes
<1>o. /\ cfg' = cfg
      /\ \A d \in Ctas : d # c => pc'[d] = pc[d] /\ chunk'[d] = chunk[d] /\ slot'[d] = slot[d]
  BY OthersStay DEF Others, IInv, Cta
<1>1. /\ pc[c] = "reduce" /\ pc'[c] = "claim"
      /\ \E x : output' = [output EXCEPT ![chunk[c]] = x]
      /\ UNCHANGED <<chunk, slot, ready_slots, ready_head, ready_tail, next_reduce,
                     remote_arrived_flag, chunk_reduce_done>>
  BY <1>t DEF Reduce, At, Goes, draining, adding, readyq, local
<1>2. \A ch \in Chunks : ch # chunk[c] => output'[ch] = output[ch]
  BY <1>1, <1>t
<1>3. Holds(c) /\ chunk[c] \in Chunks /\ Taken(chunk[c])
  BY <1>0, <1>1 DEF HoldInv, Holds
<1>4. \A s : NextPopping(s) <=> Popping(s)
  BY <1>1, <1>o DEF NextPopping, Popping
<1>5. \A ch : NextTaken(ch) <=> Taken(ch)
  BY <1>1, <1>4 DEF NextTaken, Taken, Slots
<1>6. \A ch : NextClaimed(ch) <=> Claimed(ch)
  BY <1>1 DEF NextClaimed, Claimed
<1>9. ReadyTailInv'
  BY <1>0, <1>1, <1>6, <1>o, ReadyPrimed DEF ReadyTailInv
<1>10. ReadyEnqInv'
  <2>1. \A d \in Ctas : pc'[d] = "enqueue_ready" =>
          d # c /\ pc[d] = "enqueue_ready" /\ chunk'[d] = chunk[d] /\ slot'[d] = slot[d]
    BY <1>1, <1>o
  <2> QED
    BY <1>0, <1>1, <1>6, <1>o, <2>1, ReadyPrimed DEF ReadyEnqInv, Slots
<1>11. ReadySlotInv'
  BY <1>0, <1>1, <1>6, <1>o, ReadyPrimed DEF ReadySlotInv, Slots
<1>12. ReadyPopInv'
  <2>1. \A d \in Ctas : pc'[d] = "pop_wait" => pc[d] = "pop_wait" /\ slot'[d] = slot[d]
    BY <1>1, <1>o
  <2> QED
    BY <1>0, <1>1, <1>o, <2>1, ReadyPrimed DEF ReadyPopInv
<1>13. HoldInv'
  <2>1. \A d \in Ctas : NextHolds(d) => d # c /\ Holds(d) /\ chunk'[d] = chunk[d]
    BY <1>1, <1>o DEF NextHolds, Holds
  <2>2. \A d \in Ctas : NextHolds(d) => /\ chunk[d] \in Chunks /\ Taken(chunk[d])
                                        /\ output[chunk[d]] = <<>> /\ chunk[d] # chunk[c]
    BY <1>0, <1>3, <2>1 DEF HoldInv
  <2>3. ASSUME NEW d \in Ctas, NextHolds(d)
        PROVE  /\ chunk'[d] \in Chunks /\ NextTaken(chunk'[d]) /\ output'[chunk'[d]] = <<>>
               /\ \A e \in Ctas : NextHolds(e) /\ e # d => chunk'[e] # chunk'[d]
    <3>1. \A e \in Ctas : NextHolds(e) /\ e # d => chunk'[e] # chunk'[d]
      BY <1>0, <2>1, <2>3 DEF HoldInv
    <3> QED
      BY <1>2, <1>5, <2>1, <2>2, <2>3, <3>1
  <2>4. \A ch \in Chunks : output'[ch] # <<>> => NextTaken(ch)
    BY <1>0, <1>2, <1>3, <1>5 DEF HoldInv
  <2> QED
    BY <1>o, <2>3, <2>4, ReadyPrimed
<1> QED
  BY <1>9, <1>10, <1>11, <1>12, <1>13 DEF ReadyInv

LEMMA ReadyStep ==
    ASSUME IInv, [Next]_vars
    PROVE  ReadyInv' /\ HoldInv'
<1>0. /\ cfg \in Configs /\ pc \in [Ctas -> Places] /\ chunk \in [Ctas -> Nat]
      /\ slot \in [Ctas -> Nat] /\ remote_arrived_flag \in [Chunks -> {0, 1, 2}]
      /\ marks \in [Ctas -> SUBSET Works] /\ sender_done \subseteq Chunks
  BY DEF IInv, TypeOK, CtaTypes, CountTypes, ArrivalTypes
<1> DEFINE Busy == {"enqueue_ready", "pop_wait", "wait", "reduce"}
<1>1. ASSUME NEW c \in Ctas, Cta(c),
             UNCHANGED <<ready_slots, ready_head, ready_tail, next_reduce, output>>,
             \A ch \in Chunks : NextClaimed(ch) <=> Claimed(ch),
             pc[c] \notin Busy, pc'[c] \notin Busy
      PROVE  ReadyInv' /\ HoldInv'
  <2>1. Others(c) /\ cfg' = cfg
    BY <1>1, OthersStay DEF IInv
  <2>2. \A d \in Ctas :
             /\ pc'[d] = "enqueue_ready" <=> pc[d] = "enqueue_ready"
             /\ pc'[d] = "pop_wait" <=> pc[d] = "pop_wait"
             /\ NextHolds(d) <=> Holds(d)
             /\ pc[d] \in {"enqueue_ready", "pop_wait", "wait", "reduce"} =>
                  chunk'[d] = chunk[d] /\ slot'[d] = slot[d]
    BY <1>1, <2>1 DEF Others, NextHolds, Holds
  <2> QED
    BY <1>1, <2>1, <2>2, ReadyFrame
<1>2. ASSUME NEW c \in Ctas, NEW m \in marks[c], Publish(c, m) PROVE ReadyInv' /\ HoldInv'
  <2>1. /\ UNCHANGED <<ready_slots, ready_head, ready_tail, next_reduce, output, chunk_reduce_done>>
        /\ pc[c] = "publish" /\ pc'[c] \in {"publish", "enqueue_accum"}
        /\ \/ remote_arrived_flag' = remote_arrived_flag
           \/ /\ ~Incremental /\ Cardinality(peer_mask[m[2]]) < NumPeers
              /\ remote_arrived_flag' = [remote_arrived_flag EXCEPT ![m[2]] = 1]
    BY <1>0, <1>2 DEF Publish, At, Goes, adding, done, readyq
  <2>2. m[2] \in Chunks
    BY <1>0 DEF Works
  <2>3. ~Incremental /\ Cardinality(peer_mask[m[2]]) < NumPeers => remote_arrived_flag[m[2]] = 0
    <3> SUFFICES ASSUME ~Incremental, Cardinality(peer_mask[m[2]]) < NumPeers
                 PROVE  remote_arrived_flag[m[2]] = 0
      OBVIOUS
    <3>1. Transport
      BY <2>1 DEF IInv, PlaceInv
    <3>2. remote_arrived_flag[m[2]] # 0 => Cardinality(peer_mask[m[2]]) >= NumPeers
      BY <2>2, <3>1 DEF IInv, FlagInv
    <3>3. NumPeers \in Nat /\ Cardinality(peer_mask[m[2]]) \in Nat
      <4>1. NumPeers \in Nat /\ IsFiniteSet(Peers) /\ peer_mask[m[2]] \subseteq Peers
        BY <1>0, <2>2, ChunkNumbers DEF IInv, TypeOK, ArrivalTypes
      <4> QED
        BY <4>1, FS_Subset, FS_CardinalityType
    <3> QED
      BY <3>2, <3>3
  <2>4. \A ch \in Chunks : NextClaimed(ch) <=> Claimed(ch)
    BY <1>0, <2>1, <2>2, <2>3 DEF NextClaimed, Claimed
  <2> QED
    BY <1>1, <1>2, <2>1, <2>4 DEF Cta
<1>3. ASSUME NEW c \in Ctas, TryReady(c) PROVE ReadyInv' /\ HoldInv'
  <2> DEFINE k == chunk[c]
             won == Ready(k) /\ remote_arrived_flag[k] = IF Transport THEN 1 ELSE 0
  <2>1. /\ pc[c] = "try" /\ chunk' = chunk
        /\ UNCHANGED <<ready_slots, ready_head, next_reduce, output, chunk_reduce_done>>
    BY <1>3 DEF TryReady, At, adding, done
  <2>2. ReadyQueue /\ ~Incremental
    BY <2>1 DEF IInv, PlaceInv
  <2>3. CASE won
    <3>1. /\ remote_arrived_flag' = [remote_arrived_flag EXCEPT ![k] = 2]
          /\ slot'[c] = ready_tail /\ ready_tail' = ready_tail + 1 /\ pc'[c] = "enqueue_ready"
      BY <1>0, <1>3, <2>3 DEF TryReady, Goes
    <3>2. k \in Chunks /\ remote_arrived_flag[k] # 2
      BY <1>0, <2>3 DEF Ready
    <3>3. ~Claimed(k) /\ \A ch \in Chunks : NextClaimed(ch) <=> Claimed(ch) \/ ch = k
      BY <1>0, <2>2, <3>1, <3>2 DEF NextClaimed, Claimed
    <3>4. Others(c) /\ cfg' = cfg
      BY <1>3, OthersStay DEF IInv, Cta
    <3> QED
      BY <2>1, <2>2, <3>1, <3>2, <3>3, <3>4, ReadyClaim
  <2>4. CASE ~won
    <3>1. /\ UNCHANGED <<remote_arrived_flag, ready_tail>> /\ pc'[c] = "pop"
      BY <1>0, <1>3, <2>4 DEF TryReady, Goes
    <3>2. \A ch \in Chunks : NextClaimed(ch) <=> Claimed(ch)
      BY <2>1, <3>1 DEF NextClaimed, Claimed
    <3> QED
      BY <1>1, <1>3, <2>1, <3>1, <3>2 DEF Cta
  <2> QED
    BY <2>3, <2>4
<1>4. ASSUME NEW c \in Ctas, Pop(c) PROVE ReadyInv' /\ HoldInv'
  <2>1. CASE ready_head < ready_tail
    BY <1>4, <2>1, ReadyPop
  <2>2. CASE ~(ready_head < ready_tail)
    <3>1. /\ pc[c] = "pop" /\ pc'[c] = "check"
          /\ UNCHANGED <<ready_slots, ready_head, ready_tail, next_reduce, output,
                         remote_arrived_flag, chunk_reduce_done>>
      BY <1>0, <1>4, <2>2 DEF Pop, At, Goes, draining, adding, done
    <3>2. \A ch \in Chunks : NextClaimed(ch) <=> Claimed(ch)
      BY <3>1 DEF NextClaimed, Claimed
    <3> QED
      BY <1>1, <1>4, <3>1, <3>2 DEF Cta
  <2> QED
    BY <2>1, <2>2
<1>5. ASSUME NEW c \in Ctas, AccumCount(c) PROVE ReadyInv' /\ HoldInv'
  <2> DEFINE k == chunk[c]
  <2>1. /\ pc[c] = "accum_count" /\ chunk' = chunk
        /\ UNCHANGED <<ready_slots, ready_head, next_reduce, output, remote_arrived_flag>>
    BY <1>5 DEF AccumCount, At, draining, done
  <2>2. Incremental /\ ReadyQueue
    BY <2>1 DEF IInv, PlaceInv, ReadyQueue
  <2>3. k \in Chunks
    <3>1. Work(c) \in Works
      BY <2>1 DEF IInv, AccumHoldInv, Adds
    <3> QED
      BY <3>1 DEF Work, Works
  <2>4. CASE accum_done[k] + 1 = NumPeers
    <3>1. /\ chunk_reduce_done' = chunk_reduce_done \cup {k}
          /\ slot'[c] = ready_tail /\ ready_tail' = ready_tail + 1 /\ pc'[c] = "enqueue_ready"
      BY <1>0, <1>5, <2>4 DEF AccumCount, Goes
    <3>2. k \notin chunk_reduce_done
      <4>1. accum_done[k] \in Nat
        BY <2>3 DEF IInv, TypeOK, ReduceTypes
      <4>2. accum_done[k] # NumPeers
        BY <2>4, <4>1
      <4> QED
        BY <2>3, <4>2 DEF IInv, DoneInv
    <3>3. ~Claimed(k) /\ \A ch \in Chunks : NextClaimed(ch) <=> Claimed(ch) \/ ch = k
      BY <2>2, <3>1, <3>2 DEF NextClaimed, Claimed
    <3>4. Others(c) /\ cfg' = cfg
      BY <1>5, OthersStay DEF IInv, Cta
    <3> HIDE DEF k
    <3>5. chunk'[c] = k
      BY <2>1 DEF k
    <3> QED
      BY <2>1, <2>2, <2>3, <3>1, <3>3, <3>4, <3>5, ReadyClaim
  <2>5. CASE accum_done[k] + 1 # NumPeers
    <3>1. UNCHANGED <<chunk_reduce_done, ready_tail>> /\ pc'[c] = "claim"
      BY <1>0, <1>5, <2>5 DEF AccumCount, Goes
    <3>2. \A ch \in Chunks : NextClaimed(ch) <=> Claimed(ch)
      BY <2>1, <3>1 DEF NextClaimed, Claimed
    <3> QED
      BY <1>1, <1>5, <2>1, <3>1, <3>2 DEF Cta
  <2> QED
    BY <2>4, <2>5
<1>6. ASSUME NEW c \in Ctas, WaitPrereqs(c) PROVE ReadyInv' /\ HoldInv'
  <2>1. /\ UNCHANGED <<ready_slots, ready_head, ready_tail, next_reduce, output, chunk, slot,
                       chunk_reduce_done>>
        /\ pc[c] = "wait" /\ pc'[c] = "reduce"
        /\ \/ remote_arrived_flag' = remote_arrived_flag
           \/ /\ remote_arrived_flag[chunk[c]] = 0
              /\ remote_arrived_flag' = [remote_arrived_flag EXCEPT ![chunk[c]] = 1]
    BY <1>0, <1>6 DEF WaitPrereqs, At, Goes, local, readyq, adding, done
  <2>2. Others(c) /\ cfg' = cfg
    BY <1>6, OthersStay DEF IInv, Cta
  <2>3. \A ch \in Chunks : NextClaimed(ch) <=> Claimed(ch)
    BY <1>0, <2>1 DEF NextClaimed, Claimed
  <2>4. \A d \in Ctas :
             /\ pc'[d] = "enqueue_ready" <=> pc[d] = "enqueue_ready"
             /\ pc'[d] = "pop_wait" <=> pc[d] = "pop_wait"
             /\ NextHolds(d) <=> Holds(d)
             /\ pc[d] \in {"enqueue_ready", "pop_wait", "wait", "reduce"} =>
                  chunk'[d] = chunk[d] /\ slot'[d] = slot[d]
    BY <2>1, <2>2 DEF Others, NextHolds, Holds
  <2> QED
    BY <2>1, <2>2, <2>3, <2>4, ReadyFrame
<1>7. ASSUME NEW c \in Ctas, Cta(c) PROVE ReadyInv' /\ HoldInv'
  <2> DEFINE Still == /\ UNCHANGED <<ready_slots, ready_head, ready_tail, next_reduce, output,
                                     remote_arrived_flag, chunk_reduce_done>>
                      /\ pc[c] \notin Busy /\ pc'[c] \notin Busy
  <2>1. Still => ReadyInv' /\ HoldInv'
    <3> SUFFICES ASSUME Still PROVE ReadyInv' /\ HoldInv'
      OBVIOUS
    <3>1. \A ch \in Chunks : NextClaimed(ch) <=> Claimed(ch)
      BY DEF NextClaimed, Claimed
    <3> QED
      BY <1>1, <1>7, <3>1
  <2> USE DEF At, Goes, Takes, computing, sending, arriving, draining, readyq, accumq, adding,
              done, local
  <2>2. StoreTile(c) \/ CountTile(c) \/ ComputeEnds(c) \/ TakeReady(c) \/ PushChunk(c)
        \/ SendEnds(c) \/ EnqueueAccum(c) \/ Published(c) \/ DrainEnds(c) \/ ProgressLoop(c)
        \/ Check(c) => Still
    BY <1>0 DEF StoreTile, CountTile, ComputeEnds, TakeReady, PushChunk, SendEnds,
                EnqueueAccum, Published, DrainEnds, ProgressLoop, Check
  <2>3. (\E q \in Queues : DrainWord(c, q)) \/ Scan(c) => Still
    BY <1>0 DEF DrainWord, Scan
  <2>4. AccumPop(c) \/ AccumWait(c) \/ AccumLock(c) \/ AccumStore(c) => Still
    BY <1>0 DEF AccumPop, AccumWait, AccumLock, AccumStore
  <2> HIDE DEF Still
  <2> QED
    BY <1>2, <1>3, <1>4, <1>5, <1>6, <1>7, <2>1, <2>2, <2>3, <2>4, ReadyEnqueue, ReadyPopWait,
       ReadyCounter, ReadyReduce DEF Cta
<1>8. ASSUME \/ \E m \in pushed : NicReads(m)
             \/ \E p \in Peers : \E ch \in Chunks : PeerWrites(p, ch)
             \/ UNCHANGED vars
      PROVE  ReadyInv' /\ HoldInv'
  <2>1. /\ UNCHANGED <<cfg, pc, chunk, slot, ready_slots, ready_head, ready_tail, next_reduce,
                       output, remote_arrived_flag, chunk_reduce_done>>
    BY <1>8, EnvironmentStays
  <2>2. \A ch \in Chunks : NextClaimed(ch) <=> Claimed(ch)
    BY <2>1 DEF NextClaimed, Claimed
  <2>3. \A d \in Ctas : NextHolds(d) <=> Holds(d)
    BY <2>1 DEF NextHolds, Holds
  <2> QED
    BY <2>1, <2>2, <2>3, ReadyFrame
<1> QED
  BY <1>7, <1>8, NextCases

-----------------------------------------------------------------------------
\* The queue of peers to be added, and the additions.

AccumSlots == 0..(TotalChunks * NumPeers - 1)
NextWork(c) == <<peer'[c], chunk'[c]>>
NextMasked(w) == w[1] \in peer_mask'[w[2]]
NextAccumPopping(s) == \E c \in Ctas : pc'[c] = "accum_wait" /\ slot'[c] = s
NextAccumTaken(w) ==
    \E s \in AccumSlots : s < accum_head' /\ ~NextAccumPopping(s) /\ accum_slots'[s] = w
NextAdds(c) == pc'[c] \in {"accum_lock", "accum_store", "accum_count"}
NextCountedPeers(ch) ==
    {p \in Peers : /\ accum'[ch][p] = 1
                   /\ \A c \in Ctas : pc'[c] = "accum_count" => NextWork(c) # <<p, ch>>}

\* The invariants of the additions, of the next state.
LEMMA AccumPrimed ==
    ASSUME cfg' = cfg
    PROVE  /\ AccumTailInv' <=>
                /\ accum_head' <= accum_tail'
                /\ Incremental => accum_tail' = Cardinality({w \in Works : NextMasked(w)})
           /\ AccumEnqInv' <=> \A c \in Ctas : pc'[c] = "enqueue_accum" =>
                /\ NextWork(c) \in Works /\ NextMasked(NextWork(c))
                /\ slot'[c] < accum_tail' /\ accum_slots'[slot'[c]] = <<>>
                /\ \A s \in AccumSlots : accum_slots'[s] # NextWork(c)
                /\ \A d \in Ctas : pc'[d] = "enqueue_accum" /\ d # c =>
                     slot'[d] # slot'[c] /\ NextWork(d) # NextWork(c)
           /\ AccumSlotInv' <=>
                /\ \A s \in AccumSlots : accum_slots'[s] # <<>> =>
                     s < accum_tail' /\ NextMasked(accum_slots'[s])
                /\ \A s, t \in AccumSlots :
                     accum_slots'[s] # <<>> /\ accum_slots'[s] = accum_slots'[t] => s = t
           /\ AccumPopInv' <=> \A c \in Ctas : pc'[c] = "accum_wait" =>
                /\ slot'[c] < accum_head'
                /\ \A d \in Ctas : pc'[d] = "accum_wait" /\ d # c => slot'[d] # slot'[c]
           /\ AccumHoldInv' <=>
                /\ \A c \in Ctas : NextAdds(c) =>
                     /\ NextWork(c) \in Works /\ NextAccumTaken(NextWork(c))
                     /\ accum'[chunk'[c]][peer'[c]] = IF pc'[c] = "accum_count" THEN 1 ELSE 0
                     /\ \A d \in Ctas : NextAdds(d) /\ d # c => NextWork(d) # NextWork(c)
                /\ \A ch \in Chunks : \A p \in Peers :
                     accum'[ch][p] # 0 => accum'[ch][p] = 1 /\ NextAccumTaken(<<p, ch>>)
           /\ LockInv' <=> \A c \in Ctas : pc'[c] = "accum_store" =>
                /\ chunk'[c] \in accum_lock' /\ copy'[c] = accum'[chunk'[c]]
                /\ \A d \in Ctas : pc'[d] = "accum_store" /\ d # c => chunk'[d] # chunk'[c]
           /\ DoneInv' <=> \A ch \in Chunks :
                /\ accum_done'[ch] = Cardinality(NextCountedPeers(ch))
                /\ ch \in chunk_reduce_done' <=> accum_done'[ch] = NumPeers
<1>1. /\ Ctas' = Ctas /\ Chunks' = Chunks /\ TotalChunks' = TotalChunks /\ Peers' = Peers
      /\ NumPeers' = NumPeers /\ Works' = Works /\ (Incremental' <=> Incremental)
  BY LaunchStays
<1>2. AccumTailInv' <=>
                /\ accum_head' <= accum_tail'
                /\ Incremental => accum_tail' = Cardinality({w \in Works : NextMasked(w)})
  <2>1. {w \in Works : Masked(w)}' = {w \in Works : NextMasked(w)}
    BY <1>1 DEF Masked, NextMasked
  <2> QED
    BY <1>1, <2>1 DEF AccumTailInv
<1>3. AccumEnqInv' <=> \A c \in Ctas : pc'[c] = "enqueue_accum" =>
                /\ NextWork(c) \in Works /\ NextMasked(NextWork(c))
                /\ slot'[c] < accum_tail' /\ accum_slots'[slot'[c]] = <<>>
                /\ \A s \in AccumSlots : accum_slots'[s] # NextWork(c)
                /\ \A d \in Ctas : pc'[d] = "enqueue_accum" /\ d # c =>
                     slot'[d] # slot'[c] /\ NextWork(d) # NextWork(c)
  BY <1>1 DEF AccumEnqInv, Work, NextWork, Masked, NextMasked, AccumSlots
<1>4. AccumSlotInv' <=>
                /\ \A s \in AccumSlots : accum_slots'[s] # <<>> =>
                     s < accum_tail' /\ NextMasked(accum_slots'[s])
                /\ \A s, t \in AccumSlots :
                     accum_slots'[s] # <<>> /\ accum_slots'[s] = accum_slots'[t] => s = t
  BY <1>1 DEF AccumSlotInv, Masked, NextMasked, AccumSlots
<1>5. AccumPopInv' <=> \A c \in Ctas : pc'[c] = "accum_wait" =>
                /\ slot'[c] < accum_head'
                /\ \A d \in Ctas : pc'[d] = "accum_wait" /\ d # c => slot'[d] # slot'[c]
  BY <1>1 DEF AccumPopInv
<1>6. AccumHoldInv' <=>
                /\ \A c \in Ctas : NextAdds(c) =>
                     /\ NextWork(c) \in Works /\ NextAccumTaken(NextWork(c))
                     /\ accum'[chunk'[c]][peer'[c]] = IF pc'[c] = "accum_count" THEN 1 ELSE 0
                     /\ \A d \in Ctas : NextAdds(d) /\ d # c => NextWork(d) # NextWork(c)
                /\ \A ch \in Chunks : \A p \in Peers :
                     accum'[ch][p] # 0 => accum'[ch][p] = 1 /\ NextAccumTaken(<<p, ch>>)
  BY <1>1 DEF AccumHoldInv, Adds, NextAdds, Work, NextWork, AccumTaken, NextAccumTaken,
              AccumPopping, NextAccumPopping, AccumSlots
<1>7. LockInv' <=> \A c \in Ctas : pc'[c] = "accum_store" =>
                /\ chunk'[c] \in accum_lock' /\ copy'[c] = accum'[chunk'[c]]
                /\ \A d \in Ctas : pc'[d] = "accum_store" /\ d # c => chunk'[d] # chunk'[c]
  BY <1>1 DEF LockInv
<1>8. DoneInv' <=> \A ch \in Chunks :
                /\ accum_done'[ch] = Cardinality(NextCountedPeers(ch))
                /\ ch \in chunk_reduce_done' <=> accum_done'[ch] = NumPeers
  <2>1. \A ch : CountedPeers(ch)' = NextCountedPeers(ch)
    BY <1>1 DEF CountedPeers, NextCountedPeers, Work, NextWork
  <2> QED
    BY <1>1, <2>1 DEF DoneInv
<1> QED
  BY <1>2, <1>3, <1>4, <1>5, <1>6, <1>7, <1>8

AccumParts == AccumInv /\ AccumHoldInv /\ LockInv /\ DoneInv
Adding == {"enqueue_accum", "accum_wait", "accum_lock", "accum_store", "accum_count"}

\* Nothing happens to the additions and to the CTAs busy with them.
LEMMA AccumFrame ==
    ASSUME IInv, cfg' = cfg,
           UNCHANGED <<accum_slots, accum_head, accum_tail, accum, accum_lock, accum_done,
                       chunk_reduce_done>>,
           \A w \in Works : Masked(w) => NextMasked(w),
           Incremental => peer_mask' = peer_mask,
           \A c \in Ctas : pc'[c] \in Adding \/ pc[c] \in Adding =>
             /\ pc'[c] = pc[c] /\ chunk'[c] = chunk[c] /\ peer'[c] = peer[c]
             /\ slot'[c] = slot[c] /\ copy'[c] = copy[c]
    PROVE  AccumParts'
<1>0. /\ AccumTailInv /\ AccumEnqInv /\ AccumSlotInv /\ AccumPopInv
      /\ AccumHoldInv /\ LockInv /\ DoneInv
      /\ accum_slots \in [AccumSlots -> {<<>>} \cup Works]
  BY DEF IInv, AccumInv, TypeOK, ReduceTypes, AccumSlots
<1> USE DEF Adding
<1>1. \A s : NextAccumPopping(s) <=> AccumPopping(s)
  BY DEF NextAccumPopping, AccumPopping
<1>2. \A w : NextAccumTaken(w) <=> AccumTaken(w)
  BY <1>1 DEF NextAccumTaken, AccumTaken, AccumSlots
<1>3. Incremental => {w \in Works : NextMasked(w)} = {w \in Works : Masked(w)}
  BY DEF NextMasked, Masked
<1>4. AccumTailInv'
  BY <1>0, <1>3, AccumPrimed DEF AccumTailInv
<1>5. \A c \in Ctas : pc'[c] \in Adding => NextWork(c) = Work(c)
  BY DEF NextWork, Work
<1>6. AccumEnqInv'
  BY <1>0, <1>5, AccumPrimed DEF AccumEnqInv, AccumSlots
<1>7. AccumSlotInv'
  <2>1. \A s \in AccumSlots : accum_slots[s] # <<>> => accum_slots[s] \in Works
    BY <1>0
  <2> QED
    BY <1>0, <2>1, AccumPrimed DEF AccumSlotInv, AccumSlots
<1>8. AccumPopInv'
  BY <1>0, AccumPrimed DEF AccumPopInv
<1>9. AccumHoldInv'
  <2>1. \A c \in Ctas : NextAdds(c) => Adds(c) /\ pc'[c] = pc[c] /\ NextWork(c) = Work(c)
                                       /\ chunk'[c] = chunk[c] /\ peer'[c] = peer[c]
    BY <1>5 DEF NextAdds, Adds
  <2> QED
    BY <1>0, <1>2, <2>1, AccumPrimed DEF AccumHoldInv
<1>10. LockInv'
  BY <1>0, AccumPrimed DEF LockInv
<1>11. \A ch : NextCountedPeers(ch) = CountedPeers(ch)
  BY <1>5 DEF NextCountedPeers, CountedPeers
<1>12. DoneInv'
  BY <1>0, <1>11, AccumPrimed DEF DoneInv
<1> QED
  BY <1>4, <1>6, <1>7, <1>8, <1>9, <1>10, <1>12 DEF AccumParts, AccumInv

LEMMA WorkNotEmpty == \A w \in Works : w # <<>>
<1>1. \A a, b : <<a, b>> # <<>>
  <2> TAKE a, b
  <2>1. Len(<<a, b>>) = 2 /\ Len(<<>>) = 0
    OBVIOUS
  <2> QED
    BY <2>1
<1>2. \A w \in Works : w = <<w[1], w[2]>>
  BY DEF Works
<1> QED
  BY <1>1, <1>2

\* A peer is new to the mask of a chunk: a CTA takes the next slot for it.
LEMMA AccumClaim ==
    ASSUME IInv, NEW c \in Ctas, NEW m \in marks[c], Publish(c, m), Incremental, ~Masked(m)
    PROVE  AccumParts'
<1>0. /\ AccumTailInv /\ AccumEnqInv /\ AccumSlotInv /\ AccumPopInv
      /\ AccumHoldInv /\ LockInv /\ DoneInv /\ cfg \in Configs
  BY DEF IInv, AccumInv, TypeOK
<1>t. /\ accum_slots \in [AccumSlots -> {<<>>} \cup Works] /\ accum_tail \in Nat
      /\ accum_head \in Nat /\ slot \in [Ctas -> Nat] /\ pc \in [Ctas -> Places]
      /\ chunk \in [Ctas -> Nat] /\ peer \in [Ctas -> Nat] /\ marks \in [Ctas -> SUBSET Works]
      /\ peer_mask \in [Chunks -> SUBSET Peers]
  BY DEF IInv, TypeOK, CtaTypes, ArrivalTypes, ReduceTypes, AccumSlots
<1>o. /\ cfg' = cfg
      /\ \A d \in Ctas : d # c => /\ pc'[d] = pc[d] /\ chunk'[d] = chunk[d] /\ slot'[d] = slot[d]
                                  /\ peer'[d] = peer[d] /\ copy'[d] = copy[d]
                                  /\ NextWork(d) = Work(d)
  BY OthersStay DEF Others, IInv, Cta, NextWork, Work
<1>w. m \in Works /\ m = <<m[1], m[2]>> /\ m[1] \in Peers /\ m[2] \in Chunks
  BY <1>t DEF Works
<1>1. /\ pc[c] = "publish" /\ pc'[c] = "enqueue_accum" /\ slot'[c] = accum_tail
      /\ accum_tail' = accum_tail + 1 /\ chunk'[c] = m[2] /\ peer'[c] = m[1]
      /\ peer_mask' = [peer_mask EXCEPT ![m[2]] = @ \cup {m[1]}]
      /\ UNCHANGED <<accum_slots, accum_head, copy, accum, accum_lock, accum_done,
                     chunk_reduce_done>>
  BY <1>t DEF Publish, At, Goes, Masked, adding
<1>2. NextWork(c) = m
  BY <1>1, <1>w DEF NextWork
<1>3. \A w \in Works : NextMasked(w) <=> Masked(w) \/ w = m
  BY <1>1, <1>t, <1>w DEF NextMasked, Masked, Works
<1> DEFINE A == {w \in Works : Masked(w)}
<1>4. {w \in Works : NextMasked(w)} = A \cup {m} /\ m \notin A
  BY <1>3, <1>w
<1>5. IsFiniteSet(A) /\ accum_tail = Cardinality(A)
  BY <1>0, QueuesSuffice DEF AccumTailInv
<1>6. Cardinality(A \cup {m}) = accum_tail + 1
  BY <1>4, <1>5, FS_AddElement
<1>7. accum_tail \in AccumSlots
  <2>1. IsFiniteSet(Works) /\ Cardinality(Works) = TotalChunks * NumPeers
    <3>1. /\ IsFiniteSet(Chunks) /\ Cardinality(Chunks) = TotalChunks /\ TotalChunks \in Nat
          /\ IsFiniteSet(Peers) /\ Cardinality(Peers) = NumPeers /\ NumPeers \in Nat
      BY <1>0, ChunkNumbers
    <3>2. IsFiniteSet(Works) /\ Cardinality(Works) = Cardinality(Peers) * Cardinality(Chunks)
      BY <3>1, FS_Product DEF Works
    <3>3. NumPeers * TotalChunks = TotalChunks * NumPeers
      BY <3>1
    <3> QED
      BY <3>1, <3>2, <3>3
  <2>2. A \cup {m} \subseteq Works
    BY <1>w
  <2>3. Cardinality(A \cup {m}) <= TotalChunks * NumPeers
    BY <2>1, <2>2, FS_Subset
  <2> DEFINE n == TotalChunks * NumPeers
  <2>4. n \in Nat
    BY QueuesSuffice
  <2>5. accum_tail + 1 <= n
    BY <1>6, <2>3
  <2> HIDE DEF n
  <2>6. accum_tail \in 0..(n - 1)
    BY <1>t, <2>4, <2>5
  <2> QED
    BY <2>6 DEF AccumSlots, n
<1> HIDE DEF A
<1>8. AccumTailInv'
  <2>1. accum_tail' = Cardinality({w \in Works : NextMasked(w)})
    BY <1>1, <1>4, <1>6
  <2>2. accum_head' <= accum_tail'
    BY <1>0, <1>1, <1>t DEF AccumTailInv
  <2> QED
    BY <1>o, <2>1, <2>2, AccumPrimed
<1>9. accum_slots[accum_tail] = <<>>
  BY <1>0, <1>t, <1>7 DEF AccumSlotInv, AccumSlots
<1>10. \A s \in AccumSlots : accum_slots[s] # m
  <2>1. m # <<>>
    BY <1>w, WorkNotEmpty
  <2> QED
    BY <1>0, <2>1 DEF AccumSlotInv, AccumSlots
<1>11. AccumEnqInv'
  <2>1. \A e \in Ctas : e # c /\ pc'[e] = "enqueue_accum" =>
          /\ pc[e] = "enqueue_accum" /\ slot[e] < accum_tail /\ slot[e] # accum_tail
          /\ NextWork(e) = Work(e) /\ Work(e) \in Works /\ Masked(Work(e)) /\ Work(e) # m
          /\ slot'[e] = slot[e]
    BY <1>0, <1>o, <1>t DEF AccumEnqInv
  <2>2. ASSUME NEW d \in Ctas, pc'[d] = "enqueue_accum"
        PROVE  /\ NextWork(d) \in Works /\ NextMasked(NextWork(d))
               /\ slot'[d] < accum_tail' /\ accum_slots'[slot'[d]] = <<>>
               /\ \A s \in AccumSlots : accum_slots'[s] # NextWork(d)
               /\ \A e \in Ctas : pc'[e] = "enqueue_accum" /\ e # d =>
                     slot'[e] # slot'[d] /\ NextWork(e) # NextWork(d)
    <3>1. CASE d = c
      <4>1. slot'[d] < accum_tail' /\ accum_slots'[slot'[d]] = <<>>
        BY <1>1, <1>9, <1>t, <3>1
      <4>2. NextWork(d) = m /\ NextMasked(m)
        BY <1>2, <1>3, <1>w, <3>1
      <4>3. \A e \in Ctas : pc'[e] = "enqueue_accum" /\ e # d =>
                     slot'[e] # slot'[d] /\ NextWork(e) # NextWork(d)
        BY <1>1, <2>1, <3>1, <4>2
      <4> QED
        BY <1>1, <1>10, <1>w, <4>1, <4>2, <4>3
    <3>2. CASE d # c
      <4>1. /\ pc[d] = "enqueue_accum" /\ slot[d] < accum_tail /\ slot[d] # accum_tail
            /\ NextWork(d) = Work(d) /\ Work(d) \in Works /\ Masked(Work(d)) /\ Work(d) # m
            /\ slot'[d] = slot[d]
        BY <2>1, <2>2, <3>2
      <4>2. slot'[d] < accum_tail'
        BY <1>1, <1>t, <4>1
      <4>3. /\ accum_slots'[slot'[d]] = <<>>
            /\ \A s \in AccumSlots : accum_slots'[s] # NextWork(d)
        BY <1>0, <1>1, <4>1 DEF AccumEnqInv, AccumSlots
      <4>4. \A e \in Ctas : pc'[e] = "enqueue_accum" /\ e # d =>
                     slot'[e] # slot'[d] /\ NextWork(e) # NextWork(d)
        BY <1>0, <1>1, <1>2, <2>1, <4>1 DEF AccumEnqInv
      <4> QED
        BY <1>3, <4>1, <4>2, <4>3, <4>4
    <3> QED
      BY <3>1, <3>2
  <2> QED
    BY <1>o, <2>2, AccumPrimed
<1>12. AccumSlotInv'
  <2>1. \A s \in AccumSlots : accum_slots'[s] # <<>> =>
          s < accum_tail' /\ NextMasked(accum_slots'[s])
    <3> TAKE s \in AccumSlots
    <3> HAVE accum_slots'[s] # <<>>
    <3>1. accum_slots[s] \in Works /\ s < accum_tail /\ Masked(accum_slots[s])
      BY <1>0, <1>1, <1>t DEF AccumSlotInv, AccumSlots
    <3>2. s \in Int
      BY DEF AccumSlots
    <3> QED
      BY <1>1, <1>3, <1>t, <3>1, <3>2
  <2>2. \A s, t \in AccumSlots :
          accum_slots'[s] # <<>> /\ accum_slots'[s] = accum_slots'[t] => s = t
    BY <1>0, <1>1 DEF AccumSlotInv, AccumSlots
  <2> QED
    BY <1>o, <2>1, <2>2, AccumPrimed
<1>13. AccumPopInv'
  <2>1. \A d \in Ctas : pc'[d] = "accum_wait" => d # c /\ pc[d] = "accum_wait" /\ slot'[d] = slot[d]
    BY <1>1, <1>o
  <2> QED
    BY <1>0, <1>1, <1>o, <2>1, AccumPrimed DEF AccumPopInv
<1>14. \A s : NextAccumPopping(s) <=> AccumPopping(s)
  BY <1>1, <1>o DEF NextAccumPopping, AccumPopping
<1>15. \A w : NextAccumTaken(w) <=> AccumTaken(w)
  BY <1>1, <1>14 DEF NextAccumTaken, AccumTaken, AccumSlots
<1>16. \A d \in Ctas : NextAdds(d) => /\ d # c /\ Adds(d) /\ pc'[d] = pc[d]
                                      /\ NextWork(d) = Work(d) /\ copy'[d] = copy[d]
                                      /\ chunk'[d] = chunk[d] /\ peer'[d] = peer[d]
  BY <1>1, <1>o DEF NextAdds, Adds
<1>17. AccumHoldInv'
  BY <1>0, <1>1, <1>15, <1>16, <1>o, AccumPrimed DEF AccumHoldInv
<1>18. LockInv'
  BY <1>0, <1>1, <1>16, <1>o, AccumPrimed DEF LockInv, NextAdds
<1>19. \A ch : NextCountedPeers(ch) = CountedPeers(ch)
  BY <1>1, <1>o DEF NextCountedPeers, CountedPeers
<1>20. DoneInv'
  BY <1>0, <1>1, <1>19, <1>o, AccumPrimed DEF DoneInv
<1> QED
  BY <1>8, <1>11, <1>12, <1>13, <1>17, <1>18, <1>20 DEF AccumParts, AccumInv

\* The work is stored in its slot.
LEMMA AccumEnqueue ==
    ASSUME IInv, NEW c \in Ctas, EnqueueAccum(c)
    PROVE  AccumParts'
<1>0. /\ AccumTailInv /\ AccumEnqInv /\ AccumSlotInv /\ AccumPopInv
      /\ AccumHoldInv /\ LockInv /\ DoneInv /\ cfg \in Configs
  BY DEF IInv, AccumInv, TypeOK
<1>t. /\ accum_slots \in [AccumSlots -> {<<>>} \cup Works] /\ accum_tail \in Nat
      /\ accum_head \in Nat /\ slot \in [Ctas -> Nat] /\ pc \in [Ctas -> Places]
  BY DEF IInv, TypeOK, CtaTypes, ReduceTypes, AccumSlots
<1>o. /\ cfg' = cfg
      /\ \A d \in Ctas : d # c => pc'[d] = pc[d]
  BY OthersStay DEF Others, IInv, Cta
<1> DEFINE z == slot[c]
           w == Work(c)
           n == TotalChunks * NumPeers
<1>1. /\ pc[c] = "enqueue_accum" /\ pc'[c] = "publish"
      /\ accum_slots' = IF z < n THEN [accum_slots EXCEPT ![z] = w] ELSE accum_slots
      /\ UNCHANGED <<slot, chunk, peer, copy, peer_mask, accum_head, accum_tail, accum,
                     accum_lock, accum_done, chunk_reduce_done>>
  BY <1>t DEF EnqueueAccum, At, Goes, local, draining, adding, Work
<1>2. Incremental
  BY <1>1 DEF IInv, PlaceInv
<1>3. /\ w \in Works /\ Masked(w) /\ z < accum_tail /\ accum_slots[z] = <<>>
      /\ \A s \in AccumSlots : accum_slots[s] # w
      /\ \A d \in Ctas : pc[d] = "enqueue_accum" /\ d # c => slot[d] # z /\ Work(d) # w
  BY <1>0, <1>1 DEF AccumEnqInv, AccumSlots
<1>4. \A i \in Nat : i < accum_tail => i \in AccumSlots /\ i < n
  <2>1. accum_tail <= n /\ n \in Nat
    BY <1>2, QueuesSuffice
  <2>2. AccumSlots = 0..(n - 1)
    BY DEF AccumSlots
  <2> HIDE DEF n
  <2> QED
    BY <1>t, <2>1, <2>2
<1>5. \A s \in AccumSlots : accum_slots'[s] = IF s = z THEN w ELSE accum_slots[s]
  <2>1. z < n /\ z \in AccumSlots
    BY <1>3, <1>4, <1>t
  <2> HIDE DEF z, w, n
  <2> QED
    BY <1>1, <1>t, <2>1
<1> HIDE DEF z, w, n
<1>6. \A d : NextWork(d) = Work(d)
  BY <1>1 DEF NextWork, Work
<1>7. \A v : NextMasked(v) <=> Masked(v)
  BY <1>1 DEF NextMasked, Masked
<1>8. AccumTailInv'
  BY <1>0, <1>1, <1>7, <1>o, AccumPrimed DEF AccumTailInv
<1>9. \A d \in Ctas : pc'[d] = "enqueue_accum" => d # c /\ pc[d] = "enqueue_accum"
  BY <1>1, <1>o
<1>10. AccumEnqInv'
  <2>1. ASSUME NEW d \in Ctas, pc'[d] = "enqueue_accum"
        PROVE  /\ NextWork(d) \in Works /\ NextMasked(NextWork(d))
               /\ slot'[d] < accum_tail' /\ accum_slots'[slot'[d]] = <<>>
               /\ \A s \in AccumSlots : accum_slots'[s] # NextWork(d)
               /\ \A e \in Ctas : pc'[e] = "enqueue_accum" /\ e # d =>
                     slot'[e] # slot'[d] /\ NextWork(e) # NextWork(d)
    <3>1. d # c /\ pc[d] = "enqueue_accum" /\ slot[d] \in Nat
      BY <1>9, <1>t, <2>1
    <3>2. /\ Work(d) \in Works /\ Masked(Work(d))
          /\ slot[d] < accum_tail /\ accum_slots[slot[d]] = <<>>
          /\ \A s \in AccumSlots : accum_slots[s] # Work(d)
          /\ \A e \in Ctas : pc[e] = "enqueue_accum" /\ e # d =>
               slot[e] # slot[d] /\ Work(e) # Work(d)
      BY <1>0, <3>1 DEF AccumEnqInv, AccumSlots
    <3>3. slot[d] # z /\ Work(d) # w /\ slot[d] \in AccumSlots
      BY <1>3, <1>4, <3>1, <3>2
    <3>4. accum_slots'[slot'[d]] = <<>> /\ \A s \in AccumSlots : accum_slots'[s] # NextWork(d)
      BY <1>1, <1>5, <1>6, <3>2, <3>3
    <3> QED
      BY <1>1, <1>6, <1>7, <1>9, <3>2, <3>4
  <2> QED
    BY <1>o, <2>1, AccumPrimed
<1>11. AccumSlotInv'
  <2>1. \A s \in AccumSlots : accum_slots'[s] # <<>> =>
          s < accum_tail' /\ NextMasked(accum_slots'[s])
    BY <1>0, <1>1, <1>3, <1>5, <1>7 DEF AccumSlotInv, AccumSlots
  <2>2. \A s, t \in AccumSlots :
          accum_slots'[s] # <<>> /\ accum_slots'[s] = accum_slots'[t] => s = t
    <3>1. \A s, t \in AccumSlots :
            accum_slots[s] # <<>> /\ accum_slots[s] = accum_slots[t] => s = t
      BY <1>0 DEF AccumSlotInv, AccumSlots
    <3> QED
      BY <1>3, <1>5, <3>1
  <2> QED
    BY <1>o, <2>1, <2>2, AccumPrimed
<1>12. AccumPopInv'
  <2>1. \A d \in Ctas : pc'[d] = "accum_wait" => pc[d] = "accum_wait" /\ slot'[d] = slot[d]
    BY <1>1, <1>o
  <2> QED
    BY <1>0, <1>1, <1>o, <2>1, AccumPrimed DEF AccumPopInv
<1>13. \A s : NextAccumPopping(s) <=> AccumPopping(s)
  BY <1>1, <1>o DEF NextAccumPopping, AccumPopping
<1>14. \A v \in Works : AccumTaken(v) => NextAccumTaken(v)
  <2> SUFFICES ASSUME NEW v \in Works, AccumTaken(v) PROVE NextAccumTaken(v)
    OBVIOUS
  <2>1. PICK s \in AccumSlots : s < accum_head /\ ~AccumPopping(s) /\ accum_slots[s] = v
    BY DEF AccumTaken, AccumSlots
  <2>2. s # z
    BY <1>3, <2>1, WorkNotEmpty
  <2> QED
    BY <1>1, <1>5, <1>13, <2>1, <2>2 DEF NextAccumTaken
<1>15. \A d \in Ctas : NextAdds(d) => Adds(d) /\ pc'[d] = pc[d]
  BY <1>1, <1>o DEF NextAdds, Adds
<1>16. AccumHoldInv'
  <2>1. \A ch \in Chunks : \A p \in Peers : <<p, ch>> \in Works
    BY DEF Works
  <2> QED
    BY <1>0, <1>1, <1>6, <1>14, <1>15, <1>o, <2>1, AccumPrimed DEF AccumHoldInv
<1>17. LockInv'
  BY <1>0, <1>1, <1>15, <1>o, AccumPrimed DEF LockInv, NextAdds
<1>18. \A ch : NextCountedPeers(ch) = CountedPeers(ch)
  BY <1>1, <1>6, <1>o DEF NextCountedPeers, CountedPeers
<1>19. DoneInv'
  BY <1>0, <1>1, <1>18, <1>o, AccumPrimed DEF DoneInv
<1> QED
  BY <1>8, <1>10, <1>11, <1>12, <1>16, <1>17, <1>19 DEF AccumParts, AccumInv

\* The head of the queue is claimed.
LEMMA AccumPopStep ==
    ASSUME IInv, NEW c \in Ctas, AccumPop(c), accum_head < accum_tail
    PROVE  AccumParts'
<1>0. /\ AccumTailInv /\ AccumEnqInv /\ AccumSlotInv /\ AccumPopInv
      /\ AccumHoldInv /\ LockInv /\ DoneInv /\ cfg \in Configs
  BY DEF IInv, AccumInv, TypeOK
<1>t. /\ accum_slots \in [AccumSlots -> {<<>>} \cup Works] /\ accum_tail \in Nat
      /\ accum_head \in Nat /\ slot \in [Ctas -> Nat] /\ pc \in [Ctas -> Places]
  BY DEF IInv, TypeOK, CtaTypes, ReduceTypes, AccumSlots
<1>o. /\ cfg' = cfg
      /\ \A d \in Ctas : d # c => pc'[d] = pc[d] /\ slot'[d] = slot[d]
  BY OthersStay DEF Others, IInv, Cta
<1>1. /\ pc[c] = "accum_pop" /\ pc'[c] = "accum_wait"
      /\ accum_head' = accum_head + 1 /\ slot'[c] = accum_head
      /\ UNCHANGED <<chunk, peer, copy, peer_mask, accum_slots, accum_tail, accum,
                     accum_lock, accum_done, chunk_reduce_done>>
  BY <1>t DEF AccumPop, At, Goes, draining, adding
<1>6. \A d : NextWork(d) = Work(d)
  BY <1>1 DEF NextWork, Work
<1>7. \A v : NextMasked(v) <=> Masked(v)
  BY <1>1 DEF NextMasked, Masked
<1>8. AccumTailInv'
  <2>1. accum_head' <= accum_tail'
    BY <1>1, <1>t
  <2> QED
    BY <1>0, <1>1, <1>7, <1>o, <2>1, AccumPrimed DEF AccumTailInv
<1>9. \A d \in Ctas : pc'[d] = "enqueue_accum" => pc[d] = "enqueue_accum" /\ slot'[d] = slot[d]
  BY <1>1, <1>o
<1>10. AccumEnqInv'
  BY <1>0, <1>1, <1>6, <1>7, <1>9, <1>o, AccumPrimed DEF AccumEnqInv, AccumSlots
<1>11. AccumSlotInv'
  BY <1>0, <1>1, <1>7, <1>o, AccumPrimed DEF AccumSlotInv, AccumSlots
<1>12. AccumPopInv'
  <2>1. \A d \in Ctas : pc'[d] = "accum_wait" /\ d # c =>
          pc[d] = "accum_wait" /\ slot'[d] = slot[d] /\ slot[d] < accum_head /\ slot[d] \in Nat
    BY <1>0, <1>o, <1>t DEF AccumPopInv
  <2>2. ASSUME NEW d \in Ctas, pc'[d] = "accum_wait"
        PROVE  /\ slot'[d] < accum_head'
               /\ \A e \in Ctas : pc'[e] = "accum_wait" /\ e # d => slot'[e] # slot'[d]
    <3>1. CASE d = c
      <4>1. \A e \in Ctas : pc'[e] = "accum_wait" /\ e # c => slot'[e] # accum_head
        BY <1>t, <2>1
      <4> QED
        BY <1>1, <1>t, <3>1, <4>1
    <3>2. CASE d # c
      <4>1. slot'[d] = slot[d] /\ slot[d] < accum_head + 1 /\ slot[d] # accum_head
        BY <1>t, <2>1, <2>2, <3>2
      <4>2. \A e \in Ctas : pc'[e] = "accum_wait" /\ e # d => slot'[e] # slot'[d]
        BY <1>0, <1>1, <1>o, <2>1, <2>2, <3>2, <4>1 DEF AccumPopInv
      <4> QED
        BY <1>1, <4>1, <4>2
    <3> QED
      BY <3>1, <3>2
  <2> QED
    BY <1>o, <2>2, AccumPrimed
<1>13. \A s : s # accum_head => (NextAccumPopping(s) <=> AccumPopping(s))
  BY <1>1, <1>o DEF NextAccumPopping, AccumPopping
<1>14. \A v \in Works : AccumTaken(v) => NextAccumTaken(v)
  <2> SUFFICES ASSUME NEW v \in Works, AccumTaken(v) PROVE NextAccumTaken(v)
    OBVIOUS
  <2>1. PICK s \in AccumSlots : s < accum_head /\ ~AccumPopping(s) /\ accum_slots[s] = v
    BY DEF AccumTaken, AccumSlots
  <2>2. s # accum_head /\ s < accum_head'
    BY <1>1, <1>t, <2>1 DEF AccumSlots
  <2> QED
    BY <1>1, <1>13, <2>1, <2>2 DEF NextAccumTaken
<1>15. \A d \in Ctas : NextAdds(d) => Adds(d) /\ pc'[d] = pc[d]
  BY <1>1, <1>o DEF NextAdds, Adds
<1>16. AccumHoldInv'
  <2>1. \A ch \in Chunks : \A p \in Peers : <<p, ch>> \in Works
    BY DEF Works
  <2> QED
    BY <1>0, <1>1, <1>6, <1>14, <1>15, <1>o, <2>1, AccumPrimed DEF AccumHoldInv
<1>17. LockInv'
  BY <1>0, <1>1, <1>15, <1>o, AccumPrimed DEF LockInv, NextAdds
<1>18. \A ch : NextCountedPeers(ch) = CountedPeers(ch)
  BY <1>1, <1>6, <1>o DEF NextCountedPeers, CountedPeers
<1>19. DoneInv'
  BY <1>0, <1>1, <1>18, <1>o, AccumPrimed DEF DoneInv
<1> QED
  BY <1>8, <1>10, <1>11, <1>12, <1>16, <1>17, <1>19 DEF AccumParts, AccumInv

\* The slot of the head has been stored: its work has been in no other hands.
LEMMA AccumWaitStep ==
    ASSUME IInv, NEW c \in Ctas, AccumWait(c)
    PROVE  AccumParts'
<1>0. /\ AccumTailInv /\ AccumEnqInv /\ AccumSlotInv /\ AccumPopInv
      /\ AccumHoldInv /\ LockInv /\ DoneInv /\ cfg \in Configs
  BY DEF IInv, AccumInv, TypeOK
<1>t. /\ accum_slots \in [AccumSlots -> {<<>>} \cup Works] /\ accum_tail \in Nat
      /\ accum_head \in Nat /\ slot \in [Ctas -> Nat] /\ pc \in [Ctas -> Places]
      /\ chunk \in [Ctas -> Nat] /\ peer \in [Ctas -> Nat]
      /\ accum \in [Chunks -> [Peers -> Nat]]
  BY DEF IInv, TypeOK, CtaTypes, ReduceTypes, AccumSlots
<1>o. /\ cfg' = cfg
      /\ \A d \in Ctas : d # c => /\ pc'[d] = pc[d] /\ chunk'[d] = chunk[d]
                                  /\ peer'[d] = peer[d] /\ NextWork(d) = Work(d)
  BY OthersStay DEF Others, IInv, Cta, NextWork, Work
<1> DEFINE z == slot[c]
           w == accum_slots[z]
<1>1. /\ pc[c] = "accum_wait" /\ pc'[c] \in {"accum_lock", "claim"} /\ w # <<>>
      /\ peer'[c] = w[1] /\ chunk'[c] = w[2]
      /\ UNCHANGED <<slot, copy, peer_mask, accum_slots, accum_head, accum_tail, accum,
                     accum_lock, accum_done, chunk_reduce_done>>
  BY <1>t DEF AccumWait, At, Goes, draining, adding, accumq
<1>2. z \in AccumSlots /\ z < accum_head /\ w \in Works /\ accum_slots[z] = w
  BY <1>1, PoppedWork DEF AccumSlots
<1>w. w = <<w[1], w[2]>> /\ w[1] \in Peers /\ w[2] \in Chunks
  BY <1>2 DEF Works
<1>z. slot[c] = z
  OBVIOUS
<1> HIDE DEF z, w
<1>3. NextWork(c) = w
  BY <1>1, <1>w DEF NextWork
<1>4. AccumPopping(z) /\ ~NextAccumPopping(z)
  <2>1. AccumPopping(z)
    BY <1>1, <1>z DEF AccumPopping
  <2>2. \A d \in Ctas : d # c /\ pc[d] = "accum_wait" => slot[d] # z
    BY <1>0, <1>1, <1>z DEF AccumPopInv
  <2> QED
    BY <1>1, <1>o, <2>1, <2>2 DEF NextAccumPopping
<1>5. \A s : NextAccumPopping(s) => AccumPopping(s)
  BY <1>1, <1>o DEF NextAccumPopping, AccumPopping
<1>7. \A v : NextMasked(v) <=> Masked(v)
  BY <1>1 DEF NextMasked, Masked
<1>8. AccumTailInv'
  BY <1>0, <1>1, <1>7, <1>o, AccumPrimed DEF AccumTailInv
<1>9. \A d \in Ctas : pc'[d] = "enqueue_accum" => d # c /\ pc[d] = "enqueue_accum"
                                                  /\ NextWork(d) = Work(d)
  BY <1>1, <1>o
<1>10. AccumEnqInv'
  BY <1>0, <1>1, <1>7, <1>9, <1>o, AccumPrimed DEF AccumEnqInv, AccumSlots
<1>11. AccumSlotInv'
  BY <1>0, <1>1, <1>7, <1>o, AccumPrimed DEF AccumSlotInv, AccumSlots
<1>12. AccumPopInv'
  <2>1. \A d \in Ctas : pc'[d] = "accum_wait" => pc[d] = "accum_wait" /\ slot'[d] = slot[d]
    BY <1>1, <1>o
  <2> QED
    BY <1>0, <1>1, <1>o, <2>1, AccumPrimed DEF AccumPopInv
<1>13. \A v \in Works : AccumTaken(v) => NextAccumTaken(v) /\ v # w
  <2> SUFFICES ASSUME NEW v \in Works, AccumTaken(v) PROVE NextAccumTaken(v) /\ v # w
    OBVIOUS
  <2>1. PICK s \in AccumSlots : s < accum_head /\ ~AccumPopping(s) /\ accum_slots[s] = v
    BY DEF AccumTaken, AccumSlots
  <2>2. NextAccumTaken(v)
    BY <1>1, <1>5, <2>1 DEF NextAccumTaken
  <2>3. v # w
    <3> SUFFICES ASSUME v = w PROVE FALSE
      OBVIOUS
    <3>1. s = z
      BY <1>0, <1>1, <1>2, <2>1 DEF AccumSlotInv, AccumSlots
    <3> QED
      BY <1>4, <2>1, <3>1
  <2> QED
    BY <2>2, <2>3
<1>14. NextAccumTaken(w)
  BY <1>1, <1>2, <1>4 DEF NextAccumTaken
<1>15. \A d \in Ctas : NextAdds(d) /\ d # c =>
         /\ Adds(d) /\ pc'[d] = pc[d] /\ NextWork(d) = Work(d)
         /\ chunk'[d] = chunk[d] /\ peer'[d] = peer[d]
         /\ Work(d) \in Works /\ AccumTaken(Work(d)) /\ Work(d) # w
  BY <1>0, <1>13, <1>o DEF NextAdds, Adds, AccumHoldInv
<1>16. accum[w[2]][w[1]] = 0
  <2>1. ~AccumTaken(<<w[1], w[2]>>)
    BY <1>2, <1>13, <1>w
  <2> QED
    BY <1>0, <1>w, <2>1 DEF AccumHoldInv
<1>17. AccumHoldInv'
  <2>1. ASSUME NEW d \in Ctas, NextAdds(d)
        PROVE  /\ NextWork(d) \in Works /\ NextAccumTaken(NextWork(d))
               /\ accum'[chunk'[d]][peer'[d]] = IF pc'[d] = "accum_count" THEN 1 ELSE 0
               /\ \A e \in Ctas : NextAdds(e) /\ e # d => NextWork(e) # NextWork(d)
    <3>1. CASE d = c
      BY <1>1, <1>2, <1>3, <1>14, <1>15, <1>16, <3>1
    <3>2. CASE d # c
      <4>1. \A e \in Ctas : NextAdds(e) /\ e # d => NextWork(e) # NextWork(d)
        BY <1>0, <1>3, <1>15, <2>1, <3>2 DEF AccumHoldInv
      <4>2. accum'[chunk'[d]][peer'[d]] = IF pc'[d] = "accum_count" THEN 1 ELSE 0
        BY <1>0, <1>1, <1>15, <2>1, <3>2 DEF AccumHoldInv
      <4> QED
        BY <1>13, <1>15, <2>1, <3>2, <4>1, <4>2
    <3> QED
      BY <3>1, <3>2
  <2>2. \A ch \in Chunks : \A p \in Peers :
          accum'[ch][p] # 0 => accum'[ch][p] = 1 /\ NextAccumTaken(<<p, ch>>)
    <3>1. \A ch \in Chunks : \A p \in Peers : <<p, ch>> \in Works
      BY DEF Works
    <3> QED
      BY <1>0, <1>1, <1>13, <3>1 DEF AccumHoldInv
  <2> QED
    BY <1>o, <2>1, <2>2, AccumPrimed
<1>18. LockInv'
  <2>1. \A d \in Ctas : pc'[d] = "accum_store" =>
          d # c /\ pc[d] = "accum_store" /\ chunk'[d] = chunk[d]
    BY <1>1, <1>o
  <2> QED
    BY <1>0, <1>1, <1>o, <2>1, AccumPrimed DEF LockInv
<1>19. \A ch : NextCountedPeers(ch) = CountedPeers(ch)
  BY <1>1, <1>o DEF NextCountedPeers, CountedPeers
<1>20. DoneInv'
  BY <1>0, <1>1, <1>19, <1>o, AccumPrimed DEF DoneInv
<1> QED
  BY <1>8, <1>10, <1>11, <1>12, <1>17, <1>18, <1>20 DEF AccumParts, AccumInv

\* The queue of peers, when only CTAs that have their work from it move.
LEMMA AccumQueueStays ==
    ASSUME IInv, cfg' = cfg,
           UNCHANGED <<accum_slots, accum_head, accum_tail, peer_mask>>,
           \A c \in Ctas :
             pc'[c] \in {"enqueue_accum", "accum_wait"} \/ pc[c] \in {"enqueue_accum", "accum_wait"} =>
               /\ pc'[c] = pc[c] /\ chunk'[c] = chunk[c] /\ peer'[c] = peer[c]
               /\ slot'[c] = slot[c]
    PROVE  AccumInv' /\ \A w : NextAccumTaken(w) <=> AccumTaken(w)
<1>0. AccumTailInv /\ AccumEnqInv /\ AccumSlotInv /\ AccumPopInv
  BY DEF IInv, AccumInv
<1>1. \A s : NextAccumPopping(s) <=> AccumPopping(s)
  BY DEF NextAccumPopping, AccumPopping
<1>2. \A w : NextAccumTaken(w) <=> AccumTaken(w)
  BY <1>1 DEF NextAccumTaken, AccumTaken, AccumSlots
<1>3. \A w : NextMasked(w) <=> Masked(w)
  BY DEF NextMasked, Masked
<1>4. AccumTailInv'
  BY <1>0, <1>3, AccumPrimed DEF AccumTailInv
<1>5. \A c \in Ctas : pc'[c] = "enqueue_accum" => pc[c] = "enqueue_accum" /\ NextWork(c) = Work(c)
                                                  /\ slot'[c] = slot[c]
  BY DEF NextWork, Work
<1>6. AccumEnqInv'
  BY <1>0, <1>3, <1>5, AccumPrimed DEF AccumEnqInv, AccumSlots
<1>7. AccumSlotInv'
  BY <1>0, <1>3, AccumPrimed DEF AccumSlotInv, AccumSlots
<1>8. AccumPopInv'
  BY <1>0, AccumPrimed DEF AccumPopInv
<1> QED
  BY <1>2, <1>4, <1>6, <1>7, <1>8 DEF AccumInv

\* The lock of a chunk is taken, and the chunk read.
LEMMA AccumLockStep ==
    ASSUME IInv, NEW c \in Ctas, AccumLock(c)
    PROVE  AccumParts'
<1>0. AccumHoldInv /\ LockInv /\ DoneInv
  BY DEF IInv
<1>t. pc \in [Ctas -> Places] /\ copy \in [Ctas -> [Peers -> Nat]]
  BY DEF IInv, TypeOK, CtaTypes
<1>o. /\ cfg' = cfg
      /\ \A d \in Ctas : d # c => pc'[d] = pc[d] /\ copy'[d] = copy[d]
  BY OthersStay DEF Others, IInv, Cta
<1>1. /\ pc[c] = "accum_lock" /\ pc'[c] = "accum_store" /\ chunk[c] \notin accum_lock
      /\ accum_lock' = accum_lock \cup {chunk[c]} /\ copy'[c] = accum[chunk[c]]
      /\ UNCHANGED <<slot, chunk, peer, peer_mask, accum_slots, accum_head, accum_tail,
                     accum, accum_done, chunk_reduce_done>>
  BY <1>t DEF AccumLock, At, Goes, local, draining, accumq
<1>2. AccumInv' /\ \A w : NextAccumTaken(w) <=> AccumTaken(w)
  BY <1>1, <1>o, AccumQueueStays
<1>3. \A d : NextWork(d) = Work(d)
  BY <1>1 DEF NextWork, Work
<1>4. \A d \in Ctas : /\ NextAdds(d) <=> Adds(d)
                      /\ pc'[d] = "accum_count" <=> pc[d] = "accum_count"
  BY <1>1, <1>o DEF NextAdds, Adds
<1>5. AccumHoldInv'
  BY <1>0, <1>1, <1>2, <1>3, <1>4, <1>o, AccumPrimed DEF AccumHoldInv
<1>6. LockInv'
  <2>1. \A d \in Ctas : pc'[d] = "accum_store" /\ d # c =>
          /\ pc[d] = "accum_store" /\ chunk[d] \in accum_lock /\ copy'[d] = accum[chunk[d]]
          /\ chunk[d] # chunk[c]
    BY <1>0, <1>1, <1>o DEF LockInv
  <2>2. ASSUME NEW d \in Ctas, pc'[d] = "accum_store"
        PROVE  /\ chunk'[d] \in accum_lock' /\ copy'[d] = accum'[chunk'[d]]
               /\ \A e \in Ctas : pc'[e] = "accum_store" /\ e # d => chunk'[e] # chunk'[d]
    BY <1>0, <1>1, <2>1, <2>2 DEF LockInv
  <2> QED
    BY <1>o, <2>2, AccumPrimed
<1>7. \A ch : NextCountedPeers(ch) = CountedPeers(ch)
  BY <1>1, <1>3, <1>4 DEF NextCountedPeers, CountedPeers
<1>8. DoneInv'
  BY <1>0, <1>1, <1>7, <1>o, AccumPrimed DEF DoneInv
<1> QED
  BY <1>2, <1>5, <1>6, <1>8 DEF AccumParts

\* The sum is written back: what has been read is still there, and the peer is in it.
LEMMA AccumStoreStep ==
    ASSUME IInv, NEW c \in Ctas, AccumStore(c)
    PROVE  AccumParts'
<1>0. AccumHoldInv /\ LockInv /\ DoneInv /\ cfg \in Configs
  BY DEF IInv, TypeOK
<1>t. /\ pc \in [Ctas -> Places] /\ copy \in [Ctas -> [Peers -> Nat]]
      /\ accum \in [Chunks -> [Peers -> Nat]]
      /\ accum_slots \in [AccumSlots -> {<<>>} \cup Works]
  BY DEF IInv, TypeOK, CtaTypes, ReduceTypes, AccumSlots
<1>o. /\ cfg' = cfg
      /\ \A d \in Ctas : d # c => pc'[d] = pc[d]
  BY OthersStay DEF Others, IInv, Cta
<1> DEFINE k == chunk[c]
           p == peer[c]
<1>1. /\ pc[c] = "accum_store" /\ pc'[c] = "accum_count"
      /\ accum_lock' = accum_lock \ {k}
      /\ accum' = [accum EXCEPT ![k] =
                     [copy[c] EXCEPT ![p] = @ + IF <<p, k>> \in arrived THEN 1 ELSE 0]]
      /\ UNCHANGED <<slot, chunk, peer, copy, peer_mask, accum_slots, accum_head, accum_tail,
                     accum_done, chunk_reduce_done>>
  BY <1>t DEF AccumStore, At, Goes, local, draining, accumq
<1>2. AccumInv' /\ \A w : NextAccumTaken(w) <=> AccumTaken(w)
  BY <1>1, <1>o, AccumQueueStays
<1>3. \A d : NextWork(d) = Work(d)
  BY <1>1 DEF NextWork, Work
<1>k. Work(c) = <<p, k>> /\ chunk[c] = k /\ peer[c] = p
  BY DEF Work
<1>4. /\ k \in Chunks /\ p \in Peers /\ <<p, k>> \in Works /\ AccumTaken(<<p, k>>)
      /\ accum[k][p] = 0
      /\ copy[c] = accum[k] /\ k \in accum_lock
      /\ \A d \in Ctas : pc[d] = "accum_store" /\ d # c => chunk[d] # k
      /\ \A d \in Ctas : Adds(d) /\ d # c => Work(d) # <<p, k>>
  <2>1. Adds(c)
    BY <1>1 DEF Adds
  <2>2. <<p, k>> \in Works => k \in Chunks /\ p \in Peers
    BY DEF Works
  <2> QED
    BY <1>0, <1>1, <1>k, <2>1, <2>2 DEF AccumHoldInv, LockInv
<1> HIDE DEF k, p
<1>5. <<p, k>> \in arrived
  <2>1. PICK s \in AccumSlots : accum_slots[s] = <<p, k>>
    BY <1>4 DEF AccumTaken, AccumSlots
  <2>2. accum_slots[s] # <<>>
    BY <1>4, <2>1, WorkNotEmpty
  <2>3. Masked(<<p, k>>)
    BY <2>1, <2>2 DEF IInv, AccumInv, AccumSlotInv, AccumSlots
  <2> QED
    BY <1>4, <2>3 DEF Masked, IInv, ArrivalInv
<1>6. \A ch \in Chunks : \A q \in Peers :
        accum'[ch][q] = IF ch = k /\ q = p THEN 1 ELSE accum[ch][q]
  <2>1. accum' = [accum EXCEPT ![k] = [accum[k] EXCEPT ![p] = @ + 1]]
    BY <1>1, <1>4, <1>5
  <2>2. accum[k] \in [Peers -> Nat]
    BY <1>4, <1>t
  <2> QED
    BY <1>4, <1>t, <2>1, <2>2
<1>6a. \A ch \in Chunks : ch # k => accum'[ch] = accum[ch]
  BY <1>1, <1>t
<1>7. \A d \in Ctas : NextAdds(d) <=> Adds(d)
  BY <1>1, <1>o DEF NextAdds, Adds
<1>8. AccumHoldInv'
  <2>1. ASSUME NEW d \in Ctas, NextAdds(d)
        PROVE  /\ NextWork(d) \in Works /\ NextAccumTaken(NextWork(d))
               /\ accum'[chunk'[d]][peer'[d]] = IF pc'[d] = "accum_count" THEN 1 ELSE 0
               /\ \A e \in Ctas : NextAdds(e) /\ e # d => NextWork(e) # NextWork(d)
    <3>1. /\ NextWork(d) \in Works /\ NextAccumTaken(NextWork(d))
          /\ \A e \in Ctas : NextAdds(e) /\ e # d => NextWork(e) # NextWork(d)
          /\ accum[chunk[d]][peer[d]] = IF pc[d] = "accum_count" THEN 1 ELSE 0
      BY <1>0, <1>2, <1>3, <1>7, <2>1 DEF AccumHoldInv
    <3>2. chunk[d] \in Chunks /\ peer[d] \in Peers
      BY <1>3, <3>1 DEF Work, Works
    <3>3. CASE d = c
      BY <1>1, <1>4, <1>6, <1>k, <3>1, <3>3
    <3>4. CASE d # c
      <4>1. ~(chunk[d] = k /\ peer[d] = p)
        BY <1>4, <1>7, <2>1, <3>4 DEF Work
      <4> QED
        BY <1>1, <1>6, <1>o, <3>1, <3>2, <3>4, <4>1
    <3> QED
      BY <3>3, <3>4
  <2>2. \A ch \in Chunks : \A q \in Peers :
          accum'[ch][q] # 0 => accum'[ch][q] = 1 /\ NextAccumTaken(<<q, ch>>)
    BY <1>0, <1>2, <1>4, <1>6 DEF AccumHoldInv
  <2> QED
    BY <1>o, <2>1, <2>2, AccumPrimed
<1>9. LockInv'
  <2>1. \A d \in Ctas : pc'[d] = "accum_store" =>
          /\ pc[d] = "accum_store" /\ chunk[d] \in accum_lock /\ chunk[d] # k
          /\ copy[d] = accum[chunk[d]] /\ chunk[d] \in Chunks
    <3>1. \A d \in Ctas : pc[d] = "accum_store" => chunk[d] \in Chunks
      <4>1. \A d \in Ctas : pc[d] = "accum_store" => Work(d) \in Works
        BY <1>0 DEF AccumHoldInv, Adds
      <4> QED
        BY <4>1 DEF Work, Works
    <3> QED
      BY <1>0, <1>1, <1>4, <1>o, <3>1 DEF LockInv
  <2>2. \A d \in Ctas : pc'[d] = "accum_store" =>
          /\ chunk'[d] \in accum_lock' /\ copy'[d] = accum'[chunk'[d]]
    BY <1>1, <1>6a, <2>1
  <2>3. \A d, e \in Ctas : pc'[d] = "accum_store" /\ pc'[e] = "accum_store" /\ e # d =>
          chunk'[e] # chunk'[d]
    BY <1>0, <1>1, <2>1 DEF LockInv
  <2> QED
    BY <1>o, <2>2, <2>3, AccumPrimed
<1>10. \A ch \in Chunks : NextCountedPeers(ch) = CountedPeers(ch)
  <2> TAKE ch \in Chunks
  <2>1. ASSUME NEW q \in Peers
        PROVE  q \in NextCountedPeers(ch) <=> q \in CountedPeers(ch)
    <3>1. CASE ch = k /\ q = p
      <4>1. q \notin NextCountedPeers(ch)
        BY <1>1, <1>3, <1>k, <3>1 DEF NextCountedPeers
      <4>2. q \notin CountedPeers(ch)
        BY <1>4, <3>1 DEF CountedPeers
      <4> QED
        BY <4>1, <4>2
    <3>2. CASE ~(ch = k /\ q = p)
      <4>1. accum'[ch][q] = accum[ch][q]
        BY <1>6, <3>2
      <4>2. Work(c) # <<q, ch>>
        BY <1>k, <3>2
      <4>3. (\A d \in Ctas : pc'[d] = "accum_count" => NextWork(d) # <<q, ch>>)
              <=> \A d \in Ctas : pc[d] = "accum_count" => Work(d) # <<q, ch>>
        BY <1>1, <1>3, <1>o, <4>2
      <4> QED
        BY <4>1, <4>3 DEF NextCountedPeers, CountedPeers
    <3> QED
      BY <3>1, <3>2
  <2> QED
    BY <2>1 DEF NextCountedPeers, CountedPeers
<1>11. DoneInv'
  BY <1>0, <1>1, <1>10, <1>o, AccumPrimed DEF DoneInv
<1> QED
  BY <1>2, <1>8, <1>9, <1>11 DEF AccumParts

\* The peer that was added is counted.
LEMMA AccumCountStep ==
    ASSUME IInv, NEW c \in Ctas, AccumCount(c)
    PROVE  AccumParts'
<1>0. AccumHoldInv /\ LockInv /\ DoneInv /\ cfg \in Configs
  BY DEF IInv, TypeOK
<1>t. /\ pc \in [Ctas -> Places] /\ accum_done \in [Chunks -> Nat]
      /\ chunk_reduce_done \subseteq Chunks
  BY DEF IInv, TypeOK, CtaTypes, ReduceTypes
<1>o. /\ cfg' = cfg
      /\ \A d \in Ctas : d # c => pc'[d] = pc[d] /\ slot'[d] = slot[d]
  BY OthersStay DEF Others, IInv, Cta
<1> DEFINE k == chunk[c]
           p == peer[c]
<1>1. /\ pc[c] = "accum_count" /\ pc'[c] \in {"enqueue_ready", "claim"}
      /\ accum_done' = [accum_done EXCEPT ![k] = @ + 1]
      /\ chunk_reduce_done' = IF accum_done[k] + 1 = NumPeers THEN chunk_reduce_done \cup {k}
                              ELSE chunk_reduce_done
      /\ UNCHANGED <<chunk, peer, copy, peer_mask, accum_slots, accum_head, accum_tail,
                     accum, accum_lock>>
  BY <1>t DEF AccumCount, At, Goes, draining, accumq
<1>2. AccumInv' /\ \A w : NextAccumTaken(w) <=> AccumTaken(w)
  BY <1>1, <1>o, AccumQueueStays
<1>3. \A d : NextWork(d) = Work(d)
  BY <1>1 DEF NextWork, Work
<1>k. Work(c) = <<p, k>> /\ chunk[c] = k /\ peer[c] = p
  BY DEF Work
<1>4. /\ k \in Chunks /\ p \in Peers /\ accum[k][p] = 1
      /\ \A d \in Ctas : Adds(d) /\ d # c => Work(d) # <<p, k>>
  <2>1. Adds(c)
    BY <1>1 DEF Adds
  <2>2. <<p, k>> \in Works => k \in Chunks /\ p \in Peers
    BY DEF Works
  <2> QED
    BY <1>0, <1>1, <1>k, <2>1, <2>2 DEF AccumHoldInv
<1> HIDE DEF k, p
<1>5. \A d \in Ctas : NextAdds(d) => d # c /\ Adds(d) /\ pc'[d] = pc[d]
  BY <1>1, <1>o DEF NextAdds, Adds
<1>6. AccumHoldInv'
  BY <1>0, <1>1, <1>2, <1>3, <1>5, <1>o, AccumPrimed DEF AccumHoldInv
<1>7. LockInv'
  BY <1>0, <1>1, <1>5, <1>o, AccumPrimed DEF LockInv, NextAdds
<1>8. \A ch \in Chunks : NextCountedPeers(ch) = IF ch = k THEN CountedPeers(ch) \cup {p}
                                                ELSE CountedPeers(ch)
  <2> TAKE ch \in Chunks
  <2>1. ASSUME NEW q \in Peers
        PROVE  q \in NextCountedPeers(ch) <=> q \in CountedPeers(ch) \/ (ch = k /\ q = p)
    <3>1. CASE ch = k /\ q = p
      <4>1. \A d \in Ctas : pc'[d] = "accum_count" => NextWork(d) # <<q, ch>>
        BY <1>3, <1>4, <1>5, <3>1 DEF NextAdds
      <4> QED
        BY <1>1, <1>4, <3>1, <4>1 DEF NextCountedPeers
    <3>2. CASE ~(ch = k /\ q = p)
      <4>1. Work(c) # <<q, ch>>
        BY <1>k, <3>2
      <4>2. (\A d \in Ctas : pc'[d] = "accum_count" => NextWork(d) # <<q, ch>>)
              <=> \A d \in Ctas : pc[d] = "accum_count" => Work(d) # <<q, ch>>
        BY <1>1, <1>3, <1>o, <4>1
      <4> QED
        BY <1>1, <3>2, <4>2 DEF NextCountedPeers, CountedPeers
    <3> QED
      BY <3>1, <3>2
  <2> QED
    BY <1>4, <2>1 DEF NextCountedPeers, CountedPeers
<1>9. p \notin CountedPeers(k)
  BY <1>1, <1>k DEF CountedPeers
<1>10. /\ IsFiniteSet(CountedPeers(k)) /\ Cardinality(CountedPeers(k)) = accum_done[k]
       /\ Cardinality(CountedPeers(k) \cup {p}) = accum_done[k] + 1
       /\ accum_done[k] \in Nat /\ NumPeers \in Nat /\ accum_done[k] + 1 <= NumPeers
  <2>1. /\ IsFiniteSet(Peers) /\ Cardinality(Peers) = NumPeers /\ NumPeers \in Nat
        /\ CountedPeers(k) \subseteq Peers /\ CountedPeers(k) \cup {p} \subseteq Peers
    BY <1>0, <1>4, ChunkNumbers DEF CountedPeers
  <2>2. IsFiniteSet(CountedPeers(k)) /\ Cardinality(CountedPeers(k) \cup {p}) <= NumPeers
    BY <2>1, FS_Subset
  <2>3. Cardinality(CountedPeers(k)) = accum_done[k]
    BY <1>0, <1>4 DEF DoneInv
  <2>4. Cardinality(CountedPeers(k) \cup {p}) = accum_done[k] + 1
    BY <1>9, <2>2, <2>3, FS_AddElement
  <2> QED
    BY <1>4, <1>t, <2>1, <2>2, <2>3, <2>4
<1>11. \A ch \in Chunks : accum_done'[ch] = IF ch = k THEN accum_done[ch] + 1 ELSE accum_done[ch]
  BY <1>1, <1>4, <1>t
<1>12. DoneInv'
  <2>1. \A ch \in Chunks : accum_done'[ch] = Cardinality(NextCountedPeers(ch))
    BY <1>0, <1>8, <1>10, <1>11 DEF DoneInv
  <2>2. k \notin chunk_reduce_done
    BY <1>0, <1>4, <1>10 DEF DoneInv
  <2>3. \A ch \in Chunks : ch \in chunk_reduce_done' <=> accum_done'[ch] = NumPeers
    BY <1>0, <1>1, <1>11, <2>2 DEF DoneInv
  <2> QED
    BY <1>o, <2>1, <2>3, AccumPrimed
<1> QED
  BY <1>2, <1>6, <1>7, <1>12 DEF AccumParts

LEMMA AccumStep ==
    ASSUME IInv, [Next]_vars
    PROVE  AccumParts'
<1>0. /\ cfg \in Configs /\ pc \in [Ctas -> Places] /\ marks \in [Ctas -> SUBSET Works]
      /\ peer_mask \in [Chunks -> SUBSET Peers]
  BY DEF IInv, TypeOK, CtaTypes, ArrivalTypes
<1> DEFINE shared == <<accum_slots, accum_head, accum_tail, accum, accum_lock, accum_done,
                       chunk_reduce_done>>
<1>1. ASSUME NEW c \in Ctas, Cta(c), UNCHANGED shared,
             \A w \in Works : Masked(w) => NextMasked(w),
             Incremental => peer_mask' = peer_mask,
             pc[c] \notin Adding, pc'[c] \notin Adding
      PROVE  AccumParts'
  <2>1. Others(c) /\ cfg' = cfg
    BY <1>1, OthersStay DEF IInv
  <2>2. \A d \in Ctas : pc'[d] \in Adding \/ pc[d] \in Adding =>
             /\ pc'[d] = pc[d] /\ chunk'[d] = chunk[d] /\ peer'[d] = peer[d]
             /\ slot'[d] = slot[d] /\ copy'[d] = copy[d]
    BY <1>1, <2>1 DEF Others
  <2> QED
    BY <1>1, <2>1, <2>2, AccumFrame
<1>2. ASSUME NEW c \in Ctas, Cta(c), UNCHANGED shared, peer_mask' = peer_mask,
             pc[c] \notin Adding, pc'[c] \notin Adding
      PROVE  AccumParts'
  <2>1. \A w \in Works : Masked(w) => NextMasked(w)
    BY <1>2 DEF Masked, NextMasked
  <2> QED
    BY <1>1, <1>2, <2>1
<1>3. ASSUME NEW c \in Ctas, NEW m \in marks[c], Publish(c, m) PROVE AccumParts'
  <2>1. CASE Incremental /\ ~Masked(m)
    BY <1>3, <2>1, AccumClaim
  <2>2. CASE ~(Incremental /\ ~Masked(m))
    <3>1. /\ pc[c] = "publish" /\ pc' = pc /\ UNCHANGED shared
          /\ peer_mask' = [peer_mask EXCEPT ![m[2]] = @ \cup {m[1]}]
      BY <1>3, <2>2 DEF Publish, At, Masked, adding
    <3>2. m[2] \in Chunks
      BY <1>0 DEF Works
    <3>3. \A w \in Works : Masked(w) => NextMasked(w)
      BY <1>0, <3>1, <3>2 DEF Masked, NextMasked, Works
    <3>4. Incremental => peer_mask' = peer_mask
      <4> SUFFICES ASSUME Incremental PROVE peer_mask' = peer_mask
        OBVIOUS
      <4>1. peer_mask[m[2]] \cup {m[1]} = peer_mask[m[2]]
        BY <2>2 DEF Masked
      <4> QED
        BY <1>0, <3>1, <3>2, <4>1
    <3>5. pc[c] \notin Adding /\ pc'[c] \notin Adding
      BY <3>1 DEF Adding
    <3> HIDE DEF shared
    <3> QED
      BY <1>1, <1>3, <3>1, <3>3, <3>4, <3>5 DEF Cta
  <2> QED
    BY <2>1, <2>2
<1>4. ASSUME NEW c \in Ctas, AccumPop(c) PROVE AccumParts'
  <2>1. CASE accum_head < accum_tail
    BY <1>4, <2>1, AccumPopStep
  <2>2. CASE ~(accum_head < accum_tail)
    <3>1. /\ pc[c] = "accum_pop" /\ pc'[c] = "claim" /\ UNCHANGED shared
          /\ peer_mask' = peer_mask
      BY <1>0, <1>4, <2>2 DEF AccumPop, At, Goes, draining, adding
    <3>2. pc[c] \notin Adding /\ pc'[c] \notin Adding
      BY <3>1 DEF Adding
    <3> QED
      BY <1>2, <1>4, <3>1, <3>2 DEF Cta
  <2> QED
    BY <2>1, <2>2
<1>5. ASSUME NEW c \in Ctas, Cta(c) PROVE AccumParts'
  <2> DEFINE Still == /\ UNCHANGED shared /\ peer_mask' = peer_mask
                      /\ pc[c] \notin Adding /\ pc'[c] \notin Adding
  <2>1. Still => AccumParts'
    BY <1>2, <1>5
  <2> USE DEF At, Goes, Takes, computing, sending, arriving, draining, readyq, accumq, adding,
              done, local
  <2>2. StoreTile(c) \/ CountTile(c) \/ ComputeEnds(c) \/ TakeReady(c) \/ PushChunk(c)
        \/ SendEnds(c) \/ Published(c) \/ DrainEnds(c) \/ ProgressLoop(c)
        \/ EnqueueReady(c) => Still
    BY <1>0 DEF Adding, StoreTile, CountTile, ComputeEnds, TakeReady, PushChunk, SendEnds,
                Published, DrainEnds, ProgressLoop, EnqueueReady
  <2>3. (\E q \in Queues : DrainWord(c, q)) \/ Check(c) \/ ClaimNext(c) \/ Scan(c)
        \/ TryReady(c) \/ Pop(c) \/ PopWait(c) => Still
    BY <1>0 DEF Adding, DrainWord, Check, ClaimNext, Scan, TryReady, Pop, PopWait
  <2>4. WaitPrereqs(c) \/ Reduce(c) => Still
    BY <1>0 DEF Adding, WaitPrereqs, Reduce
  <2> HIDE DEF Still
  <2> QED
    BY <1>3, <1>4, <1>5, <2>1, <2>2, <2>3, <2>4, AccumEnqueue, AccumWaitStep, AccumLockStep,
       AccumStoreStep, AccumCountStep DEF Cta
<1>6. ASSUME \/ \E m \in pushed : NicReads(m)
             \/ \E p \in Peers : \E ch \in Chunks : PeerWrites(p, ch)
             \/ UNCHANGED vars
      PROVE  AccumParts'
  <2>1. UNCHANGED <<cfg, pc, chunk, peer, slot, copy, peer_mask>> /\ UNCHANGED shared
    BY <1>6, EnvironmentStays
  <2>2. \A w \in Works : Masked(w) => NextMasked(w)
    BY <2>1 DEF Masked, NextMasked
  <2> QED
    BY <2>1, <2>2, AccumFrame
<1> QED
  BY <1>5, <1>6, NextCases

-----------------------------------------------------------------------------
\* What is reduced.

\* All peers of a chunk are in it when it counts as done.
LEMMA DoneComplete ==
    ASSUME IInv, NEW ch \in Chunks, ch \in chunk_reduce_done
    PROVE  \A p \in Peers : accum[ch][p] = 1
<1>1. accum_done[ch] = Cardinality(CountedPeers(ch)) /\ accum_done[ch] = NumPeers
  BY DEF IInv, DoneInv
<1>2. /\ IsFiniteSet(Peers) /\ Cardinality(Peers) = NumPeers
      /\ CountedPeers(ch) \subseteq Peers
  BY ChunkNumbers DEF IInv, TypeOK, CountedPeers
<1>3. CountedPeers(ch) = Peers
  BY <1>1, <1>2, FS_Subset
<1> QED
  BY <1>3 DEF CountedPeers

LEMMA OutputStep ==
    ASSUME IInv, [Next]_vars
    PROVE  OutputInv'
<1>0. /\ OutputInv /\ HoldInv /\ cfg \in Configs /\ pc \in [Ctas -> Places]
      /\ chunk \in [Ctas -> Nat] /\ output \in [Chunks -> Seq([Peers -> Nat])]
      /\ remote_arrived_flag \in [Chunks -> {0, 1, 2}]
  BY DEF IInv, TypeOK, CtaTypes, ArrivalTypes, ReduceTypes
<1>a. \A ch \in Chunks : AllArrived(ch) => \A p \in Peers : <<p, ch>> \in arrived'
  BY ArrivalStep DEF AllArrived
<1> DEFINE Justified(c) == IF Incremental THEN chunk[c] \in chunk_reduce_done
                           ELSE AllArrived(chunk[c])
           Once(f) == \A ch \in Chunks :
                        /\ Len(f[ch]) <= 1
                        /\ \A i \in DOMAIN f[ch] : \A p \in Peers : f[ch][i][p] = 1
<1>b. (\A c \in Ctas : pc[c] = "reduce" => Justified(c) /\ chunk[c] \in Chunks) /\ Once(output)
  BY <1>0 DEF OutputInv, ReducedOnce, HoldInv, Holds
<1>1. ASSUME cfg' = cfg, chunk_reduce_done \subseteq chunk_reduce_done', Once(output'),
             \A c \in Ctas : pc'[c] = "reduce" =>
               chunk'[c] = chunk[c] /\ Justified(c) /\ chunk[c] \in Chunks
      PROVE  OutputInv'
  <2>1. ReducedOnce'
    BY <1>1, LaunchStays DEF ReducedOnce
  <2>2. \A c \in Ctas : pc'[c] = "reduce" =>
          IF Incremental' THEN chunk'[c] \in chunk_reduce_done'
          ELSE \A p \in Peers' : <<p, chunk'[c]>> \in arrived'
    BY <1>1, <1>a, LaunchStays
  <2> QED
    BY <1>1, <2>1, <2>2, LaunchStays DEF OutputInv, AllArrived
<1> HIDE DEF Justified, Once
<1>2. ASSUME NEW c \in Ctas, Cta(c), chunk_reduce_done \subseteq chunk_reduce_done',
             Once(output'),
             pc'[c] = "reduce" => chunk'[c] = chunk[c] /\ Justified(c) /\ chunk[c] \in Chunks
      PROVE  OutputInv'
  <2>1. Others(c) /\ cfg' = cfg
    BY <1>2, OthersStay DEF IInv
  <2>2. \A d \in Ctas : pc'[d] = "reduce" =>
               chunk'[d] = chunk[d] /\ Justified(d) /\ chunk[d] \in Chunks
    BY <1>2, <1>b, <2>1 DEF Others
  <2> QED
    BY <1>1, <1>2, <2>1, <2>2
<1>3. ASSUME NEW c \in Ctas, WaitPrereqs(c) PROVE OutputInv'
  <2>1. /\ pc[c] = "wait" /\ UNCHANGED <<chunk, output, chunk_reduce_done>>
        /\ IF Incremental THEN chunk[c] \in chunk_reduce_done
           ELSE remote_arrived_flag[chunk[c]] # 0 \/ \A p \in Peers : <<p, chunk[c]>> \in arrived
    BY <1>3 DEF WaitPrereqs, At, local, adding, done
  <2>2. chunk[c] \in Chunks
    BY <1>0, <2>1 DEF HoldInv, Holds
  <2>3. ~Incremental => AllArrived(chunk[c])
    BY <2>1, <2>2 DEF AllArrived, IInv, FlagInv
  <2>4. Justified(c)
    BY <2>1, <2>3 DEF Justified
  <2> QED
    BY <1>2, <1>3, <1>b, <2>1, <2>2, <2>4 DEF Cta
<1>4. ASSUME NEW c \in Ctas, Reduce(c) PROVE OutputInv'
  <2> DEFINE k == chunk[c]
             sum == IF Incremental THEN accum[k]
                    ELSE [p \in Peers |-> IF <<p, k>> \in arrived THEN 1 ELSE 0]
  <2>1. /\ pc[c] = "reduce" /\ pc'[c] = "claim" /\ chunk_reduce_done' = chunk_reduce_done
        /\ output' = [output EXCEPT ![k] = Append(@, sum)]
    BY <1>0, <1>4 DEF Reduce, At, Goes, adding
  <2>2. k \in Chunks /\ output[k] = <<>> /\ Justified(c)
    BY <1>0, <1>b, <2>1 DEF HoldInv, Holds
  <2>3. \A p \in Peers : sum[p] = 1
    BY <2>2, DoneComplete DEF Justified, AllArrived
  <2> HIDE DEF k, sum
  <2>4. output'[k] = <<sum>> /\ \A ch \in Chunks : ch # k => output'[ch] = output[ch]
    BY <1>0, <2>1, <2>2
  <2>5. Len(<<sum>>) = 1 /\ DOMAIN <<sum>> = {1} /\ <<sum>>[1] = sum
    OBVIOUS
  <2>6. Once(output')
    <3>1. ASSUME NEW ch \in Chunks
          PROVE  /\ Len(output'[ch]) <= 1
                 /\ \A i \in DOMAIN output'[ch] : \A p \in Peers : output'[ch][i][p] = 1
      <4>1. CASE ch = k
        <5>1. Len(output'[ch]) = 1 /\ DOMAIN output'[ch] = {1} /\ output'[ch][1] = sum
          BY <2>4, <2>5, <4>1
        <5> QED
          BY <2>3, <5>1
      <4>2. CASE ch # k
        BY <1>b, <2>4, <4>2 DEF Once
      <4> QED
        BY <4>1, <4>2
    <3> QED
      BY <3>1 DEF Once
  <2> QED
    BY <1>2, <1>4, <2>1, <2>6 DEF Cta
<1>5. ASSUME NEW c \in Ctas, Cta(c) PROVE OutputInv'
  <2> DEFINE Still == /\ output' = output /\ chunk_reduce_done \subseteq chunk_reduce_done'
                      /\ pc'[c] # "reduce"
  <2>1. Still => OutputInv'
    BY <1>2, <1>5, <1>b
  <2> USE DEF At, Goes, Takes, computing, sending, arriving, draining, readyq, accumq, adding,
              done, local
  <2>2. StoreTile(c) \/ CountTile(c) \/ ComputeEnds(c) \/ TakeReady(c) \/ PushChunk(c)
        \/ SendEnds(c) \/ EnqueueAccum(c) \/ Published(c) \/ DrainEnds(c) \/ ProgressLoop(c)
        \/ EnqueueReady(c) \/ Check(c) => Still
    BY <1>0 DEF StoreTile, CountTile, ComputeEnds, TakeReady, PushChunk, SendEnds,
                EnqueueAccum, Published, DrainEnds, ProgressLoop, EnqueueReady, Check
  <2>3. (\E q \in Queues : DrainWord(c, q)) \/ (\E m \in marks[c] : Publish(c, m))
        \/ ClaimNext(c) \/ Scan(c) \/ TryReady(c) \/ Pop(c) \/ PopWait(c) => Still
    BY <1>0 DEF DrainWord, Publish, ClaimNext, Scan, TryReady, Pop, PopWait
  <2>4. AccumPop(c) \/ AccumWait(c) \/ AccumLock(c) \/ AccumStore(c) \/ AccumCount(c) => Still
    BY <1>0 DEF AccumPop, AccumWait, AccumLock, AccumStore, AccumCount
  <2> HIDE DEF Still
  <2> QED
    BY <1>3, <1>4, <1>5, <2>1, <2>2, <2>3, <2>4 DEF Cta
<1>6. ASSUME \/ \E m \in pushed : NicReads(m)
             \/ \E p \in Peers : \E ch \in Chunks : PeerWrites(p, ch)
             \/ UNCHANGED vars
      PROVE  OutputInv'
  <2>1. UNCHANGED <<cfg, pc, chunk, output, chunk_reduce_done>>
    BY <1>6, EnvironmentStays
  <2> QED
    BY <1>1, <1>b, <2>1
<1> QED
  BY <1>5, <1>6, NextCases

-----------------------------------------------------------------------------
\* The beginning of a launch.

LEMMA FirstTasks ==
    ASSUME cfg \in Configs, NEW c \in Ctas, IsCompute(c)
    PROVE  CtaOf(c[1], c[2]) = c /\ c[2] \in Nat
<1>1. c = <<c[1], c[2]>> /\ c[2] \in Nat /\ (c[1] # Dev => c[2] = 0)
  BY CtaFacts
<1>2. CASE c[1] = Dev
  <2>1. NumComp \in Nat \ {0} /\ c[2] < NumComp
    BY <1>2, CompFacts DEF IsCompute
  <2>2. c[2] % NumComp = c[2]
    BY <1>1, <2>1
  <2> QED
    BY <1>1, <1>2, <2>2 DEF CtaOf
<1>3. CASE c[1] # Dev
  BY <1>1, <1>3 DEF CtaOf
<1> QED
  BY <1>2, <1>3, <1>1

LEMMA InitTypes == Init => TypeOK
<1> SUFFICES ASSUME Init PROVE TypeOK
  OBVIOUS
<1>0. /\ cfg \in Configs /\ Blocks \cup OthersCompute = Ctas
  BY DEF Init, Ctas
<1>1. CtaTypes
  <2>1. \A c \in Ctas : IsCompute(c) => NextTask(c, c[2]) \in Nat
    BY <1>0, CtaFacts, NextTaskNat
  <2>2. task \in [Ctas -> Nat]
    BY <1>0, <2>1 DEF Init
  <2>3. \A c \in Ctas : IsProgress(c) => c[2] - NumComp - cfg.num_send \in Nat
    <3> SUFFICES ASSUME NEW c \in Ctas, IsProgress(c) PROVE c[2] - NumComp - cfg.num_send \in Nat
      OBVIOUS
    <3>1. Progress \in Int
      BY <1>0, ProgressFacts
    <3> QED
      BY <3>1 DEF IsProgress
  <2>4. slot \in [Ctas -> Nat]
    BY <1>0, <2>3 DEF Init
  <2>5. pc \in [Ctas -> Places]
    BY <1>0 DEF Init, Places
  <2>6. /\ did \in [Ctas -> SUBSET Halves] /\ marks \in [Ctas -> SUBSET Works]
        /\ chunk \in [Ctas -> Nat] /\ peer \in [Ctas -> Nat]
        /\ copy \in [Ctas -> [Peers -> Nat]]
    BY <1>0 DEF Init
  <2> QED
    BY <2>2, <2>4, <2>5, <2>6 DEF CtaTypes
<1>2. CountTypes
  <2>1. comp_gemm_done \in [Gpus -> [Chunks -> Nat]] /\ ready_count \in [Chunks -> Nat]
    BY DEF Init, Gpus
  <2>2. /\ ready_bits \in [Senders -> SUBSET Nat]
        /\ sender_done \in SUBSET Chunks /\ pushed \in SUBSET Works
        /\ sent \in SUBSET [to : Peers, chunk : Chunks, own : BOOLEAN, whole : BOOLEAN]
    BY DEF Init, Senders
  <2> QED
    BY <2>1, <2>2 DEF CountTypes
<1>3. ArrivalTypes
  <2>1. <<>> \in Seq([tile : Nat, run : Nat])
    OBVIOUS
  <2> QED
    BY <2>1 DEF Init, ArrivalTypes
<1>4. ReduceTypes
  <2>1. <<>> \in Seq([Peers -> Nat])
    OBVIOUS
  <2>2. /\ next_reduce \in Nat /\ scan \in Nat /\ ready_head \in Nat /\ ready_tail \in Nat
        /\ accum_head \in Nat /\ accum_tail \in Nat /\ accum_lock \in SUBSET Chunks
        /\ chunk_reduce_done \in SUBSET Chunks
    BY DEF Init
  <2>3. /\ ready_slots \in [0..(TotalChunks - 1) -> Nat] /\ accum_done \in [Chunks -> Nat]
        /\ accum \in [Chunks -> [Peers -> Nat]] /\ output \in [Chunks -> Seq([Peers -> Nat])]
    BY <2>1 DEF Init
  <2>4. accum_slots \in [0..(TotalChunks * NumPeers - 1) -> {<<>>} \cup Works]
    BY DEF Init
  <2> QED
    BY <2>2, <2>3, <2>4 DEF ReduceTypes
<1> QED
  BY <1>0, <1>1, <1>2, <1>3, <1>4 DEF TypeOK

\* No task is counted yet.
LEMMA InitCounts == Init => TaskInv /\ CountInv
<1> SUFFICES ASSUME Init PROVE TaskInv /\ CountInv
  OBVIOUS
<1>0. /\ cfg \in Configs /\ Blocks \cup OthersCompute = Ctas
      /\ \A c \in Ctas : did[c] = {} /\ (IsCompute(c) => task[c] = NextTask(c, c[2]))
      /\ \A d \in Gpus : \A ch \in Chunks : comp_gemm_done[d][ch] = 0
      /\ \A ch \in Chunks : ready_count[ch] = 0
  BY DEF Init, Ctas, Gpus
<1>1. NumBlocksOfWork \in Nat
  BY <1>0, WorkIsNat
<1>2. TaskInv
  <2>1. ASSUME NEW c \in Ctas, IsCompute(c)
        PROVE  \/ task[c] = NumBlocksOfWork
               \/ /\ task[c] < NumBlocksOfWork /\ SliceOf(task[c], c[1]) = Dev
                  /\ CtaOf(c[1], task[c]) = c
    <3>1. CtaOf(c[1], c[2]) = c /\ c[2] \in Nat
      BY <1>0, <2>1, FirstTasks
    <3>2. /\ task[c] \in Nat /\ task[c] <= NumBlocksOfWork
          /\ task[c] # NumBlocksOfWork =>
               SliceOf(task[c], c[1]) = Dev /\ CtaOf(c[1], task[c]) = c
      BY <1>0, <2>1, <3>1, NextTaskIs
    <3>3. task[c] = NumBlocksOfWork \/ task[c] < NumBlocksOfWork
      BY <1>1, <3>2
    <3> QED
      BY <3>2, <3>3
  <2> QED
    BY <2>1 DEF TaskInv
<1>3. \A d \in Gpus : \A ch \in Chunks : CountedTasks(d, ch) = {}
  <2> SUFFICES ASSUME NEW d \in Gpus, NEW ch \in Chunks, NEW t \in Tasks(d, ch),
                      HasCounted(CtaOf(d, t), t)
               PROVE  FALSE
    BY DEF CountedTasks
  <2> DEFINE c == CtaOf(d, t)
  <2>1. t \in 0..(NumBlocksOfWork - 1) /\ t \in Nat /\ SliceOf(t, d) = Dev
    BY <1>1 DEF Tasks
  <2>2. c \in Ctas /\ c[1] = d /\ IsCompute(c)
    BY <1>0, <2>1, TaskHasCta
  <2>3. CtaOf(c[1], t) = c
    BY <2>2
  <2>4. c[2] <= t
    <3>1. NumComp \in Nat \ {0}
      BY <1>0, CompFacts
    <3>2. c = IF d = Dev THEN <<d, t % NumComp>> ELSE <<d, 0>>
      BY DEF CtaOf
    <3>3. c[2] = IF d = Dev THEN t % NumComp ELSE 0
      BY <3>2
    <3> HIDE DEF c
    <3>4. t % NumComp <= t
      BY <2>1, <3>1
    <3> QED
      BY <2>1, <3>3, <3>4
  <2>t. HasCounted(c, t)
    OBVIOUS
  <2> HIDE DEF c
  <2>5. CtaOf(c[1], c[2]) = c /\ c[2] \in Nat
    BY <1>0, <2>2, FirstTasks
  <2>6. t \in c[2]..(NumBlocksOfWork - 1)
    BY <1>1, <2>1, <2>4, <2>5
  <2>7. task[c] <= t /\ task[c] \in Nat
    BY <1>0, <2>1, <2>2, <2>3, <2>5, <2>6, NextTaskIs
  <2>8. ~(t < task[c])
    BY <2>1, <2>7
  <2> QED
    BY <1>0, <2>2, <2>8, <2>t DEF HasCounted
<1>4. \A ch \in Chunks : FullGpus(ch) = {}
  <2>1. \A ch \in Chunks : TilesOf(ch) # 0
    BY <1>0, ChunkTilesFit
  <2> QED
    BY <1>0, <2>1 DEF FullGpus
<1>5. Cardinality({}) = 0
  BY FS_EmptySet
<1> QED
  BY <1>0, <1>2, <1>3, <1>4, <1>5 DEF CountInv

LEMMA Initially == Init => IInv
<1> SUFFICES ASSUME Init PROVE IInv
  OBVIOUS
<1>0. /\ cfg \in Configs /\ Blocks \cup OthersCompute = Ctas
      /\ \A c \in Ctas : /\ pc[c] = IF IsCompute(c) THEN "compute" ELSE IF IsSend(c) THEN "send"
                                    ELSE IF IsProgress(c) THEN "progress" ELSE "claim"
                         /\ pc[c] \in {"compute", "send", "progress", "claim"}
                         /\ marks[c] = {}
  BY DEF Init, Ctas
<1>1. PlaceInv
  <2>1. \A c \in Ctas : IsProgress(c) => Transport
    <3> SUFFICES ASSUME NEW c \in Ctas, IsProgress(c), ~Transport PROVE FALSE
      OBVIOUS
    <3>1. Progress = 0
      BY DEF Progress
    <3> QED
      BY <3>1 DEF IsProgress
  <2>2. \A c \in Ctas : c[1] # Dev => IsCompute(c)
    BY DEF IsCompute
  <2> QED
    BY <1>0, <2>1, <2>2 DEF PlaceInv
<1>2. SendInv
  <2>1. \A s \in Senders : ready_bits[s] = {}
    BY DEF Init, Senders
  <2>2. sender_done = {} /\ pushed = {} /\ sent = {}
    BY DEF Init
  <2> QED
    BY <1>0, <2>1, <2>2 DEF SendInv, BitInv, PushInv, SentInv
<1>3. \A ch \in Chunks : \A p \in Peers : accum[ch][p] = 0
  BY DEF Init
<1>4. OwnInv
  <2>1. pushed = {} /\ sent = {}
    BY DEF Init
  <2> QED
    BY <1>0, <1>3, <2>1 DEF OwnInv, SentUnmodified
<1>5. ArrivalInv
  <2>1. \A q \in Queues : DOMAIN queue[q] = {}
    BY DEF Init
  <2>2. \A ch \in Chunks : peer_mask[ch] = {}
    BY DEF Init
  <2> QED
    BY <1>0, <2>1, <2>2 DEF ArrivalInv
<1>6. \A ch \in Chunks : remote_arrived_flag[ch] = 0 /\ peer_mask[ch] = {} /\ output[ch] = <<>>
                         /\ accum_done[ch] = 0
  BY DEF Init
<1>7. FlagInv
  BY <1>6 DEF FlagInv
<1>8. Cardinality({}) = 0
  BY FS_EmptySet
<1>9. ready_head = 0 /\ ready_tail = 0 /\ accum_head = 0 /\ accum_tail = 0 /\ chunk_reduce_done = {}
  BY DEF Init
<1>10. ReadyInv
  <2>1. {ch \in Chunks : Claimed(ch)} = {}
    BY <1>6, <1>9 DEF Claimed
  <2>2. \A s \in 0..(TotalChunks - 1) : ready_slots[s] = 0
    BY DEF Init
  <2>3. ReadyTailInv
    BY <1>8, <1>9, <2>1 DEF ReadyTailInv
  <2>4. ReadyEnqInv /\ ReadyPopInv
    BY <1>0 DEF ReadyEnqInv, ReadyPopInv
  <2>5. ReadySlotInv
    BY <2>2 DEF ReadySlotInv
  <2> QED
    BY <2>3, <2>4, <2>5 DEF ReadyInv
<1>11. HoldInv
  BY <1>0, <1>6 DEF HoldInv, Holds
<1>12. AccumInv
  <2>1. {w \in Works : Masked(w)} = {}
    BY <1>6 DEF Masked, Works
  <2>2. \A s \in 0..(TotalChunks * NumPeers - 1) : accum_slots[s] = <<>>
    BY DEF Init
  <2>3. AccumTailInv
    BY <1>8, <1>9, <2>1 DEF AccumTailInv
  <2>4. AccumEnqInv /\ AccumPopInv
    BY <1>0 DEF AccumEnqInv, AccumPopInv
  <2>5. AccumSlotInv
    BY <2>2 DEF AccumSlotInv
  <2> QED
    BY <2>3, <2>4, <2>5 DEF AccumInv
<1>13. AccumHoldInv /\ LockInv
  BY <1>0, <1>3 DEF AccumHoldInv, Adds, LockInv
<1>14. DoneInv
  <2>1. \A ch \in Chunks : CountedPeers(ch) = {}
    BY <1>3 DEF CountedPeers
  <2>2. NumPeers # 0
    BY <1>0, ChunkNumbers
  <2> QED
    BY <1>6, <1>8, <1>9, <2>1, <2>2 DEF DoneInv
<1>15. OutputInv
  <2>1. Len(<<>>) = 0 /\ DOMAIN <<>> = {}
    OBVIOUS
  <2> QED
    BY <1>0, <1>6, <2>1 DEF OutputInv, ReducedOnce
<1> QED
  BY <1>1, <1>2, <1>4, <1>5, <1>7, <1>10, <1>11, <1>12, <1>13, <1>14, <1>15, InitTypes,
     InitCounts DEF IInv

-----------------------------------------------------------------------------
\* The theorems.

\* Every step keeps the inductive invariant.
THEOREM Inductive == IInv /\ [Next]_vars => IInv'
<1> SUFFICES ASSUME IInv, [Next]_vars PROVE IInv'
  OBVIOUS
<1>1. TypeOK' /\ PlaceInv' /\ TaskInv' /\ CountInv'
  BY TypesStep, PlaceStep, CountsStep
<1>2. SendInv' /\ OwnInv' /\ ArrivalInv' /\ FlagInv'
  BY SendStep, OwnStep, ArrivalStep, FlagStep
<1>3. ReadyInv' /\ HoldInv' /\ OutputInv'
  BY ReadyStep, OutputStep
<1>4. AccumInv' /\ AccumHoldInv' /\ LockInv' /\ DoneInv'
  BY AccumStep DEF AccumParts
<1> QED
  BY <1>1, <1>2, <1>3, <1>4 DEF IInv

\* The inductive invariant holds throughout a launch: counts of tiles, chunks on their
\* way out, the two queues with their slots, the lock and the counts of the additions.
THEOREM Invariance == Spec => []IInv
<1>1. IInv /\ [Next]_vars => IInv'
  BY Inductive
<1> QED
  BY Initially, <1>1, PTL DEF Spec

\* The variables of the kernel keep their types, the work that the queues hold included.
THEOREM TypeCorrect == Spec => []TypeOK
<1>1. IInv => TypeOK
  BY DEF IInv
<1> QED
  BY <1>1, Invariance, PTL

\* A send CTA takes a ready bit that the last of the GPUs raised: a chunk that the NIC has
\* read was counted whole by every GPU, and leaves once for each receiver.
THEOREM SentAfterCountsHolds == Spec => []SentAfterCounts
<1>1. IInv => SentAfterCounts
  <2> SUFFICES ASSUME IInv PROVE SentAfterCounts
    OBVIOUS
  <2>0. /\ SentInv /\ CountInv /\ cfg \in Configs /\ DOMAIN comp_gemm_done = Gpus
        /\ sender_done \subseteq Chunks
    BY DEF IInv, SendInv, TypeOK, CountTypes
  <2>1. ASSUME NEW x \in sent, NEW d \in Gpus
        PROVE  comp_gemm_done[d][x.chunk] = TilesOf(x.chunk)
    <3>1. x.chunk \in Chunks /\ Full(x.chunk)
      BY <2>0 DEF SentInv
    <3>2. Cardinality(FullGpus(x.chunk)) = cfg.devices
      BY <2>0, <3>1 DEF Full, CountInv
    <3>3. IsFiniteSet(Gpus) /\ Cardinality(Gpus) = cfg.devices
      <4>1. cfg.devices \in Nat \ {0}
        BY <2>0, LaunchFacts
      <4> DEFINE n == cfg.devices
      <4> HIDE DEF n
      <4>2. n \in Nat \ {0}
        BY <4>1 DEF n
      <4>3. IsFiniteSet(0..(n - 1)) /\ Cardinality(0..(n - 1)) = n
        BY <4>2, FS_Interval
      <4> QED
        BY <4>3 DEF Gpus, n
    <3>4. FullGpus(x.chunk) \subseteq Gpus
      BY DEF FullGpus
    <3>5. FullGpus(x.chunk) = Gpus
      BY <3>2, <3>3, <3>4, FS_Subset
    <3> QED
      BY <3>5 DEF FullGpus
  <2> QED
    BY <2>0, <2>1 DEF SentAfterCounts, SentInv
<1> QED
  BY <1>1, Invariance, PTL

\* The NIC reads the staging buffer at any time after the push, and peers are added to it
\* as they arrive: what it reads is the node's own sum all the same, unless the additions
\* are made in place without a single owner of each chunk.
THEOREM SentUnmodifiedHolds == Spec => []SentUnmodified
<1>1. IInv => SentUnmodified
  BY DEF IInv, OwnInv
<1> QED
  BY <1>1, Invariance, PTL

\* Whichever CTAs drain the arrivals, claim and add, a chunk of the output is written at
\* most once, with each peer in it exactly once.
THEOREM ReducedOnceHolds == Spec => []ReducedOnce
<1>1. IInv => ReducedOnce
  BY DEF IInv, OutputInv
<1> QED
  BY <1>1, Invariance, PTL

=============================================================================
