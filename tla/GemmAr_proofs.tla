---------------------------- MODULE GemmAr_proofs ----------------------------
(***************************************************************************)
(* The fused gemm_ar kernel, for every number of GPUs, shape, split of     *)
(* CTAs, ready signal, way of reducing and number of launches: what the    *)
(* NIC reads is the whole sum of this epoch, and a kernel that is over has *)
(* every tile of the final output, once and complete.                      *)
(***************************************************************************)
EXTENDS GemmAr, TLAPS, FiniteSetTheorems, FunctionTheorems

\* The device counts as many chunks to a row as the host does: GEMM_AR_CHUNK_TILES,
\* which only the host sees, is not set, or makes no difference.
SameLayout ==
    \A c \in Configs :
        LET PerRow(n) == (c.cols + n - 1) \div n
        IN  PerRow(Min({c.device_chunk_tiles, c.cols})) = PerRow(Min({c.chunk_tiles, c.cols}))

\* What makes the barrier that ends an iteration one with every other node: there is one,
\* or there is no iteration after it.
Paired == \A c \in Configs : c.nodes = 2 \/ c.max_epoch = 1

-----------------------------------------------------------------------------
\* Types.

Words == Peers \X Chunks \X Nat
Sums == [Gpus -> Nat]
Results == [local : Sums, peers : [Peers -> Seq(Nat)]]
Places == {"look", "finish", "slices", "reset", "barrier", "exit"}

LaunchTypes ==
    /\ cfg \in Configs /\ epoch \in [Gpus -> Nat \ {0}]
    /\ computed \in [Gpus -> SUBSET Tasks]
    /\ comp_chunk_tiles_done \in [Gpus -> [Gpus \X Chunks -> Nat]]
    /\ C \in [Gpus -> [Gpus \X Tiles -> Nat]]
    /\ barrier \in [Gpus -> [Gpus \X Chunks -> Int]]
SliceTypes ==
    /\ summed \in [Gpus -> SUBSET Tiles] /\ counted \in [Gpus -> SUBSET Tiles]
    /\ intra_chunk_tiles_done \in [Gpus -> [Chunks -> Nat]]
    /\ staging \in [Gpus -> [Tiles -> Sums]]
    /\ local_done_flag \in [Gpus -> [Chunks -> {0, 1, 2}]]
SendTypes ==
    /\ issued \in [Gpus -> SUBSET Chunks] /\ posted \in [Gpus -> SUBSET (Peers \X Chunks \X Nat)]
    /\ sent \in [Gpus -> SUBSET [to : Peers, epoch : Nat, tile : Tiles, sum : Sums]]
ArrivalTypes ==
    /\ recv \in [Gpus -> [Peers \X Chunks -> Nat]]
    /\ words \in [Gpus -> [Queues -> [1..TotalChunks -> {<<>>} \cup Words]]]
    /\ arrival_queue_head \in [Gpus -> [Queues -> Nat]]
    /\ peer_mask \in [Gpus -> [Chunks -> SUBSET Peers]]
    /\ remote_arrived_flag \in [Gpus -> SUBSET Chunks]
    /\ remote_arrived_chunks \in [Gpus -> Nat]
ReduceTypes ==
    /\ at \in [Gpus -> [Reducers -> Places]] /\ scan \in [Gpus -> [Reducers -> Nat]]
    /\ \A g \in Gpus : \A r \in Reducers : at[g][r] \in {"slices", "barrier"} => r = 0
    /\ reduce_cursor \in [Gpus -> Nat] /\ published_chunks \in [Gpus -> Nat]
    /\ accum \in [Gpus -> [Chunks -> [Peers -> Seq(Nat)]]]
    /\ final \in [Gpus -> [Gpus \X Tiles -> Seq(Results)]]
FinishTypes ==
    /\ final_slot \in [0..(cfg.slot_rows - 1) -> [Gpus -> Nat]]
    /\ final_publish_done \in [Gpus -> BOOLEAN]
    /\ rung \in [Gpus -> Nat] /\ bell \in [Gpus -> Nat]

TypeOK ==
    LaunchTypes /\ SliceTypes /\ SendTypes /\ ArrivalTypes /\ ReduceTypes /\ FinishTypes

-----------------------------------------------------------------------------
\* The inductive invariant.

\* The tiles of a chunk, and the tasks of a GPU that make them.
TilesIn(ch) == {t \in Tiles : ChunkOf(t) = ch}
TasksIn(w) == {k \in Tasks : SliceOf(k) = w[1] /\ ChunkOf(TileOf(k)) = w[2]}

ComputeInv ==
    \A g \in Gpus :
        /\ \A k \in computed[g] : C[g][<<SliceOf(k), TileOf(k)>>] = epoch[g]
        /\ \A w \in Gpus \X Chunks :
             comp_chunk_tiles_done[g][w] = Cardinality(computed[g] \cap TasksIn(w))

\* How often a GPU has signalled a chunk since the first launch, and how often the owner
\* of the slice has taken the signals back.
Signals(d, w) ==
    IF comp_chunk_tiles_done[d][w] = TilesOf(w[2]) THEN epoch[d] ELSE epoch[d] - 1
Taken(g, ch) == IF local_done_flag[g][ch] # 0 THEN epoch[g] ELSE epoch[g] - 1

SignalInv ==
    /\ cfg.multimem => \A d \in Gpus : \A w \in Gpus \X Chunks : barrier[d][w] = Signals(d, w)
    /\ ~cfg.multimem => \A g \in Gpus : \A ch \in Chunks :
         barrier[g][<<g, ch>>] = Cardinality({d \in Gpus : Signals(d, <<g, ch>>) = Taken(g, ch) + 1})
LagInv ==
    \A d, g \in Gpus : \A ch \in Chunks :
        /\ Taken(g, ch) <= Signals(d, <<g, ch>>)
        /\ Signals(d, <<g, ch>>) <= Taken(g, ch) + 1

SummedInv ==
    \A g \in Gpus :
        /\ counted[g] \subseteq summed[g]
        /\ \A t \in summed[g] :
             /\ staging[g][t] = Whole(epoch[g])
             /\ \A d \in Gpus : Signals(d, <<g, ChunkOf(t)>>) >= epoch[g]
        /\ \A ch \in Chunks :
             /\ local_done_flag[g][ch] # 0 <=> TilesIn(ch) \subseteq counted[g]
             /\ intra_chunk_tiles_done[g][ch] =
                  IF local_done_flag[g][ch] # 0 THEN 0 ELSE Cardinality(counted[g] \cap TilesIn(ch))

\* A chunk is issued when it is counted, and read before the peers let the GPU go on.
SendInv ==
    \A g \in Gpus :
        /\ \A ch \in issued[g] : local_done_flag[g][ch] # 0
        /\ \A m \in posted[g] : m[2] \in issued[g] /\ m[3] = epoch[g]
        /\ \A x \in sent[g] : x.sum = Whole(x.epoch)
        /\ bell[g] <= epoch[g]
        /\ bell[g] = epoch[g] => issued[g] = Chunks /\ (cfg.nodes = 2 => posted[g] = {})
        /\ at[g][0] = "exit" => bell[g] = epoch[g]

\* The chunks that are published, and the last epoch whose slice is.
Published(g) ==
    IF Static THEN {ch \in Chunks : ch < scan[g][ch % NumReduce]}
    ELSE {ch \in Chunks : local_done_flag[g][ch] = 2}
Announced(g) == IF at[g][0] \in {"look", "finish"} THEN epoch[g] - 1 ELSE epoch[g]

PublishInv ==
    \A g \in Gpus :
        /\ published_chunks[g] = Cardinality(Published(g))
        /\ \A ch \in Published(g) : local_done_flag[g][ch] # 0 /\ peer_mask[g][ch] = Peers
        /\ \A r \in Reducers : at[g][r] # "look" => Published(g) = Chunks
        /\ Static => \A r \in Reducers : scan[g][r] % NumReduce = r

SlotInv ==
    \A row \in 0..(cfg.slot_rows - 1) : \A g \in Gpus :
        /\ final_slot[row][g] = 0 <=> \A e \in 1..Announced(g) : e % cfg.slot_rows # row
        /\ final_slot[row][g] = 1 => \A e, f \in 1..Announced(g) :
             e % cfg.slot_rows = row /\ f % cfg.slot_rows = row => e = f
EpochInv ==
    \A g, d \in Gpus :
        /\ epoch[g] <= Announced(d) + 1
        /\ at[g][0] \in {"reset", "barrier", "exit"} => epoch[g] <= Announced(d)

\* What has come from the other nodes.
ArrivalInv ==
    \A g \in Gpus :
        /\ rung[g] = IF at[g][0] \in {"barrier", "exit"} THEN epoch[g] ELSE epoch[g] - 1
        /\ \A w \in Peers \X Chunks : recv[g][w] <= rung[g] + 1 /\ epoch[g] <= recv[g][w] + 1
        /\ \A ch \in Chunks : \A p \in peer_mask[g][ch] : epoch[g] <= recv[g][<<p, ch>>]
        /\ \A ch \in remote_arrived_flag[g] : peer_mask[g][ch] = Peers
WordInv ==
    \A g \in Gpus : \A q \in Queues : \A i \in 1..TotalChunks :
        LET w == words[g][q][i]
        IN  w # <<>> => /\ w[3] <= recv[g][<<w[1], w[2]>>] /\ epoch[g] <= w[3]
                        /\ at[g][(i - 1) % NumReduce] \in {"barrier", "exit"} => epoch[g] < w[3]
AccumInv ==
    \A g \in Gpus : \A ch \in Chunks : \A p \in Peers :
        accum[g][ch][p] # <<>> => p \in peer_mask[g][ch] /\ accum[g][ch][p] = <<epoch[g]>>

\* A tile of the final output of GPU d: what its owner has published, if it has.
Sum(e) == [local |-> Whole(e), peers |-> [p \in Peers |-> <<e>>]]
HasFinal(d, w) ==
    epoch[d] < epoch[w[1]] \/ (epoch[d] = epoch[w[1]] /\ ChunkOf(w[2]) \in Published(w[1]))
FinalInv ==
    \A d \in Gpus : \A w \in Gpus \X Tiles :
        final[d][w] = IF HasFinal(d, w) THEN <<Sum(epoch[d])>> ELSE <<>>

IInv == /\ TypeOK /\ ComputeInv /\ SignalInv /\ LagInv /\ SummedInv /\ SendInv /\ PublishInv
        /\ SlotInv /\ EpochInv /\ ArrivalInv /\ WordInv /\ AccumInv /\ FinalInv

-----------------------------------------------------------------------------
\* Numbers.

\* The greater and the smaller of two numbers.
LEMMA MaxMin ==
    ASSUME NEW a \in Int, NEW b \in Int
    PROVE  /\ Max({a, b}) = IF a >= b THEN a ELSE b
           /\ Min({a, b}) = IF a <= b THEN a ELSE b
<1>1. \E x \in {a, b} : \A y \in {a, b} : x >= y
  OBVIOUS
<1>2. Max({a, b}) \in {a, b} /\ \A y \in {a, b} : Max({a, b}) >= y
  BY <1>1 DEF Max
<1>3. \E x \in {a, b} : \A y \in {a, b} : x <= y
  OBVIOUS
<1>4. Min({a, b}) \in {a, b} /\ \A y \in {a, b} : Min({a, b}) <= y
  BY <1>3 DEF Min
<1> QED
  BY <1>2, <1>4

LEMMA Divides ==
    ASSUME NEW a \in Nat, NEW b \in Nat \ {0}
    PROVE  /\ a \div b \in Nat /\ a % b \in Nat /\ a % b < b
           /\ a = b * (a \div b) + (a % b)
  OBVIOUS

\* What is put together from a quotient and a remainder comes apart into them.
LEMMA DivideBack ==
    ASSUME NEW q \in Nat, NEW b \in Nat \ {0}, NEW r \in Nat, r < b
    PROVE  (q * b + r) \div b = q /\ (q * b + r) % b = r
<1> DEFINE a == q * b + r
           p == a \div b
           s == a % b
<1>1. a \in Nat
  OBVIOUS
<1>2. p \in Nat /\ s \in Nat /\ s < b /\ a = b * p + s
  BY <1>1, Divides
<1>3. ~(p < q)
  <2> SUFFICES ASSUME p < q PROVE FALSE
    OBVIOUS
  <2> DEFINE d == q - p - 1
  <2>1. d \in Nat /\ q = p + 1 + d
    BY <1>2
  <2>2. (p + 1 + d) * b = b * p + b + d * b /\ d * b \in Nat /\ b * p \in Nat
    BY <1>2, <2>1
  <2> QED
    BY <1>2, <2>1, <2>2
<1>4. ~(q < p)
  <2> SUFFICES ASSUME q < p PROVE FALSE
    OBVIOUS
  <2> DEFINE d == p - q - 1
  <2>1. d \in Nat /\ p = q + 1 + d
    BY <1>2
  <2>2. b * (q + 1 + d) = q * b + b + d * b /\ d * b \in Nat /\ q * b \in Nat
    BY <1>2, <2>1
  <2> QED
    BY <1>2, <2>1, <2>2
<1>5. p = q
  BY <1>2, <1>3, <1>4
<1> QED
  BY <1>2, <1>5

\* Numbers of two digits.
LEMMA TwoDigits ==
    ASSUME NEW A \in Nat \ {0}, NEW B \in Nat \ {0}
    PROVE  /\ A * B \in Nat \ {0}
           /\ \A q \in 0..(A - 1) : \A r \in 0..(B - 1) :
                /\ q * B + r \in 0..(A * B - 1)
                /\ (q * B + r) \div B = q /\ (q * B + r) % B = r
           /\ \A x \in 0..(A * B - 1) :
                /\ x \div B \in 0..(A - 1) /\ x % B \in 0..(B - 1)
                /\ x = (x \div B) * B + (x % B)
<1>1. A * B \in Nat \ {0}
  OBVIOUS
<1>2. ASSUME NEW q \in 0..(A - 1), NEW r \in 0..(B - 1)
      PROVE  /\ q * B + r \in 0..(A * B - 1)
             /\ (q * B + r) \div B = q /\ (q * B + r) % B = r
  <2> DEFINE d == A - 1 - q
  <2>1. d \in Nat /\ A = q + 1 + d
    OBVIOUS
  <2>2. (q + 1 + d) * B = q * B + B + d * B /\ d * B \in Nat /\ q * B \in Nat
    BY <2>1
  <2>3. q * B + r \in 0..(A * B - 1)
    BY <2>1, <2>2
  <2> QED
    BY <2>3, DivideBack
<1>3. ASSUME NEW x \in 0..(A * B - 1)
      PROVE  /\ x \div B \in 0..(A - 1) /\ x % B \in 0..(B - 1)
             /\ x = (x \div B) * B + (x % B)
  <2> DEFINE q == x \div B
             r == x % B
  <2>0. x \in Nat
    BY <1>1
  <2>1. q \in Nat /\ r \in Nat /\ r < B /\ x = B * q + r
    BY <2>0, Divides
  <2> HIDE DEF q, r
  <2>2. ~(A <= q)
    <3> SUFFICES ASSUME A <= q PROVE FALSE
      OBVIOUS
    <3> DEFINE d == q - A
    <3>1. d \in Nat /\ q = A + d
      BY <2>1
    <3>2. B * (A + d) = A * B + B * d /\ B * d \in Nat
      BY <3>1
    <3> QED
      BY <1>1, <2>1, <3>1, <3>2
  <2>3. q \in 0..(A - 1) /\ r \in 0..(B - 1) /\ x = q * B + r
    BY <2>1, <2>2
  <2> QED
    BY <2>3 DEF q, r
<1> QED
  BY <1>1, <1>2, <1>3

-----------------------------------------------------------------------------
\* The shape of a launch.

LEMMA ConfigFacts ==
    ASSUME cfg \in Configs
    PROVE  /\ cfg.rows \in Nat \ {0} /\ cfg.cols \in Nat \ {0} /\ cfg.chunk_tiles \in Nat \ {0}
           /\ cfg.devices \in Nat \ {0} /\ cfg.device_chunk_tiles \in Nat \ {0}
           /\ cfg.num_blocks \in Nat \ {0} /\ cfg.num_inter \in Nat /\ cfg.num_inter >= 2
           /\ cfg.send_sms \in Nat /\ cfg.slot_rows \in Nat \ {0} /\ cfg.window \in Nat \ {0}
           /\ cfg.multimem \in BOOLEAN /\ cfg.early \in BOOLEAN
  BY ConfigAssumption

\* Rows are cut into chunks of ChunkTiles tiles, the last one shorter.
LEMMA RowChunks ==
    ASSUME cfg \in Configs
    PROVE  /\ ChunkTiles \in Nat \ {0} /\ ChunkTiles <= cfg.cols
           /\ ChunksPerRow \in Nat \ {0}
           /\ (ChunksPerRow - 1) * ChunkTiles < cfg.cols
           /\ cfg.cols <= ChunksPerRow * ChunkTiles
<1> DEFINE t == ChunkTiles
           n == cfg.cols
           k == ChunksPerRow
<1>1. t \in Nat \ {0} /\ t <= n /\ n \in Nat \ {0}
  <2>1. cfg.chunk_tiles \in Nat \ {0} /\ n \in Nat \ {0}
    BY ConfigFacts
  <2>2. \A a, b \in Int : Min({a, b}) = IF a <= b THEN a ELSE b
    BY MaxMin
  <2>3. Min({cfg.chunk_tiles, cfg.cols}) = IF cfg.chunk_tiles <= n THEN cfg.chunk_tiles ELSE n
    BY <2>1, <2>2
  <2> QED
    BY <2>1, <2>3 DEF ChunkTiles
<1>2. k = (n + t - 1) \div t
  BY DEF ChunksPerRow
<1> DEFINE a == n + t - 1
           r == a % t
<1> HIDE DEF t, n, k
<1>0. a \in Nat
  BY <1>1
<1> HIDE DEF a
<1>3. k \in Nat /\ r \in Nat /\ r < t /\ a = t * k + r
  <2>1. k = a \div t
    BY <1>2 DEF a
  <2> QED
    BY <1>0, <1>1, <2>1, Divides
<1> USE DEF a
<1>4. k # 0
  BY <1>1, <1>3
<1>5. (k - 1) * t = t * k - t /\ k * t = t * k
  BY <1>1, <1>3
<1>6. (k - 1) * t < n /\ n <= k * t
  BY <1>1, <1>3, <1>5
<1> QED
  BY <1>1, <1>3, <1>4, <1>6 DEF t, n, k

LEMMA Numbers ==
    ASSUME cfg \in Configs
    PROVE  /\ TotalChunks \in Nat \ {0} /\ Chunks = 0..(TotalChunks - 1)
           /\ IsFiniteSet(Chunks) /\ Cardinality(Chunks) = TotalChunks
           /\ IsFiniteSet(Tiles) /\ IsFiniteSet(Tasks)
           /\ IsFiniteSet(Gpus) /\ Cardinality(Gpus) = cfg.devices
           /\ Chunks \subseteq Nat /\ Tiles \subseteq Nat /\ Tasks \subseteq Nat
           /\ Gpus \subseteq Nat
<1>1. TotalChunks \in Nat \ {0}
  BY ConfigFacts, RowChunks, TwoDigits DEF TotalChunks
<1>2. cfg.rows * cfg.cols \in Nat \ {0}
  BY ConfigFacts, TwoDigits
<1>3. cfg.devices * cfg.rows \in Nat \ {0}
  BY ConfigFacts, TwoDigits
<1>4. cfg.devices * cfg.rows * cfg.cols \in Nat \ {0}
  BY <1>3, ConfigFacts, TwoDigits
<1>5. IsFiniteSet(Chunks) /\ Cardinality(Chunks) = TotalChunks
  BY <1>1, FS_Interval DEF Chunks
<1>6. IsFiniteSet(Tiles) /\ Tiles \subseteq Nat
  <2> DEFINE x == cfg.rows * cfg.cols
  <2>1. Tiles = 0..(x - 1) /\ x \in Nat \ {0}
    BY <1>2 DEF Tiles
  <2> HIDE DEF x
  <2> QED
    BY <2>1, FS_Interval
<1>7. IsFiniteSet(Tasks) /\ Tasks \subseteq Nat
  <2> DEFINE x == cfg.devices * cfg.rows * cfg.cols
  <2>1. Tasks = 0..(x - 1) /\ x \in Nat \ {0}
    BY <1>4 DEF Tasks
  <2> HIDE DEF x
  <2> QED
    BY <2>1, FS_Interval
<1>8. IsFiniteSet(Gpus) /\ Cardinality(Gpus) = cfg.devices /\ Gpus \subseteq Nat
  <2> DEFINE b == cfg.devices - 1
  <2>1. Gpus = 0..b /\ b \in Nat /\ b - 0 + 1 = cfg.devices
    BY ConfigFacts DEF Gpus
  <2> HIDE DEF b
  <2> QED
    BY <2>1, FS_Interval
<1>9. Chunks = 0..(TotalChunks - 1) /\ Chunks \subseteq Nat
  BY <1>1 DEF Chunks
<1> QED
  BY <1>1, <1>5, <1>6, <1>7, <1>8, <1>9

\* There is a reduce CTA, and there is a peer.
LEMMA ReducerFacts ==
    ASSUME cfg \in Configs
    PROVE  /\ NumReduce \in Nat \ {0} /\ 0 \in Reducers /\ Reducers = 0..(NumReduce - 1)
           /\ Peers # {} /\ IsFiniteSet(Peers) /\ Cardinality(Peers) = cfg.nodes - 1
<1> DEFINE asked == IF cfg.send_sms > 0 THEN cfg.send_sms ELSE cfg.num_inter \div 2
           n == cfg.num_inter
<1>1. asked \in Nat /\ n \in Nat /\ n >= 2 /\ cfg.rows \in Nat \ {0}
  BY ConfigFacts, Divides
<1> HIDE DEF asked
<1>2. \A a, b \in Int : Min({a, b}) = IF a <= b THEN a ELSE b
  BY MaxMin
<1>3. \A a, b \in Int : Max({a, b}) = IF a >= b THEN a ELSE b
  BY MaxMin
<1> DEFINE x == Min({n - 1, asked})
           y == Max({1, x})
<1>4. x \in Nat /\ x <= n - 1
  BY <1>1, <1>2
<1>5. y \in Nat \ {0} /\ y <= n - 1
  <2> HIDE DEF x
  <2> QED
    BY <1>1, <1>3, <1>4
<1>6. NumSend = Min({cfg.rows, y})
  BY DEF NumSend, asked
<1> HIDE DEF y
<1>7. NumSend \in Nat \ {0} /\ NumSend <= n - 1
  BY <1>1, <1>2, <1>5, <1>6
<1>8. NumReduce \in Nat \ {0}
  BY <1>1, <1>7 DEF NumReduce
<1>9. cfg.nodes \in Nat \ {0, 1}
  BY ConfigAssumption
<1>10. IsFiniteSet(Peers) /\ Cardinality(Peers) = cfg.nodes - 1 /\ 0 \in Peers
  <2> DEFINE b == cfg.nodes - 2
  <2>1. Peers = 0..b /\ b \in Nat /\ b - 0 + 1 = cfg.nodes - 1
    BY <1>9 DEF Peers
  <2> HIDE DEF b
  <2> QED
    BY <2>1, FS_Interval
<1> QED
  BY <1>8, <1>10 DEF Reducers

-----------------------------------------------------------------------------
\* Chunks, tiles and tasks.

LEMMA TileChunk ==
    ASSUME cfg \in Configs, NEW t \in Tiles
    PROVE  /\ t \div cfg.cols \in 0..(cfg.rows - 1) /\ t % cfg.cols \in 0..(cfg.cols - 1)
           /\ t = (t \div cfg.cols) * cfg.cols + (t % cfg.cols)
           /\ (t % cfg.cols) \div ChunkTiles \in 0..(ChunksPerRow - 1)
           /\ ChunkOf(t) \in Chunks
           /\ ChunkOf(t) \div ChunksPerRow = t \div cfg.cols
           /\ ChunkOf(t) % ChunksPerRow = (t % cfg.cols) \div ChunkTiles
<1> DEFINE R == cfg.rows
           n == cfg.cols
           T == ChunkTiles
           k == ChunksPerRow
           row == t \div n
           col == t % n
           j == col \div T
<1>1. /\ R \in Nat \ {0} /\ n \in Nat \ {0} /\ T \in Nat \ {0} /\ k \in Nat \ {0}
      /\ n <= k * T
  BY ConfigFacts, RowChunks
<1>2. t \in 0..(R * n - 1) /\ Chunks = 0..(R * k - 1) /\ ChunkOf(t) = row * k + j
  BY DEF Tiles, Chunks, TotalChunks, ChunkOf
<1> HIDE DEF R, n, T, k
<1>3. row \in 0..(R - 1) /\ col \in 0..(n - 1) /\ t = row * n + col
  BY <1>1, <1>2, TwoDigits
<1> HIDE DEF row, col
<1>4. col \in 0..(k * T - 1)
  <2>1. k * T \in Nat
    BY <1>1
  <2> QED
    BY <1>1, <1>3, <2>1
<1>5. j \in 0..(k - 1)
  BY <1>1, <1>4, TwoDigits
<1> HIDE DEF j
<1>6. row * k + j \in 0..(R * k - 1) /\ (row * k + j) \div k = row /\ (row * k + j) % k = j
  BY <1>1, <1>3, <1>5, TwoDigits
<1> QED
  BY <1>2, <1>3, <1>5, <1>6 DEF R, n, T, k, row, col, j

\* A chunk has at least one tile, all in its row.
LEMMA ChunkTilesFit ==
    ASSUME cfg \in Configs, NEW ch \in Chunks
    PROVE  /\ ch \div ChunksPerRow \in 0..(cfg.rows - 1)
           /\ ch % ChunksPerRow \in 0..(ChunksPerRow - 1)
           /\ ch = (ch \div ChunksPerRow) * ChunksPerRow + (ch % ChunksPerRow)
           /\ (ch % ChunksPerRow) * ChunkTiles \in Nat
           /\ TilesOf(ch) \in Nat \ {0}
           /\ TilesOf(ch) = IF ChunkTiles <= cfg.cols - (ch % ChunksPerRow) * ChunkTiles
                              THEN ChunkTiles ELSE cfg.cols - (ch % ChunksPerRow) * ChunkTiles
           /\ (ch % ChunksPerRow) * ChunkTiles + TilesOf(ch) <= cfg.cols
<1> DEFINE t == ChunkTiles
           n == cfg.cols
           k == ChunksPerRow
           R == cfg.rows
           row == ch \div k
           j == ch % k
<1>1. /\ t \in Nat \ {0} /\ k \in Nat \ {0} /\ n \in Nat \ {0} /\ R \in Nat \ {0}
      /\ (k - 1) * t < n
  BY ConfigFacts, RowChunks
<1>2. ch \in 0..(R * k - 1)
  BY DEF Chunks, TotalChunks
<1>3. TilesOf(ch) = Min({t, n - j * t})
  BY DEF TilesOf
<1> HIDE DEF t, n, k, R
<1>4. row \in 0..(R - 1) /\ j \in 0..(k - 1) /\ ch = row * k + j
  BY <1>1, <1>2, TwoDigits
<1> HIDE DEF row, j
<1>6. j * t \in Nat /\ j * t < n
  <2> DEFINE d == k - 1 - j
  <2>1. d \in Nat /\ k - 1 = j + d
    BY <1>1, <1>4
  <2>2. (j + d) * t = j * t + d * t /\ d * t \in Nat /\ j * t \in Nat
    BY <1>1, <1>4, <2>1
  <2> QED
    BY <1>1, <2>1, <2>2
<1>7. TilesOf(ch) = IF t <= n - j * t THEN t ELSE n - j * t
  <2> DEFINE m == n - j * t
  <2>1. m \in Int
    BY <1>1, <1>6
  <2> HIDE DEF m
  <2>2. Min({t, m}) = IF t <= m THEN t ELSE m
    BY <1>1, <2>1, MaxMin
  <2> QED
    BY <1>3, <2>2 DEF m
<1>8. TilesOf(ch) \in Nat \ {0} /\ j * t + TilesOf(ch) <= n
  BY <1>1, <1>6, <1>7
<1> QED
  BY <1>4, <1>6, <1>7, <1>8 DEF t, n, k, R, row, j

\* The columns of a chunk, and its tiles.
FirstCol(ch) == (ch % ChunksPerRow) * ChunkTiles
ColsOf(ch) == FirstCol(ch)..(FirstCol(ch) + TilesOf(ch) - 1)

LEMMA ColsAre ==
    ASSUME cfg \in Configs, NEW ch \in Chunks
    PROVE  /\ \A c \in ColsOf(ch) : c \in 0..(cfg.cols - 1) /\ c \div ChunkTiles = ch % ChunksPerRow
           /\ \A c \in 0..(cfg.cols - 1) : c \div ChunkTiles = ch % ChunksPerRow => c \in ColsOf(ch)
<1> DEFINE T == ChunkTiles
           n == cfg.cols
           j == ch % ChunksPerRow
           m == TilesOf(ch)
           a == j * T
<1>1. /\ T \in Nat \ {0} /\ n \in Nat \ {0} /\ j \in Nat /\ m \in Nat \ {0} /\ a \in Nat
      /\ a + m <= n /\ m = IF T <= n - a THEN T ELSE n - a
  <2>1. T \in Nat \ {0} /\ n \in Nat \ {0} /\ ChunksPerRow \in Nat \ {0}
    BY ConfigFacts, RowChunks
  <2> QED
    BY <2>1, ChunkTilesFit
<1>2. ColsOf(ch) = a..(a + m - 1)
  BY DEF ColsOf, FirstCol
<1> HIDE DEF T, n, j, m
<1>3. ASSUME NEW c \in a..(a + m - 1) PROVE c \in 0..(n - 1) /\ c \div T = j
  <2> DEFINE r == c - a
  <2>1. r \in Nat /\ r < T /\ c = a + r /\ c \in 0..(n - 1)
    BY <1>1
  <2> HIDE DEF r
  <2>2. (j * T + r) \div T = j
    BY <1>1, <2>1, DivideBack
  <2> QED
    BY <2>1, <2>2
<1>4. ASSUME NEW c \in 0..(n - 1), c \div T = j PROVE c \in a..(a + m - 1)
  <2> DEFINE r == c % T
  <2>1. r \in Nat /\ r < T /\ c = T * j + r
    BY <1>1, <1>4, Divides
  <2> HIDE DEF r
  <2>2. T * j = a
    BY <1>1
  <2> QED
    BY <1>1, <2>1, <2>2
<1> QED
  BY <1>2, <1>3, <1>4 DEF T, n, j

LEMMA TilesInAre ==
    ASSUME cfg \in Configs, NEW ch \in Chunks
    PROVE  TilesIn(ch) = {(ch \div ChunksPerRow) * cfg.cols + c : c \in ColsOf(ch)}
<1> DEFINE n == cfg.cols
           row == ch \div ChunksPerRow
           S == {row * n + c : c \in ColsOf(ch)}
<1>1. /\ n \in Nat \ {0} /\ cfg.rows \in Nat \ {0} /\ row \in 0..(cfg.rows - 1)
      /\ ChunksPerRow \in Nat \ {0} /\ ch % ChunksPerRow \in 0..(ChunksPerRow - 1)
      /\ ch = row * ChunksPerRow + (ch % ChunksPerRow)
  BY ConfigFacts, RowChunks, ChunkTilesFit
<1>2. ASSUME NEW t \in TilesIn(ch) PROVE t \in S
  <2>1. t \in Tiles /\ ChunkOf(t) = ch
    BY DEF TilesIn
  <2>2. /\ t \div n = row /\ t % n \in 0..(n - 1) /\ (t % n) \div ChunkTiles = ch % ChunksPerRow
        /\ t = row * n + (t % n)
    BY <2>1, TileChunk
  <2>3. t % n \in ColsOf(ch)
    BY <2>2, ColsAre
  <2> QED
    BY <2>2, <2>3
<1>3. ASSUME NEW c \in ColsOf(ch) PROVE row * n + c \in TilesIn(ch)
  <2>1. c \in 0..(n - 1) /\ c \div ChunkTiles = ch % ChunksPerRow
    BY ColsAre
  <2> DEFINE t == row * n + c
  <2>2. t \in 0..(cfg.rows * n - 1) /\ t \div n = row /\ t % n = c
    <3> DEFINE A == cfg.rows
    <3> HIDE DEF n, row, A
    <3>1. A \in Nat \ {0} /\ n \in Nat \ {0} /\ row \in 0..(A - 1)
      BY <1>1 DEF A
    <3>2. row * n + c \in 0..(A * n - 1) /\ (row * n + c) \div n = row /\ (row * n + c) % n = c
      BY <2>1, <3>1, TwoDigits
    <3> QED
      BY <3>2 DEF A
  <2> HIDE DEF row
  <2>3. t \in Tiles /\ ChunkOf(t) = row * ChunksPerRow + (ch % ChunksPerRow)
    BY <2>1, <2>2 DEF Tiles, ChunkOf
  <2> QED
    BY <1>1, <2>3 DEF TilesIn
<1> QED
  BY <1>2, <1>3

LEMMA TilesInCount ==
    ASSUME cfg \in Configs, NEW ch \in Chunks
    PROVE  /\ IsFiniteSet(TilesIn(ch)) /\ Cardinality(TilesIn(ch)) = TilesOf(ch)
           /\ TilesOf(ch) \in Nat \ {0} /\ TilesIn(ch) # {} /\ TilesIn(ch) \subseteq Tiles
<1> DEFINE x == (ch \div ChunksPerRow) * cfg.cols
           f == [c \in ColsOf(ch) |-> x + c]
           a == FirstCol(ch)
           b == a + TilesOf(ch) - 1
<1>1. a \in Nat /\ TilesOf(ch) \in Nat \ {0} /\ x \in Nat
  <2>1. ch \div ChunksPerRow \in Nat /\ cfg.cols \in Nat
    BY ConfigFacts, ChunkTilesFit
  <2> QED
    BY <2>1, ChunkTilesFit DEF FirstCol
<1>2. ColsOf(ch) = a..b
  BY DEF ColsOf
<1>3. b \in Int /\ b - a + 1 = TilesOf(ch) /\ a <= b
  BY <1>1
<1> HIDE DEF x, a, b
<1>4. IsFiniteSet(ColsOf(ch)) /\ Cardinality(ColsOf(ch)) = TilesOf(ch)
  BY <1>1, <1>2, <1>3, FS_Interval
<1>5. f \in Bijection(ColsOf(ch), TilesIn(ch))
  <2>1. \A c \in ColsOf(ch) : f[c] = x + c /\ c \in Int
    BY <1>1, <1>2, <1>3
  <2>2. TilesIn(ch) = {x + c : c \in ColsOf(ch)}
    BY TilesInAre DEF x
  <2>3. f \in [ColsOf(ch) -> TilesIn(ch)]
    BY <2>2
  <2>4. \A c, d \in ColsOf(ch) : f[c] = f[d] => c = d
    <3> SUFFICES ASSUME NEW c \in ColsOf(ch), NEW d \in ColsOf(ch), f[c] = f[d] PROVE c = d
      OBVIOUS
    <3>1. x + c = x + d /\ c \in Int /\ d \in Int
      BY <2>1
    <3> QED
      BY <1>1, <3>1
  <2>5. \A t \in TilesIn(ch) : \E c \in ColsOf(ch) : f[c] = t
    BY <2>1, <2>2
  <2> HIDE DEF f
  <2> QED
    BY <2>3, <2>4, <2>5 DEF Bijection, Injection, Surjection, IsInjective
<1>6. IsFiniteSet(TilesIn(ch)) /\ Cardinality(TilesIn(ch)) = TilesOf(ch)
  BY <1>4, <1>5, FS_Bijection DEF ExistsBijection
<1>7. TilesIn(ch) # {}
  BY <1>1, <1>6, FS_EmptySet
<1> QED
  BY <1>1, <1>6, <1>7 DEF TilesIn

\* What the device decodes is what the host counts.
LEMMA DecodeIs ==
    ASSUME cfg \in Configs, SameLayout, NEW ch \in Chunks
    PROVE  Decode(ch) = TilesIn(ch)
<1>1. DeviceChunksPerRow = ChunksPerRow
  BY DEF DeviceChunksPerRow, ChunksPerRow, ChunkTiles, SameLayout
<1>2. TilesOf(ch) = Min({ChunkTiles, cfg.cols - FirstCol(ch)})
  BY DEF TilesOf, FirstCol
<1>3. Decode(ch) = {(ch \div ChunksPerRow) * cfg.cols + c : c \in ColsOf(ch)}
  BY <1>1, <1>2 DEF Decode, ColsOf, FirstCol
<1> QED
  BY <1>3, TilesInAre

\* A task is a tile of a slice, and every tile of every slice is one.
LEMMA TaskParts ==
    ASSUME cfg \in Configs, NEW k \in Tasks
    PROVE  /\ SliceOf(k) \in Gpus /\ TileOf(k) \in Tiles
           /\ k = (TileOf(k) \div cfg.cols) * (cfg.devices * cfg.cols)
                    + (SliceOf(k) * cfg.cols + (TileOf(k) % cfg.cols))
<1> DEFINE D == cfg.devices
           R == cfg.rows
           n == cfg.cols
           N == D * n
           row == k \div N
           x == k % N
           s == x \div n
           c == x % n
<1>1. D \in Nat \ {0} /\ R \in Nat \ {0} /\ n \in Nat \ {0}
  BY ConfigFacts
<1>2. k \in 0..(D * R * n - 1) /\ Gpus = 0..(D - 1) /\ Tiles = 0..(R * n - 1)
      /\ SliceOf(k) = s /\ TileOf(k) = row * n + (k % n)
  BY DEF Tasks, Gpus, Tiles, SliceOf, TileOf
<1> HIDE DEF D, R, n
<1>3. N \in Nat \ {0} /\ D * R * n = R * N
  BY <1>1
<1> HIDE DEF N
<1>4. row \in 0..(R - 1) /\ x \in 0..(N - 1) /\ k = row * N + x
  BY <1>1, <1>2, <1>3, TwoDigits
<1> HIDE DEF row, x
<1>5. s \in 0..(D - 1) /\ c \in 0..(n - 1) /\ x = s * n + c
  BY <1>1, <1>4, TwoDigits DEF N
<1> HIDE DEF s, c
<1>6. k % n = c
  <2> DEFINE q == row * D + s
  <2>1. q \in Nat /\ q * n + c = k
    <3>1. row * D \in Nat /\ (row * D) * n = row * (D * n)
      BY <1>1, <1>4
    <3> DEFINE y == row * D
    <3>2. y \in Nat /\ y * n = row * N
      BY <3>1 DEF N
    <3> HIDE DEF y
    <3>3. (y + s) * n = y * n + s * n
      BY <1>1, <1>5, <3>2
    <3>4. row * N \in Nat /\ s * n \in Nat
      BY <1>1, <1>3, <1>4, <1>5
    <3>5. q = y + s
      BY DEF y
    <3> QED
      BY <1>4, <1>5, <3>2, <3>3, <3>4, <3>5
  <2> HIDE DEF q
  <2>2. (q * n + c) % n = c
    BY <1>1, <1>5, <2>1, DivideBack
  <2> QED
    BY <2>1, <2>2
<1>7. row * n + c \in 0..(R * n - 1) /\ (row * n + c) \div n = row /\ (row * n + c) % n = c
  BY <1>1, <1>4, <1>5, TwoDigits
<1>8. k = row * N + (s * n + c)
  BY <1>4, <1>5
<1> QED
  BY <1>2, <1>5, <1>6, <1>7, <1>8 DEF N, D, R, n

LEMMA TaskExists ==
    ASSUME cfg \in Configs, NEW g \in Gpus, NEW t \in Tiles
    PROVE  \E k \in Tasks : SliceOf(k) = g /\ TileOf(k) = t
<1> DEFINE D == cfg.devices
           R == cfg.rows
           n == cfg.cols
           N == D * n
           row == t \div n
           c == t % n
           x == g * n + c
           k == row * N + x
<1>1. D \in Nat \ {0} /\ R \in Nat \ {0} /\ n \in Nat \ {0}
  BY ConfigFacts
<1>2. row \in 0..(R - 1) /\ c \in 0..(n - 1) /\ t = row * n + c
  BY TileChunk
<1>3. Tasks = 0..(D * R * n - 1) /\ g \in 0..(D - 1)
      /\ SliceOf(k) = (k % N) \div n /\ TileOf(k) = (k \div N) * n + (k % n)
  BY DEF Tasks, Gpus, SliceOf, TileOf
<1> HIDE DEF D, R, n, row, c
<1>4. N \in Nat \ {0} /\ D * R * n = R * N
  BY <1>1
<1>5. x \in 0..(N - 1) /\ x \div n = g
  <2>0. g \in 0..(D - 1) /\ c \in 0..(n - 1)
    BY <1>2, <1>3
  <2>1. /\ g * n + c \in 0..(D * n - 1)
        /\ (g * n + c) \div n = g
    BY <1>1, <2>0, TwoDigits
  <2> QED
    BY <2>1
<1> HIDE DEF N
<1>9. (row * D + g) * n + c = k /\ row * D + g \in Nat
  <2>1. row * D \in Nat /\ (row * D) * n = row * (D * n)
    BY <1>1, <1>2
  <2> DEFINE y == row * D
  <2>2. y \in Nat /\ y * n = row * N
    BY <2>1 DEF N
  <2> HIDE DEF y
  <2>3. (y + g) * n = y * n + g * n
    BY <1>1, <1>3, <2>2
  <2>4. row * N \in Nat /\ g * n \in Nat
    BY <1>1, <1>2, <1>3, <1>4
  <2>5. k = row * N + (g * n + c) /\ row * D + g = y + g
    BY DEF y
  <2> HIDE DEF k
  <2> QED
    BY <1>2, <1>3, <2>2, <2>3, <2>4, <2>5
<1> HIDE DEF x
<1>6. k \in 0..(R * N - 1) /\ k \div N = row /\ k % N = x
  BY <1>1, <1>2, <1>4, <1>5, TwoDigits
<1>7. k % n = c
  <2> DEFINE q == row * D + g
  <2>1. q \in Nat /\ q * n + c = k
    BY <1>9
  <2> HIDE DEF q, k
  <2>3. n \in Nat \ {0} /\ c \in Nat /\ c < n
    BY <1>1, <1>2
  <2>2. (q * n + c) % n = c
    BY <2>1, <2>3, DivideBack
  <2> QED
    BY <2>1, <2>2
<1> HIDE DEF k
<1>8. SliceOf(k) = g /\ TileOf(k) = t
  BY <1>2, <1>3, <1>5, <1>6, <1>7
<1> QED
  BY <1>3, <1>4, <1>6, <1>8

LEMMA TasksInCount ==
    ASSUME cfg \in Configs, NEW w \in Gpus \X Chunks
    PROVE  IsFiniteSet(TasksIn(w)) /\ Cardinality(TasksIn(w)) = TilesOf(w[2])
<1> DEFINE f == [k \in TasksIn(w) |-> TileOf(k)]
<1>1. w[1] \in Gpus /\ w[2] \in Chunks
  OBVIOUS
<1>2. \A k \in TasksIn(w) : /\ k \in Tasks /\ SliceOf(k) = w[1] /\ TileOf(k) \in TilesIn(w[2])
                            /\ f[k] = TileOf(k)
  BY TaskParts DEF TasksIn, TilesIn
<1>3. \A k, l \in TasksIn(w) : f[k] = f[l] => k = l
  <2> SUFFICES ASSUME NEW k \in TasksIn(w), NEW l \in TasksIn(w), TileOf(k) = TileOf(l)
               PROVE  k = l
    BY <1>2
  <2>1. k = (TileOf(k) \div cfg.cols) * (cfg.devices * cfg.cols)
              + (SliceOf(k) * cfg.cols + (TileOf(k) % cfg.cols))
    BY <1>2, TaskParts
  <2>2. l = (TileOf(l) \div cfg.cols) * (cfg.devices * cfg.cols)
              + (SliceOf(l) * cfg.cols + (TileOf(l) % cfg.cols))
    BY <1>2, TaskParts
  <2> QED
    BY <1>2, <2>1, <2>2
<1>4. \A t \in TilesIn(w[2]) : \E k \in TasksIn(w) : f[k] = t
  <2> SUFFICES ASSUME NEW t \in TilesIn(w[2]) PROVE \E k \in TasksIn(w) : TileOf(k) = t
    BY <1>2
  <2>1. t \in Tiles /\ ChunkOf(t) = w[2]
    BY DEF TilesIn
  <2>2. PICK k \in Tasks : SliceOf(k) = w[1] /\ TileOf(k) = t
    BY <1>1, <2>1, TaskExists
  <2> QED
    BY <2>1, <2>2 DEF TasksIn
<1>5. f \in [TasksIn(w) -> TilesIn(w[2])]
  BY <1>2
<1> HIDE DEF f
<1>6. f \in Bijection(TasksIn(w), TilesIn(w[2]))
  BY <1>3, <1>4, <1>5 DEF Bijection, Injection, Surjection, IsInjective
<1>7. IsFiniteSet(TasksIn(w))
  <2>1. TasksIn(w) \subseteq Tasks
    BY DEF TasksIn
  <2> QED
    BY <2>1, Numbers, FS_Subset
<1>8. Cardinality(TasksIn(w)) = Cardinality(TilesIn(w[2]))
  BY <1>6, <1>7, FS_Bijection DEF ExistsBijection
<1> QED
  BY <1>1, <1>7, <1>8, TilesInCount

\* A CTA that goes on by the number of the reduce CTAs stays with the chunks that are its own.
LEMMA StrideStays ==
    ASSUME NEW m \in Nat \ {0}, NEW r \in 0..(m - 1), NEW s \in Nat, s % m = r
    PROVE  /\ (s + m) % m = r
           /\ \A ch \in Nat : ch % m = r /\ ch < s + m => ch <= s
<1>1. s \div m \in Nat /\ s = m * (s \div m) + r
  BY Divides
<1> DEFINE q == s \div m
<1>2. q \in Nat /\ s = m * q + r
  BY <1>1
<1> HIDE DEF q
<1>3. (q + 1) * m + r = s + m
  BY <1>2
<1>4. (s + m) % m = r
  <2> DEFINE p == q + 1
  <2>1. p \in Nat /\ p * m + r = s + m
    BY <1>2, <1>3
  <2> HIDE DEF p
  <2> QED
    BY <2>1, DivideBack
<1>5. ASSUME NEW ch \in Nat, ch % m = r, ch < s + m PROVE ch <= s
  <2> DEFINE c == ch \div m
  <2>1. c \in Nat /\ ch = m * c + r
    BY <1>5, Divides
  <2> HIDE DEF c
  <2>2. ~(q < c)
    <3> SUFFICES ASSUME q < c PROVE FALSE
      OBVIOUS
    <3> DEFINE d == c - q - 1
    <3>1. d \in Nat /\ c = q + 1 + d
      BY <1>2, <2>1
    <3>2. m * (q + 1 + d) = m * q + m + m * d /\ m * d \in Nat /\ m * q \in Nat
      BY <1>2, <3>1
    <3> QED
      BY <1>2, <1>5, <2>1, <3>1, <3>2
  <2>3. m * c <= m * q
    <3> DEFINE d == q - c
    <3>1. d \in Nat /\ q = c + d
      BY <1>2, <2>1, <2>2
    <3>2. m * (c + d) = m * c + m * d /\ m * d \in Nat /\ m * c \in Nat
      BY <2>1, <3>1
    <3> QED
      BY <3>1, <3>2
  <2> QED
    BY <1>2, <2>1, <2>3
<1> QED
  BY <1>4, <1>5

-----------------------------------------------------------------------------
\* Steps.

\* The launch does not change, nor what is computed from it.
LEMMA LaunchStays ==
    ASSUME cfg' = cfg
    PROVE  /\ Gpus' = Gpus /\ Peers' = Peers /\ Chunks' = Chunks /\ Tiles' = Tiles
           /\ Tasks' = Tasks /\ Queues' = Queues /\ Reducers' = Reducers
           /\ TotalChunks' = TotalChunks /\ NumReduce' = NumReduce
           /\ Words' = Words /\ Sums' = Sums /\ Results' = Results
           /\ (Static' <=> Static)
<1>1. ChunkTiles' = ChunkTiles
  BY DEF ChunkTiles
<1>2. ChunksPerRow' = ChunksPerRow
  BY <1>1 DEF ChunksPerRow
<1>3. TotalChunks' = TotalChunks
  BY <1>2 DEF TotalChunks
<1>4. Chunks' = Chunks
  BY <1>3 DEF Chunks
<1>5. NumSend' = NumSend
  BY DEF NumSend
<1>6. NumReduce' = NumReduce
  BY <1>5 DEF NumReduce
<1>7. Gpus' = Gpus /\ Peers' = Peers /\ Tiles' = Tiles /\ Tasks' = Tasks /\ Queues' = Queues
  BY DEF Gpus, Peers, Tiles, Tasks, Queues
<1>8. Sums' = Sums
  BY <1>7 DEF Sums
<1>9. Results' = Results
  BY <1>7, <1>8 DEF Results
<1> QED
  BY <1>3, <1>4, <1>6, <1>7, <1>8, <1>9 DEF Words, Reducers, Static

LEMMA LayoutStays ==
    ASSUME cfg' = cfg
    PROVE  /\ \A k : SliceOf(k)' = SliceOf(k) /\ TileOf(k)' = TileOf(k)
           /\ \A t : ChunkOf(t)' = ChunkOf(t)
           /\ \A ch : TilesOf(ch)' = TilesOf(ch) /\ TilesIn(ch)' = TilesIn(ch)
           /\ \A w : TasksIn(w)' = TasksIn(w)
           /\ \A e : Whole(e)' = Whole(e) /\ Sum(e)' = Sum(e)
<1>1. ChunkTiles' = ChunkTiles
  BY DEF ChunkTiles
<1>2. ChunksPerRow' = ChunksPerRow
  BY <1>1 DEF ChunksPerRow
<1>3. \A k : SliceOf(k)' = SliceOf(k) /\ TileOf(k)' = TileOf(k)
  BY DEF SliceOf, TileOf
<1>4. \A t : ChunkOf(t)' = ChunkOf(t)
  BY <1>1, <1>2 DEF ChunkOf
<1>5. \A ch : TilesOf(ch)' = TilesOf(ch)
  BY <1>1, <1>2 DEF TilesOf
<1>6. \A ch : TilesIn(ch)' = TilesIn(ch)
  BY <1>4, LaunchStays DEF TilesIn
<1>7. \A w : TasksIn(w)' = TasksIn(w)
  BY <1>3, <1>4, LaunchStays DEF TasksIn
<1>8. \A e : Whole(e)' = Whole(e)
  BY LaunchStays DEF Whole
<1>9. \A e : Sum(e)' = Sum(e)
  BY <1>8, LaunchStays DEF Sum
<1> QED
  BY <1>3, <1>4, <1>5, <1>6, <1>7, <1>8, <1>9

Step(g) == Gpu(g) \/ Outside(g)

\* The actions of a step, by name.
LEMMA StepCases ==
    ASSUME NEW g \in Gpus, Step(g)
    PROVE  \/ \E k \in Tasks : Compute(g, k)
           \/ \E t \in Tiles : SumTile(g, t)
           \/ \E t \in Tiles : CountTile(g, t)
           \/ \E ch \in Chunks : SendChunk(g, ch)
           \/ \E m \in posted[g] : NicReads(g, m)
           \/ \E p \in Peers : \E ch \in Chunks : PeerWrites(g, p, ch)
           \/ PeerRings(g)
           \/ \E q \in Queues : DrainWord(g, q)
           \/ \E r \in Reducers : ReduceStatic(g, r)
           \/ \E r \in Reducers : ReduceEarly(g, r)
           \/ \E r \in Reducers : ReduceClaimed(g, r)
           \/ \E r \in Reducers : ReduceEnds(g, r)
           \/ FinishSignals(g)
           \/ FinishSees(g)
           \/ \E r \in Reducers : FinishWaits(g, r)
           \/ \E r \in Reducers : ResetFlags(g, r)
           \/ BarrierOver(g)
           \/ Launch(g)
  BY DEF Step, Gpu, Outside

\* Which actions change what.
Reduces(g) == \E r \in Reducers : ReduceStatic(g, r) \/ ReduceEarly(g, r) \/ ReduceClaimed(g, r)
Moves(g) ==
    \/ \E r \in Reducers : ReduceEnds(g, r) \/ FinishWaits(g, r) \/ ResetFlags(g, r)
    \/ FinishSignals(g) \/ FinishSees(g) \/ BarrierOver(g)

Changes(g) ==
    /\ cfg' = cfg
    /\ UNCHANGED epoch \/ Launch(g)
    /\ UNCHANGED <<computed, comp_chunk_tiles_done, C>> \/ (\E k \in Tasks : Compute(g, k)) \/ Launch(g)
    /\ UNCHANGED barrier \/ (\E k \in Tasks : Compute(g, k)) \/ (\E t \in Tiles : CountTile(g, t))
    /\ UNCHANGED <<summed, counted, intra_chunk_tiles_done>>
         \/ (\E t \in Tiles : SumTile(g, t) \/ CountTile(g, t)) \/ Launch(g)
    /\ UNCHANGED staging \/ (\E t \in Tiles : SumTile(g, t))
    /\ UNCHANGED local_done_flag
         \/ (\E t \in Tiles : CountTile(g, t)) \/ (\E r \in Reducers : ReduceClaimed(g, r)) \/ Launch(g)
    /\ UNCHANGED <<issued, posted, sent>>
         \/ (\E ch \in Chunks : SendChunk(g, ch)) \/ (\E m \in posted[g] : NicReads(g, m)) \/ Launch(g)
    /\ UNCHANGED bell \/ PeerRings(g)
    /\ UNCHANGED recv \/ (\E p \in Peers : \E ch \in Chunks : PeerWrites(g, p, ch))
    /\ UNCHANGED words \/ (\E p \in Peers : \E ch \in Chunks : PeerWrites(g, p, ch))
         \/ (\E r \in Reducers : ResetFlags(g, r))
    /\ UNCHANGED rung \/ (\E r \in Reducers : ResetFlags(g, r))
    /\ UNCHANGED drain \/ (\E q \in Queues : DrainWord(g, q)) \/ Launch(g)
    /\ UNCHANGED at \/ Moves(g) \/ Launch(g)
    /\ UNCHANGED <<scan, published_chunks, final>> \/ Reduces(g) \/ Launch(g)
    /\ UNCHANGED reduce_cursor \/ (\E r \in Reducers : ReduceClaimed(g, r)) \/ Launch(g)
    /\ UNCHANGED accum \/ (\E r \in Reducers : ReduceEarly(g, r)) \/ Launch(g)
    /\ UNCHANGED final_slot \/ FinishSignals(g)
    /\ UNCHANGED final_publish_done \/ FinishSees(g) \/ Launch(g)

LEMMA WhoChanges ==
    ASSUME NEW g \in Gpus, Step(g)
    PROVE  Changes(g)
<1> USE DEF Changes, gemm, intra, send, net, drain, reduce, finish
<1>1. ASSUME NEW k \in Tasks, Compute(g, k) PROVE Changes(g)
  BY <1>1 DEF Compute
<1>2. ASSUME NEW t \in Tiles, SumTile(g, t) PROVE Changes(g)
  BY <1>2 DEF SumTile
<1>3. ASSUME NEW t \in Tiles, CountTile(g, t) PROVE Changes(g)
  BY <1>3 DEF CountTile
<1>4. ASSUME NEW ch \in Chunks, SendChunk(g, ch) PROVE Changes(g)
  BY <1>4 DEF SendChunk
<1>5. ASSUME NEW m \in posted[g], NicReads(g, m) PROVE Changes(g)
  BY <1>5 DEF NicReads
<1>6. ASSUME NEW p \in Peers, NEW ch \in Chunks, PeerWrites(g, p, ch) PROVE Changes(g)
  BY <1>6 DEF PeerWrites
<1>7. CASE PeerRings(g)
  BY <1>7 DEF PeerRings
<1>8. ASSUME NEW q \in Queues, DrainWord(g, q) PROVE Changes(g)
  BY <1>8 DEF DrainWord
<1>9. ASSUME NEW r \in Reducers, ReduceStatic(g, r) PROVE Changes(g)
  BY <1>9 DEF ReduceStatic, Reduces
<1>10. ASSUME NEW r \in Reducers, ReduceEarly(g, r) PROVE Changes(g)
  BY <1>10 DEF ReduceEarly, Reduces
<1>11. ASSUME NEW r \in Reducers, ReduceClaimed(g, r) PROVE Changes(g)
  BY <1>11 DEF ReduceClaimed, Reduces
<1>12. ASSUME NEW r \in Reducers, ReduceEnds(g, r) PROVE Changes(g)
  BY <1>12 DEF ReduceEnds, Moves
<1>13. CASE FinishSignals(g)
  BY <1>13 DEF FinishSignals, Moves
<1>14. CASE FinishSees(g)
  BY <1>14 DEF FinishSees, Moves
<1>15. ASSUME NEW r \in Reducers, FinishWaits(g, r) PROVE Changes(g)
  BY <1>15 DEF FinishWaits, Moves
<1>16. ASSUME NEW r \in Reducers, ResetFlags(g, r) PROVE Changes(g)
  BY <1>16 DEF ResetFlags, Moves
<1>17. CASE BarrierOver(g)
  BY <1>17 DEF BarrierOver, Moves
<1>18. CASE Launch(g)
  BY <1>18 DEF Launch
<1> QED
  BY <1>1, <1>2, <1>3, <1>4, <1>5, <1>6, <1>7, <1>8, <1>9, <1>10, <1>11, <1>12, <1>13, <1>14,
     <1>15, <1>16, <1>17, <1>18, StepCases

-----------------------------------------------------------------------------
\* Types.

LEMMA Update ==
    ASSUME NEW S, NEW T, NEW V, NEW f \in [S -> [T -> V]], NEW s \in S, NEW t, NEW v \in V
    PROVE  [f EXCEPT ![s][t] = v] \in [S -> [T -> V]]
<1>1. [f[s] EXCEPT ![t] = v] \in [T -> V]
  OBVIOUS
<1> QED
  BY <1>1

LEMMA LaunchTypesStep ==
    ASSUME TypeOK, NEW g \in Gpus, Step(g)
    PROVE  LaunchTypes'
<1>0. LaunchTypes /\ Changes(g) /\ cfg' = cfg
  BY WhoChanges DEF TypeOK, Changes
<1>1. Gpus' = Gpus /\ Chunks' = Chunks /\ Tiles' = Tiles /\ Tasks' = Tasks
  BY <1>0, LaunchStays
<1>2. cfg' \in Configs
  BY <1>0 DEF LaunchTypes
<1>3. epoch' \in [Gpus -> Nat \ {0}]
  <2>1. CASE Launch(g)
    BY <1>0, <2>1 DEF Launch, LaunchTypes
  <2> QED
    BY <1>0, <2>1 DEF Changes, LaunchTypes
<1>4. /\ computed' \in [Gpus -> SUBSET Tasks]
      /\ comp_chunk_tiles_done' \in [Gpus -> [Gpus \X Chunks -> Nat]]
      /\ C' \in [Gpus -> [Gpus \X Tiles -> Nat]]
  <2>1. ASSUME NEW k \in Tasks, Compute(g, k)
        PROVE  /\ computed' \in [Gpus -> SUBSET Tasks]
               /\ comp_chunk_tiles_done' \in [Gpus -> [Gpus \X Chunks -> Nat]]
               /\ C' \in [Gpus -> [Gpus \X Tiles -> Nat]]
    <3>1. PICK w \in Gpus \X Chunks, x \in Gpus \X Tiles :
            /\ computed' = [computed EXCEPT ![g] = @ \cup {k}]
            /\ comp_chunk_tiles_done' = [comp_chunk_tiles_done EXCEPT ![g][w] = @ + 1]
            /\ C' = [C EXCEPT ![g][x] = epoch[g]]
      <4> DEFINE w == <<SliceOf(k), ChunkOf(TileOf(k))>>
                 x == <<w[1], TileOf(k)>>
      <4>1. w \in Gpus \X Chunks /\ x \in Gpus \X Tiles
        BY <1>0, TaskParts, TileChunk DEF LaunchTypes
      <4>2. /\ computed' = [computed EXCEPT ![g] = @ \cup {k}]
            /\ comp_chunk_tiles_done' = [comp_chunk_tiles_done EXCEPT ![g][w] = @ + 1]
            /\ C' = [C EXCEPT ![g][x] = epoch[g]]
        BY <2>1 DEF Compute
      <4> HIDE DEF w, x
      <4> QED
        BY <4>1, <4>2
    <3>2. comp_chunk_tiles_done[g][w] + 1 \in Nat /\ epoch[g] \in Nat
      BY <1>0 DEF LaunchTypes
    <3> QED
      BY <1>0, <3>1, <3>2 DEF LaunchTypes
  <2>2. CASE Launch(g)
    BY <1>0, <2>2 DEF Launch, LaunchTypes
  <2> QED
    BY <1>0, <2>1, <2>2 DEF Changes, LaunchTypes
<1>5. barrier' \in [Gpus -> [Gpus \X Chunks -> Int]]
  <2>1. ASSUME NEW k \in Tasks, Compute(g, k) PROVE barrier' \in [Gpus -> [Gpus \X Chunks -> Int]]
    <3> DEFINE w == <<SliceOf(k), ChunkOf(TileOf(k))>>
               o == SliceOf(k)
    <3>1. w \in Gpus \X Chunks /\ o \in Gpus
      BY <1>0, TaskParts, TileChunk DEF LaunchTypes
    <3>2. barrier' \in {barrier, [barrier EXCEPT ![g][w] = epoch[g]], [barrier EXCEPT ![o][w] = @ + 1]}
      BY <2>1 DEF Compute
    <3> HIDE DEF w, o
    <3>3. barrier[o][w] + 1 \in Int /\ epoch[g] \in Int
      BY <1>0, <3>1 DEF LaunchTypes
    <3>4. /\ barrier \in [Gpus -> [Gpus \X Chunks -> Int]]
          /\ [barrier EXCEPT ![g][w] = epoch[g]] \in [Gpus -> [Gpus \X Chunks -> Int]]
          /\ [barrier EXCEPT ![o][w] = @ + 1] \in [Gpus -> [Gpus \X Chunks -> Int]]
      BY <1>0, <3>1, <3>3, Update DEF LaunchTypes
    <3> QED
      BY <3>2, <3>4
  <2>2. ASSUME NEW t \in Tiles, CountTile(g, t) PROVE barrier' \in [Gpus -> [Gpus \X Chunks -> Int]]
    <3>1. cfg.devices \in Nat
      BY <1>0, ConfigFacts DEF LaunchTypes
    <3> DEFINE w == <<g, ChunkOf(t)>>
    <3>2. w \in Gpus \X Chunks
      BY <1>0, TileChunk DEF LaunchTypes
    <3>3. barrier' \in {barrier, [barrier EXCEPT ![g][w] = @ - cfg.devices]}
      BY <2>2 DEF CountTile
    <3> HIDE DEF w
    <3>4. barrier[g][w] - cfg.devices \in Int
      BY <1>0, <3>1, <3>2 DEF LaunchTypes
    <3>5. /\ barrier \in [Gpus -> [Gpus \X Chunks -> Int]]
          /\ [barrier EXCEPT ![g][w] = @ - cfg.devices] \in [Gpus -> [Gpus \X Chunks -> Int]]
      BY <1>0, <3>4, Update DEF LaunchTypes
    <3> QED
      BY <3>3, <3>5
  <2> QED
    BY <1>0, <2>1, <2>2 DEF Changes, LaunchTypes
<1> QED
  BY <1>1, <1>2, <1>3, <1>4, <1>5 DEF LaunchTypes

LEMMA SliceTypesStep ==
    ASSUME TypeOK, NEW g \in Gpus, Step(g)
    PROVE  SliceTypes'
<1>0. LaunchTypes /\ SliceTypes /\ Changes(g) /\ cfg' = cfg
  BY WhoChanges DEF TypeOK, Changes
<1>1. Gpus' = Gpus /\ Chunks' = Chunks /\ Tiles' = Tiles /\ Sums' = Sums
  BY <1>0, LaunchStays
<1>2. /\ summed' \in [Gpus -> SUBSET Tiles] /\ counted' \in [Gpus -> SUBSET Tiles]
      /\ intra_chunk_tiles_done' \in [Gpus -> [Chunks -> Nat]]
  <2>1. ASSUME NEW t \in Tiles, SumTile(g, t)
        PROVE  /\ summed' \in [Gpus -> SUBSET Tiles] /\ counted' \in [Gpus -> SUBSET Tiles]
               /\ intra_chunk_tiles_done' \in [Gpus -> [Chunks -> Nat]]
    BY <1>0, <2>1 DEF SumTile, SliceTypes
  <2>2. ASSUME NEW t \in Tiles, CountTile(g, t)
        PROVE  /\ summed' \in [Gpus -> SUBSET Tiles] /\ counted' \in [Gpus -> SUBSET Tiles]
               /\ intra_chunk_tiles_done' \in [Gpus -> [Chunks -> Nat]]
    <3> DEFINE ch == ChunkOf(t)
    <3>1. ch \in Chunks
      BY <1>0, TileChunk DEF LaunchTypes
    <3>2. /\ counted' = [counted EXCEPT ![g] = @ \cup {t}] /\ summed' = summed
          /\ intra_chunk_tiles_done' \in {[intra_chunk_tiles_done EXCEPT ![g][ch] = 0],
                                          [intra_chunk_tiles_done EXCEPT ![g][ch] = @ + 1]}
      BY <2>2 DEF CountTile
    <3> HIDE DEF ch
    <3>3. intra_chunk_tiles_done[g][ch] + 1 \in Nat
      BY <1>0, <3>1 DEF SliceTypes
    <3>4. /\ [intra_chunk_tiles_done EXCEPT ![g][ch] = 0] \in [Gpus -> [Chunks -> Nat]]
          /\ [intra_chunk_tiles_done EXCEPT ![g][ch] = @ + 1] \in [Gpus -> [Chunks -> Nat]]
      BY <1>0, <3>3, Update DEF SliceTypes
    <3>5. counted' \in [Gpus -> SUBSET Tiles] /\ summed' \in [Gpus -> SUBSET Tiles]
      BY <1>0, <3>2 DEF SliceTypes
    <3> QED
      BY <3>2, <3>4, <3>5
  <2>3. CASE Launch(g)
    BY <1>0, <2>3 DEF Launch, SliceTypes
  <2> QED
    BY <1>0, <2>1, <2>2, <2>3 DEF Changes, SliceTypes
<1>3. staging' \in [Gpus -> [Tiles -> Sums]]
  <2>1. ASSUME NEW t \in Tiles, SumTile(g, t) PROVE staging' \in [Gpus -> [Tiles -> Sums]]
    <3> DEFINE x == [d \in Gpus |-> C[d][<<g, t>>]]
    <3>1. x \in Sums
      BY <1>0 DEF LaunchTypes, Sums
    <3>2. staging' = [staging EXCEPT ![g][t] = x]
      BY <2>1 DEF SumTile
    <3> HIDE DEF x
    <3> QED
      BY <1>0, <3>1, <3>2 DEF SliceTypes
  <2> QED
    BY <1>0, <2>1 DEF Changes, SliceTypes
<1>4. local_done_flag' \in [Gpus -> [Chunks -> {0, 1, 2}]]
  <2>1. ASSUME NEW t \in Tiles, CountTile(g, t)
        PROVE  local_done_flag' \in [Gpus -> [Chunks -> {0, 1, 2}]]
    BY <1>0, <2>1 DEF CountTile, SliceTypes
  <2>2. ASSUME NEW r \in Reducers, ReduceClaimed(g, r)
        PROVE  local_done_flag' \in [Gpus -> [Chunks -> {0, 1, 2}]]
    <3>1. PICK ch : local_done_flag' \in {local_done_flag, [local_done_flag EXCEPT ![g][ch] = 2]}
      BY <2>2 DEF ReduceClaimed
    <3>2. [local_done_flag EXCEPT ![g][ch] = 2] \in [Gpus -> [Chunks -> {0, 1, 2}]]
      BY <1>0, Update DEF SliceTypes
    <3> QED
      BY <1>0, <3>1, <3>2 DEF SliceTypes
  <2>3. CASE Launch(g)
    BY <1>0, <2>3 DEF Launch, SliceTypes
  <2> QED
    BY <1>0, <2>1, <2>2, <2>3 DEF Changes, SliceTypes
<1> QED
  BY <1>1, <1>2, <1>3, <1>4 DEF SliceTypes

LEMMA SendTypesStep ==
    ASSUME TypeOK, SameLayout, NEW g \in Gpus, Step(g)
    PROVE  SendTypes'
<1>0. LaunchTypes /\ SliceTypes /\ SendTypes /\ Changes(g) /\ cfg' = cfg /\ cfg \in Configs
  BY WhoChanges DEF TypeOK, Changes, LaunchTypes
<1>1. Gpus' = Gpus /\ Chunks' = Chunks /\ Tiles' = Tiles /\ Sums' = Sums /\ Peers' = Peers
  BY <1>0, LaunchStays
<1> DEFINE Types == /\ issued' \in [Gpus -> SUBSET Chunks]
                    /\ posted' \in [Gpus -> SUBSET (Peers \X Chunks \X Nat)]
                    /\ sent' \in [Gpus -> SUBSET [to : Peers, epoch : Nat, tile : Tiles, sum : Sums]]
<1>2. ASSUME NEW ch \in Chunks, SendChunk(g, ch) PROVE Types
  <2>1. Peers \X {ch} \X {epoch[g]} \subseteq Peers \X Chunks \X Nat
    BY <1>0 DEF LaunchTypes
  <2> QED
    BY <1>0, <1>2, <2>1 DEF SendChunk, SendTypes
<1>3. ASSUME NEW m \in posted[g], NicReads(g, m) PROVE Types
  <2> DEFINE X == {[to |-> m[1], epoch |-> m[3], tile |-> t, sum |-> staging[g][t]]
                  : t \in Decode(m[2])}
  <2>1. m \in Peers \X Chunks \X Nat
    BY <1>0 DEF SendTypes
  <2>2. Decode(m[2]) \subseteq Tiles
    BY <1>0, <2>1, DecodeIs, TilesInCount
  <2>3. X \subseteq [to : Peers, epoch : Nat, tile : Tiles, sum : Sums]
    BY <1>0, <2>1, <2>2 DEF SliceTypes
  <2>4. /\ sent' = [sent EXCEPT ![g] = @ \cup X] /\ posted' = [posted EXCEPT ![g] = @ \ {m}]
        /\ issued' = issued
    BY <1>3 DEF NicReads
  <2> HIDE DEF X
  <2> QED
    BY <1>0, <2>3, <2>4 DEF SendTypes
<1>4. ASSUME Launch(g) PROVE Types
  <2>1. issued' = [issued EXCEPT ![g] = {}] /\ posted' = posted /\ sent' = [sent EXCEPT ![g] = {}]
    BY <1>4 DEF Launch
  <2> QED
    BY <1>0, <2>1 DEF SendTypes
<1>5. Types
  <2>1. UNCHANGED <<issued, posted, sent>> => Types
    BY <1>0 DEF SendTypes
  <2> HIDE DEF Types
  <2> QED
    BY <1>0, <1>2, <1>3, <1>4, <2>1 DEF Changes
<1> QED
  BY <1>1, <1>5 DEF SendTypes

LEMMA WordFacts ==
    /\ <<>> \notin Words
    /\ \A w \in Words : w[1] \in Peers /\ w[2] \in Chunks /\ w[3] \in Nat /\ w = <<w[1], w[2], w[3]>>
    /\ \A p, ch, e : <<p, ch, e>> # <<>>
<1>1. \A p, ch, e : <<p, ch, e>> # <<>>
  <2> SUFFICES ASSUME NEW p, NEW ch, NEW e, <<p, ch, e>> = <<>> PROVE FALSE
    OBVIOUS
  <2>1. Len(<<p, ch, e>>) = 3 /\ Len(<<>>) = 0
    OBVIOUS
  <2> QED
    BY <2>1
<1> QED
  BY <1>1 DEF Words

LEMMA ArrivalTypesStep ==
    ASSUME TypeOK, NEW g \in Gpus, Step(g)
    PROVE  ArrivalTypes'
<1>0. ArrivalTypes /\ Changes(g) /\ cfg' = cfg /\ cfg \in Configs
  BY WhoChanges DEF TypeOK, Changes, LaunchTypes
<1>1. Gpus' = Gpus /\ Chunks' = Chunks /\ Peers' = Peers /\ Queues' = Queues /\ Words' = Words
      /\ TotalChunks' = TotalChunks
  BY <1>0, LaunchStays
<1> DEFINE W == [Gpus -> [Queues -> [1..TotalChunks -> {<<>>} \cup Words]]]
<1>2. recv' \in [Gpus -> [Peers \X Chunks -> Nat]] /\ words' \in W
  <2>1. ASSUME NEW p \in Peers, NEW ch \in Chunks, PeerWrites(g, p, ch)
        PROVE  recv' \in [Gpus -> [Peers \X Chunks -> Nat]] /\ words' \in W
    <3> DEFINE e == recv[g][<<p, ch>>] + 1
    <3>1. e \in Nat /\ <<p, ch, e>> \in Words
      BY <1>0 DEF ArrivalTypes, Words
    <3>2. PICK q, i : words' = [words EXCEPT ![g][q][i] = <<p, ch, e>>]
      BY <2>1 DEF PeerWrites
    <3>3. recv' = [recv EXCEPT ![g][<<p, ch>>] = e]
      BY <2>1 DEF PeerWrites
    <3> HIDE DEF e
    <3>4. words' \in W
      <4>1. words[g] \in [Queues -> [1..TotalChunks -> {<<>>} \cup Words]]
        BY <1>0 DEF ArrivalTypes
      <4>2. [words[g] EXCEPT ![q] = [words[g][q] EXCEPT ![i] = <<p, ch, e>>]]
              \in [Queues -> [1..TotalChunks -> {<<>>} \cup Words]]
        BY <3>1, <4>1
      <4>3. words' = [words EXCEPT ![g] = [words[g] EXCEPT ![q] = [words[g][q] EXCEPT ![i] = <<p, ch, e>>]]]
        BY <3>2
      <4> QED
        BY <1>0, <4>2, <4>3 DEF ArrivalTypes
    <3>5. recv' \in [Gpus -> [Peers \X Chunks -> Nat]]
      BY <1>0, <3>1, <3>3 DEF ArrivalTypes
    <3> QED
      BY <3>4, <3>5
  <2>2. ASSUME NEW r \in Reducers, ResetFlags(g, r)
        PROVE  recv' \in [Gpus -> [Peers \X Chunks -> Nat]] /\ words' \in W
    <3> DEFINE v == [q \in Queues |->
                  [i \in 1..TotalChunks |-> IF (i - 1) % NumReduce = r THEN <<>> ELSE words[g][q][i]]]
    <3>1. words' = [words EXCEPT ![g] = v] /\ recv' = recv
      BY <2>2 DEF ResetFlags
    <3>2. v \in [Queues -> [1..TotalChunks -> {<<>>} \cup Words]]
      <4> DEFINE V == {<<>>} \cup Words
      <4>2. words[g] \in [Queues -> [1..TotalChunks -> V]]
        BY <1>0 DEF ArrivalTypes
      <4> HIDE DEF V
      <4>3. \A q \in Queues : \A i \in 1..TotalChunks : words[g][q][i] \in V
        BY <4>2
      <4>1. \A q \in Queues : \A i \in 1..TotalChunks : words[g][q][i] \in {<<>>} \cup Words
        BY <4>3 DEF V
      <4> QED
        BY <4>1
    <3> HIDE DEF v
    <3> QED
      BY <1>0, <3>1, <3>2 DEF ArrivalTypes
  <2> QED
    BY <1>0, <2>1, <2>2 DEF Changes, ArrivalTypes
<1> DEFINE D == /\ arrival_queue_head' \in [Gpus -> [Queues -> Nat]]
                /\ peer_mask' \in [Gpus -> [Chunks -> SUBSET Peers]]
                /\ remote_arrived_flag' \in [Gpus -> SUBSET Chunks]
                /\ remote_arrived_chunks' \in [Gpus -> Nat]
<1>3. ASSUME NEW q \in Queues, DrainWord(g, q) PROVE D
  <2> DEFINE i == arrival_queue_head[g][q] + 1
             w == words[g][q][i]
  <2>1. i \in 1..TotalChunks /\ w # <<>>
    <3>1. arrival_queue_head[g][q] \in Nat /\ TotalChunks \in Nat
      BY <1>0, Numbers DEF ArrivalTypes
    <3>2. arrival_queue_head[g][q] < TotalChunks /\ w # <<>>
      BY <1>3 DEF DrainWord
    <3> QED
      BY <3>1, <3>2
  <2>2. w \in Words
    <3> HIDE DEF i
    <3>1. words[g][q] \in [1..TotalChunks -> {<<>>} \cup Words]
      BY <1>0 DEF ArrivalTypes
    <3> QED
      BY <2>1, <3>1
  <2> HIDE DEF i
  <2>3. w[1] \in Peers /\ w[2] \in Chunks
    BY <2>2, WordFacts
  <2>4. /\ arrival_queue_head' = [arrival_queue_head EXCEPT ![g][q] = @ + 1]
        /\ peer_mask' = [peer_mask EXCEPT ![g][w[2]] = @ \cup {w[1]}]
        /\ remote_arrived_flag' \in
             {remote_arrived_flag, [remote_arrived_flag EXCEPT ![g] = @ \cup {w[2]}]}
        /\ remote_arrived_chunks' \in
             {remote_arrived_chunks, [remote_arrived_chunks EXCEPT ![g] = @ + 1]}
    BY <1>3 DEF DrainWord, i
  <2> HIDE DEF w
  <2>5. arrival_queue_head' \in [Gpus -> [Queues -> Nat]]
    BY <1>0, <2>4 DEF ArrivalTypes
  <2>6. peer_mask' \in [Gpus -> [Chunks -> SUBSET Peers]]
    <3>1. peer_mask[g][w[2]] \cup {w[1]} \in SUBSET Peers
      BY <1>0, <2>3 DEF ArrivalTypes
    <3> QED
      BY <1>0, <2>4, <3>1, Update DEF ArrivalTypes
  <2>7. /\ [remote_arrived_flag EXCEPT ![g] = @ \cup {w[2]}] \in [Gpus -> SUBSET Chunks]
        /\ [remote_arrived_chunks EXCEPT ![g] = @ + 1] \in [Gpus -> Nat]
    BY <1>0, <2>3 DEF ArrivalTypes
  <2>8. remote_arrived_flag' \in [Gpus -> SUBSET Chunks] /\ remote_arrived_chunks' \in [Gpus -> Nat]
    BY <1>0, <2>4, <2>7 DEF ArrivalTypes
  <2> QED
    BY <2>5, <2>6, <2>8
<1>4. ASSUME Launch(g) PROVE D
  <2>1. /\ arrival_queue_head' = [arrival_queue_head EXCEPT ![g] = [q \in Queues |-> 0]]
        /\ peer_mask' = [peer_mask EXCEPT ![g] = [ch \in Chunks |-> {}]]
        /\ remote_arrived_flag' = [remote_arrived_flag EXCEPT ![g] = {}]
        /\ remote_arrived_chunks' = [remote_arrived_chunks EXCEPT ![g] = 0]
    BY <1>4 DEF Launch
  <2>2. [q \in Queues |-> 0] \in [Queues -> Nat] /\ [ch \in Chunks |-> {}] \in [Chunks -> SUBSET Peers]
    OBVIOUS
  <2> QED
    BY <1>0, <2>1, <2>2 DEF ArrivalTypes
<1>5. D
  <2>1. UNCHANGED drain => D
    BY <1>0 DEF drain, ArrivalTypes
  <2> HIDE DEF D
  <2> QED
    BY <1>0, <1>3, <1>4, <2>1 DEF Changes
<1> QED
  BY <1>1, <1>2, <1>5 DEF ArrivalTypes

\* What a reduce CTA claims, has arrived and is counted, and nobody else has it.
LEMMA MinIsLeast ==
    ASSUME NEW T \in SUBSET Nat, T # {}
    PROVE  Min(T) \in T
<1>1. PICK n \in T : \A m \in T : ~(<<m, n>> \in OpToRel(<, Nat))
  BY NatLessThanWellFounded, WFMin
<1>2. \A m \in T : ~(m < n)
  BY <1>1 DEF OpToRel
<1>3. \E x \in T : \A m \in T : x <= m
  BY <1>2
<1> QED
  BY <1>3 DEF Min

LEMMA ClaimedIs ==
    ASSUME TypeOK, NEW g \in Gpus, NEW r \in Reducers, ReduceClaimed(g, r)
    PROVE  /\ ~Static /\ UNCHANGED <<cfg, epoch, at, accum>>
           /\ \E s \in Nat : scan' = [scan EXCEPT ![g][r] = s]
           /\ \E s \in Nat : reduce_cursor' = [reduce_cursor EXCEPT ![g] = s]
           /\ \/ UNCHANGED <<local_done_flag, final, published_chunks>>
              \/ \E ch \in Chunks :
                   /\ ch \in remote_arrived_flag[g] /\ local_done_flag[g][ch] = 1
                   /\ at[g][r] = "look"
                   /\ local_done_flag' = [local_done_flag EXCEPT ![g][ch] = 2]
                   /\ Publish(g, ch, Received(g, ch))
<1> DEFINE found == ReadyAt(g, r)
           ch == Window(g, r)[Min(found)]
           n == Min({cfg.window, TotalChunks})
           T == TotalChunks
<1>1. cfg \in Configs /\ T \in Nat \ {0} /\ cfg.window \in Nat \ {0} /\ scan[g][r] \in Nat
      /\ reduce_cursor[g] \in Nat /\ remote_arrived_flag[g] \subseteq Chunks
  <2>1. cfg \in Configs
    BY DEF TypeOK, LaunchTypes
  <2> QED
    BY <2>1, Numbers, ConfigFacts DEF TypeOK, ReduceTypes, ArrivalTypes
<1>2. n \in Nat \ {0}
  <2>1. \A a, b \in Int : Min({a, b}) = IF a <= b THEN a ELSE b
    BY MaxMin
  <2> QED
    BY <1>1, <2>1
<1>3. DOMAIN Window(g, r) = 0..(n - 1)
  BY DEF Window
<1> HIDE DEF n
<1>4. Cardinality(DOMAIN Window(g, r)) \in Nat
  BY <1>2, <1>3, FS_Interval, FS_CardinalityType
<1>5. found # {} => ch \in remote_arrived_flag[g] /\ local_done_flag[g][ch] = 1
  <2> SUFFICES ASSUME found # {} PROVE ch \in remote_arrived_flag[g] /\ local_done_flag[g][ch] = 1
    OBVIOUS
  <2>1. found \subseteq Nat
    BY <1>2, <1>3 DEF ReadyAt
  <2>2. Min(found) \in found
    BY <2>1, MinIsLeast
  <2> QED
    BY <2>2 DEF ReadyAt
<1>6. /\ ~Static /\ at[g][r] = "look" /\ UNCHANGED <<cfg, epoch, at, accum>>
      /\ IF found # {}
           THEN /\ local_done_flag' = [local_done_flag EXCEPT ![g][ch] = 2]
                /\ Publish(g, ch, Received(g, ch))
                /\ scan' = [scan EXCEPT ![g][r] = IF Steal THEN @ ELSE (ch + 1) % T]
           ELSE /\ scan' = [scan EXCEPT ![g][r] = IF Steal THEN @
                              ELSE (@ + Cardinality(DOMAIN Window(g, r))) % T]
                /\ UNCHANGED <<local_done_flag, final, published_chunks>>
      /\ reduce_cursor' = IF ~Steal THEN reduce_cursor
             ELSE [reduce_cursor EXCEPT ![g] = (@ + 1) % T]
  BY DEF ReduceClaimed
<1> HIDE DEF found, ch
<1>7. found # {} => ch \in Chunks /\ ch \in Nat
  BY <1>1, <1>5, Numbers
<1>8. \E s \in Nat : scan' = [scan EXCEPT ![g][r] = s]
  <2>1. CASE found # {}
    <3> DEFINE s == IF Steal THEN scan[g][r] ELSE (ch + 1) % T
    <3>1. s \in Nat
      BY <1>1, <1>7, <2>1, Divides
    <3>2. scan' = [scan EXCEPT ![g][r] = s]
      BY <1>6, <2>1
    <3> QED
      BY <3>1, <3>2
  <2>2. CASE found = {}
    <3> DEFINE s == IF Steal THEN scan[g][r] ELSE (scan[g][r] + Cardinality(DOMAIN Window(g, r))) % T
    <3>1. s \in Nat
      BY <1>1, <1>4, Divides
    <3>2. scan' = [scan EXCEPT ![g][r] = s]
      BY <1>6, <2>2
    <3> QED
      BY <3>1, <3>2
  <2> QED
    BY <2>1, <2>2
<1>9. \E s \in Nat : reduce_cursor' = [reduce_cursor EXCEPT ![g] = s]
  <2> DEFINE s == IF Steal THEN (reduce_cursor[g] + 1) % T ELSE reduce_cursor[g]
  <2>1. s \in Nat
    BY <1>1, Divides
  <2>2. [reduce_cursor EXCEPT ![g] = reduce_cursor[g]] = reduce_cursor
    BY DEF TypeOK, ReduceTypes
  <2>3. reduce_cursor' = [reduce_cursor EXCEPT ![g] = s]
    BY <1>6, <2>2
  <2> QED
    BY <2>1, <2>3
<1> QED
  BY <1>5, <1>6, <1>7, <1>8, <1>9

LEMMA ReceivedType ==
    ASSUME TypeOK, NEW g \in Gpus, NEW ch \in Chunks
    PROVE  Received(g, ch) \in [Peers -> Seq(Nat)]
<1>1. \A p \in Peers : recv[g][<<p, ch>>] \in Nat
  BY DEF TypeOK, ArrivalTypes
<1>2. \A p \in Peers : <<recv[g][<<p, ch>>]>> \in Seq(Nat)
  BY <1>1
<1> QED
  BY <1>2 DEF Received

LEMMA PublishTypes ==
    ASSUME TypeOK, SameLayout, NEW g \in Gpus, NEW ch \in Chunks, NEW sum \in [Peers -> Seq(Nat)],
           Publish(g, ch, sum)
    PROVE  /\ final' \in [Gpus -> [Gpus \X Tiles -> Seq(Results)]]
           /\ published_chunks' \in [Gpus -> Nat]
<1>1. cfg \in Configs /\ final \in [Gpus -> [Gpus \X Tiles -> Seq(Results)]]
      /\ published_chunks \in [Gpus -> Nat] /\ staging \in [Gpus -> [Tiles -> Sums]]
  BY DEF TypeOK, LaunchTypes, ReduceTypes, SliceTypes
<1>2. ASSUME NEW d \in Gpus, NEW w \in Gpus \X Tiles
      PROVE  (IF w[1] = g /\ w[2] \in Decode(ch)
                THEN Append(final[d][w], [local |-> staging[g][w[2]], peers |-> sum])
                ELSE final[d][w]) \in Seq(Results)
  <2>1. staging[g][w[2]] \in Sums
    BY <1>1
  <2>2. [local |-> staging[g][w[2]], peers |-> sum] \in Results
    BY <2>1 DEF Results
  <2>3. final[d][w] \in Seq(Results)
    BY <1>1
  <2> QED
    BY <2>2, <2>3
<1>3. final' \in [Gpus -> [Gpus \X Tiles -> Seq(Results)]]
  BY <1>2 DEF Publish
<1>4. published_chunks' \in [Gpus -> Nat]
  BY <1>1 DEF Publish
<1> QED
  BY <1>3, <1>4

\* With early accumulation: the peers that have come since the last look are added, and
\* the chunk is published if that was all.
NewPeers(g, ch) == {p \in peer_mask[g][ch] : accum[g][ch][p] = <<>>}
Added(g, ch) ==
    [p \in Peers |-> IF p \in NewPeers(g, ch) THEN accum[g][ch][p] \o Received(g, ch)[p]
                     ELSE accum[g][ch][p]]
Complete(g, ch) ==
    local_done_flag[g][ch] = 1 /\ \A p \in Peers : accum[g][ch][p] # <<>> \/ p \in NewPeers(g, ch)

LEMMA EarlyIs ==
    ASSUME TypeOK, NEW g \in Gpus, NEW r \in Reducers, ReduceEarly(g, r)
    PROVE  LET ch == scan[g][r]
           IN  /\ Static /\ at[g][r] = "look" /\ ch \in Chunks
               /\ UNCHANGED <<cfg, epoch, at, local_done_flag, peer_mask>>
               /\ Added(g, ch) \in [Peers -> Seq(Nat)]
               /\ accum' = [accum EXCEPT ![g][ch] = Added(g, ch)]
               /\ IF Complete(g, ch)
                    THEN Publish(g, ch, Added(g, ch)) /\ scan' = [scan EXCEPT ![g][r] = @ + NumReduce]
                    ELSE UNCHANGED <<final, published_chunks, scan>>
<1> DEFINE ch == scan[g][r]
           before == {p \in Peers : accum[g][ch][p] # <<>>}
           new == peer_mask[g][ch] \ before
           sum == [p \in Peers |-> IF p \in new THEN accum[g][ch][p] \o Received(g, ch)[p]
                                   ELSE accum[g][ch][p]]
           ready == local_done_flag[g][ch] = 1 /\ before \cup new = Peers
<1>1. /\ Early /\ at[g][r] = "look" /\ ch < TotalChunks
      /\ accum' = [accum EXCEPT ![g][ch] = sum]
      /\ IF ready
           THEN Publish(g, ch, sum) /\ scan' = [scan EXCEPT ![g][r] = @ + NumReduce]
           ELSE UNCHANGED <<final, published_chunks, scan>>
      /\ UNCHANGED <<cfg, epoch, at, local_done_flag, peer_mask>>
  BY DEF ReduceEarly, drain
<1>2. ch \in Chunks
  <2>1. ch \in Nat /\ Chunks = 0..(TotalChunks - 1) /\ TotalChunks \in Nat
    BY Numbers DEF TypeOK, LaunchTypes, ReduceTypes
  <2> QED
    BY <1>1, <2>1
<1> HIDE DEF ch
<1>3. peer_mask[g][ch] \subseteq Peers /\ accum[g][ch] \in [Peers -> Seq(Nat)]
  BY <1>2 DEF TypeOK, ArrivalTypes, ReduceTypes
<1>4. new = NewPeers(g, ch)
  BY <1>3 DEF NewPeers
<1>5. sum = Added(g, ch)
  BY <1>4 DEF Added
<1>6. ready <=> Complete(g, ch)
  BY <1>3, <1>4 DEF Complete
<1>7. Added(g, ch) \in [Peers -> Seq(Nat)]
  <2>1. \A p \in Peers : Received(g, ch)[p] \in Seq(Nat) /\ accum[g][ch][p] \in Seq(Nat)
    BY <1>2, <1>3, ReceivedType
  <2>2. \A p \in Peers : accum[g][ch][p] \o Received(g, ch)[p] \in Seq(Nat)
    BY <2>1
  <2> QED
    BY <2>1, <2>2 DEF Added
<1>8. Static
  BY <1>1 DEF Early
<1> HIDE DEF sum, ready
<1> QED
  BY <1>1, <1>2, <1>5, <1>6, <1>7, <1>8 DEF ch

LEMMA StaticIs ==
    ASSUME TypeOK, NEW g \in Gpus, NEW r \in Reducers, ReduceStatic(g, r)
    PROVE  LET ch == scan[g][r]
           IN  /\ Static /\ at[g][r] = "look" /\ ch \in Chunks
               /\ UNCHANGED <<cfg, epoch, at, local_done_flag, accum>>
               /\ ch \in remote_arrived_flag[g] /\ local_done_flag[g][ch] = 1
               /\ Publish(g, ch, Received(g, ch)) /\ scan' = [scan EXCEPT ![g][r] = @ + NumReduce]
<1> DEFINE ch == scan[g][r]
<1>1. ch \in Chunks
  <2>1. ch \in Nat /\ Chunks = 0..(TotalChunks - 1) /\ TotalChunks \in Nat
    BY Numbers DEF TypeOK, LaunchTypes, ReduceTypes
  <2>2. ch < TotalChunks
    BY DEF ReduceStatic
  <2> QED
    BY <2>1, <2>2
<1>2. /\ Static /\ at[g][r] = "look"
      /\ UNCHANGED <<cfg, epoch, at, local_done_flag, accum>>
      /\ ch \in remote_arrived_flag[g] /\ local_done_flag[g][ch] = 1
      /\ Publish(g, ch, Received(g, ch)) /\ scan' = [scan EXCEPT ![g][r] = @ + NumReduce]
  BY DEF ReduceStatic
<1> QED
  BY <1>1, <1>2

LEMMA ReduceTypesStep ==
    ASSUME TypeOK, SameLayout, NEW g \in Gpus, Step(g)
    PROVE  ReduceTypes'
<1>0. ReduceTypes /\ Changes(g) /\ cfg' = cfg /\ cfg \in Configs
  BY WhoChanges DEF TypeOK, Changes, LaunchTypes
<1>1. Gpus' = Gpus /\ Chunks' = Chunks /\ Peers' = Peers /\ Reducers' = Reducers
      /\ Tiles' = Tiles /\ Results' = Results
  BY <1>0, LaunchStays
<1>2. NumReduce \in Nat /\ 0 \in Reducers
  BY <1>0, ReducerFacts
<1> DEFINE AtTypes == /\ at' \in [Gpus -> [Reducers -> Places]]
                      /\ \A h \in Gpus : \A r \in Reducers : at'[h][r] \in {"slices", "barrier"} => r = 0
           Late == {"finish", "slices", "reset", "barrier", "exit"}
<1>3. ASSUME NEW r \in Reducers, NEW to \in Late, at' = [at EXCEPT ![g][r] = to],
             to \in {"slices", "barrier"} => r = 0
      PROVE  AtTypes
  BY <1>0, <1>3 DEF ReduceTypes, Places
<1>4. Moves(g) => AtTypes
  <2>1. ASSUME NEW r \in Reducers, ReduceEnds(g, r) PROVE AtTypes
    BY <1>3, <2>1 DEF ReduceEnds, Goes
  <2>2. ASSUME NEW r \in Reducers, FinishWaits(g, r) PROVE AtTypes
    BY <1>3, <2>2 DEF FinishWaits, Goes
  <2>3. ASSUME NEW r \in Reducers, ResetFlags(g, r) PROVE AtTypes
    BY <1>3, <2>3 DEF ResetFlags, Goes
  <2>4. ASSUME FinishSignals(g) PROVE AtTypes
    BY <1>2, <1>3, <2>4 DEF FinishSignals, Goes
  <2>5. ASSUME FinishSees(g) PROVE AtTypes
    BY <1>2, <1>3, <2>5 DEF FinishSees, Goes
  <2>6. ASSUME BarrierOver(g) PROVE AtTypes
    BY <1>2, <1>3, <2>6 DEF BarrierOver, Goes
  <2> HIDE DEF AtTypes
  <2> QED
    BY <2>1, <2>2, <2>3, <2>4, <2>5, <2>6 DEF Moves
<1>5. Launch(g) => AtTypes
  BY <1>0 DEF Launch, ReduceTypes, Places
<1>6. AtTypes
  <2>1. UNCHANGED at => AtTypes
    BY <1>0 DEF ReduceTypes
  <2> HIDE DEF AtTypes
  <2> QED
    BY <1>0, <1>4, <1>5, <2>1 DEF Changes
<1> HIDE DEF AtTypes
<1> DEFINE SumTypes == /\ scan' \in [Gpus -> [Reducers -> Nat]] /\ published_chunks' \in [Gpus -> Nat]
                       /\ final' \in [Gpus -> [Gpus \X Tiles -> Seq(Results)]]
           AccumTypes == accum' \in [Gpus -> [Chunks -> [Peers -> Seq(Nat)]]]
           CursorTypes == reduce_cursor' \in [Gpus -> Nat]
<1>7. UNCHANGED <<scan, published_chunks, final>> => SumTypes
  BY <1>0 DEF ReduceTypes
<1>8. ASSUME NEW r \in Reducers, NEW s \in Nat, scan' = [scan EXCEPT ![g][r] = s]
      PROVE  scan' \in [Gpus -> [Reducers -> Nat]]
  BY <1>0, <1>8, Update DEF ReduceTypes
<1>9. ASSUME NEW r \in Reducers, ReduceStatic(g, r) PROVE SumTypes
  <2> DEFINE ch == scan[g][r]
  <2>1. ch \in Chunks /\ Publish(g, ch, Received(g, ch)) /\ scan' = [scan EXCEPT ![g][r] = @ + NumReduce]
    BY <1>9, StaticIs
  <2>2. scan[g][r] + NumReduce \in Nat
    BY <1>0, <1>2 DEF ReduceTypes
  <2>3. scan' \in [Gpus -> [Reducers -> Nat]]
    BY <1>8, <2>1, <2>2
  <2> HIDE DEF ch
  <2> QED
    BY <2>1, <2>3, ReceivedType, PublishTypes
<1>10. ASSUME NEW r \in Reducers, ReduceEarly(g, r) PROVE SumTypes /\ AccumTypes
  <2> DEFINE ch == scan[g][r]
  <2>1. /\ ch \in Chunks /\ Added(g, ch) \in [Peers -> Seq(Nat)]
        /\ accum' = [accum EXCEPT ![g][ch] = Added(g, ch)]
        /\ \/ Publish(g, ch, Added(g, ch)) /\ scan' = [scan EXCEPT ![g][r] = @ + NumReduce]
           \/ UNCHANGED <<final, published_chunks, scan>>
    BY <1>10, EarlyIs
  <2>2. scan[g][r] + NumReduce \in Nat
    BY <1>0, <1>2 DEF ReduceTypes
  <2>3. scan' \in [Gpus -> [Reducers -> Nat]]
    <3>1. CASE scan' = scan
      BY <1>0, <3>1 DEF ReduceTypes
    <3>2. CASE scan' = [scan EXCEPT ![g][r] = @ + NumReduce]
      BY <1>8, <2>2, <3>2
    <3> QED
      BY <2>1, <3>1, <3>2
  <2> HIDE DEF ch
  <2>4. AccumTypes
    BY <1>0, <2>1, Update DEF ReduceTypes
  <2>5. CASE Publish(g, ch, Added(g, ch))
    BY <2>1, <2>3, <2>4, <2>5, PublishTypes
  <2>6. CASE UNCHANGED <<final, published_chunks, scan>>
    BY <1>7, <2>4, <2>6
  <2> QED
    BY <2>1, <2>5, <2>6
<1>11. ASSUME NEW r \in Reducers, ReduceClaimed(g, r) PROVE SumTypes /\ CursorTypes
  <2>1. /\ \E s \in Nat : scan' = [scan EXCEPT ![g][r] = s]
        /\ \E s \in Nat : reduce_cursor' = [reduce_cursor EXCEPT ![g] = s]
        /\ \/ UNCHANGED <<local_done_flag, final, published_chunks>>
           \/ \E ch \in Chunks : Publish(g, ch, Received(g, ch))
    BY <1>11, ClaimedIs
  <2>2. scan' \in [Gpus -> [Reducers -> Nat]]
    BY <1>8, <2>1
  <2>3. CursorTypes
    BY <1>0, <2>1 DEF ReduceTypes
  <2>4. CASE UNCHANGED <<local_done_flag, final, published_chunks>>
    BY <1>0, <2>2, <2>3, <2>4 DEF ReduceTypes
  <2>5. ASSUME NEW ch \in Chunks, Publish(g, ch, Received(g, ch)) PROVE SumTypes /\ CursorTypes
    BY <2>2, <2>3, <2>5, ReceivedType, PublishTypes
  <2> QED
    BY <2>1, <2>4, <2>5
<1>12. ASSUME Launch(g) PROVE SumTypes /\ AccumTypes /\ CursorTypes
  <2>1. [r \in Reducers |-> ScanStart(r)] \in [Reducers -> Nat]
    <3> SUFFICES ASSUME NEW r \in Reducers PROVE ScanStart(r) \in Nat
      OBVIOUS
    <3>1. r \in Nat /\ TotalChunks \in Nat \ {0} /\ cfg.num_blocks \in Nat
      BY <1>0, ReducerFacts, Numbers, ConfigFacts
    <3> DEFINE a == cfg.num_blocks - NumReduce + r
    <3>2. a \in Int
      BY <1>2, <3>1
    <3> HIDE DEF a
    <3>3. a % TotalChunks \in Nat
      BY <3>1, <3>2
    <3> QED
      BY <3>1, <3>3 DEF ScanStart, a
  <2>2. [ch \in Chunks |-> NoPeers] \in [Chunks -> [Peers -> Seq(Nat)]]
    BY DEF NoPeers
  <2>3. /\ scan' = [scan EXCEPT ![g] = [r \in Reducers |-> ScanStart(r)]]
        /\ reduce_cursor' = [reduce_cursor EXCEPT ![g] = 0]
        /\ accum' = [accum EXCEPT ![g] = [ch \in Chunks |-> NoPeers]]
        /\ published_chunks' = [published_chunks EXCEPT ![g] = 0]
        /\ final' = [final EXCEPT ![g] = [w \in DOMAIN @ |-> <<>>]]
    BY <1>12 DEF Launch
  <2>4. [w \in DOMAIN final[g] |-> <<>>] \in [Gpus \X Tiles -> Seq(Results)]
    <3>1. DOMAIN final[g] = Gpus \X Tiles
      BY <1>0 DEF ReduceTypes
    <3> QED
      BY <3>1
  <2>5. final' \in [Gpus -> [Gpus \X Tiles -> Seq(Results)]]
    BY <1>0, <2>3, <2>4 DEF ReduceTypes
  <2>6. scan' \in [Gpus -> [Reducers -> Nat]]
    BY <1>0, <2>1, <2>3 DEF ReduceTypes
  <2>7. AccumTypes
    BY <1>0, <2>2, <2>3 DEF ReduceTypes
  <2>8. CursorTypes /\ published_chunks' \in [Gpus -> Nat]
    BY <1>0, <2>3 DEF ReduceTypes
  <2> QED
    BY <2>5, <2>6, <2>7, <2>8
<1>13. UNCHANGED accum => AccumTypes
  BY <1>0 DEF ReduceTypes
<1>14. UNCHANGED reduce_cursor => CursorTypes
  BY <1>0 DEF ReduceTypes
<1> HIDE DEF SumTypes, AccumTypes, CursorTypes
<1>15. SumTypes
  BY <1>0, <1>7, <1>9, <1>10, <1>11, <1>12 DEF Changes, Reduces
<1>16. AccumTypes
  BY <1>0, <1>10, <1>12, <1>13 DEF Changes
<1>17. CursorTypes
  BY <1>0, <1>11, <1>12, <1>14 DEF Changes
<1> QED
  BY <1>1, <1>6, <1>15, <1>16, <1>17 DEF ReduceTypes, AtTypes, SumTypes, AccumTypes, CursorTypes

LEMMA FinishTypesStep ==
    ASSUME TypeOK, NEW g \in Gpus, Step(g)
    PROVE  FinishTypes'
<1>0. FinishTypes /\ Changes(g) /\ cfg' = cfg /\ epoch \in [Gpus -> Nat \ {0}]
  BY WhoChanges DEF TypeOK, Changes, LaunchTypes
<1>1. Gpus' = Gpus
  BY <1>0, LaunchStays
<1>2. final_slot' \in [0..(cfg.slot_rows - 1) -> [Gpus -> Nat]]
  <2>1. ASSUME FinishSignals(g) PROVE final_slot' \in [0..(cfg.slot_rows - 1) -> [Gpus -> Nat]]
    <3> DEFINE row == Row(g)
    <3>1. row \in 0..(cfg.slot_rows - 1)
      <4> DEFINE n == cfg.slot_rows
                 e == epoch[g]
      <4>1. n \in Nat \ {0} /\ e \in Nat
        BY <1>0, ConfigFacts DEF TypeOK, LaunchTypes
      <4> HIDE DEF n, e
      <4>2. e % n \in 0..(n - 1)
        BY <4>1, Divides
      <4> QED
        BY <4>2 DEF Row, n, e
    <3>2. final_slot' = [final_slot EXCEPT ![row][g] = @ + 1]
      BY <2>1 DEF FinishSignals
    <3> HIDE DEF row
    <3> DEFINE rows == 0..(cfg.slot_rows - 1)
    <3>4. row \in rows /\ final_slot \in [rows -> [Gpus -> Nat]]
      BY <1>0, <3>1 DEF FinishTypes
    <3> HIDE DEF rows
    <3>3. final_slot[row][g] + 1 \in Nat
      BY <3>4
    <3>5. final_slot' \in [rows -> [Gpus -> Nat]]
      BY <3>2, <3>3, <3>4, Update
    <3> QED
      BY <3>5 DEF rows
  <2> QED
    BY <1>0, <2>1 DEF Changes, FinishTypes
<1>3. final_publish_done' \in [Gpus -> BOOLEAN]
  <2>1. ASSUME FinishSees(g) PROVE final_publish_done' \in [Gpus -> BOOLEAN]
    BY <1>0, <2>1 DEF FinishSees, FinishTypes
  <2>2. ASSUME Launch(g) PROVE final_publish_done' \in [Gpus -> BOOLEAN]
    BY <1>0, <2>2 DEF Launch, FinishTypes
  <2> QED
    BY <1>0, <2>1, <2>2 DEF Changes, FinishTypes
<1>4. rung' \in [Gpus -> Nat]
  <2>1. ASSUME NEW r \in Reducers, ResetFlags(g, r) PROVE rung' \in [Gpus -> Nat]
    BY <1>0, <2>1 DEF ResetFlags, FinishTypes
  <2> QED
    BY <1>0, <2>1 DEF Changes, FinishTypes
<1>5. bell' \in [Gpus -> Nat]
  <2>1. ASSUME PeerRings(g) PROVE bell' \in [Gpus -> Nat]
    BY <1>0, <2>1 DEF PeerRings, FinishTypes
  <2> QED
    BY <1>0, <2>1 DEF Changes, FinishTypes
<1> QED
  BY <1>0, <1>1, <1>2, <1>3, <1>4, <1>5 DEF FinishTypes

LEMMA TypesStep ==
    ASSUME TypeOK, SameLayout, NEW g \in Gpus, Step(g)
    PROVE  TypeOK'
  BY LaunchTypesStep, SliceTypesStep, SendTypesStep, ArrivalTypesStep, ReduceTypesStep,
     FinishTypesStep DEF TypeOK

-----------------------------------------------------------------------------
\* What the invariant says of one state.

LEMMA Shape ==
    ASSUME TypeOK
    PROVE  /\ cfg \in Configs /\ epoch \in [Gpus -> Nat \ {0}]
           /\ \A g \in Gpus : epoch[g] \in Nat \ {0}
           /\ \A g \in Gpus : \A ch \in Chunks : local_done_flag[g][ch] \in {0, 1, 2}
           /\ \A d \in Gpus : \A w \in Gpus \X Chunks :
                Signals(d, w) \in Nat /\ Signals(d, w) <= epoch[d] /\ epoch[d] <= Signals(d, w) + 1
           /\ \A g \in Gpus : \A ch \in Chunks :
                Taken(g, ch) \in Nat /\ Taken(g, ch) <= epoch[g] /\ epoch[g] <= Taken(g, ch) + 1
           /\ \A g \in Gpus : /\ Announced(g) \in Nat /\ Announced(g) <= epoch[g]
                              /\ epoch[g] <= Announced(g) + 1
           /\ \A g \in Gpus : Published(g) \subseteq Chunks /\ IsFiniteSet(Published(g))
           /\ 0 \in Reducers
<1>1. cfg \in Configs /\ epoch \in [Gpus -> Nat \ {0}] /\ local_done_flag \in [Gpus -> [Chunks -> {0, 1, 2}]]
  BY DEF TypeOK, LaunchTypes, SliceTypes
<1>2. \A g \in Gpus : epoch[g] \in Nat \ {0}
  BY <1>1
<1>3. \A d \in Gpus : \A w \in Gpus \X Chunks :
        Signals(d, w) \in Nat /\ Signals(d, w) <= epoch[d] /\ epoch[d] <= Signals(d, w) + 1
  BY <1>2 DEF Signals
<1>4. \A g \in Gpus : \A ch \in Chunks :
        Taken(g, ch) \in Nat /\ Taken(g, ch) <= epoch[g] /\ epoch[g] <= Taken(g, ch) + 1
  BY <1>2 DEF Taken
<1>5. \A g \in Gpus : /\ Announced(g) \in Nat /\ Announced(g) <= epoch[g]
                      /\ epoch[g] <= Announced(g) + 1
  BY <1>2 DEF Announced
<1>6. \A g \in Gpus : Published(g) \subseteq Chunks
  BY DEF Published
<1>7. \A g \in Gpus : IsFiniteSet(Published(g))
  BY <1>1, <1>6, Numbers, FS_Subset
<1> QED
  BY <1>1, <1>2, <1>3, <1>4, <1>5, <1>6, <1>7, ReducerFacts

\* A GPU announces its slice when all of it is published, so every chunk is counted.
LEMMA TakenAnnounced ==
    ASSUME TypeOK, PublishInv, NEW g \in Gpus, NEW ch \in Chunks
    PROVE  Announced(g) <= Taken(g, ch)
<1>1. epoch[g] \in Nat \ {0} /\ 0 \in Reducers /\ Taken(g, ch) \in Nat /\ epoch[g] <= Taken(g, ch) + 1
  BY Shape
<1>2. CASE at[g][0] \in {"look", "finish"}
  BY <1>1, <1>2 DEF Announced
<1>3. CASE at[g][0] \notin {"look", "finish"}
  <2>1. Published(g) = Chunks
    BY <1>1, <1>3 DEF PublishInv
  <2>2. local_done_flag[g][ch] # 0
    BY <2>1 DEF PublishInv
  <2> QED
    BY <1>1, <1>3, <2>2 DEF Announced, Taken
<1> QED
  BY <1>2, <1>3

\* As long as a chunk is not published no GPU is in a later launch, and when it is
\* counted none is in an earlier one.
LEMMA NobodyAhead ==
    ASSUME TypeOK, PublishInv, EpochInv, NEW g \in Gpus, NEW ch \in Chunks, ch \notin Published(g)
    PROVE  /\ at[g][0] = "look" /\ Announced(g) = epoch[g] - 1
           /\ \A r \in Reducers : at[g][r] = "look"
           /\ \A d \in Gpus : epoch[d] <= epoch[g]
<1>1. epoch[g] \in Nat \ {0} /\ 0 \in Reducers /\ \A d \in Gpus : epoch[d] \in Nat
  BY Shape
<1>2. \A r \in Reducers : at[g][r] = "look"
  BY DEF PublishInv
<1>3. Announced(g) = epoch[g] - 1 /\ at[g][0] = "look"
  BY <1>1, <1>2 DEF Announced
<1>4. \A d \in Gpus : epoch[d] <= epoch[g]
  BY <1>1, <1>3 DEF EpochInv
<1> QED
  BY <1>2, <1>3, <1>4

LEMMA NobodyBehind ==
    ASSUME TypeOK, LagInv, NEW g \in Gpus, NEW ch \in Chunks, local_done_flag[g][ch] # 0
    PROVE  \A d \in Gpus : epoch[g] <= epoch[d]
<1> SUFFICES ASSUME NEW d \in Gpus PROVE epoch[g] <= epoch[d]
  OBVIOUS
<1>1. Taken(g, ch) = epoch[g]
  BY DEF Taken
<1>2. <<g, ch>> \in Gpus \X Chunks
  OBVIOUS
<1>3. Taken(g, ch) <= Signals(d, <<g, ch>>)
  BY DEF LagInv
<1>4. /\ Signals(d, <<g, ch>>) <= epoch[d] /\ Signals(d, <<g, ch>>) \in Nat
      /\ epoch[g] \in Nat /\ epoch[d] \in Nat
  BY <1>2, Shape
<1> QED
  BY <1>1, <1>3, <1>4

\* The chunk of a tile, and what a counted chunk holds.
LEMMA CountedWhole ==
    ASSUME TypeOK, SummedInv, NEW g \in Gpus, NEW ch \in Chunks, local_done_flag[g][ch] # 0
    PROVE  \A t \in TilesIn(ch) : t \in counted[g] /\ t \in summed[g] /\ staging[g][t] = Whole(epoch[g])
<1>1. TilesIn(ch) \subseteq counted[g]
  BY DEF SummedInv
<1>2. counted[g] \subseteq summed[g] /\ \A t \in summed[g] : staging[g][t] = Whole(epoch[g])
  BY DEF SummedInv
<1> QED
  BY <1>1, <1>2

\* What has come for a chunk that is not published is of this epoch.
LEMMA ArrivedNow ==
    ASSUME TypeOK, PublishInv, EpochInv, ArrivalInv, NEW g \in Gpus, NEW ch \in Chunks,
           ch \notin Published(g), NEW p \in peer_mask[g][ch]
    PROVE  recv[g][<<p, ch>>] = epoch[g] /\ p \in Peers
<1>1. p \in Peers /\ recv[g][<<p, ch>>] \in Nat /\ epoch[g] \in Nat \ {0} /\ <<p, ch>> \in Peers \X Chunks
  <2>1. p \in Peers
    BY DEF TypeOK, ArrivalTypes
  <2>2. recv \in [Gpus -> [Peers \X Chunks -> Nat]]
    BY DEF TypeOK, ArrivalTypes
  <2>3. epoch[g] \in Nat \ {0}
    BY Shape
  <2> QED
    BY <2>1, <2>2, <2>3
<1>2. at[g][0] = "look"
  BY NobodyAhead
<1>3. rung[g] = epoch[g] - 1
  BY <1>2 DEF ArrivalInv
<1>4. recv[g][<<p, ch>>] <= rung[g] + 1 /\ epoch[g] <= recv[g][<<p, ch>>]
  BY <1>1 DEF ArrivalInv
<1> QED
  BY <1>1, <1>3, <1>4

\* What is so when a launch is over.
LEMMA OverFacts ==
    ASSUME IInv, NEW g \in Gpus, KernelOver(g)
    PROVE  /\ \A w \in Gpus \X Chunks : Signals(g, w) = epoch[g]
           /\ \A ch \in Chunks : Taken(g, ch) = epoch[g] /\ local_done_flag[g][ch] # 0
           /\ Published(g) = Chunks /\ Announced(g) = epoch[g]
           /\ \A d \in Gpus : epoch[g] <= Announced(d)
           /\ cfg.nodes = 2 => posted[g] = {}
           /\ bell[g] = epoch[g] /\ rung[g] = epoch[g]
           /\ \A w \in Peers \X Chunks : epoch[g] <= recv[g][w]
<1>0. /\ TypeOK /\ ComputeInv /\ SendInv /\ PublishInv /\ EpochInv /\ ArrivalInv
      /\ cfg \in Configs /\ epoch[g] \in Nat \ {0} /\ 0 \in Reducers
  BY Shape DEF IInv
<1>1. computed[g] = Tasks /\ \A r \in Reducers : at[g][r] = "exit"
  BY DEF KernelOver, MainOver
<1>2. at[g][0] = "exit"
  BY <1>0, <1>1
<1>3. Published(g) = Chunks
  BY <1>0, <1>2 DEF PublishInv
<1>4. \A ch \in Chunks : Taken(g, ch) = epoch[g] /\ local_done_flag[g][ch] # 0 /\ peer_mask[g][ch] = Peers
  BY <1>0, <1>3 DEF PublishInv, Taken
<1>5. ASSUME NEW w \in Gpus \X Chunks PROVE Signals(g, w) = epoch[g]
  <2>1. computed[g] \cap TasksIn(w) = TasksIn(w)
    BY <1>1 DEF TasksIn
  <2>2. comp_chunk_tiles_done[g][w] = TilesOf(w[2])
    BY <1>0, <2>1, TasksInCount DEF ComputeInv
  <2> QED
    BY <2>2 DEF Signals
<1>6. Announced(g) = epoch[g]
  BY <1>2 DEF Announced
<1>7. \A d \in Gpus : epoch[g] <= Announced(d)
  BY <1>0, <1>2 DEF EpochInv
<1>8. (cfg.nodes = 2 => posted[g] = {}) /\ bell[g] = epoch[g] /\ rung[g] = epoch[g]
  BY <1>0, <1>2 DEF SendInv, ArrivalInv
<1>9. \A w \in Peers \X Chunks : epoch[g] <= recv[g][w]
  <2> SUFFICES ASSUME NEW p \in Peers, NEW ch \in Chunks PROVE epoch[g] <= recv[g][<<p, ch>>]
    OBVIOUS
  <2> QED
    BY <1>0, <1>4 DEF ArrivalInv
<1> QED
  BY <1>3, <1>4, <1>5, <1>6, <1>7, <1>8, <1>9

-----------------------------------------------------------------------------
\* What a step does to what the invariant is made of.

LEMMA EpochChange ==
    ASSUME TypeOK, NEW g \in Gpus, Step(g)
    PROVE  /\ \A h \in Gpus : h # g => epoch'[h] = epoch[h]
           /\ ~Launch(g) => epoch' = epoch
           /\ Launch(g) => epoch'[g] = epoch[g] + 1
<1>1. Changes(g) /\ epoch \in [Gpus -> Nat \ {0}]
  BY WhoChanges, Shape
<1>2. CASE Launch(g)
  BY <1>1, <1>2 DEF Launch
<1>3. CASE ~Launch(g)
  BY <1>1, <1>3 DEF Changes
<1> QED
  BY <1>2, <1>3

\* The last tile of a chunk is one signal more.
LEMMA ComputeIs ==
    ASSUME TypeOK, ComputeInv, NEW g \in Gpus, NEW k \in Tasks, Compute(g, k)
    PROVE  LET w == <<SliceOf(k), ChunkOf(TileOf(k))>>
               last == comp_chunk_tiles_done[g][w] = TilesOf(w[2]) - 1
           IN  /\ w \in Gpus \X Chunks /\ k \in TasksIn(w)
               /\ UNCHANGED <<cfg, epoch, local_done_flag, at, scan, published_chunks, final>>
               /\ computed' = [computed EXCEPT ![g] = @ \cup {k}] /\ k \notin computed[g]
               /\ C' = [C EXCEPT ![g][<<SliceOf(k), TileOf(k)>>] = epoch[g]]
               /\ comp_chunk_tiles_done' = [comp_chunk_tiles_done EXCEPT ![g][w] = @ + 1]
               /\ comp_chunk_tiles_done[g][w] \in Nat /\ comp_chunk_tiles_done[g][w] < TilesOf(w[2])
               /\ TilesOf(w[2]) \in Nat
               /\ barrier' = IF ~last THEN barrier
                             ELSE IF cfg.multimem THEN [barrier EXCEPT ![g][w] = epoch[g]]
                             ELSE [barrier EXCEPT ![w[1]][w] = @ + 1]
<1> DEFINE w == <<SliceOf(k), ChunkOf(TileOf(k))>>
           last == comp_chunk_tiles_done[g][w] = TilesOf(w[2]) - 1
<1>0. cfg \in Configs
  BY Shape
<1>1. w \in Gpus \X Chunks /\ w[1] = SliceOf(k) /\ w[2] = ChunkOf(TileOf(k))
  BY <1>0, TaskParts, TileChunk
<1>2. k \in TasksIn(w)
  BY <1>1 DEF TasksIn
<1>3. /\ UNCHANGED <<cfg, epoch, local_done_flag, at, scan, published_chunks, final>>
      /\ computed' = [computed EXCEPT ![g] = @ \cup {k}] /\ k \notin computed[g]
      /\ C' = [C EXCEPT ![g][<<SliceOf(k), TileOf(k)>>] = epoch[g]]
      /\ comp_chunk_tiles_done' = [comp_chunk_tiles_done EXCEPT ![g][w] = @ + 1]
      /\ barrier' = IF ~last THEN barrier
                    ELSE IF cfg.multimem THEN [barrier EXCEPT ![g][w] = epoch[g]]
                    ELSE [barrier EXCEPT ![w[1]][w] = @ + 1]
  BY <1>1 DEF Compute, reduce
<1> HIDE DEF w
<1>4. comp_chunk_tiles_done[g][w] \in Nat /\ comp_chunk_tiles_done[g][w] < TilesOf(w[2])
      /\ TilesOf(w[2]) \in Nat
  <2> DEFINE S == computed[g] \cap TasksIn(w)
             T == TasksIn(w)
  <2>1. IsFiniteSet(TasksIn(w)) /\ Cardinality(TasksIn(w)) = TilesOf(w[2])
    BY <1>0, <1>1, TasksInCount
  <2>2. S \subseteq TasksIn(w) /\ S # TasksIn(w)
    BY <1>2, <1>3
  <2>3. comp_chunk_tiles_done[g][w] = Cardinality(S)
    BY <1>1 DEF ComputeInv
  <2> HIDE DEF S
  <2>4. IsFiniteSet(S) /\ Cardinality(S) \in Nat /\ Cardinality(T) \in Nat
    BY <2>1, <2>2, FS_Subset, FS_CardinalityType
  <2>5. Cardinality(S) <= Cardinality(T) /\ (Cardinality(S) = Cardinality(T) => S = T)
    BY <2>1, <2>2, FS_Subset
  <2> QED
    BY <2>1, <2>2, <2>3, <2>4, <2>5
<1> QED
  BY <1>1, <1>2, <1>3, <1>4 DEF w

\* The signals of the GPUs: Compute makes one more, with the last tile.
LastTile(g, k) ==
    LET w == <<SliceOf(k), ChunkOf(TileOf(k))>>
    IN  comp_chunk_tiles_done[g][w] = TilesOf(w[2]) - 1

LEMMA SignalsChange ==
    ASSUME IInv, NEW g \in Gpus, Step(g)
    PROVE  \/ \A d \in Gpus : \A w \in Gpus \X Chunks : Signals(d, w)' = Signals(d, w)
           \/ \E k \in Tasks :
                /\ Compute(g, k) /\ LastTile(g, k)
                /\ \A d \in Gpus : \A w \in Gpus \X Chunks :
                     IF d = g /\ w = <<SliceOf(k), ChunkOf(TileOf(k))>>
                       THEN Signals(d, w)' = epoch[g] /\ Signals(d, w) = epoch[g] - 1
                       ELSE Signals(d, w)' = Signals(d, w)
<1>0. TypeOK /\ ComputeInv /\ Changes(g) /\ cfg' = cfg /\ cfg \in Configs
      /\ comp_chunk_tiles_done \in [Gpus -> [Gpus \X Chunks -> Nat]]
      /\ epoch \in [Gpus -> Nat \ {0}]
  BY WhoChanges DEF IInv, Changes, TypeOK, LaunchTypes
<1>1. \A ch : TilesOf(ch)' = TilesOf(ch)
  BY <1>0, LayoutStays
<1>3. ASSUME UNCHANGED <<comp_chunk_tiles_done, epoch>>
      PROVE  \A d \in Gpus : \A w \in Gpus \X Chunks : Signals(d, w)' = Signals(d, w)
  BY <1>1, <1>3 DEF Signals
<1>4. ASSUME Launch(g)
      PROVE  \A d \in Gpus : \A w \in Gpus \X Chunks : Signals(d, w)' = Signals(d, w)
  <2> SUFFICES ASSUME NEW d \in Gpus, NEW w \in Gpus \X Chunks
               PROVE  Signals(d, w)' = Signals(d, w)
    OBVIOUS
  <2>1. KernelOver(g) /\ epoch' = [epoch EXCEPT ![g] = @ + 1]
        /\ comp_chunk_tiles_done' = [comp_chunk_tiles_done EXCEPT ![g] = [x \in DOMAIN @ |-> 0]]
    BY <1>4 DEF Launch
  <2>2. CASE d = g
    <3>1. Signals(g, w) = epoch[g]
      BY <2>1, OverFacts
    <3>2. DOMAIN comp_chunk_tiles_done[g] = Gpus \X Chunks
      BY <1>0
    <3>3. comp_chunk_tiles_done'[g][w] = 0 /\ epoch'[g] = epoch[g] + 1
      BY <1>0, <2>1, <3>2
    <3>4. TilesOf(w[2]) # 0
      BY <1>0, TilesInCount
    <3>5. Signals(g, w)' = epoch'[g] - 1
      BY <1>1, <3>3, <3>4 DEF Signals
    <3> QED
      BY <1>0, <2>2, <3>1, <3>3, <3>5
  <2>3. CASE d # g
    <3>1. comp_chunk_tiles_done'[d] = comp_chunk_tiles_done[d] /\ epoch'[d] = epoch[d]
      BY <1>0, <2>1, <2>3
    <3> QED
      BY <1>1, <3>1 DEF Signals
  <2> QED
    BY <2>2, <2>3
<1>5. ASSUME NEW k \in Tasks, Compute(g, k)
      PROVE  \/ \A d \in Gpus : \A w \in Gpus \X Chunks : Signals(d, w)' = Signals(d, w)
             \/ /\ LastTile(g, k)
                /\ \A d \in Gpus : \A w \in Gpus \X Chunks :
                     IF d = g /\ w = <<SliceOf(k), ChunkOf(TileOf(k))>>
                       THEN Signals(d, w)' = epoch[g] /\ Signals(d, w) = epoch[g] - 1
                       ELSE Signals(d, w)' = Signals(d, w)
  <2>0. PICK v \in Gpus \X Chunks : v = <<SliceOf(k), ChunkOf(TileOf(k))>>
    BY <1>0, TaskParts, TileChunk
  <2>1. /\ epoch' = epoch
        /\ comp_chunk_tiles_done' = [comp_chunk_tiles_done EXCEPT ![g][v] = @ + 1]
        /\ comp_chunk_tiles_done[g][v] \in Nat /\ comp_chunk_tiles_done[g][v] < TilesOf(v[2])
        /\ TilesOf(v[2]) \in Nat
    BY <1>0, <1>5, <2>0, ComputeIs
  <2>2. LastTile(g, k) <=> comp_chunk_tiles_done[g][v] = TilesOf(v[2]) - 1
    BY <2>0 DEF LastTile
  <2>3. Signals(g, v) = epoch[g] - 1
    BY <2>1 DEF Signals
  <2>4. comp_chunk_tiles_done'[g][v] = comp_chunk_tiles_done[g][v] + 1
    BY <1>0, <2>1
  <2>5. Signals(g, v)' = IF LastTile(g, k) THEN epoch[g] ELSE epoch[g] - 1
    BY <1>1, <2>1, <2>2, <2>4 DEF Signals
  <2>6. ASSUME NEW d \in Gpus, NEW w \in Gpus \X Chunks, ~(d = g /\ w = v)
        PROVE  Signals(d, w)' = Signals(d, w)
    <3>1. comp_chunk_tiles_done'[d][w] = comp_chunk_tiles_done[d][w]
      BY <1>0, <2>1, <2>6
    <3> QED
      BY <1>1, <2>1, <3>1 DEF Signals
  <2>7. CASE LastTile(g, k)
    BY <2>0, <2>3, <2>5, <2>6, <2>7
  <2>8. CASE ~LastTile(g, k)
    BY <2>3, <2>5, <2>6, <2>8
  <2> QED
    BY <2>7, <2>8
<1> QED
  BY <1>0, <1>3, <1>4, <1>5 DEF Changes

\* The flag of a chunk is set with its last tile, and a claim leaves it set.
LEMMA CountIs ==
    ASSUME IInv, NEW g \in Gpus, NEW t \in Tiles, CountTile(g, t)
    PROVE  LET ch == ChunkOf(t)
               last == intra_chunk_tiles_done[g][ch] + 1 = TilesOf(ch)
               all == Cardinality(counted[g] \cap TilesIn(ch))
           IN  /\ ch \in Chunks /\ t \in TilesIn(ch) /\ t \in summed[g] /\ t \notin counted[g]
               /\ UNCHANGED <<cfg, epoch, comp_chunk_tiles_done, summed, staging, at, scan>>
               /\ counted' = [counted EXCEPT ![g] = @ \cup {t}]
               /\ local_done_flag[g][ch] = 0 /\ intra_chunk_tiles_done[g][ch] = all /\ all \in Nat
               /\ Cardinality((counted[g] \cup {t}) \cap TilesIn(ch)) = all + 1
               /\ last <=> TilesIn(ch) \subseteq counted[g] \cup {t}
               /\ intra_chunk_tiles_done' =
                    [intra_chunk_tiles_done EXCEPT ![g][ch] = IF last THEN 0 ELSE @ + 1]
               /\ local_done_flag' =
                    IF last THEN [local_done_flag EXCEPT ![g][ch] = 1] ELSE local_done_flag
               /\ barrier' = IF last /\ ~cfg.multimem
                    THEN [barrier EXCEPT ![g][<<g, ch>>] = @ - cfg.devices] ELSE barrier
<1> DEFINE ch == ChunkOf(t)
           last == intra_chunk_tiles_done[g][ch] + 1 = TilesOf(ch)
           S == counted[g] \cap TilesIn(ch)
           T == (counted[g] \cup {t}) \cap TilesIn(ch)
<1>0. TypeOK /\ SummedInv /\ cfg \in Configs
  BY Shape DEF IInv
<1>1. ch \in Chunks /\ t \in TilesIn(ch)
  BY <1>0, TileChunk DEF TilesIn
<1>2. /\ t \in summed[g] /\ t \notin counted[g]
      /\ UNCHANGED <<cfg, epoch, comp_chunk_tiles_done, summed, staging, at, scan>>
      /\ counted' = [counted EXCEPT ![g] = @ \cup {t}]
      /\ intra_chunk_tiles_done' =
           [intra_chunk_tiles_done EXCEPT ![g][ch] = IF last THEN 0 ELSE @ + 1]
      /\ local_done_flag' =
           IF last THEN [local_done_flag EXCEPT ![g][ch] = 1] ELSE local_done_flag
      /\ barrier' = IF last /\ ~cfg.multimem
           THEN [barrier EXCEPT ![g][<<g, ch>>] = @ - cfg.devices] ELSE barrier
  BY DEF CountTile, gemm, reduce
<1> HIDE DEF ch
<1>3. local_done_flag[g][ch] = 0
  BY <1>0, <1>1, <1>2 DEF SummedInv
<1>4. intra_chunk_tiles_done[g][ch] = Cardinality(S)
  BY <1>0, <1>1, <1>3 DEF SummedInv
<1>5. IsFiniteSet(TilesIn(ch)) /\ Cardinality(TilesIn(ch)) = TilesOf(ch)
  BY <1>0, <1>1, TilesInCount
<1>6. IsFiniteSet(S) /\ T = S \cup {t} /\ t \notin S
  <2>1. S \subseteq TilesIn(ch)
    OBVIOUS
  <2>2. IsFiniteSet(S)
    BY <1>5, <2>1, FS_Subset
  <2> QED
    BY <1>1, <1>2, <2>2
<1>7. Cardinality(T) = Cardinality(S) + 1 /\ Cardinality(S) \in Nat
  BY <1>6, FS_AddElement, FS_CardinalityType
<1>8. last <=> TilesIn(ch) \subseteq counted[g] \cup {t}
  <2>1. T \subseteq TilesIn(ch)
    OBVIOUS
  <2>2. Cardinality(TilesIn(ch)) = Cardinality(T) => TilesIn(ch) = T
    BY <1>5, <2>1, FS_Subset
  <2>3. TilesIn(ch) = T <=> TilesIn(ch) \subseteq counted[g] \cup {t}
    OBVIOUS
  <2>4. last <=> Cardinality(T) = Cardinality(TilesIn(ch))
    BY <1>4, <1>5, <1>7
  <2> HIDE DEF T, last
  <2> QED
    BY <2>2, <2>3, <2>4
<1> QED
  BY <1>1, <1>2, <1>3, <1>4, <1>7, <1>8 DEF ch

LEMMA FlagChange ==
    ASSUME IInv, NEW g \in Gpus, Step(g)
    PROVE  /\ \A h \in Gpus : h # g => local_done_flag'[h] = local_done_flag[h]
           /\ ~Launch(g) => \A ch \in Chunks : local_done_flag[g][ch] # 0 => local_done_flag'[g][ch] # 0
           /\ Launch(g) => \A ch \in Chunks : local_done_flag'[g][ch] = 0
<1>0. TypeOK /\ Changes(g) /\ local_done_flag \in [Gpus -> [Chunks -> {0, 1, 2}]]
  BY WhoChanges DEF IInv, TypeOK, SliceTypes
<1> DEFINE Goal ==
             /\ \A h \in Gpus : h # g => local_done_flag'[h] = local_done_flag[h]
             /\ \A ch \in Chunks : local_done_flag[g][ch] # 0 => local_done_flag'[g][ch] # 0
<1>1. ASSUME NEW c, NEW v \in {1, 2}, local_done_flag' = [local_done_flag EXCEPT ![g][c] = v]
      PROVE  Goal
  <2>1. local_done_flag' = [local_done_flag EXCEPT ![g] = [local_done_flag[g] EXCEPT ![c] = v]]
    BY <1>1
  <2>2. local_done_flag'[g] = [local_done_flag[g] EXCEPT ![c] = v]
    BY <1>0, <2>1
  <2>3. \A h \in Gpus : h # g => local_done_flag'[h] = local_done_flag[h]
    BY <1>0, <2>1
  <2>4. \A ch \in Chunks : local_done_flag'[g][ch] \in {v, local_done_flag[g][ch]}
    BY <1>0, <2>2
  <2> QED
    BY <2>3, <2>4
<1>2. ASSUME UNCHANGED local_done_flag PROVE Goal
  BY <1>2
<1>3. ASSUME NEW t \in Tiles, CountTile(g, t) PROVE Goal
  <2>1. \/ local_done_flag' = [local_done_flag EXCEPT ![g][ChunkOf(t)] = 1]
        \/ UNCHANGED local_done_flag
    BY <1>3 DEF CountTile
  <2> HIDE DEF Goal
  <2> QED
    BY <1>1, <1>2, <2>1
<1>4. ASSUME NEW r \in Reducers, ReduceClaimed(g, r) PROVE Goal
  <2>1. \/ UNCHANGED local_done_flag
        \/ \E ch \in Chunks : local_done_flag' = [local_done_flag EXCEPT ![g][ch] = 2]
    BY <1>0, <1>4, ClaimedIs
  <2> HIDE DEF Goal
  <2> QED
    BY <1>1, <1>2, <2>1
<1>5. ASSUME Launch(g)
      PROVE  /\ \A h \in Gpus : h # g => local_done_flag'[h] = local_done_flag[h]
             /\ \A ch \in Chunks : local_done_flag'[g][ch] = 0
  BY <1>0, <1>5 DEF Launch
<1>6. ~Launch(g) => Goal
  <2> HIDE DEF Goal
  <2> QED
    BY <1>0, <1>2, <1>3, <1>4 DEF Changes
<1> QED
  BY <1>5, <1>6

\* What the owner of a slice has taken back: with the last tile it counts, one more.
LEMMA TakenChange ==
    ASSUME IInv, NEW g \in Gpus, Step(g)
    PROVE  \/ \A h \in Gpus : \A ch \in Chunks : Taken(h, ch)' = Taken(h, ch)
           \/ \E t \in Tiles :
                /\ CountTile(g, t) /\ intra_chunk_tiles_done[g][ChunkOf(t)] + 1 = TilesOf(ChunkOf(t))
                /\ \A h \in Gpus : \A ch \in Chunks :
                     IF h = g /\ ch = ChunkOf(t)
                       THEN Taken(h, ch)' = epoch[g] /\ Taken(h, ch) = epoch[g] - 1
                       ELSE Taken(h, ch)' = Taken(h, ch)
<1>0. /\ TypeOK /\ Changes(g) /\ local_done_flag \in [Gpus -> [Chunks -> {0, 1, 2}]]
      /\ epoch \in [Gpus -> Nat \ {0}] /\ \A h \in Gpus : epoch[h] \in Nat \ {0}
  BY WhoChanges, Shape DEF IInv, TypeOK, SliceTypes
<1>1. CASE UNCHANGED <<local_done_flag, epoch>>
  BY <1>1 DEF Taken
<1>2. CASE Launch(g)
  <2>1. KernelOver(g)
    BY <1>2 DEF Launch
  <2>2. ASSUME NEW h \in Gpus, NEW ch \in Chunks PROVE Taken(h, ch)' = Taken(h, ch)
    <3>1. CASE h = g
      <4>1. Taken(g, ch) = epoch[g]
        BY <2>1, OverFacts
      <4>2. local_done_flag'[g][ch] = 0 /\ epoch'[g] = epoch[g] + 1
        BY <1>0, <1>2, FlagChange, EpochChange
      <4> QED
        BY <1>0, <3>1, <4>1, <4>2 DEF Taken
    <3>2. CASE h # g
      <4>1. local_done_flag'[h] = local_done_flag[h] /\ epoch'[h] = epoch[h]
        BY <1>0, <3>2, FlagChange, EpochChange
      <4> QED
        BY <4>1 DEF Taken
    <3> QED
      BY <3>1, <3>2
  <2> QED
    BY <2>2
<1>3. ASSUME NEW r \in Reducers, ReduceClaimed(g, r)
      PROVE  \A h \in Gpus : \A ch \in Chunks : Taken(h, ch)' = Taken(h, ch)
  <2>1. /\ epoch' = epoch
        /\ \/ UNCHANGED local_done_flag
           \/ \E ch \in Chunks : /\ local_done_flag[g][ch] = 1
                                 /\ local_done_flag' = [local_done_flag EXCEPT ![g][ch] = 2]
    BY <1>0, <1>3, ClaimedIs
  <2>2. ASSUME NEW c \in Chunks, local_done_flag[g][c] = 1,
               local_done_flag' = [local_done_flag EXCEPT ![g][c] = 2],
               NEW h \in Gpus, NEW ch \in Chunks
        PROVE  Taken(h, ch)' = Taken(h, ch)
    <3>1. local_done_flag'[h][ch] # 0 <=> local_done_flag[h][ch] # 0
      BY <1>0, <2>2
    <3> QED
      BY <2>1, <3>1 DEF Taken
  <2>3. UNCHANGED local_done_flag => \A h \in Gpus : \A ch \in Chunks : Taken(h, ch)' = Taken(h, ch)
    BY <2>1 DEF Taken
  <2> QED
    BY <2>1, <2>2, <2>3
<1>4. ASSUME NEW t \in Tiles, CountTile(g, t)
      PROVE  \/ \A h \in Gpus : \A ch \in Chunks : Taken(h, ch)' = Taken(h, ch)
             \/ /\ intra_chunk_tiles_done[g][ChunkOf(t)] + 1 = TilesOf(ChunkOf(t))
                /\ \A h \in Gpus : \A ch \in Chunks :
                     IF h = g /\ ch = ChunkOf(t)
                       THEN Taken(h, ch)' = epoch[g] /\ Taken(h, ch) = epoch[g] - 1
                       ELSE Taken(h, ch)' = Taken(h, ch)
  <2>1. PICK c \in Chunks : c = ChunkOf(t)
    BY <1>4, CountIs
  <2> DEFINE last == intra_chunk_tiles_done[g][c] + 1 = TilesOf(c)
  <2>2. /\ epoch' = epoch /\ local_done_flag[g][c] = 0
        /\ local_done_flag' = IF last THEN [local_done_flag EXCEPT ![g][c] = 1] ELSE local_done_flag
    BY <1>4, <2>1, CountIs
  <2>3. CASE ~last
    BY <2>2, <2>3 DEF Taken
  <2>4. CASE last
    <3>1. local_done_flag' = [local_done_flag EXCEPT ![g][c] = 1]
      BY <2>2, <2>4
    <3>2. \A h \in Gpus : \A ch \in Chunks :
            local_done_flag'[h][ch] = IF h = g /\ ch = c THEN 1 ELSE local_done_flag[h][ch]
      BY <1>0, <3>1
    <3>3. \A h \in Gpus : \A ch \in Chunks :
            IF h = g /\ ch = c THEN Taken(h, ch)' = epoch[g] /\ Taken(h, ch) = epoch[g] - 1
                               ELSE Taken(h, ch)' = Taken(h, ch)
      BY <2>2, <3>2 DEF Taken
    <3> QED
      BY <2>1, <2>4, <3>3
  <2> HIDE DEF last
  <2> QED
    BY <2>3, <2>4
<1> QED
  BY <1>0, <1>1, <1>2, <1>3, <1>4 DEF Changes

\* How a reduce CTA goes on.
LEMMA MoveIs ==
    ASSUME TypeOK, NEW g \in Gpus, Step(g)
    PROVE  \/ UNCHANGED at
           \/ /\ Launch(g) /\ \A r \in Reducers : at'[g][r] = "look"
              /\ \A h \in Gpus : h # g => at'[h] = at[h]
           \/ \E r \in Reducers : \E to \in Places :
                /\ \A h \in Gpus : \A s \in Reducers :
                     at'[h][s] = IF h = g /\ s = r THEN to ELSE at[h][s]
                /\ \/ ReduceEnds(g, r) /\ at[g][r] = "look" /\ to = "finish"
                   \/ FinishSignals(g) /\ r = 0 /\ at[g][r] = "finish" /\ to = "slices"
                   \/ FinishSees(g) /\ r = 0 /\ at[g][r] = "slices" /\ to = "reset"
                   \/ FinishWaits(g, r) /\ r # 0 /\ at[g][r] = "finish" /\ to = "reset"
                   \/ ResetFlags(g, r) /\ at[g][r] = "reset" /\ to = IF r = 0 THEN "barrier" ELSE "exit"
                   \/ BarrierOver(g) /\ r = 0 /\ at[g][r] = "barrier" /\ to = "exit"
<1>0. Changes(g) /\ at \in [Gpus -> [Reducers -> Places]] /\ 0 \in Reducers
  BY WhoChanges, Shape DEF TypeOK, ReduceTypes
<1> DEFINE Moved(r, to) ==
             \A h \in Gpus : \A s \in Reducers : at'[h][s] = IF h = g /\ s = r THEN to ELSE at[h][s]
<1>1. ASSUME NEW r \in Reducers, NEW to, Goes(g, r, to) PROVE Moved(r, to)
  BY <1>0, <1>1 DEF Goes
<1>2. ASSUME NEW r \in Reducers, ReduceEnds(g, r)
      PROVE  Moved(r, "finish") /\ at[g][r] = "look"
  BY <1>1, <1>2 DEF ReduceEnds
<1>3. ASSUME FinishSignals(g) PROVE Moved(0, "slices") /\ at[g][0] = "finish"
  BY <1>0, <1>1, <1>3 DEF FinishSignals
<1>4. ASSUME FinishSees(g) PROVE Moved(0, "reset") /\ at[g][0] = "slices"
  BY <1>0, <1>1, <1>4 DEF FinishSees
<1>5. ASSUME NEW r \in Reducers, FinishWaits(g, r)
      PROVE  Moved(r, "reset") /\ at[g][r] = "finish" /\ r # 0
  BY <1>1, <1>5 DEF FinishWaits
<1>6. ASSUME NEW r \in Reducers, ResetFlags(g, r)
      PROVE  Moved(r, IF r = 0 THEN "barrier" ELSE "exit") /\ at[g][r] = "reset"
  BY <1>1, <1>6 DEF ResetFlags
<1>7. ASSUME BarrierOver(g) PROVE Moved(0, "exit") /\ at[g][0] = "barrier"
  BY <1>0, <1>1, <1>7 DEF BarrierOver
<1>8. Launch(g) => /\ \A r \in Reducers : at'[g][r] = "look"
                   /\ \A h \in Gpus : h # g => at'[h] = at[h]
  BY <1>0 DEF Launch
<1>9. \A x \in {"finish", "slices", "reset", "barrier", "exit"} : x \in Places
  BY DEF Places
<1> DEFINE Goal ==
      \E r \in Reducers : \E to \in Places :
        /\ Moved(r, to)
        /\ \/ ReduceEnds(g, r) /\ at[g][r] = "look" /\ to = "finish"
           \/ FinishSignals(g) /\ r = 0 /\ at[g][r] = "finish" /\ to = "slices"
           \/ FinishSees(g) /\ r = 0 /\ at[g][r] = "slices" /\ to = "reset"
           \/ FinishWaits(g, r) /\ r # 0 /\ at[g][r] = "finish" /\ to = "reset"
           \/ ResetFlags(g, r) /\ at[g][r] = "reset" /\ to = IF r = 0 THEN "barrier" ELSE "exit"
           \/ BarrierOver(g) /\ r = 0 /\ at[g][r] = "barrier" /\ to = "exit"
<1> HIDE DEF Moved
<1>10. Moves(g) => Goal
  <2>1. (\E r \in Reducers : ReduceEnds(g, r)) => Goal
    BY <1>2, <1>9
  <2>2. FinishSignals(g) => Goal
    BY <1>0, <1>3, <1>9
  <2>3. FinishSees(g) => Goal
    BY <1>0, <1>4, <1>9
  <2>4. (\E r \in Reducers : FinishWaits(g, r)) => Goal
    BY <1>5, <1>9
  <2>5. ASSUME NEW r \in Reducers, ResetFlags(g, r) PROVE Goal
    <3>1. (IF r = 0 THEN "barrier" ELSE "exit") \in Places
      BY <1>9
    <3> QED
      BY <1>6, <2>5, <3>1
  <2>6. BarrierOver(g) => Goal
    BY <1>0, <1>7, <1>9
  <2> HIDE DEF Goal
  <2> QED
    BY <2>1, <2>2, <2>3, <2>4, <2>5, <2>6 DEF Moves
<1> HIDE DEF Goal
<1>11. UNCHANGED at \/ Launch(g) \/ Goal
  BY <1>0, <1>10 DEF Changes
<1> QED
  BY <1>8, <1>11 DEF Goal, Moved

\* A slice is announced by FinishSignals, and stays so when the next launch begins.
LEMMA AnnouncedChange ==
    ASSUME IInv, NEW g \in Gpus, Step(g)
    PROVE  /\ \A h \in Gpus : h # g => Announced(h)' = Announced(h)
           /\ FinishSignals(g) => Announced(g)' = epoch[g] /\ Announced(g) = epoch[g] - 1
           /\ ~FinishSignals(g) => UNCHANGED final_slot /\ Announced(g)' = Announced(g)
<1>0. /\ TypeOK /\ Changes(g) /\ at \in [Gpus -> [Reducers -> Places]] /\ 0 \in Reducers
      /\ \A h \in Gpus : epoch[h] \in Nat \ {0}
  BY WhoChanges, Shape DEF IInv, TypeOK, ReduceTypes
<1>1. CASE UNCHANGED at /\ UNCHANGED epoch
  <2>1. \A h \in Gpus : Announced(h)' = Announced(h)
    BY <1>1 DEF Announced
  <2>2. ~FinishSignals(g)
    <3> SUFFICES ASSUME FinishSignals(g) PROVE FALSE
      OBVIOUS
    <3>1. at' = [at EXCEPT ![g][0] = "slices"] /\ at[g][0] = "finish"
      BY DEF FinishSignals, Goes
    <3>2. at'[g][0] = "slices"
      BY <1>0, <3>1
    <3> QED
      BY <1>1, <3>1, <3>2
  <2> QED
    BY <1>0, <2>1, <2>2 DEF Changes
<1>2. CASE Launch(g)
  <2>1. /\ KernelOver(g) /\ UNCHANGED final_slot /\ epoch'[g] = epoch[g] + 1
        /\ at'[g][0] = "look" /\ \A h \in Gpus : h # g => at'[h] = at[h] /\ epoch'[h] = epoch[h]
    BY <1>0, <1>2 DEF Launch, TypeOK, LaunchTypes
  <2>2. Announced(g) = epoch[g]
    BY <2>1, OverFacts
  <2>3. Announced(g)' = epoch'[g] - 1
    BY <2>1 DEF Announced
  <2>4. Announced(g)' = Announced(g)
    BY <1>0, <2>1, <2>2, <2>3
  <2>5. \A h \in Gpus : h # g => Announced(h)' = Announced(h)
    BY <2>1 DEF Announced
  <2>6. ~FinishSignals(g)
    <3>1. at[g][0] = "exit"
      BY <1>0, <2>1 DEF KernelOver
    <3> QED
      BY <3>1 DEF FinishSignals
  <2> QED
    BY <2>1, <2>4, <2>5, <2>6
<1>3. CASE ~Launch(g) /\ ~UNCHANGED at
  <2>1. PICK r \in Reducers, to \in Places :
          /\ \A h \in Gpus : \A s \in Reducers :
               at'[h][s] = IF h = g /\ s = r THEN to ELSE at[h][s]
          /\ \/ ReduceEnds(g, r) /\ at[g][r] = "look" /\ to = "finish"
             \/ FinishSignals(g) /\ r = 0 /\ at[g][r] = "finish" /\ to = "slices"
             \/ FinishSees(g) /\ r = 0 /\ at[g][r] = "slices" /\ to = "reset"
             \/ FinishWaits(g, r) /\ r # 0 /\ at[g][r] = "finish" /\ to = "reset"
             \/ ResetFlags(g, r) /\ at[g][r] = "reset" /\ to = IF r = 0 THEN "barrier" ELSE "exit"
             \/ BarrierOver(g) /\ r = 0 /\ at[g][r] = "barrier" /\ to = "exit"
    BY <1>0, <1>3, MoveIs
  <2>2. epoch' = epoch
    BY <1>0, <1>3, EpochChange
  <2>3. \A h \in Gpus : h # g => Announced(h)' = Announced(h)
    BY <1>0, <2>1, <2>2 DEF Announced
  <2>4. CASE FinishSignals(g)
    <3>1. at[g][0] = "finish" /\ at' = [at EXCEPT ![g][0] = "slices"]
      BY <2>4 DEF FinishSignals, Goes
    <3>2. at'[g][0] = "slices"
      BY <1>0, <3>1
    <3> QED
      BY <2>2, <2>3, <2>4, <3>1, <3>2 DEF Announced
  <2>5. CASE ~FinishSignals(g)
    <3>1. at'[g][0] \in {"look", "finish"} <=> at[g][0] \in {"look", "finish"}
      BY <1>0, <2>1, <2>5
    <3>2. Announced(g)' = Announced(g)
      BY <2>2, <3>1 DEF Announced
    <3> QED
      BY <1>0, <2>3, <2>5, <3>2 DEF Changes
  <2> QED
    BY <2>4, <2>5
<1> QED
  BY <1>0, <1>1, <1>2, <1>3 DEF Changes

\* A chunk is published once it is counted and all peers have come, with what they sent
\* in this epoch.
Publishes(g, ch) ==
    /\ ~Launch(g) /\ UNCHANGED <<at, epoch>>
    /\ ch \notin Published(g) /\ Published(g)' = Published(g) \cup {ch}
    /\ local_done_flag[g][ch] # 0 /\ peer_mask[g][ch] = Peers
    /\ Publish(g, ch, [p \in Peers |-> <<epoch[g]>>])

LEMMA PublishedIs ==
    ASSUME cfg' = cfg, NEW h \in Gpus
    PROVE  Published(h)' = IF Static THEN {ch \in Chunks : ch < scan'[h][ch % NumReduce]}
                           ELSE {ch \in Chunks : local_done_flag'[h][ch] = 2}
  BY LaunchStays DEF Published

\* A CTA of the static scheme goes on to its next chunk.
LEMMA StridePublishes ==
    ASSUME IInv, NEW g \in Gpus, NEW r \in Reducers, cfg' = cfg, Static, scan[g][r] \in Chunks,
           scan' = [scan EXCEPT ![g][r] = @ + NumReduce]
    PROVE  /\ scan[g][r] \notin Published(g)
           /\ Published(g)' = Published(g) \cup {scan[g][r]}
<1> DEFINE c == scan[g][r]
           n == NumReduce
           s == scan[g]
<1>0. /\ n \in Nat \ {0} /\ Reducers = 0..(n - 1) /\ Chunks \subseteq Nat
      /\ scan \in [Gpus -> [Reducers -> Nat]] /\ cfg \in Configs
  BY Shape, ReducerFacts, Numbers DEF IInv, TypeOK, ReduceTypes
<1>1. c % n = r /\ c \in Nat
  BY <1>0 DEF IInv, PublishInv
<1>2. Published(g) = {ch \in Chunks : ch < s[ch % n]}
  BY DEF Published
<1>3. Published(g)' = {ch \in Chunks : ch < scan'[g][ch % n]}
  BY PublishedIs
<1>4. \A q \in Reducers : scan'[g][q] = IF q = r THEN c + n ELSE s[q]
  BY <1>0
<1>5. s[r] = c /\ \A q \in Reducers : s[q] \in Nat
  BY <1>0
<1> HIDE DEF c, n, s
<1>6. c \notin Published(g)
  BY <1>1, <1>2, <1>5
<1>7. ASSUME NEW ch \in Chunks
      PROVE  ch \in Published(g)' <=> ch \in Published(g) \/ ch = c
  <2>1. ch \in Nat /\ ch % n \in Reducers
    BY <1>0, Divides
  <2>2. CASE ch % n = r
    <3>1. ch < c + n => ch <= c
      BY <1>0, <1>1, <2>1, <2>2, StrideStays
    <3>2. ch \in Published(g)' <=> ch < c + n
      BY <1>3, <1>4, <2>1, <2>2
    <3>3. ch \in Published(g) <=> ch < c
      BY <1>2, <1>5, <2>2
    <3> QED
      BY <1>0, <1>1, <2>1, <3>1, <3>2, <3>3
  <2>3. CASE ch % n # r
    <3>1. ch \in Published(g)' <=> ch < s[ch % n]
      BY <1>3, <1>4, <2>1, <2>3
    <3> QED
      BY <1>1, <1>2, <2>3, <3>1
  <2> QED
    BY <2>2, <2>3
<1>8. Published(g) \subseteq Chunks /\ Published(g)' \subseteq Chunks /\ c \in Chunks
  BY <1>2, <1>3 DEF c
<1>9. Published(g)' = Published(g) \cup {c}
  BY <1>7, <1>8
<1> QED
  BY <1>6, <1>9 DEF c

LEMMA ReceivedNow ==
    ASSUME IInv, NEW g \in Gpus, NEW ch \in Chunks, ch \notin Published(g),
           peer_mask[g][ch] = Peers
    PROVE  Received(g, ch) = [p \in Peers |-> <<epoch[g]>>]
<1>1. \A p \in Peers : recv[g][<<p, ch>>] = epoch[g]
  BY ArrivedNow DEF IInv
<1> QED
  BY <1>1 DEF Received

LEMMA AddedNow ==
    ASSUME IInv, NEW g \in Gpus, NEW ch \in Chunks, ch \notin Published(g)
    PROVE  \A p \in Peers : IF p \in NewPeers(g, ch) \/ accum[g][ch][p] # <<>>
                              THEN p \in peer_mask[g][ch] /\ Added(g, ch)[p] = <<epoch[g]>>
                              ELSE Added(g, ch)[p] = <<>>
<1> SUFFICES ASSUME NEW p \in Peers
             PROVE  IF p \in NewPeers(g, ch) \/ accum[g][ch][p] # <<>>
                      THEN p \in peer_mask[g][ch] /\ Added(g, ch)[p] = <<epoch[g]>>
                      ELSE Added(g, ch)[p] = <<>>
  OBVIOUS
<1>1. CASE p \in NewPeers(g, ch)
  <2>1. p \in peer_mask[g][ch] /\ accum[g][ch][p] = <<>>
    BY <1>1 DEF NewPeers
  <2>2. recv[g][<<p, ch>>] = epoch[g]
    BY <2>1, ArrivedNow DEF IInv
  <2>3. epoch[g] \in Nat
    BY Shape DEF IInv
  <2>4. Received(g, ch)[p] = <<epoch[g]>>
    BY <2>2 DEF Received
  <2>5. Added(g, ch)[p] = <<>> \o <<epoch[g]>>
    BY <1>1, <2>1, <2>4 DEF Added
  <2>6. <<>> \o <<epoch[g]>> = <<epoch[g]>>
    BY <2>3
  <2> QED
    BY <1>1, <2>1, <2>5, <2>6
<1>2. CASE p \notin NewPeers(g, ch)
  <2>1. Added(g, ch)[p] = accum[g][ch][p]
    BY <1>2 DEF Added
  <2>2. accum[g][ch][p] # <<>> => p \in peer_mask[g][ch] /\ accum[g][ch][p] = <<epoch[g]>>
    BY DEF IInv, AccumInv
  <2> QED
    BY <1>2, <2>1, <2>2
<1> QED
  BY <1>1, <1>2

LEMMA PublishedChange ==
    ASSUME IInv, SameLayout, NEW g \in Gpus, Step(g)
    PROVE  /\ \A h \in Gpus : h # g => Published(h)' = Published(h)
           /\ \/ ~Launch(g) /\ UNCHANGED <<final, published_chunks>> /\ Published(g)' = Published(g)
              \/ Launch(g) /\ Published(g)' = {}
              \/ \E ch \in Chunks : Publishes(g, ch)
<1>0. /\ TypeOK /\ Changes(g) /\ cfg' = cfg /\ cfg \in Configs
      /\ scan \in [Gpus -> [Reducers -> Nat]]
      /\ local_done_flag \in [Gpus -> [Chunks -> {0, 1, 2}]]
  BY WhoChanges, Shape DEF IInv, TypeOK, Changes, ReduceTypes, SliceTypes
<1>1. Chunks \subseteq Nat /\ NumReduce \in Nat \ {0} /\ Reducers = 0..(NumReduce - 1)
  BY <1>0, Numbers, ReducerFacts
<1>2. ASSUME NEW h \in Gpus, scan'[h] = scan[h], local_done_flag'[h] = local_done_flag[h]
      PROVE  Published(h)' = Published(h)
  BY <1>0, <1>2, PublishedIs DEF Published
<1>3. ASSUME NEW h \in Gpus, h # g PROVE Published(h)' = Published(h)
  <2>1. local_done_flag'[h] = local_done_flag[h]
    BY <1>3, FlagChange
  <2>2. scan'[h] = scan[h]
    <3>1. ASSUME NEW r, NEW s, scan' = [scan EXCEPT ![g][r] = s] PROVE scan'[h] = scan[h]
      BY <1>0, <1>3, <3>1
    <3>2. ASSUME NEW r \in Reducers, ReduceStatic(g, r) PROVE scan'[h] = scan[h]
      <4>1. scan' = [scan EXCEPT ![g][r] = @ + NumReduce]
        BY <1>0, <3>2, StaticIs
      <4> QED
        BY <3>1, <4>1
    <3>3. ASSUME NEW r \in Reducers, ReduceEarly(g, r) PROVE scan'[h] = scan[h]
      <4>1. scan' = scan \/ scan' = [scan EXCEPT ![g][r] = @ + NumReduce]
        BY <1>0, <3>3, EarlyIs
      <4> QED
        BY <3>1, <4>1
    <3>4. ASSUME NEW r \in Reducers, ReduceClaimed(g, r) PROVE scan'[h] = scan[h]
      <4>1. \E s \in Nat : scan' = [scan EXCEPT ![g][r] = s]
        BY <1>0, <3>4, ClaimedIs
      <4> QED
        BY <3>1, <4>1
    <3>5. CASE Launch(g)
      BY <1>0, <1>3, <3>5 DEF Launch
    <3> QED
      BY <1>0, <3>2, <3>3, <3>4, <3>5 DEF Changes, Reduces
  <2> QED
    BY <1>2, <2>1, <2>2
<1> DEFINE Same == ~Launch(g) /\ UNCHANGED <<final, published_chunks>> /\ Published(g)' = Published(g)
           Goal == \/ Same
                   \/ Launch(g) /\ Published(g)' = {}
                   \/ \E ch \in Chunks : Publishes(g, ch)
<1>4. ASSUME Launch(g) PROVE Goal
  <2>1. CASE Static
    <3>1. \A r \in Reducers : scan'[g][r] = r
      BY <1>0, <1>4, <2>1 DEF Launch, ScanStart
    <3>2. ASSUME NEW ch \in Chunks, ch < scan'[g][ch % NumReduce] PROVE FALSE
      <4> DEFINE n == NumReduce
                 q == ch \div n
                 m == ch % n
      <4>1. ch \in Nat /\ n \in Nat \ {0}
        BY <1>1
      <4>2. m \in Nat /\ m < n /\ q \in Nat /\ ch = n * q + m /\ n * q \in Nat
        BY <4>1, Divides
      <4>3. m \in Reducers
        BY <1>1, <4>1, <4>2
      <4>4. ch < m
        BY <3>1, <3>2, <4>3
      <4> HIDE DEF n, q, m
      <4> QED
        BY <4>1, <4>2, <4>4
    <3>3. Published(g)' = {}
      BY <1>0, <2>1, <3>2, PublishedIs
    <3> QED
      BY <1>4, <3>3
  <2>2. CASE ~Static
    <3>1. \A ch \in Chunks : local_done_flag'[g][ch] = 0
      BY <1>4, FlagChange
    <3>2. Published(g)' = {}
      BY <1>0, <2>2, <3>1, PublishedIs
    <3> QED
      BY <1>4, <3>2
  <2> QED
    BY <2>1, <2>2
<1>5. ASSUME NEW r \in Reducers, ReduceStatic(g, r), ~Launch(g) PROVE Goal
  <2>1. PICK ch \in Chunks : ch = scan[g][r]
    BY <1>0, <1>5, StaticIs
  <2>2. /\ Static /\ ch \in remote_arrived_flag[g] /\ local_done_flag[g][ch] = 1
        /\ Publish(g, ch, Received(g, ch)) /\ scan' = [scan EXCEPT ![g][r] = @ + NumReduce]
        /\ UNCHANGED <<epoch, at>>
    BY <1>0, <1>5, <2>1, StaticIs
  <2>3. ch \notin Published(g) /\ Published(g)' = Published(g) \cup {ch}
    BY <1>0, <2>1, <2>2, StridePublishes
  <2>4. peer_mask[g][ch] = Peers
    BY <2>2 DEF IInv, ArrivalInv
  <2>5. Received(g, ch) = [p \in Peers |-> <<epoch[g]>>]
    BY <2>3, <2>4, ReceivedNow
  <2>6. Publishes(g, ch)
    BY <1>5, <2>2, <2>3, <2>4, <2>5 DEF Publishes
  <2> QED
    BY <2>6
<1>6. ASSUME NEW r \in Reducers, ReduceEarly(g, r), ~Launch(g) PROVE Goal
  <2>1. PICK ch \in Chunks : ch = scan[g][r]
    BY <1>0, <1>6, EarlyIs
  <2>2. /\ Static /\ UNCHANGED <<epoch, at, local_done_flag>>
        /\ IF Complete(g, ch)
             THEN Publish(g, ch, Added(g, ch)) /\ scan' = [scan EXCEPT ![g][r] = @ + NumReduce]
             ELSE UNCHANGED <<final, published_chunks, scan>>
    BY <1>0, <1>6, <2>1, EarlyIs
  <2>3. CASE ~Complete(g, ch)
    <3>1. Same
      BY <1>2, <1>6, <2>2, <2>3
    <3> QED
      BY <3>1
  <2>4. CASE Complete(g, ch)
    <3>1. ch \notin Published(g) /\ Published(g)' = Published(g) \cup {ch}
      BY <1>0, <2>1, <2>2, <2>4, StridePublishes
    <3>2. local_done_flag[g][ch] = 1 /\ \A p \in Peers : accum[g][ch][p] # <<>> \/ p \in NewPeers(g, ch)
      BY <2>4 DEF Complete
    <3>3. \A p \in Peers : p \in peer_mask[g][ch] /\ Added(g, ch)[p] = <<epoch[g]>>
      BY <3>1, <3>2, AddedNow
    <3>4. peer_mask[g][ch] = Peers
      BY <1>0, <3>3 DEF TypeOK, ArrivalTypes
    <3>5. Added(g, ch) = [p \in Peers |-> <<epoch[g]>>]
      BY <3>3 DEF Added
    <3>6. Publishes(g, ch)
      BY <1>6, <2>2, <2>4, <3>1, <3>2, <3>4, <3>5 DEF Publishes
    <3> QED
      BY <3>6
  <2> QED
    BY <2>3, <2>4
<1>7. ASSUME NEW r \in Reducers, ReduceClaimed(g, r), ~Launch(g) PROVE Goal
  <2>1. ~Static /\ UNCHANGED <<epoch, at>>
    BY <1>0, <1>7, ClaimedIs
  <2>2. Published(g)' = {ch \in Chunks : local_done_flag'[g][ch] = 2}
    BY <1>0, <2>1, PublishedIs
  <2>3. Published(g) = {ch \in Chunks : local_done_flag[g][ch] = 2}
    BY <2>1 DEF Published
  <2>4. CASE UNCHANGED <<local_done_flag, final, published_chunks>>
    BY <1>7, <2>2, <2>3, <2>4
  <2>5. ASSUME NEW ch \in Chunks, ch \in remote_arrived_flag[g], local_done_flag[g][ch] = 1,
               local_done_flag' = [local_done_flag EXCEPT ![g][ch] = 2],
               Publish(g, ch, Received(g, ch))
        PROVE  Goal
    <3>1. ch \notin Published(g)
      BY <2>3, <2>5
    <3>2. Published(g)' = Published(g) \cup {ch}
      BY <1>0, <2>2, <2>3, <2>5
    <3>3. peer_mask[g][ch] = Peers
      BY <2>5 DEF IInv, ArrivalInv
    <3>4. Received(g, ch) = [p \in Peers |-> <<epoch[g]>>]
      BY <3>1, <3>3, ReceivedNow
    <3>5. Publishes(g, ch)
      BY <1>7, <2>1, <2>5, <3>1, <3>2, <3>3, <3>4 DEF Publishes
    <3> QED
      BY <3>5
  <2> QED
    BY <1>0, <1>7, <2>4, <2>5, ClaimedIs
<1>8. ASSUME NEW t \in Tiles, CountTile(g, t), ~Launch(g), UNCHANGED <<final, published_chunks>>
      PROVE  Goal
  <2>1. PICK c \in Chunks : c = ChunkOf(t)
    BY <1>8, CountIs
  <2>2. scan' = scan /\ local_done_flag[g][c] = 0
        /\ local_done_flag' \in {local_done_flag, [local_done_flag EXCEPT ![g][c] = 1]}
    BY <1>8, <2>1, CountIs
  <2>3. \A ch \in Chunks : local_done_flag'[g][ch] = 2 <=> local_done_flag[g][ch] = 2
    BY <1>0, <2>2
  <2>4. Published(g)' = Published(g)
    <3>1. CASE Static
      BY <1>0, <2>2, <3>1, PublishedIs DEF Published
    <3>2. CASE ~Static
      <4>1. Published(g)' = {ch \in Chunks : local_done_flag'[g][ch] = 2}
        BY <1>0, <3>2, PublishedIs
      <4>2. Published(g) = {ch \in Chunks : local_done_flag[g][ch] = 2}
        BY <3>2 DEF Published
      <4> QED
        BY <2>3, <4>1, <4>2
    <3> QED
      BY <3>1, <3>2
  <2> QED
    BY <1>8, <2>4
<1>9. ASSUME ~Launch(g), ~Reduces(g) PROVE Goal
  <2>1. UNCHANGED <<scan, published_chunks, final>>
    BY <1>0, <1>9 DEF Changes
  <2>2. CASE UNCHANGED local_done_flag
    BY <1>2, <1>9, <2>1, <2>2
  <2> HIDE DEF Goal
  <2> QED
    BY <1>0, <1>8, <1>9, <2>1, <2>2 DEF Changes, Reduces
<1>10. Goal
  <2> HIDE DEF Goal
  <2> QED
    BY <1>4, <1>5, <1>6, <1>7, <1>9 DEF Reduces
<1> QED
  BY <1>3, <1>10

-----------------------------------------------------------------------------
\* Every step keeps the invariant.

\* fused_comp_sm counts the tiles that are in the buffer.
LEMMA ComputeStep ==
    ASSUME IInv, NEW g \in Gpus, Step(g)
    PROVE  ComputeInv'
<1>0. /\ TypeOK /\ ComputeInv /\ Changes(g) /\ cfg' = cfg /\ cfg \in Configs
      /\ computed \in [Gpus -> SUBSET Tasks] /\ C \in [Gpus -> [Gpus \X Tiles -> Nat]]
      /\ comp_chunk_tiles_done \in [Gpus -> [Gpus \X Chunks -> Nat]]
  BY WhoChanges DEF IInv, TypeOK, Changes, LaunchTypes
<1>1. /\ Gpus' = Gpus /\ Chunks' = Chunks /\ \A w : TasksIn(w)' = TasksIn(w)
      /\ \A k : SliceOf(k)' = SliceOf(k) /\ TileOf(k)' = TileOf(k)
  BY <1>0, LaunchStays, LayoutStays
<1> DEFINE At(h) == /\ \A k \in computed'[h] : C'[h][<<SliceOf(k), TileOf(k)>>] = epoch'[h]
                    /\ \A w \in Gpus \X Chunks :
                         comp_chunk_tiles_done'[h][w] = Cardinality(computed'[h] \cap TasksIn(w))
<1>2. SUFFICES ASSUME NEW h \in Gpus PROVE At(h)
  BY <1>1 DEF ComputeInv
<1>3. ASSUME computed'[h] = computed[h], C'[h] = C[h], epoch'[h] = epoch[h],
             comp_chunk_tiles_done'[h] = comp_chunk_tiles_done[h]
      PROVE  At(h)
  BY <1>0, <1>3 DEF ComputeInv
<1>4. ASSUME NEW k \in Tasks, Compute(g, k) PROVE At(h)
  <2>1. PICK v \in Gpus \X Chunks : v = <<SliceOf(k), ChunkOf(TileOf(k))>>
    BY <1>0, <1>4, ComputeIs
  <2>2. PICK x \in Gpus \X Tiles : x = <<SliceOf(k), TileOf(k)>>
    BY <1>0, TaskParts
  <2>3. /\ k \in TasksIn(v) /\ epoch' = epoch /\ k \notin computed[g]
        /\ computed' = [computed EXCEPT ![g] = @ \cup {k}]
        /\ C' = [C EXCEPT ![g][x] = epoch[g]]
        /\ comp_chunk_tiles_done' = [comp_chunk_tiles_done EXCEPT ![g][v] = @ + 1]
    BY <1>0, <1>4, <2>1, <2>2, ComputeIs
  <2>4. CASE h # g
    BY <1>0, <1>3, <2>3, <2>4
  <2>5. CASE h = g
    <3>1. computed'[g] = computed[g] \cup {k} /\ computed[g] \subseteq Tasks
      BY <1>0, <2>3
    <3>2. \A y \in Gpus \X Tiles : C'[g][y] = IF y = x THEN epoch[g] ELSE C[g][y]
      BY <1>0, <2>3
    <3>3. ASSUME NEW l \in computed'[g] PROVE C'[g][<<SliceOf(l), TileOf(l)>>] = epoch'[g]
      <4>1. l \in Tasks /\ (l = k \/ l \in computed[g])
        BY <3>1, <3>3
      <4>2. <<SliceOf(l), TileOf(l)>> \in Gpus \X Tiles
        BY <1>0, <4>1, TaskParts
      <4>3. l \in computed[g] => C[g][<<SliceOf(l), TileOf(l)>>] = epoch[g]
        BY <1>0 DEF ComputeInv
      <4> QED
        BY <2>2, <2>3, <3>2, <4>1, <4>2, <4>3
    <3>4. ASSUME NEW w \in Gpus \X Chunks
          PROVE  comp_chunk_tiles_done'[g][w] = Cardinality(computed'[g] \cap TasksIn(w))
      <4> DEFINE S == computed[g] \cap TasksIn(w)
      <4>1. comp_chunk_tiles_done[g][w] = Cardinality(S)
        BY <1>0 DEF ComputeInv
      <4>2. CASE w = v
        <5>1. computed'[g] \cap TasksIn(w) = S \cup {k} /\ k \notin S
          BY <2>3, <3>1, <4>2
        <5>2. IsFiniteSet(S)
          <6>1. S \subseteq TasksIn(w) /\ IsFiniteSet(TasksIn(w))
            BY <1>0, TasksInCount
          <6> QED
            BY <6>1, FS_Subset
        <5>3. Cardinality(S \cup {k}) = Cardinality(S) + 1
          BY <5>1, <5>2, FS_AddElement
        <5>4. comp_chunk_tiles_done'[g][w] = comp_chunk_tiles_done[g][w] + 1
          BY <1>0, <2>3, <4>2
        <5> QED
          BY <4>1, <5>1, <5>3, <5>4
      <4>3. CASE w # v
        <5>1. k \notin TasksIn(w)
          <6>1. v[1] = SliceOf(k) /\ v[2] = ChunkOf(TileOf(k)) /\ w = <<w[1], w[2]>>
            BY <2>1
          <6> QED
            BY <2>1, <4>3, <6>1 DEF TasksIn
        <5>2. computed'[g] \cap TasksIn(w) = S
          BY <3>1, <5>1
        <5>3. comp_chunk_tiles_done'[g][w] = comp_chunk_tiles_done[g][w]
          BY <1>0, <2>3, <4>3
        <5> QED
          BY <4>1, <5>2, <5>3
      <4> QED
        BY <4>2, <4>3
    <3> QED
      BY <2>5, <3>3, <3>4
  <2> QED
    BY <2>4, <2>5
<1>5. ASSUME Launch(g) PROVE At(h)
  <2>1. /\ epoch' = [epoch EXCEPT ![g] = @ + 1]
        /\ computed' = [computed EXCEPT ![g] = {}]
        /\ comp_chunk_tiles_done' = [comp_chunk_tiles_done EXCEPT ![g] = [w \in DOMAIN @ |-> 0]]
        /\ C' = [C EXCEPT ![g] = [w \in DOMAIN @ |-> 0]]
    BY <1>5 DEF Launch
  <2>2. CASE h # g
    <3>1. epoch'[h] = epoch[h]
      BY <1>0, <2>2, EpochChange
    <3> QED
      BY <1>0, <1>3, <2>1, <2>2, <3>1
  <2>3. CASE h = g
    <3>1. computed'[g] = {} /\ \A w \in Gpus \X Chunks : comp_chunk_tiles_done'[g][w] = 0
      BY <1>0, <2>1
    <3>2. \A w \in Gpus \X Chunks : computed'[g] \cap TasksIn(w) = {}
      BY <3>1
    <3> QED
      BY <2>3, <3>1, <3>2, FS_EmptySet
  <2> QED
    BY <2>2, <2>3
<1>6. ASSUME UNCHANGED <<computed, comp_chunk_tiles_done, C>>, UNCHANGED epoch PROVE At(h)
  BY <1>3, <1>6
<1> HIDE DEF At
<1> QED
  BY <1>0, <1>4, <1>5, <1>6 DEF Changes

\* The signals of a chunk and what its owner takes back balance, whatever launch the
\* GPUs are in.
LEMMA SignalStep ==
    ASSUME IInv, NEW g \in Gpus, Step(g)
    PROVE  SignalInv' /\ LagInv'
<1>0. /\ TypeOK /\ SignalInv /\ LagInv /\ SummedInv /\ PublishInv /\ EpochInv /\ ComputeInv
      /\ Changes(g) /\ cfg' = cfg /\ cfg \in Configs
      /\ barrier \in [Gpus -> [Gpus \X Chunks -> Int]] /\ cfg.multimem \in BOOLEAN
  BY WhoChanges, ConfigFacts DEF IInv, TypeOK, Changes, LaunchTypes
<1>1. Gpus' = Gpus /\ Chunks' = Chunks
  BY <1>0, LaunchStays
<1>2. /\ IsFiniteSet(Gpus) /\ Cardinality(Gpus) = cfg.devices /\ cfg.devices \in Nat
      /\ \A h \in Gpus : epoch[h] \in Nat \ {0}
  BY <1>0, Numbers, ConfigFacts, Shape
<1> DEFINE Few(h, ch) == {d \in Gpus : Signals(d, <<h, ch>>) = Taken(h, ch) + 1}
           NewFew(h, ch) == {d \in Gpus : Signals(d, <<h, ch>>)' = Taken(h, ch)' + 1}
           Balance(h, ch) == ~cfg.multimem => barrier'[h][<<h, ch>>] = Cardinality(NewFew(h, ch))
           Word(d, w) == cfg.multimem => barrier'[d][w] = Signals(d, w)'
           Lag(d, h, ch) == /\ Taken(h, ch)' <= Signals(d, <<h, ch>>)'
                            /\ Signals(d, <<h, ch>>)' <= Taken(h, ch)' + 1
<1>3. SUFFICES /\ \A d \in Gpus : \A w \in Gpus \X Chunks : Word(d, w)
               /\ \A h \in Gpus : \A ch \in Chunks : Balance(h, ch)
               /\ \A d, h \in Gpus : \A ch \in Chunks : Lag(d, h, ch)
  BY <1>0, <1>1 DEF SignalInv, LagInv
<1>4. \A h \in Gpus : \A ch \in Chunks : ~cfg.multimem => barrier[h][<<h, ch>>] = Cardinality(Few(h, ch))
  BY <1>0 DEF SignalInv
<1>5. cfg.multimem => \A d \in Gpus : \A w \in Gpus \X Chunks : barrier[d][w] = Signals(d, w)
  BY <1>0 DEF SignalInv
<1>6. ASSUME \A d \in Gpus : \A w \in Gpus \X Chunks : Signals(d, w)' = Signals(d, w),
             \A h \in Gpus : \A ch \in Chunks : Taken(h, ch)' = Taken(h, ch),
             barrier' = barrier
      PROVE  /\ \A d \in Gpus : \A w \in Gpus \X Chunks : Word(d, w)
             /\ \A h \in Gpus : \A ch \in Chunks : Balance(h, ch)
             /\ \A d, h \in Gpus : \A ch \in Chunks : Lag(d, h, ch)
  <2>1. \A h \in Gpus : \A ch \in Chunks : NewFew(h, ch) = Few(h, ch)
    BY <1>6
  <2>2. \A d, h \in Gpus : \A ch \in Chunks : Lag(d, h, ch)
    BY <1>0, <1>6 DEF LagInv
  <2> HIDE DEF Few, NewFew
  <2> QED
    BY <1>4, <1>5, <1>6, <2>1, <2>2
<1> DEFINE Goal == /\ \A d \in Gpus : \A w \in Gpus \X Chunks : Word(d, w)
                   /\ \A h \in Gpus : \A ch \in Chunks : Balance(h, ch)
                   /\ \A d, h \in Gpus : \A ch \in Chunks : Lag(d, h, ch)
<1>7. ASSUME NEW k \in Tasks, Compute(g, k), LastTile(g, k),
             \A d \in Gpus : \A w \in Gpus \X Chunks :
               IF d = g /\ w = <<SliceOf(k), ChunkOf(TileOf(k))>>
                 THEN Signals(d, w)' = epoch[g] /\ Signals(d, w) = epoch[g] - 1
                 ELSE Signals(d, w)' = Signals(d, w)
      PROVE  Goal
  <2>1. PICK o \in Gpus, c \in Chunks : <<o, c>> = <<SliceOf(k), ChunkOf(TileOf(k))>>
    BY <1>0, TaskParts, TileChunk
  <2> DEFINE v == <<SliceOf(k), ChunkOf(TileOf(k))>>
  <2>2. /\ UNCHANGED <<epoch, local_done_flag>>
        /\ barrier' = IF cfg.multimem THEN [barrier EXCEPT ![g][<<o, c>>] = epoch[g]]
                      ELSE [barrier EXCEPT ![o][<<o, c>>] = @ + 1]
    <3>1. /\ UNCHANGED <<epoch, local_done_flag>>
          /\ barrier' = IF cfg.multimem THEN [barrier EXCEPT ![g][v] = epoch[g]]
                        ELSE [barrier EXCEPT ![v[1]][v] = @ + 1]
      BY <1>0, <1>7, ComputeIs DEF LastTile
    <3>2. v = <<o, c>> /\ v[1] = o
      BY <2>1
    <3> HIDE DEF v
    <3> QED
      BY <3>1, <3>2
  <2>3. \A h \in Gpus : \A ch \in Chunks : Taken(h, ch)' = Taken(h, ch)
    BY <2>2 DEF Taken
  <2>4. \A d, h \in Gpus : \A ch \in Chunks :
          IF d = g /\ h = o /\ ch = c
            THEN Signals(d, <<h, ch>>)' = epoch[g] /\ Signals(d, <<h, ch>>) = epoch[g] - 1
            ELSE Signals(d, <<h, ch>>)' = Signals(d, <<h, ch>>)
    <3> SUFFICES ASSUME NEW d \in Gpus, NEW h \in Gpus, NEW ch \in Chunks
                 PROVE  IF d = g /\ h = o /\ ch = c
                          THEN Signals(d, <<h, ch>>)' = epoch[g] /\ Signals(d, <<h, ch>>) = epoch[g] - 1
                          ELSE Signals(d, <<h, ch>>)' = Signals(d, <<h, ch>>)
      OBVIOUS
    <3>1. <<h, ch>> = <<SliceOf(k), ChunkOf(TileOf(k))>> <=> h = o /\ ch = c
      BY <2>1
    <3>2. <<h, ch>> \in Gpus \X Chunks
      OBVIOUS
    <3> QED
      BY <1>7, <3>1, <3>2
  <2>5. Taken(o, c) = epoch[g] - 1
    <3>1. Announced(o) <= Taken(o, c) /\ epoch[g] <= Announced(o) + 1
      BY <1>0, TakenAnnounced DEF EpochInv
    <3>2. Taken(o, c) <= Signals(g, <<o, c>>)
      BY <1>0 DEF LagInv
    <3>3. Signals(g, <<o, c>>) = epoch[g] - 1
      BY <2>4
    <3>4. Taken(o, c) \in Nat /\ Announced(o) \in Nat /\ epoch[g] \in Nat
      BY <1>0, Shape
    <3> QED
      BY <3>1, <3>2, <3>3, <3>4
  <2>6. ASSUME NEW d \in Gpus, NEW w \in Gpus \X Chunks PROVE Word(d, w)
    <3> SUFFICES ASSUME cfg.multimem PROVE barrier'[d][w] = Signals(d, w)'
      OBVIOUS
    <3>1. barrier'[d][w] = IF d = g /\ w = <<o, c>> THEN epoch[g] ELSE barrier[d][w]
      BY <1>0, <2>2
    <3>2. Signals(d, w)' = IF d = g /\ w = <<o, c>> THEN epoch[g] ELSE Signals(d, w)
      BY <1>7, <2>1
    <3> QED
      BY <1>5, <3>1, <3>2
  <2>7. ASSUME NEW h \in Gpus, NEW ch \in Chunks PROVE Balance(h, ch)
    <3> SUFFICES ASSUME ~cfg.multimem PROVE barrier'[h][<<h, ch>>] = Cardinality(NewFew(h, ch))
      OBVIOUS
    <3>1. barrier[h][<<h, ch>>] = Cardinality(Few(h, ch))
      BY <1>4
    <3>2. CASE h = o /\ ch = c
      <4>1. NewFew(h, ch) = Few(h, ch) \cup {g}
        <5>1. \A d \in Gpus : Signals(d, <<h, ch>>)' = Taken(h, ch)' + 1
                               <=> d = g \/ Signals(d, <<h, ch>>) = Taken(h, ch) + 1
          BY <1>2, <2>3, <2>4, <2>5, <3>2
        <5> QED
          BY <5>1
      <4>2. g \notin Few(h, ch)
        BY <1>2, <2>4, <2>5, <3>2
      <4>3. IsFiniteSet(Few(h, ch))
        BY <1>2, FS_Subset
      <4>4. Cardinality(NewFew(h, ch)) = Cardinality(Few(h, ch)) + 1
        <5> HIDE DEF Few, NewFew
        <5> QED
          BY <4>1, <4>2, <4>3, FS_AddElement
      <4>5. barrier'[h][<<h, ch>>] = barrier[h][<<h, ch>>] + 1
        BY <1>0, <2>2, <3>2
      <4> QED
        BY <3>1, <4>4, <4>5
    <3>3. CASE ~(h = o /\ ch = c)
      <4>1. NewFew(h, ch) = Few(h, ch)
        BY <2>3, <2>4, <3>3
      <4>2. barrier'[h][<<h, ch>>] = barrier[h][<<h, ch>>]
        BY <1>0, <2>2, <3>3
      <4> HIDE DEF Few, NewFew
      <4> QED
        BY <3>1, <4>1, <4>2
    <3> QED
      BY <3>2, <3>3
  <2>8. ASSUME NEW d \in Gpus, NEW h \in Gpus, NEW ch \in Chunks PROVE Lag(d, h, ch)
    <3>1. Taken(h, ch) <= Signals(d, <<h, ch>>) /\ Signals(d, <<h, ch>>) <= Taken(h, ch) + 1
      BY <1>0 DEF LagInv
    <3>2. CASE d = g /\ h = o /\ ch = c
      BY <1>2, <2>3, <2>4, <2>5, <3>2
    <3>3. CASE ~(d = g /\ h = o /\ ch = c)
      BY <2>3, <2>4, <3>1, <3>3
    <3> QED
      BY <3>2, <3>3
  <2> QED
    BY <2>6, <2>7, <2>8
<1>8. ASSUME \A d \in Gpus : \A w \in Gpus \X Chunks : Signals(d, w)' = Signals(d, w),
             NEW t \in Tiles, CountTile(g, t),
             intra_chunk_tiles_done[g][ChunkOf(t)] + 1 = TilesOf(ChunkOf(t)),
             \A h \in Gpus : \A ch \in Chunks :
               IF h = g /\ ch = ChunkOf(t)
                 THEN Taken(h, ch)' = epoch[g] /\ Taken(h, ch) = epoch[g] - 1
                 ELSE Taken(h, ch)' = Taken(h, ch)
      PROVE  Goal
  <2>1. PICK c \in Chunks : c = ChunkOf(t)
    BY <1>8, CountIs
  <2>2. /\ t \in summed[g]
        /\ barrier' = IF ~cfg.multimem THEN [barrier EXCEPT ![g][<<g, c>>] = @ - cfg.devices]
                      ELSE barrier
    BY <1>8, <2>1, CountIs
  <2>3. \A d \in Gpus : Signals(d, <<g, c>>) = epoch[g]
    <3> SUFFICES ASSUME NEW d \in Gpus PROVE Signals(d, <<g, c>>) = epoch[g]
      OBVIOUS
    <3>1. Signals(d, <<g, c>>) >= epoch[g]
      BY <1>0, <2>1, <2>2 DEF SummedInv
    <3>2. Signals(d, <<g, c>>) <= Taken(g, c) + 1
      BY <1>0 DEF LagInv
    <3>3. Signals(d, <<g, c>>) \in Nat
      <4>1. <<g, c>> \in Gpus \X Chunks
        OBVIOUS
      <4> QED
        BY <1>0, <4>1, Shape
    <3> QED
      BY <1>2, <1>8, <2>1, <3>1, <3>2, <3>3
  <2>4. \A d, h \in Gpus : \A ch \in Chunks : Signals(d, <<h, ch>>)' = Signals(d, <<h, ch>>)
    BY <1>8
  <2>6. ASSUME NEW d \in Gpus, NEW w \in Gpus \X Chunks PROVE Word(d, w)
    BY <1>5, <1>8, <2>2
  <2>7. ASSUME NEW h \in Gpus, NEW ch \in Chunks PROVE Balance(h, ch)
    <3> SUFFICES ASSUME ~cfg.multimem PROVE barrier'[h][<<h, ch>>] = Cardinality(NewFew(h, ch))
      OBVIOUS
    <3>1. barrier[h][<<h, ch>>] = Cardinality(Few(h, ch))
      BY <1>4
    <3>2. CASE h = g /\ ch = c
      <4>1. Few(h, ch) = Gpus
        BY <1>2, <1>8, <2>1, <2>3, <3>2
      <4>2. NewFew(h, ch) = {}
        <5>1. \A d \in Gpus : Signals(d, <<h, ch>>)' # Taken(h, ch)' + 1
          BY <1>2, <1>8, <2>1, <2>3, <2>4, <3>2
        <5> QED
          BY <5>1
      <4>3. barrier'[h][<<h, ch>>] = barrier[h][<<h, ch>>] - cfg.devices
        BY <1>0, <2>2, <3>2
      <4> HIDE DEF Few, NewFew
      <4> QED
        BY <1>2, <3>1, <4>1, <4>2, <4>3, FS_EmptySet
    <3>3. CASE ~(h = g /\ ch = c)
      <4>1. NewFew(h, ch) = Few(h, ch)
        BY <1>8, <2>1, <2>4, <3>3
      <4>2. barrier'[h][<<h, ch>>] = barrier[h][<<h, ch>>]
        BY <1>0, <2>2, <3>3
      <4> HIDE DEF Few, NewFew
      <4> QED
        BY <3>1, <4>1, <4>2
    <3> QED
      BY <3>2, <3>3
  <2>8. ASSUME NEW d \in Gpus, NEW h \in Gpus, NEW ch \in Chunks PROVE Lag(d, h, ch)
    <3>1. Taken(h, ch) <= Signals(d, <<h, ch>>) /\ Signals(d, <<h, ch>>) <= Taken(h, ch) + 1
      BY <1>0 DEF LagInv
    <3>2. CASE h = g /\ ch = c
      BY <1>2, <1>8, <2>1, <2>3, <2>4, <3>2
    <3>3. CASE ~(h = g /\ ch = c)
      BY <1>8, <2>1, <2>4, <3>1, <3>3
    <3> QED
      BY <3>2, <3>3
  <2> QED
    BY <2>6, <2>7, <2>8
<1>9. ASSUME \A d \in Gpus : \A w \in Gpus \X Chunks : Signals(d, w)' = Signals(d, w),
             \A h \in Gpus : \A ch \in Chunks : Taken(h, ch)' = Taken(h, ch)
      PROVE  barrier' = barrier
  <2>1. ASSUME NEW k \in Tasks, Compute(g, k) PROVE barrier' = barrier
    <3>1. PICK v \in Gpus \X Chunks : v = <<SliceOf(k), ChunkOf(TileOf(k))>>
      BY <1>0, <2>1, ComputeIs
    <3> DEFINE last == comp_chunk_tiles_done[g][v] = TilesOf(v[2]) - 1
    <3>2. /\ comp_chunk_tiles_done' = [comp_chunk_tiles_done EXCEPT ![g][v] = @ + 1]
          /\ epoch' = epoch /\ TilesOf(v[2]) \in Nat /\ (~last => barrier' = barrier)
      BY <1>0, <2>1, <3>1, ComputeIs
    <3>3. ASSUME last PROVE FALSE
      <4>1. Signals(g, v) = epoch[g] - 1
        BY <3>2, <3>3 DEF Signals
      <4>2. comp_chunk_tiles_done'[g][v] = TilesOf(v[2])
        <5>1. comp_chunk_tiles_done \in [Gpus -> [Gpus \X Chunks -> Nat]]
          BY <1>0 DEF TypeOK, LaunchTypes
        <5>2. comp_chunk_tiles_done'[g][v] = comp_chunk_tiles_done[g][v] + 1
          BY <3>2, <5>1
        <5> QED
          BY <3>2, <3>3, <5>2
      <4>3. TilesOf(v[2])' = TilesOf(v[2])
        BY <1>0, LayoutStays
      <4>4. Signals(g, v)' = epoch[g]
        BY <3>2, <4>2, <4>3 DEF Signals
      <4> QED
        BY <1>2, <1>9, <4>1, <4>4
    <3> QED
      BY <3>2, <3>3
  <2>2. ASSUME NEW t \in Tiles, CountTile(g, t) PROVE barrier' = barrier
    <3>1. PICK c \in Chunks : c = ChunkOf(t)
      BY <2>2, CountIs
    <3> DEFINE last == intra_chunk_tiles_done[g][c] + 1 = TilesOf(c)
    <3>2. /\ epoch' = epoch /\ local_done_flag[g][c] = 0 /\ (~last => barrier' = barrier)
          /\ last => local_done_flag' = [local_done_flag EXCEPT ![g][c] = 1]
      BY <2>2, <3>1, CountIs
    <3>3. ASSUME last PROVE FALSE
      <4>1. local_done_flag'[g][c] = 1
        BY <1>0, <3>2, <3>3 DEF TypeOK, SliceTypes
      <4>2. Taken(g, c) = epoch[g] - 1 /\ Taken(g, c)' = epoch[g]
        BY <3>2, <4>1 DEF Taken
      <4> QED
        BY <1>2, <1>9, <4>2
    <3> QED
      BY <3>2, <3>3
  <2> QED
    BY <1>0, <2>1, <2>2 DEF Changes
<1> HIDE DEF Goal
<1>10. Goal
  BY <1>6, <1>7, <1>8, <1>9, SignalsChange, TakenChange DEF Goal
<1> QED
  BY <1>10 DEF Goal

\* When the intra-node CTAs see the signals of a chunk, every GPU has stored its tiles in
\* this launch: none is ahead, none behind.
LEMMA SumIs ==
    ASSUME IInv, NEW g \in Gpus, NEW t \in Tiles, SumTile(g, t)
    PROVE  /\ \A d \in Gpus : Signals(d, <<g, ChunkOf(t)>>) >= epoch[g]
           /\ staging' = [staging EXCEPT ![g][t] = Whole(epoch[g])]
           /\ t \notin summed[g] /\ summed' = [summed EXCEPT ![g] = @ \cup {t}]
           /\ UNCHANGED <<cfg, epoch, counted, intra_chunk_tiles_done, local_done_flag>>
<1>0. /\ TypeOK /\ SignalInv /\ LagInv /\ SummedInv /\ PublishInv /\ EpochInv /\ ComputeInv
      /\ cfg \in Configs /\ \A h \in Gpus : epoch[h] \in Nat \ {0}
      /\ C \in [Gpus -> [Gpus \X Tiles -> Nat]] /\ cfg.multimem \in BOOLEAN
  BY Shape, ConfigFacts DEF IInv, TypeOK, LaunchTypes
<1>1. /\ t \notin summed[g] /\ Signalled(g, ChunkOf(t))
      /\ staging' = [staging EXCEPT ![g][t] = [d \in Gpus |-> C[d][<<g, t>>]]]
      /\ summed' = [summed EXCEPT ![g] = @ \cup {t}]
      /\ UNCHANGED <<cfg, epoch, counted, intra_chunk_tiles_done, local_done_flag>>
  BY DEF SumTile
<1>2. PICK ch \in Chunks : ch = ChunkOf(t) /\ t \in TilesIn(ch)
  BY <1>0, TileChunk DEF TilesIn
<1>3. <<g, ch>> \in Gpus \X Chunks /\ <<g, t>> \in Gpus \X Tiles
  OBVIOUS
<1>4. /\ Taken(g, ch) \in Nat /\ epoch[g] <= Taken(g, ch) + 1
      /\ \A d \in Gpus : /\ Signals(d, <<g, ch>>) \in Nat /\ Signals(d, <<g, ch>>) <= epoch[d]
                         /\ Signals(d, <<g, ch>>) <= Taken(g, ch) + 1
  BY <1>0, <1>3, Shape DEF LagInv
<1>5. \A d \in Gpus : Signals(d, <<g, ch>>) >= epoch[g]
  <2>1. CASE cfg.multimem
    <3>1. \A d \in Gpus : barrier[d][<<g, ch>>] >= epoch[g]
      BY <1>1, <1>2, <2>1 DEF Signalled
    <3>2. \A d \in Gpus : barrier[d][<<g, ch>>] = Signals(d, <<g, ch>>)
      BY <1>0, <1>3, <2>1 DEF SignalInv
    <3> QED
      BY <3>1, <3>2
  <2>2. CASE ~cfg.multimem
    <3> DEFINE S == {d \in Gpus : Signals(d, <<g, ch>>) = Taken(g, ch) + 1}
    <3>1. barrier[g][<<g, ch>>] = cfg.devices
      BY <1>1, <1>2, <2>2 DEF Signalled
    <3>2. barrier[g][<<g, ch>>] = Cardinality(S)
      BY <1>0, <2>2 DEF SignalInv
    <3>3. S \subseteq Gpus /\ IsFiniteSet(Gpus) /\ Cardinality(Gpus) = cfg.devices
      BY <1>0, Numbers
    <3>4. S = Gpus
      <4> HIDE DEF S
      <4> QED
        BY <3>1, <3>2, <3>3, FS_Subset
    <3>5. \A d \in Gpus : Signals(d, <<g, ch>>) = Taken(g, ch) + 1
      BY <3>4
    <3> QED
      BY <1>0, <1>4, <3>5
  <2> QED
    BY <2>1, <2>2
<1>6. ch \notin Published(g)
  <2>1. t \notin counted[g]
    BY <1>0, <1>1 DEF SummedInv
  <2>2. local_done_flag[g][ch] = 0
    BY <1>0, <1>2, <2>1 DEF SummedInv
  <2> QED
    BY <1>0, <2>2 DEF PublishInv
<1>7. ASSUME NEW d \in Gpus PROVE C[d][<<g, t>>] = epoch[g]
  <2>1. epoch[d] <= epoch[g]
    BY <1>0, <1>6, NobodyAhead
  <2>2. epoch[d] = epoch[g] /\ Signals(d, <<g, ch>>) = epoch[d]
    <3>1. epoch[d] \in Nat /\ epoch[g] \in Nat
      BY <1>0
    <3>2. Signals(d, <<g, ch>>) \in Nat /\ Signals(d, <<g, ch>>) <= epoch[d]
      BY <1>4
    <3>3. Signals(d, <<g, ch>>) >= epoch[g]
      BY <1>5
    <3> QED
      BY <2>1, <3>1, <3>2, <3>3
  <2>3. comp_chunk_tiles_done[d][<<g, ch>>] = TilesOf(ch)
    BY <1>0, <2>2 DEF Signals
  <2> DEFINE T == TasksIn(<<g, ch>>)
             S == computed[d] \cap T
  <2>4. IsFiniteSet(T) /\ Cardinality(T) = TilesOf(ch)
    BY <1>0, <1>3, TasksInCount
  <2>5. comp_chunk_tiles_done[d][<<g, ch>>] = Cardinality(S)
    BY <1>0, <1>3 DEF ComputeInv
  <2>6. PICK k \in Tasks : SliceOf(k) = g /\ TileOf(k) = t
    BY <1>0, TaskExists
  <2>7. k \in T
    BY <1>2, <2>6 DEF TasksIn
  <2>8. S = T
    <3>1. S \subseteq T
      OBVIOUS
    <3> HIDE DEF S, T
    <3> QED
      BY <2>3, <2>4, <2>5, <3>1, FS_Subset
  <2>9. k \in computed[d]
    BY <2>7, <2>8
  <2> QED
    BY <1>0, <2>2, <2>6, <2>9 DEF ComputeInv
<1>8. [d \in Gpus |-> C[d][<<g, t>>]] = Whole(epoch[g])
  BY <1>7 DEF Whole
<1> QED
  BY <1>1, <1>2, <1>5, <1>8

\* What is summed stays whole, and the flag says that a chunk is counted.
LEMMA SummedStep ==
    ASSUME IInv, NEW g \in Gpus, Step(g)
    PROVE  SummedInv'
<1>0. /\ TypeOK /\ SummedInv /\ Changes(g) /\ cfg' = cfg /\ cfg \in Configs
      /\ summed \in [Gpus -> SUBSET Tiles] /\ counted \in [Gpus -> SUBSET Tiles]
      /\ staging \in [Gpus -> [Tiles -> Sums]]
      /\ intra_chunk_tiles_done \in [Gpus -> [Chunks -> Nat]]
      /\ local_done_flag \in [Gpus -> [Chunks -> {0, 1, 2}]]
      /\ \A h \in Gpus : epoch[h] \in Nat \ {0}
  BY WhoChanges, Shape DEF IInv, TypeOK, Changes, LaunchTypes, SliceTypes
<1>1. /\ Gpus' = Gpus /\ Chunks' = Chunks /\ \A ch : TilesIn(ch)' = TilesIn(ch)
      /\ \A t : ChunkOf(t)' = ChunkOf(t)
  BY <1>0, LaunchStays, LayoutStays
<1>2. \A h \in Gpus : Whole(epoch[h])' = Whole(epoch'[h])
  BY <1>1 DEF Whole
<1> DEFINE Held(h) == /\ counted'[h] \subseteq summed'[h]
                      /\ \A t \in summed'[h] : staging'[h][t] = Whole(epoch'[h])
           Heard(h) == \A t \in summed'[h] : \A d \in Gpus :
                         Signals(d, <<h, ChunkOf(t)>>)' >= epoch'[h]
           Counts(h) == \A ch \in Chunks :
             /\ local_done_flag'[h][ch] # 0 <=> TilesIn(ch) \subseteq counted'[h]
             /\ intra_chunk_tiles_done'[h][ch] =
                  IF local_done_flag'[h][ch] # 0 THEN 0 ELSE Cardinality(counted'[h] \cap TilesIn(ch))
<1>3. SUFFICES ASSUME NEW h \in Gpus PROVE Held(h) /\ Heard(h) /\ Counts(h)
  BY <1>1, <1>2 DEF SummedInv
<1>4. ASSUME NEW d \in Gpus, NEW ch \in Chunks, NEW n \in Nat, Signals(d, <<h, ch>>) >= n
      PROVE  Signals(d, <<h, ch>>)' >= n
  <2>1. PICK w \in Gpus \X Chunks : w = <<h, ch>>
    OBVIOUS
  <2>2. Signals(d, w) \in Nat /\ epoch[g] \in Nat
    BY <1>0, Shape
  <2>3. \/ Signals(d, w)' = Signals(d, w)
        \/ Signals(d, w)' = epoch[g] /\ Signals(d, w) = epoch[g] - 1
    BY SignalsChange
  <2>4. Signals(d, w)' >= n
    BY <1>4, <2>1, <2>2, <2>3
  <2> QED
    BY <2>1, <2>4
<1>5. ASSUME summed'[h] = summed[h], epoch'[h] = epoch[h] PROVE Heard(h)
  <2> SUFFICES ASSUME NEW t \in summed[h], NEW d \in Gpus
               PROVE  Signals(d, <<h, ChunkOf(t)>>)' >= epoch[h]
    BY <1>5
  <2>1. PICK ch \in Chunks : ch = ChunkOf(t)
    BY <1>0, TileChunk
  <2>2. Signals(d, <<h, ch>>) >= epoch[h]
    BY <1>0, <2>1 DEF SummedInv
  <2>3. epoch[h] \in Nat
    BY <1>0
  <2>4. Signals(d, <<h, ch>>)' >= epoch[h]
    BY <1>4, <2>2, <2>3
  <2>5. ChunkOf(t)' = ch
    BY <1>1, <2>1
  <2> QED
    BY <2>1, <2>4, <2>5
<1>6. ASSUME summed'[h] = summed[h], counted'[h] = counted[h], staging'[h] = staging[h],
             intra_chunk_tiles_done'[h] = intra_chunk_tiles_done[h], epoch'[h] = epoch[h],
             \A ch \in Chunks : local_done_flag'[h][ch] # 0 <=> local_done_flag[h][ch] # 0
      PROVE  Held(h) /\ Heard(h) /\ Counts(h)
  <2>1. Heard(h)
    BY <1>5, <1>6
  <2>5. counted[h] \subseteq summed[h] /\ \A t \in summed[h] : staging[h][t] = Whole(epoch[h])
    BY <1>0 DEF SummedInv
  <2>2. Held(h)
    BY <1>6, <2>5
  <2>3. \A ch \in Chunks :
          /\ local_done_flag[h][ch] # 0 <=> TilesIn(ch) \subseteq counted[h]
          /\ intra_chunk_tiles_done[h][ch] =
               IF local_done_flag[h][ch] # 0 THEN 0 ELSE Cardinality(counted[h] \cap TilesIn(ch))
    BY <1>0 DEF SummedInv
  <2>4. Counts(h)
    BY <1>6, <2>3
  <2> QED
    BY <2>1, <2>2, <2>4
<1>7. CASE h # g
  <2>1. local_done_flag'[h] = local_done_flag[h] /\ epoch'[h] = epoch[h]
    BY <1>0, <1>7, FlagChange, EpochChange
  <2>2. /\ summed'[h] = summed[h] /\ counted'[h] = counted[h]
        /\ intra_chunk_tiles_done'[h] = intra_chunk_tiles_done[h]
    <3>1. ASSUME NEW t \in Tiles, SumTile(g, t)
          PROVE  /\ summed'[h] = summed[h] /\ counted'[h] = counted[h]
                 /\ intra_chunk_tiles_done'[h] = intra_chunk_tiles_done[h]
      BY <1>0, <1>7, <3>1 DEF SumTile
    <3>2. ASSUME NEW t \in Tiles, CountTile(g, t)
          PROVE  /\ summed'[h] = summed[h] /\ counted'[h] = counted[h]
                 /\ intra_chunk_tiles_done'[h] = intra_chunk_tiles_done[h]
      BY <1>0, <1>7, <3>2 DEF CountTile
    <3>3. ASSUME Launch(g)
          PROVE  /\ summed'[h] = summed[h] /\ counted'[h] = counted[h]
                 /\ intra_chunk_tiles_done'[h] = intra_chunk_tiles_done[h]
      BY <1>0, <1>7, <3>3 DEF Launch
    <3> QED
      BY <1>0, <3>1, <3>2, <3>3 DEF Changes
  <2>3. staging'[h] = staging[h]
    <3>1. ASSUME NEW t \in Tiles, SumTile(g, t) PROVE staging'[h] = staging[h]
      BY <1>0, <1>7, <3>1 DEF SumTile
    <3> QED
      BY <1>0, <3>1 DEF Changes
  <2> QED
    BY <1>6, <2>1, <2>2, <2>3
<1>8. ASSUME h = g, NEW t \in Tiles, SumTile(g, t) PROVE Held(h) /\ Heard(h) /\ Counts(h)
  <2>1. /\ \A d \in Gpus : Signals(d, <<g, ChunkOf(t)>>) >= epoch[g]
        /\ staging' = [staging EXCEPT ![g][t] = Whole(epoch[g])]
        /\ t \notin summed[g] /\ summed' = [summed EXCEPT ![g] = @ \cup {t}]
        /\ UNCHANGED <<cfg, epoch, counted, intra_chunk_tiles_done, local_done_flag>>
    BY <1>8, SumIs
  <2>2. summed'[g] = summed[g] \cup {t}
    BY <1>0, <2>1
  <2>3. \A s \in Tiles : staging'[g][s] = IF s = t THEN Whole(epoch[g]) ELSE staging[g][s]
    BY <1>0, <2>1
  <2>4. Held(g)
    <3>1. summed[g] \subseteq Tiles /\ counted[g] \subseteq summed[g]
          /\ \A s \in summed[g] : staging[g][s] = Whole(epoch[g])
      BY <1>0 DEF SummedInv
    <3> QED
      BY <2>1, <2>2, <2>3, <3>1
  <2>5. Counts(g)
    BY <1>0, <2>1 DEF SummedInv
  <2>6. ASSUME NEW s \in summed'[g], NEW d \in Gpus
        PROVE  Signals(d, <<h, ChunkOf(s)>>)' >= epoch'[h]
    <3>1. s \in Tiles /\ epoch[h] \in Nat
      BY <1>0, <2>2, <2>6
    <3>2. PICK ch \in Chunks : ch = ChunkOf(s)
      BY <1>0, <3>1, TileChunk
    <3>3. Signals(d, <<h, ch>>) >= epoch[h]
      BY <1>0, <1>8, <2>1, <2>2, <2>6, <3>2 DEF SummedInv
    <3>4. Signals(d, <<h, ch>>)' >= epoch[h]
      BY <1>4, <3>1, <3>3
    <3>5. ChunkOf(s)' = ch
      BY <1>1, <3>2
    <3> QED
      BY <2>1, <3>2, <3>4, <3>5
  <2>7. Heard(h)
    BY <1>8, <2>6
  <2> QED
    BY <1>8, <2>4, <2>5, <2>7
<1>9. ASSUME h = g, NEW t \in Tiles, CountTile(g, t) PROVE Held(h) /\ Heard(h) /\ Counts(h)
  <2>1. PICK c \in Chunks : c = ChunkOf(t)
    BY <1>9, CountIs
  <2> DEFINE last == intra_chunk_tiles_done[g][c] + 1 = TilesOf(c)
             all == Cardinality(counted[g] \cap TilesIn(c))
  <2>2. /\ t \in TilesIn(c) /\ t \in summed[g] /\ t \notin counted[g]
        /\ UNCHANGED <<cfg, epoch, comp_chunk_tiles_done, summed, staging, at, scan>>
        /\ counted' = [counted EXCEPT ![g] = @ \cup {t}]
        /\ local_done_flag[g][c] = 0 /\ intra_chunk_tiles_done[g][c] = all /\ all \in Nat
        /\ Cardinality((counted[g] \cup {t}) \cap TilesIn(c)) = all + 1
        /\ last <=> TilesIn(c) \subseteq counted[g] \cup {t}
        /\ intra_chunk_tiles_done' =
             [intra_chunk_tiles_done EXCEPT ![g][c] = IF last THEN 0 ELSE @ + 1]
        /\ local_done_flag' =
             IF last THEN [local_done_flag EXCEPT ![g][c] = 1] ELSE local_done_flag
    BY <1>9, <2>1, CountIs
  <2>3. counted'[g] = counted[g] \cup {t}
    BY <1>0, <2>2
  <2>4. Held(g) /\ Heard(h)
    <3>1. Heard(h)
      BY <1>5, <2>2
    <3>2. Held(g)
      BY <1>0, <2>2, <2>3 DEF SummedInv
    <3> QED
      BY <3>1, <3>2
  <2>5. ASSUME NEW ch \in Chunks
        PROVE  /\ local_done_flag'[g][ch] # 0 <=> TilesIn(ch) \subseteq counted'[g]
               /\ intra_chunk_tiles_done'[g][ch] =
                    IF local_done_flag'[g][ch] # 0 THEN 0 ELSE Cardinality(counted'[g] \cap TilesIn(ch))
    <3>1. local_done_flag'[g][ch] = IF last /\ ch = c THEN 1 ELSE local_done_flag[g][ch]
      BY <1>0, <2>2
    <3>2. intra_chunk_tiles_done'[g][ch] =
            IF ch # c THEN intra_chunk_tiles_done[g][ch]
            ELSE IF last THEN 0 ELSE intra_chunk_tiles_done[g][ch] + 1
      <4>1. intra_chunk_tiles_done'[g] =
              [intra_chunk_tiles_done[g] EXCEPT ![c] = IF last THEN 0 ELSE @ + 1]
        BY <1>0, <2>2
      <4> QED
        BY <1>0, <4>1
    <3>3. CASE ch = c
      <4>1. CASE last
        BY <2>2, <2>3, <3>1, <3>2, <3>3, <4>1
      <4>2. CASE ~last
        <5>1. local_done_flag'[g][ch] = 0 /\ intra_chunk_tiles_done'[g][ch] = all + 1
          BY <2>2, <3>1, <3>2, <3>3, <4>2
        <5>2. ~(TilesIn(ch) \subseteq counted'[g])
          BY <2>2, <2>3, <3>3, <4>2
        <5>3. Cardinality(counted'[g] \cap TilesIn(ch)) = all + 1
          BY <2>2, <2>3, <3>3
        <5> QED
          BY <5>1, <5>2, <5>3
      <4> QED
        BY <4>1, <4>2
    <3>4. CASE ch # c
      <4>1. t \notin TilesIn(ch)
        BY <2>1, <2>2, <3>4 DEF TilesIn
      <4>2. /\ counted'[g] \cap TilesIn(ch) = counted[g] \cap TilesIn(ch)
            /\ TilesIn(ch) \subseteq counted'[g] <=> TilesIn(ch) \subseteq counted[g]
        BY <2>3, <4>1
      <4>3. /\ local_done_flag[g][ch] # 0 <=> TilesIn(ch) \subseteq counted[g]
            /\ intra_chunk_tiles_done[g][ch] =
                 IF local_done_flag[g][ch] # 0 THEN 0 ELSE Cardinality(counted[g] \cap TilesIn(ch))
        BY <1>0 DEF SummedInv
      <4> QED
        BY <3>1, <3>2, <3>4, <4>2, <4>3
    <3> QED
      BY <3>3, <3>4
  <2> QED
    BY <1>9, <2>4, <2>5
<1>10. ASSUME h = g, Launch(g) PROVE Held(h) /\ Heard(h) /\ Counts(h)
  <2>1. /\ summed'[g] = {} /\ counted'[g] = {}
        /\ \A ch \in Chunks : intra_chunk_tiles_done'[g][ch] = 0
        /\ \A ch \in Chunks : local_done_flag'[g][ch] = 0
    BY <1>0, <1>10 DEF Launch
  <2>2. \A ch \in Chunks : TilesIn(ch) # {}
    BY <1>0, TilesInCount
  <2>3. \A ch \in Chunks : counted'[g] \cap TilesIn(ch) = {}
    BY <2>1
  <2> QED
    BY <1>10, <2>1, <2>2, <2>3, FS_EmptySet
<1>11. ASSUME h = g, NEW r \in Reducers, ReduceClaimed(g, r)
       PROVE  Held(h) /\ Heard(h) /\ Counts(h)
  <2>1. UNCHANGED <<summed, counted, staging, intra_chunk_tiles_done>>
    BY <1>11 DEF ReduceClaimed, intra
  <2>2. /\ epoch' = epoch
        /\ \/ UNCHANGED local_done_flag
           \/ \E ch \in Chunks : /\ local_done_flag[g][ch] = 1
                                 /\ local_done_flag' = [local_done_flag EXCEPT ![g][ch] = 2]
    BY <1>0, <1>11, ClaimedIs
  <2>3. \A ch \in Chunks : local_done_flag'[h][ch] # 0 <=> local_done_flag[h][ch] # 0
    BY <1>0, <1>11, <2>2
  <2> QED
    BY <1>6, <2>1, <2>2, <2>3
<1> DEFINE Goal == Held(h) /\ Heard(h) /\ Counts(h)
<1>12. ASSUME UNCHANGED <<summed, counted, intra_chunk_tiles_done>>, UNCHANGED staging,
              UNCHANGED local_done_flag, UNCHANGED epoch
       PROVE  Goal
  BY <1>6, <1>12
<1> HIDE DEF Held, Heard, Counts
<1>13. CASE h = g
  <2>1. \/ Launch(g) \/ (\E t \in Tiles : SumTile(g, t)) \/ (\E t \in Tiles : CountTile(g, t))
        \/ (\E r \in Reducers : ReduceClaimed(g, r))
        \/ (/\ UNCHANGED <<summed, counted, intra_chunk_tiles_done>> /\ UNCHANGED staging
            /\ UNCHANGED local_done_flag /\ UNCHANGED epoch)
    BY <1>0 DEF Changes
  <2> QED
    BY <1>8, <1>9, <1>10, <1>11, <1>12, <1>13, <2>1
<1> QED
  BY <1>7, <1>13

\* fused_inter_send_sm sends a chunk that is counted; the NIC reads it before the peers
\* ring, and the barrier waits for their ring.
LEMMA SendStep ==
    ASSUME IInv, SameLayout, Paired, NEW g \in Gpus, Step(g)
    PROVE  SendInv'
<1>0. /\ TypeOK /\ SendInv /\ SummedInv /\ Changes(g) /\ cfg' = cfg /\ cfg \in Configs
      /\ issued \in [Gpus -> SUBSET Chunks] /\ posted \in [Gpus -> SUBSET (Peers \X Chunks \X Nat)]
      /\ sent \in [Gpus -> SUBSET [to : Peers, epoch : Nat, tile : Tiles, sum : Sums]]
      /\ bell \in [Gpus -> Nat] /\ 0 \in Reducers
      /\ \A h \in Gpus : epoch[h] \in Nat \ {0}
  BY WhoChanges, Shape DEF IInv, TypeOK, Changes, SendTypes, FinishTypes
<1>1. Gpus' = Gpus /\ Chunks' = Chunks /\ \A e : Whole(e)' = Whole(e)
  <2>1. Gpus' = Gpus /\ Chunks' = Chunks
    BY <1>0, LaunchStays
  <2> QED
    BY <2>1 DEF Whole
<1> DEFINE Counted(h) == \A ch \in issued'[h] : local_done_flag'[h][ch] # 0
           Asked(h) == \A m \in posted'[h] : m[2] \in issued'[h] /\ m[3] = epoch'[h]
           Wholes(h) == \A x \in sent'[h] : x.sum = Whole(x.epoch)
           Bell(h) == /\ bell'[h] <= epoch'[h]
                      /\ bell'[h] = epoch'[h] =>
                           issued'[h] = Chunks /\ (cfg.nodes = 2 => posted'[h] = {})
                      /\ at'[h][0] = "exit" => bell'[h] = epoch'[h]
           Goal(h) == Counted(h) /\ Asked(h) /\ Wholes(h) /\ Bell(h)
<1>2. SUFFICES ASSUME NEW h \in Gpus PROVE Goal(h)
  BY <1>0, <1>1 DEF SendInv
<1>3. /\ \A ch \in issued[h] : local_done_flag[h][ch] # 0
      /\ \A m \in posted[h] : m[2] \in issued[h] /\ m[3] = epoch[h]
      /\ \A x \in sent[h] : x.sum = Whole(x.epoch)
      /\ bell[h] <= epoch[h]
      /\ bell[h] = epoch[h] => issued[h] = Chunks /\ (cfg.nodes = 2 => posted[h] = {})
      /\ at[h][0] = "exit" => bell[h] = epoch[h]
      /\ issued[h] \subseteq Chunks
  BY <1>0 DEF SendInv
<1>4. ~(h = g /\ Launch(g)) =>
        /\ epoch'[h] = epoch[h]
        /\ \A ch \in Chunks : local_done_flag[h][ch] # 0 => local_done_flag'[h][ch] # 0
  BY <1>0, EpochChange, FlagChange
<1>5. at'[h][0] = "exit" /\ at[h][0] # "exit" => h = g /\ BarrierOver(g)
  <2> SUFFICES ASSUME at'[h][0] = "exit", at[h][0] # "exit" PROVE h = g /\ BarrierOver(g)
    OBVIOUS
  <2>1. ~UNCHANGED at
    BY <1>0
  <2>2. ~(Launch(g) /\ \A r \in Reducers : at'[g][r] = "look" /\ \A x \in Gpus : x # g => at'[x] = at[x])
    BY <1>0
  <2> QED
    BY <1>0, MoveIs
<1>6. BarrierOver(g) => bell[g] >= epoch[g] /\ UNCHANGED bell
  BY DEF BarrierOver, finish
<1>7. ASSUME issued'[h] = issued[h], posted'[h] = posted[h], sent'[h] = sent[h], bell' = bell,
             ~(h = g /\ Launch(g))
      PROVE  Goal(h)
  <2>1. Counted(h)
    BY <1>3, <1>4, <1>7
  <2>2. Asked(h) /\ Wholes(h)
    BY <1>3, <1>4, <1>7
  <2>3. Bell(h)
    BY <1>0, <1>3, <1>4, <1>5, <1>6, <1>7
  <2> QED
    BY <2>1, <2>2, <2>3
<1>8. ASSUME NEW ch \in Chunks, SendChunk(g, ch) PROVE Goal(h)
  <2>1. /\ ch \notin issued[g] /\ local_done_flag[g][ch] # 0
        /\ issued' = [issued EXCEPT ![g] = @ \cup {ch}]
        /\ posted' = [posted EXCEPT ![g] = @ \cup (Peers \X {ch} \X {epoch[g]})]
        /\ UNCHANGED <<epoch, sent, local_done_flag, at, bell>>
    BY <1>8 DEF SendChunk, reduce, finish
  <2>2. CASE h # g
    <3>1. issued'[h] = issued[h] /\ posted'[h] = posted[h] /\ sent'[h] = sent[h]
      BY <1>0, <2>1, <2>2
    <3> QED
      BY <1>7, <2>1, <2>2, <3>1
  <2>3. CASE h = g
    <3>1. issued'[g] = issued[g] \cup {ch} /\ posted'[g] = posted[g] \cup (Peers \X {ch} \X {epoch[g]})
      BY <1>0, <2>1
    <3>2. bell[g] # epoch[g]
      BY <1>3, <2>1, <2>3
    <3>3. Counted(h) /\ Asked(h) /\ Wholes(h)
      BY <1>3, <2>1, <2>3, <3>1
    <3>4. Bell(h)
      BY <1>3, <2>1, <2>3, <3>2
    <3> QED
      BY <3>3, <3>4
  <2> QED
    BY <2>2, <2>3
<1>9. ASSUME NEW m \in posted[g], NicReads(g, m) PROVE Goal(h)
  <2> DEFINE X == {[to |-> m[1], epoch |-> m[3], tile |-> t, sum |-> staging[g][t]]
                  : t \in Decode(m[2])}
  <2>1. /\ posted' = [posted EXCEPT ![g] = @ \ {m}] /\ sent' = [sent EXCEPT ![g] = @ \cup X]
        /\ UNCHANGED <<epoch, issued, local_done_flag, at, bell>>
    BY <1>9 DEF NicReads, reduce, finish
  <2>2. \A x \in X : x.sum = Whole(x.epoch)
    <3>1. m[2] \in Chunks /\ m[2] \in issued[g] /\ m[3] = epoch[g]
      BY <1>0, <1>9 DEF SendInv
    <3>2. local_done_flag[g][m[2]] # 0
      BY <1>0, <3>1 DEF SendInv
    <3>3. \A t \in TilesIn(m[2]) : staging[g][t] = Whole(epoch[g])
      BY <1>0, <3>1, <3>2, CountedWhole
    <3>4. Decode(m[2]) = TilesIn(m[2])
      BY <1>0, <3>1, DecodeIs
    <3> QED
      BY <3>1, <3>3, <3>4
  <2> HIDE DEF X
  <2>3. CASE h # g
    <3>1. issued'[h] = issued[h] /\ posted'[h] = posted[h] /\ sent'[h] = sent[h]
      BY <1>0, <2>1, <2>3
    <3> QED
      BY <1>7, <2>1, <2>3, <3>1
  <2>4. CASE h = g
    <3>1. posted'[g] = posted[g] \ {m} /\ sent'[g] = sent[g] \cup X
      BY <1>0, <2>1
    <3>2. Counted(h) /\ Asked(h) /\ Wholes(h)
      BY <1>3, <2>1, <2>2, <2>4, <3>1
    <3>3. Bell(h)
      BY <1>3, <2>1, <2>4, <3>1
    <3> QED
      BY <3>2, <3>3
  <2> QED
    BY <2>3, <2>4
<1>10. ASSUME PeerRings(g) PROVE Goal(h)
  <2>1. /\ issued[g] = Chunks /\ (cfg.nodes = 2 => posted[g] = {}) /\ bell' = [bell EXCEPT ![g] = epoch[g]]
        /\ UNCHANGED <<epoch, issued, posted, sent, local_done_flag, at>>
    <3>1. /\ bell' = [bell EXCEPT ![g] = epoch[g]]
          /\ UNCHANGED <<epoch, issued, posted, sent, local_done_flag, at>>
      BY <1>10 DEF PeerRings, send, reduce
    <3>2. PICK p \in Peers : Ended(g, p, epoch[g])
      BY <1>10 DEF PeerRings
    <3>3. issued[g] = Chunks
      BY <1>0, <3>2 DEF Ended
    <3>4. ASSUME cfg.nodes = 2, NEW m \in posted[g] PROVE FALSE
      <4>1. Peers = {0}
        BY <3>4 DEF Peers
      <4>2. m[1] = p /\ m[3] = epoch[g]
        BY <1>0, <4>1 DEF SendInv
      <4> QED
        BY <1>0, <3>2, <4>2 DEF Ended
    <3> QED
      BY <3>1, <3>3, <3>4
  <2>2. Counted(h) /\ Asked(h) /\ Wholes(h)
    BY <1>3, <2>1
  <2>3. bell'[h] = IF h = g THEN epoch[g] ELSE bell[h]
    BY <1>0, <2>1
  <2>4. Bell(h)
    BY <1>0, <1>3, <2>1, <2>3
  <2> QED
    BY <2>2, <2>4
<1>11. ASSUME Launch(g) PROVE Goal(h)
  <2>1. /\ issued' = [issued EXCEPT ![g] = {}] /\ sent' = [sent EXCEPT ![g] = {}]
        /\ UNCHANGED <<posted, bell>> /\ KernelOver(g)
    BY <1>11 DEF Launch
  <2>2. CASE h # g
    <3>1. issued'[h] = issued[h] /\ posted'[h] = posted[h] /\ sent'[h] = sent[h]
      BY <1>0, <2>1, <2>2
    <3> QED
      BY <1>7, <2>1, <2>2, <3>1
  <2>3. CASE h = g
    <3>0. cfg.nodes = 2
      BY <1>0, <1>11, ConfigAssumption DEF Launch, Paired
    <3>1. posted[g] = {} /\ bell[g] = epoch[g] /\ epoch'[g] = epoch[g] + 1
      BY <1>0, <1>11, <2>1, <3>0, OverFacts, EpochChange
    <3>2. issued'[g] = {} /\ sent'[g] = {} /\ at'[g][0] = "look"
      BY <1>0, <1>11, <2>1 DEF Launch, TypeOK, ReduceTypes
    <3>3. Counted(h) /\ Asked(h) /\ Wholes(h)
      BY <2>1, <2>3, <3>1, <3>2
    <3>4. Bell(h)
      BY <1>0, <2>1, <2>3, <3>1, <3>2
    <3> QED
      BY <3>3, <3>4
  <2> QED
    BY <2>2, <2>3
<1>12. ASSUME UNCHANGED <<issued, posted, sent>>, UNCHANGED bell, ~Launch(g) PROVE Goal(h)
  BY <1>7, <1>12
<1> HIDE DEF Goal
<1> QED
  BY <1>0, <1>8, <1>9, <1>10, <1>11, <1>12 DEF Changes

\* gemm_ar_drain_arrival_queue_publish_flags takes a word, and notes its peer.
LEMMA DrainIs ==
    ASSUME TypeOK, NEW g \in Gpus, NEW q \in Queues, DrainWord(g, q)
    PROVE  \E i \in 1..TotalChunks : \E w \in Words :
             /\ words[g][q][i] = w /\ w # <<>>
             /\ peer_mask' = [peer_mask EXCEPT ![g][w[2]] = @ \cup {w[1]}]
             /\ \/ remote_arrived_flag' = remote_arrived_flag
                \/ /\ Cardinality(peer_mask[g][w[2]] \cup {w[1]}) >= cfg.nodes - 1
                   /\ remote_arrived_flag' = [remote_arrived_flag EXCEPT ![g] = @ \cup {w[2]}]
             /\ UNCHANGED <<epoch, at, rung, recv>>
<1> DEFINE i == arrival_queue_head[g][q] + 1
           w == words[g][q][i]
<1>0. /\ arrival_queue_head[g][q] \in Nat /\ TotalChunks \in Nat
      /\ words[g][q] \in [1..TotalChunks -> {<<>>} \cup Words]
  <2>1. cfg \in Configs
    BY Shape
  <2>2. TotalChunks \in Nat
    BY <2>1, Numbers
  <2> DEFINE V == [1..TotalChunks -> {<<>>} \cup Words]
  <2>3. arrival_queue_head \in [Gpus -> [Queues -> Nat]] /\ words \in [Gpus -> [Queues -> V]]
    BY DEF TypeOK, ArrivalTypes
  <2> HIDE DEF V
  <2>4. arrival_queue_head[g][q] \in Nat /\ words[g][q] \in V
    BY <2>3
  <2> QED
    BY <2>2, <2>4 DEF V
<1>1. /\ arrival_queue_head[g][q] < TotalChunks /\ w # <<>>
      /\ peer_mask' = [peer_mask EXCEPT ![g][w[2]] = @ \cup {w[1]}]
      /\ \/ remote_arrived_flag' = remote_arrived_flag
         \/ /\ Cardinality(peer_mask[g][w[2]] \cup {w[1]}) >= cfg.nodes - 1
            /\ remote_arrived_flag' = [remote_arrived_flag EXCEPT ![g] = @ \cup {w[2]}]
      /\ UNCHANGED <<epoch, at, rung, recv>>
  BY DEF DrainWord, reduce, finish, net
<1>2. i \in 1..TotalChunks
  <2>1. arrival_queue_head[g][q] \in Nat /\ TotalChunks \in Nat
    BY <1>0
  <2>2. arrival_queue_head[g][q] < TotalChunks
    BY <1>1
  <2> QED
    BY <2>1, <2>2
<1> HIDE DEF i
<1>3. w \in Words
  BY <1>0, <1>1, <1>2
<1> QED
  BY <1>1, <1>2, <1>3

\* The peers that have come only grow in number within a launch.
LEMMA MaskChange ==
    ASSUME TypeOK, NEW g \in Gpus, Step(g)
    PROVE  /\ \A h \in Gpus : h # g => peer_mask'[h] = peer_mask[h]
           /\ ~Launch(g) => \A ch \in Chunks : peer_mask[g][ch] \subseteq peer_mask'[g][ch]
<1>0. Changes(g) /\ peer_mask \in [Gpus -> [Chunks -> SUBSET Peers]]
  BY WhoChanges DEF TypeOK, ArrivalTypes
<1> DEFINE Goal == /\ \A h \in Gpus : h # g => peer_mask'[h] = peer_mask[h]
                   /\ ~Launch(g) => \A ch \in Chunks : peer_mask[g][ch] \subseteq peer_mask'[g][ch]
<1>1. ASSUME NEW q \in Queues, DrainWord(g, q) PROVE Goal
  <2>0. PICK w \in Words : peer_mask' = [peer_mask EXCEPT ![g][w[2]] = @ \cup {w[1]}]
    BY <1>1, DrainIs
  <2>1. PICK c, p : peer_mask' = [peer_mask EXCEPT ![g][c] = @ \cup {p}]
    BY <2>0
  <2>2. \A h \in Gpus : h # g => peer_mask'[h] = peer_mask[h]
    BY <1>0, <2>1
  <2>3. peer_mask'[g] = [peer_mask[g] EXCEPT ![c] = @ \cup {p}]
    BY <1>0, <2>1
  <2>4. \A ch \in Chunks : peer_mask[g][ch] \subseteq peer_mask'[g][ch]
    BY <1>0, <2>3
  <2> QED
    BY <2>2, <2>4
<1>2. ASSUME Launch(g) PROVE Goal
  BY <1>0, <1>2 DEF Launch
<1>3. ASSUME UNCHANGED drain PROVE Goal
  BY <1>3 DEF drain
<1> HIDE DEF Goal
<1>4. Goal
  BY <1>0, <1>1, <1>2, <1>3 DEF Changes
<1> QED
  BY <1>4 DEF Goal

\* Each chunk is published once; a CTA leaves when all are, and the static ones keep to
\* their own.
LEMMA PublishStep ==
    ASSUME IInv, SameLayout, NEW g \in Gpus, Step(g)
    PROVE  PublishInv'
<1>0. /\ TypeOK /\ TypeOK' /\ PublishInv /\ Changes(g) /\ cfg' = cfg /\ cfg \in Configs
      /\ published_chunks \in [Gpus -> Nat] /\ scan \in [Gpus -> [Reducers -> Nat]]
      /\ peer_mask' \in [Gpus -> [Chunks -> SUBSET Peers]]
      /\ NumReduce \in Nat \ {0} /\ Reducers = 0..(NumReduce - 1)
  <2>1. TypeOK /\ TypeOK' /\ PublishInv /\ Changes(g) /\ cfg' = cfg /\ cfg \in Configs
    BY TypesStep, WhoChanges, Shape DEF IInv, Changes
  <2>2. Gpus' = Gpus /\ Chunks' = Chunks /\ Peers' = Peers
    BY <2>1, LaunchStays
  <2>3. peer_mask' \in [Gpus -> [Chunks -> SUBSET Peers]]
    BY <2>1, <2>2 DEF TypeOK, ArrivalTypes
  <2>4. NumReduce \in Nat \ {0} /\ Reducers = 0..(NumReduce - 1)
    BY <2>1, ReducerFacts
  <2> QED
    BY <2>1, <2>3, <2>4 DEF TypeOK, ReduceTypes
<1>1. /\ Gpus' = Gpus /\ Chunks' = Chunks /\ Peers' = Peers /\ Reducers' = Reducers
      /\ NumReduce' = NumReduce /\ (Static' <=> Static)
  BY <1>0, LaunchStays
<1> DEFINE Counted(h) == published_chunks'[h] = Cardinality(Published(h)')
           Whole1(h) == \A ch \in Published(h)' : local_done_flag'[h][ch] # 0 /\ peer_mask'[h][ch] = Peers
           Left(h) == \A r \in Reducers : at'[h][r] # "look" => Published(h)' = Chunks
           Own(h) == Static => \A r \in Reducers : scan'[h][r] % NumReduce = r
<1>2. SUFFICES ASSUME NEW h \in Gpus PROVE Counted(h) /\ Whole1(h) /\ Left(h) /\ Own(h)
  BY <1>1 DEF PublishInv
<1>3. /\ published_chunks[h] = Cardinality(Published(h))
      /\ \A ch \in Published(h) : local_done_flag[h][ch] # 0 /\ peer_mask[h][ch] = Peers
      /\ \A r \in Reducers : at[h][r] # "look" => Published(h) = Chunks
      /\ Static => \A r \in Reducers : scan[h][r] % NumReduce = r
      /\ Published(h) \subseteq Chunks /\ IsFiniteSet(Published(h))
  BY <1>0, Shape DEF PublishInv
<1>4. \/ UNCHANGED published_chunks /\ Published(h)' = Published(h) /\ ~(h = g /\ Launch(g))
      \/ h # g /\ published_chunks'[h] = published_chunks[h] /\ Published(h)' = Published(h)
      \/ h = g /\ Launch(g) /\ Published(h)' = {}
      \/ h = g /\ \E ch \in Chunks : Publishes(g, ch)
  <2>1. /\ h # g => Published(h)' = Published(h)
        /\ \/ ~Launch(g) /\ UNCHANGED <<final, published_chunks>> /\ Published(g)' = Published(g)
           \/ Launch(g) /\ Published(g)' = {}
           \/ \E ch \in Chunks : Publishes(g, ch)
    BY PublishedChange
  <2>2. ASSUME h # g, Launch(g) PROVE published_chunks'[h] = published_chunks[h]
    BY <1>0, <2>2 DEF Launch
  <2>3. ASSUME h # g, NEW ch \in Chunks, Publishes(g, ch) PROVE published_chunks'[h] = published_chunks[h]
    BY <1>0, <2>3 DEF Publishes, Publish
  <2> QED
    BY <2>1, <2>2, <2>3
<1>5. Counted(h)
  <2>1. CASE published_chunks'[h] = published_chunks[h] /\ Published(h)' = Published(h)
    BY <1>3, <2>1
  <2>2. CASE h = g /\ Launch(g) /\ Published(h)' = {}
    <3>1. published_chunks'[g] = 0
      BY <1>0, <2>2 DEF Launch
    <3> QED
      BY <2>2, <3>1, FS_EmptySet
  <2>3. ASSUME h = g, NEW ch \in Chunks, Publishes(g, ch) PROVE Counted(h)
    <3>1. published_chunks'[g] = published_chunks[g] + 1
      BY <1>0, <2>3 DEF Publishes, Publish
    <3>2. Published(g)' = Published(g) \cup {ch} /\ ch \notin Published(g)
      BY <2>3 DEF Publishes
    <3>3. Cardinality(Published(g) \cup {ch}) = Cardinality(Published(g)) + 1
      BY <1>3, <2>3, <3>2, FS_AddElement
    <3> QED
      BY <1>3, <2>3, <3>1, <3>2, <3>3
  <2> HIDE DEF Counted
  <2> QED
    BY <1>4, <2>1, <2>2, <2>3
<1>6. Whole1(h)
  <2>1. ASSUME ~(h = g /\ Launch(g)), NEW ch \in Chunks, local_done_flag[h][ch] # 0, peer_mask[h][ch] = Peers
        PROVE  local_done_flag'[h][ch] # 0 /\ peer_mask'[h][ch] = Peers
    <3>1. local_done_flag'[h][ch] # 0
      BY <2>1, FlagChange
    <3>2. peer_mask[h][ch] \subseteq peer_mask'[h][ch] /\ peer_mask'[h][ch] \subseteq Peers
      BY <1>0, <2>1, MaskChange
    <3> QED
      BY <2>1, <3>1, <3>2
  <2>2. CASE ~(h = g /\ Launch(g)) /\ Published(h)' = Published(h)
    BY <1>3, <2>1, <2>2
  <2>3. ASSUME h = g, NEW c \in Chunks, Publishes(g, c) PROVE Whole1(h)
    <3>1. ~Launch(g) /\ Published(g)' = Published(g) \cup {c}
          /\ local_done_flag[g][c] # 0 /\ peer_mask[g][c] = Peers
      BY <2>3 DEF Publishes
    <3> QED
      BY <1>3, <2>1, <2>3, <3>1
  <2>4. CASE Published(h)' = {}
    BY <2>4
  <2> HIDE DEF Whole1
  <2> QED
    BY <1>4, <2>2, <2>3, <2>4
<1>7. Left(h)
  <2> SUFFICES ASSUME NEW r \in Reducers, at'[h][r] # "look" PROVE Published(h)' = Chunks
    OBVIOUS
  <2>1. ~(h = g /\ Launch(g))
    BY <1>0 DEF Launch, TypeOK, ReduceTypes
  <2>2. CASE at[h][r] # "look"
    <3>1. Published(h) = Chunks
      BY <1>3, <2>2
    <3>2. ~(h = g /\ \E ch \in Chunks : Publishes(g, ch))
      BY <3>1 DEF Publishes
    <3> QED
      BY <1>4, <2>1, <3>1, <3>2
  <2>3. CASE at[h][r] = "look"
    <3>1. ~UNCHANGED at
      BY <2>3
    <3>2. h = g /\ ReduceEnds(g, r)
      <4>2. ~(Launch(g) /\ (\A s \in Reducers : at'[g][s] = "look")
              /\ \A x \in Gpus : x # g => at'[x] = at[x])
        BY <2>1, <2>3
      <4>1. PICK s \in Reducers, to \in Places :
              /\ \A x \in Gpus : \A z \in Reducers : at'[x][z] = IF x = g /\ z = s THEN to ELSE at[x][z]
              /\ \/ ReduceEnds(g, s) /\ at[g][s] = "look" /\ to = "finish"
                 \/ FinishSignals(g) /\ s = 0 /\ at[g][s] = "finish" /\ to = "slices"
                 \/ FinishSees(g) /\ s = 0 /\ at[g][s] = "slices" /\ to = "reset"
                 \/ FinishWaits(g, s) /\ s # 0 /\ at[g][s] = "finish" /\ to = "reset"
                 \/ ResetFlags(g, s) /\ at[g][s] = "reset" /\ to = IF s = 0 THEN "barrier" ELSE "exit"
                 \/ BarrierOver(g) /\ s = 0 /\ at[g][s] = "barrier" /\ to = "exit"
        BY <1>0, <3>1, <4>2, MoveIs
      <4> QED
        BY <2>3, <4>1
    <3>3. published_chunks[g] >= TotalChunks
      BY <3>2 DEF ReduceEnds
    <3>4. Published(g) = Chunks
      <4>1. IsFiniteSet(Chunks) /\ Cardinality(Chunks) = TotalChunks /\ TotalChunks \in Nat
        BY <1>0, Numbers
      <4>2. Cardinality(Published(g)) <= Cardinality(Chunks) /\ Cardinality(Published(g)) \in Nat
        BY <1>3, <3>2, <4>1, FS_Subset, FS_CardinalityType
      <4>3. Cardinality(Chunks) = Cardinality(Published(g))
        BY <1>3, <3>2, <3>3, <4>1, <4>2
      <4> QED
        BY <1>3, <3>2, <4>1, <4>3, FS_Subset
    <3>5. ~\E ch \in Chunks : Publishes(g, ch)
      BY <3>1 DEF Publishes
    <3> QED
      BY <1>4, <2>1, <3>2, <3>4, <3>5
  <2> QED
    BY <2>2, <2>3
<1>8. Own(h)
  <2> SUFFICES ASSUME Static PROVE \A r \in Reducers : scan'[h][r] % NumReduce = r
    OBVIOUS
  <2> DEFINE Keeps == \A r \in Reducers : scan'[h][r] % NumReduce = r
  <2>1. ASSUME NEW s \in Reducers, scan' = [scan EXCEPT ![g][s] = @ + NumReduce] PROVE Keeps
    <3> SUFFICES ASSUME NEW r \in Reducers PROVE scan'[h][r] % NumReduce = r
      OBVIOUS
    <3>1. scan'[h][r] = IF h = g /\ r = s THEN scan[h][r] + NumReduce ELSE scan[h][r]
      BY <1>0, <2>1
    <3>2. scan[h][r] % NumReduce = r /\ scan[h][r] \in Nat
      BY <1>0, <1>3
    <3>3. (scan[h][r] + NumReduce) % NumReduce = r
      BY <1>0, <3>2, StrideStays
    <3> QED
      BY <3>1, <3>2, <3>3
  <2>2. UNCHANGED scan => Keeps
    BY <1>3
  <2>3. ASSUME NEW s \in Reducers, ReduceStatic(g, s) PROVE Keeps
    <3>1. scan' = [scan EXCEPT ![g][s] = @ + NumReduce]
      BY <1>0, <2>3, StaticIs
    <3> QED
      BY <2>1, <3>1
  <2>4. ASSUME NEW s \in Reducers, ReduceEarly(g, s) PROVE Keeps
    <3>1. scan' = scan \/ scan' = [scan EXCEPT ![g][s] = @ + NumReduce]
      BY <1>0, <2>4, EarlyIs
    <3> QED
      BY <2>1, <2>2, <3>1
  <2>5. ASSUME NEW s \in Reducers, ReduceClaimed(g, s) PROVE FALSE
    BY <1>0, <2>5, ClaimedIs
  <2>6. ASSUME Launch(g) PROVE Keeps
    <3>1. CASE h # g
      <4>1. scan'[h] = scan[h]
        BY <1>0, <2>6, <3>1 DEF Launch
      <4> QED
        BY <1>3, <4>1
    <3>2. CASE h = g
      <4>1. \A r \in Reducers : scan'[g][r] = r
        BY <1>0, <2>6 DEF Launch, ScanStart
      <4>2. ASSUME NEW r \in Reducers PROVE r % NumReduce = r
        <5>1. (0 * NumReduce + r) % NumReduce = r
          <6>1. r \in Nat /\ r < NumReduce /\ 0 \in Nat
            BY <1>0
          <6> QED
            BY <1>0, <6>1, DivideBack
        <5>2. 0 * NumReduce + r = r
          BY <1>0
        <5> QED
          BY <5>1, <5>2
      <4> QED
        BY <3>2, <4>1, <4>2
    <3> QED
      BY <3>1, <3>2
  <2> HIDE DEF Keeps
  <2>7. Keeps
    BY <1>0, <2>2, <2>3, <2>4, <2>5, <2>6 DEF Changes, Reduces
  <2> QED
    BY <2>7 DEF Keeps
<1> QED
  BY <1>5, <1>6, <1>7, <1>8

\* gemm_ar_finish_multicast_publication adds one to the GPU's word of the row, which is 1
\* as long as no earlier epoch had the same row.
LEMMA SlotStep ==
    ASSUME IInv, NEW g \in Gpus, Step(g)
    PROVE  SlotInv'
<1>0. /\ TypeOK /\ SlotInv /\ cfg' = cfg /\ cfg \in Configs
      /\ \A h \in Gpus : epoch[h] \in Nat \ {0} /\ Announced(h) \in Nat
      /\ cfg.slot_rows \in Nat \ {0}
  <2>1. TypeOK /\ SlotInv /\ cfg' = cfg /\ cfg \in Configs
    BY WhoChanges, Shape DEF IInv, Changes
  <2> QED
    BY <2>1, Shape, ConfigFacts
<1>1. Gpus' = Gpus
  BY <1>0, LaunchStays
<1> DEFINE n == cfg.slot_rows
           Rows == 0..(n - 1)
           Was(row, h, a, s) ==
             /\ s = 0 <=> \A e \in 1..a : e % n # row
             /\ s = 1 => \A e, f \in 1..a : e % n = row /\ f % n = row => e = f
<1>2. \A row \in Rows : \A h \in Gpus : Was(row, h, Announced(h), final_slot[row][h])
  BY <1>0 DEF SlotInv
<1>3. SUFFICES ASSUME NEW row \in Rows, NEW h \in Gpus
               PROVE  Was(row, h, Announced(h)', final_slot'[row][h])
  BY <1>0, <1>1 DEF SlotInv
<1>4. final_slot \in [Rows -> [Gpus -> Nat]]
  BY <1>0 DEF TypeOK, FinishTypes
<1>5. CASE ~FinishSignals(g)
  <2>1. Announced(h)' = Announced(h) /\ final_slot' = final_slot
    BY <1>5, AnnouncedChange
  <2> QED
    BY <1>2, <2>1
<1>6. CASE FinishSignals(g)
  <2>1. final_slot' = [final_slot EXCEPT ![Row(g)][g] = @ + 1]
    BY <1>6 DEF FinishSignals
  <2>2. CASE h # g
    <3>1. Announced(h)' = Announced(h)
      BY <2>2, AnnouncedChange
    <3>2. final_slot'[row][h] = final_slot[row][h]
      BY <1>4, <2>1, <2>2
    <3> QED
      BY <1>2, <3>1, <3>2
  <2>3. CASE h = g
    <3> DEFINE a == Announced(g)
    <3>1. Announced(g)' = epoch[g] /\ a = epoch[g] - 1 /\ a \in Nat /\ epoch[g] \in Nat
      BY <1>0, <1>6, AnnouncedChange
    <3>2. Row(g) = epoch[g] % n
      BY DEF Row
    <3>3. final_slot'[row][g] = IF row = Row(g) THEN final_slot[row][g] + 1 ELSE final_slot[row][g]
      BY <1>4, <2>1
    <3>4. Was(row, g, a, final_slot[row][g]) /\ final_slot[row][g] \in Nat
      BY <1>2, <1>4
    <3> DEFINE s == final_slot[row][g]
               t == final_slot'[row][g]
               b == epoch[g]
               New == Announced(g)'
    <3>5. \A e \in 1..b : e \in 1..a \/ e = b
      BY <3>1
    <3>6. \A e \in 1..a : e \in 1..b
      BY <3>1
    <3>7. b \in 1..b /\ b \notin 1..a
      BY <1>0, <3>1
    <3>8. t = (IF row = b % n THEN s + 1 ELSE s) /\ s \in Nat
      BY <3>2, <3>3, <3>4
    <3>9. Was(row, g, a, s)
      BY <3>4
    <3> HIDE DEF a, s, t, b, n
    <3>10. Was(row, g, b, t)
      <4>1. CASE row = b % n
        <5>1. t # 0 /\ (t = 1 => s = 0)
          BY <3>8, <4>1
        <5>2. ~\A e \in 1..b : e % n # row
          BY <3>7, <4>1
        <5>3. s = 0 => \A e \in 1..b : e % n = row => e = b
          BY <3>5, <3>9
        <5>4. t = 1 => \A e, f \in 1..b : e % n = row /\ f % n = row => e = f
          BY <5>1, <5>3
        <5> QED
          BY <5>1, <5>2, <5>4
      <4>2. CASE row # b % n
        <5>1. \A e \in 1..b : e % n = row => e \in 1..a
          BY <3>5, <4>2
        <5>2. t = s
          BY <3>8, <4>2
        <5> QED
          BY <3>6, <3>9, <5>1, <5>2
      <4> QED
        BY <4>1, <4>2
    <3>11. New = b
      BY <3>1 DEF b
    <3> QED
      BY <2>3, <3>10, <3>11 DEF t
  <2> QED
    BY <2>2, <2>3
<1> QED
  BY <1>5, <1>6

\* A GPU is at most one launch ahead of what every other GPU has announced, and goes on
\* when the other has announced as much: a word that is 1 says that only one epoch with
\* this row has been announced.
LEMMA EpochStep ==
    ASSUME IInv, NEW g \in Gpus, Step(g)
    PROVE  EpochInv'
<1>0. /\ TypeOK /\ SlotInv /\ EpochInv /\ cfg' = cfg /\ cfg \in Configs /\ 0 \in Reducers
      /\ \A h \in Gpus : epoch[h] \in Nat \ {0} /\ Announced(h) \in Nat
      /\ cfg.slot_rows \in Nat \ {0}
  <2>1. TypeOK /\ SlotInv /\ EpochInv /\ cfg' = cfg /\ cfg \in Configs
    BY WhoChanges, Shape DEF IInv, Changes
  <2> QED
    BY <2>1, Shape, ConfigFacts
<1>1. Gpus' = Gpus
  BY <1>0, LaunchStays
<1> DEFINE Past == {"reset", "barrier", "exit"}
<1>2. SUFFICES ASSUME NEW h \in Gpus, NEW d \in Gpus
               PROVE  /\ epoch'[h] <= Announced(d)' + 1
                      /\ at'[h][0] \in Past => epoch'[h] <= Announced(d)'
  BY <1>1 DEF EpochInv
<1>3. Announced(d)' \in Nat /\ Announced(d) <= Announced(d)'
  <2>1. Announced(d)' = Announced(d) \/ (Announced(d)' = epoch[d] /\ Announced(d) = epoch[d] - 1)
    BY AnnouncedChange
  <2> QED
    BY <1>0, <2>1
<1>4. epoch[h] <= Announced(d) + 1 /\ (at[h][0] \in Past => epoch[h] <= Announced(d))
  BY <1>0 DEF EpochInv
<1>5. CASE h = g /\ Launch(g)
  <2>1. epoch'[g] = epoch[g] + 1 /\ epoch[g] <= Announced(d)
    <3>1. KernelOver(g)
      BY <1>5 DEF Launch
    <3> QED
      BY <1>0, <1>5, <3>1, EpochChange, OverFacts
  <2>2. at'[g][0] = "look"
    BY <1>0, <1>5 DEF Launch, TypeOK, ReduceTypes
  <2> QED
    BY <1>0, <1>3, <1>5, <2>1, <2>2
<1>6. CASE ~(h = g /\ Launch(g))
  <2>1. epoch'[h] = epoch[h]
    BY <1>0, <1>6, EpochChange
  <2>2. epoch'[h] <= Announced(d)' + 1
    BY <1>0, <1>3, <1>4, <2>1
  <2>3. ASSUME at'[h][0] \in Past, at[h][0] \notin Past PROVE epoch[h] <= Announced(d)
    <3>1. h = g /\ FinishSees(g)
      <4>1. ~UNCHANGED at
        BY <2>3
      <4>2. ~(/\ Launch(g) /\ (\A s \in Reducers : at'[g][s] = "look")
              /\ \A x \in Gpus : x # g => at'[x] = at[x])
        BY <1>0, <1>6, <2>3
      <4> QED
        BY <1>0, <2>3, <4>1, <4>2, MoveIs
    <3>2. at[g][0] = "slices" /\ \A x \in Gpus : final_slot[Row(g)][x] = 1
      BY <3>1 DEF FinishSees
    <3> DEFINE n == cfg.slot_rows
               row == Row(g)
    <3>3. row = epoch[g] % n /\ row \in 0..(n - 1)
      <4> DEFINE b == epoch[g]
      <4>1. n \in Nat \ {0} /\ b \in Nat
        BY <1>0
      <4> HIDE DEF n, b
      <4>2. b % n \in 0..(n - 1)
        BY <4>1, Divides
      <4> QED
        BY <4>2 DEF Row, n, b
    <3>4. Announced(g) = epoch[g]
      BY <3>2 DEF Announced
    <3> HIDE DEF row
    <3>5. \A e, f \in 1..Announced(g) : e % n = row /\ f % n = row => e = f
      <4>1. final_slot[row][g] = 1
        BY <3>2 DEF row
      <4> QED
        BY <1>0, <3>3, <4>1 DEF SlotInv
    <3>6. PICK f \in 1..Announced(d) : f % n = row
      <4>1. final_slot[row][d] = 1
        BY <3>2 DEF row
      <4>2. ~(final_slot[row][d] = 0)
        BY <4>1
      <4> QED
        BY <1>0, <3>3, <4>2 DEF SlotInv
    <3>7. ASSUME Announced(d) < epoch[g] PROVE FALSE
      <4>1. f \in 1..Announced(g) /\ epoch[g] \in 1..Announced(g) /\ f # epoch[g]
        BY <1>0, <3>4, <3>6, <3>7
      <4> QED
        BY <3>3, <3>5, <3>6, <4>1
    <3> QED
      BY <1>0, <3>1, <3>7
  <2> QED
    BY <1>0, <1>3, <1>4, <2>1, <2>2, <2>3
<1> QED
  BY <1>5, <1>6

\* What a peer writes is its next epoch, which the GPU's ring has let it go on to.
LEMMA RecvChange ==
    ASSUME IInv, Paired, NEW g \in Gpus, Step(g)
    PROVE  \A h \in Gpus : \A w \in Peers \X Chunks :
             /\ recv[h][w] \in Nat /\ recv'[h][w] \in Nat /\ recv[h][w] <= recv'[h][w]
             /\ recv'[h][w] <= rung[h] + 1
<1>0. /\ TypeOK /\ Changes(g) /\ recv \in [Gpus -> [Peers \X Chunks -> Nat]] /\ rung \in [Gpus -> Nat]
      /\ \A h \in Gpus : \A w \in Peers \X Chunks : recv[h][w] <= rung[h] + 1
      /\ cfg \in Configs
  BY WhoChanges, Shape DEF IInv, TypeOK, ArrivalTypes, FinishTypes, ArrivalInv
<1> SUFFICES ASSUME NEW h \in Gpus, NEW w \in Peers \X Chunks
             PROVE  /\ recv[h][w] \in Nat /\ recv'[h][w] \in Nat /\ recv[h][w] <= recv'[h][w]
                    /\ recv'[h][w] <= rung[h] + 1
  OBVIOUS
<1>1. recv[h][w] \in Nat /\ recv[h][w] <= rung[h] + 1
  BY <1>0
<1>2. ASSUME NEW p \in Peers, NEW ch \in Chunks, PeerWrites(g, p, ch)
      PROVE  /\ recv'[h][w] \in Nat /\ recv[h][w] <= recv'[h][w] /\ recv'[h][w] <= rung[h] + 1
  <2> DEFINE e == recv[g][<<p, ch>>] + 1
  <2>0. recv' = [recv EXCEPT ![g][<<p, ch>>] = e] /\ rung[g] >= e - 1
    <3>1. recv' = [recv EXCEPT ![g][<<p, ch>>] = e]
      BY <1>2 DEF PeerWrites
    <3>2. rung[g] >= e - 1
      <4>1. e <= cfg.max_epoch /\ (rung[g] >= e - 1 \/ \E x \in Peers \ {p} : Ended(g, x, e - 1))
        BY <1>2 DEF PeerWrites
      <4>2. CASE cfg.nodes = 2
        <5>1. Peers \ {p} = {}
          BY <4>2 DEF Peers
        <5> QED
          BY <4>1, <5>1
      <4>3. CASE cfg.max_epoch = 1
        <5>1. e \in Nat /\ rung[g] \in Nat
          BY <1>0
        <5> QED
          BY <4>1, <4>3, <5>1
      <4> QED
        BY <1>0, <4>2, <4>3 DEF Paired
    <3> QED
      BY <3>1, <3>2
  <2>1. /\ recv' = [recv EXCEPT ![g][<<p, ch>>] = recv[g][<<p, ch>>] + 1]
        /\ rung[g] >= recv[g][<<p, ch>>]
    <3>1. recv[g][<<p, ch>>] \in Nat /\ rung[g] \in Nat
      BY <1>0
    <3>2. rung[g] >= recv[g][<<p, ch>>]
      BY <2>0, <3>1
    <3> QED
      BY <2>0, <3>2
  <2>2. recv'[h][w] = IF h = g /\ w = <<p, ch>> THEN recv[h][w] + 1 ELSE recv[h][w]
    BY <1>0, <2>1
  <2>3. h = g /\ w = <<p, ch>> => recv[h][w] <= rung[h]
    BY <1>0, <1>1, <2>1
  <2>4. rung[h] \in Nat
    BY <1>0
  <2> QED
    BY <1>1, <2>2, <2>3, <2>4
<1> QED
  BY <1>0, <1>1, <1>2 DEF Changes

\* gemm_ar_hierarchical_xnode_barrier rings once in a launch.
LEMMA RungChange ==
    ASSUME IInv, NEW g \in Gpus, Step(g)
    PROVE  \A h \in Gpus :
             /\ rung'[h] = IF at'[h][0] \in {"barrier", "exit"} THEN epoch'[h] ELSE epoch'[h] - 1
             /\ rung[h] \in Nat /\ rung'[h] \in Nat /\ rung[h] <= rung'[h]
             /\ rung'[h] <= epoch'[h]
<1>0. /\ TypeOK /\ Changes(g) /\ rung \in [Gpus -> Nat] /\ 0 \in Reducers
      /\ \A h \in Gpus : epoch[h] \in Nat \ {0}
      /\ \A h \in Gpus : rung[h] = IF at[h][0] \in {"barrier", "exit"} THEN epoch[h] ELSE epoch[h] - 1
  BY WhoChanges, Shape DEF IInv, TypeOK, FinishTypes, ArrivalInv
<1> SUFFICES ASSUME NEW h \in Gpus
             PROVE  /\ rung'[h] = IF at'[h][0] \in {"barrier", "exit"} THEN epoch'[h] ELSE epoch'[h] - 1
                    /\ rung[h] \in Nat /\ rung'[h] \in Nat /\ rung[h] <= rung'[h]
                    /\ rung'[h] <= epoch'[h]
  OBVIOUS
<1>1. rung[h] \in Nat /\ epoch[h] \in Nat \ {0}
      /\ rung[h] = IF at[h][0] \in {"barrier", "exit"} THEN epoch[h] ELSE epoch[h] - 1
  BY <1>0
<1>2. ASSUME NEW r \in Reducers, ResetFlags(g, r)
      PROVE  rung'[h] = IF h = g /\ r = 0 THEN epoch[h] ELSE rung[h]
  BY <1>0, <1>2 DEF ResetFlags
<1>3. ASSUME Launch(g) PROVE UNCHANGED rung
  BY <1>3 DEF Launch
<1>4. CASE Launch(g)
  <2>1. KernelOver(g) /\ at'[g][0] = "look" /\ \A x \in Gpus : x # g => at'[x] = at[x]
    BY <1>0, <1>4 DEF Launch, TypeOK, ReduceTypes
  <2>2. rung[g] = epoch[g] /\ epoch'[g] = epoch[g] + 1 /\ (h # g => epoch'[h] = epoch[h])
    BY <1>0, <1>4, <2>1, OverFacts, EpochChange
  <2> QED
    BY <1>1, <1>3, <1>4, <2>1, <2>2
<1>5. CASE ~Launch(g)
  <2>1. epoch'[h] = epoch[h]
    BY <1>0, <1>5, EpochChange
  <2>2. CASE UNCHANGED at
    <3>1. ASSUME NEW r \in Reducers, ResetFlags(g, r) PROVE FALSE
      <4>1. at[g][r] = "reset" /\ at' = [at EXCEPT ![g][r] = IF r = 0 THEN "barrier" ELSE "exit"]
        BY <3>1 DEF ResetFlags, Goes
      <4>2. at'[g][r] = IF r = 0 THEN "barrier" ELSE "exit"
        BY <1>0, <4>1 DEF TypeOK, ReduceTypes
      <4> QED
        BY <2>2, <4>1, <4>2
    <3>2. UNCHANGED rung
      BY <1>0, <3>1 DEF Changes
    <3> QED
      BY <1>1, <2>1, <2>2, <3>2
  <2>3. CASE ~UNCHANGED at
    <3>1. PICK s \in Reducers, to \in Places :
            /\ \A x \in Gpus : \A z \in Reducers : at'[x][z] = IF x = g /\ z = s THEN to ELSE at[x][z]
            /\ \/ ReduceEnds(g, s) /\ at[g][s] = "look" /\ to = "finish"
               \/ FinishSignals(g) /\ s = 0 /\ at[g][s] = "finish" /\ to = "slices"
               \/ FinishSees(g) /\ s = 0 /\ at[g][s] = "slices" /\ to = "reset"
               \/ FinishWaits(g, s) /\ s # 0 /\ at[g][s] = "finish" /\ to = "reset"
               \/ ResetFlags(g, s) /\ at[g][s] = "reset" /\ to = IF s = 0 THEN "barrier" ELSE "exit"
               \/ BarrierOver(g) /\ s = 0 /\ at[g][s] = "barrier" /\ to = "exit"
      BY <1>0, <1>5, <2>3, MoveIs
    <3>2. CASE ResetFlags(g, s)
      <4>1. rung'[h] = IF h = g /\ s = 0 THEN epoch[h] ELSE rung[h]
        BY <1>2, <3>2
      <4>2. at[g][s] = "reset"
        BY <3>2 DEF ResetFlags
      <4>3. to = IF s = 0 THEN "barrier" ELSE "exit"
        <5>1. at' = [at EXCEPT ![g][s] = IF s = 0 THEN "barrier" ELSE "exit"]
          BY <3>2 DEF ResetFlags, Goes
        <5>2. at'[g][s] = IF s = 0 THEN "barrier" ELSE "exit"
          BY <1>0, <5>1 DEF TypeOK, ReduceTypes
        <5> QED
          BY <3>1, <5>2
      <4>4. at'[h][0] = IF h = g /\ s = 0 THEN "barrier" ELSE at[h][0]
        BY <1>0, <3>1, <4>3
      <4> QED
        BY <1>1, <2>1, <4>1, <4>2, <4>4
    <3>3. CASE ~ResetFlags(g, s)
      <4>1. at'[h][0] \in {"barrier", "exit"} <=> at[h][0] \in {"barrier", "exit"}
        BY <1>0, <3>1, <3>3
      <4>2. UNCHANGED rung
        <5>1. ASSUME NEW r \in Reducers, ResetFlags(g, r) PROVE FALSE
          <6>1. at[g][r] = "reset" /\ at' = [at EXCEPT ![g][r] = IF r = 0 THEN "barrier" ELSE "exit"]
            BY <5>1 DEF ResetFlags, Goes
          <6>2. at'[g][r] = IF r = 0 THEN "barrier" ELSE "exit"
            BY <1>0, <6>1 DEF TypeOK, ReduceTypes
          <6>3. r = s
            BY <3>1, <6>1, <6>2
          <6> QED
            BY <3>3, <5>1, <6>3
        <5> QED
          BY <1>0, <5>1 DEF Changes
      <4> QED
        BY <1>1, <2>1, <4>1, <4>2
    <3> QED
      BY <3>2, <3>3
  <2> QED
    BY <2>2, <2>3
<1> QED
  BY <1>4, <1>5

\* The GPU counts a peer when a word of this epoch is there, and the flag of a chunk says
\* that all peers are.
LEMMA ArrivalStep ==
    ASSUME IInv, Paired, NEW g \in Gpus, Step(g)
    PROVE  ArrivalInv'
<1>0. /\ TypeOK /\ ArrivalInv /\ WordInv /\ Changes(g) /\ cfg' = cfg /\ cfg \in Configs
      /\ \A h \in Gpus : epoch[h] \in Nat \ {0}
      /\ peer_mask \in [Gpus -> [Chunks -> SUBSET Peers]]
      /\ remote_arrived_flag \in [Gpus -> SUBSET Chunks]
  BY WhoChanges, Shape DEF IInv, TypeOK, Changes, ArrivalTypes
<1>1. Gpus' = Gpus /\ Chunks' = Chunks /\ Peers' = Peers
  BY <1>0, LaunchStays
<1> DEFINE Near(h) == \A w \in Peers \X Chunks : recv'[h][w] <= rung'[h] + 1 /\ epoch'[h] <= recv'[h][w] + 1
           Come(h) == \A ch \in Chunks : \A p \in peer_mask'[h][ch] : epoch'[h] <= recv'[h][<<p, ch>>]
           All(h) == \A ch \in remote_arrived_flag'[h] : peer_mask'[h][ch] = Peers
<1>2. SUFFICES ASSUME NEW h \in Gpus PROVE Near(h) /\ Come(h) /\ All(h)
  BY <1>1, <1>2, RungChange DEF ArrivalInv
<1>3. Near(h)
  <2> SUFFICES ASSUME NEW w \in Peers \X Chunks
               PROVE  recv'[h][w] <= rung'[h] + 1 /\ epoch'[h] <= recv'[h][w] + 1
    OBVIOUS
  <2>1. /\ recv[h][w] \in Nat /\ recv'[h][w] \in Nat /\ recv[h][w] <= recv'[h][w]
        /\ recv'[h][w] <= rung[h] + 1
        /\ rung[h] \in Nat /\ rung'[h] \in Nat /\ rung[h] <= rung'[h]
    BY RecvChange, RungChange
  <2>2. epoch[h] <= recv[h][w] + 1 /\ epoch[h] \in Nat
    BY <1>0 DEF ArrivalInv
  <2>3. CASE h = g /\ Launch(g)
    <3>1. KernelOver(g)
      BY <2>3 DEF Launch
    <3>2. epoch'[g] = epoch[g] + 1 /\ epoch[g] <= recv[g][w]
      BY <1>0, <2>3, <3>1, EpochChange, OverFacts
    <3> QED
      BY <2>1, <2>2, <2>3, <3>2
  <2>4. CASE ~(h = g /\ Launch(g))
    <3>1. epoch'[h] = epoch[h]
      BY <1>0, <2>4, EpochChange
    <3> QED
      BY <2>1, <2>2, <3>1
  <2> QED
    BY <2>3, <2>4
<1>4. ASSUME h = g, Launch(g) PROVE Come(h) /\ All(h)
  <2>1. (\A ch \in Chunks : peer_mask'[g][ch] = {}) /\ remote_arrived_flag'[g] = {}
    BY <1>0, <1>4 DEF Launch
  <2> QED
    BY <1>4, <2>1
<1>5. ASSUME ~(h = g /\ Launch(g)), NEW ch \in Chunks, NEW p \in Peers, epoch[h] <= recv[h][<<p, ch>>]
      PROVE  epoch'[h] <= recv'[h][<<p, ch>>]
  <2>1. epoch'[h] = epoch[h] /\ epoch[h] \in Nat
    BY <1>0, <1>5, EpochChange
  <2>2. PICK w \in Peers \X Chunks : w = <<p, ch>>
    OBVIOUS
  <2>3. recv[h][w] <= recv'[h][w] /\ recv[h][w] \in Nat /\ recv'[h][w] \in Nat
    BY RecvChange
  <2>4. epoch[h] <= recv'[h][w]
    BY <1>5, <2>1, <2>2, <2>3
  <2> QED
    BY <2>1, <2>2, <2>4
<1>6. ASSUME ~(h = g /\ Launch(g)), peer_mask'[h] = peer_mask[h],
             remote_arrived_flag'[h] = remote_arrived_flag[h]
      PROVE  Come(h) /\ All(h)
  <2>0. \A ch \in Chunks : peer_mask[h][ch] \subseteq Peers
    BY <1>0
  <2>1. \A ch \in Chunks : \A p \in peer_mask[h][ch] : p \in Peers /\ epoch[h] <= recv[h][<<p, ch>>]
    <3>1. \A ch \in Chunks : \A p \in peer_mask[h][ch] : epoch[h] <= recv[h][<<p, ch>>]
      BY <1>0 DEF ArrivalInv
    <3> QED
      BY <2>0, <3>1
  <2>2. \A ch \in remote_arrived_flag[h] : peer_mask[h][ch] = Peers
    BY <1>0 DEF ArrivalInv
  <2> QED
    BY <1>5, <1>6, <2>1, <2>2
<1>7. ASSUME NEW q \in Queues, DrainWord(g, q), h = g, ~Launch(g) PROVE Come(h) /\ All(h)
  <2>1. PICK i \in 1..TotalChunks, w \in Words :
          /\ words[g][q][i] = w /\ w # <<>>
          /\ peer_mask' = [peer_mask EXCEPT ![g][w[2]] = @ \cup {w[1]}]
          /\ \/ remote_arrived_flag' = remote_arrived_flag
             \/ /\ Cardinality(peer_mask[g][w[2]] \cup {w[1]}) >= cfg.nodes - 1
                /\ remote_arrived_flag' = [remote_arrived_flag EXCEPT ![g] = @ \cup {w[2]}]
          /\ UNCHANGED <<epoch, at, rung, recv>>
    BY <1>0, <1>7, DrainIs
  <2>2. w[1] \in Peers /\ w[2] \in Chunks /\ w[3] \in Nat
    BY WordFacts
  <2>3. w[3] <= recv[g][<<w[1], w[2]>>] /\ epoch[g] <= w[3]
    BY <1>0, <2>1 DEF WordInv
  <2>4. epoch[g] <= recv[g][<<w[1], w[2]>>]
    <3>1. recv[g][<<w[1], w[2]>>] \in Nat
      BY <1>0, <2>2 DEF TypeOK, ArrivalTypes
    <3> QED
      BY <1>0, <2>2, <2>3, <3>1
  <2> DEFINE c == w[2]
             b == w[1]
  <2>5. \A ch \in Chunks : peer_mask'[g][ch] = IF ch = c THEN peer_mask[g][ch] \cup {b} ELSE peer_mask[g][ch]
    <3>1. peer_mask'[g] = [peer_mask[g] EXCEPT ![c] = @ \cup {b}]
      BY <1>0, <2>1
    <3> QED
      BY <1>0, <3>1
  <2>6. \A ch \in Chunks : peer_mask[g][ch] \subseteq Peers
    BY <1>0
  <2> HIDE DEF c, b
  <2>7. ASSUME NEW ch \in Chunks, NEW p \in peer_mask'[g][ch]
        PROVE  epoch'[h] <= recv'[h][<<p, ch>>]
    <3>1. CASE p \in peer_mask[g][ch]
      <4>1. p \in Peers /\ epoch[g] <= recv[g][<<p, ch>>]
        BY <1>0, <2>6, <3>1 DEF ArrivalInv
      <4> QED
        BY <1>5, <1>7, <4>1
    <3>2. CASE p \notin peer_mask[g][ch]
      <4>1. ch = c /\ p = b
        BY <2>5, <2>7, <3>2
      <4> QED
        BY <1>7, <2>1, <2>4, <4>1 DEF c, b
    <3> QED
      BY <3>1, <3>2
  <2>8. ASSUME NEW ch \in remote_arrived_flag'[g] PROVE peer_mask'[g][ch] = Peers
    <3>1. CASE ch \in remote_arrived_flag[g]
      <4>1. ch \in Chunks /\ peer_mask[g][ch] = Peers
        BY <1>0, <3>1 DEF ArrivalInv
      <4> QED
        BY <2>2, <2>5, <4>1 DEF b
    <3>2. CASE ch \notin remote_arrived_flag[g]
      <4>1. ch = c /\ Cardinality(peer_mask[g][c] \cup {b}) >= cfg.nodes - 1
        BY <1>0, <2>1, <2>8, <3>2 DEF c, b
      <4> DEFINE S == peer_mask[g][c] \cup {b}
      <4>2. S \subseteq Peers /\ c \in Chunks
        BY <2>2, <2>6 DEF c, b
      <4>3. IsFiniteSet(Peers) /\ Cardinality(Peers) = cfg.nodes - 1
        BY <1>0, ReducerFacts
      <4>4. S = Peers
        <5> HIDE DEF S
        <5>1. Cardinality(S) <= Cardinality(Peers) /\ Cardinality(S) \in Nat /\ Cardinality(Peers) \in Nat
          BY <4>2, <4>3, FS_Subset, FS_CardinalityType
        <5>2. Cardinality(S) >= Cardinality(Peers)
          BY <4>1, <4>3 DEF S
        <5>3. Cardinality(Peers) = Cardinality(S)
          BY <5>1, <5>2
        <5> QED
          BY <4>2, <4>3, <5>3, FS_Subset
      <4> QED
        BY <2>5, <4>1, <4>2, <4>4
    <3> QED
      BY <3>1, <3>2
  <2> QED
    BY <1>7, <2>7, <2>8
<1>8. ASSUME h # g PROVE Come(h) /\ All(h)
  <2>1. peer_mask'[h] = peer_mask[h]
    BY <1>0, <1>8, MaskChange
  <2>2. remote_arrived_flag'[h] = remote_arrived_flag[h]
    <3>1. ASSUME NEW q \in Queues, DrainWord(g, q) PROVE remote_arrived_flag'[h] = remote_arrived_flag[h]
      <4>1. PICK w \in Words :
              \/ remote_arrived_flag' = remote_arrived_flag
              \/ remote_arrived_flag' = [remote_arrived_flag EXCEPT ![g] = @ \cup {w[2]}]
        BY <1>0, <3>1, DrainIs
      <4> QED
        BY <1>0, <1>8, <4>1
    <3>2. ASSUME Launch(g) PROVE remote_arrived_flag'[h] = remote_arrived_flag[h]
      BY <1>0, <1>8, <3>2 DEF Launch
    <3>3. ASSUME UNCHANGED drain PROVE remote_arrived_flag'[h] = remote_arrived_flag[h]
      BY <3>3 DEF drain
    <3> QED
      BY <1>0, <3>1, <3>2, <3>3 DEF Changes
  <2> QED
    BY <1>6, <1>8, <2>1, <2>2
<1>9. ASSUME UNCHANGED drain, ~Launch(g) PROVE Come(h) /\ All(h)
  BY <1>6, <1>9 DEF drain
<1> HIDE DEF Come, All
<1>10. Come(h) /\ All(h)
  BY <1>0, <1>4, <1>7, <1>8, <1>9 DEF Changes
<1> QED
  BY <1>3, <1>10

\* The words of the arrival queues: a peer fills a slot, and the CTA that owns the slot
\* clears it.
\* A peer writes the i-th word of queue q.
Written(g, q, i) == \E p \in Peers : \E ch \in Chunks :
    PeerWrites(g, p, ch) /\ words'[g][q][i] = <<p, ch, recv[g][<<p, ch>>] + 1>>

LEMMA WordChange ==
    ASSUME IInv, NEW g \in Gpus, Step(g), NEW h \in Gpus, NEW q \in Queues,
           NEW i \in 1..TotalChunks
    PROVE  \/ words'[h][q][i] = <<>>
           \/ /\ words'[h][q][i] = words[h][q][i]
              /\ ~(h = g /\ ResetFlags(g, (i - 1) % NumReduce))
           \/ h = g /\ Written(g, q, i)
<1> DEFINE V == [1..TotalChunks -> {<<>>} \cup Words]
           r0 == (i - 1) % NumReduce
           Clear(r) == [x \in Queues |->
                          [j \in 1..TotalChunks |-> IF (j - 1) % NumReduce = r THEN <<>> ELSE words[g][x][j]]]
<1>0. Changes(g) /\ words \in [Gpus -> [Queues -> V]]
  BY WhoChanges DEF IInv, TypeOK, ArrivalTypes
<1>1. ASSUME NEW r \in Reducers, ResetFlags(g, r), h = g
      PROVE  words'[h][q][i] = IF r0 = r THEN <<>> ELSE words[h][q][i]
  <2>1. words' = [words EXCEPT ![g] = Clear(r)]
    BY <1>1 DEF ResetFlags
  <2>2. words'[g] = Clear(r)
    BY <1>0, <2>1
  <2> QED
    BY <1>1, <2>2
<1>2. ASSUME NEW r \in Reducers, ResetFlags(g, r), h # g PROVE words'[h][q][i] = words[h][q][i]
  <2>1. words' = [words EXCEPT ![g] = Clear(r)]
    BY <1>2 DEF ResetFlags
  <2> QED
    BY <1>0, <1>2, <2>1
<1>3. ASSUME NEW p \in Peers, NEW ch \in Chunks, PeerWrites(g, p, ch)
      PROVE  \/ words'[h][q][i] = words[h][q][i]
             \/ h = g /\ words'[h][q][i] = <<p, ch, recv[g][<<p, ch>>] + 1>>
  <2> DEFINE e == recv[g][<<p, ch>>] + 1
             x == QueueFrom(p, ch)
             n == Cardinality({c \in Chunks : recv[g][<<p, c>>] = e /\ QueueFrom(p, c) = x})
  <2>1. words' = [words EXCEPT ![g][x][n + 1] = <<p, ch, e>>]
    BY <1>3 DEF PeerWrites
  <2> HIDE DEF e, x, n, V
  <2>2. words'[h][q] = IF h = g /\ q = x THEN [words[h][q] EXCEPT ![n + 1] = <<p, ch, e>>] ELSE words[h][q]
    BY <1>0, <2>1
  <2>3. words[h][q] \in V
    BY <1>0
  <2>4. words'[h][q][i] = IF h = g /\ q = x /\ i = n + 1 THEN <<p, ch, e>> ELSE words[h][q][i]
    BY <2>2, <2>3 DEF V
  <2> QED
    BY <2>4 DEF e
<1>4. r0 \in Reducers
  <2>1. cfg \in Configs
    BY Shape DEF IInv
  <2>2. NumReduce \in Nat \ {0} /\ Reducers = 0..(NumReduce - 1) /\ TotalChunks \in Nat
    BY <2>1, ReducerFacts, Numbers
  <2>3. i - 1 \in Nat
    BY <2>2
  <2> HIDE DEF r0
  <2>4. r0 \in Nat /\ r0 < NumReduce
    BY <2>2, <2>3, Divides DEF r0
  <2> QED
    BY <2>2, <2>4
<1> HIDE DEF r0, Clear, V
<1>5. CASE h = g /\ ResetFlags(g, r0)
  BY <1>1, <1>4, <1>5
<1>6. CASE ~(h = g /\ ResetFlags(g, r0))
  <2>1. ASSUME NEW r \in Reducers, ResetFlags(g, r) PROVE words'[h][q][i] = words[h][q][i]
    BY <1>1, <1>2, <1>6, <2>1
  <2>2. UNCHANGED words => words'[h][q][i] = words[h][q][i]
    OBVIOUS
  <2>3. ASSUME NEW p \in Peers, NEW ch \in Chunks, PeerWrites(g, p, ch)
        PROVE  words'[h][q][i] = words[h][q][i] \/ (h = g /\ Written(g, q, i))
    BY <1>3, <2>3 DEF Written
  <2> QED
    BY <1>0, <1>6, <2>1, <2>2, <2>3 DEF Changes, r0
<1> QED
  BY <1>5, <1>6

\* A reduce CTA is past the reset of its words only if it has reset them, or was.
LEMMA PastReset ==
    ASSUME IInv, NEW g \in Gpus, Step(g), NEW h \in Gpus, NEW r \in Reducers,
           at'[h][r] \in {"barrier", "exit"}, at[h][r] \notin {"barrier", "exit"}
    PROVE  h = g /\ ResetFlags(g, r)
<1>1. ~UNCHANGED at
  OBVIOUS
<1>2. ~(/\ Launch(g) /\ \A s \in Reducers : at'[g][s] = "look"
        /\ \A x \in Gpus : x # g => at'[x] = at[x])
  OBVIOUS
<1> QED
  BY <1>1, <1>2, MoveIs DEF IInv

\* What is in the queues has come, is not of an earlier launch, and where it is cleared
\* is of a later one.
LEMMA WordStep ==
    ASSUME IInv, Paired, NEW g \in Gpus, Step(g)
    PROVE  WordInv'
<1>0. /\ TypeOK /\ ArrivalInv /\ WordInv /\ PublishInv /\ cfg' = cfg /\ cfg \in Configs
      /\ \A h \in Gpus : epoch[h] \in Nat \ {0}
  BY WhoChanges, Shape DEF IInv, Changes
<1>1. /\ Gpus' = Gpus /\ Queues' = Queues /\ TotalChunks' = TotalChunks /\ NumReduce' = NumReduce
  BY <1>0, LaunchStays
<1> DEFINE Good(h, i, w) == /\ w[3] <= recv'[h][<<w[1], w[2]>>] /\ epoch'[h] <= w[3]
                            /\ at'[h][(i - 1) % NumReduce] \in {"barrier", "exit"} => epoch'[h] < w[3]
<1>2. SUFFICES ASSUME NEW h \in Gpus, NEW q \in Queues, NEW i \in 1..TotalChunks,
                      words'[h][q][i] # <<>>
               PROVE  Good(h, i, words'[h][q][i])
  BY <1>1 DEF WordInv
<1> DEFINE r == (i - 1) % NumReduce
<1>3. r \in Reducers
  <2>1. NumReduce \in Nat \ {0} /\ Reducers = 0..(NumReduce - 1) /\ TotalChunks \in Nat
    BY <1>0, ReducerFacts, Numbers
  <2>2. i - 1 \in Nat
    BY <2>1
  <2> HIDE DEF r
  <2>3. r \in Nat /\ r < NumReduce
    BY <2>1, <2>2, Divides DEF r
  <2> QED
    BY <2>1, <2>3
<1>4. ASSUME words'[h][q][i] = words[h][q][i], ~(h = g /\ ResetFlags(g, r))
      PROVE  Good(h, i, words'[h][q][i])
  <2>1. PICK w : w = words[h][q][i]
    OBVIOUS
  <2>2. w \in Words
    <3> DEFINE V == [1..TotalChunks -> {<<>>} \cup Words]
    <3>1. words \in [Gpus -> [Queues -> V]]
      BY <1>0 DEF TypeOK, ArrivalTypes
    <3> HIDE DEF V
    <3>2. words[h][q] \in V
      BY <3>1
    <3>3. words[h][q][i] \in {<<>>} \cup Words
      BY <3>2 DEF V
    <3> QED
      BY <1>2, <1>4, <2>1, <3>3
  <2>3. /\ w[3] <= recv[h][<<w[1], w[2]>>] /\ epoch[h] <= w[3]
        /\ at[h][r] \in {"barrier", "exit"} => epoch[h] < w[3]
    BY <1>0, <1>2, <1>4, <2>1 DEF WordInv
  <2>4. w[1] \in Peers /\ w[2] \in Chunks /\ w[3] \in Nat
    BY <2>2, WordFacts
  <2> HIDE DEF r
  <2>5. w[3] <= recv'[h][<<w[1], w[2]>>]
    <3>1. PICK m \in Peers \X Chunks : m = <<w[1], w[2]>>
      BY <2>4
    <3>2. recv[h][m] \in Nat /\ recv'[h][m] \in Nat /\ recv[h][m] <= recv'[h][m]
      BY RecvChange
    <3>3. w[3] <= recv[h][m]
      BY <2>3, <3>1
    <3>4. w[3] <= recv'[h][m]
      BY <2>4, <3>2, <3>3
    <3> QED
      BY <3>1, <3>4
  <2>6. CASE h = g /\ Launch(g)
    <3>1. KernelOver(g)
      BY <2>6 DEF Launch
    <3>2. at[h][r] = "exit"
      BY <1>3, <2>6, <3>1 DEF KernelOver
    <3>3. at'[h][r] = "look" /\ epoch'[h] = epoch[h] + 1
      <4>1. at' = [at EXCEPT ![g] = [s \in Reducers |-> "look"]]
        BY <2>6 DEF Launch
      <4>2. at'[g] = [s \in Reducers |-> "look"]
        BY <1>0, <4>1 DEF TypeOK, ReduceTypes
      <4> QED
        BY <1>0, <1>3, <2>6, <4>2, EpochChange
    <3>4. epoch[h] < w[3]
      BY <2>3, <3>2
    <3>5. epoch'[h] <= w[3]
      BY <1>0, <2>4, <3>3, <3>4
    <3> QED
      BY <1>4, <2>1, <2>5, <3>3, <3>5 DEF r
  <2>7. CASE ~(h = g /\ Launch(g))
    <3>1. epoch'[h] = epoch[h]
      BY <1>0, <2>7, EpochChange
    <3>2. at'[h][r] \in {"barrier", "exit"} => at[h][r] \in {"barrier", "exit"}
      BY <1>3, <1>4, PastReset
    <3> QED
      BY <1>4, <2>1, <2>3, <2>5, <3>1, <3>2 DEF r
  <2> QED
    BY <2>6, <2>7
<1>5. ASSUME h = g, NEW p \in Peers, NEW ch \in Chunks, PeerWrites(g, p, ch),
             words'[h][q][i] = <<p, ch, recv[g][<<p, ch>>] + 1>>
      PROVE  Good(h, i, words'[h][q][i])
  <2>1. PICK m \in Peers \X Chunks : m = <<p, ch>>
    OBVIOUS
  <2>2. PICK e : e = recv[g][m] + 1
    OBVIOUS
  <2>3. PICK w : w = <<p, ch, e>>
    OBVIOUS
  <2>4. w = words'[h][q][i] /\ w[1] = p /\ w[2] = ch /\ w[3] = e
    BY <1>5, <2>1, <2>2, <2>3
  <2>5. recv[g][m] \in Nat /\ recv'[g][m] = e
    <3>1. recv \in [Gpus -> [Peers \X Chunks -> Nat]]
      BY <1>0 DEF TypeOK, ArrivalTypes
    <3>2. recv' = [recv EXCEPT ![g][<<p, ch>>] = recv[g][<<p, ch>>] + 1]
      BY <1>5 DEF PeerWrites
    <3> QED
      BY <2>1, <2>2, <3>1, <3>2
  <2>6. UNCHANGED <<epoch, at>>
    BY <1>5 DEF PeerWrites, reduce
  <2>7. epoch[g] <= recv[g][m] + 1
    BY <1>0 DEF ArrivalInv
  <2> HIDE DEF r
  <2>8. ASSUME at[g][r] \in {"barrier", "exit"} PROVE epoch[g] <= recv[g][m]
    <3>1. Published(g) = Chunks
      BY <1>0, <1>3, <2>8 DEF PublishInv
    <3>2. peer_mask[g][ch] = Peers
      BY <1>0, <3>1 DEF PublishInv
    <3>3. epoch[g] <= recv[g][<<p, ch>>]
      BY <1>0, <3>2 DEF ArrivalInv
    <3> QED
      BY <2>1, <3>3
  <2>9. /\ e <= recv'[g][<<p, ch>>] /\ epoch[g] <= e
        /\ at[g][r] \in {"barrier", "exit"} => epoch[g] < e
    BY <1>0, <2>1, <2>2, <2>5, <2>7, <2>8
  <2> QED
    BY <1>5, <2>4, <2>6, <2>9 DEF r
<1> HIDE DEF Good
<1> HIDE DEF r
<1>6. PICK s \in Reducers : s = r /\ s = (i - 1) % NumReduce
  BY <1>3 DEF r
<1>7. \/ words'[h][q][i] = <<>>
      \/ words'[h][q][i] = words[h][q][i] /\ ~(h = g /\ ResetFlags(g, s))
      \/ h = g /\ Written(g, q, i)
  BY <1>6, WordChange
<1>8. ASSUME h = g, Written(g, q, i) PROVE Good(h, i, words'[h][q][i])
  <2>1. PICK p \in Peers, ch \in Chunks :
          PeerWrites(g, p, ch) /\ words'[g][q][i] = <<p, ch, recv[g][<<p, ch>>] + 1>>
    BY <1>8 DEF Written
  <2> QED
    BY <1>5, <1>8, <2>1
<1> QED
  BY <1>2, <1>4, <1>6, <1>7, <1>8

\* With early accumulation: what has been added for a peer is what it sent in this epoch,
\* once.
LEMMA AccumStep ==
    ASSUME IInv, NEW g \in Gpus, Step(g)
    PROVE  AccumInv'
<1>0. /\ TypeOK /\ AccumInv /\ Changes(g) /\ cfg' = cfg /\ cfg \in Configs
      /\ accum \in [Gpus -> [Chunks -> [Peers -> Seq(Nat)]]]
  BY WhoChanges, Shape DEF IInv, TypeOK, Changes, ReduceTypes
<1>1. Gpus' = Gpus /\ Chunks' = Chunks /\ Peers' = Peers
  BY <1>0, LaunchStays
<1> SUFFICES ASSUME NEW h \in Gpus, NEW ch \in Chunks, NEW p \in Peers, accum'[h][ch][p] # <<>>
             PROVE  p \in peer_mask'[h][ch] /\ accum'[h][ch][p] = <<epoch'[h]>>
  BY <1>1 DEF AccumInv
<1>2. accum[h][ch][p] # <<>> => p \in peer_mask[h][ch] /\ accum[h][ch][p] = <<epoch[h]>>
  BY <1>0 DEF AccumInv
<1>3. CASE h = g /\ Launch(g)
  <2>1. accum' = [accum EXCEPT ![g] = [c \in Chunks |-> NoPeers]]
    BY <1>3 DEF Launch
  <2>2. accum'[g] = [c \in Chunks |-> NoPeers]
    BY <1>0, <2>1
  <2>3. accum'[h][ch][p] = <<>>
    BY <1>3, <2>2 DEF NoPeers
  <2> QED
    BY <2>3
<1>4. CASE ~(h = g /\ Launch(g))
  <2>1. epoch'[h] = epoch[h] /\ peer_mask[h][ch] \subseteq peer_mask'[h][ch]
    BY <1>0, <1>4, EpochChange, MaskChange
  <2>2. CASE accum'[h][ch] = accum[h][ch]
    BY <1>2, <2>1, <2>2
  <2>3. ASSUME NEW r \in Reducers, ReduceEarly(g, r)
        PROVE  \/ accum'[h][ch] = accum[h][ch]
               \/ h = g /\ ch \notin Published(g) /\ accum'[h][ch] = Added(g, ch)
    <3>1. PICK c \in Chunks : c = scan[g][r]
      BY <1>0, <2>3, EarlyIs
    <3>2. Static /\ accum' = [accum EXCEPT ![g][c] = Added(g, c)]
      BY <1>0, <2>3, <3>1, EarlyIs
    <3>3. accum'[h][ch] = IF h = g /\ ch = c THEN Added(g, c) ELSE accum[h][ch]
      BY <1>0, <3>2
    <3>4. scan[g][r] % NumReduce = r
      BY <3>2 DEF IInv, PublishInv
    <3>5. c \notin Published(g)
      <4>1. c \in Nat
        BY <1>0, Numbers
      <4> QED
        BY <3>1, <3>2, <3>4, <4>1 DEF Published
    <3> QED
      BY <3>3, <3>5
  <2>4. CASE h = g /\ ch \notin Published(g) /\ accum'[h][ch] = Added(g, ch)
    <3>1. p \in NewPeers(g, ch) \/ accum[g][ch][p] # <<>>
      BY <2>4, AddedNow
    <3> QED
      BY <2>1, <2>4, <3>1, AddedNow
  <2>5. Launch(g) => accum'[h][ch] = accum[h][ch]
    BY <1>0, <1>4 DEF Launch
  <2> QED
    BY <1>0, <2>2, <2>3, <2>4, <2>5 DEF Changes
<1> QED
  BY <1>3, <1>4

\* What a launch has of the final output: each tile once it is published.
LEMMA FinalStep ==
    ASSUME IInv, SameLayout, NEW g \in Gpus, Step(g)
    PROVE  FinalInv'
<1>0. /\ TypeOK /\ FinalInv /\ LagInv /\ SummedInv /\ EpochInv /\ PublishInv
      /\ Changes(g) /\ cfg' = cfg /\ cfg \in Configs
      /\ \A h \in Gpus : epoch[h] \in Nat \ {0}
      /\ \A h \in Gpus : Published(h) \subseteq Chunks
  BY WhoChanges, Shape DEF IInv, Changes
<1>1. /\ Gpus' = Gpus /\ Tiles' = Tiles /\ Chunks' = Chunks
      /\ \A t : ChunkOf(t)' = ChunkOf(t)
  BY <1>0, LaunchStays, LayoutStays
<1> DEFINE New(d, w) == \/ epoch'[d] < epoch'[w[1]]
                        \/ epoch'[d] = epoch'[w[1]] /\ ChunkOf(w[2]) \in Published(w[1])'
<1>2. \A d \in Gpus : \A w \in Gpus \X Tiles : HasFinal(d, w)' <=> New(d, w)
  <2> SUFFICES ASSUME NEW d \in Gpus, NEW w \in Gpus \X Tiles PROVE HasFinal(d, w)' <=> New(d, w)
    OBVIOUS
  <2>1. ChunkOf(w[2])' = ChunkOf(w[2])
    BY <1>1
  <2> QED
    BY <2>1 DEF HasFinal
<1>3. \A d \in Gpus : Sum(epoch[d])' = Sum(epoch'[d])
  <2>1. Gpus' = Gpus /\ Peers' = Peers
    BY <1>0, LaunchStays
  <2> QED
    BY <2>1 DEF Sum, Whole
<1> HIDE DEF New
<1>4. SUFFICES ASSUME NEW d \in Gpus, NEW w \in Gpus \X Tiles
               PROVE  final'[d][w] = IF New(d, w) THEN <<Sum(epoch'[d])>> ELSE <<>>
  <2>1. \A d \in Gpus : \A w \in Gpus \X Tiles :
          final'[d][w] = IF HasFinal(d, w)' THEN <<Sum(epoch[d])'>> ELSE <<>>
    BY <1>2, <1>3, <1>4
  <2> QED
    BY <1>1, <2>1 DEF FinalInv
<1>5. PICK h \in Gpus, t \in Tiles : w = <<h, t>> /\ w[1] = h /\ w[2] = t
  OBVIOUS
<1>6. PICK ch \in Chunks : ch = ChunkOf(t)
  BY <1>0, TileChunk
<1>7. final[d][w] = IF HasFinal(d, w) THEN <<Sum(epoch[d])>> ELSE <<>>
  BY <1>0 DEF FinalInv
<1>8. HasFinal(d, w) <=> epoch[d] < epoch[h] \/ (epoch[d] = epoch[h] /\ ch \in Published(h))
  BY <1>5, <1>6 DEF HasFinal
<1>9. New(d, w) <=> epoch'[d] < epoch'[h] \/ (epoch'[d] = epoch'[h] /\ ch \in Published(h)')
  BY <1>5, <1>6 DEF New
<1>10. /\ \A x \in Gpus : x # g => Published(x)' = Published(x) /\ epoch'[x] = epoch[x]
       /\ \/ ~Launch(g) /\ UNCHANGED <<final, published_chunks>> /\ Published(g)' = Published(g)
          \/ Launch(g) /\ Published(g)' = {}
          \/ \E c \in Chunks : Publishes(g, c)
  BY <1>0, PublishedChange, EpochChange
<1>11. CASE ~Launch(g) /\ UNCHANGED <<final, published_chunks>> /\ Published(g)' = Published(g)
  <2>1. epoch' = epoch /\ Published(h)' = Published(h)
    BY <1>0, <1>10, <1>11, EpochChange
  <2> QED
    BY <1>7, <1>8, <1>9, <1>11, <2>1
<1>12. CASE Launch(g) /\ Published(g)' = {}
  <2>0. KernelOver(g) /\ epoch'[g] = epoch[g] + 1 /\ epoch[g] \in Nat
    BY <1>0, <1>12, EpochChange DEF Launch
  <2>1. Published(g) = Chunks /\ \A x \in Gpus : epoch[g] <= Announced(x)
    BY <2>0, OverFacts
  <2>2. /\ final' = [final EXCEPT ![g] = [x \in DOMAIN @ |-> <<>>]]
        /\ final \in [Gpus -> [Gpus \X Tiles -> Seq(Results)]]
    BY <1>0, <1>12 DEF Launch, TypeOK, ReduceTypes
  <2>3. /\ d # g => final'[d] = final[d]
        /\ d = g => final'[d][w] = <<>>
    BY <2>2
  <2>4. /\ epoch[d] \in Nat /\ epoch[h] \in Nat
        /\ epoch[g] <= epoch[h] /\ epoch[h] <= epoch[g] + 1
        /\ epoch[g] <= epoch[d] /\ epoch[d] <= epoch[g] + 1
    <3>1. \A x \in Gpus : epoch[x] \in Nat /\ epoch[g] <= epoch[x] /\ epoch[x] <= epoch[g] + 1
      <4> SUFFICES ASSUME NEW x \in Gpus
                   PROVE  epoch[x] \in Nat /\ epoch[g] <= epoch[x] /\ epoch[x] <= epoch[g] + 1
        OBVIOUS
      <4>1. Announced(x) <= epoch[x] /\ Announced(x) \in Nat /\ epoch[x] \in Nat
        BY <1>0, Shape
      <4>2. epoch[x] <= Announced(g) + 1 /\ Announced(g) = epoch[g]
        BY <1>0, <2>0, OverFacts DEF EpochInv
      <4> QED
        BY <2>0, <2>1, <4>1, <4>2
    <3> QED
      BY <3>1
  <2>5. CASE d = g
    <3>1. ~New(d, w)
      <4>1. CASE h = g
        BY <1>9, <1>12, <2>0, <2>5, <4>1
      <4>2. CASE h # g
        <5>1. ch \in Published(h) /\ epoch[h] = epoch[g] + 1 => FALSE
          <6> SUFFICES ASSUME ch \in Published(h), epoch[h] = epoch[g] + 1 PROVE FALSE
            OBVIOUS
          <6>1. local_done_flag[h][ch] # 0
            BY <1>0 DEF PublishInv
          <6>2. epoch[h] <= epoch[g]
            BY <1>0, <6>1, NobodyBehind
          <6> QED
            BY <2>0, <6>2
        <5>2. epoch'[h] = epoch[h] /\ Published(h)' = Published(h)
          BY <1>10, <4>2
        <5> QED
          BY <1>9, <2>0, <2>4, <2>5, <5>1, <5>2
      <4> QED
        BY <4>1, <4>2
    <3> QED
      BY <2>3, <2>5, <3>1
  <2>6. CASE d # g
    <3>1. epoch'[d] = epoch[d]
      BY <1>10, <2>6
    <3>2. New(d, w) <=> HasFinal(d, w)
      <4>1. CASE h = g
        <5>1. HasFinal(d, w) <=> epoch[d] = epoch[g]
          BY <1>8, <2>1, <2>4, <4>1
        <5>2. New(d, w) <=> epoch[d] < epoch[g] + 1
          BY <1>9, <1>12, <2>0, <3>1, <4>1
        <5> QED
          BY <2>0, <2>4, <5>1, <5>2
      <4>2. CASE h # g
        BY <1>8, <1>9, <1>10, <3>1, <4>2
      <4> QED
        BY <4>1, <4>2
    <3> QED
      BY <1>7, <2>3, <2>6, <3>1, <3>2
  <2> QED
    BY <2>5, <2>6
<1>13. ASSUME NEW c \in Chunks, Publishes(g, c)
       PROVE  final'[d][w] = IF New(d, w) THEN <<Sum(epoch'[d])>> ELSE <<>>
  <2>1. /\ UNCHANGED epoch /\ c \notin Published(g) /\ Published(g)' = Published(g) \cup {c}
        /\ local_done_flag[g][c] # 0
        /\ Publish(g, c, [p \in Peers |-> <<epoch[g]>>])
    BY <1>13 DEF Publishes
  <2>2. \A x \in Gpus : epoch[x] = epoch[g]
    <3>1. \A x \in Gpus : epoch[x] <= epoch[g] /\ epoch[g] <= epoch[x]
      BY <1>0, <2>1, NobodyAhead, NobodyBehind
    <3> QED
      BY <1>0, <3>1
  <2>3. final'[d][w] = IF h = g /\ t \in Decode(c)
                         THEN Append(final[d][w], [local |-> staging[g][t], peers |-> [p \in Peers |-> <<epoch[g]>>]])
                         ELSE final[d][w]
    BY <1>5, <2>1 DEF Publish
  <2>4. t \in Decode(c) <=> ch = c
    BY <1>0, <1>6, DecodeIs DEF TilesIn
  <2>5. CASE h = g /\ ch = c
    <3>1. ~HasFinal(d, w) /\ New(d, w)
      BY <1>0, <1>8, <1>9, <2>1, <2>2, <2>5
    <3>2. final[d][w] = <<>>
      BY <1>7, <3>1
    <3>3. t \in TilesIn(c)
      BY <1>6, <2>5 DEF TilesIn
    <3>4. staging[g][t] = Whole(epoch[g])
      BY <1>0, <2>1, <3>3, CountedWhole
    <3>5. final'[d][w] = Append(<<>>, Sum(epoch[g]))
      BY <2>3, <2>4, <2>5, <3>2, <3>4 DEF Sum
    <3>6. \A x : Append(<<>>, x) = <<x>>
      OBVIOUS
    <3>7. epoch'[d] = epoch[g]
      BY <2>1, <2>2
    <3> QED
      BY <3>1, <3>5, <3>6, <3>7
  <2>6. CASE ~(h = g /\ ch = c)
    <3>1. final'[d][w] = final[d][w]
      BY <2>3, <2>4, <2>6
    <3>2. ch \in Published(h)' <=> ch \in Published(h)
      BY <1>10, <2>1, <2>6
    <3>3. epoch'[d] = epoch[d] /\ epoch'[h] = epoch[h]
      BY <2>1
    <3> QED
      BY <1>7, <1>8, <1>9, <3>1, <3>2, <3>3
  <2> QED
    BY <2>5, <2>6
<1> QED
  BY <1>10, <1>11, <1>12, <1>13

-----------------------------------------------------------------------------
\* The first launch has nothing signalled, counted, sent or published.
LEMMA InitTypes ==
    ASSUME Init
    PROVE  TypeOK
<1>0. cfg \in Configs
  BY DEF Init
<1>1. /\ 0 \in Nat /\ 1 \in Nat \ {0} /\ 0 \in {0, 1, 2} /\ 0 \in Int
      /\ 0 \in Reducers /\ NumReduce \in Nat \ {0} /\ TotalChunks \in Nat \ {0}
  BY <1>0, ReducerFacts, Numbers
<1>2. \A r \in Reducers : ScanStart(r) \in Nat
  <2> SUFFICES ASSUME NEW r \in Reducers PROVE ScanStart(r) \in Nat
    OBVIOUS
  <2>1. r \in Nat
    BY <1>1 DEF Reducers
  <2>2. cfg.num_blocks \in Nat
    BY <1>0, ConfigFacts
  <2>3. cfg.num_blocks - NumReduce + r \in Int
    BY <1>1, <2>1, <2>2
  <2>4. (cfg.num_blocks - NumReduce + r) % TotalChunks \in Nat
    BY <1>1, <2>3
  <2> QED
    BY <2>1, <2>4 DEF ScanStart
<1>3. NoPeers \in [Peers -> Seq(Nat)] /\ <<>> \in Seq(Results)
  BY DEF NoPeers
<1>4. LaunchTypes
  BY <1>0, <1>1 DEF Init, LaunchTypes
<1>5. SliceTypes
  BY <1>1 DEF Init, SliceTypes, Sums
<1>6. SendTypes
  BY DEF Init, SendTypes
<1>7. ArrivalTypes
  <2>1. recv \in [Gpus -> [Peers \X Chunks -> Nat]]
    BY <1>1 DEF Init
  <2>2. words \in [Gpus -> [Queues -> [1..TotalChunks -> {<<>>} \cup Words]]]
    BY DEF Init
  <2>3. arrival_queue_head \in [Gpus -> [Queues -> Nat]]
    BY <1>1 DEF Init
  <2>4. /\ peer_mask \in [Gpus -> [Chunks -> SUBSET Peers]]
        /\ remote_arrived_flag \in [Gpus -> SUBSET Chunks]
        /\ remote_arrived_chunks \in [Gpus -> Nat]
    BY <1>1 DEF Init
  <2> QED
    BY <2>1, <2>2, <2>3, <2>4 DEF ArrivalTypes
<1>8. ReduceTypes
  <2>1. at \in [Gpus -> [Reducers -> Places]]
    BY DEF Init, Places
  <2>2. \A g \in Gpus : \A r \in Reducers : at[g][r] \in {"slices", "barrier"} => r = 0
    BY DEF Init
  <2>3. scan \in [Gpus -> [Reducers -> Nat]]
    BY <1>2 DEF Init
  <2>4. reduce_cursor \in [Gpus -> Nat] /\ published_chunks \in [Gpus -> Nat]
    BY <1>1 DEF Init
  <2>5. accum \in [Gpus -> [Chunks -> [Peers -> Seq(Nat)]]]
    BY <1>3 DEF Init
  <2>6. final \in [Gpus -> [Gpus \X Tiles -> Seq(Results)]]
    BY <1>3 DEF Init
  <2> QED
    BY <2>1, <2>2, <2>3, <2>4, <2>5, <2>6 DEF ReduceTypes
<1>9. FinishTypes
  BY <1>1 DEF Init, FinishTypes
<1> QED
  BY <1>4, <1>5, <1>6, <1>7, <1>8, <1>9 DEF TypeOK

LEMMA InitInv ==
    ASSUME Init
    PROVE  IInv
<1>0. TypeOK /\ cfg \in Configs
  BY InitTypes DEF Init
<1>1. /\ 0 \in Reducers /\ NumReduce \in Nat \ {0} /\ Reducers = 0..(NumReduce - 1)
      /\ IsFiniteSet(Gpus) /\ cfg.slot_rows \in Nat \ {0}
  BY <1>0, ReducerFacts, Numbers, ConfigFacts
<1>2. \A g \in Gpus : epoch[g] = 1 /\ \A r \in Reducers : at[g][r] = "look"
  BY DEF Init
<1>3. \A d \in Gpus : \A w \in Gpus \X Chunks : Signals(d, w) = 0
  <2> SUFFICES ASSUME NEW d \in Gpus, NEW w \in Gpus \X Chunks PROVE Signals(d, w) = 0
    OBVIOUS
  <2>1. comp_chunk_tiles_done[d][w] = 0
    BY DEF Init
  <2>2. TilesOf(w[2]) # 0
    BY <1>0, ChunkTilesFit
  <2> QED
    BY <1>2, <2>1, <2>2 DEF Signals
<1>4. \A g \in Gpus : \A ch \in Chunks : local_done_flag[g][ch] = 0 /\ Taken(g, ch) = 0
  <2>1. \A g \in Gpus : \A ch \in Chunks : local_done_flag[g][ch] = 0
    BY DEF Init
  <2> QED
    BY <1>2, <2>1 DEF Taken
<1>5. ComputeInv
  <2>1. \A g \in Gpus : computed[g] = {}
    BY DEF Init
  <2>2. \A g \in Gpus : \A w \in Gpus \X Chunks : comp_chunk_tiles_done[g][w] = 0
    BY DEF Init
  <2>3. \A w : {} \cap TasksIn(w) = {}
    OBVIOUS
  <2> QED
    BY <2>1, <2>2, <2>3, FS_EmptySet DEF ComputeInv
<1>6. SignalInv
  <2>1. \A g \in Gpus : \A w \in Gpus \X Chunks : barrier[g][w] = 0
    BY DEF Init
  <2>2. ASSUME NEW g \in Gpus, NEW ch \in Chunks
        PROVE  barrier[g][<<g, ch>>] = Cardinality({d \in Gpus : Signals(d, <<g, ch>>) = Taken(g, ch) + 1})
    <3>1. {d \in Gpus : Signals(d, <<g, ch>>) = Taken(g, ch) + 1} = {}
      BY <1>3, <1>4
    <3> QED
      BY <2>1, <3>1, FS_EmptySet
  <2> QED
    BY <1>3, <2>1, <2>2 DEF SignalInv
<1>7. LagInv
  <2> SUFFICES ASSUME NEW d \in Gpus, NEW g \in Gpus, NEW ch \in Chunks
               PROVE  Taken(g, ch) <= Signals(d, <<g, ch>>) /\ Signals(d, <<g, ch>>) <= Taken(g, ch) + 1
    BY DEF LagInv
  <2>1. Taken(g, ch) = 0 /\ Signals(d, <<g, ch>>) = 0
    BY <1>3, <1>4
  <2> QED
    BY <2>1
<1>8. SummedInv
  <2>1. \A g \in Gpus : counted[g] = {} /\ summed[g] = {}
    BY DEF Init
  <2>2. \A g \in Gpus : \A ch \in Chunks : intra_chunk_tiles_done[g][ch] = 0
    BY DEF Init
  <2>3. \A ch \in Chunks : ~(TilesIn(ch) \subseteq {}) /\ {} \cap TilesIn(ch) = {}
    BY <1>0, TilesInCount
  <2> QED
    BY <1>4, <2>1, <2>2, <2>3, FS_EmptySet DEF SummedInv
<1>9. SendInv
  <2>1. \A g \in Gpus : issued[g] = {} /\ posted[g] = {} /\ sent[g] = {} /\ bell[g] = 0
    BY DEF Init
  <2> QED
    BY <1>1, <1>2, <2>1 DEF SendInv
<1>10. \A g \in Gpus : Published(g) = {}
  <2> SUFFICES ASSUME NEW g \in Gpus PROVE Published(g) = {}
    OBVIOUS
  <2>1. CASE Static
    <3>1. \A r \in Reducers : scan[g][r] = r
      BY <2>1 DEF Init, ScanStart
    <3>2. ASSUME NEW ch \in Chunks, ch < scan[g][ch % NumReduce] PROVE FALSE
      <4> DEFINE n == NumReduce
                 q == ch \div n
                 m == ch % n
      <4>1. ch \in Nat /\ n \in Nat \ {0}
        BY <1>0, <1>1, Numbers
      <4>2. m \in Nat /\ m < n /\ q \in Nat /\ ch = n * q + m /\ n * q \in Nat
        BY <4>1, Divides
      <4>3. m \in Reducers
        BY <1>1, <4>1, <4>2
      <4>4. ch < m
        BY <3>1, <3>2, <4>3
      <4> HIDE DEF n, q, m
      <4> QED
        BY <4>1, <4>2, <4>4
    <3> QED
      BY <2>1, <3>2 DEF Published
  <2>2. CASE ~Static
    BY <1>4, <2>2 DEF Published
  <2> QED
    BY <2>1, <2>2
<1>11. PublishInv
  <2>1. \A g \in Gpus : published_chunks[g] = 0
    BY DEF Init
  <2>2. ASSUME Static, NEW g \in Gpus, NEW r \in Reducers PROVE scan[g][r] % NumReduce = r
    <3>1. scan[g][r] = r
      BY <2>2 DEF Init, ScanStart
    <3>2. r \in Nat /\ r < NumReduce
      BY <1>1
    <3>3. 0 * NumReduce + r = r /\ (0 * NumReduce + r) % NumReduce = r
      <4>1. (0 * NumReduce + r) % NumReduce = r
        BY <1>1, <3>2, DivideBack
      <4> QED
        BY <1>1, <3>2, <4>1
    <3> QED
      BY <3>1, <3>3
  <2> QED
    BY <1>2, <1>10, <2>1, <2>2, FS_EmptySet DEF PublishInv
<1>12. \A g \in Gpus : Announced(g) = 0
  BY <1>1, <1>2 DEF Announced
<1>13. SlotInv
  <2>1. \A row \in 0..(cfg.slot_rows - 1) : \A g \in Gpus : final_slot[row][g] = 0
    BY DEF Init
  <2>2. 1..0 = {}
    OBVIOUS
  <2> QED
    BY <1>12, <2>1, <2>2 DEF SlotInv
<1>14. EpochInv
  BY <1>1, <1>2, <1>12 DEF EpochInv
<1>15. ArrivalInv
  <2>1. \A g \in Gpus : /\ rung[g] = 0 /\ remote_arrived_flag[g] = {}
                        /\ \A w \in Peers \X Chunks : recv[g][w] = 0
                        /\ \A ch \in Chunks : peer_mask[g][ch] = {}
    BY DEF Init
  <2> QED
    BY <1>1, <1>2, <2>1 DEF ArrivalInv
<1>16. WordInv
  <2>1. \A g \in Gpus : \A q \in Queues : \A i \in 1..TotalChunks : words[g][q][i] = <<>>
    BY DEF Init
  <2> QED
    BY <2>1 DEF WordInv
<1>17. AccumInv
  <2>1. \A g \in Gpus : \A ch \in Chunks : \A p \in Peers : accum[g][ch][p] = <<>>
    BY DEF Init, NoPeers
  <2> QED
    BY <2>1 DEF AccumInv
<1>18. FinalInv
  <2>1. \A d \in Gpus : \A w \in Gpus \X Tiles : final[d][w] = <<>>
    BY DEF Init
  <2>2. \A d \in Gpus : \A w \in Gpus \X Tiles : ~HasFinal(d, w)
    BY <1>2, <1>10 DEF HasFinal
  <2> QED
    BY <2>1, <2>2 DEF FinalInv
<1> QED
  BY <1>0, <1>5, <1>6, <1>7, <1>8, <1>9, <1>11, <1>13, <1>14, <1>15, <1>16, <1>17, <1>18 DEF IInv

\* A step that changes nothing, and the end of the last launch.
LEMMA StutterInv ==
    ASSUME IInv, UNCHANGED vars
    PROVE  IInv'
<1>0. /\ UNCHANGED <<cfg, epoch, barrier, local_done_flag, final>>
      /\ UNCHANGED <<gemm, intra, send, net, drain, reduce, finish>>
  BY DEF vars
<1>1. /\ UNCHANGED <<computed, comp_chunk_tiles_done, C>>
      /\ UNCHANGED <<summed, counted, intra_chunk_tiles_done, staging>>
      /\ UNCHANGED <<issued, posted, sent, recv, words>>
      /\ UNCHANGED <<arrival_queue_head, peer_mask, remote_arrived_flag, remote_arrived_chunks>>
      /\ UNCHANGED <<at, scan, reduce_cursor, accum, published_chunks>>
      /\ UNCHANGED <<final_slot, final_publish_done, rung, bell>>
  BY <1>0 DEF gemm, intra, send, net, drain, reduce, finish
<1>2. /\ Gpus' = Gpus /\ Peers' = Peers /\ Chunks' = Chunks /\ Tiles' = Tiles
      /\ Tasks' = Tasks /\ Queues' = Queues /\ Reducers' = Reducers
      /\ TotalChunks' = TotalChunks /\ NumReduce' = NumReduce
      /\ Words' = Words /\ Sums' = Sums /\ Results' = Results
      /\ (Static' <=> Static)
  BY <1>0, LaunchStays
<1>3. /\ \A t : ChunkOf(t)' = ChunkOf(t)
      /\ \A ch : TilesOf(ch)' = TilesOf(ch) /\ TilesIn(ch)' = TilesIn(ch)
      /\ \A w : TasksIn(w)' = TasksIn(w)
      /\ \A k : SliceOf(k)' = SliceOf(k) /\ TileOf(k)' = TileOf(k)
      /\ \A e : Whole(e)' = Whole(e) /\ Sum(e)' = Sum(e)
  BY <1>0, LayoutStays
<1>4. TypeOK'
  <2>1. LaunchTypes'
    BY <1>0, <1>1, <1>2 DEF IInv, TypeOK, LaunchTypes
  <2>2. SliceTypes'
    BY <1>0, <1>1, <1>2 DEF IInv, TypeOK, SliceTypes
  <2>3. SendTypes'
    BY <1>0, <1>1, <1>2 DEF IInv, TypeOK, SendTypes
  <2>4. ArrivalTypes'
    BY <1>0, <1>1, <1>2 DEF IInv, TypeOK, ArrivalTypes
  <2>5. ReduceTypes'
    BY <1>0, <1>1, <1>2 DEF IInv, TypeOK, ReduceTypes, Places
  <2>6. FinishTypes'
    BY <1>0, <1>1, <1>2 DEF IInv, TypeOK, FinishTypes
  <2> QED
    BY <2>1, <2>2, <2>3, <2>4, <2>5, <2>6 DEF TypeOK
<1>5. \A d, w : Signals(d, w)' = Signals(d, w)
  BY <1>0, <1>1, <1>3 DEF Signals
<1>6. \A g, ch : Taken(g, ch)' = Taken(g, ch)
  BY <1>0 DEF Taken
<1>7. \A g : Published(g)' = Published(g)
  BY <1>0, <1>1, <1>2 DEF Published
<1>8. \A g : Announced(g)' = Announced(g)
  BY <1>0, <1>1 DEF Announced
<1>9. \A d, w : HasFinal(d, w)' <=> HasFinal(d, w)
  BY <1>0, <1>3, <1>7 DEF HasFinal
<1>10. ComputeInv'
  BY <1>0, <1>1, <1>2, <1>3 DEF IInv, ComputeInv
<1>11. SignalInv' /\ LagInv'
  BY <1>0, <1>2, <1>5, <1>6 DEF IInv, SignalInv, LagInv
<1>12. SummedInv'
  BY <1>0, <1>1, <1>2, <1>3, <1>5 DEF IInv, SummedInv
<1>13. SendInv'
  BY <1>0, <1>1, <1>2, <1>3 DEF IInv, SendInv
<1>14. PublishInv'
  BY <1>0, <1>1, <1>2, <1>7 DEF IInv, PublishInv
<1>15. SlotInv' /\ EpochInv'
  BY <1>0, <1>1, <1>2, <1>8 DEF IInv, SlotInv, EpochInv
<1>16. ArrivalInv' /\ WordInv' /\ AccumInv'
  BY <1>0, <1>1, <1>2 DEF IInv, ArrivalInv, WordInv, AccumInv
<1>17. FinalInv'
  BY <1>0, <1>2, <1>3, <1>9 DEF IInv, FinalInv
<1> QED
  BY <1>4, <1>10, <1>11, <1>12, <1>13, <1>14, <1>15, <1>16, <1>17 DEF IInv

-----------------------------------------------------------------------------
\* What the code is about.

\* gemm_ar.cuh and gemm_ar.cu: what the counters, flags, words and barrier slots of every
\* GPU say of the launches that the GPUs are in.
THEOREM Inductive ==
    ASSUME SameLayout, Paired
    PROVE  Spec => []IInv
<1>1. Init => IInv
  BY InitInv
<1>2. IInv /\ [Next]_vars => IInv'
  <2>1. ASSUME IInv, NEW g \in Gpus, Step(g) PROVE IInv'
    BY <2>1, TypesStep, ComputeStep, SignalStep, SummedStep, SendStep, PublishStep, SlotStep,
       EpochStep, ArrivalStep, WordStep, AccumStep, FinalStep DEF IInv
  <2> QED
    BY <2>1, StutterInv DEF Next, Step, Finished
<1> QED
  BY <1>1, <1>2, PTL DEF Spec

\* Every counter, flag and buffer of the kernel stays in its range.
THEOREM TypeCorrect ==
    ASSUME SameLayout, Paired
    PROVE  Spec => []TypeOK
<1>1. IInv => TypeOK
  BY DEF IInv
<1> QED
  BY <1>1, Inductive, PTL

\* fused_inter_send_sm posts a chunk and does not wait for the NIC: what the NIC reads is
\* the node's sum of this epoch all the same.
THEOREM SentIsWhole ==
    ASSUME SameLayout, Paired
    PROVE  Spec => []SentWhole
<1>1. IInv => SentWhole
  BY DEF IInv, SendInv, SentWhole
<1> QED
  BY <1>1, Inductive, PTL

\* gemm_ar_finish_multicast_publication and gemm_ar_hierarchical_xnode_barrier: a kernel
\* ends with every tile of the final output published once, complete and of this epoch.
THEOREM FinalIsComplete ==
    ASSUME SameLayout, Paired
    PROVE  Spec => []FinalComplete
<1>1. IInv => FinalComplete
  <2> SUFFICES ASSUME IInv, NEW d \in Gpus, KernelOver(d), NEW w \in Gpus \X Tiles
               PROVE  final[d][w] = <<Sum(epoch[d])>>
    BY DEF FinalComplete, Sum
  <2>0. PICK h \in Gpus, t \in Tiles : w = <<h, t>> /\ w[1] = h /\ w[2] = t
    OBVIOUS
  <2>1. /\ cfg \in Configs /\ epoch[d] \in Nat /\ epoch[h] \in Nat /\ 0 \in Reducers
        /\ Announced(h) \in Nat /\ Announced(h) <= epoch[h]
    BY Shape DEF IInv
  <2>2. epoch[d] <= Announced(h)
    BY OverFacts
  <2>3. CASE epoch[d] < epoch[h]
    BY <2>0, <2>3 DEF HasFinal, IInv, FinalInv
  <2>4. CASE epoch[d] = epoch[h]
    <3>1. Announced(h) = epoch[h]
      BY <2>1, <2>2, <2>4
    <3>2. at[h][0] # "look"
      BY <2>1, <3>1 DEF Announced
    <3>3. Published(h) = Chunks
      BY <2>1, <3>2 DEF IInv, PublishInv
    <3>4. ChunkOf(t) \in Published(h)
      BY <2>1, <3>3, TileChunk
    <3>5. HasFinal(d, w)
      BY <2>0, <2>4, <3>4 DEF HasFinal
    <3> QED
      BY <3>5 DEF IInv, FinalInv
  <2> QED
    BY <2>1, <2>2, <2>3, <2>4
<1> QED
  BY <1>1, Inductive, PTL

=============================================================================
