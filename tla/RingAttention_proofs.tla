------------------------ MODULE RingAttention_proofs ------------------------
(***************************************************************************)
(* Ring attention on any even number of GPUs of any number of nodes, where *)
(* K0 and V0 are restored for every launch: when a GPU is through, each of *)
(* its blocks of queries has attended once to every tile of every GPU of   *)
(* the node and to every tile that they received.  No two GPUs are further *)
(* apart than the barriers let them be, and so whoever reads a buffer      *)
(* finds in it what the ring has brought to that place by that stage.      *)
(***************************************************************************)
EXTENDS RingAttention, FiniteSetTheorems, TLAPS

-----------------------------------------------------------------------------
\* Types.

Contents == [node : Nat, gpu : Nat, epoch : Nat]
Words == Peers \X Tiles
Kernels == [op : {"send", "copy", "meet_in", "stage", "reduce", "meet_out", "over"}, stage : Nat]

\* What the CTAs of a kernel have to do.
Work(k) ==
    CASE k.op \in {"send", "copy"} -> Tiles
      [] k.op = "stage" -> ({"loaded", "stored"} \X Tiles) \cup ({"block"} \X Blocks)
      [] k.op = "reduce" -> 0..(cfg.reductions - 1)
      [] OTHER -> {}

StreamTypes ==
    /\ cfg \in Configs /\ epoch \in Nat
    /\ kernel \in [Gpus -> Kernels]
    /\ done = [g \in Gpus |-> done[g]] /\ \A g \in Gpus : done[g] \subseteq Work(kernel[g])
    /\ met \in [Gpus -> BOOLEAN] /\ barrier \in [Gpus -> Int]

BufferTypes ==
    /\ smem \in [Gpus -> [Tiles -> Contents]]
    /\ KV \in [Gpus -> [1..2 -> [Tiles -> Contents]]]
    /\ recv \in [Gpus -> [Words -> Contents]] /\ arrival_flags \in [Gpus -> [Words -> Nat]]
    /\ posted \in [Gpus -> SUBSET Words]

ResultTypes ==
    /\ part \in [Gpus -> [Blocks -> Seq(Contents)]]
    /\ O \in [Gpus -> [Blocks -> Seq(Contents)]] /\ O_block \in [Gpus -> [Blocks -> Seq(Contents)]]

TypeOK == StreamTypes /\ BufferTypes /\ ResultTypes

-----------------------------------------------------------------------------
\* The inductive invariant.

\* Which stages a kernel is launched for.
Launched(k) ==
    /\ k.stage < Stages
    /\ k.op \in {"send", "over"} => k.stage = 0
    /\ k.op \in {"copy", "reduce"} => k.stage # 0
    /\ k.op \in {"copy", "meet_in"} => k.stage % cfg.devices = 0

KernelInv(g) == Launched(kernel[g]) /\ (met[g] => Meets(g))

\* The barriers of a launch that lie before a kernel: one after each stage, and one
\* before the first stage of a round.
Attending == {"stage", "reduce", "meet_out"}
Before(k) ==
    IF k.op = "over" THEN Stages + cfg.nodes
    ELSE k.stage + (k.stage \div cfg.devices) + (IF k.op \in Attending THEN 1 ELSE 0)
Passed(g) == Before(kernel[g])
Signalled(g) == Passed(g) + (IF met[g] THEN 1 ELSE 0)

\* Nobody is through a barrier that another has not come to.
NobodyAhead == \A g, h \in Gpus : Passed(g) <= Signalled(h)

\* A word counts the GPUs that are in the next barrier, and those that are already in
\* the one after it.
At(h, n) == {g \in Gpus : Signalled(g) >= Passed(h) + n}
BarrierInv == \A h \in Gpus : barrier[h] = Cardinality(At(h, 1)) + Cardinality(At(h, 2))

\* What a GPU of the node has brought into the launch, its own or a tile that has arrived,
\* and so what is in the place that a GPU reads in a stage.  Later arrivals leave it.
Back(g, j) == IF j <= g THEN g - j ELSE g - j + cfg.devices
Brought(n, h, t) ==
    IF n = 0 THEN {Own(h, epoch)}
    ELSE {recv[h][w] : w \in {v \in Words : h \in Gpus /\ v = <<n - 1, t>> /\ Arrived(h, v)}}
Source(g, s, t) == Brought(s \div cfg.devices, Back(g, s % cfg.devices), t)
Kept == \A h, s, t : Source(h, s, t) \subseteq Source(h, s, t)'

Leads(g) == \A h \in Gpus : Passed(h) <= Passed(g)

\* Before the first stage of a round K0 and V0 are filled ...
FillInv(g) ==
    Leads(g) /\ Op(g) \in {"send", "copy", "meet_in"} =>
        \A h \in Gpus, t \in Tiles :
            \/ Stage(g) = 0
            \/ Passed(h) = Passed(g) /\ (Op(h) = "meet_in" \/ t \in done[h])
            => KV[h][1][t] \in Source(h, Stage(g), t)

\* ... and in a stage each GPU has the tiles it reads, and the next one those that have
\* been passed on to it.
InPlace(g, h, t) == KV[h][Here(g)][t] \in Source(h, Stage(g), t)
PassedOn(g, h, t) ==
    Passed(h) = Passed(g) /\ (Op(h) = "stage" => <<"stored", t>> \in done[h])
      => KV[NextGpu(h)][There(g)][t] \in Source(h, Stage(g), t)
StageInv(g) ==
    Leads(g) /\ Op(g) \in Attending
      => \A h \in Gpus, t \in Tiles : InPlace(g, h, t) /\ PassedOn(g, h, t)

LoadInv(g) ==
    \A t \in Tiles :
        Op(g) = "stage" /\ <<"loaded", t>> \in done[g] => smem[g][t] \in Source(g, Stage(g), t)

ArrivalInv(g) ==
    \A w \in Words :
        /\ arrival_flags[g][w] <= epoch
        /\ arrival_flags[g][w] = epoch
             => recv[g][w].epoch = epoch

\* What a block has read of this stage, and what it has read in all.
AllFrom(g, s, seq) == \A i \in 1..Len(seq) : seq[i] \in Source(g, s, i - 1)

PartInv(g) ==
    \A b \in Blocks :
        /\ Len(part[g][b]) < cfg.tiles /\ AllFrom(g, Stage(g), part[g][b])
        /\ Op(g) # "stage" \/ <<"block", b>> \in done[g] => part[g][b] = <<>>

BlockInv(g) ==
    \A b \in Blocks :
        \/ Op(g) = "stage" /\ Stage(g) # 0 /\ <<"block", b>> \in done[g]
        \/ Op(g) = "reduce"
        => Len(O_block[g][b]) = cfg.tiles /\ AllFrom(g, Stage(g), O_block[g][b])

Taken(g, b) ==
    CASE Op(g) = "over" -> Stages
      [] Op(g) = "meet_out" -> Stage(g) + 1
      [] Op(g) = "reduce" /\ b \div 2 \in done[g] -> Stage(g) + 1
      [] Op(g) = "stage" /\ Stage(g) = 0 /\ <<"block", b>> \in done[g] -> 1
      [] OTHER -> Stage(g)

ResultInv(g) ==
    \A b \in Blocks :
        /\ Len(O[g][b]) = Taken(g, b) * cfg.tiles
        /\ \A i \in 1..Len(O[g][b]) : O[g][b][i] \in Source(g, (i - 1) \div cfg.tiles, (i - 1) % cfg.tiles)

\* What concerns only the GPU's own work.
OwnInv(g) == LoadInv(g) /\ PartInv(g) /\ BlockInv(g) /\ ResultInv(g)

GpuInv(g) == KernelInv(g) /\ FillInv(g) /\ StageInv(g) /\ ArrivalInv(g) /\ OwnInv(g)

\* The host restores the buffers before every launch.
Restored == cfg.launches = 1 /\ launch = [g \in Gpus |-> 1]

IInv ==
    /\ TypeOK /\ Restored /\ NobodyAhead /\ BarrierInv
    /\ \A g \in Gpus : GpuInv(g)
-----------------------------------------------------------------------------
\* Arithmetic.

\* Division with remainder ...
LEMMA Divides ==
    ASSUME NEW a \in Nat, NEW b \in Nat \ {0}
    PROVE  /\ a \div b \in Nat /\ a % b \in Nat /\ a % b < b
           /\ a = (a \div b) * b + (a % b)
  OBVIOUS

\* ... and what it gives for a number put together from a quotient and a remainder.
LEMMA DivideBack ==
    ASSUME NEW q \in Nat, NEW b \in Nat \ {0}, NEW r \in Nat, r < b
    PROVE  (q * b + r) \div b = q /\ (q * b + r) % b = r
<1> DEFINE a == q * b + r
           p == a \div b
           s == a % b
<1>1. a \in Nat /\ p \in Nat /\ s \in Nat /\ s < b /\ a = p * b + s
  OBVIOUS
<1>2. ~(p < q)
  <2> SUFFICES ASSUME p < q PROVE FALSE
    OBVIOUS
  <2> DEFINE d == q - p - 1
  <2>1. d \in Nat /\ q = p + 1 + d
    BY <1>1
  <2>2. (p + 1 + d) * b = p * b + b + d * b /\ d * b \in Nat /\ p * b \in Nat
    BY <1>1, <2>1
  <2> QED
    BY <1>1, <2>1, <2>2
<1>3. ~(q < p)
  <2> SUFFICES ASSUME q < p PROVE FALSE
    OBVIOUS
  <2> DEFINE d == p - q - 1
  <2>1. d \in Nat /\ p = q + 1 + d
    BY <1>1
  <2>2. (q + 1 + d) * b = q * b + b + d * b /\ d * b \in Nat /\ q * b \in Nat
    BY <1>1, <2>1
  <2> QED
    BY <1>1, <2>1, <2>2
<1> QED
  BY <1>1, <1>2, <1>3

\* The round that a stage is in changes with every cfg.devices-th.
LEMMA NextRound ==
    ASSUME NEW s \in Nat, NEW b \in Nat \ {0}
    PROVE  /\ (s + 1) % b = 0 => s % b = b - 1 /\ (s + 1) \div b = s \div b + 1
           /\ (s + 1) % b # 0 => (s + 1) % b = (s % b) + 1 /\ (s + 1) \div b = s \div b
<1> DEFINE q == s \div b
           r == s % b
<1>1. q \in Nat /\ r \in Nat /\ r < b /\ s = q * b + r
  BY Divides
<1>2. CASE r + 1 < b
  <2>1. (q * b + (r + 1)) \div b = q /\ (q * b + (r + 1)) % b = r + 1
    BY <1>1, <1>2, DivideBack
  <2>2. s + 1 = q * b + (r + 1) /\ r + 1 # 0
    BY <1>1
  <2> QED
    BY <2>1, <2>2
<1>3. CASE r = b - 1
  <2>1. ((q + 1) * b + 0) \div b = q + 1 /\ ((q + 1) * b + 0) % b = 0
    <3>1. q + 1 \in Nat
      BY <1>1
    <3> QED
      BY <3>1, DivideBack
  <2>2. s + 1 = (q + 1) * b + 0
    <3>1. (q + 1) * b = q * b + b
      BY <1>1
    <3> QED
      BY <1>1, <1>3, <3>1
  <2> QED
    BY <1>3, <2>1, <2>2
<1> QED
  BY <1>1, <1>2, <1>3

\* A multiple of an even number is even.
LEMMA EvenMultiple ==
    ASSUME NEW s \in Nat, NEW b \in Nat \ {0}, b % 2 = 0, s % b = 0
    PROVE  s % 2 = 0
<1> DEFINE q == s \div b
           c == b \div 2
<1>1. q \in Nat /\ s = q * b
  BY Divides
<1>2. c \in Nat /\ b = c * 2
  OBVIOUS
<1> HIDE DEF q, c
<1> DEFINE e == q * c
<1>3. e \in Nat /\ s = e * 2
  <2>1. q * (c * 2) = (q * c) * 2 /\ q * c \in Nat
    BY <1>1, <1>2
  <2> QED
    BY <1>1, <1>2, <2>1
<1> HIDE DEF e
<1> QED
  BY <1>3

-----------------------------------------------------------------------------
\* The shape of a launch.

LEMMA CfgFacts ==
    ASSUME TypeOK
    PROVE  /\ cfg.devices \in Nat \ {0} /\ cfg.nodes \in Nat \ {0} /\ cfg.tiles \in Nat \ {0}
           /\ cfg.reductions \in Nat \ {0} /\ cfg.devices % 2 = 0
           /\ cfg.max_epoch \in Nat /\ cfg.resident \in Nat \ {0}
           /\ Stages \in Nat /\ Stages = cfg.nodes * cfg.devices
  BY RingAssumption DEF TypeOK, StreamTypes, Stages

\* The place of a kernel in a launch: its round, and in that the time before the first
\* stage or one of the stages.
Round(k) == IF k.op = "over" THEN cfg.nodes ELSE k.stage \div cfg.devices
Place(k) == IF k.op \in Attending THEN (k.stage % cfg.devices) + 1 ELSE 0

LEMMA BeforePlace ==
    ASSUME TypeOK, NEW k \in Kernels, Launched(k)
    PROVE  /\ Before(k) \in Nat
           /\ Before(k) \div (cfg.devices + 1) = Round(k)
           /\ Before(k) % (cfg.devices + 1) = Place(k)
<1> DEFINE D == cfg.devices
           q == Round(k)
           i == Place(k)
<1>1. D \in Nat \ {0} /\ cfg.nodes \in Nat /\ k.stage \in Nat
  BY CfgFacts DEF Kernels
<1>2. q \in Nat /\ i \in Nat /\ i < D + 1
  BY <1>1, Divides DEF Round, Place
<1>3. Before(k) = q * (D + 1) + i
  <2>1. CASE k.op = "over"
    <3>1. cfg.nodes * (D + 1) = cfg.nodes * D + cfg.nodes
      BY <1>1
    <3> QED
      BY <2>1, <3>1, <1>1, CfgFacts DEF Before, Round, Place, Attending
  <2>2. CASE k.op # "over"
    <3> DEFINE r == k.stage % D
    <3>1. k.stage = q * D + r /\ r \in Nat
      BY <1>1, <2>2, Divides DEF Round
    <3>2. q * (D + 1) = q * D + q
      BY <1>1, <1>2
    <3>3. k.op \notin Attending => r = 0
      <4>1. k.op \in {"send", "copy", "meet_in"} \/ k.op \in Attending
        BY <2>2 DEF Kernels, Attending
      <4>2. k.op = "send" => k.stage = 0
        BY DEF Launched
      <4>3. k.op \in {"copy", "meet_in"} => r = 0
        BY DEF Launched
      <4>4. k.stage = 0 => r = 0
        BY <1>1
      <4> QED
        BY <4>1, <4>2, <4>3, <4>4
    <3>4. Before(k) = k.stage + q + i - (IF k.op \in Attending THEN r ELSE 0)
      <4>1. q = k.stage \div D
        BY <2>2 DEF Round
      <4> QED
        BY <2>2, <4>1, <1>1, <1>2, <3>1 DEF Before, Place
    <3> HIDE DEF q, i, r
    <3>5. CASE k.op \in Attending
      BY <3>1, <3>2, <3>4, <3>5, <1>1, <1>2
    <3>6. CASE k.op \notin Attending
      BY <3>1, <3>2, <3>3, <3>4, <3>6, <1>1, <1>2
    <3> QED
      BY <3>5, <3>6
  <2> QED
    BY <2>1, <2>2
<1> HIDE DEF q, i
<1>4. (q * (D + 1) + i) \div (D + 1) = q /\ (q * (D + 1) + i) % (D + 1) = i
  <2> DEFINE b == D + 1
  <2>1. b \in Nat \ {0} /\ i < b
    BY <1>1, <1>2
  <2> HIDE DEF b
  <2>2. (q * b + i) \div b = q /\ (q * b + i) % b = i
    BY <1>2, <2>1, DivideBack
  <2> QED
    BY <2>2 DEF b
<1>5. q * (D + 1) + i \in Nat
  BY <1>1, <1>2
<1> QED
  BY <1>3, <1>4, <1>5 DEF q, i

\* Between the same two barriers are only the kernels of one stage, or those of the
\* refill before it.
LEMMA SamePlace ==
    ASSUME TypeOK, NEW k \in Kernels, NEW m \in Kernels, Launched(k), Launched(m),
           Before(k) = Before(m)
    PROVE  /\ k.stage = m.stage
           /\ k.op \in Attending <=> m.op \in Attending
           /\ k.op = "over" <=> m.op = "over"
<1> DEFINE D == cfg.devices
<1>1. D \in Nat \ {0} /\ cfg.nodes \in Nat /\ k.stage \in Nat /\ m.stage \in Nat
  BY CfgFacts DEF Kernels
<1>2. Round(k) = Round(m) /\ Place(k) = Place(m)
  BY BeforePlace
<1>3. ASSUME NEW n \in Kernels, Launched(n)
      PROVE  /\ n.op \in Attending <=> Place(n) # 0
             /\ n.op # "over" => Round(n) < cfg.nodes
             /\ n.op # "over" /\ Place(n) = 0 => n.stage = Round(n) * D
             /\ Place(n) # 0 => n.stage = Round(n) * D + Place(n) - 1
  <2> DEFINE q == n.stage \div D
             r == n.stage % D
  <2>1. n.stage \in Nat /\ q \in Nat /\ r \in Nat /\ n.stage = q * D + r
    BY <1>1, Divides DEF Kernels
  <2>2. n.op \in Attending <=> Place(n) # 0
    BY <2>1 DEF Place
  <2>3. n.op # "over" => Round(n) = q
    BY DEF Round
  <2>4. q < cfg.nodes
    <3> SUFFICES ASSUME q >= cfg.nodes PROVE FALSE
      BY <1>1, <2>1
    <3> HIDE DEF q, r
    <3> DEFINE d == q - cfg.nodes
    <3>1. d \in Nat /\ q = cfg.nodes + d
      BY <1>1, <2>1
    <3>2. (cfg.nodes + d) * D = cfg.nodes * D + d * D /\ d * D \in Nat /\ cfg.nodes * D \in Nat
      BY <1>1, <3>1
    <3>3. n.stage < cfg.nodes * D
      BY <1>3 DEF Launched, Stages
    <3> QED
      BY <2>1, <3>1, <3>2, <3>3
  <2>5. n.op # "over" /\ Place(n) = 0 => r = 0
    <3>1. n.op \in {"send", "copy", "meet_in", "over"} \/ n.op \in Attending
      BY DEF Kernels, Attending
    <3>2. n.op = "send" => n.stage = 0
      BY <1>3 DEF Launched
    <3>3. n.op \in {"copy", "meet_in"} => r = 0
      BY <1>3 DEF Launched
    <3>4. n.stage = 0 => r = 0
      BY <1>1
    <3> QED
      BY <2>2, <3>1, <3>2, <3>3, <3>4
  <2>6. Place(n) # 0 => Place(n) = r + 1 /\ n.op # "over"
    BY <2>2 DEF Place, Attending
  <2> HIDE DEF q, r
  <2>7. n.op # "over" /\ Place(n) = 0 => n.stage = Round(n) * D
    BY <1>1, <2>1, <2>3, <2>5
  <2>8. Place(n) # 0 => n.stage = Round(n) * D + Place(n) - 1
    BY <1>1, <2>1, <2>3, <2>6
  <2> QED
    BY <2>2, <2>3, <2>4, <2>7, <2>8
<1>4. k.op = "over" <=> m.op = "over"
  BY <1>1, <1>2, <1>3 DEF Round
<1>5. k.op \in Attending <=> m.op \in Attending
  BY <1>2, <1>3
<1>6. CASE k.op = "over"
  BY <1>4, <1>6 DEF Launched
<1>7. CASE k.op # "over"
  BY <1>2, <1>3, <1>4, <1>7
<1> QED
  BY <1>4, <1>5, <1>6, <1>7

\* A stream goes on to a kernel of the launch, past a barrier when that is what ends.
LEMMA Follows ==
    ASSUME TypeOK, NEW k \in Kernels, Launched(k), k.op # "over"
    PROVE  /\ Following(k) \in Kernels /\ Launched(Following(k))
           /\ Before(Following(k))
                = Before(k) + (IF k.op \in {"meet_in", "meet_out"} THEN 1 ELSE 0)
<1> DEFINE D == cfg.devices
           s == k.stage
           q == s \div D
<1>1. /\ D \in Nat \ {0} /\ cfg.nodes \in Nat \ {0} /\ s \in Nat /\ q \in Nat /\ s < Stages
      /\ Stages \in Nat /\ Stages = cfg.nodes * D
  BY CfgFacts, Divides DEF Kernels, Launched
<1>2. Stages # 0 /\ Stages % D = 0 /\ Stages \div D = cfg.nodes
  <2> HIDE DEF D
  <2> DEFINE n == cfg.nodes
  <2> HIDE DEF n
  <2>1. (n * D + 0) \div D = n /\ (n * D + 0) % D = 0
    <3>1. n \in Nat /\ 0 < D
      BY <1>1 DEF n
    <3> QED
      BY <1>1, <3>1, DivideBack
  <2>2. n * D + 0 = Stages
    BY <1>1 DEF n
  <2>3. Stages % D = 0 /\ Stages \div D = n
    BY <2>1, <2>2
  <2> QED
    BY <2>3, <1>1 DEF n
<1>3. CASE k.op = "send"
  BY <1>1, <1>3 DEF Following, Kernel, Kernels, Launched, Before, Attending
<1>4. CASE k.op = "copy"
  BY <1>1, <1>4 DEF Following, Kernel, Kernels, Launched, Before, Attending
<1>5. CASE k.op = "meet_in"
  <2>1. Following(k) = Kernel("stage", s)
    BY <1>5 DEF Following
  <2>2. Before(Kernel("stage", s)) = s + q + 1 /\ Before(k) = s + q + 0
    BY <1>5 DEF Kernel, Before, Attending
  <2> QED
    BY <2>1, <2>2, <1>1, <1>5 DEF Kernel, Kernels, Launched
<1>6. CASE k.op = "stage"
  BY <1>1, <1>6 DEF Following, Kernel, Kernels, Launched, Before, Attending
<1>7. CASE k.op = "reduce"
  BY <1>1, <1>7 DEF Following, Kernel, Kernels, Launched, Before, Attending
<1>8. CASE k.op = "meet_out"
  <2>1. CASE s + 1 = Stages
    <3>1. Following(k) = Last
      BY <1>8, <2>1 DEF Following
    <3>2. q + 1 = cfg.nodes
      <4>1. (s + 1) % D = 0 /\ (s + 1) \div D = cfg.nodes
        BY <1>2, <2>1
      <4> HIDE DEF D
      <4>2. (s + 1) \div D = s \div D + 1
        BY <1>1, <4>1, NextRound
      <4> QED
        BY <4>1, <4>2
    <3>3. Before(Last) = Stages + cfg.nodes /\ Before(k) = s + q + 1
      BY <1>8 DEF Last, Kernel, Before, Attending
    <3>4. Last \in Kernels /\ Launched(Last)
      BY <1>1, <1>2 DEF Last, Kernel, Kernels, Launched
    <3> QED
      BY <3>1, <3>2, <3>3, <3>4, <1>1, <1>8, <2>1
  <2>2. CASE s + 1 # Stages /\ (s + 1) % D = 0
    <3>1. Following(k) = Kernel("copy", s + 1)
      BY <1>8, <2>2 DEF Following
    <3>2. (s + 1) \div D = q + 1
      BY <1>1, <2>2, NextRound
    <3>3. Before(Kernel("copy", s + 1)) = s + 1 + (q + 1) + 0 /\ Before(k) = s + q + 1
      BY <1>8, <3>2 DEF Kernel, Before, Attending
    <3>4. Kernel("copy", s + 1) \in Kernels /\ Launched(Kernel("copy", s + 1))
      BY <1>1, <1>2, <2>2 DEF Kernel, Kernels, Launched
    <3> QED
      BY <3>1, <3>3, <3>4, <1>1, <1>8
  <2>3. CASE s + 1 # Stages /\ (s + 1) % D # 0
    <3>1. Following(k) = Kernel("stage", s + 1)
      BY <1>8, <2>3 DEF Following
    <3>2. (s + 1) \div D = q
      BY <1>1, <2>3, NextRound
    <3>3. Before(Kernel("stage", s + 1)) = s + 1 + q + 1 /\ Before(k) = s + q + 1
      BY <1>8, <3>2 DEF Kernel, Before, Attending
    <3>4. Kernel("stage", s + 1) \in Kernels /\ Launched(Kernel("stage", s + 1))
      BY <1>1, <2>3 DEF Kernel, Kernels, Launched
    <3> QED
      BY <3>1, <3>3, <3>4, <1>1, <1>8
  <2> QED
    BY <2>1, <2>2, <2>3
<1> QED
  BY <1>3, <1>4, <1>5, <1>6, <1>7, <1>8 DEF Kernels

\* The ring of the node: everyone has one successor and is the successor of one.
LEMMA RingShape ==
    ASSUME TypeOK
    PROVE  /\ \A h \in Gpus : NextGpu(h) \in Gpus
           /\ \A g, h \in Gpus : NextGpu(g) = NextGpu(h) => g = h
           /\ \A g \in Gpus : \E h \in Gpus : g = NextGpu(h)
           /\ \A h \in Gpus : \A j \in Nat : j + 1 < cfg.devices =>
                Back(NextGpu(h), j + 1) = Back(h, j)
<1> DEFINE D == cfg.devices
<1>1. D \in Nat \ {0} /\ Gpus = 0..(D - 1)
  BY CfgFacts DEF Gpus
<1>2. \A h \in Gpus : NextGpu(h) = IF h = D - 1 THEN 0 ELSE h + 1
  <2> SUFFICES ASSUME NEW h \in Gpus PROVE NextGpu(h) = IF h = D - 1 THEN 0 ELSE h + 1
    OBVIOUS
  <2>1. h \in Nat /\ h < D
    BY <1>1
  <2>2. CASE h = D - 1
    <3>1. (1 * D + 0) % D = 0
      BY <1>1, DivideBack
    <3>2. 1 * D + 0 = h + 1
      BY <1>1, <2>2
    <3> QED
      BY <3>1, <3>2, <2>2 DEF NextGpu
  <2>3. CASE h # D - 1
    <3>1. (0 * D + (h + 1)) % D = h + 1
      BY <1>1, <2>1, <2>3, DivideBack
    <3>2. 0 * D + (h + 1) = h + 1
      BY <1>1, <2>1
    <3> QED
      BY <3>1, <3>2, <2>3 DEF NextGpu
  <2> QED
    BY <2>2, <2>3
<1>3. \A h \in Gpus : NextGpu(h) \in Gpus
  BY <1>1, <1>2
<1>4. \A g, h \in Gpus : NextGpu(g) = NextGpu(h) => g = h
  BY <1>1, <1>2
<1>5. \A g \in Gpus : \E h \in Gpus : g = NextGpu(h)
  <2> SUFFICES ASSUME NEW g \in Gpus PROVE \E h \in Gpus : g = NextGpu(h)
    OBVIOUS
  <2>1. CASE g = 0
    <3>1. D - 1 \in Gpus /\ NextGpu(D - 1) = 0
      BY <1>1, <1>2
    <3> QED
      BY <2>1, <3>1
  <2>2. CASE g # 0
    <3>1. g - 1 \in Gpus /\ NextGpu(g - 1) = g
      BY <1>1, <1>2, <2>2
    <3> QED
      BY <3>1
  <2> QED
    BY <2>1, <2>2
<1>6. \A h \in Gpus : \A j \in Nat : j + 1 < D => Back(NextGpu(h), j + 1) = Back(h, j)
  BY <1>1, <1>2 DEF Back
<1> QED
  BY <1>3, <1>4, <1>5, <1>6

\* What is passed on in one stage is what the next GPU of the ring reads in the next one.
LEMMA SourcePassedOn ==
    ASSUME TypeOK, NEW h \in Gpus, NEW s \in Nat, (s + 1) % cfg.devices # 0
    PROVE  \A t : Source(NextGpu(h), s + 1, t) = Source(h, s, t)
<1>1. /\ (s + 1) % cfg.devices = (s % cfg.devices) + 1 /\ (s + 1) \div cfg.devices = s \div cfg.devices
      /\ s % cfg.devices \in Nat /\ (s % cfg.devices) + 1 < cfg.devices
  <2> DEFINE D == cfg.devices
  <2>1. D \in Nat \ {0}
    BY CfgFacts
  <2> HIDE DEF D
  <2>2. (s + 1) % D # 0 => (s + 1) % D = (s % D) + 1 /\ (s + 1) \div D = s \div D
    BY <2>1, NextRound
  <2>3. (s + 1) % D < D /\ s % D \in Nat
    BY <2>1
  <2> QED
    BY <2>2, <2>3 DEF D
<1>2. Back(NextGpu(h), (s % cfg.devices) + 1) = Back(h, s % cfg.devices)
  BY <1>1, RingShape
<1> QED
  BY <1>1, <1>2 DEF Source

\* A round begins with what is the GPU's own or has come to it from another node.
LEMMA SourceOfRound ==
    ASSUME TypeOK, NEW g \in Gpus, NEW s \in Nat, s % cfg.devices = 0
    PROVE  \A t : Source(g, s, t) = Brought(s \div cfg.devices, g, t)
<1>1. g \in Nat
  BY CfgFacts DEF Gpus
<1> QED
  BY <1>1 DEF Source, Back

\* What has been brought stays while nothing arrives ...
LEMMA SameKept ==
    ASSUME UNCHANGED <<cfg, epoch, recv, arrival_flags>>
    PROVE  Kept
  BY DEF Kept, Source, Brought, Back, Own, Tile, Arrived, Words, Peers, Tiles, Gpus

\* ... and in all that a GPU does.
LEMMA GpuKept ==
    ASSUME NEW g \in Gpus, Gpu(g)
    PROVE  Kept /\ UNCHANGED <<cfg, epoch, launch, recv, arrival_flags>>
<1>1. UNCHANGED <<cfg, epoch, launch, recv, arrival_flags>>
  BY DEF Gpu, SendTile, CopyTile, CommLoad, CommStore, Attend, Reduce, SendEnds, CopyEnds,
         StageEnds, ReduceEnds, Signal, MeetAll, net
<1> QED
  BY <1>1, SameKept

\* The two buffers of a stage.
LEMMA Sides ==
    ASSUME TypeOK, NEW g \in Gpus
    PROVE  /\ Here(g) \in 1..2 /\ There(g) \in 1..2 /\ Here(g) # There(g)
           /\ Stage(g) % cfg.devices = 0 => Here(g) = 1
<1>1. Stage(g) \in Nat
  BY DEF TypeOK, StreamTypes, Kernels, Stage
<1>2. Stage(g) % 2 \in 0..1
  BY <1>1
<1>3. Stage(g) % cfg.devices = 0 => Stage(g) % 2 = 0
  BY <1>1, CfgFacts, EvenMultiple
<1> QED
  BY <1>2, <1>3 DEF Here, There

-----------------------------------------------------------------------------
\* The types are kept.

\* All that a step of a kernel's CTAs can do to the streams: more work done, a kernel
\* ended.
Works(g, x) ==
    /\ x \in Work(kernel[g])
    /\ done' = [done EXCEPT ![g] = @ \cup {x}]
    /\ UNCHANGED <<cfg, epoch, kernel, met, barrier>>
Goes(g) ==
    /\ Op(g) # "over"
    /\ kernel' = [kernel EXCEPT ![g] = Following(@)]
    /\ done' = [done EXCEPT ![g] = {}]
Stays == UNCHANGED <<cfg, epoch, kernel, done, met, barrier>>

LEMMA MeetingGoes ==
    ASSUME TypeOK, NEW g \in Gpus, MeetAll(g)
    PROVE  Goes(g)
<1>1. Op(g) \in {"meet_in", "meet_out"} /\ done[g] \subseteq Work(kernel[g])
  BY DEF MeetAll, Meets, TypeOK, StreamTypes
<1>2. done[g] = {}
  BY <1>1 DEF Work, Op
<1>3. done' = [done EXCEPT ![g] = {}]
  BY <1>2 DEF MeetAll, TypeOK, StreamTypes
<1> QED
  BY <1>1, <1>3 DEF MeetAll, Goes

LEMMA StreamEffects ==
    ASSUME TypeOK, NEW g \in Gpus, Gpu(g)
    PROVE  \/ \E x \in Work(kernel[g]) : Works(g, x)
           \/ Stays
           \/ Goes(g) /\ Op(g) \in {"send", "copy", "stage", "reduce"}
                /\ UNCHANGED <<cfg, epoch, met, barrier>>
           \/ Signal(g)
           \/ MeetAll(g) /\ Goes(g)
<1>1. ASSUME NEW t \in Tiles, SendTile(g, t) \/ CopyTile(g, t) PROVE Works(g, t) /\ t \in Work(kernel[g])
  BY <1>1 DEF SendTile, CopyTile, Did, Works, Work, Op, meeting
<1>2. ASSUME NEW t \in Tiles, CommLoad(g, t)
      PROVE  Works(g, <<"loaded", t>>) /\ <<"loaded", t>> \in Work(kernel[g])
  BY <1>2 DEF CommLoad, Did, Works, Work, Op, meeting
<1>3. ASSUME NEW t \in Tiles, CommStore(g, t)
      PROVE  Works(g, <<"stored", t>>) /\ <<"stored", t>> \in Work(kernel[g])
  BY <1>3 DEF CommStore, Did, Works, Work, Op, meeting
<1>4. ASSUME NEW b \in Blocks, Attend(g, b)
      PROVE  Stays \/ (Works(g, <<"block", b>>) /\ <<"block", b>> \in Work(kernel[g]))
  BY <1>4 DEF Attend, Did, Works, Work, Op, meeting, Stays
<1>5. ASSUME NEW r \in 0..(cfg.reductions - 1), Reduce(g, r)
      PROVE  Works(g, r) /\ r \in Work(kernel[g])
  BY <1>5 DEF Reduce, Did, Works, Work, Op, meeting
<1>6. ASSUME SendEnds(g) \/ CopyEnds(g) \/ StageEnds(g) \/ ReduceEnds(g)
      PROVE  /\ Goes(g) /\ Op(g) \in {"send", "copy", "stage", "reduce"}
             /\ UNCHANGED <<cfg, epoch, met, barrier>>
  BY <1>6 DEF SendEnds, CopyEnds, StageEnds, ReduceEnds, KernelEnds, Goes, meeting
<1> QED
  BY <1>1, <1>2, <1>3, <1>4, <1>5, <1>6, MeetingGoes DEF Gpu

\* All but the streams.
LEMMA WorkKeepsTypes ==
    ASSUME TypeOK, NEW g \in Gpus, NEW x, Works(g, x)
    PROVE  StreamTypes'
<1>1. ASSUME NEW h \in Gpus PROVE done'[h] \subseteq Work(kernel[h])
  BY DEF TypeOK, StreamTypes, Works
<1>2. done' = [h \in Gpus |-> done'[h]]
  BY DEF TypeOK, StreamTypes, Works
<1>3. Gpus' = Gpus /\ \A h \in Gpus : Work(kernel[h])' = Work(kernel[h])
  BY DEF Works, Gpus, Work, Tiles, Blocks
<1> QED
  BY <1>1, <1>2, <1>3 DEF TypeOK, StreamTypes, Works

LEMMA SameStreams ==
    ASSUME TypeOK, Stays
    PROVE  StreamTypes'
<1>1. Gpus' = Gpus /\ \A h \in Gpus : Work(kernel[h])' = Work(kernel[h])
  BY DEF Stays, Gpus, Work, Tiles, Blocks
<1> QED
  BY <1>1 DEF TypeOK, StreamTypes, Stays

LEMMA GoingKeepsTypes ==
    ASSUME TypeOK, NEW g \in Gpus, KernelInv(g), Goes(g), UNCHANGED <<cfg, epoch>>,
           met' \in [Gpus -> BOOLEAN], barrier' \in [Gpus -> Int]
    PROVE  /\ StreamTypes'
           /\ \A h \in Gpus : kernel'[h] = IF h = g THEN Following(kernel[g]) ELSE kernel[h]
           /\ \A h \in Gpus : done'[h] = IF h = g THEN {} ELSE done[h]
<1>1. kernel[g] \in Kernels /\ Launched(kernel[g]) /\ kernel[g].op # "over"
  BY DEF TypeOK, StreamTypes, KernelInv, Goes, Op
<1>2. Following(kernel[g]) \in Kernels
  BY <1>1, Follows
<1>3. \A h \in Gpus : kernel'[h] = IF h = g THEN Following(kernel[g]) ELSE kernel[h]
  BY DEF TypeOK, StreamTypes, Goes
<1>4. \A h \in Gpus : done'[h] = IF h = g THEN {} ELSE done[h]
  BY DEF TypeOK, StreamTypes, Goes
<1>5. Gpus' = Gpus /\ Kernels' = Kernels
  BY DEF Gpus, Kernels
<1>6. kernel' \in [Gpus -> Kernels] /\ done' = [h \in Gpus |-> done'[h]]
  BY <1>2 DEF TypeOK, StreamTypes, Goes
<1>7. \A h \in Gpus : done'[h] \subseteq Work(kernel[h])'
  <2> SUFFICES ASSUME NEW h \in Gpus PROVE done'[h] \subseteq Work(kernel[h])'
    OBVIOUS
  <2>1. CASE h = g
    BY <1>4, <2>1
  <2>2. CASE h # g
    <3>1. Work(kernel[h])' = Work(kernel[h])
      BY <1>3, <2>2 DEF Work, Tiles, Blocks
    <3> QED
      BY <1>4, <2>2, <3>1 DEF TypeOK, StreamTypes
  <2> QED
    BY <2>1, <2>2
<1> QED
  BY <1>3, <1>4, <1>5, <1>6, <1>7 DEF TypeOK, StreamTypes

-----------------------------------------------------------------------------
\* The barriers.

LEMMA PassedTypes ==
    ASSUME TypeOK, NEW g \in Gpus, KernelInv(g)
    PROVE  /\ kernel[g] \in Kernels /\ Launched(kernel[g]) /\ Stage(g) \in Nat
           /\ Passed(g) \in Nat /\ Signalled(g) \in Nat
           /\ Passed(g) <= Signalled(g) /\ Signalled(g) <= Passed(g) + 1
           /\ met[g] <=> Signalled(g) = Passed(g) + 1
<1>1. kernel[g] \in Kernels /\ Launched(kernel[g]) /\ met[g] \in BOOLEAN
  BY DEF TypeOK, StreamTypes, KernelInv
<1>2. Before(kernel[g]) \in Nat
  BY <1>1, BeforePlace
<1>3. Stage(g) \in Nat
  BY <1>1 DEF Kernels, Stage
<1> QED
  BY <1>1, <1>2, <1>3 DEF Passed, Signalled

\* The GPUs that have come so far.
LEMMA AtFinite ==
    ASSUME TypeOK, NEW h \in Gpus, NEW n \in Nat
    PROVE  /\ IsFiniteSet(Gpus) /\ Cardinality(Gpus) = cfg.devices
           /\ IsFiniteSet(At(h, n)) /\ Cardinality(At(h, n)) \in Nat
           /\ Cardinality(At(h, n)) <= cfg.devices
           /\ Cardinality(At(h, n)) = cfg.devices => At(h, n) = Gpus
<1>1. cfg.devices \in Nat \ {0}
  BY CfgFacts
<1>2. IsFiniteSet(Gpus) /\ Cardinality(Gpus) = cfg.devices
  <2> DEFINE D == cfg.devices
  <2>1. D \in Nat \ {0} /\ Gpus = 0..(D - 1)
    BY <1>1 DEF Gpus
  <2> HIDE DEF D
  <2>2. 0 \in Int /\ D - 1 \in Int /\ ~(0 > D - 1) /\ (D - 1) - 0 + 1 = D
    BY <2>1
  <2>3. IsFiniteSet(0..(D - 1)) /\ Cardinality(0..(D - 1)) = D
    BY <2>2, FS_Interval
  <2> QED
    BY <2>1, <2>3 DEF D
<1>3. At(h, n) \in SUBSET Gpus
  BY DEF At
<1> QED
  BY <1>2, <1>3, FS_Subset, FS_CardinalityType

\* While nobody passes or comes to a barrier the words stay right.
LEMMA SameBarriers ==
    ASSUME NobodyAhead, BarrierInv, Gpus' = Gpus, UNCHANGED <<met, barrier>>,
           \A h \in Gpus : Passed(h)' = Passed(h)
    PROVE  NobodyAhead' /\ BarrierInv'
<1>1. \A h \in Gpus : Signalled(h)' = Signalled(h)
  BY DEF Signalled
<1>2. \A h \in Gpus : At(h, 1)' = At(h, 1) /\ At(h, 2)' = At(h, 2)
  BY <1>1 DEF At
<1>3. NobodyAhead'
  BY <1>1 DEF NobodyAhead
<1>4. BarrierInv'
  BY <1>2 DEF BarrierInv
<1> QED
  BY <1>3, <1>4

\* The last one to signal makes the word of each GPU that waits equal to the number of
\* GPUs; one that signals the next barrier makes it more than that.
LEMMA WordMeansAll ==
    ASSUME TypeOK, NobodyAhead, BarrierInv, \A h \in Gpus : KernelInv(h),
           NEW g \in Gpus, barrier[g] = cfg.devices
    PROVE  /\ \A h \in Gpus : Signalled(h) >= Passed(g) + 1
           /\ Cardinality(At(g, 1)) = cfg.devices /\ At(g, 2) = {}
<1>1. cfg.devices \in Nat \ {0}
  BY CfgFacts
<1>2. Cardinality(At(g, 1)) + Cardinality(At(g, 2)) = cfg.devices
  BY DEF BarrierInv
<1>3. CASE At(g, 2) = {}
  <2>1. Cardinality(At(g, 2)) = 0
    BY <1>3, FS_EmptySet
  <2>2. Cardinality(At(g, 1)) = cfg.devices
    BY <1>2, <2>1, AtFinite
  <2>3. At(g, 1) = Gpus
    BY <2>2, AtFinite
  <2> QED
    BY <1>3, <2>2, <2>3 DEF At
<1>4. CASE At(g, 2) # {}
  <2>1. PICK x \in Gpus : Signalled(x) >= Passed(g) + 2
    BY <1>4 DEF At
  <2>2. Passed(x) >= Passed(g) + 1
    BY <2>1, PassedTypes
  <2>3. \A h \in Gpus : Signalled(h) >= Passed(g) + 1
    <3> SUFFICES ASSUME NEW h \in Gpus PROVE Signalled(h) >= Passed(g) + 1
      OBVIOUS
    <3>1. Passed(x) <= Signalled(h)
      BY DEF NobodyAhead
    <3> QED
      BY <2>2, <3>1, PassedTypes
  <2>4. Cardinality(At(g, 1)) = cfg.devices
    <3>1. At(g, 1) = Gpus
      BY <2>3 DEF At
    <3> QED
      BY <3>1, AtFinite
  <2>5. Cardinality(At(g, 2)) # 0
    BY <1>4, AtFinite, FS_EmptySet
  <2>6. Cardinality(At(g, 2)) \in Nat
    BY AtFinite
  <2> QED
    BY <1>1, <1>2, <2>4, <2>5, <2>6
<1> QED
  BY <1>3, <1>4

\* When one is counted more.
LEMMA OneMore ==
    ASSUME NEW S, IsFiniteSet(S), NEW x, x \notin S
    PROVE  Cardinality(S \cup {x}) = Cardinality(S) + 1
  BY FS_AddElement

LEMMA SignalStep ==
    ASSUME TypeOK, NobodyAhead, BarrierInv, \A h \in Gpus : KernelInv(h),
           NEW g \in Gpus, Signal(g)
    PROVE  StreamTypes' /\ (\A h \in Gpus : KernelInv(h)') /\ NobodyAhead' /\ BarrierInv'
<1>1. /\ Gpus' = Gpus /\ ~met[g] /\ Meets(g) /\ UNCHANGED <<cfg, epoch, kernel, done>>
      /\ \A h \in Gpus : barrier'[h] = barrier[h] + 1
      /\ \A h \in Gpus : met'[h] = IF h = g THEN TRUE ELSE met[h]
  BY DEF Signal, Gpus, TypeOK, StreamTypes
<1>2. StreamTypes'
  <2>1. met' \in [Gpus -> BOOLEAN] /\ barrier' \in [Gpus -> Int]
    BY <1>1 DEF Signal, TypeOK, StreamTypes
  <2>2. \A h \in Gpus : Work(kernel[h])' = Work(kernel[h])
    BY <1>1 DEF Work, Tiles, Blocks
  <2> QED
    BY <1>1, <2>1, <2>2 DEF TypeOK, StreamTypes, Kernels
<1>3. \A h \in Gpus : KernelInv(h)'
  BY <1>1 DEF KernelInv, Launched, Stages, Meets, Op
<1>4. \A h \in Gpus : Passed(h)' = Passed(h)
  BY <1>1 DEF Passed, Before, Stages
<1>5. \A h \in Gpus : Signalled(h)' = IF h = g THEN Signalled(h) + 1 ELSE Signalled(h)
  <2> SUFFICES ASSUME NEW h \in Gpus
               PROVE  Signalled(h)' = IF h = g THEN Signalled(h) + 1 ELSE Signalled(h)
    OBVIOUS
  <2>1. Passed(h) \in Nat /\ Passed(h)' = Passed(h)
    BY <1>4, PassedTypes
  <2>2. Signalled(h)' = Passed(h)' + (IF met'[h] THEN 1 ELSE 0)
    BY DEF Signalled
  <2>3. CASE h = g
    <3>1. met'[h] /\ ~met[h]
      BY <1>1, <2>3
    <3> QED
      BY <2>1, <2>2, <2>3, <3>1 DEF Signalled
  <2>4. CASE h # g
    BY <1>1, <2>1, <2>2, <2>4 DEF Signalled
  <2> QED
    BY <2>3, <2>4
<1>6. NobodyAhead'
  BY <1>1, <1>4, <1>5, PassedTypes DEF NobodyAhead
<1>7. BarrierInv'
  <2> SUFFICES ASSUME NEW h \in Gpus
               PROVE  barrier[h] + 1 = Cardinality(At(h, 1)') + Cardinality(At(h, 2)')
    BY <1>1 DEF BarrierInv
  <2>1. /\ Signalled(g) = Passed(g) /\ Passed(h) <= Signalled(g) /\ Passed(g) <= Signalled(h)
        /\ Signalled(h) <= Passed(h) + 1
    BY <1>1, PassedTypes DEF NobodyAhead
  <2>2. /\ Passed(h) \in Nat /\ Passed(g) \in Nat /\ \A x \in Gpus : Signalled(x) \in Nat
        /\ Signalled(h) \in Nat
    BY PassedTypes
  <2>3. /\ IsFiniteSet(At(h, 1)) /\ IsFiniteSet(At(h, 2))
        /\ Cardinality(At(h, 1)) \in Nat /\ Cardinality(At(h, 2)) \in Nat
    BY AtFinite
  <2>4. barrier[h] = Cardinality(At(h, 1)) + Cardinality(At(h, 2))
    BY DEF BarrierInv
  <2>5. CASE Passed(h) = Passed(g)
    <3>1. g \notin At(h, 1) /\ At(h, 1)' = At(h, 1) \cup {g}
      BY <1>1, <1>4, <1>5, <2>1, <2>2, <2>5 DEF At
    <3>2. At(h, 2)' = At(h, 2)
      BY <1>1, <1>4, <1>5, <2>1, <2>2, <2>5 DEF At
    <3> QED
      BY <2>3, <2>4, <3>1, <3>2, OneMore
  <2>6. CASE Passed(h) + 1 = Passed(g)
    <3>1. g \notin At(h, 2) /\ At(h, 2)' = At(h, 2) \cup {g}
      BY <1>1, <1>4, <1>5, <2>1, <2>2, <2>6 DEF At
    <3>2. At(h, 1)' = At(h, 1)
      BY <1>1, <1>4, <1>5, <2>1, <2>2, <2>6 DEF At
    <3> QED
      BY <2>3, <2>4, <3>1, <3>2, OneMore
  <2> QED
    BY <2>1, <2>2, <2>5, <2>6
<1> QED
  BY <1>2, <1>3, <1>6, <1>7

\* A GPU that goes on: what happens to its place in the launch.
LEMMA GoingOn ==
    ASSUME TypeOK, \A h \in Gpus : KernelInv(h), NEW g \in Gpus, Goes(g),
           UNCHANGED <<cfg, epoch>>
    PROVE  /\ Gpus' = Gpus
           /\ \A h \in Gpus : kernel'[h] = IF h = g THEN Following(kernel[g]) ELSE kernel[h]
           /\ \A h \in Gpus : Launched(kernel[h])'
           /\ \A h \in Gpus : Passed(h)' = IF h = g /\ Meets(g) THEN Passed(h) + 1 ELSE Passed(h)
<1>1. kernel[g] \in Kernels /\ Launched(kernel[g]) /\ kernel[g].op # "over"
  BY DEF TypeOK, StreamTypes, KernelInv, Goes, Op
<1>2. \A h \in Gpus : kernel'[h] = IF h = g THEN Following(kernel[g]) ELSE kernel[h]
  BY DEF TypeOK, StreamTypes, Goes
<1>3. Gpus' = Gpus /\ Stages' = Stages
  BY DEF Gpus, Stages
<1>4. Launched(Following(kernel[g]))
  BY <1>1, Follows
<1>5. \A h \in Gpus : Launched(kernel[h])'
  BY <1>2, <1>3, <1>4 DEF Launched, KernelInv
<1>6. \A h \in Gpus : Passed(h)' = Before(kernel'[h])
  BY <1>3 DEF Passed, Before
<1>7. \A h \in Gpus : h # g => Passed(h)' = Passed(h)
  BY <1>2, <1>6 DEF Passed
<1>8. Passed(g)' = IF Meets(g) THEN Passed(g) + 1 ELSE Passed(g)
  <2>1. Before(Following(kernel[g]))
          = Before(kernel[g]) + (IF kernel[g].op \in {"meet_in", "meet_out"} THEN 1 ELSE 0)
    BY <1>1, Follows
  <2>2. Before(kernel[g]) \in Nat
    BY <1>1, BeforePlace
  <2> QED
    BY <1>2, <1>6, <2>1, <2>2 DEF Passed, Meets, Op
<1> QED
  BY <1>2, <1>3, <1>5, <1>7, <1>8

LEMMA MeetStep ==
    ASSUME TypeOK, NobodyAhead, BarrierInv, \A h \in Gpus : KernelInv(h),
           NEW g \in Gpus, MeetAll(g), Goes(g)
    PROVE  StreamTypes' /\ (\A h \in Gpus : KernelInv(h)') /\ NobodyAhead' /\ BarrierInv'
<1>1. /\ Meets(g) /\ met[g] /\ barrier[g] = cfg.devices /\ UNCHANGED <<cfg, epoch>>
      /\ \A h \in Gpus : met'[h] = IF h = g THEN FALSE ELSE met[h]
      /\ \A h \in Gpus : barrier'[h] = IF h = g THEN barrier[h] - cfg.devices ELSE barrier[h]
      /\ met' \in [Gpus -> BOOLEAN] /\ barrier' \in [Gpus -> Int]
  <2>1. cfg.devices \in Nat
    BY CfgFacts
  <2> QED
    BY <2>1 DEF MeetAll, TypeOK, StreamTypes
<1>2. /\ Gpus' = Gpus
      /\ \A h \in Gpus : kernel'[h] = IF h = g THEN Following(kernel[g]) ELSE kernel[h]
      /\ \A h \in Gpus : Launched(kernel[h])'
      /\ \A h \in Gpus : Passed(h)' = IF h = g THEN Passed(h) + 1 ELSE Passed(h)
  BY <1>1, GoingOn
<1>3. StreamTypes'
  BY <1>1, GoingKeepsTypes
<1>4. \A h \in Gpus : KernelInv(h)'
  BY <1>1, <1>2 DEF KernelInv, Meets, Op
<1>5. \A h \in Gpus : Signalled(h)' = Signalled(h)
  <2> SUFFICES ASSUME NEW h \in Gpus PROVE Signalled(h)' = Signalled(h)
    OBVIOUS
  <2>1. Passed(h) \in Nat /\ Passed(h)' = IF h = g THEN Passed(h) + 1 ELSE Passed(h)
    BY <1>2, PassedTypes
  <2>2. Signalled(h)' = Passed(h)' + (IF met'[h] THEN 1 ELSE 0)
    BY DEF Signalled
  <2>3. CASE h = g
    <3>1. ~met'[h] /\ met[h]
      BY <1>1, <2>3
    <3> QED
      BY <2>1, <2>2, <2>3, <3>1 DEF Signalled
  <2>4. CASE h # g
    BY <1>1, <2>1, <2>2, <2>4 DEF Signalled
  <2> QED
    BY <2>3, <2>4
<1>6. /\ \A h \in Gpus : Signalled(h) >= Passed(g) + 1
      /\ Cardinality(At(g, 1)) = cfg.devices /\ At(g, 2) = {}
  BY <1>1, WordMeansAll
<1>7. NobodyAhead'
  BY <1>2, <1>5, <1>6, PassedTypes DEF NobodyAhead
<1>8. BarrierInv'
  <2>1. \A h \in Gpus : h # g => At(h, 1)' = At(h, 1) /\ At(h, 2)' = At(h, 2)
    BY <1>2, <1>5 DEF At
  <2>2. At(g, 1)' = At(g, 2) /\ At(g, 2)' = {}
    <3>1. \A h \in Gpus : ~(Signalled(h) >= Passed(g) + 2)
      BY <1>6 DEF At
    <3> QED
      BY <1>2, <1>5, <3>1, PassedTypes DEF At
  <2>3. Cardinality({}) = 0
    BY FS_EmptySet
  <2>4. barrier[g] = Cardinality(At(g, 1)) + Cardinality(At(g, 2))
    BY DEF BarrierInv
  <2>5. barrier'[g] = Cardinality(At(g, 1)') + Cardinality(At(g, 2)')
    <3>1. barrier'[g] = barrier[g] - cfg.devices /\ cfg.devices \in Nat
      BY <1>1, CfgFacts
    <3>2. barrier'[g] = 0
      BY <1>1, <3>1
    <3>3. Cardinality(At(g, 1)') = 0
      BY <1>6, <2>2, <2>3
    <3>4. Cardinality(At(g, 2)') = 0
      BY <2>2, <2>3
    <3> QED
      BY <3>2, <3>3, <3>4
  <2>6. \A h \in Gpus : h # g => barrier'[h] = Cardinality(At(h, 1)') + Cardinality(At(h, 2)')
    BY <1>1, <2>1 DEF BarrierInv
  <2> QED
    BY <1>2, <2>5, <2>6 DEF BarrierInv
<1> QED
  BY <1>3, <1>4, <1>7, <1>8

\* No step of a kernel lets a GPU pass a barrier that another has not come to.
LEMMA StreamStep ==
    ASSUME TypeOK, NobodyAhead, BarrierInv, \A h \in Gpus : KernelInv(h),
           NEW g \in Gpus, Gpu(g)
    PROVE  StreamTypes' /\ (\A h \in Gpus : KernelInv(h)') /\ NobodyAhead' /\ BarrierInv'
<1>1. ASSUME Stays \/ \E x \in Work(kernel[g]) : Works(g, x)
      PROVE  StreamTypes' /\ (\A h \in Gpus : KernelInv(h)') /\ NobodyAhead' /\ BarrierInv'
  <2>1. Gpus' = Gpus /\ UNCHANGED <<cfg, epoch, kernel, met, barrier>>
    BY <1>1 DEF Stays, Works, Gpus
  <2>2. StreamTypes'
    BY <1>1, SameStreams, WorkKeepsTypes
  <2>3. \A h \in Gpus : KernelInv(h)'
    BY <2>1 DEF KernelInv, Launched, Stages, Meets, Op
  <2>4. \A h \in Gpus : Passed(h)' = Passed(h)
    BY <2>1 DEF Passed, Before, Stages
  <2> QED
    BY <2>1, <2>2, <2>3, <2>4, SameBarriers
<1>2. ASSUME Goes(g), Op(g) \in {"send", "copy", "stage", "reduce"},
             UNCHANGED <<cfg, epoch, met, barrier>>
      PROVE  StreamTypes' /\ (\A h \in Gpus : KernelInv(h)') /\ NobodyAhead' /\ BarrierInv'
  <2>1. ~Meets(g) /\ ~met[g]
    BY <1>2 DEF Meets, KernelInv
  <2>2. /\ Gpus' = Gpus
        /\ \A h \in Gpus : kernel'[h] = IF h = g THEN Following(kernel[g]) ELSE kernel[h]
        /\ \A h \in Gpus : Launched(kernel[h])'
        /\ \A h \in Gpus : Passed(h)' = Passed(h)
    BY <1>2, <2>1, GoingOn
  <2>3. met' \in [Gpus -> BOOLEAN] /\ barrier' \in [Gpus -> Int]
    BY <1>2 DEF TypeOK, StreamTypes
  <2>4. StreamTypes'
    BY <1>2, <2>3, GoingKeepsTypes
  <2>5. \A h \in Gpus : KernelInv(h)'
    BY <1>2, <2>1, <2>2 DEF KernelInv, Meets, Op
  <2>6. NobodyAhead' /\ BarrierInv'
    BY <1>2, <2>2, SameBarriers
  <2> QED
    BY <2>4, <2>5, <2>6
<1> QED
  BY <1>1, <1>2, StreamEffects, SignalStep, MeetStep

-----------------------------------------------------------------------------
\* The buffers of K and V.

\* GPUs between the same two barriers are in the same stage, or refill for the same round.
LEMMA Lined ==
    ASSUME TypeOK, NEW g \in Gpus, NEW h \in Gpus, KernelInv(g), KernelInv(h),
           Passed(g) = Passed(h)
    PROVE  /\ Stage(g) = Stage(h) /\ Here(g) = Here(h) /\ There(g) = There(h)
           /\ Op(g) \in Attending <=> Op(h) \in Attending
           /\ Over(g) <=> Over(h)
<1>1. Stage(g) = Stage(h) /\ (Op(g) \in Attending <=> Op(h) \in Attending) /\ (Over(g) <=> Over(h))
  BY PassedTypes, SamePlace DEF Passed, Stage, Op, Over
<1> QED
  BY <1>1 DEF Here, There

\* Nobody is further than a GPU that has not come to its next barrier, nor further than
\* another who is in front.
LEMMA InFront ==
    ASSUME TypeOK, NobodyAhead, \A h \in Gpus : KernelInv(h), NEW g \in Gpus
    PROVE  /\ ~met[g] => Leads(g)
           /\ Op(g) \in {"send", "copy", "stage", "reduce"} => Leads(g)
           /\ \A h \in Gpus : Leads(g) /\ Leads(h) => Passed(g) = Passed(h)
<1>1. ~met[g] => Leads(g)
  BY PassedTypes DEF NobodyAhead, Leads, Signalled
<1>2. Op(g) \in {"send", "copy", "stage", "reduce"} => ~met[g]
  BY DEF KernelInv, Meets
<1>3. \A h \in Gpus : Leads(g) /\ Leads(h) => Passed(g) = Passed(h)
  BY PassedTypes DEF Leads
<1> QED
  BY <1>1, <1>2, <1>3

\* What a step in which nobody goes on leaves as it was.
LEMMA Unmoved ==
    ASSUME Kept, UNCHANGED <<cfg, epoch, kernel>>
    PROVE  /\ Gpus' = Gpus /\ Tiles' = Tiles /\ Blocks' = Blocks
           /\ \A h \in Gpus : /\ Passed(h)' = Passed(h) /\ Op(h)' = Op(h) /\ Stage(h)' = Stage(h)
                              /\ Here(h)' = Here(h) /\ There(h)' = There(h)
                              /\ NextGpu(h)' = NextGpu(h) /\ (Leads(h)' <=> Leads(h))
           /\ \A y, h \in Gpus, t \in Tiles : Source(h, Stage(y), t) \subseteq Source(h, Stage(y), t)'
<1>1. Gpus' = Gpus /\ Tiles' = Tiles /\ Blocks' = Blocks
  BY DEF Gpus, Tiles, Blocks
<1>2. \A h \in Gpus : Passed(h)' = Passed(h)
  BY DEF Passed, Before, Stages
<1>3. \A h \in Gpus : /\ Op(h)' = Op(h) /\ Stage(h)' = Stage(h)
                      /\ Here(h)' = Here(h) /\ There(h)' = There(h) /\ NextGpu(h)' = NextGpu(h)
  BY DEF Op, Stage, Here, There, NextGpu
<1>4. \A h \in Gpus : Leads(h)' <=> Leads(h)
  BY <1>1, <1>2 DEF Leads
<1>5. \A y, h \in Gpus, t \in Tiles : Source(h, Stage(y), t) \subseteq Source(h, Stage(y), t)'
  BY <1>3 DEF Kept
<1> QED
  BY <1>1, <1>2, <1>3, <1>4, <1>5

\* A step that leaves the buffers alone, and is not the storing of a tile.
LEMMA SameBuffers ==
    ASSUME TypeOK, Kept, NobodyAhead, \A h \in Gpus : KernelInv(h),
           \A h \in Gpus : FillInv(h) /\ StageInv(h),
           UNCHANGED <<cfg, epoch, kernel, KV>>,
           \/ UNCHANGED done
           \/ \E g \in Gpus : \E x \in Work(kernel[g]) :
                /\ Works(g, x) /\ Op(g) # "copy"
                /\ Op(g) = "stage" => x \notin {"stored"} \X Tiles
    PROVE  \A y \in Gpus : FillInv(y)' /\ StageInv(y)'
<1> SUFFICES ASSUME NEW y \in Gpus PROVE FillInv(y)' /\ StageInv(y)'
  OBVIOUS
<1>0. /\ Gpus' = Gpus /\ Tiles' = Tiles /\ KV' = KV
      /\ \A h \in Gpus : Passed(h)' = Passed(h) /\ Op(h)' = Op(h) /\ NextGpu(h)' = NextGpu(h)
      /\ Stage(y)' = Stage(y) /\ (Leads(y)' <=> Leads(y))
      /\ Here(y)' = Here(y) /\ There(y)' = There(y)
      /\ \A h \in Gpus, t \in Tiles : Source(h, Stage(y), t) \subseteq Source(h, Stage(y), t)'
  BY Unmoved
<1>1. ASSUME Leads(y), Op(y) \in {"send", "copy", "meet_in"}, Stage(y) # 0,
             NEW h \in Gpus, NEW t \in Tiles, Passed(h) = Passed(y), t \in done'[h]
      PROVE  t \in done[h]
  <2>1. Stage(h) # 0 /\ Op(h) \notin Attending
    BY <1>1, Lined DEF Attending
  <2>2. Op(h) # "send" /\ Op(h) \notin {"stage", "reduce"}
    BY <2>1 DEF KernelInv, Launched, Op, Stage, Attending
  <2>3. SUFFICES ASSUME NEW x, Works(h, x), x \in Work(kernel[h]), Op(h) # "copy"
                 PROVE  FALSE
    BY <1>1 DEF Works, TypeOK, StreamTypes
  <2> QED
    BY <2>2, <2>3 DEF Work, Op
<1>2. ASSUME NEW h \in Gpus, NEW t \in Tiles, Op(h) = "stage", <<"stored", t>> \in done'[h]
      PROVE  <<"stored", t>> \in done[h]
  BY <1>2 DEF Works, TypeOK, StreamTypes
<1>3. FillInv(y)'
  <2> SUFFICES ASSUME Leads(y), Op(y) \in {"send", "copy", "meet_in"},
                      NEW h \in Gpus, NEW t \in Tiles,
                      \/ Stage(y) = 0
                      \/ Passed(h) = Passed(y) /\ (Op(h) = "meet_in" \/ t \in done'[h])
               PROVE  KV[h][1][t] \in Source(h, Stage(y), t)
    BY <1>0 DEF FillInv
  <2> QED
    BY <1>1 DEF FillInv
<1>4. StageInv(y)'
  <2> SUFFICES ASSUME Leads(y), Op(y) \in Attending, NEW h \in Gpus, NEW t \in Tiles
               PROVE  InPlace(y, h, t)' /\ PassedOn(y, h, t)'
    BY <1>0 DEF StageInv
  <2>1. InPlace(y, h, t) /\ PassedOn(y, h, t)
    BY DEF StageInv
  <2>2. InPlace(y, h, t)'
    BY <1>0, <2>1 DEF InPlace
  <2>3. PassedOn(y, h, t)'
    BY <1>0, <1>2, <2>1 DEF PassedOn
  <2> QED
    BY <2>2, <2>3
<1> QED
  BY <1>3, <1>4

\* The peer slot that a round is filled from.
LEMMA SlotOfCopy ==
    ASSUME TypeOK, NEW g \in Gpus, KernelInv(g), Op(g) = "copy"
    PROVE  /\ Slot(g) \in Peers /\ Slot(g) + 1 = Stage(g) \div cfg.devices
           /\ Stage(g) % cfg.devices = 0
<1> DEFINE D == cfg.devices
           q == Stage(g) \div D
<1>1. /\ D \in Nat \ {0} /\ cfg.nodes \in Nat \ {0} /\ Stage(g) \in Nat /\ Stage(g) # 0
      /\ Stage(g) < cfg.nodes * D /\ Stage(g) % D = 0
  BY CfgFacts, PassedTypes DEF Launched, Op, Stage
<1>2. q \in Nat /\ Stage(g) = q * D
  BY <1>1
<1>3. q >= 1 /\ q < cfg.nodes
  <2> HIDE DEF q, D
  <2>1. q # 0
    BY <1>1, <1>2
  <2>2. ~(q >= cfg.nodes)
    <3> SUFFICES ASSUME q >= cfg.nodes PROVE FALSE
      OBVIOUS
    <3> DEFINE d == q - cfg.nodes
    <3>1. d \in Nat /\ q = cfg.nodes + d
      BY <1>1, <1>2
    <3>2. (cfg.nodes + d) * D = cfg.nodes * D + d * D /\ d * D \in Nat /\ cfg.nodes * D \in Nat
      BY <1>1, <3>1
    <3> QED
      BY <1>1, <1>2, <3>1, <3>2
  <2> QED
    BY <1>1, <1>2, <2>1, <2>2
<1> QED
  BY <1>1, <1>2, <1>3 DEF Slot, Peers

\* A tile that comes from another node.
LEMMA CopyStep ==
    ASSUME TypeOK, Kept, NobodyAhead, \A h \in Gpus : KernelInv(h) /\ ArrivalInv(h),
           \A h \in Gpus : FillInv(h) /\ StageInv(h),
           NEW g \in Gpus, NEW u \in Tiles, CopyTile(g, u)
    PROVE  \A y \in Gpus : FillInv(y)' /\ StageInv(y)'
<1> SUFFICES ASSUME NEW y \in Gpus PROVE FillInv(y)' /\ StageInv(y)'
  OBVIOUS
<1>1. /\ Op(g) = "copy" /\ Leads(g) /\ UNCHANGED <<cfg, epoch, kernel>>
      /\ \A h \in Gpus : done'[h] = IF h = g THEN done[h] \cup {u} ELSE done[h]
      /\ KV' = [KV EXCEPT ![g][1][u] = recv[g][<<Slot(g), u>>]] /\ Arrived(g, <<Slot(g), u>>)
  BY InFront DEF CopyTile, Did, TypeOK, StreamTypes
<1>2. /\ Gpus' = Gpus /\ Tiles' = Tiles
      /\ \A h \in Gpus : Passed(h)' = Passed(h) /\ Op(h)' = Op(h)
      /\ Stage(y)' = Stage(y) /\ (Leads(y)' <=> Leads(y))
      /\ \A h \in Gpus, t \in Tiles : Source(h, Stage(y), t) \subseteq Source(h, Stage(y), t)'
  BY <1>1, Unmoved
<1>3. \A h \in Gpus, t \in Tiles :
        KV'[h][1][t] = IF h = g /\ t = u THEN recv[g][<<Slot(g), u>>] ELSE KV[h][1][t]
  BY <1>1 DEF TypeOK, BufferTypes
<1>4. recv[g][<<Slot(g), u>>] \in Source(g, Stage(g), u)
  <2>1. /\ Slot(g) \in Peers /\ Slot(g) + 1 = Stage(g) \div cfg.devices
        /\ Stage(g) % cfg.devices = 0 /\ Stage(g) \in Nat
    BY <1>1, SlotOfCopy, PassedTypes
  <2>2. <<Slot(g), u>> \in Words /\ Arrived(g, <<Slot(g), u>>) /\ Slot(g) \in Nat
    BY <1>1, <2>1 DEF Words, Peers
  <2>3. Source(g, Stage(g), u) = Brought(Slot(g) + 1, g, u)
    BY <2>1, SourceOfRound
  <2>4. Slot(g) + 1 # 0 /\ Slot(g) + 1 - 1 = Slot(g)
    BY <2>2
  <2> QED
    BY <2>2, <2>3, <2>4 DEF Brought
<1>5. Leads(y) => Passed(y) = Passed(g)
  BY <1>1, InFront
<1>6. FillInv(y)'
  <2> SUFFICES ASSUME Leads(y), Op(y) \in {"send", "copy", "meet_in"},
                      NEW h \in Gpus, NEW t \in Tiles,
                      \/ Stage(y) = 0
                      \/ Passed(h) = Passed(y) /\ (Op(h) = "meet_in" \/ t \in done'[h])
               PROVE  KV'[h][1][t] \in Source(h, Stage(y), t)
    BY <1>2 DEF FillInv
  <2>1. Stage(y) = Stage(g) /\ Stage(g) # 0
    <3>1. Stage(y) = Stage(g)
      BY <1>5, Lined
    <3>2. Stage(g) # 0
      BY <1>1 DEF KernelInv, Launched, Op, Stage
    <3> QED
      BY <3>1, <3>2
  <2>2. CASE h = g /\ t = u
    BY <1>3, <1>4, <2>1, <2>2
  <2>3. CASE ~(h = g /\ t = u)
    <3>1. t \in done'[h] => t \in done[h]
      BY <1>1, <2>3
    <3>2. KV[h][1][t] \in Source(h, Stage(y), t)
      BY <3>1 DEF FillInv
    <3> QED
      BY <1>3, <2>3, <3>2
  <2> QED
    BY <2>2, <2>3
<1>7. StageInv(y)'
  <2>1. ~(Leads(y) /\ Op(y) \in Attending)
    BY <1>1, <1>5, Lined DEF Attending
  <2> QED
    BY <1>2, <2>1 DEF StageInv
<1> QED
  BY <1>6, <1>7

\* A tile that is passed on.
LEMMA StoreStep ==
    ASSUME TypeOK, Kept, NobodyAhead, \A h \in Gpus : KernelInv(h) /\ LoadInv(h),
           \A h \in Gpus : FillInv(h) /\ StageInv(h),
           NEW g \in Gpus, NEW u \in Tiles, CommStore(g, u)
    PROVE  \A y \in Gpus : FillInv(y)' /\ StageInv(y)'
<1> SUFFICES ASSUME NEW y \in Gpus PROVE FillInv(y)' /\ StageInv(y)'
  OBVIOUS
<1>1. /\ Op(g) = "stage" /\ Leads(g) /\ UNCHANGED <<cfg, epoch, kernel>>
      /\ \A h \in Gpus : done'[h] = IF h = g THEN done[h] \cup {<<"stored", u>>} ELSE done[h]
      /\ KV' = [KV EXCEPT ![NextGpu(g)][There(g)][u] = smem[g][u]] /\ <<"loaded", u>> \in done[g]
  BY InFront DEF CommStore, Did, TypeOK, StreamTypes
<1>2. /\ Gpus' = Gpus /\ Tiles' = Tiles
      /\ \A h \in Gpus : Passed(h)' = Passed(h) /\ Op(h)' = Op(h) /\ NextGpu(h)' = NextGpu(h)
      /\ Stage(y)' = Stage(y) /\ (Leads(y)' <=> Leads(y))
      /\ Here(y)' = Here(y) /\ There(y)' = There(y)
      /\ \A h \in Gpus, t \in Tiles : Source(h, Stage(y), t) \subseteq Source(h, Stage(y), t)'
  BY <1>1, Unmoved
<1>3. /\ NextGpu(g) \in Gpus /\ There(g) \in 1..2 /\ Here(g) \in 1..2 /\ Here(g) # There(g)
      /\ \A h \in Gpus : NextGpu(h) \in Gpus /\ (NextGpu(h) = NextGpu(g) => h = g)
  BY RingShape, Sides
<1>4. \A h \in Gpus, b \in 1..2, t \in Tiles :
        KV'[h][b][t] = IF h = NextGpu(g) /\ b = There(g) /\ t = u THEN smem[g][u] ELSE KV[h][b][t]
  BY <1>1, <1>3 DEF TypeOK, BufferTypes
<1>5. smem[g][u] \in Source(g, Stage(g), u)
  BY <1>1 DEF LoadInv
<1>6. Leads(y) => /\ Stage(y) = Stage(g) /\ Here(y) = Here(g) /\ There(y) = There(g)
                  /\ Op(y) \in Attending
  <2>1. Leads(y) => Passed(y) = Passed(g)
    BY <1>1, InFront
  <2> QED
    BY <1>1, <2>1, Lined DEF Attending
<1>7. FillInv(y)'
  <2>1. ~(Leads(y) /\ Op(y) \in {"send", "copy", "meet_in"})
    BY <1>6 DEF Attending
  <2> QED
    BY <1>2, <2>1 DEF FillInv
<1>8. StageInv(y)'
  <2> SUFFICES ASSUME Leads(y), Op(y) \in Attending, NEW h \in Gpus, NEW t \in Tiles
               PROVE  InPlace(y, h, t)' /\ PassedOn(y, h, t)'
    BY <1>2 DEF StageInv
  <2>1. InPlace(y, h, t) /\ PassedOn(y, h, t)
    BY DEF StageInv
  <2>2. InPlace(y, h, t)'
    <3>1. KV'[h][Here(y)][t] = KV[h][Here(y)][t]
      BY <1>3, <1>4, <1>6
    <3> QED
      BY <1>2, <2>1, <3>1 DEF InPlace
  <2>3. PassedOn(y, h, t)'
    <3> SUFFICES ASSUME Passed(h) = Passed(y), Op(h) = "stage" => <<"stored", t>> \in done'[h]
                 PROVE  KV'[NextGpu(h)][There(y)][t] \in Source(h, Stage(y), t)
      BY <1>2 DEF PassedOn
    <3>1. CASE h = g /\ t = u
      <4>1. KV'[NextGpu(g)][There(g)][u] = smem[g][u]
        BY <1>3, <1>4
      <4>2. There(y) = There(g) /\ Stage(y) = Stage(g)
        BY <1>6
      <4> QED
        BY <1>5, <3>1, <4>1, <4>2
    <3>2. CASE ~(h = g /\ t = u)
      <4>1. Op(h) = "stage" => <<"stored", t>> \in done[h]
        <5>1. t # u => <<"stored", t>> # <<"stored", u>>
          OBVIOUS
        <5> QED
          BY <1>1, <3>2, <5>1
      <4>2. KV[NextGpu(h)][There(y)][t] \in Source(h, Stage(y), t)
        BY <2>1, <4>1 DEF PassedOn
      <4>3. KV'[NextGpu(h)][There(y)][t] = KV[NextGpu(h)][There(y)][t]
        <5>1. ~(NextGpu(h) = NextGpu(g) /\ There(y) = There(g) /\ t = u)
          BY <1>3, <3>2
        <5>2. NextGpu(h) \in Gpus /\ There(y) \in 1..2
          BY <1>3, <1>6
        <5> QED
          BY <1>4, <5>1, <5>2
      <4> QED
        BY <4>2, <4>3
    <3> QED
      BY <3>1, <3>2
  <2> QED
    BY <2>2, <2>3
<1> QED
  BY <1>7, <1>8

\* The kernel that comes after one that does not meet.
NextOp(g) ==
    CASE Op(g) \in {"send", "copy"} -> "meet_in"
      [] Op(g) = "stage" /\ Stage(g) # 0 -> "reduce"
      [] OTHER -> "meet_out"

\* What a step in which a kernel ends leaves as it was.
LEMMA Moved ==
    ASSUME TypeOK, Kept, \A h \in Gpus : KernelInv(h), NEW g \in Gpus, Goes(g),
           Op(g) \in {"send", "copy", "stage", "reduce"}, UNCHANGED <<cfg, epoch>>
    PROVE  /\ Gpus' = Gpus /\ Tiles' = Tiles /\ Blocks' = Blocks
           /\ \A h \in Gpus : /\ Passed(h)' = Passed(h) /\ Stage(h)' = Stage(h)
                              /\ Here(h)' = Here(h) /\ There(h)' = There(h)
                              /\ NextGpu(h)' = NextGpu(h) /\ (Leads(h)' <=> Leads(h))
                              /\ Op(h)' = IF h = g THEN NextOp(g) ELSE Op(h)
                              /\ done'[h] = IF h = g THEN {} ELSE done[h]
           /\ \A y, h \in Gpus, t \in Tiles : Source(h, Stage(y), t) \subseteq Source(h, Stage(y), t)'
<1>1. Gpus' = Gpus /\ Tiles' = Tiles /\ Blocks' = Blocks
  BY DEF Gpus, Tiles, Blocks
<1>2. /\ \A h \in Gpus : kernel'[h] = IF h = g THEN Following(kernel[g]) ELSE kernel[h]
      /\ \A h \in Gpus : Passed(h)' = Passed(h)
  BY GoingOn DEF Meets
<1>3. Following(kernel[g]).stage = kernel[g].stage /\ Following(kernel[g]).op = NextOp(g)
  <2>1. kernel[g].op \in {"send", "copy", "stage", "reduce"} /\ kernel[g].stage \in Nat
    BY DEF TypeOK, StreamTypes, Kernels, Op
  <2>2. CASE kernel[g].op \in {"send", "copy"}
    <3>1. Following(kernel[g]) = Kernel("meet_in", kernel[g].stage)
      BY <2>2 DEF Following
    <3> QED
      BY <2>2, <3>1 DEF Kernel, NextOp, Op
  <2>3. CASE kernel[g].op = "stage" /\ kernel[g].stage # 0
    <3>1. Following(kernel[g]) = Kernel("reduce", kernel[g].stage)
      BY <2>1, <2>3 DEF Following
    <3> QED
      BY <2>3, <3>1 DEF Kernel, NextOp, Op, Stage
  <2>4. CASE kernel[g].op = "stage" /\ kernel[g].stage = 0
    <3>1. Following(kernel[g]) = Kernel("meet_out", 0)
      BY <2>1, <2>4 DEF Following
    <3> QED
      BY <2>4, <3>1 DEF Kernel, NextOp, Op, Stage
  <2>5. CASE kernel[g].op = "reduce"
    <3>1. Following(kernel[g]) = Kernel("meet_out", kernel[g].stage)
      BY <2>5 DEF Following
    <3> QED
      BY <2>5, <3>1 DEF Kernel, NextOp, Op, Stage
  <2> QED
    BY <2>1, <2>2, <2>3, <2>4, <2>5
<1>4. \A h \in Gpus : Stage(h)' = Stage(h) /\ Op(h)' = IF h = g THEN NextOp(g) ELSE Op(h)
  BY <1>2, <1>3 DEF Stage, Op
<1>5. \A h \in Gpus : /\ Here(h)' = Here(h) /\ There(h)' = There(h) /\ NextGpu(h)' = NextGpu(h)
                      /\ (Leads(h)' <=> Leads(h))
  BY <1>1, <1>2, <1>4 DEF Here, There, NextGpu, Leads
<1>6. \A y, h \in Gpus, t \in Tiles : Source(h, Stage(y), t) \subseteq Source(h, Stage(y), t)'
  BY <1>4 DEF Kept
<1>7. \A h \in Gpus : done'[h] = IF h = g THEN {} ELSE done[h]
  BY DEF Goes, TypeOK, StreamTypes
<1> QED
  BY <1>1, <1>2, <1>4, <1>5, <1>6, <1>7

\* A kernel that has copied or passed on all of its tiles.
LEMMA EndStep ==
    ASSUME TypeOK, Kept, NobodyAhead, \A h \in Gpus : KernelInv(h),
           \A h \in Gpus : FillInv(h) /\ StageInv(h),
           NEW g \in Gpus, Goes(g), Op(g) \in {"send", "copy", "stage", "reduce"},
           UNCHANGED <<cfg, epoch, KV>>, done[g] = Work(kernel[g])
    PROVE  \A y \in Gpus : FillInv(y)' /\ StageInv(y)'
<1> SUFFICES ASSUME NEW y \in Gpus PROVE FillInv(y)' /\ StageInv(y)'
  OBVIOUS
<1>1. /\ Gpus' = Gpus /\ Tiles' = Tiles /\ KV' = KV
      /\ \A h \in Gpus : /\ Passed(h)' = Passed(h) /\ NextGpu(h)' = NextGpu(h)
                         /\ Op(h)' = IF h = g THEN NextOp(g) ELSE Op(h)
                         /\ done'[h] = IF h = g THEN {} ELSE done[h]
      /\ Stage(y)' = Stage(y) /\ (Leads(y)' <=> Leads(y))
      /\ Here(y)' = Here(y) /\ There(y)' = There(y)
      /\ \A h \in Gpus, t \in Tiles : Source(h, Stage(y), t) \subseteq Source(h, Stage(y), t)'
  BY Moved
<1>2. /\ Op(y)' \in {"send", "copy", "meet_in"} => Op(y) \in {"send", "copy", "meet_in"}
      /\ Op(y)' \in Attending => Op(y) \in Attending
  BY <1>1 DEF NextOp, Attending
<1>3. FillInv(y)'
  <2> SUFFICES ASSUME Leads(y), Op(y) \in {"send", "copy", "meet_in"},
                      NEW h \in Gpus, NEW t \in Tiles,
                      \/ Stage(y) = 0
                      \/ Passed(h) = Passed(y) /\ (Op(h)' = "meet_in" \/ t \in done'[h])
               PROVE  KV[h][1][t] \in Source(h, Stage(y), t)
    BY <1>1, <1>2 DEF FillInv
  <2>1. CASE h = g /\ Stage(y) # 0
    <3>1. Op(g) \in {"send", "copy"} /\ Passed(h) = Passed(y)
      BY <1>1, <2>1 DEF NextOp
    <3>2. t \in done[g]
      BY <3>1 DEF Work, Op
    <3> QED
      BY <2>1, <3>1, <3>2 DEF FillInv
  <2>2. CASE h # g \/ Stage(y) = 0
    BY <1>1, <2>2 DEF FillInv
  <2> QED
    BY <2>1, <2>2
<1>4. StageInv(y)'
  <2> SUFFICES ASSUME Leads(y), Op(y) \in Attending, NEW h \in Gpus, NEW t \in Tiles
               PROVE  InPlace(y, h, t)' /\ PassedOn(y, h, t)'
    BY <1>1, <1>2 DEF StageInv
  <2>1. InPlace(y, h, t) /\ PassedOn(y, h, t)
    BY DEF StageInv
  <2>2. InPlace(y, h, t)'
    BY <1>1, <2>1 DEF InPlace
  <2>3. PassedOn(y, h, t)'
    <3>1. h = g /\ Op(h) = "stage" => <<"stored", t>> \in done[h]
      BY DEF Work, Op
    <3>2. h = g \/ (Op(h)' = Op(h) /\ done'[h] = done[h])
      BY <1>1
    <3> QED
      BY <1>1, <2>1, <3>1, <3>2 DEF PassedOn
  <2> QED
    BY <2>2, <2>3
<1> QED
  BY <1>3, <1>4

\* What a GPU goes on to when all have met.
LEMMA AfterMeeting ==
    ASSUME TypeOK, NEW k \in Kernels, Launched(k), k.op \in {"meet_in", "meet_out"}
    PROVE  LET n == Following(k)
           IN  /\ n.op \in {"stage", "copy", "over"} /\ n.stage \in Nat
               /\ n.op = "copy" => n.stage # 0
               /\ k.op = "meet_in" => n.op = "stage" /\ n.stage = k.stage
               /\ k.op = "meet_out" /\ n.op = "stage" => n.stage % cfg.devices # 0
               /\ k.op = "meet_out" /\ n.op # "over" => n.stage = k.stage + 1
               /\ k.op = "meet_out" /\ n.op = "over" => k.stage + 1 = Stages
<1>1. k.stage \in Nat
  BY DEF Kernels
<1>2. CASE k.op = "meet_in"
  <2>1. Following(k) = Kernel("stage", k.stage)
    BY <1>2 DEF Following
  <2> QED
    BY <1>1, <1>2, <2>1 DEF Kernel
<1>3. CASE k.op = "meet_out" /\ k.stage + 1 = Stages
  <2>1. Following(k) = Last
    BY <1>3 DEF Following
  <2> QED
    BY <1>3, <2>1 DEF Last, Kernel
<1>4. CASE k.op = "meet_out" /\ k.stage + 1 # Stages /\ (k.stage + 1) % cfg.devices = 0
  <2>1. Following(k) = Kernel("copy", k.stage + 1)
    BY <1>4 DEF Following
  <2> QED
    BY <1>1, <1>4, <2>1 DEF Kernel
<1>5. CASE k.op = "meet_out" /\ k.stage + 1 # Stages /\ (k.stage + 1) % cfg.devices # 0
  <2>1. Following(k) = Kernel("stage", k.stage + 1)
    BY <1>5 DEF Following
  <2> QED
    BY <1>1, <1>5, <2>1 DEF Kernel
<1> QED
  BY <1>2, <1>3, <1>4, <1>5

\* A GPU that passes a barrier.  If it is the first, all the others have done what the
\* barrier waits for; if not, it comes to where another is already.
LEMMA MeetBuffers ==
    ASSUME TypeOK, Kept, NobodyAhead, BarrierInv, \A h \in Gpus : KernelInv(h),
           \A h \in Gpus : FillInv(h) /\ StageInv(h),
           NEW g \in Gpus, MeetAll(g), Goes(g)
    PROVE  \A y \in Gpus : FillInv(y)' /\ StageInv(y)'
<1> DEFINE n == Following(kernel[g])
           k == Passed(g)
<1>1. /\ Meets(g) /\ met[g] /\ UNCHANGED <<cfg, epoch, KV>>
      /\ \A h \in Gpus : Signalled(h) >= k + 1
  BY WordMeansAll DEF MeetAll
<1>2. /\ kernel[g] \in Kernels /\ Launched(kernel[g]) /\ kernel[g].op \in {"meet_in", "meet_out"}
      /\ n \in Kernels /\ Launched(n) /\ Before(n) = k + 1 /\ k \in Nat
  <2>1. kernel[g] \in Kernels /\ Launched(kernel[g]) /\ k \in Nat
    BY PassedTypes
  <2>2. kernel[g].op \in {"meet_in", "meet_out"}
    BY <1>1 DEF Meets, Op
  <2>3. n \in Kernels /\ Launched(n) /\ Before(n) = Before(kernel[g]) + 1
    BY <2>1, <2>2, Follows
  <2> QED
    BY <2>1, <2>2, <2>3 DEF Passed
<1>3. /\ n.op \in {"stage", "copy", "over"} /\ n.stage \in Nat
      /\ n.op = "copy" => n.stage # 0
      /\ Op(g) = "meet_in" => n.op = "stage" /\ n.stage = Stage(g)
      /\ Op(g) = "meet_out" /\ n.op = "stage"
           => n.stage = Stage(g) + 1 /\ n.stage % cfg.devices # 0
  BY <1>2, AfterMeeting DEF Op, Stage
<1>4. /\ Gpus' = Gpus /\ Tiles' = Tiles
      /\ \A h \in Gpus : kernel'[h] = IF h = g THEN n ELSE kernel[h]
      /\ \A h \in Gpus : Passed(h)' = IF h = g THEN k + 1 ELSE Passed(h)
      /\ \A h \in Gpus : done'[h] = IF h = g THEN {} ELSE done[h]
  <2>1. \A h \in Gpus : kernel'[h] = IF h = g THEN n ELSE kernel[h]
    BY <1>1, GoingOn
  <2>2. \A h \in Gpus : Passed(h)' = IF h = g THEN k + 1 ELSE Passed(h)
    BY <1>1, GoingOn
  <2>3. Gpus' = Gpus /\ Tiles' = Tiles /\ \A h \in Gpus : done'[h] = IF h = g THEN {} ELSE done[h]
    BY <1>1 DEF Gpus, Tiles, Goes, TypeOK, StreamTypes
  <2> QED
    BY <2>1, <2>2, <2>3
<1> HIDE DEF n
<1>5. \A h \in Gpus : /\ Op(h)' = (IF h = g THEN n.op ELSE Op(h))
                      /\ Stage(h)' = (IF h = g THEN n.stage ELSE Stage(h))
                      /\ NextGpu(h)' = NextGpu(h)
                      /\ h # g => Here(h)' = Here(h) /\ There(h)' = There(h)
  BY <1>1, <1>4 DEF Op, Stage, NextGpu, Here, There
<1>6. /\ Here(g)' = (n.stage % 2) + 1
      /\ \A y, h \in Gpus, t \in Tiles :
           y # g => Source(h, Stage(y), t) \subseteq Source(h, Stage(y), t)'
      /\ \A h \in Gpus, t \in Tiles : Source(h, n.stage, t) \subseteq Source(h, Stage(g), t)'
  BY <1>1, <1>5 DEF Kept, Here
<1>7. \A h \in Gpus : Passed(h) \in Nat /\ Passed(h) <= k + 1 /\ Passed(h) >= k
  <2> SUFFICES ASSUME NEW h \in Gpus
               PROVE  Passed(h) \in Nat /\ Passed(h) <= k + 1 /\ Passed(h) >= k
    OBVIOUS
  <2>1. Passed(h) <= Signalled(g) /\ Signalled(g) = k + 1
    BY <1>1, PassedTypes DEF NobodyAhead
  <2>2. Signalled(h) >= k + 1 /\ Signalled(h) <= Passed(h) + 1 /\ Passed(h) \in Nat /\ Signalled(h) \in Nat
    BY <1>1, PassedTypes
  <2> QED
    BY <1>2, <2>1, <2>2
\* Those that have passed the barrier before.
<1>8. ASSUME NEW z \in Gpus, Passed(z) = k + 1
      PROVE  /\ z # g /\ Leads(z) /\ Stage(z) = n.stage
             /\ Op(z) \in Attending <=> n.op = "stage"
             /\ n.op = "copy" => Op(z) \in {"send", "copy", "meet_in"}
  <2>1. Leads(z)
    BY <1>7, <1>8 DEF Leads
  <2>2. kernel[z] \in Kernels /\ Launched(kernel[z]) /\ Before(kernel[z]) = Before(n)
    BY <1>2, <1>8, PassedTypes DEF Passed
  <2>3. /\ kernel[z].stage = n.stage /\ (kernel[z].op \in Attending <=> n.op \in Attending)
        /\ (kernel[z].op = "over" <=> n.op = "over")
    BY <1>2, <2>2, SamePlace
  <2>4. n.op = "copy" => kernel[z].op \in {"send", "copy", "meet_in"}
    BY <2>2, <2>3 DEF Kernels, Attending
  <2> QED
    BY <1>2, <1>3, <1>8, <2>1, <2>3, <2>4 DEF Stage, Op, Attending
\* The first one finds all the others in the same barrier.
<1>9. ASSUME \A h \in Gpus : Passed(h) # k + 1
      PROVE  /\ Leads(g)
             /\ \A h \in Gpus : Passed(h) = k /\ Op(h) = Op(g)
  <2>1. \A h \in Gpus : Passed(h) = k
    BY <1>2, <1>7, <1>9
  <2>2. Leads(g)
    BY <1>2, <2>1 DEF Leads
  <2>3. ASSUME NEW h \in Gpus PROVE Op(h) = Op(g)
    <3>1. met[h]
      BY <1>1, <1>2, <2>1, PassedTypes
    <3>2. Op(h) \in {"meet_in", "meet_out"} /\ Op(g) \in {"meet_in", "meet_out"}
      BY <1>1, <3>1 DEF KernelInv, Meets
    <3>3. Op(h) \in Attending <=> Op(g) \in Attending
      BY <2>1, Lined
    <3> QED
      BY <3>2, <3>3 DEF Attending
  <2> QED
    BY <2>1, <2>2, <2>3
\* Nothing is done of the next kernel.
<1>10. \A t \in Tiles : t \notin done'[g] /\ <<"stored", t>> \notin done'[g]
  BY <1>4
<1>11. FillInv(g)'
  <2> SUFFICES ASSUME n.op \in {"send", "copy", "meet_in"},
                      NEW h \in Gpus, NEW t \in Tiles,
                      \/ n.stage = 0
                      \/ Passed(h)' = k + 1 /\ (Op(h)' = "meet_in" \/ t \in done'[h])
               PROVE  KV[h][1][t] \in Source(h, n.stage, t)
    BY <1>1, <1>4, <1>5, <1>6 DEF FillInv
  <2>1. n.op = "copy" /\ n.stage # 0 /\ h # g
    BY <1>3, <1>5, <1>10
  <2>2. Passed(h) = k + 1 /\ (Op(h) = "meet_in" \/ t \in done[h])
    BY <1>4, <1>5, <2>1
  <2> QED
    BY <1>8, <2>1, <2>2 DEF FillInv
<1>12. StageInv(g)'
  <2> SUFFICES ASSUME n.op = "stage", NEW h \in Gpus, NEW t \in Tiles
               PROVE  InPlace(g, h, t)' /\ PassedOn(g, h, t)'
    <3>1. Op(g)' \in Attending => n.op = "stage"
      BY <1>3, <1>5 DEF Attending
    <3> QED
      BY <1>4, <3>1 DEF StageInv
  <2>1. CASE \E z \in Gpus : Passed(z) = k + 1
    <3>1. PICK z \in Gpus : Passed(z) = k + 1
      BY <2>1
    <3>2. InPlace(z, h, t) /\ PassedOn(z, h, t) /\ Stage(z) = n.stage
      BY <1>8, <3>1 DEF StageInv
    <3>3. Here(z) = Here(g)' /\ There(z) = There(g)'
      BY <1>6, <3>2 DEF Here, There
    <3>4. InPlace(g, h, t)'
      <4>1. KV[h][Here(z)][t] \in Source(h, n.stage, t)
        BY <3>2 DEF InPlace
      <4> QED
        BY <1>1, <1>6, <3>3, <4>1 DEF InPlace
    <3>5. PassedOn(g, h, t)'
      <4> SUFFICES ASSUME Passed(h)' = k + 1, Op(h)' = "stage" => <<"stored", t>> \in done'[h]
                   PROVE  KV[NextGpu(h)][There(z)][t] \in Source(h, n.stage, t)
        BY <1>1, <1>4, <1>5, <1>6, <3>3 DEF PassedOn
      <4>1. h # g
        BY <1>5, <1>10
      <4>2. Passed(h) = Passed(z) /\ (Op(h) = "stage" => <<"stored", t>> \in done[h])
        BY <1>4, <1>5, <3>1, <4>1
      <4> QED
        BY <3>2, <4>2 DEF PassedOn
    <3> QED
      BY <3>4, <3>5
  <2>2. CASE \A z \in Gpus : Passed(z) # k + 1
    <3>1. Leads(g) /\ \A z \in Gpus : Passed(z) = k /\ Op(z) = Op(g)
      BY <1>9, <2>2
    <3>2. PassedOn(g, h, t)'
      <4> SUFFICES ASSUME Passed(h)' = k + 1, Op(h)' = "stage" => <<"stored", t>> \in done'[h]
                   PROVE  FALSE
        BY <1>4 DEF PassedOn
      <4>1. h # g
        BY <1>5, <1>10
      <4> QED
        BY <1>4, <2>2, <4>1
    <3>3. KV[h][(n.stage % 2) + 1][t] \in Source(h, n.stage, t)
      <4>1. CASE Op(g) = "meet_in"
        <5>1. n.stage = Stage(g) /\ KV[h][1][t] \in Source(h, Stage(g), t)
          BY <1>3, <3>1, <4>1 DEF FillInv
        <5>2. Stage(g) % cfg.devices = 0
          BY <1>2, <4>1 DEF Launched, Op, Stage
        <5>3. Here(g) = 1
          BY <5>2, Sides
        <5> QED
          BY <5>1, <5>3 DEF Here
      <4>2. CASE Op(g) = "meet_out"
        <5>1. n.stage = Stage(g) + 1 /\ n.stage % cfg.devices # 0 /\ Stage(g) \in Nat
          BY <1>3, <4>2, PassedTypes
        <5>2. PICK z \in Gpus : h = NextGpu(z)
          BY RingShape
        <5>3. KV[h][There(g)][t] \in Source(z, Stage(g), t)
          BY <3>1, <4>2, <5>2 DEF StageInv, PassedOn, Attending
        <5>4. Source(h, n.stage, t) = Source(z, Stage(g), t)
          BY <5>1, <5>2, SourcePassedOn
        <5>5. (n.stage % 2) + 1 = There(g)
          BY <5>1 DEF There, Here
        <5> QED
          BY <5>3, <5>4, <5>5
      <4> QED
        BY <1>1, <4>1, <4>2 DEF Meets
    <3>4. InPlace(g, h, t)'
      BY <1>1, <1>6, <3>3 DEF InPlace
    <3> QED
      BY <3>2, <3>4
  <2> QED
    BY <2>1, <2>2
<1>13. ASSUME NEW y \in Gpus, y # g, Leads(y)'
       PROVE  Passed(y) = k + 1 /\ Leads(y)
  <2>1. Passed(y)' >= Passed(g)'
    BY <1>4, <1>13 DEF Leads
  <2>2. Passed(y) = k + 1
    BY <1>2, <1>4, <1>7, <1>13, <2>1
  <2> QED
    BY <1>8, <2>2
<1>14. ASSUME NEW y \in Gpus, y # g PROVE FillInv(y)' /\ StageInv(y)'
  <2>1. FillInv(y)'
    <3> SUFFICES ASSUME Leads(y)' PROVE FillInv(y)'
      BY DEF FillInv
    <3>0. Leads(y)
      BY <1>13, <1>14
    <3> SUFFICES ASSUME Op(y) \in {"send", "copy", "meet_in"},
                        NEW h \in Gpus, NEW t \in Tiles,
                        \/ Stage(y) = 0
                        \/ Passed(h)' = Passed(y) /\ (Op(h)' = "meet_in" \/ t \in done'[h])
                 PROVE  KV[h][1][t] \in Source(h, Stage(y), t)
      <4>1. /\ Gpus' = Gpus /\ Tiles' = Tiles /\ KV' = KV
            /\ Passed(y)' = Passed(y) /\ Op(y)' = Op(y) /\ Stage(y)' = Stage(y)
            /\ \A h \in Gpus, t \in Tiles : Source(h, Stage(y), t) \subseteq Source(h, Stage(y), t)'
        BY <1>1, <1>4, <1>5, <1>6, <1>14
      <4> QED
        BY <4>1 DEF FillInv
    <3>1. Stage(y) # 0 => h # g
      BY <1>3, <1>5, <1>10
    <3>2. Stage(y) = 0 \/ (Passed(h) = Passed(y) /\ (Op(h) = "meet_in" \/ t \in done[h]))
      BY <1>4, <1>5, <3>1
    <3> QED
      BY <3>0, <3>2 DEF FillInv
  <2>2. StageInv(y)'
    <3> SUFFICES ASSUME Leads(y)', Op(y) \in Attending, NEW h \in Gpus, NEW t \in Tiles
                 PROVE  InPlace(y, h, t)' /\ PassedOn(y, h, t)'
      BY <1>4, <1>5, <1>14 DEF StageInv
    <3>1. Passed(y) = k + 1 /\ Leads(y)
      BY <1>13, <1>14
    <3>2. InPlace(y, h, t) /\ PassedOn(y, h, t)
      BY <3>1 DEF StageInv
    <3>3. InPlace(y, h, t)'
      BY <1>1, <1>5, <1>6, <1>14, <3>2 DEF InPlace
    <3>4. PassedOn(y, h, t)'
      <4> SUFFICES ASSUME Passed(h)' = k + 1, Op(h)' = "stage" => <<"stored", t>> \in done'[h]
                   PROVE  KV[NextGpu(h)][There(y)][t] \in Source(h, Stage(y), t)
        BY <1>1, <1>4, <1>5, <1>6, <1>14, <3>1 DEF PassedOn
      <4>1. n.op = "stage"
        BY <1>8, <3>1
      <4>2. h # g
        BY <1>5, <1>10, <4>1
      <4>3. Passed(h) = Passed(y) /\ (Op(h) = "stage" => <<"stored", t>> \in done[h])
        BY <1>4, <1>5, <3>1, <4>2
      <4> QED
        BY <3>2, <4>3 DEF PassedOn
    <3> QED
      BY <3>3, <3>4
  <2> QED
    BY <2>1, <2>2
<1> QED
  BY <1>11, <1>12, <1>14

-----------------------------------------------------------------------------
\* A GPU's own work.

\* What OwnInv is about.
Private(g) == <<kernel[g], done[g], smem[g], part[g], O[g], O_block[g]>>

LEMMA SameOwn ==
    ASSUME Kept, UNCHANGED <<cfg, epoch>>, NEW y \in Gpus, OwnInv(y), Private(y)' = Private(y)
    PROVE  OwnInv(y)'
<1>1. /\ Tiles' = Tiles /\ Blocks' = Blocks
      /\ kernel'[y] = kernel[y] /\ done'[y] = done[y] /\ smem'[y] = smem[y]
      /\ part'[y] = part[y] /\ O'[y] = O[y] /\ O_block'[y] = O_block[y]
  BY DEF Tiles, Blocks, Private
<1>2. Op(y)' = Op(y) /\ Stage(y)' = Stage(y)
  BY <1>1 DEF Op, Stage
<1>3. \A s, t : Source(y, s, t) \subseteq Source(y, s, t)'
  BY DEF Kept
<1>4. \A b \in Blocks : Taken(y, b)' = Taken(y, b)
  BY <1>1, <1>2 DEF Taken, Stages
<1>5. LoadInv(y)'
  BY <1>1, <1>2, <1>3 DEF LoadInv, OwnInv
<1>6. PartInv(y)'
  BY <1>1, <1>2, <1>3 DEF PartInv, OwnInv, AllFrom
<1>7. BlockInv(y)'
  BY <1>1, <1>2, <1>3 DEF BlockInv, OwnInv, AllFrom
<1>8. ResultInv(y)'
  BY <1>1, <1>3, <1>4 DEF ResultInv, OwnInv
<1> QED
  BY <1>5, <1>6, <1>7, <1>8 DEF OwnInv

\* A kernel of the communication CTAs only.
LEMMA IdleOwn ==
    ASSUME Kept, UNCHANGED <<cfg, epoch, kernel, smem, part, O, O_block>>, NEW g \in Gpus, OwnInv(g),
           Op(g) \notin {"stage", "reduce"}
    PROVE  OwnInv(g)'
<1>1. Tiles' = Tiles /\ Blocks' = Blocks /\ Op(g)' = Op(g) /\ Stage(g)' = Stage(g)
  BY DEF Tiles, Blocks, Op, Stage
<1>2. \A s, t : Source(g, s, t) \subseteq Source(g, s, t)'
  BY DEF Kept
<1>3. \A b \in Blocks : Taken(g, b)' = Taken(g, b)
  BY <1>1 DEF Taken, Stages
<1>4. LoadInv(g)'
  BY <1>1 DEF LoadInv
<1>5. PartInv(g)'
  BY <1>1, <1>2 DEF PartInv, OwnInv, AllFrom
<1>6. BlockInv(g)'
  BY <1>1 DEF BlockInv
<1>7. ResultInv(g)'
  BY <1>1, <1>2, <1>3 DEF ResultInv, OwnInv
<1> QED
  BY <1>4, <1>5, <1>6, <1>7 DEF OwnInv

\* A tile that is loaded or stored by the communication CTAs of a stage.
LEMMA TileOwn ==
    ASSUME TypeOK, Kept, NobodyAhead, \A h \in Gpus : KernelInv(h), NEW g \in Gpus, OwnInv(g),
           StageInv(g), NEW u \in Tiles, CommLoad(g, u) \/ CommStore(g, u)
    PROVE  OwnInv(g)'
<1>1. /\ Op(g) = "stage" /\ Leads(g) /\ UNCHANGED <<cfg, epoch, kernel, part, O, O_block>>
      /\ done'[g] = done[g] \cup {<<"loaded", u>>} \/ done'[g] = done[g] \cup {<<"stored", u>>}
  BY InFront DEF CommStore, CommLoad, Did, TypeOK, StreamTypes, result
<1>2. Tiles' = Tiles /\ Blocks' = Blocks /\ Op(g)' = Op(g) /\ Stage(g)' = Stage(g)
  BY <1>1 DEF Tiles, Blocks, Op, Stage
<1>3. \A s, t : Source(g, s, t) \subseteq Source(g, s, t)'
  BY DEF Kept
<1>4. \A b : <<"block", b>> \in done'[g] <=> <<"block", b>> \in done[g]
  BY <1>1
<1>5. \A b \in Blocks : Taken(g, b)' = Taken(g, b)
  BY <1>1, <1>2, <1>4 DEF Taken, Stages
<1>6. LoadInv(g)'
  <2> SUFFICES ASSUME NEW t \in Tiles, <<"loaded", t>> \in done'[g]
               PROVE  smem'[g][t] \in Source(g, Stage(g), t)
    BY <1>2, <1>3 DEF LoadInv
  <2>1. CASE CommLoad(g, u)
    <3>1. done'[g] = done[g] \cup {<<"loaded", u>>}
      BY <2>1 DEF CommLoad, Did, TypeOK, StreamTypes
    <3>2. smem'[g][t] = IF t = u THEN KV[g][Here(g)][u] ELSE smem[g][t]
      BY <2>1 DEF CommLoad, TypeOK, BufferTypes
    <3>3. KV[g][Here(g)][u] \in Source(g, Stage(g), u)
      BY <1>1 DEF StageInv, InPlace, Attending
    <3>4. t # u => <<"loaded", t>> # <<"loaded", u>>
      OBVIOUS
    <3>5. t # u => <<"loaded", t>> \in done[g]
      BY <3>1, <3>4
    <3> QED
      BY <1>1, <3>2, <3>3, <3>5 DEF LoadInv, OwnInv
  <2>2. CASE CommStore(g, u)
    <3>1. done'[g] = done[g] \cup {<<"stored", u>>} /\ smem' = smem
      BY <2>2 DEF CommStore, Did, TypeOK, StreamTypes
    <3>2. <<"loaded", t>> \in done[g]
      BY <3>1
    <3> QED
      BY <1>1, <3>1, <3>2 DEF LoadInv, OwnInv
  <2> QED
    BY <2>1, <2>2
<1>7. PartInv(g)'
  BY <1>1, <1>2, <1>3, <1>4 DEF PartInv, OwnInv, AllFrom
<1>8. BlockInv(g)'
  BY <1>1, <1>2, <1>3, <1>4 DEF BlockInv, OwnInv, AllFrom
<1>9. ResultInv(g)'
  BY <1>1, <1>2, <1>3, <1>5 DEF ResultInv, OwnInv
<1> QED
  BY <1>6, <1>7, <1>8, <1>9 DEF OwnInv

\* A table in which one entry is changed.
LEMMA OneEntry ==
    ASSUME NEW A, NEW B, NEW S, NEW f \in [A -> [B -> S]], NEW a \in A, NEW b \in B, NEW x \in S,
           NEW f1, f1 = [f EXCEPT ![a][b] = x]
    PROVE  /\ f1 \in [A -> [B -> S]]
           /\ \A y \in A : \A z \in B : f1[y][z] = IF y = a /\ z = b THEN x ELSE f[y][z]
  OBVIOUS

\* A tile that a block attends to.
LEMMA AttendOwn ==
    ASSUME TypeOK, Kept, NobodyAhead, \A h \in Gpus : KernelInv(h), NEW g \in Gpus, OwnInv(g),
           StageInv(g), NEW c \in Blocks, Attend(g, c)
    PROVE  OwnInv(g)' /\ ResultTypes'
<1> DEFINE old == part[g][c]
           tile == KV[g][Here(g)][Len(old)]
           read == Append(old, tile)
           s == Stage(g)
<1>1. /\ Op(g) = "stage" /\ Leads(g) /\ UNCHANGED <<cfg, epoch, kernel, smem>>
      /\ <<"block", c>> \notin done[g]
      /\ \/ /\ Len(read) < cfg.tiles /\ part' = [part EXCEPT ![g][c] = read]
            /\ UNCHANGED <<done, O, O_block>>
         \/ /\ ~(Len(read) < cfg.tiles) /\ part' = [part EXCEPT ![g][c] = <<>>]
            /\ done' = [done EXCEPT ![g] = @ \cup {<<"block", c>>}]
            /\ IF s = 0 THEN O' = [O EXCEPT ![g][c] = read] /\ UNCHANGED O_block
                        ELSE O_block' = [O_block EXCEPT ![g][c] = read] /\ UNCHANGED O
  BY InFront DEF Attend, Did
<1>2. /\ Tiles' = Tiles /\ Blocks' = Blocks /\ Gpus' = Gpus
      /\ Op(g)' = Op(g) /\ Stage(g)' = Stage(g)
  BY <1>1 DEF Tiles, Blocks, Gpus, Op, Stage
<1>3. \A r, t : Source(g, r, t) \subseteq Source(g, r, t)'
  BY DEF Kept
<1>4. old \in Seq(Contents) /\ Len(old) \in Tiles /\ s \in Nat /\ cfg.tiles \in Nat \ {0}
  <2>1. old \in Seq(Contents)
    BY DEF TypeOK, ResultTypes
  <2>2. Len(old) < cfg.tiles
    BY DEF OwnInv, PartInv
  <2>3. cfg.tiles \in Nat \ {0} /\ s \in Nat
    BY CfgFacts, PassedTypes
  <2>4. Len(old) \in Nat
    BY <2>1
  <2> QED
    BY <2>1, <2>2, <2>3, <2>4 DEF Tiles
<1>5. tile \in Source(g, s, Len(old)) /\ tile \in Contents
  <2>1. tile \in Source(g, s, Len(old))
    BY <1>1, <1>4 DEF StageInv, InPlace, Attending
  <2>2. Here(g) \in 1..2 /\ KV \in [Gpus -> [1..2 -> [Tiles -> Contents]]]
    BY Sides DEF TypeOK, BufferTypes
  <2> QED
    BY <1>4, <2>1, <2>2
<1> HIDE DEF tile
<1>6. /\ read \in Seq(Contents) /\ Len(read) = Len(old) + 1 /\ Len(old) \in Nat
      /\ Len(read) <= cfg.tiles
      /\ \A i \in 1..Len(read) : read[i] \in Source(g, s, i - 1)
  <2>1. /\ read \in Seq(Contents) /\ Len(read) = Len(old) + 1 /\ Len(old) \in Nat
        /\ \A i \in 1..(Len(old) + 1) : read[i] = IF i = Len(old) + 1 THEN tile ELSE old[i]
    BY <1>4, <1>5
  <2>2. \A i \in 1..Len(old) : old[i] \in Source(g, s, i - 1)
    BY DEF OwnInv, PartInv, AllFrom
  <2>3. ASSUME NEW i \in 1..Len(read) PROVE read[i] \in Source(g, s, i - 1)
    <3>1. CASE i = Len(old) + 1
      <4>1. i - 1 = Len(old) /\ read[i] = tile
        BY <2>1, <3>1
      <4> QED
        BY <1>5, <4>1
    <3>2. CASE i # Len(old) + 1
      <4>1. i \in 1..Len(old) /\ read[i] = old[i]
        BY <2>1, <3>2
      <4> QED
        BY <2>2, <4>1
    <3> QED
      BY <3>1, <3>2
  <2> QED
    BY <1>4, <2>1, <2>3 DEF Tiles
<1> HIDE DEF read
<1>7. CASE Len(read) < cfg.tiles
  <2>1. /\ UNCHANGED <<done, O, O_block>>
        /\ part' \in [Gpus -> [Blocks -> Seq(Contents)]]
        /\ \A b \in Blocks : part'[g][b] = IF b = c THEN read ELSE part[g][b]
    <3>1. part \in [Gpus -> [Blocks -> Seq(Contents)]] /\ part' = [part EXCEPT ![g][c] = read]
      BY <1>1, <1>7 DEF TypeOK, ResultTypes
    <3>2. UNCHANGED <<done, O, O_block>>
      BY <1>1, <1>7
    <3> QED
      BY <1>6, <3>1, <3>2, OneEntry
  <2>2. LoadInv(g)'
    BY <1>1, <1>2, <1>3, <2>1 DEF LoadInv, OwnInv
  <2>3. PartInv(g)'
    <3> SUFFICES ASSUME NEW b \in Blocks
                 PROVE  /\ Len(part'[g][b]) < cfg.tiles
                        /\ \A i \in 1..Len(part'[g][b]) : part'[g][b][i] \in Source(g, s, i - 1)
                        /\ Op(g) # "stage" \/ <<"block", b>> \in done[g] => part'[g][b] = <<>>
      BY <1>1, <1>2, <1>3, <2>1 DEF PartInv, AllFrom
    <3>1. CASE b = c
      <4>1. part'[g][b] = read /\ ~(Op(g) # "stage" \/ <<"block", b>> \in done[g])
        BY <1>1, <2>1, <3>1
      <4> QED
        BY <1>6, <1>7, <4>1
    <3>2. CASE b # c
      <4>1. part'[g][b] = part[g][b]
        BY <2>1, <3>2
      <4> QED
        BY <4>1 DEF OwnInv, PartInv, AllFrom
    <3> QED
      BY <3>1, <3>2
  <2>4. BlockInv(g)'
    BY <1>1, <1>2, <1>3, <2>1 DEF BlockInv, OwnInv, AllFrom
  <2>5. \A b \in Blocks : Taken(g, b)' = Taken(g, b)
    BY <1>1, <1>2, <2>1 DEF Taken, Stages
  <2>6. ResultInv(g)'
    BY <1>1, <1>2, <1>3, <2>1, <2>5 DEF ResultInv, OwnInv
  <2>7. ResultTypes'
    BY <1>2, <2>1 DEF TypeOK, ResultTypes, Contents
  <2> QED
    BY <2>2, <2>3, <2>4, <2>6, <2>7 DEF OwnInv
<1>8. CASE ~(Len(read) < cfg.tiles)
  <2>1. /\ part' \in [Gpus -> [Blocks -> Seq(Contents)]]
        /\ \A b \in Blocks : part'[g][b] = IF b = c THEN <<>> ELSE part[g][b]
        /\ done'[g] = done[g] \cup {<<"block", c>>}
    <3>1. part \in [Gpus -> [Blocks -> Seq(Contents)]] /\ part' = [part EXCEPT ![g][c] = <<>>]
      BY <1>1, <1>8 DEF TypeOK, ResultTypes
    <3>2. done'[g] = done[g] \cup {<<"block", c>>}
      BY <1>1, <1>8 DEF TypeOK, StreamTypes
    <3>3. <<>> \in Seq(Contents)
      OBVIOUS
    <3> QED
      BY <3>1, <3>2, <3>3, OneEntry
  <2>2. Len(read) = cfg.tiles
    BY <1>4, <1>6, <1>8
  <2>3. /\ \A b \in Blocks : <<"block", b>> \in done'[g] <=> b = c \/ <<"block", b>> \in done[g]
        /\ \A t : <<"loaded", t>> \in done'[g] <=> <<"loaded", t>> \in done[g]
    BY <2>1
  <2>4. LoadInv(g)'
    BY <1>1, <1>2, <1>3, <2>3 DEF LoadInv, OwnInv
  <2>5. PartInv(g)'
    <3> SUFFICES ASSUME NEW b \in Blocks
                 PROVE  /\ Len(part'[g][b]) < cfg.tiles
                        /\ \A i \in 1..Len(part'[g][b]) : part'[g][b][i] \in Source(g, s, i - 1)
                        /\ Op(g) # "stage" \/ <<"block", b>> \in done'[g] => part'[g][b] = <<>>
      BY <1>1, <1>2, <1>3 DEF PartInv, AllFrom
    <3>1. CASE b = c
      <4>1. part'[g][b] = <<>> /\ Len(<<>>) = 0
        BY <2>1, <3>1
      <4> QED
        BY <1>4, <4>1
    <3>2. CASE b # c
      BY <1>1, <2>1, <2>3, <3>2 DEF OwnInv, PartInv, AllFrom
    <3> QED
      BY <3>1, <3>2
  <2>6. CASE s = 0
    <3>1. /\ UNCHANGED O_block /\ O' \in [Gpus -> [Blocks -> Seq(Contents)]]
          /\ \A b \in Blocks : O'[g][b] = IF b = c THEN read ELSE O[g][b]
      <4>1. O \in [Gpus -> [Blocks -> Seq(Contents)]] /\ O' = [O EXCEPT ![g][c] = read]
        BY <1>1, <1>8, <2>6 DEF TypeOK, ResultTypes
      <4>2. UNCHANGED O_block
        BY <1>1, <1>8, <2>6
      <4> QED
        BY <1>6, <4>1, <4>2, OneEntry
    <3>2. BlockInv(g)'
      BY <1>1, <1>2, <2>6 DEF BlockInv
    <3>3. \A b \in Blocks : b # c => Taken(g, b)' = Taken(g, b)
      BY <1>1, <1>2, <2>3 DEF Taken, Stages
    <3>4. Taken(g, c)' = 1
      BY <1>1, <1>2, <2>3, <2>6 DEF Taken
    <3>5. \A i \in 1..cfg.tiles : (i - 1) \div cfg.tiles = 0 /\ (i - 1) % cfg.tiles = i - 1
      <4> SUFFICES ASSUME NEW i \in 1..cfg.tiles
                   PROVE  (i - 1) \div cfg.tiles = 0 /\ (i - 1) % cfg.tiles = i - 1
        OBVIOUS
      <4>1. /\ (0 * cfg.tiles + (i - 1)) \div cfg.tiles = 0
            /\ (0 * cfg.tiles + (i - 1)) % cfg.tiles = i - 1
        <5> DEFINE T == cfg.tiles
                   j == i - 1
        <5>1. T \in Nat \ {0} /\ j \in Nat /\ j < T
          BY <1>4
        <5> HIDE DEF T, j
        <5>2. (0 * T + j) \div T = 0 /\ (0 * T + j) % T = j
          BY <5>1, DivideBack
        <5> QED
          BY <5>2 DEF T, j
      <4>2. 0 * cfg.tiles + (i - 1) = i - 1
        BY <1>4
      <4> QED
        BY <4>1, <4>2
    <3>6. ResultInv(g)'
      <4> SUFFICES ASSUME NEW b \in Blocks
                   PROVE  /\ Len(O'[g][b]) = Taken(g, b)' * cfg.tiles
                          /\ \A i \in 1..Len(O'[g][b]) :
                               O'[g][b][i] \in Source(g, (i - 1) \div cfg.tiles, (i - 1) % cfg.tiles)
        BY <1>1, <1>2, <1>3 DEF ResultInv
      <4>1. CASE b = c
        <5>1. O'[g][b] = read /\ Taken(g, b)' = 1
          BY <3>1, <3>4, <4>1
        <5>2. Len(O'[g][b]) = cfg.tiles /\ cfg.tiles = 1 * cfg.tiles
          BY <1>4, <2>2, <5>1
        <5>3. ASSUME NEW i \in 1..Len(O'[g][b])
              PROVE  O'[g][b][i] \in Source(g, (i - 1) \div cfg.tiles, (i - 1) % cfg.tiles)
          <6>1. i \in 1..cfg.tiles /\ O'[g][b][i] \in Source(g, 0, i - 1)
            BY <1>6, <2>2, <2>6, <5>1, <5>2
          <6> QED
            BY <3>5, <6>1
        <5> QED
          BY <5>1, <5>2, <5>3
      <4>2. CASE b # c
        BY <3>1, <3>3, <4>2 DEF OwnInv, ResultInv
      <4> QED
        BY <4>1, <4>2
    <3>7. ResultTypes'
      BY <1>2, <2>1, <3>1 DEF TypeOK, ResultTypes, Contents
    <3> QED
      BY <2>4, <2>5, <3>2, <3>6, <3>7 DEF OwnInv
  <2>7. CASE s # 0
    <3>1. /\ UNCHANGED O /\ O_block' \in [Gpus -> [Blocks -> Seq(Contents)]]
          /\ \A b \in Blocks : O_block'[g][b] = IF b = c THEN read ELSE O_block[g][b]
      <4>1. O_block \in [Gpus -> [Blocks -> Seq(Contents)]] /\ O_block' = [O_block EXCEPT ![g][c] = read]
        BY <1>1, <1>8, <2>7 DEF TypeOK, ResultTypes
      <4>2. UNCHANGED O
        BY <1>1, <1>8, <2>7
      <4> QED
        BY <1>6, <4>1, <4>2, OneEntry
    <3>2. BlockInv(g)'
      <4> SUFFICES ASSUME NEW b \in Blocks, <<"block", b>> \in done'[g]
                   PROVE  /\ Len(O_block'[g][b]) = cfg.tiles
                          /\ \A i \in 1..Len(O_block'[g][b]) : O_block'[g][b][i] \in Source(g, s, i - 1)
        BY <1>1, <1>2, <1>3 DEF BlockInv, AllFrom
      <4>1. CASE b = c
        BY <1>6, <2>2, <3>1, <4>1
      <4>2. CASE b # c
        BY <1>1, <2>3, <2>7, <3>1, <4>2 DEF OwnInv, BlockInv, AllFrom
      <4> QED
        BY <4>1, <4>2
    <3>3. \A b \in Blocks : Taken(g, b)' = Taken(g, b)
      BY <1>1, <1>2, <2>7 DEF Taken, Stages
    <3>4. ResultInv(g)'
      BY <1>1, <1>2, <1>3, <3>1, <3>3 DEF ResultInv, OwnInv
    <3>5. ResultTypes'
      BY <1>2, <2>1, <3>1 DEF TypeOK, ResultTypes, Contents
    <3> QED
      BY <2>4, <2>5, <3>2, <3>4, <3>5 DEF OwnInv
  <2> QED
    BY <2>6, <2>7
<1> QED
  BY <1>7, <1>8

LEMMA Joined ==
    ASSUME NEW S, NEW a \in Seq(S), NEW b \in Seq(S)
    PROVE  /\ a \o b \in Seq(S) /\ Len(a \o b) = Len(a) + Len(b)
           /\ \A i \in 1..(Len(a) + Len(b)) :
                (a \o b)[i] = IF i <= Len(a) THEN a[i] ELSE b[i - Len(a)]
  OBVIOUS

\* The rows of two blocks that a reduction block adds.
LEMMA ReduceOwn ==
    ASSUME TypeOK, Kept, \A h \in Gpus : KernelInv(h), NEW g \in Gpus, OwnInv(g),
           NEW r \in 0..(cfg.reductions - 1), Reduce(g, r)
    PROVE  OwnInv(g)' /\ ResultTypes'
<1> DEFINE s == Stage(g)
           T == cfg.tiles
<1>1. /\ Op(g) = "reduce" /\ UNCHANGED <<cfg, epoch, kernel, smem, part, O_block>>
      /\ r \notin done[g] /\ done'[g] = done[g] \cup {r}
      /\ O' = [O EXCEPT ![g] = [b \in Blocks |->
                 IF b \div 2 = r THEN O[g][b] \o O_block[g][b] ELSE O[g][b]]]
  BY DEF Reduce, Did, TypeOK, StreamTypes
<1>2. /\ Tiles' = Tiles /\ Blocks' = Blocks /\ Gpus' = Gpus
      /\ Op(g)' = Op(g) /\ Stage(g)' = Stage(g)
  BY <1>1 DEF Tiles, Blocks, Gpus, Op, Stage
<1>3. \A x, t : Source(g, x, t) \subseteq Source(g, x, t)'
  BY DEF Kept
<1>4. \A b \in Blocks : O[g][b] \in Seq(Contents) /\ O_block[g][b] \in Seq(Contents)
  BY DEF TypeOK, ResultTypes
<1>5. s \in Nat /\ T \in Nat \ {0}
  BY CfgFacts, PassedTypes
<1>6. /\ O' \in [Gpus -> [Blocks -> Seq(Contents)]]
      /\ \A b \in Blocks : O'[g][b] = IF b \div 2 = r THEN O[g][b] \o O_block[g][b] ELSE O[g][b]
  <2> DEFINE row == [b \in Blocks |-> IF b \div 2 = r THEN O[g][b] \o O_block[g][b] ELSE O[g][b]]
  <2>1. \A b \in Blocks : O[g][b] \o O_block[g][b] \in Seq(Contents)
    BY <1>4
  <2>2. row \in [Blocks -> Seq(Contents)]
    BY <1>4, <2>1
  <2>3. O' = [O EXCEPT ![g] = row] /\ O \in [Gpus -> [Blocks -> Seq(Contents)]]
    BY <1>1 DEF TypeOK, ResultTypes
  <2>4. O' \in [Gpus -> [Blocks -> Seq(Contents)]] /\ O'[g] = row
    <3> HIDE DEF row
    <3> QED
      BY <2>2, <2>3
  <2> QED
    BY <2>4
<1>7. LoadInv(g)'
  BY <1>1, <1>2 DEF LoadInv
<1>8. PartInv(g)'
  BY <1>1, <1>2, <1>3 DEF PartInv, OwnInv, AllFrom
<1>9. BlockInv(g)'
  BY <1>1, <1>2, <1>3 DEF BlockInv, OwnInv, AllFrom
<1>10. ResultInv(g)'
  <2> SUFFICES ASSUME NEW b \in Blocks
               PROVE  /\ Len(O'[g][b]) = Taken(g, b)' * T
                      /\ \A i \in 1..Len(O'[g][b]) : O'[g][b][i] \in Source(g, (i - 1) \div T, (i - 1) % T)
    BY <1>1, <1>2, <1>3 DEF ResultInv
  <2>1. CASE b \div 2 = r
    <3>1. Taken(g, b) = s /\ Taken(g, b)' = s + 1
      BY <1>1, <1>2, <2>1 DEF Taken
    <3>2. /\ Len(O[g][b]) = s * T
          /\ \A i \in 1..Len(O[g][b]) : O[g][b][i] \in Source(g, (i - 1) \div T, (i - 1) % T)
      BY <3>1 DEF OwnInv, ResultInv
    <3>3. Len(O_block[g][b]) = T /\ \A i \in 1..T : O_block[g][b][i] \in Source(g, s, i - 1)
      BY <1>1 DEF OwnInv, BlockInv, AllFrom
    <3> HIDE DEF T, s
    <3> DEFINE m == s * T
    <3>4. m \in Nat /\ (s + 1) * T = m + T /\ Len(O[g][b]) = m
      BY <1>5, <3>2
    <3>5. ASSUME NEW j \in Nat, j < T PROVE (m + j) \div T = s /\ (m + j) % T = j
      BY <1>5, <3>5, DivideBack
    <3> HIDE DEF m
    <3>6. /\ O'[g][b] = O[g][b] \o O_block[g][b]
          /\ Len(O'[g][b]) = m + T
          /\ \A i \in 1..(m + T) :
               O'[g][b][i] = IF i <= m THEN O[g][b][i] ELSE O_block[g][b][i - m]
      <4>1. O'[g][b] = O[g][b] \o O_block[g][b]
        BY <1>6, <2>1
      <4>2. O[g][b] \in Seq(Contents) /\ O_block[g][b] \in Seq(Contents)
        BY <1>4
      <4>3. /\ Len(O[g][b] \o O_block[g][b]) = m + T
            /\ \A i \in 1..(m + T) : (O[g][b] \o O_block[g][b])[i]
                 = IF i <= m THEN O[g][b][i] ELSE O_block[g][b][i - m]
        BY <3>3, <3>4, <4>2, Joined
      <4> QED
        BY <4>1, <4>3
    <3>7. ASSUME NEW i \in 1..(m + T) PROVE O'[g][b][i] \in Source(g, (i - 1) \div T, (i - 1) % T)
      <4>1. CASE i <= m
        <5>1. O'[g][b][i] = O[g][b][i]
          BY <3>6, <4>1
        <5>2. i \in 1..m
          BY <1>5, <3>4, <4>1
        <5>3. i \in 1..Len(O[g][b])
          BY <3>4, <5>2
        <5> QED
          BY <3>2, <5>1, <5>3
      <4>2. CASE ~(i <= m)
        <5> DEFINE j == i - m - 1
        <5>1. j \in Nat /\ j < T /\ i - 1 = m + j /\ i - m \in 1..T
          BY <1>5, <3>4, <4>2
        <5> HIDE DEF j
        <5>2. (m + j) \div T = s /\ (m + j) % T = j
          BY <3>5, <5>1
        <5>3. O'[g][b][i] \in Source(g, s, (i - m) - 1)
          BY <3>3, <3>6, <4>2, <5>1
        <5>4. (i - m) - 1 = j
          BY <3>4, <5>1
        <5> QED
          BY <5>1, <5>2, <5>3, <5>4
      <4> QED
        BY <4>1, <4>2
    <3>8. Len(O'[g][b]) = Taken(g, b)' * T
      BY <3>1, <3>4, <3>6
    <3> QED
      BY <3>6, <3>7, <3>8
  <2>2. CASE b \div 2 # r
    <3>1. Taken(g, b)' = Taken(g, b) /\ O'[g][b] = O[g][b]
      BY <1>1, <1>2, <1>6, <2>2 DEF Taken
    <3> QED
      BY <3>1 DEF OwnInv, ResultInv
  <2> QED
    BY <2>1, <2>2
<1>11. ResultTypes'
  BY <1>1, <1>2, <1>6 DEF TypeOK, ResultTypes, Contents
<1> QED
  BY <1>7, <1>8, <1>9, <1>10, <1>11 DEF OwnInv

\* A kernel that ends, and what it has done by then.
LEMMA EndOwn ==
    ASSUME TypeOK, Kept, \A h \in Gpus : KernelInv(h), NEW g \in Gpus, OwnInv(g), Goes(g),
           Op(g) \in {"send", "copy", "stage", "reduce"},
           UNCHANGED <<cfg, epoch, smem, part, O, O_block>>, done[g] = Work(kernel[g])
    PROVE  OwnInv(g)'
<1>1. /\ Tiles' = Tiles /\ Blocks' = Blocks
      /\ Op(g)' = NextOp(g) /\ Stage(g)' = Stage(g) /\ done'[g] = {}
  BY Moved
<1>2. \A x, t : Source(g, x, t) \subseteq Source(g, x, t)'
  BY DEF Kept
<1>3. \A b \in Blocks : /\ Op(g) = "stage" => <<"block", b>> \in done[g]
                        /\ Op(g) = "reduce" => b \div 2 \in done[g]
  <2> SUFFICES ASSUME NEW b \in Blocks
               PROVE  /\ Op(g) = "stage" => <<"block", b>> \in done[g]
                      /\ Op(g) = "reduce" => b \div 2 \in done[g]
    OBVIOUS
  <2>1. Op(g) = "stage" => <<"block", b>> \in done[g]
    BY DEF Work, Op
  <2>2. b \div 2 \in 0..(cfg.reductions - 1)
    <3>1. cfg.reductions \in Nat \ {0} /\ b \in 0..(2 * cfg.reductions - 1)
      BY CfgFacts DEF Blocks
    <3> QED
      BY <3>1
  <2>3. Op(g) = "reduce" => b \div 2 \in done[g]
    BY <2>2 DEF Work, Op
  <2> QED
    BY <2>1, <2>3
<1>4. Op(g)' # "stage" /\ (Op(g)' = "reduce" <=> Op(g) = "stage" /\ Stage(g) # 0)
  BY <1>1 DEF NextOp
<1>5. \A b \in Blocks : Taken(g, b)' = Taken(g, b)
  <2> SUFFICES ASSUME NEW b \in Blocks PROVE Taken(g, b)' = Taken(g, b)
    OBVIOUS
  <2>1. CASE Op(g) \in {"send", "copy"}
    BY <1>1, <2>1 DEF Taken, NextOp
  <2>2. CASE Op(g) = "stage" /\ Stage(g) = 0
    BY <1>1, <1>3, <2>2 DEF Taken, NextOp
  <2>3. CASE Op(g) = "stage" /\ Stage(g) # 0
    BY <1>1, <2>3 DEF Taken, NextOp
  <2>4. CASE Op(g) = "reduce"
    BY <1>1, <1>3, <2>4 DEF Taken, NextOp
  <2> QED
    BY <2>1, <2>2, <2>3, <2>4
<1>6. LoadInv(g)'
  BY <1>4 DEF LoadInv
<1>7. PartInv(g)'
  <2>1. \A b \in Blocks : part[g][b] = <<>> /\ Len(part[g][b]) < cfg.tiles
    BY <1>3 DEF OwnInv, PartInv
  <2>2. Len(<<>>) = 0
    OBVIOUS
  <2>3. \A b \in Blocks : \A i \in 1..Len(part[g][b]) : part[g][b][i] \in Source(g, Stage(g), i - 1)
    BY <2>1, <2>2
  <2> QED
    BY <1>1, <1>2, <2>1, <2>3 DEF PartInv, AllFrom
<1>8. BlockInv(g)'
  BY <1>1, <1>2, <1>3, <1>4 DEF BlockInv, OwnInv, AllFrom
<1>9. ResultInv(g)'
  BY <1>1, <1>2, <1>5 DEF ResultInv, OwnInv
<1> QED
  BY <1>6, <1>7, <1>8, <1>9 DEF OwnInv

\* A barrier that ends: a block has by then read all of the stages before it.
LEMMA MeetOwn ==
    ASSUME TypeOK, Kept, \A h \in Gpus : KernelInv(h), NEW g \in Gpus, OwnInv(g), MeetAll(g), Goes(g)
    PROVE  OwnInv(g)'
<1> DEFINE n == Following(kernel[g])
<1>1. /\ Meets(g) /\ UNCHANGED <<cfg, epoch, smem, part, O, O_block>>
      /\ kernel[g] \in Kernels /\ Launched(kernel[g])
  BY PassedTypes DEF MeetAll, result
<1>2. Op(g) \in {"meet_in", "meet_out"} /\ kernel[g].op = Op(g) /\ kernel[g].stage = Stage(g)
  BY <1>1 DEF Meets, Op, Stage
<1>3. /\ n.op \in {"stage", "copy", "over"} /\ n.stage \in Nat
      /\ Op(g) = "meet_in" => n.op = "stage" /\ n.stage = Stage(g)
      /\ Op(g) = "meet_out" /\ n.op # "over" => n.stage = Stage(g) + 1
      /\ Op(g) = "meet_out" /\ n.op = "over" => Stage(g) + 1 = Stages
  BY <1>1, <1>2, AfterMeeting
<1>4. /\ Tiles' = Tiles /\ Blocks' = Blocks /\ Stages' = Stages
      /\ kernel'[g] = n /\ done'[g] = {} /\ Op(g)' = n.op /\ Stage(g)' = n.stage
  BY <1>1 DEF Goes, Tiles, Blocks, Stages, TypeOK, StreamTypes, Op, Stage
<1> HIDE DEF n
<1>5. \A x, t : Source(g, x, t) \subseteq Source(g, x, t)'
  BY DEF Kept
<1>6. Stage(g) \in Nat
  BY PassedTypes
<1>7. \A b \in Blocks : Taken(g, b)' = Taken(g, b)
  <2> SUFFICES ASSUME NEW b \in Blocks PROVE Taken(g, b)' = Taken(g, b)
    OBVIOUS
  <2>1. CASE Op(g) = "meet_in"
    BY <1>3, <1>4, <1>6, <2>1 DEF Taken
  <2>2. CASE Op(g) = "meet_out"
    BY <1>3, <1>4, <1>6, <2>2 DEF Taken
  <2> QED
    BY <1>2, <2>1, <2>2
<1>8. LoadInv(g)'
  BY <1>4 DEF LoadInv
<1>9. PartInv(g)'
  <2>1. \A b \in Blocks : part[g][b] = <<>> /\ Len(part[g][b]) < cfg.tiles
    BY <1>2 DEF OwnInv, PartInv
  <2>2. Len(<<>>) = 0
    OBVIOUS
  <2>3. \A b \in Blocks : \A i \in 1..Len(part[g][b]) : part[g][b][i] \in Source(g, n.stage, i - 1)
    BY <2>1, <2>2
  <2> QED
    BY <1>1, <1>4, <1>5, <2>1, <2>3 DEF PartInv, AllFrom
<1>10. BlockInv(g)'
  BY <1>3, <1>4 DEF BlockInv
<1>11. ResultInv(g)'
  BY <1>1, <1>4, <1>5, <1>7 DEF ResultInv, OwnInv
<1> QED
  BY <1>8, <1>9, <1>10, <1>11 DEF OwnInv

\* The work of the other GPUs of the node.
LEMMA OtherOwn ==
    ASSUME TypeOK, NEW g \in Gpus, Gpu(g), NEW y \in Gpus, y # g, OwnInv(y)
    PROVE  OwnInv(y)'
<1>1. kernel'[y] = kernel[y] /\ done'[y] = done[y] /\ UNCHANGED <<cfg, epoch>>
  BY StreamEffects DEF Works, Stays, Goes, Signal, MeetAll, TypeOK, StreamTypes
<1>2. smem'[y] = smem[y]
  BY DEF Gpu, SendTile, CopyTile, CommLoad, CommStore, Attend, Reduce, SendEnds, CopyEnds,
         StageEnds, ReduceEnds, Signal, MeetAll, TypeOK, BufferTypes
<1>3. part'[y] = part[y] /\ O'[y] = O[y] /\ O_block'[y] = O_block[y]
  BY DEF Gpu, SendTile, CopyTile, CommLoad, CommStore, Attend, Reduce, SendEnds, CopyEnds,
         StageEnds, ReduceEnds, Signal, MeetAll, TypeOK, ResultTypes, result
<1> QED
  BY <1>1, <1>2, <1>3, SameOwn, GpuKept DEF Private

LEMMA SameArrivals ==
    ASSUME UNCHANGED <<cfg, epoch, recv, arrival_flags>>, \A h \in Gpus : ArrivalInv(h)
    PROVE  Gpus' = Gpus /\ \A h \in Gpus : ArrivalInv(h)'
  BY DEF ArrivalInv, Gpus, Words, Peers, Tiles

LEMMA SameResults ==
    ASSUME TypeOK, UNCHANGED <<cfg, result>>
    PROVE  ResultTypes'
  BY DEF TypeOK, ResultTypes, result, Gpus, Blocks, Contents

-----------------------------------------------------------------------------
\* The steps of a GPU.

\* What a step keeps besides what StreamStep says.
Rest ==
    /\ BufferTypes /\ ResultTypes
    /\ \A y \in Gpus : FillInv(y) /\ StageInv(y) /\ ArrivalInv(y) /\ OwnInv(y)

LEMMA IInvFacts ==
    ASSUME IInv
    PROVE  /\ TypeOK /\ Restored /\ NobodyAhead /\ BarrierInv /\ Rest
           /\ \A h \in Gpus : /\ KernelInv(h) /\ FillInv(h) /\ StageInv(h) /\ ArrivalInv(h)
                              /\ OwnInv(h) /\ LoadInv(h)
  BY DEF IInv, GpuInv, Rest, TypeOK, OwnInv

\* Of what a GPU's step has to keep, that of the other GPUs and of the network is kept by
\* all steps.
LEMMA Together ==
    ASSUME IInv, NEW g \in Gpus, Gpu(g), BufferTypes', ResultTypes', OwnInv(g)',
           \A y \in Gpus : FillInv(y)' /\ StageInv(y)'
    PROVE  Rest'
<1>1. UNCHANGED <<cfg, epoch, recv, arrival_flags>>
  BY GpuKept
<1>2. Gpus' = Gpus /\ \A y \in Gpus : ArrivalInv(y)'
  BY <1>1, IInvFacts, SameArrivals
<1>3. \A y \in Gpus : OwnInv(y)'
  BY IInvFacts, OtherOwn
<1> QED
  BY <1>2, <1>3 DEF Rest

LEMMA SendTileKeeps ==
    ASSUME IInv, NEW g \in Gpus, NEW t \in Tiles, SendTile(g, t)
    PROVE  Rest'
<1>1. /\ Gpu(g) /\ Op(g) = "send" /\ Works(g, t) /\ t \in Work(kernel[g])
      /\ UNCHANGED <<cfg, epoch, kernel, smem, KV, part, O, O_block, recv, arrival_flags>>
  BY DEF Gpu, SendTile, Did, Works, Work, Op, meeting, result
<1>2. OwnInv(g)'
  BY <1>1, GpuKept, IInvFacts, IdleOwn
<1>3. \A y \in Gpus : FillInv(y)' /\ StageInv(y)'
  BY <1>1, GpuKept, IInvFacts, SameBuffers
<1>4. BufferTypes'
  <2>1. posted' \in [Gpus -> SUBSET Words]
    BY DEF SendTile, IInv, TypeOK, BufferTypes, Words
  <2> QED
    BY <1>1, <2>1, IInvFacts DEF TypeOK, BufferTypes, Gpus, Tiles, Words, Peers, Contents
<1>5. ResultTypes'
  BY <1>1, IInvFacts, SameResults DEF result
<1> QED
  BY <1>1, <1>2, <1>3, <1>4, <1>5, Together

LEMMA CopyTileKeeps ==
    ASSUME IInv, NEW g \in Gpus, NEW t \in Tiles, CopyTile(g, t)
    PROVE  Rest'
<1>1. /\ Gpu(g) /\ Op(g) = "copy"
      /\ UNCHANGED <<cfg, epoch, kernel, smem, posted, part, O, O_block, recv, arrival_flags>>
  BY DEF Gpu, CopyTile, result, net
<1>2. OwnInv(g)'
  BY <1>1, GpuKept, IInvFacts, IdleOwn
<1>3. \A y \in Gpus : FillInv(y)' /\ StageInv(y)'
  BY <1>1, GpuKept, IInvFacts, CopyStep
<1>4. BufferTypes'
  <2>1. <<Slot(g), t>> \in Words
    BY <1>1, IInvFacts, SlotOfCopy DEF Words
  <2>2. recv[g][<<Slot(g), t>>] \in Contents
    BY <2>1, IInvFacts DEF TypeOK, BufferTypes
  <2>3. KV' \in [Gpus -> [1..2 -> [Tiles -> Contents]]]
    BY <2>2, IInvFacts DEF TypeOK, BufferTypes, CopyTile
  <2> QED
    BY <1>1, <2>3, IInvFacts DEF TypeOK, BufferTypes, Gpus, Tiles, Words, Peers, Contents
<1>5. ResultTypes'
  BY <1>1, IInvFacts, SameResults DEF result
<1> QED
  BY <1>1, <1>2, <1>3, <1>4, <1>5, Together

LEMMA CommLoadKeeps ==
    ASSUME IInv, NEW g \in Gpus, NEW t \in Tiles, CommLoad(g, t)
    PROVE  Rest'
<1>1. /\ Gpu(g) /\ Op(g) = "stage" /\ Works(g, <<"loaded", t>>)
      /\ <<"loaded", t>> \in Work(kernel[g])
      /\ UNCHANGED <<cfg, epoch, kernel, KV, posted, part, O, O_block, recv, arrival_flags>>
  BY DEF Gpu, CommLoad, Did, Works, Work, Op, meeting, result, net
<1>2. OwnInv(g)'
  BY <1>1, GpuKept, IInvFacts, TileOwn
<1>3. \A y \in Gpus : FillInv(y)' /\ StageInv(y)'
  <2>1. <<"loaded", t>> \notin {"stored"} \X Tiles
    OBVIOUS
  <2> QED
    BY <1>1, <2>1, GpuKept, IInvFacts, SameBuffers
<1>4. BufferTypes'
  <2>1. KV[g][Here(g)][t] \in Contents
    <3>1. Here(g) \in 1..2 /\ KV \in [Gpus -> [1..2 -> [Tiles -> Contents]]]
      BY IInvFacts, Sides DEF TypeOK, BufferTypes
    <3> QED
      BY <3>1
  <2>2. smem' \in [Gpus -> [Tiles -> Contents]]
    BY <2>1, IInvFacts DEF TypeOK, BufferTypes, CommLoad
  <2> QED
    BY <1>1, <2>2, IInvFacts DEF TypeOK, BufferTypes, Gpus, Tiles, Words, Peers, Contents
<1>5. ResultTypes'
  BY <1>1, IInvFacts, SameResults DEF result
<1> QED
  BY <1>1, <1>2, <1>3, <1>4, <1>5, Together

LEMMA CommStoreKeeps ==
    ASSUME IInv, NEW g \in Gpus, NEW t \in Tiles, CommStore(g, t)
    PROVE  Rest'
<1>1. /\ Gpu(g)
      /\ UNCHANGED <<cfg, epoch, kernel, smem, posted, part, O, O_block, recv, arrival_flags>>
  BY DEF Gpu, CommStore, result, net
<1>2. OwnInv(g)'
  BY <1>1, GpuKept, IInvFacts, TileOwn
<1>3. \A y \in Gpus : FillInv(y)' /\ StageInv(y)'
  BY <1>1, GpuKept, IInvFacts, StoreStep
<1>4. BufferTypes'
  <2>1. smem[g][t] \in Contents /\ NextGpu(g) \in Gpus /\ There(g) \in 1..2
    BY IInvFacts, RingShape, Sides DEF TypeOK, BufferTypes
  <2>2. KV' \in [Gpus -> [1..2 -> [Tiles -> Contents]]]
    BY <2>1, IInvFacts DEF TypeOK, BufferTypes, CommStore
  <2> QED
    BY <1>1, <2>2, IInvFacts DEF TypeOK, BufferTypes, Gpus, Tiles, Words, Peers, Contents
<1>5. ResultTypes'
  BY <1>1, IInvFacts, SameResults DEF result
<1> QED
  BY <1>1, <1>2, <1>3, <1>4, <1>5, Together

LEMMA SameTables ==
    ASSUME TypeOK, UNCHANGED <<cfg, smem, KV, net>>
    PROVE  BufferTypes'
  BY DEF TypeOK, BufferTypes, net, Gpus, Tiles, Words, Peers, Contents

LEMMA AttendKeeps ==
    ASSUME IInv, NEW g \in Gpus, NEW b \in Blocks, Attend(g, b)
    PROVE  Rest'
<1>1. /\ Gpu(g) /\ Op(g) = "stage" /\ UNCHANGED <<cfg, epoch, kernel, smem, KV, net>>
      /\ (UNCHANGED done \/ Works(g, <<"block", b>>)) /\ <<"block", b>> \in Work(kernel[g])
  BY DEF Gpu, Attend, Did, Works, Work, Op, meeting
<1>2. OwnInv(g)' /\ ResultTypes'
  BY <1>1, GpuKept, IInvFacts, AttendOwn
<1>3. \A y \in Gpus : FillInv(y)' /\ StageInv(y)'
  <2>1. <<"block", b>> \notin {"stored"} \X Tiles
    OBVIOUS
  <2> QED
    BY <1>1, <2>1, GpuKept, IInvFacts, SameBuffers
<1>4. BufferTypes'
  BY <1>1, IInvFacts, SameTables
<1> QED
  BY <1>1, <1>2, <1>3, <1>4, Together

LEMMA ReduceKeeps ==
    ASSUME IInv, NEW g \in Gpus, NEW r \in 0..(cfg.reductions - 1), Reduce(g, r)
    PROVE  Rest'
<1>1. /\ Gpu(g) /\ Op(g) = "reduce" /\ UNCHANGED <<cfg, epoch, kernel, smem, KV, net>>
      /\ Works(g, r) /\ r \in Work(kernel[g])
  BY DEF Gpu, Reduce, Did, Works, Work, Op, meeting
<1>2. OwnInv(g)' /\ ResultTypes'
  BY <1>1, GpuKept, IInvFacts, ReduceOwn
<1>3. \A y \in Gpus : FillInv(y)' /\ StageInv(y)'
  BY <1>1, GpuKept, IInvFacts, SameBuffers
<1>4. BufferTypes'
  BY <1>1, IInvFacts, SameTables
<1> QED
  BY <1>1, <1>2, <1>3, <1>4, Together

LEMMA EndsKeep ==
    ASSUME IInv, NEW g \in Gpus, SendEnds(g) \/ CopyEnds(g) \/ StageEnds(g) \/ ReduceEnds(g)
    PROVE  Rest'
<1>1. /\ Gpu(g) /\ Goes(g) /\ Op(g) \in {"send", "copy", "stage", "reduce"}
      /\ done[g] = Work(kernel[g]) /\ UNCHANGED <<cfg, epoch, smem, KV, result, net>>
  BY DEF Gpu, SendEnds, CopyEnds, StageEnds, ReduceEnds, KernelEnds, Goes, Work, Op
<1>2. OwnInv(g)'
  BY <1>1, GpuKept, IInvFacts, EndOwn DEF result
<1>3. \A y \in Gpus : FillInv(y)' /\ StageInv(y)'
  BY <1>1, GpuKept, IInvFacts, EndStep
<1>4. BufferTypes' /\ ResultTypes'
  BY <1>1, IInvFacts, SameTables, SameResults
<1> QED
  BY <1>1, <1>2, <1>3, <1>4, Together

LEMMA SignalKeeps ==
    ASSUME IInv, NEW g \in Gpus, Signal(g)
    PROVE  Rest'
<1>1. /\ Gpu(g) /\ Op(g) \in {"meet_in", "meet_out"}
      /\ UNCHANGED <<cfg, epoch, kernel, done, smem, KV, result, net>>
  BY DEF Gpu, Signal, Meets
<1>2. OwnInv(g)'
  BY <1>1, GpuKept, IInvFacts, IdleOwn DEF result
<1>3. \A y \in Gpus : FillInv(y)' /\ StageInv(y)'
  BY <1>1, GpuKept, IInvFacts, SameBuffers
<1>4. BufferTypes' /\ ResultTypes'
  BY <1>1, IInvFacts, SameTables, SameResults
<1> QED
  BY <1>1, <1>2, <1>3, <1>4, Together

LEMMA MeetKeeps ==
    ASSUME IInv, NEW g \in Gpus, MeetAll(g), Goes(g)
    PROVE  Rest'
<1>1. Gpu(g) /\ UNCHANGED <<cfg, smem, KV, result, net>>
  BY DEF Gpu, MeetAll
<1>2. OwnInv(g)'
  BY <1>1, GpuKept, IInvFacts, MeetOwn
<1>3. \A y \in Gpus : FillInv(y)' /\ StageInv(y)'
  BY <1>1, GpuKept, IInvFacts, MeetBuffers
<1>4. BufferTypes' /\ ResultTypes'
  BY <1>1, IInvFacts, SameTables, SameResults
<1> QED
  BY <1>1, <1>2, <1>3, <1>4, Together

LEMMA GpuKeeps ==
    ASSUME IInv, NEW g \in Gpus, Gpu(g)
    PROVE  IInv'
<1>1. StreamTypes' /\ (\A h \in Gpus : KernelInv(h)') /\ NobodyAhead' /\ BarrierInv'
  BY IInvFacts, StreamStep
<1>2. Gpus' = Gpus
  BY IInvFacts, StreamEffects DEF Works, Stays, Goes, Signal, MeetAll, Gpus
<1>3. MeetAll(g) => Goes(g)
  BY IInvFacts, MeetingGoes
<1>4. Rest'
  BY <1>3, SendTileKeeps, CopyTileKeeps, CommLoadKeeps, CommStoreKeeps, AttendKeeps, ReduceKeeps,
     EndsKeep, SignalKeeps, MeetKeeps DEF Gpu
<1>5. Restored'
  BY <1>2, IInvFacts, GpuKept DEF Restored
<1> QED
  BY <1>1, <1>2, <1>4, <1>5 DEF IInv, TypeOK, GpuInv, Rest

-----------------------------------------------------------------------------
\* The NIC and the other nodes.

LEMMA NicKeeps ==
    ASSUME IInv, NEW g \in Gpus, NEW w \in Words, NicReads(g, w)
    PROVE  BufferTypes' /\ Kept /\ \A h \in Gpus : ArrivalInv(h)'
<1>1. UNCHANGED <<cfg, epoch, smem, KV, recv, arrival_flags>>
  BY DEF NicReads
<1>2. posted' \in [Gpus -> SUBSET Words]
  BY IInvFacts DEF TypeOK, BufferTypes, NicReads
<1>3. BufferTypes'
  BY <1>1, <1>2, IInvFacts DEF TypeOK, BufferTypes, Gpus, Tiles, Words, Peers, Contents
<1> QED
  BY <1>1, <1>3, IInvFacts, SameArrivals, SameKept

\* A tile from another node, in front of its flag.
LEMMA PeerKeeps ==
    ASSUME IInv, NEW g \in Gpus, NEW w \in Words, PeerWrites(g, w)
    PROVE  BufferTypes' /\ Kept /\ \A h \in Gpus : ArrivalInv(h)'
<1>0. PICK x \in {<<w[1] + 1, g>>} \cup cfg.late :
        recv' = [recv EXCEPT ![g][w] = Tile(x[1], x[2], epoch)]
  BY DEF PeerWrites, PeerSends
<1> DEFINE new == Tile(x[1], x[2], epoch)
<1>1. /\ UNCHANGED <<cfg, epoch, smem, KV, posted>>
      /\ recv' = [recv EXCEPT ![g][w] = new]
      /\ arrival_flags' = [arrival_flags EXCEPT ![g][w] = epoch] /\ ~Arrived(g, w)
  BY <1>0 DEF PeerWrites, PeerSends, Arrived
<1>2. new \in Contents /\ new.epoch = epoch /\ epoch \in Nat
  <2>1. w[1] \in Peers /\ g \in Nat /\ epoch \in Nat
    BY IInvFacts, CfgFacts DEF Words, Gpus, TypeOK, StreamTypes
  <2>2. w[1] + 1 \in Nat
    BY <2>1, IInvFacts, CfgFacts DEF Peers
  <2>3. cfg.late \subseteq Nat \X Nat
    BY IInvFacts, RingAssumption DEF TypeOK, StreamTypes
  <2>4. x[1] \in Nat /\ x[2] \in Nat
    BY <2>1, <2>2, <2>3
  <2> QED
    BY <2>1, <2>4 DEF Contents, Tile
<1>3. recv \in [Gpus -> [Words -> Contents]] /\ arrival_flags \in [Gpus -> [Words -> Nat]]
  BY IInvFacts DEF TypeOK, BufferTypes
<1>4. /\ recv' \in [Gpus -> [Words -> Contents]]
      /\ \A h \in Gpus : \A v \in Words : recv'[h][v] = IF h = g /\ v = w THEN new ELSE recv[h][v]
  <2> HIDE DEF new
  <2> QED
    BY <1>1, <1>2, <1>3, OneEntry
<1>5. /\ arrival_flags' \in [Gpus -> [Words -> Nat]]
      /\ \A h \in Gpus : \A v \in Words :
           arrival_flags'[h][v] = IF h = g /\ v = w THEN epoch ELSE arrival_flags[h][v]
  BY <1>1, <1>2, <1>3, OneEntry
<1>6. Gpus' = Gpus /\ Words' = Words /\ Tiles' = Tiles
  BY <1>1 DEF Gpus, Words, Peers, Tiles
<1>7. BufferTypes'
  BY <1>1, <1>4, <1>5, <1>6, IInvFacts DEF TypeOK, BufferTypes, Contents
<1>8. \A h \in Gpus : ArrivalInv(h)'
  <2> SUFFICES ASSUME NEW h \in Gpus, NEW v \in Words
               PROVE  /\ arrival_flags'[h][v] <= epoch
                      /\ arrival_flags'[h][v] = epoch
                           => recv'[h][v].epoch = epoch
    BY <1>1, <1>6 DEF ArrivalInv
  <2>1. CASE h = g /\ v = w
    BY <1>2, <1>4, <1>5, <2>1
  <2>2. CASE ~(h = g /\ v = w)
    BY <1>4, <1>5, <2>2, IInvFacts DEF ArrivalInv
  <2> QED
    BY <2>1, <2>2
<1>9. ASSUME NEW n, NEW d, NEW t PROVE Brought(n, d, t) \subseteq Brought(n, d, t)'
  <2>1. ASSUME NEW v \in Words, d \in Gpus, Arrived(d, v)
        PROVE  Arrived(d, v)' /\ recv'[d][v] = recv[d][v]
    <3>1. ~(d = g /\ v = w)
      BY <1>1, <2>1
    <3> QED
      BY <1>1, <1>4, <1>5, <2>1, <3>1 DEF Arrived
  <2> QED
    BY <1>1, <1>6, <2>1 DEF Brought, Own, Tile
<1>10. ASSUME NEW h, NEW s, NEW t PROVE Source(h, s, t) \subseteq Source(h, s, t)'
  <2>1. Back(h, s % cfg.devices)' = Back(h, s % cfg.devices) /\ cfg' = cfg
    BY <1>1 DEF Back
  <2>2. Source(h, s, t)' = Brought(s \div cfg.devices, Back(h, s % cfg.devices), t)'
    BY DEF Source
  <2>3. ASSUME NEW n, NEW d, n = s \div cfg.devices, d = Back(h, s % cfg.devices)
        PROVE  Source(h, s, t) = Brought(n, d, t) /\ Source(h, s, t)' = Brought(n, d, t)'
    BY <2>1, <2>3 DEF Source, Brought, Arrived
  <2> QED
    BY <1>9, <2>3
<1> QED
  BY <1>7, <1>8, <1>10 DEF Kept

LEMMA OutsideKeeps ==
    ASSUME IInv, NEW g \in Gpus, Outside(g)
    PROVE  IInv'
<1>1. PICK w \in Words : NicReads(g, w) \/ PeerWrites(g, w)
  BY DEF Outside, Words
<1>2. Stays /\ UNCHANGED <<launch, smem, KV, part, O, O_block>>
  BY <1>1 DEF NicReads, PeerWrites, PeerSends, Stays, meeting, result
<1>3. BufferTypes' /\ Kept /\ \A h \in Gpus : ArrivalInv(h)'
  BY <1>1, NicKeeps, PeerKeeps
<1>4. Gpus' = Gpus /\ Restored' /\ \A h \in Gpus : Passed(h)' = Passed(h)
  <2>1. Gpus' = Gpus /\ \A h \in Gpus : Passed(h)' = Passed(h)
    BY <1>2, <1>3, Unmoved DEF Stays
  <2> QED
    BY <1>2, <2>1, IInvFacts DEF Restored, Stays
<1>5. StreamTypes' /\ NobodyAhead' /\ BarrierInv'
  BY <1>2, <1>4, IInvFacts, SameStreams, SameBarriers DEF Stays
<1>6. \A h \in Gpus : KernelInv(h)'
  BY <1>2, IInvFacts DEF Stays, KernelInv, Launched, Stages, Meets, Op
<1>7. \A h \in Gpus : FillInv(h)' /\ StageInv(h)'
  BY <1>2, <1>3, IInvFacts, SameBuffers DEF Stays
<1>8. \A h \in Gpus : OwnInv(h)'
  BY <1>2, <1>3, IInvFacts, SameOwn DEF Stays, Private
<1>9. ResultTypes'
  BY <1>2, IInvFacts, SameResults DEF Stays, result
<1> QED
  BY <1>4, <1>5, <1>6, <1>7, <1>8, <1>3, <1>9 DEF IInv, TypeOK, GpuInv

-----------------------------------------------------------------------------
\* The beginning of a launch.

\* Every launch has its own epoch.
SyncedLoops == \A c \in Configs : c.launches = 1

Fresh ==
    /\ TypeOK /\ Restored
    /\ \A g \in Gpus :
         /\ kernel[g] = First /\ done[g] = {} /\ ~met[g] /\ barrier[g] = 0
         /\ \A t \in Tiles : KV[g][1][t] = Own(g, epoch)
         /\ \A b \in Blocks : part[g][b] = <<>> /\ O[g][b] = <<>>
         /\ ArrivalInv(g)

LEMMA FreshHolds == Fresh => IInv
<1> SUFFICES ASSUME Fresh PROVE IInv
  OBVIOUS
<1>1. /\ TypeOK /\ cfg.devices \in Nat \ {0} /\ cfg.tiles \in Nat \ {0}
      /\ Stages \in Nat /\ Stages > 0
  <2>1. TypeOK
    BY DEF Fresh
  <2>2. /\ cfg.devices \in Nat \ {0} /\ cfg.nodes \in Nat \ {0} /\ cfg.tiles \in Nat \ {0}
        /\ Stages = cfg.nodes * cfg.devices
    BY <2>1, CfgFacts
  <2>3. cfg.nodes * cfg.devices \in Nat /\ cfg.nodes * cfg.devices > 0
    BY <2>2
  <2> QED
    BY <2>1, <2>2, <2>3
<1>2. \A g \in Gpus : Op(g) = "send" /\ Stage(g) = 0 /\ done[g] = {} /\ ~met[g]
  BY DEF Fresh, Op, Stage, First, Kernel
<1>3. 0 % cfg.devices = 0 /\ 0 \div cfg.devices = 0
  BY <1>1
<1>4. \A g \in Gpus : Passed(g) = 0 /\ Signalled(g) = 0
  BY <1>2, <1>3 DEF Passed, Before, Signalled, Attending, Op, Stage
<1>5. NobodyAhead
  BY <1>4 DEF NobodyAhead
<1>6. BarrierInv
  <2> SUFFICES ASSUME NEW h \in Gpus
               PROVE  barrier[h] = Cardinality(At(h, 1)) + Cardinality(At(h, 2))
    BY DEF BarrierInv
  <2>1. At(h, 1) = {} /\ At(h, 2) = {}
    BY <1>4 DEF At
  <2>2. barrier[h] = 0 /\ Cardinality({}) = 0
    BY FS_EmptySet DEF Fresh
  <2> QED
    BY <2>1, <2>2
<1>7. ASSUME NEW g \in Gpus PROVE GpuInv(g)
  <2>1. KernelInv(g)
    BY <1>1, <1>2, <1>3 DEF KernelInv, Launched, Op, Stage
  <2>2. FillInv(g)
    <3> SUFFICES ASSUME NEW h \in Gpus, NEW t \in Tiles PROVE KV[h][1][t] \in Source(h, Stage(g), t)
      BY DEF FillInv
    <3>1. Source(h, 0, t) = {Own(h, epoch)}
      BY <1>1, <1>3, SourceOfRound DEF Brought
    <3> QED
      BY <1>2, <3>1 DEF Fresh
  <2>3. StageInv(g) /\ LoadInv(g) /\ BlockInv(g)
    BY <1>2 DEF StageInv, LoadInv, BlockInv, Attending
  <2>4. ArrivalInv(g)
    BY DEF Fresh
  <2>5. Len(<<>>) = 0
    OBVIOUS
  <2>6. PartInv(g)
    <3>1. \A b \in Blocks : part[g][b] = <<>>
      BY DEF Fresh
    <3> QED
      BY <1>1, <2>5, <3>1 DEF PartInv, AllFrom
  <2>7. ResultInv(g)
    <3>1. \A b \in Blocks : O[g][b] = <<>> /\ Taken(g, b) = 0
      BY <1>2 DEF Fresh, Taken
    <3>2. 0 * cfg.tiles = 0
      BY <1>1
    <3> QED
      BY <2>5, <3>1, <3>2 DEF ResultInv
  <2> QED
    BY <2>1, <2>2, <2>3, <2>4, <2>6, <2>7 DEF GpuInv, OwnInv
<1> QED
  BY <1>1, <1>5, <1>6, <1>7 DEF IInv, Fresh

\* What the host puts into the buffers.
LEMMA LoadedTypes ==
    ASSUME cfg \in Configs, NEW e \in Nat
    PROVE  /\ Loaded(e) \in [Gpus -> [1..2 -> [Tiles -> Contents]]]
           /\ \A g \in Gpus : \A t \in Tiles : Loaded(e)[g][1][t] = Own(g, e)
           /\ Empty \in [Gpus -> [Blocks -> Seq(Contents)]]
           /\ [g \in Gpus |-> First] \in [Gpus -> Kernels]
<1>1. Zero \in Contents /\ \A g \in Gpus : Own(g, e) \in Contents
  BY DEF Zero, Own, Tile, Contents, Gpus
<1>2. ASSUME NEW g \in Gpus
      PROVE  <<[t \in Tiles |-> Own(g, e)], [t \in Tiles |-> Zero]>> \in [1..2 -> [Tiles -> Contents]]
  <2> DEFINE a == [t \in Tiles |-> Own(g, e)]
             b == [t \in Tiles |-> Zero]
  <2>1. a \in [Tiles -> Contents] /\ b \in [Tiles -> Contents]
    BY <1>1
  <2> HIDE DEF a, b
  <2>2. <<a, b>> \in [1..2 -> [Tiles -> Contents]]
    BY <2>1
  <2> QED
    BY <2>2 DEF a, b
<1>3. Loaded(e) \in [Gpus -> [1..2 -> [Tiles -> Contents]]]
  BY <1>2 DEF Loaded
<1>4. \A g \in Gpus : \A t \in Tiles : Loaded(e)[g][1][t] = Own(g, e)
  BY DEF Loaded
<1>5. Empty \in [Gpus -> [Blocks -> Seq(Contents)]]
  BY DEF Empty
<1>6. [g \in Gpus |-> First] \in [Gpus -> Kernels]
  BY DEF First, Kernel, Kernels
<1> QED
  BY <1>3, <1>4, <1>5, <1>6

LEMMA InitFresh ==
    ASSUME SyncedLoops, Init
    PROVE  Fresh
<1>1. /\ cfg \in Configs /\ epoch = 1 /\ KV = Loaded(1) /\ part = Empty /\ O = Empty
      /\ O_block = Empty
  BY DEF Init
<1>2. Zero \in Contents
  BY DEF Zero, Contents
<1>3. StreamTypes
  BY LoadedTypes, <1>1 DEF Init, StreamTypes
<1>4. BufferTypes
  BY LoadedTypes, <1>1, <1>2 DEF Init, BufferTypes, Words
<1>5. ResultTypes
  BY LoadedTypes, <1>1 DEF ResultTypes
<1>6. ASSUME NEW g \in Gpus
      PROVE  /\ kernel[g] = First /\ done[g] = {} /\ ~met[g] /\ barrier[g] = 0
             /\ \A w \in Words : arrival_flags[g][w] = 0
             /\ \A b \in Blocks : part[g][b] = <<>> /\ O[g][b] = <<>>
  BY DEF Init, Words, Empty
<1>7. \A g \in Gpus : ArrivalInv(g)
  BY <1>1, <1>6 DEF ArrivalInv
<1>8. \A g \in Gpus : \A t \in Tiles : KV[g][1][t] = Own(g, epoch)
  BY <1>1, LoadedTypes
<1>9. Restored
  BY <1>1 DEF SyncedLoops, Restored, Init
<1> QED
  BY <1>3, <1>4, <1>5, <1>6, <1>7, <1>8, <1>9 DEF Fresh, TypeOK

\* The next launch begins where all GPUs were through with the last one.
LEMMA RelaunchFresh ==
    ASSUME IInv, Relaunch
    PROVE  Fresh'
<1>1. /\ TypeOK /\ epoch \in Nat /\ epoch' = epoch + 1 /\ epoch' \in Nat /\ cfg \in Configs
      /\ UNCHANGED <<cfg, done, smem, part, posted, recv, arrival_flags, met>>
      /\ kernel' = [g \in Gpus |-> First] /\ KV' = Loaded(epoch + 1)
      /\ O' = Empty /\ O_block' = Empty /\ barrier' = [g \in Gpus |-> 0]
  BY IInvFacts DEF Relaunch, TypeOK, StreamTypes, net
<1>2. /\ Gpus' = Gpus /\ Tiles' = Tiles /\ Blocks' = Blocks /\ Words' = Words
      /\ Kernels' = Kernels /\ Contents' = Contents
  BY <1>1 DEF Gpus, Tiles, Blocks, Words, Peers, Kernels, Contents
<1>3. ASSUME NEW g \in Gpus
      PROVE  /\ done[g] = {} /\ ~met[g]
             /\ \A b \in Blocks : part[g][b] = <<>>
             /\ \A w \in Words : arrival_flags[g][w] \in Nat /\ arrival_flags[g][w] <= epoch
  <2>1. Op(g) = "over"
    BY DEF Relaunch, Through, Over
  <2>2. done[g] = {}
    <3>1. done[g] \subseteq Work(kernel[g])
      BY <1>1 DEF TypeOK, StreamTypes
    <3> QED
      BY <2>1, <3>1 DEF Work, Op
  <2>3. ~met[g]
    BY <2>1, IInvFacts DEF KernelInv, Meets
  <2>4. \A b \in Blocks : part[g][b] = <<>>
    BY <2>1, IInvFacts DEF OwnInv, PartInv
  <2>5. \A w \in Words : arrival_flags[g][w] \in Nat /\ arrival_flags[g][w] <= epoch
    BY <1>1, IInvFacts DEF ArrivalInv, TypeOK, BufferTypes
  <2> QED
    BY <2>2, <2>3, <2>4, <2>5
<1>4. StreamTypes'
  <2>1. done' = [g \in Gpus |-> done'[g]] /\ met' \in [Gpus -> BOOLEAN]
    BY <1>1 DEF TypeOK, StreamTypes
  <2>2. kernel' \in [Gpus -> Kernels] /\ barrier' \in [Gpus -> Int]
    BY <1>1, LoadedTypes
  <2>3. \A g \in Gpus : done'[g] = {}
    BY <1>1, <1>3
  <2> QED
    BY <1>1, <1>2, <2>1, <2>2, <2>3 DEF StreamTypes
<1>5. BufferTypes'
  <2>1. KV' \in [Gpus -> [1..2 -> [Tiles -> Contents]]]
    BY <1>1, LoadedTypes
  <2> QED
    BY <1>1, <1>2, <2>1 DEF TypeOK, BufferTypes
<1>6. ResultTypes'
  <2>1. Empty \in [Gpus -> [Blocks -> Seq(Contents)]]
    BY <1>1, LoadedTypes
  <2> QED
    BY <1>1, <1>2, <2>1 DEF TypeOK, ResultTypes
<1>7. ASSUME NEW g \in Gpus
      PROVE  /\ kernel'[g] = First /\ done'[g] = {} /\ ~met'[g] /\ barrier'[g] = 0
             /\ \A t \in Tiles : KV'[g][1][t] = Own(g, epoch')
             /\ \A b \in Blocks : part'[g][b] = <<>> /\ O'[g][b] = <<>>
             /\ ArrivalInv(g)'
  <2>1. kernel'[g] = First /\ done'[g] = {} /\ ~met'[g] /\ barrier'[g] = 0
    BY <1>1, <1>3
  <2>2. \A t \in Tiles : KV'[g][1][t] = Own(g, epoch')
    BY <1>1, LoadedTypes
  <2>3. \A b \in Blocks : part'[g][b] = <<>> /\ O'[g][b] = <<>>
    BY <1>1, <1>3 DEF Empty
  <2>4. ArrivalInv(g)'
    BY <1>1, <1>2, <1>3 DEF ArrivalInv
  <2> QED
    BY <2>1, <2>2, <2>3, <2>4
<1>8. Own(1, epoch)' = Own(1, epoch') /\ First' = First
  BY DEF Own, Tile, First, Kernel
<1> QED
  <2>1. \A g \in Gpus : /\ (kernel[g] = First)' /\ (done[g] = {})' /\ (~met[g])' /\ (barrier[g] = 0)'
                        /\ \A t \in Tiles : (KV[g][1][t] = Own(g, epoch))'
                        /\ \A b \in Blocks : (part[g][b] = <<>> /\ O[g][b] = <<>>)'
                        /\ ArrivalInv(g)'
    BY <1>7 DEF Own, Tile, First, Kernel
  <2>2. Restored'
    BY <1>1, <1>2, IInvFacts DEF Restored, Relaunch
  <2> QED
    BY <1>2, <1>4, <1>5, <1>6, <2>1, <2>2 DEF Fresh, TypeOK

-----------------------------------------------------------------------------
\* The theorems.

\* Wherever its GPUs are in a launch, the buffers, barriers and results of the node are
\* what the next kernels rely on, whatever its peers send.
THEOREM Inductive ==
    ASSUME SyncedLoops
    PROVE  Spec => []IInv
<1>1. Init => IInv
  BY InitFresh, FreshHolds
<1>2. IInv /\ [Next]_vars => IInv'
  <2> SUFFICES ASSUME IInv, [Next]_vars PROVE IInv'
    OBVIOUS
  <2>1. ASSUME NEW g \in Gpus, Gpu(g) PROVE IInv'
    BY <2>1, GpuKeeps
  <2>2. ASSUME NEW g \in Gpus, Outside(g) PROVE IInv'
    BY <2>2, OutsideKeeps
  <2>3. CASE Relaunch
    <3>1. Fresh'
      BY <2>3, RelaunchFresh
    <3>2. Fresh' => IInv'
      BY FreshHolds, PTL
    <3> QED
      BY <3>1, <3>2
  <2>4. ASSUME UNCHANGED vars PROVE IInv'
    <3>0. Stays /\ UNCHANGED <<launch, smem, KV, part, O, O_block, net>>
      BY <2>4 DEF vars, Stays, meeting, result
    <3>1. Stays /\ Kept /\ UNCHANGED <<smem, KV, part, O, O_block, net>>
      BY <3>0, SameKept DEF Stays, net
    <3>2. Gpus' = Gpus /\ \A h \in Gpus : Passed(h)' = Passed(h)
      BY <3>1, Unmoved DEF Stays
    <3>8. Restored'
      BY <3>0, <3>2, IInvFacts DEF Restored, Stays
    <3>3. StreamTypes' /\ NobodyAhead' /\ BarrierInv'
      BY <3>1, <3>2, IInvFacts, SameStreams, SameBarriers DEF Stays
    <3>4. \A h \in Gpus : KernelInv(h)'
      BY <3>1, IInvFacts DEF Stays, KernelInv, Launched, Stages, Meets, Op
    <3>5. \A h \in Gpus : FillInv(h)' /\ StageInv(h)'
      BY <3>1, IInvFacts, SameBuffers DEF Stays
    <3>6. \A h \in Gpus : OwnInv(h)'
      BY <3>1, IInvFacts, SameOwn DEF Stays, Private
    <3>7. BufferTypes' /\ ResultTypes' /\ \A h \in Gpus : ArrivalInv(h)'
      BY <3>1, IInvFacts, SameTables, SameResults, SameArrivals DEF Stays, net, result
    <3> QED
      BY <3>2, <3>3, <3>4, <3>5, <3>6, <3>7, <3>8 DEF IInv, TypeOK, GpuInv
  <2>5. ASSUME NEW g \in Gpus PROVE ~LaunchAgain(g) /\ \A w : ~PeerWritesAgain(g, w)
    BY IInvFacts DEF Restored, LaunchAgain, PeerWritesAgain
  <2> QED
    BY <2>1, <2>2, <2>3, <2>4, <2>5 DEF Next, Progress, Finished
<1> QED
  BY <1>1, <1>2, PTL DEF Spec

\* Every buffer, flag, command and result has a value of its kind.
THEOREM TypeCorrect ==
    ASSUME SyncedLoops
    PROVE  Spec => [](TypeOK /\ launch \in [Gpus -> Nat])
<1>1. IInv => TypeOK /\ launch \in [Gpus -> Nat]
  BY DEF IInv, Restored
<1> QED
  BY <1>1, Inductive, PTL

\* The places of a block's result and the tiles of all GPUs of all nodes, one for one.
Cells == (0..(cfg.nodes - 1)) \X Gpus \X Tiles
StageOf(i) == (i - 1) \div cfg.tiles
Cell(g, i) ==
    <<StageOf(i) \div cfg.devices, Back(g, StageOf(i) % cfg.devices), (i - 1) % cfg.tiles>>

\* Division, for a number below a product.
LEMMA Splits ==
    ASSUME NEW T \in Nat \ {0}, NEW S \in Nat, NEW a \in Nat, a < S * T
    PROVE  /\ a \div T \in 0..(S - 1) /\ a % T \in 0..(T - 1)
           /\ a = (a \div T) * T + (a % T)
<1> DEFINE q == a \div T
           r == a % T
<1>1. q \in Nat /\ r \in Nat /\ r < T /\ a = q * T + r
  BY Divides
<1> HIDE DEF q, r
<1>2. q < S
  <2> SUFFICES ASSUME q >= S PROVE FALSE
    BY <1>1
  <2> DEFINE e == q - S
  <2>1. e \in Nat /\ q = S + e
    BY <1>1
  <2> HIDE DEF e
  <2>2. (S + e) * T = S * T + e * T /\ e * T \in Nat /\ S * T \in Nat
    BY <2>1
  <2> QED
    BY <1>1, <2>1, <2>2
<1>3. q \in 0..(S - 1) /\ r \in 0..(T - 1)
  BY <1>1, <1>2
<1> QED
  BY <1>1, <1>3 DEF q, r

\* ... and back.
LEMMA Combines ==
    ASSUME NEW T \in Nat \ {0}, NEW S \in Nat, NEW q \in 0..(S - 1), NEW r \in 0..(T - 1)
    PROVE  /\ q * T + r \in Nat /\ q * T + r < S * T
           /\ (q * T + r) \div T = q /\ (q * T + r) % T = r
<1>1. q \in Nat /\ r \in Nat /\ r < T /\ q < S
  OBVIOUS
<1> DEFINE e == S - q - 1
<1>2. e \in Nat /\ S = q + 1 + e
  BY <1>1
<1> HIDE DEF e
<1>3. (q + 1 + e) * T = q * T + T + e * T /\ e * T \in Nat /\ q * T \in Nat
  BY <1>1, <1>2
<1>4. q * T + r \in Nat /\ q * T + r < S * T
  BY <1>1, <1>2, <1>3
<1> QED
  BY <1>1, <1>4, DivideBack

\* Going back round the ring, every GPU is met once.
LEMMA BackOnce ==
    ASSUME TypeOK, NEW g \in Gpus
    PROVE  /\ \A j \in 0..(cfg.devices - 1) : Back(g, j) \in Gpus /\ Back(g, Back(g, j)) = j
           /\ \A d \in Gpus : Back(g, d) \in 0..(cfg.devices - 1)
<1> DEFINE D == cfg.devices
<1>1. D \in Nat \ {0} /\ g \in 0..(D - 1) /\ Gpus = 0..(D - 1)
  BY CfgFacts DEF Gpus
<1> HIDE DEF D
<1> QED
  BY <1>1 DEF Back, D

LEMMA CellOfPlace ==
    ASSUME TypeOK, NEW g \in Gpus, NEW i \in 1..(Stages * cfg.tiles)
    PROVE  /\ Cell(g, i) \in Cells /\ i - 1 \in Nat
           /\ StageOf(i) \in Nat /\ StageOf(i) < Stages /\ (i - 1) % cfg.tiles \in Tiles
           /\ i - 1 = StageOf(i) * cfg.tiles + ((i - 1) % cfg.tiles)
           /\ StageOf(i) % cfg.devices \in 0..(cfg.devices - 1)
           /\ StageOf(i) = (StageOf(i) \div cfg.devices) * cfg.devices + (StageOf(i) % cfg.devices)
<1> DEFINE D == cfg.devices
           T == cfg.tiles
           N == cfg.nodes
           m == Stages * T
<1>1. /\ D \in Nat \ {0} /\ T \in Nat \ {0} /\ N \in Nat /\ Stages \in Nat /\ Stages = N * D
      /\ Tiles = 0..(T - 1)
  BY CfgFacts DEF Tiles
<1>2. m \in Nat
  BY <1>1
<1>3. i - 1 \in Nat /\ i - 1 < m
  <2>1. i \in 1..m
    OBVIOUS
  <2> HIDE DEF m
  <2> QED
    BY <1>2, <2>1
<1> HIDE DEF D, T, N
<1>4. /\ (i - 1) \div T \in 0..(Stages - 1) /\ (i - 1) % T \in 0..(T - 1)
      /\ i - 1 = ((i - 1) \div T) * T + ((i - 1) % T)
  BY <1>1, <1>3, Splits
<1> DEFINE s == StageOf(i)
<1>5. s = (i - 1) \div T
  BY DEF StageOf, T
<1>6. s \in Nat /\ s < Stages
  BY <1>1, <1>4, <1>5
<1> HIDE DEF s
<1>7. s \div D \in 0..(N - 1) /\ s % D \in 0..(D - 1) /\ s = (s \div D) * D + (s % D)
  BY <1>1, <1>6, Splits
<1>8. Back(g, s % D) \in Gpus
  BY <1>7, BackOnce DEF D
<1>9. Cell(g, i) = <<s \div D, Back(g, s % D), (i - 1) % T>>
  BY DEF Cell, s, D, T
<1>10. Cell(g, i) \in Cells
  <2> DEFINE r == (i - 1) % T
             n == s \div D
             d == Back(g, s % D)
  <2>1. n \in 0..(N - 1) /\ d \in Gpus /\ r \in Tiles
    BY <1>1, <1>4, <1>7, <1>8
  <2> HIDE DEF r, n, d
  <2>2. <<n, d, r>> \in Cells
    BY <2>1 DEF Cells, N
  <2> QED
    BY <1>9, <2>2 DEF r, n, d
<1> QED
  BY <1>1, <1>3, <1>4, <1>5, <1>6, <1>7, <1>10 DEF s, D, T

LEMMA PlaceOfCell ==
    ASSUME TypeOK, NEW g \in Gpus, NEW x \in Cells
    PROVE  \E i \in 1..(Stages * cfg.tiles) : Cell(g, i) = x
<1> DEFINE D == cfg.devices
           T == cfg.tiles
           N == cfg.nodes
<1>1. /\ D \in Nat \ {0} /\ T \in Nat \ {0} /\ N \in Nat /\ Stages \in Nat /\ Stages = N * D
      /\ Tiles = 0..(T - 1)
  BY CfgFacts DEF Tiles
<1>2. PICK n \in 0..(N - 1), d \in Gpus, t \in Tiles : x = <<n, d, t>>
  BY DEF Cells
<1>3. Back(g, d) \in 0..(D - 1) /\ Back(g, Back(g, d)) = d
  <2>1. d \in 0..(cfg.devices - 1)
    BY DEF Gpus
  <2> QED
    BY <2>1, BackOnce
<1> DEFINE j == Back(g, d)
           s == n * D + j
           i == s * T + t + 1
<1> HIDE DEF D, T, N, j
<1>4. s \in Nat /\ s < Stages /\ s \div D = n /\ s % D = j
  BY <1>1, <1>2, <1>3, Combines DEF j
<1> HIDE DEF s
<1>5. /\ s * T + t \in Nat /\ s * T + t < Stages * T
      /\ (s * T + t) \div T = s /\ (s * T + t) % T = t
  <2>1. s \in 0..(Stages - 1) /\ t \in 0..(T - 1)
    BY <1>1, <1>4
  <2> QED
    BY <1>1, <2>1, Combines
<1> DEFINE a == s * T + t
           m == Stages * T
<1>6. m \in Nat /\ a \in Nat /\ a < m /\ i = a + 1
  BY <1>1, <1>5
<1>7. a \div T = s /\ a % T = t
  BY <1>5
<1> HIDE DEF i, a, m
<1>8. i \in 1..m /\ i - 1 = a
  BY <1>6
<1>9. Cell(g, i) = <<n, d, t>>
  <2>1. StageOf(i) = s /\ (i - 1) % cfg.tiles = t
    BY <1>7, <1>8 DEF StageOf, T
  <2> QED
    BY <1>3, <1>4, <2>1 DEF Cell, D, j
<1> QED
  BY <1>2, <1>8, <1>9 DEF m, T

LEMMA CellsDiffer ==
    ASSUME TypeOK, NEW g \in Gpus, NEW i \in 1..(Stages * cfg.tiles),
           NEW k \in 1..(Stages * cfg.tiles), Cell(g, i) = Cell(g, k)
    PROVE  i = k
<1>1. /\ StageOf(i) \div cfg.devices = StageOf(k) \div cfg.devices
      /\ Back(g, StageOf(i) % cfg.devices) = Back(g, StageOf(k) % cfg.devices)
      /\ (i - 1) % cfg.tiles = (k - 1) % cfg.tiles
  BY DEF Cell
<1>2. StageOf(i) % cfg.devices = StageOf(k) % cfg.devices
  BY <1>1, CellOfPlace, BackOnce
<1>3. StageOf(i) = StageOf(k)
  BY <1>1, <1>2, CellOfPlace
<1>4. i - 1 = k - 1
  BY <1>1, <1>3, CellOfPlace
<1>5. i - 1 \in Nat /\ k - 1 \in Nat /\ i \in Int /\ k \in Int
  <2> DEFINE m == Stages * cfg.tiles
  <2>1. m \in Int
    BY CfgFacts
  <2>2. i \in 1..m /\ k \in 1..m
    OBVIOUS
  <2> HIDE DEF m
  <2> QED
    BY <2>1, <2>2
<1> QED
  BY <1>4, <1>5

\* What a block that is through has read in a place.
LEMMA ReadInPlace ==
    ASSUME IInv, NEW g \in Gpus, Over(g), NEW b \in Blocks
    PROVE  /\ Len(O[g][b]) = Stages * cfg.tiles /\ DOMAIN O[g][b] = 1..(Stages * cfg.tiles)
           /\ \A i \in 1..(Stages * cfg.tiles) :
                LET x == Cell(g, i)
                IN  O[g][b][i] = Given(x[1], x[2], x[3]) /\ O[g][b][i].epoch = epoch
<1>1. TypeOK
  BY IInvFacts
<1>2. Taken(g, b) = Stages
  BY DEF Taken, Over
<1>3. /\ Len(O[g][b]) = Stages * cfg.tiles
      /\ \A i \in 1..Len(O[g][b]) :
           O[g][b][i] \in Source(g, (i - 1) \div cfg.tiles, (i - 1) % cfg.tiles)
  BY <1>2, IInvFacts DEF OwnInv, ResultInv
<1>4. DOMAIN O[g][b] = 1..(Stages * cfg.tiles)
  <2>1. O[g][b] \in Seq(Contents)
    BY <1>1 DEF TypeOK, ResultTypes
  <2> QED
    BY <1>3, <2>1
<1>5. ASSUME NEW i \in 1..(Stages * cfg.tiles)
      PROVE  LET x == Cell(g, i)
             IN  O[g][b][i] = Given(x[1], x[2], x[3]) /\ O[g][b][i].epoch = epoch
  <2> DEFINE n == StageOf(i) \div cfg.devices
             d == Back(g, StageOf(i) % cfg.devices)
             t == (i - 1) % cfg.tiles
  <2>1. Cell(g, i) = <<n, d, t>> /\ d \in Gpus
    BY <1>1, CellOfPlace DEF Cell, Cells
  <2>2. O[g][b][i] \in Brought(n, d, t)
    BY <1>3 DEF Source, StageOf
  <2> HIDE DEF n, d, t
  <2>3. O[g][b][i] = Given(n, d, t) /\ O[g][b][i].epoch = epoch
    <3>1. CASE n = 0
      BY <2>2, <3>1 DEF Brought, Given, Own, Tile
    <3>2. CASE n # 0
      <4>1. PICK v \in Words : /\ v = <<n - 1, t>> /\ Arrived(d, v)
                               /\ O[g][b][i] = recv[d][v]
        BY <2>2, <3>2 DEF Brought
      <4>2. recv[d][v].epoch = epoch
        BY <2>1, <4>1, IInvFacts DEF ArrivalInv, Arrived
      <4> QED
        BY <3>2, <4>1, <4>2 DEF Given
    <3> QED
      BY <3>1, <3>2
  <2> QED
    BY <2>1, <2>3
<1> QED
  BY <1>3, <1>4, <1>5

\* A block that is through has read each tile that was brought as often as it was brought.
Read(g, b, v) == Cardinality({i \in DOMAIN O[g][b] : O[g][b][i] = v})
Brings(v) == Cardinality({x \in Cells : Given(x[1], x[2], x[3]) = v})

LEMMA ReadAsOften ==
    ASSUME IInv, NEW g \in Gpus, Over(g), NEW b \in Blocks, NEW v
    PROVE  Read(g, b, v) = Brings(v)
<1> DEFINE m == Stages * cfg.tiles
           A == {i \in DOMAIN O[g][b] : O[g][b][i] = v}
           B == {x \in Cells : Given(x[1], x[2], x[3]) = v}
           f == [i \in A |-> Cell(g, i)]
<1>1. TypeOK /\ m \in Nat
  BY IInvFacts, CfgFacts
<1>2. /\ DOMAIN O[g][b] = 1..m
      /\ \A i \in 1..m : O[g][b][i] = Given(Cell(g, i)[1], Cell(g, i)[2], Cell(g, i)[3])
  BY ReadInPlace
<1>3. A \subseteq 1..m
  BY <1>2
<1>4. IsFiniteSet(A)
  <2> HIDE DEF m, A
  <2>1. IsFiniteSet(1..m)
    BY <1>1, FS_Interval
  <2> QED
    BY <1>3, <2>1, FS_Subset
<1>5. \A i \in 1..m : Cell(g, i) \in Cells
  BY <1>1, CellOfPlace
<1>6. \A i, k \in 1..m : Cell(g, i) = Cell(g, k) => i = k
  BY <1>1, CellsDiffer
<1>7. \A x \in Cells : \E i \in 1..m : Cell(g, i) = x
  BY <1>1, PlaceOfCell
<1> HIDE DEF m
<1>8. \A i \in A : f[i] = Cell(g, i) /\ f[i] \in B
  BY <1>2, <1>3, <1>5
<1>9. f \in Injection(A, B)
  <2>1. f \in [A -> B]
    BY <1>8
  <2>2. \A i, k \in A : f[i] = f[k] => i = k
    BY <1>3, <1>6, <1>8
  <2>3. DOMAIN f = A
    OBVIOUS
  <2> HIDE DEF f, A, B
  <2> QED
    BY <2>1, <2>2, <2>3 DEF Injection, IsInjective
<1>10. f \in Surjection(A, B)
  <2>1. f \in [A -> B]
    BY <1>8
  <2>2. ASSUME NEW x \in B PROVE \E i \in A : f[i] = x
    <3>1. PICK i \in 1..m : Cell(g, i) = x
      BY <1>7
    <3>2. i \in A
      BY <1>2, <3>1
    <3> QED
      BY <1>8, <3>1, <3>2
  <2> HIDE DEF f, A, B
  <2> QED
    BY <2>1, <2>2 DEF Surjection
<1> HIDE DEF f, A, B
<1>11. ExistsBijection(A, B)
  BY <1>9, <1>10 DEF ExistsBijection, Bijection
<1>12. Cardinality(A) = Cardinality(B)
  BY <1>4, <1>11, FS_Bijection
<1> QED
  BY <1>12 DEF A, B, Read, Brings

LEMMA AllAttended == IInv => AttendedOnce
<1> SUFFICES ASSUME IInv, NEW g \in Gpus, Over(g), NEW b \in Blocks
             PROVE  /\ Len(O[g][b]) = cfg.nodes * cfg.devices * cfg.tiles
                    /\ \A i \in DOMAIN O[g][b] : O[g][b][i].epoch = epoch
                    /\ \A j \in DOMAIN O[g][b] :
                         Cardinality({i \in DOMAIN O[g][b] : O[g][b][i] = O[g][b][j]})
                           = Cardinality({x \in Cells : Given(x[1], x[2], x[3]) = O[g][b][j]})
  BY DEF AttendedOnce, Cells
<1>1. Stages = cfg.nodes * cfg.devices
  BY DEF Stages
<1>2. Len(O[g][b]) = Stages * cfg.tiles /\ \A i \in DOMAIN O[g][b] : O[g][b][i].epoch = epoch
  BY ReadInPlace
<1>3. \A j \in DOMAIN O[g][b] :
        Cardinality({i \in DOMAIN O[g][b] : O[g][b][i] = O[g][b][j]})
          = Cardinality({x \in Cells : Given(x[1], x[2], x[3]) = O[g][b][j]})
  <2>1. \A v : Read(g, b, v) = Brings(v)
    BY ReadAsOften
  <2>2. \A j \in DOMAIN O[g][b] : Read(g, b, O[g][b][j]) = Brings(O[g][b][j])
    BY <2>1
  <2> QED
    BY <2>2 DEF Read, Brings
<1> QED
  BY <1>1, <1>2, <1>3

\* In the loops that restore K0 and V0 for every launch, a GPU that is through a launch has
\* let each block of its queries attend exactly once to every tile of every GPU of its node
\* and to every tile that they received, whatever the peers' NICs found in it.
THEOREM AttendedOnceHolds ==
    ASSUME SyncedLoops
    PROVE  Spec => []AttendedOnce
  BY Inductive, AllAttended, PTL

=============================================================================
