---------------------------- MODULE Proxy_proofs ----------------------------
(***************************************************************************)
(* The proxy thread, for every configuration, kernel, queue depth and      *)
(* batch size.  What holds whatever the NIC refuses: inflight_ is exact,   *)
(* no command is transferred twice, flags follow data.  What holds when it *)
(* refuses nothing: arrival slots are dense, an epoch ends quiescent,      *)
(* barriers reach every peer.                                              *)
(***************************************************************************)
EXTENDS Proxy, TLAPS, FunctionTheorems, FiniteSetTheorems, SequenceTheorems

-----------------------------------------------------------------------------
\* Types.

Cmds == {Of(d, e) : d \in UNION Kernels, e \in Nat}
Wrs == [op : {"data", "flag", "tail", "barrier"}, cmd : Cmds, slot : Nat, epoch : Nat,
        wr_count : Nat]

ProxyAt == {"top", "spin", "unack", "collect", "strided", "poll_cq", "advance_tail", "exit",
            "ended"}
HostAt == {"idle", "kernel", "drain", "drained", "pausing", "drain_cq", "prepared", "resume",
           "resuming", "join", "destroyed"}

TypeOK ==
    /\ cfg \in Configs
    /\ todo \in SUBSET Cmds /\ fifo \in Seq(Cmds) /\ cpu_head \in 0..Len(fifo) /\ tail \in Nat
    /\ ppc \in ProxyAt /\ hpc \in HostAt
    /\ batch \in Seq(Cmds) /\ pending \in Seq(Cmds)
    /\ batch_qp \in QPs /\ qp_rr_idx \in QPs
    /\ pre_inflight \in Int /\ inflight \in Int /\ strided_posted \in Nat
    /\ sender_seq \in [LogicalQueues -> Nat]
    /\ running \in BOOLEAN /\ paused \in BOOLEAN /\ ack_paused \in BOOLEAN
    /\ epoch \in Nat \ {0}
    /\ posted \in [QPs -> Seq(Wrs)] /\ done \in [QPs -> Nat] /\ freed \in [QPs -> Nat]
    /\ cq \in Seq([qp : QPs, wr : Nat])

-----------------------------------------------------------------------------
\* The inductive invariant.

\* Where the two threads are relative to each other.
PhaseInv ==
    /\ ppc \in {"top", "spin", "unack", "exit", "ended"} => batch = <<>>
    /\ ppc # "strided" => strided_posted = 0
    /\ ack_paused => ppc = "spin" /\ paused
    /\ paused <=> hpc \in {"pausing", "drain_cq", "prepared", "resume", "resuming"}
    /\ hpc \in {"drain_cq", "prepared", "resume"} => ack_paused
    /\ hpc = "resuming" => ppc = "spin" /\ ~ack_paused
    /\ hpc # "kernel" => todo = {}
    /\ running <=> hpc \notin {"join", "destroyed"}
    /\ ppc \in {"exit", "ended"} => ~running
    /\ hpc = "destroyed" => ppc = "ended"

\* What the proxy holds is routed to it, its batch to the QP of the batch.
CollectInv ==
    /\ Len(pending) <= 1
    /\ \A i \in 1..Len(pending) : Collectable(pending[i])
    /\ \A i \in 1..Len(batch) : Collectable(batch[i]) /\ (Routed => RouteQp(batch[i]) = batch_qp)

\* The completion queue holds, in order, the signaled WRs carried out and not polled.
CqInv ==
    /\ \A q \in QPs : freed[q] <= done[q] /\ done[q] <= Len(posted[q]) /\ Room(q) >= 0
    /\ \A j \in 1..Len(cq) : /\ freed[cq[j].qp] < cq[j].wr /\ cq[j].wr <= done[cq[j].qp]
                             /\ posted[cq[j].qp][cq[j].wr].wr_count > 0
    /\ \A j, k \in 1..Len(cq) : j < k /\ cq[j].qp = cq[k].qp => cq[j].wr < cq[k].wr
    /\ \A q \in QPs : \A i \in (freed[q] + 1)..done[q] : posted[q][i].wr_count > 0 =>
         \E j \in 1..Len(cq) : cq[j].qp = q /\ cq[j].wr = i

\* A command the proxy has taken: in its batch, stashed, or posted.
Transfer(w) == w.op # "barrier"
InBatch(c) == \E i \in 1..Len(batch) : batch[i] = c
InPending(c) == \E i \in 1..Len(pending) : pending[i] = c
InPosted(c) == \E q \in QPs : \E i \in 1..Len(posted[q]) :
                   Transfer(posted[q][i]) /\ posted[q][i].cmd = c
Held(c) == InBatch(c) \/ InPending(c) \/ InPosted(c)

\* What waits to be polled is of this epoch, all different, and in nobody's hands.
WaitingInv ==
    /\ \A c \in todo : c.gen = epoch
    /\ \A i \in 1..Len(fifo) : fifo[i].gen = epoch /\ fifo[i] \notin todo
    /\ \A i, j \in 1..Len(fifo) : fifo[i] = fifo[j] => i = j
    /\ hpc \in {"resume", "resuming", "idle"} => fifo = <<>>

HeldInv ==
    \A c \in Cmds : Held(c) =>
        /\ c.gen <= epoch /\ c \notin todo
        /\ \A i \in (cpu_head + 1)..Len(fifo) : fifo[i] # c
        /\ hpc \in {"resume", "resuming", "idle"} => c.gen < epoch

\* A command is held in one place only ...
OnceInv ==
    /\ \A i, j \in 1..Len(batch) : batch[i] = batch[j] => i = j
    /\ \A c \in Cmds : InPending(c) => ~InBatch(c) /\ ~InPosted(c)
    /\ ppc \in {"collect", "strided"} => \A c \in Cmds : InBatch(c) => ~InPosted(c)

\* ... and has one flag ...
FlagOnce ==
    \A q, r \in QPs : \A i \in 1..Len(posted[q]), j \in 1..Len(posted[r]) :
        /\ posted[q][i].op = "flag" /\ posted[r][j].op = "flag"
        /\ posted[q][i].cmd = posted[r][j].cmd
        => q = r /\ i = j

\* ... posted behind all of its data.
DataOf(c) == IF Strided(c) THEN DataWrs(c) ELSE 1
Before(s, i) == {j \in 1..(i - 1) : s[j].op = "data" /\ s[j].cmd = s[i].cmd}
DataFirst ==
    \A q \in QPs : \A i \in 1..Len(posted[q]) :
        posted[q][i].op = "flag" => Cardinality(Before(posted[q], i)) = DataOf(posted[q][i].cmd)

\* Where drain_proxy drains everything, nothing is carried into the next epoch.
Drained == {"drained", "pausing", "drain_cq", "prepared", "join", "destroyed"}
DrainInv == DrainsAll =>
    /\ pending = <<>>
    /\ \A i \in 1..Len(batch) : batch[i].gen = epoch
    /\ \A q \in QPs : \A i \in 1..Len(posted[q]) : posted[q][i].epoch = posted[q][i].cmd.gen
    /\ hpc \in Drained => cpu_head = Len(fifo)

-----------------------------------------------------------------------------
\* When the NIC refuses nothing.

\* Every chain of WRs about to be posted fits into the send queue of its QP.
NothingRefused ==
    /\ ppc = "strided" /\ NoStrided /\ batch # <<>> => Fits(batch_qp, Len(Chain(batch)))
    /\ ppc = "strided" => \A i \in 1..Len(batch) :
         Strided(batch[i]) /\ StridedShapeOk(batch[i])
           => Fits(batch_qp, Len(StridedChain(batch[i])))
    /\ ppc = "collect" /\ CanCollect /\ cpu_head < Len(fifo)
       /\ fifo[cpu_head + 1].type = "BARRIER_NOTIFY"
         => \A q \in BarrierQPs : Fits(q, 1)

\* What the host and the proxy have found done is done, and the stash is not overwritten:
\* while it is full, nothing is collected.
IdleInv ==
    /\ hpc = "prepared" => inflight = 0
    /\ ppc = "ended" => inflight <= 0
    /\ pending # <<>> => Routed /\ (ppc = "collect" => pre_inflight >= EffectiveMaxInflight)

\* Command c has its flag, barrier c its write, on a queue; a command polled to be transferred
\* is still in hand or has its flag.
Flagged(c) == \E q \in QPs : \E j \in 1..Len(posted[q]) :
                  posted[q][j].op = "flag" /\ posted[q][j].cmd = c
Barred(q, c) == \E j \in 1..Len(posted[q]) : posted[q][j].op = "barrier" /\ posted[q][j].cmd = c
Served(c) == \/ ppc \in {"collect", "strided"} /\ InBatch(c)
             \/ InPending(c) \/ Flagged(c)

\* What is posted ends with a signaled WR, and nothing polled is lost.
WholeInv ==
    /\ \A q \in QPs : posted[q] # <<>> => posted[q][Len(posted[q])].wr_count > 0
    /\ \A i \in 1..cpu_head : Transferable(fifo[i]) => Served(fifo[i])
    /\ \A i \in 1..cpu_head : fifo[i].type = "BARRIER_NOTIFY" =>
         \A q \in BarrierQPs : Barred(q, fifo[i])

\* The commands of a logical queue go over one QP.
QueueHasOneQP ==
    \A c, d \in UNION Kernels : LogicalQueue(c) = LogicalQueue(d) => RouteQp(c) = RouteQp(d)

\* WR w is an arrival flag, or a tail, of logical queue l in epoch e.
Is(op, w, l, e) == w.op = op /\ w.epoch = e /\ LogicalQueue(w.cmd) = l

\* On one send queue, the flags of a logical queue come slot by slot, and a tail comes after
\* the flag it covers last.
InOrder(s) ==
    \A i \in 1..Len(s) : \A l \in LogicalQueues, e \in Nat :
        /\ Is("flag", s[i], l, e) =>
             /\ \A x \in 0..(s[i].slot - 1) :
                  \E j \in 1..(i - 1) : Is("flag", s[j], l, e) /\ s[j].slot = x
             /\ \A j \in 1..(i - 1) : Is("flag", s[j], l, e) => s[j].slot # s[i].slot
        /\ Is("tail", s[i], l, e) =>
             \E j \in 1..(i - 1) : Is("flag", s[j], l, e) /\ s[j].slot = s[i].slot - 1

\* A logical queue is posted over the QP it is routed to, and sender_seq_ is the number of
\* slots it took in this epoch.
Slots ==
    /\ \A q \in QPs : InOrder(posted[q])
    /\ \A q \in QPs : \A i \in 1..Len(posted[q]) :
         posted[q][i].epoch <= epoch /\ (Transfer(posted[q][i]) => RouteQp(posted[q][i].cmd) = q)
    /\ \A q \in QPs : \A i \in 1..Len(posted[q]) : \A l \in LogicalQueues :
         Is("flag", posted[q][i], l, epoch) => posted[q][i].slot < sender_seq[l]
    /\ \A l \in LogicalQueues : \A x \in 0..(sender_seq[l] - 1) :
         \E q \in QPs : \E i \in 1..Len(posted[q]) :
           Is("flag", posted[q][i], l, epoch) /\ posted[q][i].slot = x

\* The slots matter in the queue layout only.
SlotInv == UseArrivalQueue /\ QueueHasOneQP => Slots

-----------------------------------------------------------------------------
\* Finite sets and sums over them.

\* A set of integers within an interval is finite.
LEMMA PartFinite ==
    ASSUME NEW a \in Int, NEW b \in Int, NEW H \in SUBSET (a..b)
    PROVE  IsFiniteSet(H) /\ Cardinality(H) \in Nat
<1>1. IsFiniteSet(a..b)
  BY FS_Interval
<1> QED
  BY <1>1, FS_Subset, FS_CardinalityType

Total(w, S) == MapThenSumSet(LAMBDA x : w[x], S)

Pick(s) == CHOOSE x \in s : TRUE
Sums(w, S, f) ==
    f = [s \in SUBSET S |-> IF s = {} THEN 0 ELSE w[Pick(s)] + f[s \ {Pick(s)}]]

\* Total is the value at S of a function that sums w over the parts of S.
LEMMA TotalIs == ASSUME NEW w, NEW S
                 PROVE  Total(w, S) = (CHOOSE f : Sums(w, S, f))[S]
  BY DEF Total, MapThenSumSet, MapThenFoldSet, Pick, Sums

\* Every non-empty set of subsets of a finite set has a smallest one.
LEMMA FiniteMinimal ==
    ASSUME NEW S, IsFiniteSet(S), NEW T \in SUBSET (SUBSET S), T # {}
    PROVE  \E s \in T : \A t \in T : t \subseteq s => t = s
<1>1. T \subseteq FiniteSubsetsOf(S)
  BY FS_FiniteSubsetsOfFinite
<1>2. PICK s \in T : \A t \in T : ~(<<t, s>> \in StrictSubsetOrdering(S))
  BY <1>1, FS_StrictSubsetOrderingWellFounded, WFMin
<1>3. \A t \in T : t \subseteq s => t = s
  BY <1>2 DEF StrictSubsetOrdering
<1> QED
  BY <1>3

\* Pick takes an element of a set that has one.
LEMMA PickIn == ASSUME NEW s, s # {} PROVE Pick(s) \in s
  BY DEF Pick

\* Two functions that sum w agree on what they both cover.
LEMMA SumsAgree ==
    ASSUME NEW w, NEW S, IsFiniteSet(S), NEW T, NEW f, NEW g, Sums(w, S, f), Sums(w, T, g)
    PROVE  \A s \in SUBSET (S \cap T) : f[s] = g[s]
<1> DEFINE Bad == {s \in SUBSET S : s \subseteq T /\ f[s] # g[s]}
<1> SUFFICES ASSUME Bad # {} PROVE FALSE
  OBVIOUS
<1>0. Bad \in SUBSET (SUBSET S)
  OBVIOUS
<1>1. PICK s \in Bad : \A t \in Bad : t \subseteq s => t = s
  <2> HIDE DEF Bad
  <2> QED
    BY <1>0, FiniteMinimal
<1>2. s # {}
  BY DEF Sums
<1>3. Pick(s) \in s
  BY <1>2, PickIn
<1>4. f[s] = w[Pick(s)] + f[s \ {Pick(s)}] /\ g[s] = w[Pick(s)] + g[s \ {Pick(s)}]
  BY <1>2 DEF Sums
<1>5. f[s \ {Pick(s)}] = g[s \ {Pick(s)}]
  BY <1>1, <1>3
<1> QED
  BY <1>4, <1>5

\* A function that sums w over the parts of a finite set exists.
LEMMA SumsExists ==
    ASSUME NEW w, NEW S, IsFiniteSet(S)
    PROVE  \E f : Sums(w, S, f)
<1> DEFINE Bad == {s \in SUBSET S : ~\E f : Sums(w, s, f)}
<1> SUFFICES ASSUME Bad # {} PROVE FALSE
  OBVIOUS
<1>0. Bad \in SUBSET (SUBSET S)
  OBVIOUS
<1>1. PICK u \in Bad : \A t \in Bad : t \subseteq u => t = u
  <2> HIDE DEF Bad
  <2> QED
    BY <1>0, FiniteMinimal
<1> DEFINE F(s) == CHOOSE f : Sums(w, s, f)
           V(s) == IF s = {} THEN 0 ELSE w[Pick(s)] + F(s \ {Pick(s)})[s \ {Pick(s)}]
           g == [s \in SUBSET u |-> V(s)]
<1>2. \A s \in SUBSET u : s # u => Sums(w, s, F(s))
  BY <1>1
<1>3. ASSUME NEW s \in SUBSET u, s # u PROVE F(s)[s] = V(s)
  <2>0. Sums(w, s, F(s))
    BY <1>2, <1>3
  <2>1. CASE s = {}
    BY <2>0, <2>1 DEF Sums
  <2>2. CASE s # {}
    <3> DEFINE t == s \ {Pick(s)}
    <3>1. Pick(s) \in s
      BY <2>2, PickIn
    <3>2. F(s)[s] = w[Pick(s)] + F(s)[t]
      <4> HIDE DEF F
      <4> QED BY <2>0, <2>2 DEF Sums
    <3>3. Sums(w, t, F(t))
      BY <1>2, <3>1
    <3>4. IsFiniteSet(s)
      BY FS_Subset
    <3>5. F(s)[t] = F(t)[t]
      <4> HIDE DEF F
      <4> QED BY <2>0, <3>3, <3>4, SumsAgree
    <3> QED
      BY <2>2, <3>2, <3>5
  <2> QED
    BY <2>1, <2>2
<1>4. \A s \in SUBSET u : s # {} => g[s \ {Pick(s)}] = F(s \ {Pick(s)})[s \ {Pick(s)}]
  <2> SUFFICES ASSUME NEW s \in SUBSET u, s # {}
               PROVE  g[s \ {Pick(s)}] = F(s \ {Pick(s)})[s \ {Pick(s)}]
    OBVIOUS
  <2>1. s \ {Pick(s)} \in SUBSET u /\ s \ {Pick(s)} # u
    BY PickIn
  <2>2. F(s \ {Pick(s)})[s \ {Pick(s)}] = V(s \ {Pick(s)})
    BY <1>3, <2>1
  <2> QED
    BY <2>1, <2>2
<1>5. Sums(w, u, g)
  <2> HIDE DEF F
  <2> QED
  BY <1>4 DEF Sums
<1> QED
  BY <1>1, <1>5

\* The recursion of Total, one picked element at a time.
LEMMA TotalStep ==
    ASSUME NEW w, NEW S, IsFiniteSet(S)
    PROVE  Total(w, S) = IF S = {} THEN 0 ELSE w[Pick(S)] + Total(w, S \ {Pick(S)})
<1> DEFINE t == S \ {Pick(S)}
           f == CHOOSE h : Sums(w, S, h)
           g == CHOOSE h : Sums(w, t, h)
<1>1. IsFiniteSet(t)
  BY FS_Subset
<1>2. Sums(w, S, f)
  BY SumsExists
<1>3. Sums(w, t, g)
  BY <1>1, SumsExists
<1>4. Total(w, S) = f[S] /\ Total(w, t) = g[t]
  BY TotalIs
<1>5. t \in SUBSET (S \cap t)
  OBVIOUS
<1> HIDE DEF f, g, t
<1>6. f[t] = g[t]
  BY <1>2, <1>3, <1>5, SumsAgree
<1>7. f[S] = IF S = {} THEN 0 ELSE w[Pick(S)] + f[S \ {Pick(S)}]
  BY <1>2 DEF Sums
<1> QED
  BY <1>4, <1>6, <1>7 DEF t

\* A sum of integers is an integer.
LEMMA TotalType ==
    ASSUME NEW w, NEW S, IsFiniteSet(S), \A x \in S : w[x] \in Int
    PROVE  Total(w, S) \in Int
<1> DEFINE Bad == {s \in SUBSET S : Total(w, s) \notin Int}
<1> SUFFICES ASSUME Bad # {} PROVE FALSE
  OBVIOUS
<1>0. Bad \in SUBSET (SUBSET S)
  OBVIOUS
<1>1. PICK s \in Bad : \A t \in Bad : t \subseteq s => t = s
  <2> HIDE DEF Bad
  <2> QED
    BY <1>0, FiniteMinimal
<1>2. IsFiniteSet(s)
  BY FS_Subset
<1>3. Total(w, s) = IF s = {} THEN 0 ELSE w[Pick(s)] + Total(w, s \ {Pick(s)})
  BY <1>2, TotalStep
<1>4. s # {}
  BY <1>3
<1>5. Pick(s) \in s
  BY <1>4, PickIn
<1>6. Total(w, s \ {Pick(s)}) \in Int
  BY <1>1, <1>5
<1> QED
  BY <1>3, <1>5, <1>6

\* Any element may be taken out of a sum first.
LEMMA TotalRemove ==
    ASSUME NEW w, NEW S, IsFiniteSet(S), \A x \in S : w[x] \in Int, NEW x \in S
    PROVE  Total(w, S) = w[x] + Total(w, S \ {x})
<1> DEFINE Bad == {s \in SUBSET S : ~\A y \in s : Total(w, s) = w[y] + Total(w, s \ {y})}
<1> SUFFICES ASSUME Bad # {} PROVE FALSE
  OBVIOUS
<1>0. Bad \in SUBSET (SUBSET S)
  OBVIOUS
<1>1. PICK s \in Bad : \A t \in Bad : t \subseteq s => t = s
  <2> HIDE DEF Bad
  <2> QED
    BY <1>0, FiniteMinimal
<1>2. PICK y \in s : Total(w, s) # w[y] + Total(w, s \ {y})
  OBVIOUS
<1> DEFINE p == Pick(s)
<1>3. \A t \in SUBSET S : IsFiniteSet(t) /\ Total(w, t) \in Int
  BY FS_Subset, TotalType
<1>4. p \in s /\ Total(w, s) = w[p] + Total(w, s \ {p})
  BY <1>3, PickIn, TotalStep
<1>5. p # y
  BY <1>2, <1>4
<1>6. Total(w, s \ {p}) = w[y] + Total(w, (s \ {p}) \ {y})
  BY <1>1, <1>4, <1>5
<1>7. Total(w, s \ {y}) = w[p] + Total(w, (s \ {y}) \ {p})
  BY <1>1, <1>2, <1>4, <1>5
<1>8. (s \ {y}) \ {p} = (s \ {p}) \ {y}
  OBVIOUS
<1>9. Total(w, (s \ {p}) \ {y}) \in Int /\ w[p] \in Int /\ w[y] \in Int
  BY <1>3, <1>4
<1>10. ASSUME NEW a \in Int, NEW b \in Int, NEW c \in Int PROVE a + (b + c) = b + (a + c)
  OBVIOUS
<1>11. Total(w, s) = w[p] + (w[y] + Total(w, (s \ {p}) \ {y}))
  BY <1>4, <1>6, Zenon
<1>12. w[y] + Total(w, s \ {y}) = w[y] + (w[p] + Total(w, (s \ {p}) \ {y}))
  BY <1>7, <1>8, Zenon
<1>13. Total(w, s) = w[y] + Total(w, s \ {y})
  BY <1>9, <1>10, <1>11, <1>12, Zenon
<1> QED
  BY <1>2, <1>13

\* A sum depends on the weights of its elements only.
LEMMA TotalSame ==
    ASSUME NEW v, NEW w, NEW S, IsFiniteSet(S), \A x \in S : v[x] = w[x]
    PROVE  Total(v, S) = Total(w, S)
<1> DEFINE Bad == {s \in SUBSET S : Total(v, s) # Total(w, s)}
<1> SUFFICES ASSUME Bad # {} PROVE FALSE
  OBVIOUS
<1>0. Bad \in SUBSET (SUBSET S)
  OBVIOUS
<1>1. PICK s \in Bad : \A t \in Bad : t \subseteq s => t = s
  <2> HIDE DEF Bad
  <2> QED
    BY <1>0, FiniteMinimal
<1>2. IsFiniteSet(s)
  BY FS_Subset
<1>3. /\ Total(v, s) = IF s = {} THEN 0 ELSE v[Pick(s)] + Total(v, s \ {Pick(s)})
      /\ Total(w, s) = IF s = {} THEN 0 ELSE w[Pick(s)] + Total(w, s \ {Pick(s)})
  BY <1>2, TotalStep
<1>4. s # {}
  BY <1>3
<1>5. Pick(s) \in s
  BY <1>4, PickIn
<1>6. Total(v, s \ {Pick(s)}) = Total(w, s \ {Pick(s)})
  BY <1>1, <1>5
<1> QED
  BY <1>3, <1>5, <1>6

\* Elements of weight 0 may be left out of a sum.
LEMMA TotalRest ==
    ASSUME NEW w, NEW S, IsFiniteSet(S), NEW R \in SUBSET S, \A x \in S : w[x] \in Int,
           \A x \in S \ R : w[x] = 0
    PROVE  Total(w, S) = Total(w, R)
<1> DEFINE Bad == {s \in SUBSET S : R \subseteq s /\ Total(w, s) # Total(w, R)}
<1> SUFFICES ASSUME Bad # {} PROVE FALSE
  OBVIOUS
<1>0. Bad \in SUBSET (SUBSET S)
  OBVIOUS
<1>1. PICK s \in Bad : \A t \in Bad : t \subseteq s => t = s
  <2> HIDE DEF Bad
  <2> QED
    BY <1>0, FiniteMinimal
<1>2. IsFiniteSet(s) /\ s # R
  BY FS_Subset
<1>3. PICK x \in s : x \notin R
  BY <1>2
<1>4. Total(w, s) = w[x] + Total(w, s \ {x})
  BY <1>2, TotalRemove
<1>5. IsFiniteSet(s \ {x}) /\ Total(w, s \ {x}) \in Int
  BY <1>2, FS_Subset, TotalType
<1>6. Total(w, s \ {x}) = Total(w, R)
  BY <1>1, <1>3
<1> QED
  BY <1>3, <1>4, <1>5, <1>6

\* A sum of naturals is a natural.
LEMMA TotalIsNat ==
    ASSUME NEW w, NEW S, IsFiniteSet(S), \A x \in S : w[x] \in Nat
    PROVE  Total(w, S) \in Nat
<1> DEFINE Bad == {s \in SUBSET S : Total(w, s) \notin Nat}
<1> SUFFICES ASSUME Bad # {} PROVE FALSE
  OBVIOUS
<1>0. Bad \in SUBSET (SUBSET S)
  OBVIOUS
<1>1. PICK s \in Bad : \A t \in Bad : t \subseteq s => t = s
  <2> HIDE DEF Bad
  <2> QED
    BY <1>0, FiniteMinimal
<1>2. IsFiniteSet(s)
  BY FS_Subset
<1>3. Total(w, s) = IF s = {} THEN 0 ELSE w[Pick(s)] + Total(w, s \ {Pick(s)})
  BY <1>2, TotalStep
<1>4. s # {}
  BY <1>3
<1>5. Pick(s) \in s
  BY <1>4, PickIn
<1>6. Total(w, s \ {Pick(s)}) \in Nat
  BY <1>1, <1>5
<1> QED
  BY <1>3, <1>5, <1>6

\* A sum of naturals is at least each of them.
LEMMA TotalBounds ==
    ASSUME NEW w, NEW S, IsFiniteSet(S), \A x \in S : w[x] \in Nat, NEW x \in S
    PROVE  w[x] <= Total(w, S)
<1>1. Total(w, S) = w[x] + Total(w, S \ {x})
  BY TotalRemove
<1>2. IsFiniteSet(S \ {x})
  BY FS_Subset
<1>3. Total(w, S \ {x}) \in Nat
  BY <1>2, TotalIsNat
<1> QED
  BY <1>1, <1>3

\* Changing one weight changes the sum by the difference.
LEMMA TotalOther ==
    ASSUME NEW v, NEW w, NEW S, IsFiniteSet(S), \A y \in S : v[y] \in Int /\ w[y] \in Int,
           NEW x \in S, \A y \in S : y # x => w[y] = v[y]
    PROVE  Total(w, S) = Total(v, S) + (w[x] - v[x])
<1>1. IsFiniteSet(S \ {x})
  BY FS_Subset
<1>2. Total(w, S \ {x}) = Total(v, S \ {x}) /\ Total(v, S \ {x}) \in Int
  BY <1>1, TotalSame, TotalType
<1>3. Total(v, S) = v[x] + Total(v, S \ {x}) /\ Total(w, S) = w[x] + Total(w, S \ {x})
  BY TotalRemove
<1> QED
  BY <1>2, <1>3

\* One more at each of the places of A.
LEMMA TotalCount ==
    ASSUME NEW v, NEW w, NEW S, IsFiniteSet(S), \A y \in S : v[y] \in Int, NEW A \in SUBSET S,
           \A y \in S : w[y] = IF y \in A THEN v[y] + 1 ELSE v[y]
    PROVE  Total(w, S) = Total(v, S) + Cardinality(A)
<1> DEFINE One(s) == [y \in S |-> IF y \in s THEN v[y] + 1 ELSE v[y]]
           Bad == {s \in SUBSET S : Total(One(s), S) # Total(v, S) + Cardinality(s)}
<1>0. Bad \in SUBSET (SUBSET S)
  OBVIOUS
<1>1. ASSUME NEW s \in Bad, \A t \in Bad : t \subseteq s => t = s PROVE FALSE
  <2>1. IsFiniteSet(s) /\ Total(v, S) \in Int
    BY FS_Subset, TotalType
  <2>2. CASE s = {}
    <3>1. Total(One(s), S) = Total(v, S)
      BY <2>2, TotalSame
    <3> QED
      BY <2>1, <2>2, <3>1, FS_EmptySet
  <2>3. CASE s # {}
    <3>1. PICK x : x \in s
      BY <2>3
    <3> DEFINE t == s \ {x}
    <3>2. Cardinality(t) = Cardinality(s) - 1 /\ Cardinality(s) \in Nat
      BY <2>1, <3>1, FS_RemoveElement, FS_CardinalityType
    <3>3. Total(One(t), S) = Total(v, S) + Cardinality(t)
      BY <1>1, <3>1
    <3>4. Total(One(s), S) = Total(One(t), S) + (One(s)[x] - One(t)[x])
      <4>1. \A y \in S : One(t)[y] \in Int /\ One(s)[y] \in Int
        OBVIOUS
      <4>2. x \in S /\ \A y \in S : y # x => One(s)[y] = One(t)[y]
        BY <3>1
      <4> HIDE DEF One
      <4> QED
        BY <4>1, <4>2, TotalOther
    <3>5. One(s)[x] - One(t)[x] = 1
      BY <3>1
    <3>6. Total(One(s), S) = Total(v, S) + Cardinality(s)
      <4> HIDE DEF One, t
      <4> QED
        BY <2>1, <3>2, <3>3, <3>4, <3>5
    <3> QED
      BY <3>6
  <2> QED
    BY <2>2, <2>3
<1>2. Bad = {}
  <2> HIDE DEF Bad
  <2> QED
    BY <1>0, <1>1, FiniteMinimal
<1>3. Total(One(A), S) = Total(v, S) + Cardinality(A)
  BY <1>2
<1>4. Total(w, S) = Total(One(A), S)
  BY TotalSame
<1> QED
  BY <1>3, <1>4

-----------------------------------------------------------------------------
\* Constants and types.

\* What the assumptions on the configurations say of the parameters of the proxy.
LEMMA CfgFacts ==
    ASSUME cfg \in Configs
    PROVE  /\ NumQPs \in Nat \ {0} /\ GlobalNumQPs \in Nat \ {0} /\ QpBase \in Nat
           /\ LogicalQueuesPerQP \in 1..16 /\ NumNodes \in Nat \ {0, 1}
           /\ MaxInflightCfg \in Nat \ {0}
           /\ UseArrivalQueue \in BOOLEAN /\ ChannelizeGpuPeers \in BOOLEAN
           /\ EnableRemoteTail \in BOOLEAN /\ DirectDmabuf \in BOOLEAN
           /\ DrainMayTimeOut \in BOOLEAN
           /\ TotalLogicalQueues \in Nat \ {0}
           /\ QPs \subseteq Nat /\ 0 \in QPs /\ IsFiniteSet(QPs)
<1>1. /\ NumQPs \in Nat \ {0} /\ GlobalNumQPs \in Nat \ {0} /\ QpBase \in Nat
      /\ LogicalQueuesPerQP \in 1..16 /\ NumNodes \in Nat \ {0, 1}
      /\ MaxInflightCfg \in Nat \ {0}
      /\ UseArrivalQueue \in BOOLEAN /\ ChannelizeGpuPeers \in BOOLEAN
      /\ EnableRemoteTail \in BOOLEAN /\ DirectDmabuf \in BOOLEAN
      /\ DrainMayTimeOut \in BOOLEAN
  BY ConfigAssumption
  DEF NumQPs, GlobalNumQPs, QpBase, LogicalQueuesPerQP, NumNodes, MaxInflightCfg,
      UseArrivalQueue, ChannelizeGpuPeers, EnableRemoteTail, DirectDmabuf, DrainMayTimeOut
<1>2. TotalLogicalQueues \in Nat \ {0}
  BY <1>1, SMT DEF TotalLogicalQueues
<1>3. QPs \subseteq Nat /\ 0 \in QPs
  BY <1>1 DEF QPs
<1>4. IsFiniteSet(QPs)
  BY <1>1, FS_Interval DEF QPs
<1> QED
  BY <1>1, <1>2, <1>3, <1>4

\* The fields of a command.
LEMMA CmdFacts ==
    ASSUME cfg \in Configs, NEW c \in Cmds
    PROVE  /\ c.type \in {"WRITE", "FENCE", "BARRIER_NOTIFY"} /\ c.view \in 0..2
           /\ c.rows \in Nat /\ c.tile \in Nat /\ c.lane \in Nat /\ c.chan \in Nat
           /\ c.gen \in Nat /\ LogicalQueue(c) \in LogicalQueues
<1>1. PICK d \in UNION Kernels, e \in Nat : c = Of(d, e)
  BY DEF Cmds
<1>2. d \in [type : {"WRITE", "FENCE", "BARRIER_NOTIFY"}, view : 0..2, rows : Nat,
             tile : Nat, lane : Nat, chan : Nat]
  BY KernelAssumption DEF Kernels
<1>3. /\ c.type \in {"WRITE", "FENCE", "BARRIER_NOTIFY"} /\ c.view \in 0..2
      /\ c.rows \in Nat /\ c.tile \in Nat /\ c.lane \in Nat /\ c.chan \in Nat
      /\ c.gen \in Nat
  BY <1>1, <1>2 DEF Of
<1>4. LogicalQueue(c) \in LogicalQueues
  BY <1>3, CfgFacts DEF LogicalQueue, LogicalQueues
<1> QED
  BY <1>3, <1>4

\* The configuration never changes, nor anything that is computed from it.
LEMMA CfgKept ==
    ASSUME cfg' = cfg
    PROVE  /\ QPs' = QPs /\ LogicalQueues' = LogicalQueues /\ Cmds' = Cmds /\ Wrs' = Wrs
           /\ Routed' = Routed /\ DrainsAll' = DrainsAll /\ UseArrivalQueue' = UseArrivalQueue
           /\ EnableRemoteTail' = EnableRemoteTail /\ BarrierQPs' = BarrierQPs
           /\ QueueHasOneQP' = QueueHasOneQP
           /\ \A c : /\ RouteQp(c)' = RouteQp(c) /\ LogicalQueue(c)' = LogicalQueue(c)
                     /\ Collectable(c)' = Collectable(c) /\ Strided(c)' = Strided(c)
                     /\ Transferable(c)' = Transferable(c)
<1>1. /\ NumQPs' = NumQPs /\ GlobalNumQPs' = GlobalNumQPs /\ QpBase' = QpBase
      /\ LogicalQueuesPerQP' = LogicalQueuesPerQP /\ NumNodes' = NumNodes
      /\ UseArrivalQueue' = UseArrivalQueue /\ ChannelizeGpuPeers' = ChannelizeGpuPeers
      /\ EnableRemoteTail' = EnableRemoteTail /\ DirectDmabuf' = DirectDmabuf
      /\ DrainMayTimeOut' = DrainMayTimeOut /\ Kernels' = Kernels
  BY DEF NumQPs, GlobalNumQPs, QpBase, LogicalQueuesPerQP, NumNodes, Kernels,
      UseArrivalQueue, ChannelizeGpuPeers, EnableRemoteTail, DirectDmabuf, DrainMayTimeOut
<1>2. /\ QPs' = QPs /\ LogicalQueues' = LogicalQueues /\ Routed' = Routed
      /\ DrainsAll' = DrainsAll /\ Cmds' = Cmds /\ BarrierQPs' = BarrierQPs
      /\ TotalLogicalQueues' = TotalLogicalQueues
  BY <1>1 DEF QPs, LogicalQueues, TotalLogicalQueues, Routed, DrainsAll, Cmds, BarrierQPs
<1>3. Wrs' = Wrs
  BY <1>2 DEF Wrs
<1>4. \A c : /\ RouteQp(c)' = RouteQp(c) /\ LogicalQueue(c)' = LogicalQueue(c)
             /\ Strided(c)' = Strided(c)
  BY <1>1, <1>2 DEF RouteQp, LogicalQueue, Strided
<1>5. \A c : Collectable(c)' = Collectable(c) /\ Transferable(c)' = Transferable(c)
  BY <1>2, <1>4 DEF Collectable, Transferable
<1>6. QueueHasOneQP' = QueueHasOneQP
  BY <1>1, <1>4 DEF QueueHasOneQP
<1> QED
  BY <1>1, <1>2, <1>3, <1>4, <1>5, <1>6

-----------------------------------------------------------------------------
\* The chains of WRs that are posted.

\* The WRs after the data of a command.
Tails == IF UseArrivalQueue /\ EnableRemoteTail THEN 2 ELSE 1

\* A chain for the commands of b whose last WR is signaled with n: the flags are at the
\* places p, in the order of b, each after the data and before the tail of its command.
Chained(ch, b, n, p) ==
    /\ ch \in Seq(Wrs) /\ Len(ch) > 0
    /\ \A k \in 1..Len(ch) :
         /\ ch[k].epoch = epoch /\ ch[k].op \in {"data", "flag", "tail"}
         /\ ch[k].wr_count = IF k = Len(ch) THEN n ELSE 0
         /\ \E i \in 1..Len(b) : ch[k].cmd = b[i]
         /\ ch[k].op = "flag" => \E i \in 1..Len(b) : k = p[i]
         /\ ch[k].op = "tail" => \E i \in 1..Len(b) :
              p[i] < k /\ ch[k].cmd = b[i] /\ ch[k].slot = SlotOf(b, i) + 1
    /\ \A i \in 1..Len(b) :
         /\ p[i] \in 1..Len(ch)
         /\ ch[p[i]].op = "flag" /\ ch[p[i]].cmd = b[i] /\ ch[p[i]].slot = SlotOf(b, i)
         /\ \A h \in 1..Len(b) : h < i => p[h] < p[i]
         /\ Cardinality({k \in 1..(p[i] - 1) : ch[k].op = "data" /\ ch[k].cmd = b[i]})
              = IF Strided(b[i]) THEN DataWrs(b[i]) ELSE 1

\* Wr makes a work request.
LEMMA WrFacts ==
    ASSUME TypeOK, NEW c \in Cmds, NEW s \in Nat, NEW n \in Nat,
           NEW op \in {"data", "flag", "tail", "barrier"}
    PROVE  /\ Wr(op, c, s, n) \in Wrs
           /\ Wr(op, c, s, n).op = op /\ Wr(op, c, s, n).cmd = c /\ Wr(op, c, s, n).slot = s
           /\ Wr(op, c, s, n).epoch = epoch /\ Wr(op, c, s, n).wr_count = n
  BY DEF Wr, Wrs, TypeOK

\* The fields of the work request that Wr makes.
LEMMA WrIs ==
    \A op, c, s, n : /\ Wr(op, c, s, n).op = op /\ Wr(op, c, s, n).cmd = c
                     /\ Wr(op, c, s, n).slot = s /\ Wr(op, c, s, n).epoch = epoch
                     /\ Wr(op, c, s, n).wr_count = n
  BY DEF Wr

\* A command posts its flag and, with remote tails, its tail, the last of them signaled.
LEMMA FlagFacts ==
    ASSUME TypeOK, NEW c \in Cmds, NEW s \in Nat, NEW n \in Nat
    PROVE  /\ FlagWrs(c, s, n) \in Seq(Wrs) /\ Len(FlagWrs(c, s, n)) = Tails
           /\ FlagWrs(c, s, n)[1] = Wr("flag", c, s, IF Tails = 1 THEN n ELSE 0)
           /\ Tails = 2 => FlagWrs(c, s, n)[2] = Wr("tail", c, s + 1, n)
<1>1. /\ Wr("flag", c, s, 0) \in Wrs /\ Wr("flag", c, s, n) \in Wrs
      /\ Wr("tail", c, s + 1, n) \in Wrs
  BY WrFacts
<1> HIDE DEF Wr, Wrs
<1>2. CASE UseArrivalQueue /\ EnableRemoteTail
  BY <1>1, <1>2 DEF FlagWrs, Tails
<1>3. CASE ~(UseArrivalQueue /\ EnableRemoteTail)
  BY <1>1, <1>3 DEF FlagWrs, Tails
<1> QED
  BY <1>2, <1>3

\* The slot of a command of a batch is a natural.
LEMMA SlotFacts ==
    ASSUME TypeOK, NEW b \in Seq(Cmds), NEW i \in 1..Len(b)
    PROVE  SlotOf(b, i) \in Nat /\ b[i] \in Cmds
<1>1. b[i] \in Cmds
  BY ElementOfSeq
<1>2. Len(b) \in Nat
  BY LenProperties
<1>3. LogicalQueue(b[i]) \in LogicalQueues /\ b[i].tile \in Nat
  BY <1>1, CmdFacts DEF TypeOK
<1> DEFINE H == {h \in 1..(i - 1) : LogicalQueue(b[h]) = LogicalQueue(b[i])}
<1>4. H \in SUBSET (1..(i - 1)) /\ i - 1 \in Int /\ 1 \in Int
  BY <1>2
<1>5. Cardinality(H) \in Nat
  BY <1>4, PartFinite, Zenon
<1>6. sender_seq[LogicalQueue(b[i])] \in Nat
  BY <1>3 DEF TypeOK
<1> QED
  BY <1>1, <1>3, <1>5, <1>6 DEF SlotOf

\* The WRs of one command of a batch.
Count(b, i) == IF i = Len(b) THEN Len(b) ELSE 0
One(b, i) == <<Wr("data", b[i], 0, 0)>> \o FlagWrs(b[i], SlotOf(b, i), Count(b, i))

\* A batched command posts its data, its flag and, with remote tails, its tail.
LEMMA OneFacts ==
    ASSUME TypeOK, NEW b \in Seq(Cmds), NEW i \in 1..Len(b)
    PROVE  /\ One(b, i) \in Seq(Wrs) /\ Len(One(b, i)) = 1 + Tails
           /\ Count(b, i) \in Nat
           /\ One(b, i)[1] = Wr("data", b[i], 0, 0)
           /\ One(b, i)[2] = Wr("flag", b[i], SlotOf(b, i), IF Tails = 1 THEN Count(b, i) ELSE 0)
           /\ Tails = 2 => One(b, i)[3] = Wr("tail", b[i], SlotOf(b, i) + 1, Count(b, i))
<1> DEFINE n == Count(b, i)
           d == <<Wr("data", b[i], 0, 0)>>
           f == FlagWrs(b[i], SlotOf(b, i), n)
<1>1. SlotOf(b, i) \in Nat /\ b[i] \in Cmds /\ n \in Nat
  BY SlotFacts, LenProperties DEF Count
<1>2. Wr("data", b[i], 0, 0) \in Wrs
  BY <1>1, WrFacts
<1>3. d \in Seq(Wrs) /\ Len(d) = 1 /\ d[1] = Wr("data", b[i], 0, 0)
  BY <1>2
<1>4. /\ f \in Seq(Wrs) /\ Len(f) = Tails
      /\ f[1] = Wr("flag", b[i], SlotOf(b, i), IF Tails = 1 THEN n ELSE 0)
      /\ Tails = 2 => f[2] = Wr("tail", b[i], SlotOf(b, i) + 1, n)
  <2> HIDE DEF n
  <2> QED
    BY <1>1, FlagFacts
<1>5. Tails \in {1, 2}
  BY DEF Tails
<1>6. One(b, i) = d \o f
  BY DEF One
<1> HIDE DEF d, f
<1>7. /\ d \o f \in Seq(Wrs) /\ Len(d \o f) = Len(d) + Len(f)
      /\ \A k \in 1..(Len(d) + Len(f)) : (d \o f)[k] = IF k <= Len(d) THEN d[k] ELSE f[k - Len(d)]
  BY <1>3, <1>4, ConcatProperties
<1>8. (d \o f)[1] = d[1] /\ (d \o f)[2] = f[1] /\ (Tails = 2 => (d \o f)[3] = f[2])
  BY <1>3, <1>4, <1>5, <1>7
<1> QED
  BY <1>1, <1>3, <1>4, <1>6, <1>7, <1>8

\* The place of the m-th WR of the i-th command, and what stands at a place.
At(i, m) == (1 + Tails) * (i - 1) + m
Row(k) == (k - 1) \div (1 + Tails) + 1
Col(k) == ((k - 1) % (1 + Tails)) + 1

\* The WRs of n commands, 1 + Tails of them each, numbered through.
LEMMA Places ==
    ASSUME NEW n \in Nat
    PROVE  /\ Tails \in {1, 2}
           /\ \A k \in 1..((1 + Tails) * n) :
                Row(k) \in 1..n /\ Col(k) \in 1..(1 + Tails) /\ k = At(Row(k), Col(k))
           /\ \A i \in 1..n, m \in 1..(1 + Tails) :
                /\ At(i, m) \in 1..((1 + Tails) * n) /\ Row(At(i, m)) = i /\ Col(At(i, m)) = m
                /\ At(i, m) = (1 + Tails) * n <=> i = n /\ m = 1 + Tails
                /\ At(i, m) = At(i, 1) + m - 1
                /\ \A j \in 1..n : j < i => At(j, m) < At(i, m)
<1>1. Tails = 1 \/ Tails = 2
  BY DEF Tails
<1>2. CASE Tails = 1
  BY <1>2 DEF At, Row, Col
<1>3. CASE Tails = 2
  BY <1>3 DEF At, Row, Col
<1> QED
  BY <1>1, <1>2, <1>3

\* The WRs of a batch are those of its commands, one command after the other.
LEMMA ChainLayout ==
    ASSUME TypeOK, NEW b \in Seq(Cmds), b # <<>>
    PROVE  /\ Chain(b) \in Seq(Wrs) /\ Len(Chain(b)) = (1 + Tails) * Len(b)
           /\ \A i \in 1..Len(b), m \in 1..(1 + Tails) : Chain(b)[At(i, m)] = One(b, i)[m]
<1>1. Len(b) \in Nat \ {0} /\ b[1] \in Cmds
  BY EmptySeq, LenProperties, ElementOfSeq
<1>2. Len(FlagWrs(b[1], 0, 0)) = Tails
  BY <1>1, FlagFacts
<1> DEFINE N == (1 + Tails) * Len(b)
           e(k) == One(b, Row(k))[Col(k)]
<1>3. Chain(b) = [k \in 1..N |-> e(k)]
  BY <1>2 DEF Chain, One, Count, Row, Col
<1>4. N \in Nat
  BY <1>1 DEF Tails
<1>5. ASSUME NEW k \in 1..N PROVE e(k) \in Wrs
  <2>1. Row(k) \in 1..Len(b) /\ Col(k) \in 1..(1 + Tails)
    BY <1>1, Places
  <2>2. One(b, Row(k)) \in Seq(Wrs) /\ Len(One(b, Row(k))) = 1 + Tails
    BY <2>1, OneFacts
  <2> QED
    BY <2>1, <2>2, ElementOfSeq
<1> HIDE DEF N, e
<1>6. [k \in 1..N |-> e(k)] \in Seq(Wrs) /\ Len([k \in 1..N |-> e(k)]) = N
  BY <1>4, <1>5
<1>7. \A k \in 1..N : Chain(b)[k] = e(k)
  BY <1>3
<1>8. ASSUME NEW i \in 1..Len(b), NEW m \in 1..(1 + Tails)
      PROVE  Chain(b)[At(i, m)] = One(b, i)[m]
  <2>1. At(i, m) \in 1..N /\ Row(At(i, m)) = i /\ Col(At(i, m)) = m
    BY <1>1, Places DEF N
  <2> QED
    BY <1>7, <2>1 DEF e
<1> QED
  BY <1>3, <1>6, <1>8 DEF N

\* The chain of a batch of different commands has each command's WRs once, data first.
LEMMA ChainIsChained ==
    ASSUME TypeOK, NEW b \in Seq(Cmds), b # <<>>,
           \A i, j \in 1..Len(b) : b[i] = b[j] => i = j,
           \A i \in 1..Len(b) : ~Strided(b[i])
    PROVE  \E p : Chained(Chain(b), b, Len(b), p)
<1> DEFINE ch == Chain(b)
           p == [i \in 1..Len(b) |-> At(i, 2)]
<1>1. Len(b) \in Nat \ {0}
  BY EmptySeq
<1>2. /\ ch \in Seq(Wrs) /\ Len(ch) = (1 + Tails) * Len(b)
      /\ \A i \in 1..Len(b), m \in 1..(1 + Tails) : ch[At(i, m)] = One(b, i)[m]
  BY ChainLayout
<1>3. /\ Tails \in {1, 2}
      /\ \A k \in 1..Len(ch) :
           Row(k) \in 1..Len(b) /\ Col(k) \in 1..(1 + Tails) /\ k = At(Row(k), Col(k))
      /\ \A i \in 1..Len(b), m \in 1..(1 + Tails) :
           /\ At(i, m) \in 1..Len(ch) /\ Row(At(i, m)) = i /\ Col(At(i, m)) = m
           /\ At(i, m) = Len(ch) <=> i = Len(b) /\ m = 1 + Tails
           /\ At(i, m) = At(i, 1) + m - 1
           /\ \A j \in 1..Len(b) : j < i => At(j, m) < At(i, m)
  <2> DEFINE N == (1 + Tails) * Len(b)
  <2>1. /\ Tails \in {1, 2}
        /\ \A k \in 1..N :
             Row(k) \in 1..Len(b) /\ Col(k) \in 1..(1 + Tails) /\ k = At(Row(k), Col(k))
        /\ \A i \in 1..Len(b), m \in 1..(1 + Tails) :
             /\ At(i, m) \in 1..N /\ Row(At(i, m)) = i /\ Col(At(i, m)) = m
             /\ At(i, m) = N <=> i = Len(b) /\ m = 1 + Tails
             /\ At(i, m) = At(i, 1) + m - 1
             /\ \A j \in 1..Len(b) : j < i => At(j, m) < At(i, m)
    BY <1>1, Places
  <2>2. Len(ch) = N
    BY <1>2
  <2> HIDE DEF N, ch
  <2> QED
    BY <2>1, <2>2
<1>4. \A i \in 1..Len(b) : b[i] \in Cmds /\ SlotOf(b, i) \in Nat /\ Count(b, i) \in Nat
  BY SlotFacts, OneFacts
<1>5. 1 \in 1..(1 + Tails) /\ 2 \in 1..(1 + Tails) /\ (Tails = 2 => 3 \in 1..(1 + Tails))
  BY <1>3
<1> HIDE DEF ch
<1>6. ASSUME NEW i \in 1..Len(b)
      PROVE  /\ ch[At(i, 1)] = Wr("data", b[i], 0, 0)
             /\ ch[At(i, 2)]
                  = Wr("flag", b[i], SlotOf(b, i), IF Tails = 1 THEN Count(b, i) ELSE 0)
             /\ Tails = 2 => ch[At(i, 3)] = Wr("tail", b[i], SlotOf(b, i) + 1, Count(b, i))
  BY <1>2, <1>5, OneFacts
<1>7. ASSUME NEW i \in 1..Len(b)
      PROVE  /\ ch[At(i, 1)].op = "data" /\ ch[At(i, 1)].cmd = b[i]
             /\ ch[At(i, 1)].epoch = epoch /\ ch[At(i, 1)].wr_count = 0
  BY <1>6, WrIs
<1>8. ASSUME NEW i \in 1..Len(b)
      PROVE  /\ ch[At(i, 2)].op = "flag" /\ ch[At(i, 2)].cmd = b[i]
             /\ ch[At(i, 2)].epoch = epoch /\ ch[At(i, 2)].slot = SlotOf(b, i)
             /\ ch[At(i, 2)].wr_count = IF Tails = 1 THEN Count(b, i) ELSE 0
  BY <1>6, WrIs
<1>9. ASSUME NEW i \in 1..Len(b), Tails = 2
      PROVE  /\ ch[At(i, 3)].op = "tail" /\ ch[At(i, 3)].cmd = b[i]
             /\ ch[At(i, 3)].epoch = epoch /\ ch[At(i, 3)].slot = SlotOf(b, i) + 1
             /\ ch[At(i, 3)].wr_count = Count(b, i)
  BY <1>6, <1>9, WrIs
<1>10. ASSUME NEW k \in 1..Len(ch) PROVE Col(k) = 1 \/ Col(k) = 2 \/ (Col(k) = 3 /\ Tails = 2)
  <2>1. Col(k) \in 1..(1 + Tails) /\ (Tails = 1 \/ Tails = 2)
    BY <1>3
  <2> QED
    BY <2>1
<1>11. ASSUME NEW k \in 1..Len(ch)
       PROVE  /\ ch[k].epoch = epoch /\ ch[k].op \in {"data", "flag", "tail"}
              /\ ch[k].wr_count = IF k = Len(ch) THEN Len(b) ELSE 0
              /\ \E i \in 1..Len(b) : ch[k].cmd = b[i]
              /\ ch[k].op = "flag" => \E i \in 1..Len(b) : k = p[i]
              /\ ch[k].op = "tail" => \E i \in 1..Len(b) :
                   p[i] < k /\ ch[k].cmd = b[i] /\ ch[k].slot = SlotOf(b, i) + 1
  <2> DEFINE i == Row(k)
  <2>1. i \in 1..Len(b) /\ k = At(i, Col(k))
    BY <1>3
  <2>2. k = Len(ch) <=> i = Len(b) /\ Col(k) = 1 + Tails
    BY <1>3, <2>1, SMTT(20)
  <2>3. p[i] = At(i, 2)
    BY <2>1
  <2> HIDE DEF i, p
  <2>4. CASE Col(k) = 1
    <3>1. /\ ch[k].op = "data" /\ ch[k].cmd = b[i] /\ ch[k].epoch = epoch /\ ch[k].wr_count = 0
      BY <1>7, <2>1, <2>4
    <3>2. k # Len(ch)
      BY <1>3, <2>2, <2>4
    <3> QED
      BY <2>1, <3>1, <3>2
  <2>5. CASE Col(k) = 2
    <3>1. /\ ch[k].op = "flag" /\ ch[k].cmd = b[i] /\ ch[k].epoch = epoch
          /\ ch[k].wr_count = IF Tails = 1 THEN Count(b, i) ELSE 0
      BY <1>8, <2>1, <2>5
    <3>2. k = Len(ch) <=> i = Len(b) /\ Tails = 1
      BY <1>3, <2>2, <2>5
    <3>3. ch[k].wr_count = IF k = Len(ch) THEN Len(b) ELSE 0
      BY <3>1, <3>2 DEF Count
    <3>4. k = p[i]
      BY <2>1, <2>3, <2>5
    <3> QED
      BY <2>1, <3>1, <3>3, <3>4
  <2>6. CASE Col(k) = 3 /\ Tails = 2
    <3>1. At(i, 3) = At(i, 1) + 3 - 1 /\ At(i, 2) = At(i, 1) + 2 - 1 /\ At(i, 1) \in 1..Len(ch)
      BY <1>3, <1>5, <2>1, <2>6
    <3>2. /\ ch[k].op = "tail" /\ ch[k].cmd = b[i] /\ ch[k].epoch = epoch
          /\ ch[k].slot = SlotOf(b, i) + 1 /\ ch[k].wr_count = Count(b, i)
      BY <1>9, <2>1, <2>6
    <3>3. k = Len(ch) <=> i = Len(b)
      BY <2>2, <2>6
    <3>4. ch[k].wr_count = IF k = Len(ch) THEN Len(b) ELSE 0
      BY <3>2, <3>3 DEF Count
    <3>5. At(i, 1) \in Int
      BY <3>1
    <3>6. p[i] < k
      BY <2>1, <2>3, <2>6, <3>1, <3>5
    <3> QED
      BY <2>1, <3>2, <3>4, <3>6
  <2> QED
    BY <1>10, <2>4, <2>5, <2>6
<1>12. ASSUME NEW i \in 1..Len(b)
       PROVE  /\ p[i] \in 1..Len(ch)
              /\ ch[p[i]].op = "flag" /\ ch[p[i]].cmd = b[i] /\ ch[p[i]].slot = SlotOf(b, i)
              /\ \A h \in 1..Len(b) : h < i => p[h] < p[i]
  BY <1>3, <1>5, <1>8
<1>13. ASSUME NEW i \in 1..Len(b)
       PROVE  Cardinality({k \in 1..(p[i] - 1) : ch[k].op = "data" /\ ch[k].cmd = b[i]}) = 1
  <2>1. p[i] - 1 = At(i, 1) /\ At(i, 1) \in 1..Len(ch)
    BY <1>3, <1>5
  <2>2. ASSUME NEW k \in 1..At(i, 1), ch[k].op = "data", ch[k].cmd = b[i] PROVE k = At(i, 1)
    <3>0. k \in 1..Len(ch)
      BY <1>1, <1>2, <1>3, <2>1
    <3>1. Row(k) \in 1..Len(b) /\ k = At(Row(k), Col(k))
      BY <1>3, <3>0
    <3>2. Col(k) = 1
      BY <1>8, <1>9, <1>10, <2>2, <3>0, <3>1
    <3>3. ch[k].cmd = b[Row(k)]
      BY <1>7, <3>1, <3>2
    <3> QED
      BY <2>2, <3>1, <3>2, <3>3
  <2>3. {k \in 1..At(i, 1) : ch[k].op = "data" /\ ch[k].cmd = b[i]} = {At(i, 1)}
    BY <1>7, <2>1, <2>2
  <2> QED
    BY <2>1, <2>3, FS_Singleton
<1>14. Len(ch) > 0
  BY <1>1, <1>2, <1>3
<1> HIDE DEF p
<1>15. Chained(ch, b, Len(b), p)
  BY <1>2, <1>11, <1>12, <1>13, <1>14 DEF Chained
<1> QED
  BY <1>15 DEF ch

\* So has the chain of a strided command, after all its rows.
LEMMA StridedIsChained ==
    ASSUME TypeOK, NEW c \in Cmds, Strided(c), StridedShapeOk(c)
    PROVE  \E p : Chained(StridedChain(c), <<c>>, Len(StridedChain(c)), p)
<1> DEFINE n == DataWrs(c)
           b == <<c>>
           s == SlotOf(b, 1)
           d == [k \in 1..n |-> Wr("data", c, 0, 0)]
           f == FlagWrs(c, s, n + Tails)
           ch == StridedChain(c)
           p == [i \in 1..1 |-> n + 1]
<1>1. b \in Seq(Cmds) /\ Len(b) = 1 /\ b[1] = c
  OBVIOUS
<1>2. s \in Nat
  <2> HIDE DEF b
  <2>1. 1 \in 1..Len(b)
    BY <1>1
  <2> QED
    BY <1>1, <2>1, SlotFacts
<1>3. n \in Nat \ {0}
  <2>1. c.rows \in Nat \ {0} /\ MaxSendSge \in Nat \ {0}
    BY LimitAssumption DEF StridedShapeOk
  <2> QED
    BY <2>1, SMT DEF DataWrs
<1>4. Tails \in {1, 2}
  BY DEF Tails
<1>5. ch = d \o f
  <2>1. Len(FlagWrs(c, 0, 0)) = Tails
    BY FlagFacts
  <2> QED
    BY <2>1 DEF StridedChain
<1>6. /\ f \in Seq(Wrs) /\ Len(f) = Tails
      /\ f[1] = Wr("flag", c, s, IF Tails = 1 THEN n + Tails ELSE 0)
      /\ Tails = 2 => f[2] = Wr("tail", c, s + 1, n + Tails)
  <2>1. n + Tails \in Nat
    BY <1>3, <1>4
  <2> HIDE DEF n, s
  <2> QED
    BY <1>2, <2>1, FlagFacts
<1>7. Wr("data", c, 0, 0) \in Wrs
  BY WrFacts
<1> HIDE DEF n, s, f
<1>8. d \in Seq(Wrs) /\ Len(d) = n /\ \A k \in 1..n : d[k] = Wr("data", c, 0, 0)
  BY <1>3, <1>7
<1> HIDE DEF d
<1>9. /\ ch \in Seq(Wrs) /\ Len(ch) = n + Tails
      /\ \A k \in 1..(n + Tails) : ch[k] = IF k <= n THEN d[k] ELSE f[k - n]
  <2>1. /\ d \o f \in Seq(Wrs) /\ Len(d \o f) = Len(d) + Len(f)
        /\ \A k \in 1..(Len(d) + Len(f)) :
             (d \o f)[k] = IF k <= Len(d) THEN d[k] ELSE f[k - Len(d)]
    BY <1>6, <1>8, ConcatProperties
  <2> QED
    BY <1>5, <1>6, <1>8, <2>1
<1> HIDE DEF ch
<1>10. \A k \in 1..n : ch[k] = Wr("data", c, 0, 0)
  BY <1>3, <1>4, <1>8, <1>9
<1>11. /\ ch[n + 1] = Wr("flag", c, s, IF Tails = 1 THEN n + Tails ELSE 0)
       /\ Tails = 2 => ch[n + 2] = Wr("tail", c, s + 1, n + Tails)
  BY <1>3, <1>4, <1>6, <1>9
<1>12. /\ \A k \in 1..n : /\ ch[k].op = "data" /\ ch[k].cmd = c /\ ch[k].epoch = epoch
                          /\ ch[k].wr_count = 0
       /\ ch[n + 1].op = "flag" /\ ch[n + 1].cmd = c /\ ch[n + 1].epoch = epoch
       /\ ch[n + 1].slot = s /\ ch[n + 1].wr_count = (IF Tails = 1 THEN n + Tails ELSE 0)
       /\ Tails = 2 => /\ ch[n + 2].op = "tail" /\ ch[n + 2].cmd = c /\ ch[n + 2].epoch = epoch
                       /\ ch[n + 2].slot = s + 1 /\ ch[n + 2].wr_count = n + Tails
  BY <1>2, <1>3, <1>4, <1>10, <1>11 DEF Wr
<1>13. ASSUME NEW k \in 1..Len(ch)
       PROVE  /\ ch[k].epoch = epoch /\ ch[k].op \in {"data", "flag", "tail"}
              /\ ch[k].wr_count = IF k = Len(ch) THEN Len(ch) ELSE 0
              /\ \E i \in 1..Len(b) : ch[k].cmd = b[i]
              /\ ch[k].op = "flag" => \E i \in 1..Len(b) : k = p[i]
              /\ ch[k].op = "tail" => \E i \in 1..Len(b) :
                   p[i] < k /\ ch[k].cmd = b[i] /\ ch[k].slot = SlotOf(b, i) + 1
  <2>1. k \in 1..n \/ k = n + 1 \/ (Tails = 2 /\ k = n + 2)
    BY <1>3, <1>4, <1>9
  <2>2. 1 \in 1..Len(b) /\ b[1] = c /\ p[1] = n + 1 /\ SlotOf(b, 1) = s
    BY <1>1 DEF s
  <2> HIDE DEF p, b
  <2>3. CASE k \in 1..n
    BY <1>3, <1>4, <1>9, <1>12, <2>2, <2>3
  <2>4. CASE k = n + 1
    BY <1>3, <1>4, <1>9, <1>12, <2>2, <2>4
  <2>5. CASE Tails = 2 /\ k = n + 2
    BY <1>3, <1>4, <1>9, <1>12, <2>2, <2>5
  <2> QED
    BY <2>1, <2>3, <2>4, <2>5
<1>14. Cardinality({k \in 1..(p[1] - 1) : ch[k].op = "data" /\ ch[k].cmd = c}) = n
  <2>1. {k \in 1..(p[1] - 1) : ch[k].op = "data" /\ ch[k].cmd = c} = 1..n
    BY <1>3, <1>12
  <2>2. Cardinality(1..n) = n
    BY <1>3, FS_Interval
  <2> QED
    BY <2>1, <2>2
<1>15. ASSUME NEW i \in 1..Len(b)
       PROVE  /\ p[i] \in 1..Len(ch)
              /\ ch[p[i]].op = "flag" /\ ch[p[i]].cmd = b[i] /\ ch[p[i]].slot = SlotOf(b, i)
              /\ \A h \in 1..Len(b) : h < i => p[h] < p[i]
              /\ Cardinality({k \in 1..(p[i] - 1) : ch[k].op = "data" /\ ch[k].cmd = b[i]})
                   = IF Strided(b[i]) THEN DataWrs(b[i]) ELSE 1
  <2>1. i = 1 /\ b[i] = c /\ p[i] = n + 1 /\ SlotOf(b, i) = s
    BY <1>1 DEF s
  <2>2. n = DataWrs(c)
    BY DEF n
  <2>3. \A h \in 1..Len(b) : h < i => p[h] < p[i]
    BY <1>1, <2>1
  <2> HIDE DEF p, b
  <2>4. p[i] \in 1..Len(ch)
    BY <1>3, <1>4, <1>9, <2>1
  <2> QED
    BY <1>12, <1>14, <2>1, <2>2, <2>3, <2>4
<1>16. Len(ch) > 0
  BY <1>3, <1>4, <1>9
<1> HIDE DEF p, b
<1>17. Chained(ch, b, Len(ch), p)
  BY <1>9, <1>13, <1>15, <1>16 DEF Chained
<1> QED
  BY <1>17 DEF ch, b

-----------------------------------------------------------------------------
\* The NIC.

\* Every non-empty set of naturals has a least element.
LEMMA NatLeast ==
    ASSUME NEW T \in SUBSET Nat, T # {}
    PROVE  \E n \in T : \A m \in T : n <= m
<1>1. IsWellFoundedOn(OpToRel(<, Nat), Nat)
  BY NatLessThanWellFounded
<1>2. PICK n \in T : \A m \in T : ~(<<m, n>> \in OpToRel(<, Nat))
  BY <1>1, WFMin
<1>3. \A m \in T : ~(m < n)
  BY <1>2 DEF OpToRel
<1> QED
  BY <1>3

\* The smaller of two numbers.
LEMMA MinOfTwo ==
    ASSUME NEW a \in Int, NEW b \in Int
    PROVE  Min({a, b}) = IF a <= b THEN a ELSE b
<1>1. \E x \in {a, b} : \A y \in {a, b} : x <= y
  OBVIOUS
<1>2. Min({a, b}) \in {a, b} /\ \A y \in {a, b} : Min({a, b}) <= y
  BY <1>1 DEF Min
<1> QED
  BY <1>2

\* A bounded set of integers has a maximum.
LEMMA MaxFacts ==
    ASSUME NEW a \in Int, NEW b \in Int, NEW S \in SUBSET (a..b), S # {}
    PROVE  Max(S) \in S /\ \A y \in S : y <= Max(S)
<1> DEFINE T == {b - x : x \in S}
<1>1. T \in SUBSET Nat /\ T # {}
  OBVIOUS
<1>2. PICK n \in T : \A m \in T : n <= m
  <2> HIDE DEF T
  <2> QED
    BY <1>1, NatLeast
<1>3. PICK x \in S : n = b - x
  OBVIOUS
<1>4. ASSUME NEW y \in S PROVE y <= x
  <2>1. b - y \in T /\ y \in Int /\ x \in Int
    OBVIOUS
  <2>2. b - x <= b - y
    BY <1>2, <1>3, <2>1
  <2> QED
    BY <2>1, <2>2
<1>5. \E z \in S : \A y \in S : y <= z
  BY <1>4
<1> QED
  BY <1>5 DEF Max

\* The largest number of a set is the one no other exceeds.
LEMMA MaxIs ==
    ASSUME NEW S \in SUBSET Int, NEW x \in S, \A y \in S : y <= x
    PROVE  Max(S) = x
<1>1. Max(S) \in S /\ \A y \in S : y <= Max(S)
  BY DEF Max
<1>2. x <= Max(S) /\ Max(S) <= x /\ x \in Int /\ Max(S) \in Int
  BY <1>1
<1> QED
  BY <1>2

\* Sequence t is s with the first m elements of ch after it.
Longer(s, t, ch, m) ==
    /\ m \in 0..Len(ch) /\ Len(t) = Len(s) + m
    /\ \A i \in 1..Len(s) : t[i] = s[i]
    /\ \A i \in 1..m : t[Len(s) + i] = ch[i]

\* What ibv_post_send appends of a chain is a prefix of it.
LEMMA LongerFacts ==
    ASSUME NEW S, NEW s \in Seq(S), NEW ch \in Seq(S), NEW m \in 0..Len(ch)
    PROVE  /\ s \o SubSeq(ch, 1, m) \in Seq(S)
           /\ Longer(s, s \o SubSeq(ch, 1, m), ch, m)
<1> DEFINE u == SubSeq(ch, 1, m)
<1>1. Len(s) \in Nat /\ Len(ch) \in Nat
  BY LenProperties
<1>2. u \in Seq(S) /\ Len(u) = m /\ \A i \in 1..m : u[i] = ch[i]
  BY <1>1
<1> HIDE DEF u
<1>3. /\ s \o u \in Seq(S) /\ Len(s \o u) = Len(s) + Len(u)
      /\ \A i \in 1..(Len(s) + Len(u)) : (s \o u)[i] = IF i <= Len(s) THEN s[i] ELSE u[i - Len(s)]
  BY <1>2, ConcatProperties
<1>4. \A i \in 1..Len(s) : (s \o u)[i] = s[i]
  BY <1>1, <1>2, <1>3
<1>5. \A i \in 1..m : (s \o u)[Len(s) + i] = ch[i]
  BY <1>1, <1>2, <1>3
<1> QED
  BY <1>2, <1>3, <1>4, <1>5 DEF Longer, u

\* Appending one WR is posting a chain of one.
LEMMA AppendIsLonger ==
    ASSUME NEW S, NEW s \in Seq(S), NEW x \in S
    PROVE  Append(s, x) \in Seq(S) /\ Longer(s, Append(s, x), <<x>>, 1)
  BY DEF Longer

\* A chain of n WRs goes onto QP q: the prefix that fits.
LEMMA PostFacts ==
    ASSUME TypeOK, NEW q \in QPs, Room(q) >= 0, NEW ch \in Seq(Wrs),
           posted' = [posted EXCEPT ![q] = @ \o SubSeq(ch, 1, Accepts(q, Len(ch)))]
    PROVE  /\ posted' \in [QPs -> Seq(Wrs)]
           /\ \E m \in 0..Len(ch) :
                /\ Longer(posted[q], posted'[q], ch, m) /\ m <= Room(q)
                /\ m = Len(ch) <=> Fits(q, Len(ch))
           /\ \A r \in QPs : r # q => posted'[r] = posted[r]
<1> DEFINE m == Accepts(q, Len(ch))
<1>1. Len(ch) \in Nat /\ Len(posted[q]) \in Nat /\ freed[q] \in Nat /\ posted[q] \in Seq(Wrs)
  BY LenProperties DEF TypeOK
<1>2. Room(q) \in Int
  BY <1>1, LimitAssumption DEF Room
<1>3. m = IF Len(ch) <= Room(q) THEN Len(ch) ELSE Room(q)
  BY <1>1, <1>2, MinOfTwo DEF Accepts
<1>4. m \in 0..Len(ch) /\ m <= Room(q) /\ (m = Len(ch) <=> Fits(q, Len(ch)))
  BY <1>1, <1>2, <1>3 DEF Fits
<1> HIDE DEF m
<1>5. /\ posted[q] \o SubSeq(ch, 1, m) \in Seq(Wrs)
      /\ Longer(posted[q], posted[q] \o SubSeq(ch, 1, m), ch, m)
  BY <1>1, <1>4, LongerFacts
<1>6. posted' = [posted EXCEPT ![q] = posted[q] \o SubSeq(ch, 1, m)]
  BY DEF m
<1>7. posted'[q] = posted[q] \o SubSeq(ch, 1, m)
  BY <1>6 DEF TypeOK
<1>8. posted' \in [QPs -> Seq(Wrs)] /\ \A r \in QPs : r # q => posted'[r] = posted[r]
  BY <1>5, <1>6 DEF TypeOK
<1> QED
  BY <1>4, <1>5, <1>7, <1>8

\* The first k completions give back the SQ entries of QP q up to the last of Front(k, q).
Front(k, q) == {freed[q]} \cup {cq[i].wr : i \in {j \in 1..k : cq[j].qp = q}}

\* poll_cq frees a queue's entries up to the last completion it takes of the queue.
LEMMA FrontFacts ==
    ASSUME TypeOK, CqInv, NEW k \in 0..Len(cq), NEW q \in QPs
    PROVE  /\ Max(Front(k, q)) \in freed[q]..done[q] /\ Max(Front(k, q)) \in Nat
           /\ Max(Front(k, q)) \in Front(k, q)
           /\ \A j \in 1..k : cq[j].qp = q => cq[j].wr <= Max(Front(k, q))
<1>1. freed[q] \in Nat /\ done[q] \in Nat /\ freed[q] <= done[q] /\ Len(cq) \in Nat
  BY LenProperties DEF TypeOK, CqInv
<1>2. \A j \in 1..k : /\ cq[j].qp \in QPs /\ cq[j].wr \in Nat
                      /\ freed[cq[j].qp] < cq[j].wr /\ cq[j].wr <= done[cq[j].qp]
  <2> SUFFICES ASSUME NEW j \in 1..k
               PROVE  /\ cq[j].qp \in QPs /\ cq[j].wr \in Nat
                      /\ freed[cq[j].qp] < cq[j].wr /\ cq[j].wr <= done[cq[j].qp]
    OBVIOUS
  <2>1. j \in 1..Len(cq)
    BY <1>1
  <2>2. cq[j] \in [qp : QPs, wr : Nat]
    BY <2>1, ElementOfSeq DEF TypeOK
  <2> QED
    BY <2>1, <2>2 DEF CqInv
<1>3. Front(k, q) \in SUBSET (freed[q]..done[q]) /\ Front(k, q) # {}
  BY <1>1, <1>2 DEF Front
<1>4. Max(Front(k, q)) \in Front(k, q) /\ \A y \in Front(k, q) : y <= Max(Front(k, q))
  <2>1. freed[q] \in Int /\ done[q] \in Int
    BY <1>1
  <2> QED
    BY <1>3, <2>1, MaxFacts, Zenon
<1>5. \A j \in 1..k : cq[j].qp = q => cq[j].wr \in Front(k, q)
  BY DEF Front
<1> QED
  BY <1>1, <1>3, <1>4, <1>5

Takes == Min({CqPoll, Len(cq)})

\* poll_cq takes completions off the front of the queue, and nothing else of the NIC moves.
LEMMA PollFacts ==
    ASSUME TypeOK, CqInv, PollCq
    PROVE  /\ Takes \in 0..Len(cq) /\ cq' \in Seq([qp : QPs, wr : Nat])
           /\ Len(cq') = Len(cq) - Takes /\ \A j \in 1..Len(cq') : cq'[j] = cq[Takes + j]
           /\ freed' \in [QPs -> Nat] /\ \A q \in QPs : freed'[q] = Max(Front(Takes, q))
           /\ posted' = posted /\ done' = done
<1>1. Len(cq) \in Nat /\ CqPoll \in Nat \ {0} /\ cq \in Seq([qp : QPs, wr : Nat])
  BY LenProperties, LimitAssumption DEF TypeOK
<1>2. Takes \in 0..Len(cq)
  BY <1>1, MinOfTwo DEF Takes
<1>3. cq' = SubSeq(cq, Takes + 1, Len(cq)) /\ posted' = posted /\ done' = done
  BY DEF PollCq, Takes
<1>4. freed' = [q \in QPs |-> Max(Front(Takes, q))]
  BY DEF PollCq, Takes, Front
<1>5. /\ SubSeq(cq, Takes + 1, Len(cq)) \in Seq([qp : QPs, wr : Nat])
      /\ Len(SubSeq(cq, Takes + 1, Len(cq))) = Len(cq) - Takes
      /\ \A j \in 1..(Len(cq) - Takes) : SubSeq(cq, Takes + 1, Len(cq))[j] = cq[Takes + j]
  <2> DEFINE R == [qp : QPs, wr : Nat]
  <2>1. cq \in Seq(R) /\ Takes + 1 \in 1..(Len(cq) + 1) /\ Len(cq) \in Takes..Len(cq)
    BY <1>1, <1>2
  <2> HIDE DEF R
  <2>2. Takes \in Int
    BY <1>2
  <2>3. /\ SubSeq(cq, Takes + 1, Len(cq)) \in Seq(R)
        /\ Len(SubSeq(cq, Takes + 1, Len(cq))) = Len(cq) - Takes
        /\ \A j \in 1..(Len(cq) - Takes) : SubSeq(cq, Takes + 1, Len(cq))[j] = cq[Takes + j]
    BY <1>1, <2>1, <2>2
  <2> QED
    BY <2>3 DEF R
<1>6. \A q \in QPs : Max(Front(Takes, q)) \in Nat
  BY <1>2, FrontFacts
<1> QED
  BY <1>2, <1>3, <1>4, <1>5, <1>6

\* The completions that poll_cq leaves are those of the signaled WRs not freed yet.
LEMMA PollKeepsCq ==
    ASSUME TypeOK, CqInv, PollCq, cfg' = cfg
    PROVE  CqInv'
<1> DEFINE n == Takes
<1>1. /\ n \in 0..Len(cq) /\ cq' \in Seq([qp : QPs, wr : Nat])
      /\ Len(cq') = Len(cq) - n /\ \A j \in 1..Len(cq') : cq'[j] = cq[n + j]
      /\ freed' \in [QPs -> Nat] /\ \A q \in QPs : freed'[q] = Max(Front(n, q))
      /\ posted' = posted /\ done' = done
  BY PollFacts
<1>2. QPs' = QPs
  BY CfgKept
<1>3. Len(cq) \in Nat
  BY LenProperties DEF TypeOK
<1> HIDE DEF n
<1>4. \A j \in 1..Len(cq) : cq[j].qp \in QPs /\ cq[j].wr \in Nat
  <2>1. \A j \in 1..Len(cq) : cq[j] \in [qp : QPs, wr : Nat]
    BY ElementOfSeq DEF TypeOK
  <2> QED
    BY <2>1
<1>5. \A j \in 1..Len(cq') : n + j \in 1..Len(cq) /\ cq'[j] = cq[n + j]
  BY <1>1, <1>3
<1>6. ASSUME NEW q \in QPs
      PROVE  /\ freed[q] <= freed'[q] /\ freed'[q] <= done[q] /\ done[q] <= Len(posted[q])
             /\ Room(q)' >= 0
  <2>1. freed'[q] \in freed[q]..done[q] /\ freed[q] \in Nat /\ done[q] \in Nat
    BY <1>1, FrontFacts DEF TypeOK
  <2>2. Len(posted[q]) \in Nat /\ Room(q) >= 0 /\ done[q] <= Len(posted[q])
    BY LenProperties DEF TypeOK, CqInv
  <2> QED
    <3>1. freed'[q] \in Nat /\ freed[q] <= freed'[q] /\ freed'[q] <= done[q]
      BY <2>1
    <3>2. Room(q)' = QpSqDepth - (Len(posted[q]) - freed'[q])
      BY <1>1 DEF Room
    <3> QED
      BY <2>1, <2>2, <3>1, <3>2, LimitAssumption DEF Room
<1>7. ASSUME NEW j \in 1..Len(cq), n < j PROVE freed'[cq[j].qp] < cq[j].wr
  <2> DEFINE q == cq[j].qp
  <2>1. q \in QPs /\ cq[j].wr \in Nat
    BY <1>4
  <2>2. freed'[q] \in Front(n, q)
    BY <1>1, <2>1, FrontFacts
  <2>3. freed[q] < cq[j].wr
    BY DEF CqInv
  <2>4. ASSUME NEW i \in 1..n, cq[i].qp = q PROVE cq[i].wr < cq[j].wr
    <3>1. i \in 1..Len(cq) /\ i < j
      BY <1>1, <1>3, <1>7
    <3> QED
      BY <2>4, <3>1 DEF CqInv
  <2> QED
    BY <2>2, <2>3, <2>4 DEF Front
<1>8. ASSUME NEW j \in 1..Len(cq')
      PROVE  /\ freed'[cq'[j].qp] < cq'[j].wr /\ cq'[j].wr <= done'[cq'[j].qp]
             /\ posted'[cq'[j].qp][cq'[j].wr].wr_count > 0
  <2>1. n + j \in 1..Len(cq) /\ cq'[j] = cq[n + j] /\ n < n + j
    BY <1>1, <1>3, <1>5
  <2> QED
    BY <1>1, <1>7, <2>1 DEF CqInv
<1>9. ASSUME NEW j \in 1..Len(cq'), NEW k \in 1..Len(cq'), j < k, cq'[j].qp = cq'[k].qp
      PROVE  cq'[j].wr < cq'[k].wr
  <2>1. n + j \in 1..Len(cq) /\ n + k \in 1..Len(cq) /\ n + j < n + k
    BY <1>1, <1>3, <1>5, <1>9
  <2> QED
    BY <1>5, <1>9, <2>1 DEF CqInv
<1>10. ASSUME NEW q \in QPs, NEW i \in (freed'[q] + 1)..done[q], posted[q][i].wr_count > 0
       PROVE  \E j \in 1..Len(cq') : cq'[j].qp = q /\ cq'[j].wr = i
  <2>1. freed[q] \in Nat /\ freed'[q] \in Nat /\ done[q] \in Nat /\ freed[q] <= freed'[q]
    BY <1>1, <1>6 DEF TypeOK
  <2>2. PICK k \in 1..Len(cq) : cq[k].qp = q /\ cq[k].wr = i
    BY <1>10, <2>1 DEF CqInv
  <2>3. k > n
    <3> SUFFICES ASSUME k <= n PROVE FALSE
      BY <1>1, <1>3
    <3>1. k \in 1..n
      BY <1>1, <1>3
    <3>2. cq[k].wr <= freed'[q]
      BY <1>1, <2>2, <3>1, FrontFacts
    <3> QED
      BY <2>1, <2>2, <3>2
  <2>4. k - n \in 1..Len(cq') /\ n + (k - n) = k
    BY <1>1, <1>3, <2>3
  <2> QED
    BY <1>5, <2>2, <2>4
<1>11. \A q \in QPs : freed'[q] <= done'[q] /\ done'[q] <= Len(posted'[q]) /\ Room(q)' >= 0
  BY <1>1, <1>6
<1>12. \A q \in QPs : \A i \in (freed'[q] + 1)..done'[q] : posted'[q][i].wr_count > 0 =>
         \E j \in 1..Len(cq') : cq'[j].qp = q /\ cq'[j].wr = i
  BY <1>1, <1>10, ZenonT(40)
<1> QED
  BY <1>2, <1>8, <1>9, <1>11, <1>12 DEF CqInv

-----------------------------------------------------------------------------
\* What is outstanding, as a sum over QPs of sums over their WRs.

Weights(s) == [i \in 1..Len(s) |-> s[i].wr_count]
Remaining(s, k) == Total(Weights(s), (k + 1)..Len(s))
Left(P, f, Q) == [q \in Q |-> Remaining(P[q], f[q])]
SumAll(P, f, Q) ==
    MapThenSumSet(LAMBDA q : MapThenSumSet(LAMBDA i : P[q][i].wr_count,
                                           (f[q] + 1)..Len(P[q])), Q)

\* A sum of wr_count over places of a queue is a Total.
LEMMA SumOfSeq ==
    ASSUME NEW s, NEW T \in SUBSET (1..Len(s)), IsFiniteSet(T)
    PROVE  MapThenSumSet(LAMBDA i : s[i].wr_count, T) = Total(Weights(s), T)
<1> DEFINE w == [i \in T |-> s[i].wr_count]
           P(f) == f = [t \in SUBSET T |->
                          IF t = {} THEN 0 ELSE s[Pick(t)].wr_count + f[t \ {Pick(t)}]]
<1>1. \A f : P(f) <=> Sums(w, T, f)
  <2> SUFFICES ASSUME NEW f
               PROVE  [t \in SUBSET T |->
                         IF t = {} THEN 0 ELSE s[Pick(t)].wr_count + f[t \ {Pick(t)}]]
                    = [t \in SUBSET T |-> IF t = {} THEN 0 ELSE w[Pick(t)] + f[t \ {Pick(t)}]]
    BY DEF Sums
  <2> QED
    BY PickIn
<1>2. (CHOOSE f : P(f)) = (CHOOSE f : Sums(w, T, f))
  <2> HIDE DEF P
  <2> QED
    BY <1>1, Zenon
<1>3. MapThenSumSet(LAMBDA i : s[i].wr_count, T) = (CHOOSE f : P(f))[T]
  BY DEF MapThenSumSet, MapThenFoldSet, Pick
<1>4. MapThenSumSet(LAMBDA i : s[i].wr_count, T) = Total(w, T)
  BY <1>2, <1>3, TotalIs
<1>5. \A i \in T : w[i] = Weights(s)[i]
  BY DEF Weights
<1> QED
  BY <1>4, <1>5, TotalSame

\* A sum over the queues of sums over their places is a Total of Totals.
LEMMA SumAllIs ==
    ASSUME NEW P, NEW f, NEW Q, \A q \in Q : f[q] \in Nat /\ Len(P[q]) \in Nat
    PROVE  SumAll(P, f, Q) = Total(Left(P, f, Q), Q)
<1> DEFINE e(q) == MapThenSumSet(LAMBDA i : P[q][i].wr_count, (f[q] + 1)..Len(P[q]))
           L == Left(P, f, Q)
           G(g) == g = [t \in SUBSET Q |->
                          IF t = {} THEN 0 ELSE e(Pick(t)) + g[t \ {Pick(t)}]]
<1>1. ASSUME NEW q \in Q PROVE e(q) = L[q]
  <2> DEFINE T == (f[q] + 1)..Len(P[q])
  <2>1. T \in SUBSET (1..Len(P[q])) /\ 1 \in Int /\ Len(P[q]) \in Int
    OBVIOUS
  <2>2. IsFiniteSet(T)
    BY <2>1, PartFinite, Zenon
  <2>3. e(q) = Total(Weights(P[q]), T)
    BY <2>1, <2>2, SumOfSeq
  <2> QED
    BY <2>3 DEF Left, Remaining
<1>2. \A g : G(g) <=> Sums(L, Q, g)
  <2> SUFFICES ASSUME NEW g
               PROVE  [t \in SUBSET Q |->
                         IF t = {} THEN 0 ELSE e(Pick(t)) + g[t \ {Pick(t)}]]
                    = [t \in SUBSET Q |->
                         IF t = {} THEN 0 ELSE L[Pick(t)] + g[t \ {Pick(t)}]]
    BY DEF Sums
  <2> HIDE DEF e, L
  <2> QED
    BY <1>1, PickIn
<1>3. (CHOOSE g : G(g)) = (CHOOSE g : Sums(L, Q, g))
  <2> HIDE DEF G, L
  <2> QED
    BY <1>2, Zenon
<1>4. SumAll(P, f, Q) = (CHOOSE g : G(g))[Q]
  BY DEF SumAll, MapThenSumSet, MapThenFoldSet, Pick
<1> QED
  BY <1>3, <1>4, TotalIs

\* The weight of a place of a queue is the wr_count of its WR.
LEMMA WeightsAre ==
    ASSUME NEW s \in Seq(Wrs)
    PROVE  \A i \in 1..Len(s) : Weights(s)[i] = s[i].wr_count /\ Weights(s)[i] \in Nat
<1>1. \A i \in 1..Len(s) : s[i] \in Wrs
  BY ElementOfSeq
<1>2. \A x \in Wrs : x.wr_count \in Nat
  BY DEF Wrs
<1> QED
  BY <1>1, <1>2 DEF Weights

\* What remains counted behind a place is a natural.
LEMMA RemainingNat ==
    ASSUME NEW s \in Seq(Wrs), NEW k \in Nat
    PROVE  Remaining(s, k) \in Nat
<1> DEFINE T == (k + 1)..Len(s)
<1>1. Len(s) \in Nat
  BY LenProperties
<1>2. IsFiniteSet(T)
  BY <1>1, FS_Interval
<1>3. \A i \in T : Weights(s)[i] \in Nat
  <2> SUFFICES ASSUME NEW i \in T PROVE Weights(s)[i] \in Nat
    OBVIOUS
  <2>1. i \in 1..Len(s)
    BY <1>1
  <2>2. s[i] \in Wrs
    BY <2>1, ElementOfSeq
  <2> QED
    BY <2>1, <2>2 DEF Weights, Wrs
<1> HIDE DEF T
<1>4. Total(Weights(s), T) \in Nat
  BY <1>2, <1>3, TotalIsNat
<1> QED
  BY <1>4 DEF Remaining, T

\* Giving back the entries up to j, the only signaled one of them.
LEMMA RemainingAfter ==
    ASSUME NEW s \in Seq(Wrs), NEW k \in Nat, NEW j \in 1..Len(s), k < j,
           \A i \in (k + 1)..(j - 1) : s[i].wr_count = 0
    PROVE  Remaining(s, k) = s[j].wr_count + Remaining(s, j)
<1> DEFINE T == (k + 1)..Len(s)
           R == (j + 1)..Len(s)
           w == Weights(s)
<1>1. Len(s) \in Nat /\ j \in Nat
  BY LenProperties
<1>2. IsFiniteSet(T) /\ IsFiniteSet(T \ {j})
  <2>1. k + 1 \in Int /\ Len(s) \in Int
    BY <1>1
  <2>2. IsFiniteSet(T)
    BY <2>1, PartFinite, Zenon
  <2> QED
    BY <2>2, FS_Subset
<1>3. \A i \in 1..Len(s) : w[i] \in Int /\ w[i] = s[i].wr_count
  BY WeightsAre
<1>4. T \subseteq 1..Len(s) /\ j \in T /\ R \subseteq T \ {j}
  BY <1>1
<1>5. \A i \in (T \ {j}) \ R : w[i] = 0
  BY <1>1, <1>3
<1> HIDE DEF T, R, w
<1>6. Total(w, T) = w[j] + Total(w, T \ {j})
  <2>1. \A i \in T : w[i] \in Int
    BY <1>3, <1>4
  <2>2. IsFiniteSet(T) /\ j \in T
    BY <1>2, <1>4
  <2>3. \A x \in T : Total(w, T) = w[x] + Total(w, T \ {x})
    BY <2>1, <2>2, TotalRemove, ZenonT(40)
  <2> QED
    BY <2>2, <2>3
<1>7. Total(w, T \ {j}) = Total(w, R)
  BY <1>2, <1>3, <1>4, <1>5, TotalRest
<1>8. w[j] = s[j].wr_count
  BY <1>3
<1> QED
  BY <1>6, <1>7, <1>8 DEF Remaining, T, R, w

\* Posting a prefix of a chain whose last WR only is signaled, with n.
LEMMA RemainingLonger ==
    ASSUME NEW s \in Seq(Wrs), NEW t \in Seq(Wrs), NEW ch \in Seq(Wrs), NEW m \in 0..Len(ch),
           Longer(s, t, ch, m), NEW k \in 0..Len(s), NEW n \in Nat, Len(ch) > 0,
           \A i \in 1..Len(ch) : ch[i].wr_count = IF i = Len(ch) THEN n ELSE 0
    PROVE  Remaining(t, k) = Remaining(s, k) + (IF m = Len(ch) THEN n ELSE 0)
<1> DEFINE T == (k + 1)..Len(t)
           R == (k + 1)..Len(s)
           w == Weights(t)
           v == Weights(s)
<1>1. Len(s) \in Nat /\ Len(ch) \in Nat /\ Len(t) = Len(s) + m
  BY LenProperties DEF Longer
<1>2. IsFiniteSet(T) /\ IsFiniteSet(R) /\ IsFiniteSet(T \ {Len(t)})
  <2>1. k + 1 \in Int /\ Len(s) \in Int /\ Len(t) \in Int
    BY <1>1
  <2>2. IsFiniteSet(T) /\ IsFiniteSet(R)
    BY <2>1, PartFinite, Zenon
  <2> QED
    BY <2>2, FS_Subset
<1>3. \A i \in 1..Len(t) : w[i] \in Int /\ w[i] = t[i].wr_count
  BY WeightsAre
<1>4. T \subseteq 1..Len(t) /\ R \subseteq T /\ R \subseteq 1..Len(s)
  BY <1>1
<1>5. \A i \in R : w[i] = v[i]
  BY <1>1, <1>3, <1>4 DEF Longer, Weights
<1>6. ASSUME NEW i \in T \ R
      PROVE  /\ i - Len(s) \in 1..m /\ i \in 1..Len(t)
             /\ w[i] = IF i - Len(s) = Len(ch) THEN n ELSE 0
  <2>1. i - Len(s) \in 1..m /\ i = Len(s) + (i - Len(s)) /\ i \in 1..Len(t)
    BY <1>1
  <2>2. t[i] = ch[i - Len(s)] /\ i - Len(s) \in 1..Len(ch)
    BY <1>1, <2>1 DEF Longer
  <2> QED
    BY <1>3, <2>1, <2>2
<1>7. Total(v, R) \in Nat /\ Total(w, R) = Total(v, R)
  <2>1. Total(v, R) \in Nat
    BY RemainingNat DEF Remaining
  <2> HIDE DEF v, w, R
  <2> QED
    BY <1>2, <1>5, <2>1, TotalSame
<1>8. CASE m # Len(ch)
  <2>1. \A i \in T \ R : w[i] = 0
    BY <1>1, <1>6, <1>8
  <2> HIDE DEF T, R, v, w
  <2>2. Total(w, T) = Total(w, R)
    BY <1>2, <1>3, <1>4, <2>1, TotalRest
  <2> QED
    BY <1>7, <1>8, <2>2 DEF Remaining, T, R, v, w
<1>9. CASE m = Len(ch)
  <2> DEFINE x == Len(t)
  <2>1. x \in T \ R /\ x \in T /\ R \subseteq T \ {x} /\ x - Len(s) = Len(ch)
    BY <1>1, <1>9
  <2>2. w[x] = n
    BY <1>6, <2>1
  <2>3. \A i \in (T \ {x}) \ R : w[i] = 0
    BY <1>1, <1>6
  <2> HIDE DEF T, R, v, w
  <2>4. Total(w, T) = w[x] + Total(w, T \ {x})
    <3>1. \A i \in T : w[i] \in Int
      BY <1>3, <1>4
    <3>2. \A y \in T : Total(w, T) = w[y] + Total(w, T \ {y})
      BY <1>2, <3>1, TotalRemove, ZenonT(40)
    <3> QED
      BY <2>1, <3>2
  <2>5. Total(w, T \ {x}) = Total(w, R)
    <3>1. \A i \in T \ {x} : w[i] \in Int
      BY <1>3, <1>4
    <3> HIDE DEF x
    <3>2. IsFiniteSet(T \ {x})
      BY <1>2 DEF x
    <3> QED
      BY <2>1, <2>3, <3>1, <3>2, TotalRest
  <2> QED
    BY <1>7, <1>9, <2>2, <2>4, <2>5 DEF Remaining, T, R, v, w
<1> QED
  BY <1>8, <1>9

\* Outstanding is the sum, over the QPs, of what remains behind their freed entries.
LEMMA OutstandingIs ==
    ASSUME TypeOK
    PROVE  Outstanding = Total(Left(posted, freed, QPs), QPs)
<1>1. Outstanding = SumAll(posted, freed, QPs)
  BY DEF Outstanding, SumAll
<1>2. \A q \in QPs : freed[q] \in Nat /\ Len(posted[q]) \in Nat
  BY LenProperties DEF TypeOK
<1> QED
  BY <1>1, <1>2, SumAllIs

\* The same in the next state.
LEMMA OutstandingNext ==
    ASSUME cfg' = cfg, posted' \in [QPs -> Seq(Wrs)], freed' \in [QPs -> Nat]
    PROVE  Outstanding' = Total(Left(posted', freed', QPs), QPs)
<1>1. Outstanding' = SumAll(posted', freed', QPs')
  BY DEF Outstanding, SumAll, MapThenSumSet, MapThenFoldSet
<1>2. \A q \in QPs : freed'[q] \in Nat /\ Len(posted'[q]) \in Nat
  BY LenProperties
<1>3. QPs' = QPs
  BY CfgKept
<1> QED
  BY <1>1, <1>2, <1>3, SumAllIs

\* What is left of a QP is a natural.
LEMMA LeftNat ==
    ASSUME NEW P \in [QPs -> Seq(Wrs)], NEW f \in [QPs -> Nat], cfg \in Configs
    PROVE  /\ \A q \in QPs : Left(P, f, QPs)[q] = Remaining(P[q], f[q]) /\ Left(P, f, QPs)[q] \in Nat
           /\ Total(Left(P, f, QPs), QPs) \in Nat
<1>1. \A q \in QPs : Left(P, f, QPs)[q] = Remaining(P[q], f[q]) /\ Left(P, f, QPs)[q] \in Nat
  BY RemainingNat DEF Left
<1>2. IsFiniteSet(QPs)
  BY CfgFacts
<1> QED
  BY <1>1, <1>2, TotalIsNat

\* What the first k completions take off inflight_.
CountOf(k) == Total([i \in 1..k |-> posted[cq[i].qp][cq[i].wr].wr_count], 1..k)

\* What poll_cq takes off inflight_ is the count of the completions it takes.
LEMMA PolledSum ==
    ASSUME NEW k \in Nat
    PROVE  MapThenSumSet(LAMBDA i : posted[cq[i].qp][cq[i].wr].wr_count, 1..k) = CountOf(k)
<1> DEFINE w == [i \in 1..k |-> posted[cq[i].qp][cq[i].wr].wr_count]
           T == 1..k
           G(g) == g = [t \in SUBSET T |->
                          IF t = {} THEN 0
                          ELSE posted[cq[Pick(t)].qp][cq[Pick(t)].wr].wr_count
                                 + g[t \ {Pick(t)}]]
<1>1. \A g : G(g) <=> Sums(w, T, g)
  <2> SUFFICES ASSUME NEW g
               PROVE  [t \in SUBSET T |->
                         IF t = {} THEN 0
                         ELSE posted[cq[Pick(t)].qp][cq[Pick(t)].wr].wr_count
                                + g[t \ {Pick(t)}]]
                    = [t \in SUBSET T |-> IF t = {} THEN 0 ELSE w[Pick(t)] + g[t \ {Pick(t)}]]
    BY DEF Sums
  <2> QED
    BY PickIn
<1>2. (CHOOSE g : G(g)) = (CHOOSE g : Sums(w, T, g))
  <2> HIDE DEF G, w, T
  <2> QED
    BY <1>1, Zenon
<1>3. MapThenSumSet(LAMBDA i : posted[cq[i].qp][cq[i].wr].wr_count, 1..k) = (CHOOSE g : G(g))[T]
  BY DEF MapThenSumSet, MapThenFoldSet, Pick
<1> QED
  BY <1>2, <1>3, TotalIs DEF CountOf

\* That count grows, completion by completion, by the wr_count of its WR.
LEMMA CountOfFacts ==
    ASSUME TypeOK, CqInv, NEW k \in 0..Len(cq)
    PROVE  /\ CountOf(0) = 0 /\ CountOf(k) \in Nat
           /\ k > 0 => CountOf(k) = CountOf(k - 1) + posted[cq[k].qp][cq[k].wr].wr_count
<1> DEFINE e(i) == posted[cq[i].qp][cq[i].wr].wr_count
           w(j) == [i \in 1..j |-> e(i)]
<1>1. \A j \in Nat : CountOf(j) = Total(w(j), 1..j)
  BY DEF CountOf
<1>2. Len(cq) \in Nat /\ k \in Nat
  BY LenProperties DEF TypeOK
<1>3. ASSUME NEW i \in 1..Len(cq) PROVE e(i) \in Nat
  <2>1. cq[i] \in [qp : QPs, wr : Nat]
    BY ElementOfSeq DEF TypeOK
  <2>2. cq[i].qp \in QPs /\ cq[i].wr \in Nat
    BY <2>1
  <2>3. freed[cq[i].qp] \in Nat /\ done[cq[i].qp] \in Nat /\ posted[cq[i].qp] \in Seq(Wrs)
    BY <2>2 DEF TypeOK
  <2>4. cq[i].wr \in 1..Len(posted[cq[i].qp])
    BY <2>2, <2>3, LenProperties DEF CqInv
  <2> QED
    BY <2>3, <2>4, WeightsAre
<1> HIDE DEF e
<1>4. \A j \in 0..Len(cq) : IsFiniteSet(1..j) /\ \A i \in 1..j : w(j)[i] = e(i) /\ e(i) \in Nat
  <2> SUFFICES ASSUME NEW j \in 0..Len(cq)
               PROVE  IsFiniteSet(1..j) /\ \A i \in 1..j : w(j)[i] = e(i) /\ e(i) \in Nat
    OBVIOUS
  <2>1. 1 \in Int /\ j \in Int /\ 1..j \in SUBSET (1..j)
    BY <1>2
  <2>2. IsFiniteSet(1..j)
    BY <2>1, PartFinite, Zenon
  <2> QED
    BY <1>2, <1>3, <2>2
<1>5. CountOf(k) \in Nat
  BY <1>1, <1>2, <1>4, TotalIsNat
<1>6. CountOf(0) = 0
  <2>1. 1..0 = {} /\ IsFiniteSet({})
    BY FS_EmptySet
  <2>2. Total(w(0), {}) = 0
    BY <2>1, TotalStep
  <2> QED
    BY <1>1, <2>1, <2>2
<1>7. ASSUME k > 0 PROVE CountOf(k) = CountOf(k - 1) + e(k)
  <2>1. k - 1 \in 0..Len(cq) /\ k \in 1..k /\ (1..k) \ {k} = 1..(k - 1)
    BY <1>2, <1>7
  <2>2. \A x \in 1..k : Total(w(k), 1..k) = w(k)[x] + Total(w(k), (1..k) \ {x})
    <3>1. IsFiniteSet(1..k) /\ \A i \in 1..k : w(k)[i] \in Int
      BY <1>2, <1>4
    <3> HIDE DEF w
    <3> QED
      BY <3>1, TotalRemove, ZenonT(40)
  <2>3. Total(w(k), 1..(k - 1)) = Total(w(k - 1), 1..(k - 1))
    <3>1. IsFiniteSet(1..(k - 1)) /\ \A i \in 1..(k - 1) : w(k)[i] = w(k - 1)[i]
      BY <1>2, <1>4, <2>1
    <3> HIDE DEF w
    <3> QED
      BY <3>1, TotalSame
  <2>4. w(k)[k] = e(k) /\ e(k) \in Nat
    BY <1>3, <2>1
  <2>5. CountOf(k - 1) = Total(w(k - 1), 1..(k - 1)) /\ CountOf(k - 1) \in Nat
    BY <1>1, <1>2, <1>4, <2>1, TotalIsNat
  <2> HIDE DEF w
  <2> QED
    BY <1>1, <1>2, <2>1, <2>2, <2>3, <2>4, <2>5
<1> QED
  BY <1>5, <1>6, <1>7 DEF e

\* The entries given back after k completions.
Freed(k) == [q \in QPs |-> Max(Front(k, q))]

\* One more completion: its QP gives back the entries up to its WR, of which it is the
\* only signaled one.
LEMMA OneMoreCompletion ==
    ASSUME TypeOK, CqInv, NEW k \in 1..Len(cq)
    PROVE  /\ Freed(k) \in [QPs -> Nat] /\ Freed(k - 1) \in [QPs -> Nat]
           /\ cq[k].qp \in QPs /\ \A q \in QPs : q # cq[k].qp => Freed(k)[q] = Freed(k - 1)[q]
           /\ Remaining(posted[cq[k].qp], Freed(k - 1)[cq[k].qp])
                = posted[cq[k].qp][cq[k].wr].wr_count
                  + Remaining(posted[cq[k].qp], Freed(k)[cq[k].qp])
<1> DEFINE r == cq[k].qp
           x == cq[k].wr
<1>1. Len(cq) \in Nat /\ k - 1 \in 0..Len(cq) /\ k \in 0..Len(cq)
  BY LenProperties DEF TypeOK
<1>2. Freed(k) \in [QPs -> Nat] /\ Freed(k - 1) \in [QPs -> Nat]
  BY <1>1, FrontFacts DEF Freed
<1>3. \A j \in 1..Len(cq) : cq[j].qp \in QPs /\ cq[j].wr \in Nat
  <2>1. \A j \in 1..Len(cq) : cq[j] \in [qp : QPs, wr : Nat]
    BY ElementOfSeq DEF TypeOK
  <2> QED
    BY <2>1
<1>4. r \in QPs /\ x \in Nat /\ posted[r] \in Seq(Wrs) /\ freed[r] \in Nat /\ done[r] \in Nat
  BY <1>3 DEF TypeOK
<1>5. x \in 1..Len(posted[r]) /\ freed[r] < x /\ x <= done[r]
  BY <1>4, LenProperties DEF CqInv
<1>6. ASSUME NEW q \in QPs, q # r PROVE Front(k, q) = Front(k - 1, q)
  <2>1. {j \in 1..k : cq[j].qp = q} = {j \in 1..(k - 1) : cq[j].qp = q}
    BY <1>1, <1>6
  <2> QED
    BY <2>1 DEF Front
<1>7. \A q \in QPs : q # r => Freed(k)[q] = Freed(k - 1)[q]
  BY <1>6 DEF Freed
<1>8. ASSUME NEW j \in 1..Len(cq), cq[j].qp = r
      PROVE  (j < k => cq[j].wr < x) /\ (j > k => x < cq[j].wr)
  BY <1>8 DEF CqInv
<1>9. Max(Front(k, r)) = x
  <2>1. x \in Front(k, r)
    BY <1>1 DEF Front
  <2>2. ASSUME NEW y \in Front(k, r) PROVE y \in Int /\ y <= x
    <3>1. CASE y = freed[r]
      BY <1>4, <1>5, <3>1
    <3>2. CASE y # freed[r]
      <4>1. PICK j \in 1..k : cq[j].qp = r /\ y = cq[j].wr
        BY <3>2 DEF Front
      <4>2. j \in 1..Len(cq)
        BY <1>1
      <4>3. j < k \/ j = k
        OBVIOUS
      <4> QED
        BY <1>3, <1>4, <1>8, <4>1, <4>2, <4>3
    <3> QED
      BY <3>1, <3>2
  <2>3. Front(k, r) \in SUBSET Int
    BY <2>2
  <2> HIDE DEF x
  <2> QED
    BY <2>1, <2>2, <2>3, MaxIs
<1> DEFINE f == Max(Front(k - 1, r))
<1>10. f \in Nat /\ f \in Front(k - 1, r) /\ \A j \in 1..(k - 1) : cq[j].qp = r => cq[j].wr <= f
  BY <1>1, <1>4, FrontFacts
<1>11. freed[r] <= f
  BY <1>1, <1>4, FrontFacts
<1>12. f < x
  <2>1. CASE f = freed[r]
    BY <1>5, <2>1
  <2>2. CASE f # freed[r]
    <3>1. PICK j \in 1..(k - 1) : cq[j].qp = r /\ f = cq[j].wr
      BY <1>10, <2>2 DEF Front
    <3>2. j \in 1..Len(cq) /\ j < k
      BY <1>1
    <3> QED
      BY <1>8, <3>1, <3>2
  <2> QED
    BY <2>1, <2>2
<1>13. ASSUME NEW i \in (f + 1)..(x - 1) PROVE posted[r][i].wr_count = 0
  <2>0. i \in Int /\ f < i /\ i < x
    BY <1>4, <1>10
  <2>1. i \in (freed[r] + 1)..done[r] /\ i \in 1..Len(posted[r])
    BY <1>4, <1>5, <1>10, <1>11, <2>0, LenProperties, SMTT(30)
  <2>2. posted[r][i].wr_count \in Nat
    BY <1>4, <2>1, WeightsAre
  <2>3. ASSUME posted[r][i].wr_count > 0 PROVE FALSE
    <3>1. PICK j \in 1..Len(cq) : cq[j].qp = r /\ cq[j].wr = i
      BY <1>4, <2>1, <2>3 DEF CqInv
    <3>2. CASE j < k
      <4>1. j \in 1..(k - 1)
        BY <3>2
      <4>2. i <= f
        BY <1>10, <3>1, <4>1
      <4> QED
        BY <1>10, <2>0, <4>2
    <3>3. CASE j > k
      BY <1>4, <1>8, <2>0, <3>1, <3>3
    <3>4. CASE j = k
      BY <1>4, <2>0, <3>1, <3>4
    <3> QED
      BY <3>2, <3>3, <3>4
  <2> QED
    BY <2>2, <2>3
<1>14. Freed(k)[r] = x /\ Freed(k - 1)[r] = f
  BY <1>4, <1>9 DEF Freed
<1>15. Remaining(posted[r], f) = posted[r][x].wr_count + Remaining(posted[r], x)
  <2> HIDE DEF f, r, x
  <2> QED
    BY <1>4, <1>5, <1>10, <1>12, <1>13, RemainingAfter
<1> QED
  BY <1>2, <1>4, <1>7, <1>14, <1>15

\* poll_cq takes off inflight_ exactly what is no longer outstanding.
LEMMA PollTakesOff ==
    ASSUME TypeOK, CqInv, PollCq, cfg' = cfg
    PROVE  \E n \in Nat : inflight' = inflight - n /\ Outstanding' = Outstanding - n
<1> DEFINE R(k) == Total(Left(posted, Freed(k), QPs), QPs)
           Bad == {k \in 0..Len(cq) : R(k) + CountOf(k) # R(0)}
<1>1. Len(cq) \in Nat /\ cfg \in Configs /\ posted \in [QPs -> Seq(Wrs)] /\ IsFiniteSet(QPs)
  BY LenProperties, CfgFacts DEF TypeOK
<1>2. \A k \in 0..Len(cq) : Freed(k) \in [QPs -> Nat]
  BY FrontFacts DEF Freed
<1>3. \A k \in 0..Len(cq) : R(k) \in Nat /\ CountOf(k) \in Nat
  BY <1>1, <1>2, LeftNat, CountOfFacts
<1>4. 0 \in 0..Len(cq) /\ CountOf(0) = 0
  <2>1. 0 \in 0..Len(cq)
    BY <1>1
  <2> QED
    BY <2>1, CountOfFacts
<1>5. ASSUME NEW k \in 1..Len(cq), R(k - 1) + CountOf(k - 1) = R(0) PROVE R(k) + CountOf(k) = R(0)
  <2> DEFINE r == cq[k].qp
             v == Left(posted, Freed(k - 1), QPs)
             w == Left(posted, Freed(k), QPs)
             c == posted[cq[k].qp][cq[k].wr].wr_count
  <2>1. k \in 0..Len(cq) /\ k - 1 \in 0..Len(cq) /\ k > 0
    BY <1>1
  <2>2. /\ r \in QPs /\ \A q \in QPs : q # r => Freed(k)[q] = Freed(k - 1)[q]
        /\ Remaining(posted[r], Freed(k - 1)[r]) = c + Remaining(posted[r], Freed(k)[r])
    BY OneMoreCompletion
  <2>3. CountOf(k) = CountOf(k - 1) + c
    BY <2>1, CountOfFacts
  <2>4. \A q \in QPs : /\ v[q] = Remaining(posted[q], Freed(k - 1)[q]) /\ v[q] \in Nat
                       /\ w[q] = Remaining(posted[q], Freed(k)[q]) /\ w[q] \in Nat
    BY <1>1, <1>2, <2>1, LeftNat
  <2> HIDE DEF v, w, r, c
  <2>5. \A q \in QPs : q # r => w[q] = v[q]
    BY <2>2, <2>4
  <2>6. v[r] = c + w[r] /\ v[r] \in Nat /\ w[r] \in Nat
    BY <2>2, <2>4
  <2>7. Total(w, QPs) = Total(v, QPs) + (w[r] - v[r])
    <3>1. \A q \in QPs : v[q] \in Int /\ w[q] \in Int
      BY <2>4
    <3>2. \A x \in QPs : (\A y \in QPs : y # x => w[y] = v[y])
                           => Total(w, QPs) = Total(v, QPs) + (w[x] - v[x])
      BY <1>1, <3>1, TotalOther, Zenon
    <3> QED
      BY <2>2, <2>5, <3>2
  <2>8. R(k) = R(k - 1) + (w[r] - v[r])
    BY <2>7 DEF v, w
  <2>9. /\ R(k) \in Nat /\ R(k - 1) \in Nat /\ R(0) \in Nat /\ CountOf(k - 1) \in Nat
        /\ CountOf(k) \in Nat
    BY <1>3, <1>4, <2>1
  <2>10. c = v[r] - w[r]
    <3>1. c \in Int
      <4>1. cq[k] \in [qp : QPs, wr : Nat]
        BY ElementOfSeq DEF TypeOK
      <4>2. r \in QPs /\ cq[k].wr \in Nat
        BY <4>1 DEF r
      <4>3. cq[k].wr \in 1..Len(posted[r])
        <5>1. freed[r] \in Nat /\ done[r] \in Nat /\ Len(posted[r]) \in Nat
          BY <4>2, LenProperties DEF TypeOK
        <5>2. freed[r] < cq[k].wr /\ cq[k].wr <= done[r] /\ done[r] <= Len(posted[r])
          BY <4>2 DEF CqInv, r
        <5> QED
          BY <4>2, <5>1, <5>2
      <4>4. posted[r] \in Seq(Wrs)
        BY <1>1, <4>2
      <4>5. posted[r][cq[k].wr].wr_count \in Nat
        BY <4>3, <4>4, WeightsAre
      <4> QED
        BY <4>5 DEF c, r
    <3> QED
      BY <2>6, <3>1
  <2> HIDE DEF R
  <2> QED
    <3>1. \A x, y, z, u, o \in Int, d \in Int :
            x = y - d /\ z = u + d /\ y + u = o => x + z = o
      OBVIOUS
    <3>2. R(k) = R(k - 1) - c /\ c \in Int
      <4>1. v[r] \in Nat /\ w[r] \in Nat /\ R(k - 1) \in Nat
        BY <2>6, <2>9
      <4>2. \A x, y, z \in Int : x + (y - z) = x - (z - y) /\ z - y \in Int
        OBVIOUS
      <4> QED
        BY <2>8, <2>10, <4>1, <4>2
    <3>3. R(k) \in Int /\ R(k - 1) \in Int /\ R(0) \in Int /\ CountOf(k - 1) \in Int
          /\ CountOf(k) \in Int
      BY <2>9
    <3> QED
      BY <1>5, <2>3, <3>1, <3>2, <3>3
<1>6. Bad = {}
  <2> SUFFICES ASSUME Bad # {} PROVE FALSE
    OBVIOUS
  <2>1. Bad \in SUBSET Nat
    BY <1>1
  <2>2. PICK k \in Bad : \A j \in Bad : k <= j
    <3> HIDE DEF Bad
    <3> QED
      BY <2>1, NatLeast
  <2> HIDE DEF R
  <2>3. k # 0
    BY <1>3, <1>4
  <2>4. k \in 1..Len(cq) /\ k - 1 \in 0..Len(cq) /\ k - 1 < k
    BY <1>1, <2>3
  <2>5. R(k - 1) + CountOf(k - 1) = R(0)
    <3>1. k - 1 \notin Bad
      BY <2>2, <2>4
    <3> QED
      BY <2>4, <3>1
  <2>6. R(k) + CountOf(k) = R(0)
    BY <1>5, <2>4, <2>5
  <2> QED
    BY <2>6
<1> DEFINE n == Takes
<1>7. n \in 0..Len(cq) /\ freed' \in [QPs -> Nat] /\ posted' = posted
  BY PollFacts
<1>8. freed' = Freed(n)
  <2>1. \A q \in QPs : freed'[q] = Freed(n)[q]
    BY PollFacts DEF Freed
  <2> QED
    BY <1>2, <1>7, <2>1
<1>9. Outstanding' = R(n)
  BY <1>1, <1>7, <1>8, OutstandingNext
<1>10. Outstanding = R(0)
  <2>1. \A q \in QPs : Freed(0)[q] = freed[q]
    <3> SUFFICES ASSUME NEW q \in QPs PROVE Max(Front(0, q)) = freed[q]
      BY DEF Freed
    <3>1. Front(0, q) = {freed[q]}
      BY DEF Front
    <3>2. Max(Front(0, q)) \in Front(0, q)
      BY <1>4, FrontFacts
    <3> QED
      BY <3>1, <3>2
  <2>2. freed \in [QPs -> Nat] /\ Freed(0) \in [QPs -> Nat]
    BY <1>2, <1>4 DEF TypeOK
  <2>3. Freed(0) = freed
    BY <2>1, <2>2
  <2> QED
    BY <2>3, OutstandingIs
<1>11. inflight' = inflight - CountOf(n)
  <2>1. inflight' = inflight
          - MapThenSumSet(LAMBDA i : posted[cq[i].qp][cq[i].wr].wr_count, 1..n)
    BY DEF PollCq, Takes
  <2>2. n \in Nat
    BY <1>1, <1>7
  <2> QED
    BY <2>1, <2>2, PolledSum
<1>12. R(n) + CountOf(n) = R(0) /\ R(n) \in Nat /\ R(0) \in Nat /\ CountOf(n) \in Nat
  BY <1>3, <1>4, <1>6, <1>7
<1> HIDE DEF R, n
<1>13. R(n) = R(0) - CountOf(n)
  BY <1>12
<1> QED
  BY <1>9, <1>10, <1>11, <1>12, <1>13

\* WRs are only ever added, within the room of their QP.
Grown ==
    \A r \in QPs : /\ Len(posted[r]) <= Len(posted'[r])
                   /\ Len(posted'[r]) - Len(posted[r]) <= Room(r)
                   /\ \A i \in 1..Len(posted[r]) : posted'[r][i] = posted[r][i]

\* Posting leaves the completions those of the signaled WRs not freed yet.
LEMMA GrownKeepsCq ==
    ASSUME TypeOK, CqInv, cfg' = cfg, posted' \in [QPs -> Seq(Wrs)], Grown,
           UNCHANGED <<done, freed, cq>>
    PROVE  CqInv'
<1>1. QPs' = QPs
  BY CfgKept
<1>2. ASSUME NEW r \in QPs
      PROVE  freed'[r] <= done'[r] /\ done'[r] <= Len(posted'[r]) /\ Room(r)' >= 0
  <2>1. /\ freed[r] \in Nat /\ done[r] \in Nat /\ Len(posted[r]) \in Nat
        /\ Len(posted'[r]) \in Nat
    BY LenProperties DEF TypeOK
  <2>2. freed[r] <= done[r] /\ done[r] <= Len(posted[r]) /\ Room(r) >= 0
    BY DEF CqInv
  <2>3. Len(posted[r]) <= Len(posted'[r]) /\ Len(posted'[r]) - Len(posted[r]) <= Room(r)
    BY DEF Grown
  <2> QED
    BY <2>1, <2>2, <2>3, LimitAssumption, SMTT(20) DEF Room
<1>3. ASSUME NEW r \in QPs, NEW i \in 1..done[r] PROVE posted'[r][i] = posted[r][i]
  <2>1. done[r] \in Nat /\ Len(posted[r]) \in Nat /\ done[r] <= Len(posted[r])
    BY LenProperties DEF TypeOK, CqInv
  <2>2. i \in 1..Len(posted[r])
    BY <2>1
  <2> QED
    BY <2>2 DEF Grown
<1>4. ASSUME NEW j \in 1..Len(cq)
      PROVE  /\ freed[cq[j].qp] < cq[j].wr /\ cq[j].wr <= done[cq[j].qp]
             /\ posted'[cq[j].qp][cq[j].wr].wr_count > 0
  <2>1. cq[j] \in [qp : QPs, wr : Nat]
    BY ElementOfSeq DEF TypeOK
  <2>2. cq[j].qp \in QPs /\ cq[j].wr \in Nat
    BY <2>1
  <2>3. freed[cq[j].qp] \in Nat /\ done[cq[j].qp] \in Nat
    BY <2>2 DEF TypeOK
  <2>4. /\ freed[cq[j].qp] < cq[j].wr /\ cq[j].wr <= done[cq[j].qp]
        /\ posted[cq[j].qp][cq[j].wr].wr_count > 0
    BY DEF CqInv
  <2>5. cq[j].wr \in 1..done[cq[j].qp]
    BY <2>2, <2>3, <2>4
  <2> QED
    BY <1>3, <2>2, <2>4, <2>5
<1>5. ASSUME NEW r \in QPs, NEW i \in (freed[r] + 1)..done[r], posted'[r][i].wr_count > 0
      PROVE  \E j \in 1..Len(cq) : cq[j].qp = r /\ cq[j].wr = i
  <2>1. freed[r] \in Nat /\ done[r] \in Nat
    BY DEF TypeOK
  <2>2. i \in 1..done[r]
    BY <2>1
  <2> QED
    BY <1>3, <1>5, <2>2 DEF CqInv
<1> QED
  BY <1>1, <1>2, <1>4, <1>5 DEF CqInv

\* A chain signaled at its end, with n.
Signals(ch, n) ==
    /\ ch \in Seq(Wrs) /\ Len(ch) > 0 /\ n \in Nat
    /\ \A i \in 1..Len(ch) : ch[i].wr_count = IF i = Len(ch) THEN n ELSE 0

\* Posting a chain that ends with count n makes n more outstanding if it fits, and none if
\* it is cut short.
LEMMA PostAdds ==
    ASSUME TypeOK, CqInv, cfg' = cfg, NEW q \in QPs, NEW ch, NEW n, Signals(ch, n), freed' = freed,
           posted' = [posted EXCEPT ![q] = @ \o SubSeq(ch, 1, Accepts(q, Len(ch)))]
    PROVE  /\ posted' \in [QPs -> Seq(Wrs)] /\ Grown
           /\ Outstanding \in Nat
           /\ Outstanding' = Outstanding + (IF Fits(q, Len(ch)) THEN n ELSE 0)
<1>1. ch \in Seq(Wrs) /\ n \in Nat /\ Room(q) >= 0
  BY DEF Signals, CqInv
<1>2. posted' \in [QPs -> Seq(Wrs)] /\ \A r \in QPs : r # q => posted'[r] = posted[r]
  BY <1>1, PostFacts
<1>3. PICK m \in 0..Len(ch) : /\ Longer(posted[q], posted'[q], ch, m) /\ m <= Room(q)
                              /\ m = Len(ch) <=> Fits(q, Len(ch))
  BY <1>1, PostFacts
<1>4. \A r \in QPs : /\ Len(posted[r]) \in Nat /\ freed[r] \in 0..Len(posted[r])
                     /\ posted[r] \in Seq(Wrs) /\ posted'[r] \in Seq(Wrs) /\ Room(r) >= 0
  <2> SUFFICES ASSUME NEW r \in QPs
               PROVE  /\ Len(posted[r]) \in Nat /\ freed[r] \in 0..Len(posted[r])
                      /\ posted[r] \in Seq(Wrs) /\ posted'[r] \in Seq(Wrs) /\ Room(r) >= 0
    OBVIOUS
  <2>1. freed[r] <= done[r] /\ done[r] <= Len(posted[r]) /\ Room(r) >= 0
    BY DEF CqInv
  <2>2. freed[r] \in Nat /\ done[r] \in Nat /\ Len(posted[r]) \in Nat /\ posted[r] \in Seq(Wrs)
    BY LenProperties DEF TypeOK
  <2> QED
    BY <1>2, <2>1, <2>2
<1>5. Grown
  <2>1. /\ Len(posted'[q]) = Len(posted[q]) + m /\ m \in Nat /\ m <= Room(q)
        /\ \A i \in 1..Len(posted[q]) : posted'[q][i] = posted[q][i]
    <3>1. Len(ch) \in Nat
      BY <1>1, LenProperties
    <3>2. m \in 0..Len(ch) /\ m <= Room(q) /\ Longer(posted[q], posted'[q], ch, m)
      BY <1>3
    <3>3. m \in Nat
      BY <3>1, <3>2
    <3> QED
      BY <3>2, <3>3 DEF Longer
  <2>2. \A r \in QPs : r # q => posted'[r] = posted[r]
    BY <1>2
  <2> SUFFICES ASSUME NEW r \in QPs
               PROVE  /\ Len(posted[r]) <= Len(posted'[r])
                      /\ Len(posted'[r]) - Len(posted[r]) <= Room(r)
                      /\ \A i \in 1..Len(posted[r]) : posted'[r][i] = posted[r][i]
    BY DEF Grown
  <2>3. CASE r = q
    BY <1>4, <2>1, <2>3
  <2>4. CASE r # q
    BY <1>4, <2>2, <2>4
  <2> QED
    BY <2>3, <2>4
<1> DEFINE v == Left(posted, freed, QPs)
           w == Left(posted', freed, QPs)
           a == IF Fits(q, Len(ch)) THEN n ELSE 0
<1>6. cfg \in Configs /\ freed \in [QPs -> Nat] /\ posted \in [QPs -> Seq(Wrs)] /\ IsFiniteSet(QPs)
  BY CfgFacts DEF TypeOK
<1>7. Outstanding = Total(v, QPs) /\ Outstanding' = Total(w, QPs) /\ Total(v, QPs) \in Nat
  BY <1>2, <1>6, OutstandingIs, OutstandingNext, LeftNat
<1>8. \A r \in QPs : /\ v[r] = Remaining(posted[r], freed[r]) /\ v[r] \in Nat
                     /\ w[r] = Remaining(posted'[r], freed[r]) /\ w[r] \in Nat
  <2>1. \A r \in QPs : v[r] = Remaining(posted[r], freed[r]) /\ v[r] \in Nat
    BY <1>6, LeftNat, Zenon
  <2>2. \A r \in QPs : w[r] = Remaining(posted'[r], freed[r]) /\ w[r] \in Nat
    BY <1>2, <1>6, LeftNat, Zenon
  <2> QED
    BY <2>1, <2>2
<1>9. Remaining(posted'[q], freed[q])
        = Remaining(posted[q], freed[q]) + (IF m = Len(ch) THEN n ELSE 0)
  <2>1. /\ posted[q] \in Seq(Wrs) /\ posted'[q] \in Seq(Wrs) /\ freed[q] \in 0..Len(posted[q])
        /\ Len(ch) > 0 /\ \A i \in 1..Len(ch) : ch[i].wr_count = IF i = Len(ch) THEN n ELSE 0
    BY <1>4 DEF Signals
  <2>2. m \in 0..Len(ch) /\ Longer(posted[q], posted'[q], ch, m) /\ ch \in Seq(Wrs) /\ n \in Nat
    BY <1>1, <1>3
  <2>3. ASSUME NEW s \in Seq(Wrs), NEW t \in Seq(Wrs), NEW k \in 0..Len(s), Longer(s, t, ch, m)
        PROVE  Remaining(t, k) = Remaining(s, k) + (IF m = Len(ch) THEN n ELSE 0)
    <3>1. Len(ch) > 0
      BY <2>1
    <3>2. \A i \in 1..Len(ch) : ch[i].wr_count = IF i = Len(ch) THEN n ELSE 0
      BY <2>1
    <3>3. m \in 0..Len(ch) /\ ch \in Seq(Wrs) /\ n \in Nat
      BY <2>2
    <3> QED
      BY <2>3, <3>1, <3>2, <3>3, RemainingLonger
  <2> QED
    BY <2>1, <2>2, <2>3
<1>10. w[q] = v[q] + a /\ a \in Nat
  BY <1>1, <1>3, <1>8, <1>9
<1> HIDE DEF v, w, a
<1>11. Total(w, QPs) = Total(v, QPs) + (w[q] - v[q])
  <2>1. \A r \in QPs : v[r] \in Int /\ w[r] \in Int
    BY <1>8
  <2>2. \A x \in QPs : (\A y \in QPs : y # x => w[y] = v[y])
                         => Total(w, QPs) = Total(v, QPs) + (w[x] - v[x])
    BY <1>6, <2>1, TotalOther, Zenon
  <2>3. \A y \in QPs : y # q => w[y] = v[y]
    BY <1>2, <1>8
  <2> QED
    BY <2>2, <2>3
<1>12. Total(w, QPs) = Total(v, QPs) + a
  BY <1>7, <1>8, <1>10, <1>11
<1> QED
  BY <1>2, <1>5, <1>7, <1>12 DEF a

\* Each peer has a block of QPs, and the barrier goes to QPs the proxy owns.
LEMMA BarrierQPsOwned ==
    ASSUME cfg \in Configs
    PROVE  BarrierQPs \subseteq QPs
<1>1. NumNodes \in Nat \ {0, 1} /\ NumQPs \in Nat \ {0} /\ 0 \in QPs
  BY CfgFacts
<1> DEFINE m == NumNodes - 1
           d == NumQPs \div m
<1>2. ASSUME NumQPs >= m, NEW p \in 0..(m - 1) PROVE p * d \in QPs
  <2>1. m \in Nat \ {0} /\ p \in Nat /\ p <= m - 1
    BY <1>1
  <2>2. d \in Nat /\ m * d <= NumQPs /\ NumQPs < m * d + m
    <3>1. \A a \in Nat, b \in Nat \ {0} :
            a \div b \in Nat /\ b * (a \div b) <= a /\ a < b * (a \div b) + b
      BY SMT
    <3> HIDE DEF m
    <3> QED
      BY <1>1, <2>1, <3>1
  <2>3. d >= 1
    <3> HIDE DEF m, d
    <3>1. CASE d = 0
      <4>1. NumQPs < m
        BY <1>1, <2>1, <2>2, <3>1
      <4> QED
        BY <1>1, <1>2, <2>1, <4>1
    <3> QED
      BY <2>2, <3>1
  <2>4. p * d \in Nat /\ p * d <= (m - 1) * d /\ (m - 1) * d = m * d - d
    <3>1. \A a, b \in Nat, c \in Nat : a <= b - 1 =>
            a * c \in Nat /\ a * c <= (b - 1) * c /\ (b - 1) * c = b * c - c
      BY SMT
    <3> HIDE DEF m, d
    <3> QED
      BY <2>1, <2>2, <3>1
  <2>5. p * d < NumQPs
    <3> HIDE DEF m, d
    <3>1. m * d \in Nat
      BY <2>1, <2>2
    <3> QED
      BY <1>1, <2>2, <2>3, <2>4, <3>1
  <2> HIDE DEF d
  <2> QED
    BY <1>1, <2>4, <2>5 DEF QPs
<1>3. CASE ChannelizeGpuPeers /\ NumNodes - 1 > 1 /\ NumQPs >= NumNodes - 1
  BY <1>2, <1>3 DEF BarrierQPs
<1>4. CASE ~(ChannelizeGpuPeers /\ NumNodes - 1 > 1 /\ NumQPs >= NumNodes - 1)
  BY <1>1, <1>4 DEF BarrierQPs
<1> QED
  BY <1>3, <1>4

\* A barrier adds 1 for each barrier WR that its QP accepts.
LEMMA BarrierAdds ==
    ASSUME TypeOK, CqInv, cfg' = cfg, NEW c \in Cmds, PostStageBarrier(c)
    PROVE  /\ posted' \in [QPs -> Seq(Wrs)] /\ Grown /\ UNCHANGED <<done, freed, cq>>
           /\ \A q \in QPs : posted'[q] = IF q \in BarrierQPs /\ Fits(q, 1)
                                            THEN Append(posted[q], Wr("barrier", c, 0, 1))
                                            ELSE posted[q]
           /\ \E n \in Nat : inflight' = inflight + n /\ Outstanding' = Outstanding + n
<1> DEFINE x == Wr("barrier", c, 0, 1)
           ok == {q \in BarrierQPs : Fits(q, 1)}
           v == Left(posted, freed, QPs)
           w == Left(posted', freed, QPs)
<1>1. x \in Wrs /\ x.wr_count = 1
  BY WrFacts
<1>2. UNCHANGED <<done, freed, cq>> /\ inflight' = inflight + Cardinality(ok)
      /\ posted' = [q \in QPs |-> IF q \in ok THEN Append(posted[q], x) ELSE posted[q]]
  BY DEF PostStageBarrier
<1>3. cfg \in Configs /\ freed \in [QPs -> Nat] /\ posted \in [QPs -> Seq(Wrs)] /\ IsFiniteSet(QPs)
  BY CfgFacts DEF TypeOK
<1>4. ok \subseteq QPs
  BY <1>3, BarrierQPsOwned
<1> HIDE DEF x
<1>5. \A q \in QPs : /\ posted[q] \in Seq(Wrs) /\ Append(posted[q], x) \in Seq(Wrs)
                     /\ Longer(posted[q], Append(posted[q], x), <<x>>, 1)
  BY <1>1, <1>3, AppendIsLonger
<1>6. posted' \in [QPs -> Seq(Wrs)]
  BY <1>2, <1>5
<1>7. \A q \in QPs : posted'[q] = IF q \in ok THEN Append(posted[q], x) ELSE posted[q]
  BY <1>2
<1>8. ASSUME NEW q \in QPs
      PROVE  /\ Len(posted[q]) \in Nat /\ freed[q] \in Nat /\ freed[q] <= Len(posted[q])
             /\ freed[q] \in 0..Len(posted[q]) /\ Room(q) \in Int /\ Room(q) >= 0
  <2>1. freed[q] \in Nat /\ done[q] \in Nat /\ Len(posted[q]) \in Nat
    BY LenProperties DEF TypeOK
  <2>2. freed[q] <= done[q] /\ done[q] <= Len(posted[q]) /\ Room(q) >= 0
    BY DEF CqInv
  <2> QED
    BY <2>1, <2>2, LimitAssumption DEF Room
<1>9. ASSUME NEW q \in QPs
      PROVE  /\ Len(posted[q]) <= Len(posted'[q]) /\ Len(posted'[q]) - Len(posted[q]) <= Room(q)
             /\ \A i \in 1..Len(posted[q]) : posted'[q][i] = posted[q][i]
  <2>1. CASE q \in ok
    <3>1. posted'[q] = Append(posted[q], x) /\ 1 <= Room(q)
      BY <1>7, <2>1 DEF Fits
    <3>2. Len(posted'[q]) = Len(posted[q]) + 1
          /\ \A i \in 1..Len(posted[q]) : posted'[q][i] = posted[q][i]
      BY <1>5, <3>1 DEF Longer
    <3> QED
      BY <1>8, <3>1, <3>2
  <2>2. CASE q \notin ok
    <3>1. posted'[q] = posted[q]
      BY <1>7, <2>2
    <3> QED
      BY <1>8, <3>1
  <2> QED
    BY <2>1, <2>2
<1>10. /\ Outstanding = Total(v, QPs) /\ Outstanding' = Total(w, QPs) /\ Total(v, QPs) \in Nat
       /\ \A q \in QPs : v[q] = Remaining(posted[q], freed[q]) /\ v[q] \in Nat
       /\ \A q \in QPs : w[q] = Remaining(posted'[q], freed[q]) /\ w[q] \in Nat
  <2>1. Outstanding = Total(v, QPs) /\ Outstanding' = Total(w, QPs)
    BY <1>2, <1>3, <1>6, OutstandingIs, OutstandingNext
  <2>2. /\ Total(v, QPs) \in Nat
        /\ \A q \in QPs : v[q] = Remaining(posted[q], freed[q]) /\ v[q] \in Nat
    BY <1>3, LeftNat, Zenon
  <2>3. \A q \in QPs : w[q] = Remaining(posted'[q], freed[q]) /\ w[q] \in Nat
    BY <1>3, <1>6, LeftNat, Zenon
  <2> QED
    BY <2>1, <2>2, <2>3
<1>11. ASSUME NEW q \in QPs PROVE w[q] = IF q \in ok THEN v[q] + 1 ELSE v[q]
  <2>1. CASE q \in ok
    <3>1. /\ posted'[q] = Append(posted[q], x) /\ <<x>> \in Seq(Wrs) /\ Len(<<x>>) = 1
          /\ 1 \in 0..Len(<<x>>) /\ posted'[q] \in Seq(Wrs) /\ posted[q] \in Seq(Wrs)
          /\ Len(<<x>>) > 0
      BY <1>1, <1>5, <1>6, <1>7, <2>1
    <3>2. \A i \in 1..Len(<<x>>) : <<x>>[i].wr_count = IF i = Len(<<x>>) THEN 1 ELSE 0
      BY <1>1
    <3>3. Longer(posted[q], posted'[q], <<x>>, 1) /\ freed[q] \in 0..Len(posted[q]) /\ 1 \in Nat
      BY <1>5, <1>8, <3>1
    <3>4. \A s \in Seq(Wrs), t \in Seq(Wrs) : \A k \in 0..Len(s) :
            Longer(s, t, <<x>>, 1) =>
              Remaining(t, k) = Remaining(s, k) + (IF 1 = Len(<<x>>) THEN 1 ELSE 0)
      <4> SUFFICES ASSUME NEW s \in Seq(Wrs), NEW t \in Seq(Wrs), NEW k \in 0..Len(s),
                          Longer(s, t, <<x>>, 1)
                   PROVE  Remaining(t, k)
                            = Remaining(s, k) + (IF 1 = Len(<<x>>) THEN 1 ELSE 0)
        OBVIOUS
      <4> DEFINE ch == <<x>>
      <4>1. /\ ch \in Seq(Wrs) /\ 1 \in 0..Len(ch) /\ Len(ch) > 0
            /\ \A i \in 1..Len(ch) : ch[i].wr_count = IF i = Len(ch) THEN 1 ELSE 0
            /\ Longer(s, t, ch, 1)
        BY <3>1, <3>2
      <4> HIDE DEF ch
      <4>2. Remaining(t, k) = Remaining(s, k) + (IF 1 = Len(ch) THEN 1 ELSE 0)
        BY <4>1, RemainingLonger
      <4> QED
        BY <4>2 DEF ch
    <3>5. Remaining(posted'[q], freed[q]) = Remaining(posted[q], freed[q]) + 1
      BY <3>1, <3>3, <3>4
    <3> HIDE DEF v, w
    <3> QED
      BY <1>10, <2>1, <3>5
  <2>2. CASE q \notin ok
    BY <1>7, <1>10, <2>2
  <2> QED
    BY <2>1, <2>2
<1> HIDE DEF v, w, ok
<1>12. Total(w, QPs) = Total(v, QPs) + Cardinality(ok)
  <2>1. \A q \in QPs : v[q] \in Int
    BY <1>10
  <2> QED
    BY <1>3, <1>4, <1>11, <2>1, TotalCount
<1>13. Cardinality(ok) \in Nat
  BY <1>3, <1>4, FS_Subset, FS_CardinalityType
<1>14. \E n \in Nat : inflight' = inflight + n /\ Outstanding' = Outstanding + n
  BY <1>2, <1>10, <1>12, <1>13 DEF ok
<1> QED
  BY <1>2, <1>6, <1>7, <1>9, <1>14 DEF Grown, ok, x

-----------------------------------------------------------------------------
\* Types, phases and the completion queue.

\* Removing one element of a sequence.
LEMMA RemoveFacts ==
    ASSUME NEW S, NEW b \in Seq(S), NEW i \in 1..Len(b)
    PROVE  LET r == SubSeq(b, 1, i - 1) \o SubSeq(b, i + 1, Len(b))
           IN  /\ r \in Seq(S) /\ Len(r) = Len(b) - 1
               /\ \A k \in 1..(Len(b) - 1) : r[k] = IF k < i THEN b[k] ELSE b[k + 1]
<1> DEFINE s == SubSeq(b, 1, i - 1)
           t == SubSeq(b, i + 1, Len(b))
<1>1. Len(b) \in Nat
  BY LenProperties
<1>2. s \in Seq(S) /\ Len(s) = i - 1 /\ \A k \in 1..(i - 1) : s[k] = b[k]
  BY <1>1
<1>3. t \in Seq(S) /\ Len(t) = Len(b) - i /\ \A k \in 1..(Len(b) - i) : t[k] = b[i + k]
  BY <1>1
<1> HIDE DEF s, t
<1>4. /\ s \o t \in Seq(S) /\ Len(s \o t) = Len(s) + Len(t)
      /\ \A k \in 1..(Len(s) + Len(t)) : (s \o t)[k] = IF k <= Len(s) THEN s[k] ELSE t[k - Len(s)]
  BY <1>2, <1>3, ConcatProperties
<1>5. ASSUME NEW k \in 1..(Len(b) - 1)
      PROVE  (s \o t)[k] = IF k < i THEN b[k] ELSE b[k + 1]
  <2>1. CASE k < i
    BY <1>1, <1>2, <1>3, <1>4, <2>1
  <2>2. CASE k >= i
    <3>1. (s \o t)[k] = t[k - (i - 1)]
      BY <1>1, <1>2, <1>3, <1>4, <2>2
    <3>2. k - (i - 1) \in 1..(Len(b) - i) /\ i + (k - (i - 1)) = k + 1 /\ ~(k < i)
      BY <1>1, <2>2
    <3>3. t[k - (i - 1)] = b[i + (k - (i - 1))]
      BY <1>3, <3>2
    <3> QED
      BY <3>1, <3>2, <3>3
  <2>3. k < i \/ k >= i
    BY <1>1
  <2> QED
    BY <2>1, <2>2, <2>3, Zenon
<1>6. s \o t \in Seq(S) /\ Len(s \o t) = Len(b) - 1
  BY <1>1, <1>2, <1>3, <1>4
<1> QED
  BY <1>5, <1>6 DEF s, t

\* The slots after a batch are naturals.
LEMMA SeqAfterType ==
    ASSUME TypeOK, NEW b \in Seq(Cmds)
    PROVE  SeqAfter(b) \in [LogicalQueues -> Nat]
<1> SUFFICES ASSUME NEW l \in LogicalQueues
             PROVE  sender_seq[l] + (IF UseArrivalQueue
                      THEN Cardinality({i \in 1..Len(b) : LogicalQueue(b[i]) = l}) ELSE 0) \in Nat
  BY DEF SeqAfter
<1>1. Len(b) \in Int /\ 1 \in Int
  BY LenProperties
<1>2. Cardinality({i \in 1..Len(b) : LogicalQueue(b[i]) = l}) \in Nat
  <2>1. {i \in 1..Len(b) : LogicalQueue(b[i]) = l} \in SUBSET (1..Len(b))
    OBVIOUS
  <2> QED
    BY <1>1, <2>1, PartFinite, Zenon
<1>3. sender_seq[l] \in Nat
  BY DEF TypeOK
<1> QED
  BY <1>2, <1>3

\* Steps that touch neither the commands, nor the NIC, nor the counters.
Quiet ==
    /\ UNCHANGED <<cfg, gpu, cpu_head, loop, inflight, epoch, nic>>
    /\ <<ppc, ppc'>> \in {<<"top", "exit">>, <<"top", "spin">>, <<"spin", "unack">>,
                          <<"unack", "top">>, <<"collect", "strided">>, <<"exit", "ended">>}
         \/ ppc' = ppc
    /\ \/ hpc' = hpc
       \/ hpc = "kernel" /\ todo = {} /\ hpc' = "drain"
       \/ hpc = "drain" /\ (DrainsAll => cpu_head >= Len(fifo) /\ inflight = 0)
            /\ hpc' = "drained"
       \/ <<hpc, hpc'>> \in {<<"drained", "pausing">>, <<"pausing", "drain_cq">>,
                             <<"resume", "resuming">>, <<"resuming", "idle">>,
                             <<"drained", "join">>, <<"join", "destroyed">>}

QuietActions ==
    \/ Leave \/ Acknowledge \/ SpinEnds \/ Withdraw \/ CollectEnds \/ Exit
    \/ Synchronize \/ DrainProxy \/ Pause \/ PauseReturns \/ ResumeAck \/ Resume
    \/ Stop \/ Join \/ Finished \/ UNCHANGED vars

\* The other actions.
LoudActions ==
    \/ StartBatch \/ PostStrided \/ PostBatch \/ PostNothing
    \/ ProxyPollCq \/ ExitDrain \/ DrainCq \/ AdvanceTail
    \/ cpu_head < Len(fifo) /\ Collect(fifo[cpu_head + 1])
    \/ (\E k \in Kernels : Launch(k)) \/ (\E c \in todo : Push(c))
    \/ Prepared \/ CommitEpoch \/ (\E q \in QPs : Execute(q))

\* Every step is of an action of one kind or the other.
LEMMA Actions == ASSUME [Next]_vars PROVE QuietActions \/ LoudActions
  BY DEF Next, ProxyStep, HostStep, QuietActions, LoudActions

\* The quiet actions are quiet.
LEMMA QuietOnes ==
    ASSUME TypeOK, QuietActions
    PROVE  Quiet
<1>1. CASE Leave
  BY <1>1 DEF Leave, Quiet
<1>2. CASE Acknowledge
  BY <1>2 DEF Acknowledge, Quiet
<1>3. CASE SpinEnds
  BY <1>3 DEF SpinEnds, Quiet
<1>4. CASE Withdraw
  BY <1>4 DEF Withdraw, Quiet
<1>5. CASE CollectEnds
  BY <1>5 DEF CollectEnds, Quiet
<1>6. CASE Exit
  BY <1>6 DEF Exit, Quiet
<1>7. CASE Synchronize
  BY <1>7 DEF Synchronize, Quiet
<1>8. CASE DrainProxy
  <2>1. DrainsAll => ~DrainMayTimeOut
    BY DEF DrainsAll
  <2> QED
    BY <1>8, <2>1 DEF DrainProxy, Quiet
<1>9. CASE Pause
  BY <1>9 DEF Pause, Quiet
<1>10. CASE PauseReturns
  BY <1>10 DEF PauseReturns, Quiet
<1>11. CASE ResumeAck
  BY <1>11 DEF ResumeAck, Quiet
<1>12. CASE Resume
  BY <1>12 DEF Resume, Quiet
<1>13. CASE Stop
  BY <1>13 DEF Stop, Quiet
<1>14. CASE Join
  BY <1>14 DEF Join, Quiet
<1>15. CASE Finished
  BY <1>15 DEF Finished, Quiet, vars, gpu, nic, loop
<1>16. CASE UNCHANGED vars
  BY <1>16 DEF Quiet, vars, gpu, nic, loop
<1> QED
  BY <1>1, <1>2, <1>3, <1>4, <1>5, <1>6, <1>7, <1>8, <1>9, <1>10, <1>11, <1>12, <1>13, <1>14,
     <1>15, <1>16 DEF QuietActions

\* The configuration of a session never changes.
LEMMA CfgSame == ASSUME [Next]_vars, TypeOK PROVE cfg' = cfg
<1>1. CASE QuietActions
  BY <1>1, QuietOnes DEF Quiet
<1>2. CASE LoudActions
  <2>1. CASE StartBatch
    BY <2>1 DEF StartBatch
  <2>2. CASE PostStrided \/ PostBatch \/ PostNothing \/ AdvanceTail
    BY <2>2 DEF PostStrided, PostBatch, PostNothing, AdvanceTail
  <2>3. CASE ProxyPollCq \/ ExitDrain \/ DrainCq
    BY <2>3 DEF ProxyPollCq, ExitDrain, DrainCq
  <2>4. CASE Collect(fifo[cpu_head + 1])
    BY <2>4 DEF Collect, Polls
  <2>5. CASE (\E k \in Kernels : Launch(k)) \/ (\E c \in todo : Push(c))
    BY <2>5 DEF Launch, Push
  <2>6. CASE Prepared \/ CommitEpoch \/ (\E q \in QPs : Execute(q))
    BY <2>6 DEF Prepared, CommitEpoch, Execute
  <2> QED
    BY <1>2, <2>1, <2>2, <2>3, <2>4, <2>5, <2>6 DEF LoudActions
<1> QED
  BY <1>1, <1>2, Actions

\* Quiet actions keep the types and what the collect loop holds routed.
LEMMA QuietTypes ==
    ASSUME TypeOK, CollectInv, QuietActions
    PROVE  TypeOK' /\ CollectInv'
<1>1. Quiet
  BY QuietOnes
<1>2. running' \in BOOLEAN /\ paused' \in BOOLEAN /\ ack_paused' \in BOOLEAN /\ tail' = tail
  <2>1. running \in BOOLEAN /\ paused \in BOOLEAN /\ ack_paused \in BOOLEAN
    BY DEF TypeOK
  <2>2. CASE Leave \/ SpinEnds \/ CollectEnds \/ Exit \/ Synchronize \/ DrainProxy \/ PauseReturns
             \/ Join
    BY <2>1, <2>2
    DEF Leave, SpinEnds, CollectEnds, Exit, Synchronize, DrainProxy, PauseReturns, Join, flow
  <2>3. CASE Acknowledge \/ Withdraw \/ Pause \/ ResumeAck \/ Resume \/ Stop
    BY <2>1, <2>3 DEF Acknowledge, Withdraw, Pause, ResumeAck, Resume, Stop
  <2>4. CASE Finished \/ UNCHANGED vars
    BY <2>1, <2>4 DEF Finished, vars, flow
  <2> QED
    BY <2>2, <2>3, <2>4 DEF QuietActions
<1>3. /\ cfg' = cfg /\ todo' = todo /\ fifo' = fifo /\ cpu_head' = cpu_head /\ batch' = batch
      /\ batch_qp' = batch_qp /\ pending' = pending /\ pre_inflight' = pre_inflight
      /\ strided_posted' = strided_posted /\ sender_seq' = sender_seq /\ qp_rr_idx' = qp_rr_idx
      /\ inflight' = inflight /\ epoch' = epoch /\ posted' = posted /\ done' = done
      /\ freed' = freed /\ cq' = cq
  BY <1>1 DEF Quiet, gpu, loop, nic
<1>4. ppc' \in ProxyAt /\ hpc' \in HostAt
  BY <1>1 DEF Quiet, TypeOK, ProxyAt, HostAt
<1>5. /\ QPs' = QPs /\ Cmds' = Cmds /\ Wrs' = Wrs /\ LogicalQueues' = LogicalQueues
      /\ Routed' = Routed /\ \A c : Collectable(c)' = Collectable(c) /\ RouteQp(c)' = RouteQp(c)
  BY <1>3, CfgKept
<1>6. TypeOK'
  BY <1>2, <1>3, <1>4, <1>5 DEF TypeOK
<1>7. CollectInv'
  BY <1>3, <1>5 DEF CollectInv
<1> QED
  BY <1>6, <1>7

\* So do the others.
LEMMA LoudTypes ==
    ASSUME TypeOK, CollectInv, CqInv, LoudActions
    PROVE  TypeOK' /\ CollectInv'
<1>0. cfg' = cfg
  <2>1. [Next]_vars
    BY DEF LoudActions, Next, ProxyStep, HostStep
  <2> QED
    BY <2>1, CfgSame
<1>1. /\ QPs' = QPs /\ Cmds' = Cmds /\ Wrs' = Wrs /\ LogicalQueues' = LogicalQueues
      /\ Routed' = Routed /\ \A c : Collectable(c)' = Collectable(c) /\ RouteQp(c)' = RouteQp(c)
  BY <1>0, CfgKept
<1>2. CASE StartBatch
  <2>1. /\ UNCHANGED <<cfg, gpu, cpu_head, tail, strided_posted, sender_seq, qp_rr_idx,
                       flow, inflight, epoch, hpc, nic>>
        /\ pre_inflight' = inflight /\ ppc' = "collect"
    BY <1>2 DEF StartBatch
  <2>2. \/ batch' = <<>> /\ pending' = pending /\ batch_qp' = qp_rr_idx
        \/ batch' = pending /\ pending' = <<>> /\ batch_qp' = RouteQp(pending[1])
             /\ Routed /\ pending # <<>> /\ Len(pending) <= 1
    <3>1. Len(pending) <= 1
      BY DEF CollectInv
    <3> QED
      BY <1>2, <3>1 DEF StartBatch
  <2>3. pending # <<>> => 1 \in 1..Len(pending)
    BY EmptySeq, LenProperties DEF TypeOK
  <2>4. Routed /\ pending # <<>> => RouteQp(pending[1]) \in QPs
    BY <2>3 DEF CollectInv, Collectable
  <2>5. batch' \in Seq(Cmds) /\ pending' \in Seq(Cmds) /\ batch_qp' \in QPs
    <3>1. pending \in Seq(Cmds) /\ qp_rr_idx \in QPs /\ <<>> \in Seq(Cmds)
      BY DEF TypeOK
    <3> QED
      BY <2>2, <2>4, <3>1, Zenon
  <2>6. TypeOK'
    BY <1>1, <2>1, <2>5 DEF TypeOK, ProxyAt, gpu, flow, nic
  <2>7. CollectInv'
    <3>1. CASE batch' = <<>> /\ pending' = pending
      BY <1>1, <3>1 DEF CollectInv
    <3>2. CASE batch' = pending /\ pending' = <<>> /\ batch_qp' = RouteQp(pending[1])
               /\ Len(pending) <= 1
      <4>1. \A i \in 1..Len(pending) : i = 1
        BY <3>2, LenProperties DEF TypeOK
      <4> QED
        BY <1>1, <3>2, <4>1 DEF CollectInv
    <3> QED
      BY <2>2, <3>1, <3>2
  <2> QED
    BY <2>6, <2>7
<1>3. CASE cpu_head < Len(fifo) /\ Collect(fifo[cpu_head + 1])
  <2> DEFINE c == fifo[cpu_head + 1]
  <2>1. c \in Cmds /\ cpu_head + 1 \in 0..Len(fifo)
    <3>1. cpu_head + 1 \in 1..Len(fifo)
      BY <1>3, LenProperties DEF TypeOK
    <3> QED
      BY <3>1, ElementOfSeq DEF TypeOK
  <2>2. Collect(c) /\ Polls(c)
    BY <1>3 DEF Collect
  <2> HIDE DEF c
  <2>3. /\ cpu_head' = cpu_head + 1
        /\ UNCHANGED <<cfg, gpu, tail, pre_inflight, strided_posted, sender_seq, qp_rr_idx,
                       flow, epoch, hpc>>
    BY <2>2 DEF Polls
  <2>4. CASE CollectBarrier(c)
    <3>1. PostStageBarrier(c) /\ UNCHANGED <<ppc, batch, batch_qp, pending>>
      BY <2>4 DEF CollectBarrier
    <3>2. /\ posted' \in [QPs -> Seq(Wrs)] /\ UNCHANGED <<done, freed, cq>>
          /\ \E n \in Nat : inflight' = inflight + n
      BY <1>0, <2>1, <3>1, BarrierAdds
    <3>3. inflight' \in Int
      BY <3>2 DEF TypeOK
    <3> QED
      BY <1>1, <2>1, <2>3, <3>1, <3>2, <3>3 DEF TypeOK, CollectInv, gpu, flow
  <2>5. CASE CollectNothing(c)
    BY <1>1, <2>1, <2>3, <2>5 DEF CollectNothing, TypeOK, CollectInv, gpu, flow, nic
  <2>6. CASE CollectWrite(c)
    <3>1. /\ Collectable(c) /\ Joins(c) /\ batch' = Append(batch, c)
          /\ batch_qp' = (IF Routed THEN RouteQp(c) ELSE batch_qp)
          /\ UNCHANGED <<ppc, pending, inflight, nic>>
      BY <2>6 DEF CollectWrite
    <3>2. Routed => RouteQp(c) \in QPs
      BY <3>1 DEF Collectable
    <3>3. batch' \in Seq(Cmds) /\ batch_qp' \in QPs
      BY <2>1, <3>1, <3>2 DEF TypeOK
    <3>4. TypeOK'
      BY <1>1, <2>1, <2>3, <3>1, <3>3 DEF TypeOK, gpu, flow, nic
    <3>5. ASSUME NEW i \in 1..Len(batch')
          PROVE  Collectable(batch'[i]) /\ (Routed => RouteQp(batch'[i]) = batch_qp')
      <4>1. \/ i \in 1..Len(batch) /\ batch'[i] = batch[i] /\ batch # <<>>
            \/ batch'[i] = c
        BY <2>1, <3>1 DEF TypeOK
      <4>2. CASE batch'[i] = c
        BY <3>1, <4>2
      <4>3. CASE i \in 1..Len(batch) /\ batch'[i] = batch[i] /\ batch # <<>>
        BY <3>1, <4>3 DEF CollectInv, Joins
      <4> QED
        BY <4>1, <4>2, <4>3
    <3>6. CollectInv'
      BY <1>1, <3>1, <3>5 DEF CollectInv
    <3> QED
      BY <3>4, <3>6
  <2>7. CASE CollectStash(c)
    <3>1. /\ Collectable(c) /\ pending' = <<c>> /\ ppc' = "strided"
          /\ UNCHANGED <<batch, batch_qp, inflight, nic>>
      BY <2>7 DEF CollectStash
    <3>2. TypeOK'
      BY <1>1, <2>1, <2>3, <3>1 DEF TypeOK, ProxyAt, gpu, flow, nic
    <3>3. CollectInv'
      BY <1>1, <3>1 DEF CollectInv
    <3> QED
      BY <3>2, <3>3
  <2> QED
    BY <2>2, <2>4, <2>5, <2>6, <2>7 DEF Collect
<1>4. CASE PostStrided
  <2>1. PICK i \in 1..Len(batch) :
          /\ Strided(batch[i])
          /\ batch' = SubSeq(batch, 1, i - 1) \o SubSeq(batch, i + 1, Len(batch))
          /\ IF StridedShapeOk(batch[i])
              THEN LET ch == StridedChain(batch[i])
                   IN  /\ sender_seq' = SeqAfter(<<batch[i]>>)
                       /\ posted' = [posted EXCEPT ![batch_qp] =
                                       @ \o SubSeq(ch, 1, Accepts(batch_qp, Len(ch)))]
                       /\ strided_posted' = strided_posted
                            + IF Fits(batch_qp, Len(ch)) THEN Len(ch) ELSE 0
              ELSE UNCHANGED <<cfg, sender_seq, posted, strided_posted>>
    BY <1>4 DEF PostStrided
  <2>2. UNCHANGED <<cfg, gpu, cpu_head, tail, ppc, batch_qp, pending, pre_inflight,
                   qp_rr_idx, flow, inflight, epoch, hpc, done, freed, cq>>
    BY <1>4 DEF PostStrided
  <2>3. batch \in Seq(Cmds) /\ batch[i] \in Cmds /\ Len(batch) \in Nat
    BY ElementOfSeq, LenProperties DEF TypeOK
  <2>4. /\ batch' \in Seq(Cmds) /\ Len(batch') = Len(batch) - 1
        /\ \A k \in 1..(Len(batch) - 1) : batch'[k] = IF k < i THEN batch[k] ELSE batch[k + 1]
    BY <2>1, <2>3, RemoveFacts
  <2>5. /\ sender_seq' \in [LogicalQueues -> Nat] /\ posted' \in [QPs -> Seq(Wrs)]
        /\ strided_posted' \in Nat
    <3>1. CASE StridedShapeOk(batch[i])
      <4> DEFINE ch == StridedChain(batch[i])
      <4>1. \E p : Chained(ch, <<batch[i]>>, Len(ch), p)
        BY <2>1, <2>3, <3>1, StridedIsChained
      <4>2. ch \in Seq(Wrs) /\ Len(ch) \in Nat
        BY <4>1, LenProperties DEF Chained
      <4>3. <<batch[i]>> \in Seq(Cmds)
        BY <2>3
      <4>4. /\ sender_seq' = SeqAfter(<<batch[i]>>)
            /\ posted' = [posted EXCEPT ![batch_qp] =
                                       @ \o SubSeq(ch, 1, Accepts(batch_qp, Len(ch)))]
            /\ strided_posted' = strided_posted + IF Fits(batch_qp, Len(ch)) THEN Len(ch) ELSE 0
        BY <2>1, <3>1
      <4> HIDE DEF ch
      <4>5. batch_qp \in QPs /\ Room(batch_qp) >= 0
        BY DEF TypeOK, CqInv
      <4>6. posted' \in [QPs -> Seq(Wrs)]
        BY <4>2, <4>4, <4>5, PostFacts
      <4>7. strided_posted' \in Nat
        BY <4>2, <4>4 DEF TypeOK
      <4> QED
        BY <4>3, <4>4, <4>6, <4>7, SeqAfterType
    <3>2. CASE ~StridedShapeOk(batch[i])
      BY <2>1, <3>2 DEF TypeOK
    <3> QED
      BY <3>1, <3>2
  <2>6. TypeOK'
    BY <1>1, <2>2, <2>4, <2>5 DEF TypeOK, gpu, flow
  <2>7. \A k \in 1..Len(batch') : \E j \in 1..Len(batch) : batch'[k] = batch[j]
    BY <2>3, <2>4
  <2>8. CollectInv'
    BY <1>1, <2>2, <2>7 DEF CollectInv
  <2> QED
    BY <2>6, <2>8
<1>5. CASE PostBatch
  <2> DEFINE ch == Chain(batch)
  <2>1. /\ ch \in Seq(Wrs) /\ batch # <<>> /\ Len(batch) \in Nat
    BY <1>5, ChainLayout, LenProperties DEF PostBatch, TypeOK
  <2>2. /\ posted' = [posted EXCEPT ![batch_qp] =
                           @ \o SubSeq(ch, 1, Accepts(batch_qp, Len(ch)))]
        /\ inflight' = inflight + strided_posted + IF Fits(batch_qp, Len(ch)) THEN Len(batch) ELSE 0
        /\ strided_posted' = 0 /\ sender_seq' = SeqAfter(batch)
        /\ qp_rr_idx' = (IF UseArrivalQueue THEN qp_rr_idx ELSE (qp_rr_idx + 1) % NumQPs)
        /\ ppc' = "poll_cq"
        /\ UNCHANGED <<cfg, gpu, cpu_head, tail, batch, batch_qp, pending, pre_inflight,
                   flow, epoch, hpc, done, freed, cq>>
    BY <1>5 DEF PostBatch
  <2> HIDE DEF ch
  <2>3. batch_qp \in QPs /\ Room(batch_qp) >= 0
    BY DEF TypeOK, CqInv
  <2>4. posted' \in [QPs -> Seq(Wrs)]
    BY <2>1, <2>2, <2>3, PostFacts
  <2>5. sender_seq' \in [LogicalQueues -> Nat]
    BY <2>2, SeqAfterType DEF TypeOK
  <2>6. qp_rr_idx' \in QPs
    <3>1. qp_rr_idx \in QPs /\ NumQPs \in Nat \ {0}
      BY CfgFacts DEF TypeOK
    <3>2. (qp_rr_idx + 1) % NumQPs \in QPs
      BY <3>1 DEF QPs
    <3> QED
      BY <2>2, <3>1, <3>2
  <2>7. inflight' \in Int
    BY <2>1, <2>2 DEF TypeOK
  <2>8. TypeOK'
    BY <1>1, <2>2, <2>4, <2>5, <2>6, <2>7 DEF TypeOK, ProxyAt, gpu, flow
  <2>9. CollectInv'
    BY <1>1, <2>2 DEF CollectInv
  <2> QED
    BY <2>8, <2>9
<1>6. CASE PostNothing
  <2>1. /\ UNCHANGED <<cfg, gpu, cpu_head, tail, batch, batch_qp, pending, pre_inflight,
                       sender_seq, qp_rr_idx, flow, epoch, hpc, nic>>
        /\ inflight' = inflight + strided_posted /\ strided_posted' = 0 /\ ppc' = "poll_cq"
    BY <1>6 DEF PostNothing
  <2>2. inflight' \in Int
    BY <2>1 DEF TypeOK
  <2>3. TypeOK'
    BY <1>1, <2>1, <2>2 DEF TypeOK, ProxyAt, gpu, flow, nic
  <2>4. CollectInv'
    BY <1>1, <2>1 DEF CollectInv
  <2> QED
    BY <2>3, <2>4
<1>7. CASE ProxyPollCq \/ ExitDrain \/ DrainCq
  <2>1. PollCq /\ UNCHANGED <<cfg, gpu, cpu_head, tail, loop, flow, epoch, hpc>>
        /\ ppc' \in ProxyAt
    BY <1>7 DEF ProxyPollCq, ExitDrain, DrainCq, ProxyAt, TypeOK
  <2>2. inflight' \in Int
    <3>1. \E n \in Nat : inflight' = inflight - n
      BY <1>0, <2>1, PollTakesOff
    <3> QED
      BY <3>1 DEF TypeOK
  <2>3. /\ cq' \in Seq([qp : QPs, wr : Nat]) /\ freed' \in [QPs -> Nat]
        /\ posted' = posted /\ done' = done
    BY <2>1, PollFacts
  <2>4. TypeOK'
    BY <1>1, <2>1, <2>2, <2>3 DEF TypeOK, gpu, flow, loop
  <2>5. CollectInv'
    BY <1>1, <2>1 DEF CollectInv, loop
  <2> QED
    BY <2>4, <2>5
<1>8. CASE AdvanceTail
  <2>1. tail' \in Nat
    BY <1>8, LenProperties DEF AdvanceTail, TypeOK
  <2> QED
    BY <1>1, <1>8, <2>1 DEF AdvanceTail, TypeOK, CollectInv, ProxyAt, gpu, flow, nic
<1>9. CASE \E k \in Kernels : Launch(k)
  <2>1. PICK k \in Kernels : Launch(k)
    BY <1>9
  <2>2. {Of(c, epoch) : c \in k} \in SUBSET Cmds
    BY DEF Cmds, TypeOK
  <2> QED
    BY <1>1, <2>1, <2>2 DEF Launch, TypeOK, CollectInv, HostAt, loop, flow, nic
<1>10. CASE \E c \in todo : Push(c)
  <2>1. PICK c \in todo : Push(c)
    BY <1>10
  <2>2. /\ fifo' \in Seq(Cmds) /\ Len(fifo') = Len(fifo) + 1 /\ cpu_head \in 0..Len(fifo')
    BY <2>1, LenProperties DEF Push, TypeOK
  <2> QED
    BY <1>1, <2>1, <2>2 DEF Push, TypeOK, CollectInv, loop, flow, nic
<1>11. CASE Prepared
  <2>1. /\ UNCHANGED <<cfg, gpu, cpu_head, tail, ppc, loop, flow, epoch, nic>>
        /\ inflight' \in Int /\ hpc' \in HostAt
    BY <1>11 DEF Prepared, HostAt
  <2>2. TypeOK'
    BY <1>1, <2>1 DEF TypeOK, gpu, loop, flow, nic
  <2>3. CollectInv'
    BY <1>1, <2>1 DEF CollectInv, loop
  <2> QED
    BY <2>2, <2>3
<1>12. CASE CommitEpoch
  BY <1>1, <1>12 DEF CommitEpoch, TypeOK, CollectInv, HostAt, flow, nic
<1>13. CASE \E q \in QPs : Execute(q)
  <2>1. PICK q \in QPs : Execute(q)
    BY <1>13
  <2>2. done' \in [QPs -> Nat] /\ done'[q] \in Nat
    <3>1. done \in [QPs -> Nat] /\ done' = [done EXCEPT ![q] = done[q] + 1] /\ done[q] \in Nat
      BY <2>1 DEF Execute, TypeOK
    <3>2. done[q] + 1 \in Nat
      BY <3>1
    <3> QED
      BY <3>1, <3>2
  <2>3. cq' \in Seq([qp : QPs, wr : Nat])
    <3>1. [qp |-> q, wr |-> done'[q]] \in [qp : QPs, wr : Nat]
      BY <2>2
    <3>2. cq \in Seq([qp : QPs, wr : Nat])
      BY DEF TypeOK
    <3>3. cq' = cq \/ cq' = Append(cq, [qp |-> q, wr |-> done'[q]])
      BY <2>1 DEF Execute
    <3> DEFINE R == [qp : QPs, wr : Nat]
               x == [qp |-> q, wr |-> done'[q]]
    <3>4. x \in R /\ cq \in Seq(R) /\ (cq' = cq \/ cq' = Append(cq, x))
      BY <3>1, <3>2, <3>3
    <3> HIDE DEF R, x
    <3>5. cq' \in Seq(R)
      BY <3>4
    <3> QED
      BY <3>5 DEF R
  <2>4. TypeOK'
    BY <1>1, <2>1, <2>2, <2>3 DEF Execute, TypeOK, gpu, flow, loop
  <2>5. CollectInv'
    BY <1>1, <2>1 DEF Execute, CollectInv, loop
  <2> QED
    BY <2>4, <2>5
<1> QED
  BY <1>2, <1>3, <1>4, <1>5, <1>6, <1>7, <1>8, <1>9, <1>10, <1>11, <1>12, <1>13 DEF LoudActions

\* The chain of a batch carries the batch's size in its last wr_id and nothing before.
LEMMA ChainSignals ==
    ASSUME TypeOK, NEW b \in Seq(Cmds), b # <<>>
    PROVE  Signals(Chain(b), Len(b))
<1> DEFINE ch == Chain(b)
           n == Len(b)
           N == (1 + Tails) * n
<1>1. n \in Nat \ {0}
  BY EmptySeq
<1>2. /\ ch \in Seq(Wrs) /\ Len(ch) = N
      /\ \A i \in 1..n, m \in 1..(1 + Tails) : ch[At(i, m)] = One(b, i)[m]
  BY ChainLayout
<1>3. /\ Tails \in {1, 2}
      /\ \A k \in 1..N : Row(k) \in 1..n /\ Col(k) \in 1..(1 + Tails) /\ k = At(Row(k), Col(k))
      /\ \A i \in 1..n, m \in 1..(1 + Tails) : At(i, m) = N <=> i = n /\ m = 1 + Tails
  BY <1>1, Places
<1>4. N > 0
  BY <1>1, <1>3
<1> HIDE DEF ch, N
<1>5. ASSUME NEW k \in 1..N PROVE ch[k].wr_count = IF k = N THEN n ELSE 0
  <2> DEFINE i == Row(k)
             m == Col(k)
  <2>1. i \in 1..n /\ m \in 1..(1 + Tails) /\ ch[k] = One(b, i)[m]
    BY <1>2, <1>3
  <2>2. k = N <=> i = n /\ m = 1 + Tails
    BY <1>3
  <2>3. Count(b, i) = IF i = n THEN n ELSE 0
    BY DEF Count
  <2>4. /\ One(b, i)[1].wr_count = 0
        /\ One(b, i)[2].wr_count = IF Tails = 1 THEN Count(b, i) ELSE 0
        /\ Tails = 2 => One(b, i)[3].wr_count = Count(b, i)
    BY <2>1, OneFacts, WrIs
  <2> HIDE DEF i, m
  <2>5. m = 1 \/ m = 2 \/ (m = 3 /\ Tails = 2)
    BY <1>3, <2>1
  <2>6. CASE m = 1
    BY <1>3, <2>1, <2>2, <2>4, <2>6
  <2>7. CASE m = 2
    BY <1>3, <2>1, <2>2, <2>3, <2>4, <2>7
  <2>8. CASE m = 3 /\ Tails = 2
    BY <2>1, <2>2, <2>3, <2>4, <2>8
  <2> QED
    BY <2>5, <2>6, <2>7, <2>8
<1> QED
  BY <1>1, <1>2, <1>4, <1>5 DEF Signals, ch

\* What each posting of the loop does to its QP and to inflight_.
LEMMA PostingsAdd ==
    ASSUME TypeOK, CqInv, PostBatch \/ PostStrided
    PROVE  /\ posted' \in [QPs -> Seq(Wrs)] /\ Grown /\ UNCHANGED <<cfg, done, freed, cq>>
           /\ \E n, m \in Int : /\ inflight' = inflight + m /\ Outstanding' = Outstanding + n
                                /\ strided_posted' = strided_posted + (n - m)
<1>1. batch_qp \in QPs /\ inflight \in Int /\ strided_posted \in Nat /\ batch \in Seq(Cmds)
      /\ Len(batch) \in Nat
  BY LenProperties DEF TypeOK
<1>2. CASE PostBatch
  <2> DEFINE ch == Chain(batch)
             n == Len(batch)
  <2>1. Signals(ch, n)
    BY <1>1, <1>2, ChainSignals DEF PostBatch
  <2>2. /\ posted' = [posted EXCEPT ![batch_qp] = @ \o SubSeq(ch, 1, Accepts(batch_qp, Len(ch)))]
        /\ inflight' = inflight + strided_posted + IF Fits(batch_qp, Len(ch)) THEN n ELSE 0
        /\ strided_posted' = 0 /\ UNCHANGED <<cfg, done, freed, cq>>
    BY <1>2 DEF PostBatch
  <2> HIDE DEF ch
  <2>3. /\ posted' \in [QPs -> Seq(Wrs)] /\ Grown /\ Outstanding \in Nat
        /\ Outstanding' = Outstanding + (IF Fits(batch_qp, Len(ch)) THEN n ELSE 0)
    BY <1>1, <2>1, <2>2, PostAdds
  <2> DEFINE a == IF Fits(batch_qp, Len(ch)) THEN n ELSE 0
             m == strided_posted + a
  <2>4. a \in Int /\ m \in Int /\ Outstanding' = Outstanding + a
    BY <1>1, <2>3
  <2>5. inflight' = inflight + m /\ strided_posted' = strided_posted + (a - m)
    <3>1. inflight' = inflight + strided_posted + a /\ strided_posted' = 0
      BY <2>2
    <3>2. a \in Int
      BY <2>4
    <3> HIDE DEF a
    <3>3. inflight + strided_posted + a = inflight + m
      BY <1>1, <3>2
    <3>4. strided_posted + (a - m) = 0
      BY <1>1, <3>2
    <3> HIDE DEF m
    <3> QED
      BY <3>1, <3>3, <3>4
  <2> HIDE DEF a, m
  <2> QED
    BY <2>2, <2>3, <2>4, <2>5
<1>3. CASE PostStrided
  <2>1. PICK i \in 1..Len(batch) :
          /\ Strided(batch[i])
          /\ IF StridedShapeOk(batch[i])
              THEN LET ch == StridedChain(batch[i])
                   IN  /\ posted' = [posted EXCEPT ![batch_qp] =
                                       @ \o SubSeq(ch, 1, Accepts(batch_qp, Len(ch)))]
                       /\ strided_posted' = strided_posted
                            + IF Fits(batch_qp, Len(ch)) THEN Len(ch) ELSE 0
              ELSE UNCHANGED <<cfg, sender_seq, posted, strided_posted>>
    BY <1>3 DEF PostStrided
  <2>2. UNCHANGED <<cfg, inflight, done, freed, cq>>
    BY <1>3 DEF PostStrided
  <2>3. CASE StridedShapeOk(batch[i])
    <3> DEFINE ch == StridedChain(batch[i])
               n == Len(ch)
    <3>1. batch[i] \in Cmds
      BY <1>1, ElementOfSeq
    <3>2. \E p : Chained(ch, <<batch[i]>>, n, p)
      BY <2>1, <2>3, <3>1, StridedIsChained
    <3> HIDE DEF ch
    <3>3. Signals(ch, n)
      BY <3>2, LenProperties DEF Chained, Signals
    <3>4. /\ posted' = [posted EXCEPT ![batch_qp] =
                          @ \o SubSeq(ch, 1, Accepts(batch_qp, Len(ch)))]
          /\ strided_posted' = strided_posted + IF Fits(batch_qp, Len(ch)) THEN n ELSE 0
      BY <2>1, <2>3 DEF ch
    <3>5. n \in Nat
      BY <3>3 DEF Signals
    <3> HIDE DEF n
    <3>6. /\ posted' \in [QPs -> Seq(Wrs)] /\ Grown /\ Outstanding \in Nat
          /\ Outstanding' = Outstanding + (IF Fits(batch_qp, Len(ch)) THEN n ELSE 0)
      BY <1>1, <2>2, <3>3, <3>4, PostAdds
    <3> DEFINE a == IF Fits(batch_qp, Len(ch)) THEN n ELSE 0
    <3>7. a \in Int /\ Outstanding' = Outstanding + a /\ inflight' = inflight + 0
      BY <1>1, <2>2, <3>5, <3>6
    <3>8. strided_posted' = strided_posted + (a - 0)
      BY <1>1, <3>4, <3>5
    <3> HIDE DEF a
    <3> QED
      BY <2>2, <3>6, <3>7, <3>8
  <2>4. CASE ~StridedShapeOk(batch[i])
    <3>1. UNCHANGED <<posted, strided_posted>>
      BY <2>1, <2>4
    <3>2. posted' \in [QPs -> Seq(Wrs)] /\ freed' \in [QPs -> Nat]
      BY <2>2, <3>1 DEF TypeOK
    <3>3. Outstanding \in Int /\ Outstanding' = Outstanding
      <4>1. Outstanding' = Total(Left(posted, freed, QPs), QPs)
        BY <2>2, <3>1, <3>2, OutstandingNext
      <4>2. Total(Left(posted, freed, QPs), QPs) \in Nat
        BY LeftNat DEF TypeOK
      <4> QED
        BY <4>1, <4>2, OutstandingIs
    <3>4. Grown
      <4>1. \A r \in QPs : Len(posted[r]) \in Nat /\ Room(r) >= 0 /\ posted'[r] = posted[r]
        BY <3>1, LenProperties DEF TypeOK, CqInv
      <4>2. \A r \in QPs : Len(posted[r]) - Len(posted[r]) = 0
        BY <4>1
      <4> SUFFICES ASSUME NEW r \in QPs
                   PROVE  /\ Len(posted[r]) <= Len(posted'[r])
                          /\ Len(posted'[r]) - Len(posted[r]) <= Room(r)
                          /\ \A k \in 1..Len(posted[r]) : posted'[r][k] = posted[r][k]
        BY DEF Grown
      <4>3. posted'[r] = posted[r] /\ Len(posted[r]) - Len(posted[r]) <= Room(r)
            /\ Len(posted[r]) <= Len(posted[r])
        <5>1. Len(posted[r]) \in Nat /\ 0 <= Room(r)
          BY <4>1
        <5>2. Len(posted[r]) - Len(posted[r]) = 0
          BY <4>2
        <5> QED
          BY <4>1, <5>1, <5>2
      <4> QED
        BY <4>3
    <3>5. /\ inflight' = inflight + 0 /\ Outstanding' = Outstanding + 0
          /\ strided_posted' = strided_posted + (0 - 0)
      BY <1>1, <2>2, <3>1, <3>3
    <3> QED
      BY <2>2, <3>2, <3>4, <3>5
  <2> QED
    BY <2>3, <2>4
<1> QED
  BY <1>2, <1>3

\* The NIC adds the completion of the signaled WR it carries out.
LEMMA ExecuteKeepsCq ==
    ASSUME TypeOK, CqInv, NEW q \in QPs, Execute(q)
    PROVE  CqInv'
<1> DEFINE d == done[q] + 1
           x == [qp |-> q, wr |-> d]
<1>1. /\ UNCHANGED <<cfg, posted, freed>> /\ done[q] < Len(posted[q])
      /\ \A r \in QPs : done'[r] = IF r = q THEN d ELSE done[r]
  BY DEF Execute, TypeOK
<1>2. done[q] \in Nat /\ Len(posted[q]) \in Nat /\ Len(cq) \in Nat
  BY LenProperties DEF TypeOK
<1>3. IF posted[q][d].wr_count > 0 THEN cq' = Append(cq, x) ELSE cq' = cq
  BY <1>1 DEF Execute
<1>4. \/ posted[q][d].wr_count > 0 /\ Len(cq') = Len(cq) + 1 /\ cq'[Len(cq) + 1] = x
           /\ \A j \in 1..Len(cq) : cq'[j] = cq[j]
      \/ ~(posted[q][d].wr_count > 0) /\ cq' = cq
  <2> DEFINE R == [qp : QPs, wr : Nat]
  <2>1. cq \in Seq(R)
    BY DEF TypeOK
  <2> HIDE DEF R, x
  <2> QED
    BY <1>3, <2>1
<1>5. QPs' = QPs
  BY <1>1, CfgKept
<1>6. \A j \in 1..Len(cq) : cq[j].qp \in QPs /\ cq[j].wr \in Nat
  <2>1. \A j \in 1..Len(cq) : cq[j] \in [qp : QPs, wr : Nat]
    BY ElementOfSeq DEF TypeOK
  <2> QED
    BY <2>1
<1>7. \A j \in 1..Len(cq) : /\ freed[cq[j].qp] < cq[j].wr /\ cq[j].wr <= done[cq[j].qp]
                            /\ posted[cq[j].qp][cq[j].wr].wr_count > 0
  BY DEF CqInv
<1>8. \A r \in QPs : /\ freed[r] \in Nat /\ done[r] \in Nat /\ Len(posted[r]) \in Nat
                     /\ freed[r] <= done[r] /\ done[r] <= Len(posted[r]) /\ Room(r) >= 0
  <2>1. \A r \in QPs : freed[r] \in Nat /\ done[r] \in Nat /\ Len(posted[r]) \in Nat
    BY LenProperties DEF TypeOK
  <2> QED
    BY <2>1 DEF CqInv
<1>9. \A r \in QPs : freed'[r] <= done'[r] /\ done'[r] <= Len(posted'[r]) /\ Room(r)' >= 0
  <2>1. \A r \in QPs : freed[r] <= done'[r] /\ done'[r] <= Len(posted[r])
    BY <1>1, <1>2, <1>8
  <2>2. \A r \in QPs : Room(r)' = Room(r)
    BY <1>1 DEF Room
  <2> QED
    BY <1>1, <1>8, <2>1, <2>2
<1>10. x.qp = q /\ x.wr = d /\ freed[q] < d /\ d <= done'[q]
  BY <1>1, <1>2, <1>8
<1> HIDE DEF x
<1>11. ASSUME NEW j \in 1..Len(cq')
       PROVE  /\ freed'[cq'[j].qp] < cq'[j].wr /\ cq'[j].wr <= done'[cq'[j].qp]
              /\ posted'[cq'[j].qp][cq'[j].wr].wr_count > 0
  <2>1. CASE j \in 1..Len(cq)
    <3>1. cq'[j] = cq[j]
      BY <1>4, <2>1
    <3>2. cq[j].wr <= done'[cq[j].qp]
      <4>1. cq[j].qp \in QPs /\ cq[j].wr \in Nat /\ cq[j].wr <= done[cq[j].qp]
        BY <1>6, <1>7, <2>1
      <4>2. done[cq[j].qp] <= done'[cq[j].qp] /\ done'[cq[j].qp] \in Nat
        BY <1>1, <1>2, <1>8, <4>1
      <4> QED
        BY <1>8, <4>1, <4>2
    <3> QED
      BY <1>1, <1>7, <2>1, <3>1, <3>2
  <2>2. CASE j \notin 1..Len(cq)
    <3>1. posted[q][d].wr_count > 0 /\ j = Len(cq) + 1 /\ cq'[j] = x
      BY <1>2, <1>4, <2>2
    <3> QED
      BY <1>1, <1>10, <3>1
  <2> QED
    BY <2>1, <2>2
<1>12. ASSUME NEW j \in 1..Len(cq'), NEW k \in 1..Len(cq'), j < k, cq'[j].qp = cq'[k].qp
       PROVE  cq'[j].wr < cq'[k].wr
  <2>1. CASE k \in 1..Len(cq)
    <3>1. j \in 1..Len(cq) /\ cq'[j] = cq[j] /\ cq'[k] = cq[k]
      BY <1>2, <1>4, <1>12, <2>1
    <3> QED
      BY <1>12, <2>1, <3>1 DEF CqInv
  <2>2. CASE k \notin 1..Len(cq)
    <3>1. cq'[k] = x /\ j \in 1..Len(cq) /\ cq'[j] = cq[j]
      BY <1>2, <1>4, <1>12, <2>2
    <3>2. cq[j].qp = q /\ cq[j].wr \in Nat /\ cq[j].wr <= done[q]
      BY <1>6, <1>7, <1>10, <1>12, <3>1
    <3> QED
      BY <1>2, <1>10, <3>1, <3>2
  <2> QED
    BY <2>1, <2>2
<1>13. ASSUME NEW r \in QPs, NEW i \in (freed[r] + 1)..done'[r], posted[r][i].wr_count > 0
       PROVE  \E j \in 1..Len(cq') : cq'[j].qp = r /\ cq'[j].wr = i
  <2>1. CASE i <= done[r]
    <3>1. i \in (freed[r] + 1)..done[r]
      BY <1>1, <1>2, <1>8, <2>1
    <3>2. PICK j \in 1..Len(cq) : cq[j].qp = r /\ cq[j].wr = i
      BY <1>13, <3>1 DEF CqInv
    <3>3. j \in 1..Len(cq') /\ cq'[j] = cq[j]
      BY <1>2, <1>4
    <3> QED
      BY <3>2, <3>3
  <2>2. CASE i > done[r]
    <3>1. r = q /\ i = d
      BY <1>1, <1>2, <1>8, <2>2
    <3>2. Len(cq') = Len(cq) + 1 /\ cq'[Len(cq) + 1] = x
      BY <1>4, <1>13, <3>1
    <3>3. Len(cq) + 1 \in 1..Len(cq')
      BY <1>2, <3>2
    <3> QED
      BY <1>10, <3>1, <3>2, <3>3
  <2>3. i \in Int
    BY <1>8
  <2> QED
    BY <1>8, <2>1, <2>2, <2>3
<1> QED
  BY <1>1, <1>5, <1>9, <1>11, <1>12, <1>13 DEF CqInv

\* The phases of the host and the proxy thread stay matched.
LEMMA PhaseStep ==
    ASSUME TypeOK, PhaseInv, [Next]_vars
    PROVE  PhaseInv'
<1>1. running \in BOOLEAN /\ paused \in BOOLEAN /\ ack_paused \in BOOLEAN /\ batch \in Seq(Cmds)
  BY DEF TypeOK
<1>2. CASE QuietActions
  <2>1. CASE Leave
    BY <1>1, <2>1 DEF Leave, PhaseInv, gpu, loop, flow, nic
  <2>2. CASE Acknowledge
    BY <1>1, <2>2 DEF Acknowledge, PhaseInv, gpu, loop, flow, nic
  <2>3. CASE SpinEnds
    BY <1>1, <2>3 DEF SpinEnds, PhaseInv, gpu, loop, flow, nic
  <2>4. CASE Withdraw
    BY <1>1, <2>4 DEF Withdraw, PhaseInv, gpu, loop, flow, nic
  <2>5. CASE CollectEnds
    BY <1>1, <2>5 DEF CollectEnds, PhaseInv, gpu, loop, flow, nic
  <2>6. CASE Exit
    BY <1>1, <2>6 DEF Exit, PhaseInv, gpu, loop, flow, nic
  <2>7. CASE Synchronize
    BY <1>1, <2>7 DEF Synchronize, PhaseInv, gpu, loop, flow, nic
  <2>8. CASE DrainProxy
    BY <1>1, <2>8 DEF DrainProxy, PhaseInv, gpu, loop, flow, nic
  <2>9. CASE Pause
    BY <1>1, <2>9 DEF Pause, PhaseInv, gpu, loop, flow, nic
  <2>10. CASE PauseReturns
    BY <1>1, <2>10 DEF PauseReturns, PhaseInv, gpu, loop, flow, nic
  <2>11. CASE ResumeAck
    BY <1>1, <2>11 DEF ResumeAck, PhaseInv, gpu, loop, flow, nic
  <2>12. CASE Resume
    BY <1>1, <2>12 DEF Resume, PhaseInv, gpu, loop, flow, nic
  <2>13. CASE Stop
    BY <1>1, <2>13 DEF Stop, PhaseInv, gpu, loop, flow, nic
  <2>14. CASE Join
    BY <1>1, <2>14 DEF Join, PhaseInv, gpu, loop, flow, nic
  <2>15. CASE Finished \/ UNCHANGED vars
    BY <1>1, <2>15 DEF Finished, vars, PhaseInv, gpu, loop, flow, nic
  <2> QED
    BY <1>2, <2>1, <2>2, <2>3, <2>4, <2>5, <2>6, <2>7, <2>8, <2>9, <2>10, <2>11, <2>12, <2>13,
       <2>14, <2>15 DEF QuietActions
<1>3. CASE LoudActions
  <2>1. CASE StartBatch
    BY <1>1, <2>1 DEF StartBatch, PhaseInv, gpu, flow
  <2>2. CASE Collect(fifo[cpu_head + 1])
    <3>1. ppc = "collect" /\ UNCHANGED <<todo, strided_posted, flow, hpc>>
      BY <2>2 DEF Collect, Polls, gpu
    <3>2. ppc' \in {"collect", "strided"}
      BY <2>2, <3>1 DEF Collect, CollectBarrier, CollectNothing, CollectWrite, CollectStash
    <3> QED
      BY <1>1, <3>1, <3>2 DEF PhaseInv, flow
  <2>3. CASE PostStrided
    <3>1. ppc = "strided" /\ UNCHANGED <<ppc, gpu, flow, hpc>>
      BY <2>3 DEF PostStrided
    <3> QED
      BY <1>1, <3>1 DEF PhaseInv, gpu, flow
  <2>4. CASE PostBatch
    BY <1>1, <2>4 DEF PostBatch, PhaseInv, gpu, flow
  <2>5. CASE PostNothing
    BY <1>1, <2>5 DEF PostNothing, PhaseInv, gpu, flow
  <2>6. CASE ProxyPollCq \/ ExitDrain \/ DrainCq
    BY <1>1, <2>6 DEF ProxyPollCq, ExitDrain, DrainCq, PhaseInv, gpu, loop, flow
  <2>7. CASE AdvanceTail
    BY <1>1, <2>7 DEF AdvanceTail, PhaseInv, gpu, flow
  <2>8. CASE \E k \in Kernels : Launch(k)
    BY <1>1, <2>8 DEF Launch, PhaseInv, loop, flow
  <2>9. CASE \E c \in todo : Push(c)
    <3>1. todo # {} /\ UNCHANGED <<ppc, loop, flow, hpc>>
      BY <2>9 DEF Push
    <3> QED
      BY <1>1, <3>1 DEF PhaseInv, loop, flow
  <2>10. CASE Prepared
    BY <1>1, <2>10 DEF Prepared, PhaseInv, gpu, loop, flow
  <2>11. CASE CommitEpoch
    BY <1>1, <2>11 DEF CommitEpoch, PhaseInv, flow
  <2>12. CASE \E q \in QPs : Execute(q)
    BY <1>1, <2>12 DEF Execute, PhaseInv, gpu, loop, flow
  <2> QED
    BY <1>3, <2>1, <2>2, <2>3, <2>4, <2>5, <2>6, <2>7, <2>8, <2>9, <2>10, <2>11, <2>12
    DEF LoudActions
<1> QED
  BY <1>2, <1>3, Actions

\* The completion queue's invariant is about the NIC's variables alone.
LEMMA CqSame ==
    ASSUME CqInv, UNCHANGED <<cfg, nic>>
    PROVE  CqInv'
<1>1. UNCHANGED <<posted, done, freed, cq>>
  BY DEF nic
<1>2. QPs' = QPs
  BY CfgKept
<1>3. \A r : Room(r)' = Room(r)
  BY <1>1 DEF Room
<1> QED
  BY <1>1, <1>2, <1>3 DEF CqInv

\* Every step of the program keeps the completion queue and the count of what is in flight.
LEMMA NicStep ==
    ASSUME TypeOK, PhaseInv, CqInv, InflightExact, [Next]_vars
    PROVE  CqInv' /\ InflightExact'
<1>0. cfg' = cfg
  BY CfgSame
<1>1. /\ inflight \in Int /\ strided_posted \in Nat /\ Outstanding \in Nat
      /\ inflight + strided_posted = Outstanding
  BY OutstandingIs, LeftNat DEF TypeOK, InflightExact
<1>2. ASSUME nic' = nic PROVE CqInv' /\ Outstanding' = Outstanding
  <2>1. posted' = posted /\ freed' = freed
    BY <1>2 DEF nic
  <2>2. Outstanding' = Total(Left(posted, freed, QPs), QPs)
    BY <1>0, <2>1, OutstandingNext DEF TypeOK
  <2> QED
    BY <1>0, <1>2, <2>2, CqSame, OutstandingIs
<1>3. CASE nic' = nic /\ inflight' + strided_posted' = inflight + strided_posted
  BY <1>2, <1>3 DEF InflightExact
<1>4. CASE QuietActions
  <2>1. Quiet
    BY <1>4, QuietOnes
  <2> QED
    BY <1>3, <2>1 DEF Quiet, loop
<1>5. CASE StartBatch
  BY <1>3, <1>5 DEF StartBatch
<1>6. CASE cpu_head < Len(fifo) /\ Collect(fifo[cpu_head + 1])
  <2> DEFINE c == fifo[cpu_head + 1]
  <2>1. c \in Cmds
    <3>1. cpu_head + 1 \in 1..Len(fifo)
      BY <1>6, LenProperties DEF TypeOK
    <3> QED
      BY <3>1, ElementOfSeq DEF TypeOK
  <2>2. Collect(c) /\ strided_posted' = strided_posted
    BY <1>6 DEF Collect, Polls
  <2> HIDE DEF c
  <2>3. CASE CollectBarrier(c)
    <3>1. PostStageBarrier(c)
      BY <2>3 DEF CollectBarrier
    <3>2. /\ posted' \in [QPs -> Seq(Wrs)] /\ Grown /\ UNCHANGED <<done, freed, cq>>
          /\ \E n \in Nat : inflight' = inflight + n /\ Outstanding' = Outstanding + n
      BY <1>0, <2>1, <3>1, BarrierAdds
    <3>3. CqInv'
      BY <1>0, <3>2, GrownKeepsCq
    <3>4. PICK n \in Nat : inflight' = inflight + n /\ Outstanding' = Outstanding + n
      BY <3>2
    <3>5. inflight' + strided_posted' = Outstanding'
      BY <1>1, <2>2, <3>4
    <3> QED
      BY <3>3, <3>5 DEF InflightExact
  <2>4. CASE CollectNothing(c) \/ CollectWrite(c) \/ CollectStash(c)
    <3>1. nic' = nic /\ inflight' = inflight
      BY <2>4 DEF CollectNothing, CollectWrite, CollectStash
    <3> QED
      BY <1>3, <2>2, <3>1
  <2> QED
    BY <2>2, <2>3, <2>4 DEF Collect
<1>7. CASE PostBatch \/ PostStrided
  <2>1. /\ posted' \in [QPs -> Seq(Wrs)] /\ Grown /\ UNCHANGED <<cfg, done, freed, cq>>
        /\ \E n, m \in Int : /\ inflight' = inflight + m /\ Outstanding' = Outstanding + n
                             /\ strided_posted' = strided_posted + (n - m)
    BY <1>7, PostingsAdd
  <2>2. CqInv'
    BY <2>1, GrownKeepsCq
  <2>3. PICK n, m \in Int : /\ inflight' = inflight + m /\ Outstanding' = Outstanding + n
                            /\ strided_posted' = strided_posted + (n - m)
    BY <2>1
  <2>4. inflight' + strided_posted' = Outstanding'
    BY <1>1, <2>3
  <2> QED
    BY <2>2, <2>4 DEF InflightExact
<1>8. CASE PostNothing
  <2>1. nic' = nic /\ inflight' = inflight + strided_posted /\ strided_posted' = 0
    BY <1>8 DEF PostNothing
  <2>2. inflight' + strided_posted' = inflight + strided_posted
    BY <1>1, <2>1
  <2> QED
    BY <1>3, <2>1, <2>2
<1>9. CASE ProxyPollCq \/ ExitDrain \/ DrainCq
  <2>1. PollCq /\ strided_posted' = strided_posted
    BY <1>9 DEF ProxyPollCq, ExitDrain, DrainCq, loop
  <2>2. CqInv'
    BY <1>0, <2>1, PollKeepsCq
  <2>3. PICK n \in Nat : inflight' = inflight - n /\ Outstanding' = Outstanding - n
    BY <1>0, <2>1, PollTakesOff
  <2>4. inflight' + strided_posted' = Outstanding'
    BY <1>1, <2>1, <2>3
  <2> QED
    BY <2>2, <2>4 DEF InflightExact
<1>10. CASE AdvanceTail
  BY <1>3, <1>10 DEF AdvanceTail
<1>11. CASE (\E k \in Kernels : Launch(k)) \/ (\E c \in todo : Push(c)) \/ CommitEpoch
  BY <1>3, <1>11 DEF Launch, Push, CommitEpoch, loop
\* reset_inflight: there is nothing to forget.
<1>12. CASE Prepared
  <2>1. nic' = nic /\ inflight' = 0 /\ strided_posted' = strided_posted /\ inflight <= 0
        /\ hpc = "drain_cq"
    BY <1>12 DEF Prepared, loop
  <2>2. strided_posted = 0
    BY <2>1 DEF PhaseInv
  <2>3. inflight = 0
    BY <1>1, <2>1, <2>2 DEF InflightExact
  <2> QED
    BY <1>3, <2>1, <2>3
<1>13. CASE \E q \in QPs : Execute(q)
  <2>1. PICK q \in QPs : Execute(q)
    BY <1>13
  <2>2. /\ UNCHANGED <<inflight, strided_posted, posted, freed>>
    BY <2>1 DEF Execute, loop
  <2>3. Outstanding' = Outstanding
    BY <1>0, <2>2, OutstandingIs, OutstandingNext DEF TypeOK
  <2> QED
    BY <2>1, <2>2, <2>3, ExecuteKeepsCq DEF InflightExact
<1> QED
  BY <1>4, <1>5, <1>6, <1>7, <1>8, <1>9, <1>10, <1>11, <1>12, <1>13, Actions DEF LoudActions

-----------------------------------------------------------------------------
\* inflight_ is exact.

Base == TypeOK /\ CollectInv /\ PhaseInv /\ CqInv /\ InflightExact

\* The base invariant holds initially.
LEMMA InitBase == Init => Base
<1> SUFFICES ASSUME Init PROVE Base
  OBVIOUS
<1>1. cfg \in Configs /\ QPs \subseteq Nat /\ 0 \in QPs /\ IsFiniteSet(QPs)
  BY CfgFacts DEF Init
<1>2. TypeOK
  BY <1>1 DEF Init, TypeOK, ProxyAt, HostAt
<1>3. CollectInv /\ PhaseInv
  BY DEF Init, CollectInv, PhaseInv
<1>4. CqInv
  BY <1>1, LimitAssumption DEF Init, CqInv, Room
<1>5. Outstanding = 0
  <2>1. ASSUME NEW q \in QPs PROVE Left(posted, freed, QPs)[q] = 0
    <3>1. posted[q] = <<>> /\ freed[q] = 0
      BY DEF Init
    <3>2. (0 + 1)..Len(<<>>) = {} /\ IsFiniteSet({})
      BY FS_EmptySet
    <3>3. \A w : Total(w, {}) = 0
      BY FS_EmptySet, TotalStep
    <3> QED
      BY <3>1, <3>2, <3>3 DEF Left, Remaining
  <2>2. Total(Left(posted, freed, QPs), QPs) = Total(Left(posted, freed, QPs), {})
    <3>1. /\ {} \subseteq QPs /\ \A q \in QPs : Left(posted, freed, QPs)[q] \in Int
          /\ \A q \in QPs \ {} : Left(posted, freed, QPs)[q] = 0
      BY <2>1
    <3> QED
      BY <1>1, <3>1, TotalRest
  <2>3. Total(Left(posted, freed, QPs), {}) = 0
    BY FS_EmptySet, TotalStep
  <2> QED
    BY <1>2, <2>2, <2>3, OutstandingIs
<1>6. InflightExact
  BY <1>5 DEF Init, InflightExact
<1> QED
  BY <1>2, <1>3, <1>4, <1>6 DEF Base

\* Every step keeps the base invariant.
LEMMA BaseStep == Base /\ [Next]_vars => Base'
<1> SUFFICES ASSUME Base, [Next]_vars PROVE Base'
  OBVIOUS
<1>1. TypeOK /\ CollectInv /\ PhaseInv /\ CqInv /\ InflightExact
  BY DEF Base
<1>2. TypeOK' /\ CollectInv'
  BY <1>1, Actions, QuietTypes, LoudTypes
<1>3. PhaseInv'
  BY <1>1, PhaseStep
<1>4. CqInv' /\ InflightExact'
  BY <1>1, NicStep
<1> QED
  BY <1>2, <1>3, <1>4 DEF Base

\* The base invariant always holds.
LEMMA AlwaysBase == Spec => []Base
  BY InitBase, BaseStep, PTL DEF Spec

\* The proxy thread, the host thread, the kernel and the NIC keep every variable of the
\* class within its type: no QP, queue or sequence number is used that does not exist.
THEOREM ProxyTypes == Spec => []TypeOK
<1>1. Base => TypeOK
  BY DEF Base
<1> QED
  BY <1>1, AlwaysBase, PTL

\* inflight_ is exact in every state, whatever post_send refuses: what the posting step
\* adds for a batch, a strided chain or a barrier is what the wr_ids of their signaled WRs
\* take off in poll_cq, whether the loop or drain_cq polls, and reset_inflight, which
\* stores 0 without looking, finds 0 there.
THEOREM InflightStaysExact == Spec => []InflightExact
<1>1. Base => InflightExact
  BY DEF Base
<1> QED
  BY <1>1, AlwaysBase, PTL

-----------------------------------------------------------------------------
\* A command is in one place.

\* Steps that leave alone what waits, except that the proxy may poll the next command.
Early == {"resume", "resuming", "idle"}
Sits ==
    /\ UNCHANGED <<cfg, todo, fifo, epoch>>
    /\ cpu_head' = cpu_head \/ (cpu_head < Len(fifo) /\ cpu_head' = cpu_head + 1)
    /\ hpc' \in Early => hpc \in Early
    /\ hpc' \in Drained => hpc \in Drained \/ (DrainsAll => cpu_head' >= Len(fifo))

\* How a step may change what the kernel and the FIFO have waiting.
LEMMA WaitMoves ==
    ASSUME TypeOK, [Next]_vars
    PROVE  Sits \/ (\E k \in Kernels : Launch(k)) \/ (\E c \in todo : Push(c)) \/ CommitEpoch
<1>1. CASE QuietActions
  <2>1. Quiet
    BY <1>1, QuietOnes
  <2>2. UNCHANGED <<cfg, todo, fifo, epoch>> /\ cpu_head' = cpu_head
    BY <2>1 DEF Quiet, gpu
  <2>3. /\ hpc' \in Early => hpc \in Early
        /\ hpc' \in Drained => hpc \in Drained \/ (DrainsAll => cpu_head' >= Len(fifo))
    BY <2>1, <2>2 DEF Quiet, Early, Drained
  <2> QED
    BY <2>2, <2>3 DEF Sits
<1>2. CASE StartBatch \/ PostStrided \/ PostBatch \/ PostNothing \/ AdvanceTail
  BY <1>2 DEF StartBatch, PostStrided, PostBatch, PostNothing, AdvanceTail, gpu, Sits
<1>3. CASE ProxyPollCq \/ ExitDrain \/ DrainCq \/ (\E q \in QPs : Execute(q))
  BY <1>3 DEF ProxyPollCq, ExitDrain, DrainCq, Execute, gpu, Sits
<1>4. CASE cpu_head < Len(fifo) /\ Collect(fifo[cpu_head + 1])
  BY <1>4 DEF Collect, Polls, gpu, Sits
<1>5. CASE Prepared
  <2>1. UNCHANGED <<cfg, todo, fifo, epoch, cpu_head>> /\ hpc = "drain_cq" /\ hpc' = "prepared"
    BY <1>5 DEF Prepared, gpu
  <2> QED
    BY <2>1 DEF Sits, Early, Drained
<1> QED
  BY <1>1, <1>2, <1>3, <1>4, <1>5, Actions DEF LoudActions

\* What is pushed is of the epoch of its kernel, and no two commands of it are the same.
LEMMA WaitingStep ==
    ASSUME TypeOK, PhaseInv, WaitingInv, [Next]_vars
    PROVE  WaitingInv'
<1>1. Len(fifo) \in Nat /\ fifo \in Seq(Cmds)
  BY LenProperties DEF TypeOK
<1>2. CASE Sits
  BY <1>2 DEF Sits, Early, WaitingInv
<1>3. ASSUME NEW k \in Kernels, Launch(k) PROVE WaitingInv'
  <2>1. /\ todo' = {Of(c, epoch) : c \in k} /\ fifo' = fifo /\ epoch' = epoch
        /\ hpc = "idle" /\ hpc' = "kernel"
    BY <1>3 DEF Launch
  <2>2. \A c \in todo' : c.gen = epoch
    BY <2>1 DEF Of
  <2>3. fifo = <<>>
    BY <2>1 DEF WaitingInv
  <2> QED
    BY <2>1, <2>2, <2>3 DEF WaitingInv
<1>4. ASSUME NEW c \in todo, Push(c) PROVE WaitingInv'
  <2>1. fifo' = Append(fifo, c) /\ todo' = todo \ {c} /\ epoch' = epoch /\ hpc' = hpc
    BY <1>4 DEF Push
  <2>2. hpc = "kernel" /\ c \in Cmds /\ c.gen = epoch
    BY <1>4 DEF PhaseInv, TypeOK, WaitingInv
  <2>3. /\ Len(fifo') = Len(fifo) + 1 /\ fifo'[Len(fifo) + 1] = c
        /\ \A i \in 1..Len(fifo) : fifo'[i] = fifo[i] /\ fifo[i] # c
    BY <1>1, <2>1, <2>2 DEF WaitingInv
  <2>4. \A i \in 1..Len(fifo') : i \in 1..Len(fifo) \/ i = Len(fifo) + 1
    BY <1>1, <2>3
  <2>5. \A i \in 1..Len(fifo') : fifo'[i].gen = epoch /\ fifo'[i] \notin todo'
    BY <2>1, <2>2, <2>3, <2>4 DEF WaitingInv
  <2>6. \A i, j \in 1..Len(fifo') : fifo'[i] = fifo'[j] => i = j
    BY <2>3, <2>4 DEF WaitingInv
  <2>7. \A d \in todo' : d.gen = epoch
    BY <2>1 DEF WaitingInv
  <2> QED
    BY <2>1, <2>2, <2>5, <2>6, <2>7 DEF WaitingInv
<1>5. CASE CommitEpoch
  <2>1. fifo' = <<>> /\ todo' = {}
    BY <1>5 DEF CommitEpoch, PhaseInv
  <2> QED
    BY <2>1 DEF WaitingInv
<1> QED
  BY <1>2, <1>3, <1>4, <1>5, WaitMoves

\* A command comes into the hands of the proxy by being polled.
NewHeld ==
    \A c \in Cmds : Held(c)' =>
        Held(c) \/ (cpu_head < Len(fifo) /\ c = fifo[cpu_head + 1] /\ cpu_head' = cpu_head + 1)

\* Every step keeps what the proxy holds apart from what waits to be polled.
LEMMA HeldStep ==
    ASSUME TypeOK, PhaseInv, WaitingInv, HeldInv, NewHeld, [Next]_vars
    PROVE  HeldInv'
<1>0. cfg' = cfg /\ Cmds' = Cmds
  BY CfgSame, CfgKept
<1>1. Len(fifo) \in Nat /\ cpu_head \in 0..Len(fifo) /\ fifo \in Seq(Cmds) /\ epoch \in Nat
  BY LenProperties DEF TypeOK
<1>2. \A c \in Cmds : c.gen \in Nat
  BY CmdFacts DEF TypeOK
<1> SUFFICES ASSUME NEW c \in Cmds, Held(c)'
             PROVE  /\ c.gen <= epoch' /\ c \notin todo'
                    /\ \A i \in (cpu_head' + 1)..Len(fifo') : fifo'[i] # c
                    /\ hpc' \in Early => c.gen < epoch'
  BY <1>0 DEF HeldInv, Early
<1>3. CASE Sits
  <2>0. todo' = todo /\ fifo' = fifo /\ epoch' = epoch /\ (hpc' \in Early => hpc \in Early)
    BY <1>3 DEF Sits
  <2>1. CASE Held(c)
    <3>1. \A i \in (cpu_head' + 1)..Len(fifo) : i \in (cpu_head + 1)..Len(fifo)
      BY <1>1, <1>3 DEF Sits
    <3> QED
      BY <2>0, <2>1, <3>1 DEF HeldInv, Early
  <2>2. CASE ~Held(c)
    <3>1. cpu_head < Len(fifo) /\ c = fifo[cpu_head + 1] /\ cpu_head' = cpu_head + 1
      BY <2>2 DEF NewHeld
    <3>2. cpu_head + 1 \in 1..Len(fifo)
      BY <1>1, <3>1
    <3>3. c.gen = epoch /\ c \notin todo /\ fifo # <<>>
      BY <1>1, <3>1, <3>2 DEF WaitingInv
    <3>4. \A i \in (cpu_head' + 1)..Len(fifo) : i \in 1..Len(fifo) /\ i # cpu_head + 1
      BY <1>1, <3>1
    <3>5. \A i \in (cpu_head' + 1)..Len(fifo) : fifo[i] # c
      BY <3>1, <3>2, <3>4 DEF WaitingInv
    <3>6. hpc \notin Early
      BY <3>3 DEF WaitingInv, Early
    <3> QED
      BY <1>1, <2>0, <3>3, <3>5, <3>6
  <2> QED
    BY <2>1, <2>2
<1>4. ASSUME NEW k \in Kernels, Launch(k)
      PROVE  /\ c.gen <= epoch' /\ c \notin todo'
             /\ \A i \in (cpu_head' + 1)..Len(fifo') : fifo'[i] # c
             /\ hpc' \in Early => c.gen < epoch'
  <2>1. /\ todo' = {Of(d, epoch) : d \in k} /\ fifo' = fifo /\ epoch' = epoch
        /\ cpu_head' = cpu_head /\ hpc = "idle" /\ hpc' = "kernel"
    BY <1>4 DEF Launch
  <2>2. Held(c)
    BY <1>1, <2>1 DEF NewHeld
  <2>3. c.gen < epoch /\ \A i \in (cpu_head + 1)..Len(fifo) : fifo[i] # c
    BY <2>1, <2>2 DEF HeldInv
  <2>4. \A d \in todo' : d.gen = epoch
    BY <2>1 DEF Of
  <2> QED
    BY <1>1, <1>2, <2>1, <2>3, <2>4 DEF Early
<1>5. ASSUME NEW d \in todo, Push(d)
      PROVE  /\ c.gen <= epoch' /\ c \notin todo'
             /\ \A i \in (cpu_head' + 1)..Len(fifo') : fifo'[i] # c
             /\ hpc' \in Early => c.gen < epoch'
  <2>1. /\ fifo' = Append(fifo, d) /\ todo' = todo \ {d} /\ epoch' = epoch /\ hpc' = hpc
        /\ cpu_head' = cpu_head /\ d \in Cmds
    BY <1>5 DEF Push, TypeOK
  <2>2. Held(c)
    BY <1>1, <2>1 DEF NewHeld
  <2>3. /\ c.gen <= epoch /\ c \notin todo /\ (hpc \in Early => c.gen < epoch)
        /\ \A i \in (cpu_head + 1)..Len(fifo) : fifo[i] # c
    BY <2>2 DEF HeldInv, Early
  <2>4. \A i \in (cpu_head + 1)..Len(fifo') :
          (i \in (cpu_head + 1)..Len(fifo) /\ fifo'[i] = fifo[i]) \/ fifo'[i] = d
    BY <1>1, <2>1
  <2> QED
    BY <2>1, <2>3, <2>4
<1>6. ASSUME CommitEpoch
      PROVE  /\ c.gen <= epoch' /\ c \notin todo'
             /\ \A i \in (cpu_head' + 1)..Len(fifo') : fifo'[i] # c
             /\ hpc' \in Early => c.gen < epoch'
  <2>1. fifo' = <<>> /\ todo' = todo /\ epoch' = epoch + 1 /\ cpu_head' = 0
    BY <1>6 DEF CommitEpoch
  <2>2. Held(c)
    BY <1>1, <2>1 DEF NewHeld
  <2>3. c.gen <= epoch /\ c \notin todo
    BY <2>2 DEF HeldInv
  <2> QED
    BY <1>1, <1>2, <2>1, <2>3
<1> QED
  BY <1>3, <1>4, <1>5, <1>6, WaitMoves

-----------------------------------------------------------------------------
\* What posting a chain, or part of it, adds.

\* Moving a finite set of numbers does not change its size.
LEMMA ShiftedSize ==
    ASSUME NEW a \in Nat, NEW n \in Int, NEW D \in SUBSET (1..n)
    PROVE  Cardinality({a + k : k \in D}) = Cardinality(D)
<1> DEFINE E == {a + k : k \in D}
           f == [k \in D |-> a + k]
<1>1. IsFiniteSet(D)
  BY PartFinite, 1 \in Int, Zenon
<1>2. f \in [D -> E] /\ (\A j, k \in D : f[j] = f[k] => j = k) /\ \A t \in E : \E k \in D : f[k] = t
  OBVIOUS
<1>3. f \in Bijection(D, E)
  <2> HIDE DEF f, E
  <2> QED
    BY <1>2, Fun_IsBij
<1> QED
  BY <1>1, <1>3, FS_Bijection DEF ExistsBijection

\* QP q gets a chain of the commands b, or a prefix of it.
PostsFor(q, b) ==
    /\ \E ch, n, p : Chained(ch, b, n, p)
                       /\ \E m \in 0..Len(ch) : Longer(posted[q], posted'[q], ch, m)
    /\ \A r \in QPs : r # q => posted'[r] = posted[r]

OldWr(r, i) == i \in 1..Len(posted[r]) /\ posted'[r][i] = posted[r][i]

\* Posting a batch transfers its commands once, data before flags.
LEMMA PostedFor ==
    ASSUME TypeOK, cfg' = cfg, posted' \in [QPs -> Seq(Wrs)], NEW q \in QPs,
           NEW b \in Seq(Cmds), PostsFor(q, b), FlagOnce, DataFirst,
           \A i, j \in 1..Len(b) : b[i] = b[j] => i = j,
           \A i \in 1..Len(b) : ~InPosted(b[i])
    PROVE  /\ \A r \in QPs : \A i \in 1..Len(posted'[r]) :
                OldWr(r, i) \/ (r = q /\ posted'[r][i].epoch = epoch
                                  /\ \E h \in 1..Len(b) : posted'[r][i].cmd = b[h])
           /\ \A c : InPosted(c)' => InPosted(c) \/ \E h \in 1..Len(b) : c = b[h]
           /\ FlagOnce' /\ DataFirst'
<1> DEFINE s == posted[q]
           t == posted'[q]
<1>1. PICK ch, n, p : Chained(ch, b, n, p) /\ \E m \in 0..Len(ch) : Longer(s, t, ch, m)
  BY DEF PostsFor
<1>2. PICK m \in 0..Len(ch) : Longer(s, t, ch, m)
  BY <1>1
<1>3. \A r \in QPs : r # q => posted'[r] = posted[r]
  BY DEF PostsFor
<1>4. /\ Len(s) \in Nat /\ Len(ch) \in Nat /\ Len(t) = Len(s) + m /\ m \in Nat /\ m <= Len(ch)
      /\ \A i \in 1..Len(s) : t[i] = s[i]
      /\ \A k \in 1..m : t[Len(s) + k] = ch[k] /\ k \in 1..Len(ch)
  <2>1. Len(s) \in Nat /\ Len(ch) \in Nat
    BY <1>1, LenProperties DEF Chained, TypeOK
  <2> QED
    BY <1>2, <2>1 DEF Longer
<1>5. QPs' = QPs
  BY CfgKept
<1> HIDE DEF t
<1>6. \A i \in 1..Len(t) : i \in 1..Len(s) \/ \E k \in 1..m : i = Len(s) + k
  <2> SUFFICES ASSUME NEW i \in 1..Len(t), i \notin 1..Len(s) PROVE \E k \in 1..m : i = Len(s) + k
    OBVIOUS
  <2>1. i - Len(s) \in 1..m /\ i = Len(s) + (i - Len(s))
    BY <1>4
  <2> QED
    BY <2>1
<1>7. ASSUME NEW k \in 1..m
      PROVE  /\ t[Len(s) + k] = ch[k] /\ k \in 1..Len(ch) /\ ch[k].epoch = epoch
             /\ \E h \in 1..Len(b) : ch[k].cmd = b[h]
             /\ ch[k].op = "flag" => \E h \in 1..Len(b) : k = p[h] /\ ch[k].cmd = b[h]
             /\ ch[k].op # "barrier"
  <2>1. t[Len(s) + k] = ch[k] /\ k \in 1..Len(ch)
    BY <1>4
  <2>2. /\ ch[k].epoch = epoch /\ ch[k].op \in {"data", "flag", "tail"}
        /\ \E h \in 1..Len(b) : ch[k].cmd = b[h]
        /\ ch[k].op = "flag" => \E h \in 1..Len(b) : k = p[h]
    BY <1>1, <2>1 DEF Chained
  <2>3. \A h \in 1..Len(b) : ch[p[h]].cmd = b[h]
    BY <1>1 DEF Chained
  <2> QED
    BY <2>1, <2>2, <2>3
<1>8. ASSUME NEW r \in QPs, NEW i \in 1..Len(posted'[r])
      PROVE  OldWr(r, i) \/ (r = q /\ \E k \in 1..m : i = Len(s) + k /\ posted'[r][i] = ch[k])
  <2>1. CASE r # q
    BY <1>3, <1>8, <2>1 DEF OldWr
  <2>2. CASE r = q
    BY <1>4, <1>6, <1>8, <2>2 DEF OldWr, t
  <2> QED
    BY <2>1, <2>2
<1>9. ASSUME NEW r \in QPs, NEW i \in 1..Len(posted'[r])
      PROVE  OldWr(r, i) \/ (r = q /\ posted'[r][i].epoch = epoch
                               /\ \E h \in 1..Len(b) : posted'[r][i].cmd = b[h])
  <2>1. CASE OldWr(r, i)
    BY <2>1
  <2>2. CASE ~OldWr(r, i)
    <3>1. PICK k \in 1..m : r = q /\ posted'[r][i] = ch[k]
      BY <1>8, <2>2
    <3>2. ch[k].epoch = epoch /\ \E h \in 1..Len(b) : ch[k].cmd = b[h]
      BY <1>7
    <3> QED
      BY <3>1, <3>2
  <2> QED
    BY <2>1, <2>2
<1>10. ASSUME NEW c, InPosted(c)' PROVE InPosted(c) \/ \E h \in 1..Len(b) : c = b[h]
  <2>1. PICK r \in QPs : \E i \in 1..Len(posted'[r]) :
          posted'[r][i].op # "barrier" /\ posted'[r][i].cmd = c
    BY <1>5, <1>10 DEF InPosted, Transfer
  <2>2. PICK i \in 1..Len(posted'[r]) : posted'[r][i].op # "barrier" /\ posted'[r][i].cmd = c
    BY <2>1
  <2>3. CASE OldWr(r, i)
    BY <2>2, <2>3 DEF OldWr, InPosted, Transfer
  <2> QED
    BY <1>9, <2>2, <2>3
\* A flag of the chain is of a command that had none.
<1>11. ASSUME NEW r \in QPs, NEW i \in 1..Len(posted[r]), posted[r][i].op # "barrier",
              NEW h \in 1..Len(b)
       PROVE  posted[r][i].cmd # b[h]
  BY <1>11 DEF InPosted, Transfer
<1>12. FlagOnce'
  <2> SUFFICES ASSUME NEW r1 \in QPs, NEW r2 \in QPs, NEW i \in 1..Len(posted'[r1]),
                      NEW j \in 1..Len(posted'[r2]),
                      posted'[r1][i].op = "flag", posted'[r2][j].op = "flag",
                      posted'[r1][i].cmd = posted'[r2][j].cmd
               PROVE  r1 = r2 /\ i = j
    BY <1>5 DEF FlagOnce
  <2>1. CASE OldWr(r1, i) /\ OldWr(r2, j)
    BY <2>1 DEF FlagOnce, OldWr
  <2>2. CASE ~OldWr(r1, i) /\ ~OldWr(r2, j)
    <3>1. PICK k \in 1..m : r1 = q /\ i = Len(s) + k /\ posted'[r1][i] = ch[k]
      BY <1>8, <2>2
    <3>2. PICK l \in 1..m : r2 = q /\ j = Len(s) + l /\ posted'[r2][j] = ch[l]
      BY <1>8, <2>2
    <3>3. PICK g \in 1..Len(b) : k = p[g] /\ ch[k].cmd = b[g]
      BY <1>7, <3>1
    <3>4. PICK h \in 1..Len(b) : l = p[h] /\ ch[l].cmd = b[h]
      BY <1>7, <3>2
    <3>5. g = h
      BY <3>1, <3>2, <3>3, <3>4
    <3> QED
      BY <3>1, <3>2, <3>3, <3>4, <3>5
  <2>3. CASE OldWr(r1, i) /\ ~OldWr(r2, j)
    <3>1. \E h \in 1..Len(b) : posted'[r2][j].cmd = b[h]
      BY <1>9, <2>3
    <3> QED
      BY <1>11, <2>3, <3>1 DEF OldWr
  <2>4. CASE ~OldWr(r1, i) /\ OldWr(r2, j)
    <3>1. \E h \in 1..Len(b) : posted'[r1][i].cmd = b[h]
      BY <1>9, <2>4
    <3> QED
      BY <1>11, <2>4, <3>1 DEF OldWr
  <2> QED
    BY <2>1, <2>2, <2>3, <2>4
<1>13. ASSUME NEW r \in QPs, NEW i \in 1..Len(posted'[r]), posted'[r][i].op = "flag"
       PROVE  Cardinality(Before(posted'[r], i)) = DataOf(posted'[r][i].cmd)
  <2>1. CASE OldWr(r, i)
    <3>1. \A j \in 1..(i - 1) : posted'[r][j] = posted[r][j]
      <4>1. Len(posted[r]) \in Nat /\ i \in 1..Len(posted[r])
        BY <2>1, LenProperties DEF OldWr, TypeOK
      <4>2. \A j \in 1..(i - 1) : j \in 1..Len(posted[r])
        BY <4>1
      <4> QED
        BY <1>3, <1>4, <4>2 DEF t
    <3>2. Before(posted'[r], i) = Before(posted[r], i)
      BY <2>1, <3>1 DEF Before, OldWr
    <3> QED
      BY <1>13, <2>1, <3>2 DEF DataFirst, OldWr
  <2>2. CASE ~OldWr(r, i)
    <3>1. PICK k \in 1..m : r = q /\ i = Len(s) + k /\ posted'[r][i] = ch[k]
      BY <1>8, <2>2
    <3>2. PICK h \in 1..Len(b) : k = p[h] /\ ch[k].cmd = b[h]
      BY <1>7, <1>13, <3>1
    <3> DEFINE D == {l \in 1..(p[h] - 1) : ch[l].op = "data" /\ ch[l].cmd = b[h]}
    <3>3. Cardinality(D) = DataOf(b[h])
      BY <1>1 DEF Chained, DataOf
    <3>4. \A l \in 1..(k - 1) : l \in 1..m
      BY <1>4
    <3>5. \A j \in 1..(i - 1) : j \in 1..Len(t)
      BY <1>4, <3>1
    <3>6. Before(t, i) = {Len(s) + l : l \in D}
      <4>1. ASSUME NEW j \in Before(t, i) PROVE j \in {Len(s) + l : l \in D}
        <5>1. j \in 1..(i - 1) /\ t[j].op = "data" /\ t[j].cmd = b[h]
          BY <3>1, <3>2 DEF Before, t
        <5>2. j \notin 1..Len(s)
          BY <1>4, <1>11, <5>1, ZenonT(40)
        <5>3. PICK l \in 1..m : j = Len(s) + l
          BY <1>6, <3>5, <5>1, <5>2
        <5>4. l \in 1..(k - 1)
          BY <1>4, <3>1, <5>1, <5>3
        <5>5. l \in D
          BY <1>7, <3>2, <5>1, <5>3, <5>4
        <5> QED
          BY <5>3, <5>5
      <4>2. ASSUME NEW l \in D PROVE Len(s) + l \in Before(t, i)
        <5>1. l \in 1..(k - 1) /\ ch[l].op = "data" /\ ch[l].cmd = b[h]
          BY <3>2
        <5>2. t[Len(s) + l] = ch[l]
          BY <1>7, <3>4, <5>1
        <5>3. Len(s) + l \in 1..(i - 1)
          <6>1. Len(s) \in Nat /\ k \in Nat /\ l \in Nat /\ 1 <= l /\ l <= k - 1
            BY <1>4, <5>1, SMTT(20)
          <6>2. i = Len(s) + k
            BY <3>1
          <6> HIDE DEF s
          <6> QED
            BY <6>1, <6>2
        <5> QED
          BY <3>1, <3>2, <5>1, <5>2, <5>3 DEF Before, t
      <4> QED
        BY <4>1, <4>2
    <3>7. Cardinality({Len(s) + l : l \in D}) = Cardinality(D)
      <4>1. p[h] - 1 \in Int /\ D \in SUBSET (1..(p[h] - 1))
        BY <3>2
      <4> HIDE DEF D
      <4> QED
        BY <1>4, <4>1, ShiftedSize
    <3> QED
      BY <3>1, <3>2, <3>3, <3>6, <3>7 DEF t
  <2> QED
    BY <2>1, <2>2
<1>14. DataFirst'
  BY <1>5, <1>13 DEF DataFirst, DataOf, Strided, DirectDmabuf, Before
<1> QED
  BY <1>9, <1>10, <1>12, <1>14

Distinct(b) == \A j, k \in 1..Len(b) : b[j] = b[k] => j = k
LessOne(r, b, c) == \A k \in 1..Len(r) : r[k] # c /\ \E h \in 1..Len(b) : r[k] = b[h]

\* A batch of different commands less one of them.
LEMMA Removed ==
    ASSUME NEW S, NEW b \in Seq(S), NEW i \in 1..Len(b), NEW r,
           r = SubSeq(b, 1, i - 1) \o SubSeq(b, i + 1, Len(b)), Distinct(b)
    PROVE  Distinct(r) /\ LessOne(r, b, b[i])
<1>1. Len(b) \in Nat /\ Len(r) = Len(b) - 1
      /\ \A k \in 1..Len(r) : r[k] = IF k < i THEN b[k] ELSE b[k + 1]
  BY RemoveFacts, LenProperties
<1> DEFINE u(k) == IF k < i THEN k ELSE k + 1
<1>2. ASSUME NEW k \in 1..Len(r)
      PROVE  u(k) \in 1..Len(b) /\ u(k) # i /\ r[k] = b[u(k)]
  <2>0. k \in 1..(Len(b) - 1)
    BY <1>1
  <2>1. k \in Int /\ i \in Int /\ 1 <= k /\ k + 1 <= Len(b) /\ 1 <= i /\ i <= Len(b)
    BY <1>1, <2>0
  <2>2. u(k) \in 1..Len(b) /\ u(k) # i
    BY <1>1, <2>1
  <2>3. r[k] = b[u(k)]
    BY <1>1
  <2> QED
    BY <2>2, <2>3
<1>3. ASSUME NEW j \in 1..Len(r), NEW k \in 1..Len(r), u(j) = u(k) PROVE j = k
  <2>1. j \in Int /\ k \in Int /\ i \in Int
    BY <1>1
  <2> QED
    BY <1>3, <2>1
<1> HIDE DEF u
<1>4. \A j, k \in 1..Len(r) : r[j] = r[k] => j = k
  <2> SUFFICES ASSUME NEW j \in 1..Len(r), NEW k \in 1..Len(r), r[j] = r[k] PROVE j = k
    OBVIOUS
  <2>1. u(j) \in 1..Len(b) /\ r[j] = b[u(j)] /\ u(k) \in 1..Len(b) /\ r[k] = b[u(k)]
    BY <1>2
  <2>2. u(j) = u(k)
    BY <2>1 DEF Distinct
  <2> QED
    BY <1>3, <2>2
<1>5. ASSUME NEW k \in 1..Len(r) PROVE r[k] # b[i] /\ \E h \in 1..Len(b) : r[k] = b[h]
  <2>1. u(k) \in 1..Len(b) /\ u(k) # i /\ r[k] = b[u(k)]
    BY <1>2
  <2> QED
    BY <2>1 DEF Distinct
<1> QED
  BY <1>4, <1>5 DEF Distinct, LessOne

\* What a step adds to the send queues is of the current epoch and of commands of S.
NewFrom(S) ==
    \A r \in QPs : \A i \in 1..Len(posted'[r]) :
        OldWr(r, i) \/ (posted'[r][i].epoch = epoch /\ posted'[r][i].cmd \in S)

\* A step that posts nothing transfers nothing.
LEMMA SameWrs ==
    ASSUME TypeOK, cfg' = cfg, posted' = posted, FlagOnce, DataFirst
    PROVE  NewFrom({}) /\ (\A c : InPosted(c)' => InPosted(c)) /\ FlagOnce' /\ DataFirst'
<1>1. QPs' = QPs
  BY CfgKept
<1>2. NewFrom({})
  BY DEF NewFrom, OldWr
<1>3. \A c : InPosted(c)' => InPosted(c)
  BY <1>1 DEF InPosted, Transfer
<1>4. FlagOnce'
  BY <1>1 DEF FlagOnce
<1>5. DataFirst'
  BY <1>1 DEF DataFirst, DataOf, Strided, DirectDmabuf, Before
<1> QED
  BY <1>2, <1>3, <1>4, <1>5

\* A barrier posts WRs of the barrier only.
LEMMA BarrierPosts ==
    ASSUME TypeOK, CqInv, cfg' = cfg, NEW c \in Cmds, PostStageBarrier(c), FlagOnce, DataFirst
    PROVE  NewFrom({c}) /\ (\A d : InPosted(d)' => InPosted(d)) /\ FlagOnce' /\ DataFirst'
<1> DEFINE x == Wr("barrier", c, 0, 1)
<1>1. QPs' = QPs
  BY CfgKept
<1>2. x \in Wrs /\ x.op = "barrier" /\ x.cmd = c /\ x.epoch = epoch
  BY WrFacts
<1>3. \A r \in QPs : posted'[r] = posted[r] \/ posted'[r] = Append(posted[r], x)
  BY BarrierAdds
<1> HIDE DEF x
<1>4. ASSUME NEW r \in QPs
      PROVE  /\ Len(posted[r]) \in Nat /\ \A i \in 1..Len(posted[r]) : posted'[r][i] = posted[r][i]
             /\ \A i \in 1..Len(posted'[r]) : OldWr(r, i) \/ posted'[r][i] = x
  <2>1. posted[r] \in Seq(Wrs) /\ Len(posted[r]) \in Nat
    BY LenProperties DEF TypeOK
  <2> DEFINE s == posted[r]
             t == posted'[r]
  <2> HIDE DEF s, t
  <2>2. s \in Seq(Wrs) /\ x \in Wrs /\ (t = s \/ t = Append(s, x))
    BY <1>2, <1>3, <2>1 DEF s, t
  <2>3. /\ \A i \in 1..Len(s) : t[i] = s[i]
        /\ \A i \in 1..Len(t) : (i \in 1..Len(s) /\ t[i] = s[i]) \/ t[i] = x
    BY <2>2
  <2> QED
    BY <2>1, <2>3 DEF s, t, OldWr
<1>5. NewFrom({c})
  BY <1>2, <1>4 DEF NewFrom
<1>6. ASSUME NEW d, InPosted(d)' PROVE InPosted(d)
  <2>1. PICK r \in QPs : \E i \in 1..Len(posted'[r]) :
          posted'[r][i].op # "barrier" /\ posted'[r][i].cmd = d
    BY <1>1, <1>6 DEF InPosted, Transfer
  <2>2. PICK i \in 1..Len(posted'[r]) : posted'[r][i].op # "barrier" /\ posted'[r][i].cmd = d
    BY <2>1
  <2>3. OldWr(r, i)
    BY <1>2, <1>4, <2>2
  <2> QED
    BY <2>2, <2>3 DEF OldWr, InPosted, Transfer
<1>7. ASSUME NEW r \in QPs, NEW i \in 1..Len(posted'[r]), posted'[r][i].op = "flag"
      PROVE  OldWr(r, i)
  BY <1>2, <1>4, <1>7
<1>8. FlagOnce'
  <2> SUFFICES ASSUME NEW r1 \in QPs, NEW r2 \in QPs, NEW i \in 1..Len(posted'[r1]),
                      NEW j \in 1..Len(posted'[r2]),
                      posted'[r1][i].op = "flag", posted'[r2][j].op = "flag",
                      posted'[r1][i].cmd = posted'[r2][j].cmd
               PROVE  r1 = r2 /\ i = j
    BY <1>1 DEF FlagOnce
  <2>1. OldWr(r1, i) /\ OldWr(r2, j)
    BY <1>7
  <2> QED
    BY <2>1 DEF FlagOnce, OldWr
<1>9. ASSUME NEW r \in QPs, NEW i \in 1..Len(posted'[r]), posted'[r][i].op = "flag"
      PROVE  Cardinality(Before(posted'[r], i)) = DataOf(posted'[r][i].cmd)
  <2>1. OldWr(r, i)
    BY <1>7, <1>9
  <2>2. \A j \in 1..(i - 1) : posted'[r][j] = posted[r][j]
    <3>1. \A j \in 1..(i - 1) : j \in 1..Len(posted[r])
      BY <1>4, <2>1 DEF OldWr
    <3> QED
      BY <1>4, <3>1
  <2>3. Before(posted'[r], i) = Before(posted[r], i)
    BY <2>1, <2>2 DEF Before, OldWr
  <2> QED
    BY <1>9, <2>1, <2>3 DEF DataFirst, OldWr
<1>10. DataFirst'
  BY <1>1, <1>9 DEF DataFirst, DataOf, Strided, DirectDmabuf, Before
<1> QED
  BY <1>5, <1>6, <1>8, <1>10

Batched == {batch[h] : h \in 1..Len(batch)}

\* post_batch posts WRs of the commands of the batch only.
LEMMA BatchPosts ==
    ASSUME TypeOK, CqInv, OnceInv, FlagOnce, DataFirst, PostBatch
    PROVE  /\ NewFrom(Batched) /\ (\A c : InPosted(c)' => InPosted(c) \/ InBatch(c))
           /\ FlagOnce' /\ DataFirst'
<1> DEFINE ch == Chain(batch)
<1>1. /\ batch \in Seq(Cmds) /\ batch # <<>> /\ batch_qp \in QPs /\ cfg' = cfg
      /\ \A i \in 1..Len(batch) : ~Strided(batch[i]) /\ batch[i] \in Cmds
      /\ \A i, j \in 1..Len(batch) : batch[i] = batch[j] => i = j
  BY ElementOfSeq DEF PostBatch, NoStrided, TypeOK, OnceInv
<1>2. \A i \in 1..Len(batch) : ~InPosted(batch[i])
  <2>1. ppc = "strided"
    BY DEF PostBatch
  <2>2. \A c \in Cmds : InBatch(c) => ~InPosted(c)
    BY <2>1 DEF OnceInv
  <2> QED
    BY <1>1, <2>2 DEF InBatch
<1>3. PICK p : Chained(ch, batch, Len(batch), p)
  BY <1>1, ChainIsChained
<1>4. posted' = [posted EXCEPT ![batch_qp] = @ \o SubSeq(ch, 1, Accepts(batch_qp, Len(ch)))]
  BY DEF PostBatch
<1> HIDE DEF ch
<1>5. /\ posted' \in [QPs -> Seq(Wrs)] /\ \A r \in QPs : r # batch_qp => posted'[r] = posted[r]
      /\ \E m \in 0..Len(ch) : Longer(posted[batch_qp], posted'[batch_qp], ch, m)
  <2>1. ch \in Seq(Wrs) /\ Room(batch_qp) >= 0
    BY <1>1, <1>3 DEF Chained, CqInv
  <2> QED
    BY <1>1, <1>4, <2>1, PostFacts
<1>6. PostsFor(batch_qp, batch)
  BY <1>3, <1>5 DEF PostsFor
<1>7. /\ \A r \in QPs : \A i \in 1..Len(posted'[r]) :
           OldWr(r, i) \/ (r = batch_qp /\ posted'[r][i].epoch = epoch
                             /\ \E h \in 1..Len(batch) : posted'[r][i].cmd = batch[h])
      /\ \A c : InPosted(c)' => InPosted(c) \/ \E h \in 1..Len(batch) : c = batch[h]
      /\ FlagOnce' /\ DataFirst'
  BY <1>1, <1>2, <1>5, <1>6, PostedFor
<1> QED
  BY <1>7 DEF NewFrom, Batched, InBatch

\* Posting a strided command posts WRs of it only, and takes it out of the batch.
LEMMA StridedPosts ==
    ASSUME TypeOK, CqInv, OnceInv, FlagOnce, DataFirst, PostStrided
    PROVE  /\ \E i \in 1..Len(batch) :
                /\ batch' = SubSeq(batch, 1, i - 1) \o SubSeq(batch, i + 1, Len(batch))
                /\ NewFrom({batch[i]}) /\ \A c : InPosted(c)' => InPosted(c) \/ c = batch[i]
           /\ FlagOnce' /\ DataFirst'
<1>1. PICK i \in 1..Len(batch) :
        /\ batch' = SubSeq(batch, 1, i - 1) \o SubSeq(batch, i + 1, Len(batch))
        /\ Strided(batch[i])
        /\ IF StridedShapeOk(batch[i])
            THEN LET ch == StridedChain(batch[i])
                 IN  /\ posted' = [posted EXCEPT ![batch_qp] =
                                     @ \o SubSeq(ch, 1, Accepts(batch_qp, Len(ch)))]
            ELSE posted' = posted
  BY DEF PostStrided
<1>2. /\ batch[i] \in Cmds /\ batch_qp \in QPs /\ cfg' = cfg
  BY ElementOfSeq DEF PostStrided, TypeOK
<1>3. CASE ~StridedShapeOk(batch[i])
  <2>1. posted' = posted
    BY <1>1, <1>3
  <2>2. NewFrom({}) /\ (\A c : InPosted(c)' => InPosted(c)) /\ FlagOnce' /\ DataFirst'
    BY <1>2, <2>1, SameWrs
  <2> QED
    BY <1>1, <2>2 DEF NewFrom
<1>4. CASE StridedShapeOk(batch[i])
  <2> DEFINE ch == StridedChain(batch[i])
             b == <<batch[i]>>
  <2>1. ~InPosted(batch[i])
    BY <1>2 DEF OnceInv, PostStrided, InBatch
  <2>2. PICK p : Chained(ch, b, Len(ch), p)
    BY <1>1, <1>2, <1>4, StridedIsChained
  <2>3. posted' = [posted EXCEPT ![batch_qp] = @ \o SubSeq(ch, 1, Accepts(batch_qp, Len(ch)))]
    BY <1>1, <1>4
  <2>4. b \in Seq(Cmds) /\ Len(b) = 1 /\ b[1] = batch[i]
    BY <1>2
  <2> HIDE DEF ch, b
  <2>5. /\ posted' \in [QPs -> Seq(Wrs)] /\ \A r \in QPs : r # batch_qp => posted'[r] = posted[r]
        /\ \E m \in 0..Len(ch) : Longer(posted[batch_qp], posted'[batch_qp], ch, m)
    <3>1. ch \in Seq(Wrs) /\ Room(batch_qp) >= 0
      BY <1>2, <2>2 DEF Chained, CqInv
    <3> QED
      BY <1>2, <2>3, <3>1, PostFacts
  <2>6. PostsFor(batch_qp, b)
    BY <2>2, <2>5 DEF PostsFor
  <2>7. /\ \A h \in 1..Len(b) : b[h] = batch[i]
        /\ \A g, h \in 1..Len(b) : b[g] = b[h] => g = h
        /\ \A h \in 1..Len(b) : ~InPosted(b[h])
    BY <2>1, <2>4
  <2>8. /\ \A r \in QPs : \A k \in 1..Len(posted'[r]) :
             OldWr(r, k) \/ (r = batch_qp /\ posted'[r][k].epoch = epoch
                               /\ \E h \in 1..Len(b) : posted'[r][k].cmd = b[h])
        /\ \A c : InPosted(c)' => InPosted(c) \/ \E h \in 1..Len(b) : c = b[h]
        /\ FlagOnce' /\ DataFirst'
    BY <1>2, <2>4, <2>5, <2>6, <2>7, PostedFor
  <2>9. NewFrom({batch[i]}) /\ \A c : InPosted(c)' => InPosted(c) \/ c = batch[i]
    BY <2>7, <2>8 DEF NewFrom
  <2> QED
    BY <1>1, <2>8, <2>9
<1> QED
  BY <1>3, <1>4

\* Steps that leave alone what the proxy holds.
Keeps ==
    /\ UNCHANGED <<cfg, batch, pending, posted>>
    /\ ppc' \in {"collect", "strided"} => ppc \in {"collect", "strided"}
    /\ ppc \in {"collect", "strided"} /\ batch # <<>> => ppc' \in {"collect", "strided"}

\* How a step may change what the proxy has in hand.
LEMMA HandMoves ==
    ASSUME TypeOK, [Next]_vars
    PROVE  \/ Keeps \/ StartBatch \/ PostStrided \/ PostBatch \/ AdvanceTail
           \/ cpu_head < Len(fifo) /\ Collect(fifo[cpu_head + 1])
<1>1. CASE QuietActions
  <2>1. Quiet
    BY <1>1, QuietOnes
  <2>2. UNCHANGED <<cfg, batch, pending, posted>>
    BY <2>1 DEF Quiet, loop, nic
  <2>3. /\ ppc' \in {"collect", "strided"} => ppc \in {"collect", "strided"}
        /\ ppc \in {"collect", "strided"} => ppc' \in {"collect", "strided"}
    BY <2>1 DEF Quiet
  <2> QED
    BY <2>2, <2>3 DEF Keeps
<1>2. CASE PostNothing
  BY <1>2, SMTT(20) DEF PostNothing, Keeps, nic
<1>3. CASE ProxyPollCq \/ ExitDrain \/ DrainCq
  BY <1>3 DEF ProxyPollCq, ExitDrain, DrainCq, PollCq, Keeps, loop
<1>4. CASE (\E k \in Kernels : Launch(k)) \/ (\E c \in todo : Push(c))
  BY <1>4 DEF Launch, Push, Keeps, loop, nic
<1>5. CASE Prepared \/ CommitEpoch \/ (\E q \in QPs : Execute(q))
  BY <1>5 DEF Prepared, CommitEpoch, Execute, Keeps, loop, nic
<1> QED
  BY <1>1, <1>2, <1>3, <1>4, <1>5, Actions DEF LoudActions

\* The next command to be polled.
NextCmds == IF cpu_head < Len(fifo) THEN {fifo[cpu_head + 1]} ELSE {}

\* The next command of the FIFO is not held yet.
LEMMA NextIsNew ==
    ASSUME TypeOK, HeldInv, cpu_head < Len(fifo)
    PROVE  fifo[cpu_head + 1] \in Cmds /\ ~Held(fifo[cpu_head + 1])
<1>1. Len(fifo) \in Nat /\ cpu_head \in 0..Len(fifo) /\ fifo \in Seq(Cmds)
  BY LenProperties DEF TypeOK
<1>2. cpu_head + 1 \in 1..Len(fifo) /\ cpu_head + 1 \in (cpu_head + 1)..Len(fifo)
  BY <1>1
<1>3. fifo[cpu_head + 1] \in Cmds
  BY <1>1, <1>2, ElementOfSeq
<1> QED
  BY <1>2, <1>3 DEF HeldInv

\* Collecting, posting and letting go of commands keeps each of them in one place, with one
\* flag, behind its data.
LEMMA HandsStep ==
    ASSUME TypeOK, CollectInv, CqInv, HeldInv, OnceInv, FlagOnce, DataFirst, [Next]_vars
    PROVE  NewHeld /\ OnceInv' /\ FlagOnce' /\ DataFirst' /\ NewFrom(Batched \cup NextCmds)
<1>0. cfg' = cfg /\ Cmds' = Cmds
  BY CfgSame, CfgKept
<1>1. batch \in Seq(Cmds) /\ pending \in Seq(Cmds) /\ Len(batch) \in Nat /\ Len(pending) \in Nat
  BY LenProperties DEF TypeOK
<1>2. CASE Keeps
  <2>1. NewFrom({}) /\ (\A c : InPosted(c)' => InPosted(c)) /\ FlagOnce' /\ DataFirst'
    BY <1>0, <1>2, SameWrs DEF Keeps
  <2>2. \A c : (InBatch(c)' <=> InBatch(c)) /\ (InPending(c)' <=> InPending(c))
    BY <1>2 DEF Keeps, InBatch, InPending
  <2>3. NewHeld
    BY <2>1, <2>2 DEF NewHeld, Held
  <2>4. OnceInv'
    BY <1>0, <1>2, <2>1, <2>2 DEF OnceInv, Keeps
  <2> QED
    BY <2>1, <2>3, <2>4 DEF NewFrom
<1>3. CASE StartBatch
  <2>1. posted' = posted
    BY <1>3 DEF StartBatch, nic
  <2>2. NewFrom({}) /\ (\A c : InPosted(c)' => InPosted(c)) /\ FlagOnce' /\ DataFirst'
    BY <1>0, <2>1, SameWrs
  <2>3. \/ batch' = <<>> /\ pending' = pending
        \/ batch' = pending /\ pending' = <<>>
    BY <1>3 DEF StartBatch
  <2>4. CASE batch' = <<>> /\ pending' = pending
    <3>1. \A c : ~InBatch(c)' /\ (InPending(c)' <=> InPending(c))
      BY <2>4 DEF InBatch, InPending
    <3>2. NewHeld
      BY <2>2, <3>1 DEF NewHeld, Held
    <3>3. \A i, j \in 1..Len(batch') : batch'[i] = batch'[j] => i = j
      BY <2>4
    <3>4. OnceInv'
      BY <1>0, <2>2, <3>1, <3>3 DEF OnceInv
    <3> QED
      BY <2>2, <3>2, <3>4 DEF NewFrom
  <2>5. CASE batch' = pending /\ pending' = <<>>
    <3>1. \A c : ~InPending(c)' /\ (InBatch(c)' <=> InPending(c))
      BY <2>5 DEF InBatch, InPending
    <3>2. NewHeld
      BY <2>2, <3>1 DEF NewHeld, Held
    <3>3. \A i, j \in 1..Len(batch') : batch'[i] = batch'[j] => i = j
      BY <1>1, <2>5 DEF CollectInv
    <3>4. OnceInv'
      BY <1>0, <2>2, <3>1, <3>3 DEF OnceInv
    <3> QED
      BY <2>2, <3>2, <3>4 DEF NewFrom
  <2> QED
    BY <2>3, <2>4, <2>5
<1>4. CASE PostStrided
  <2>1. FlagOnce' /\ DataFirst'
    BY <1>4, StridedPosts
  <2>2. PICK i \in 1..Len(batch) :
          /\ batch' = SubSeq(batch, 1, i - 1) \o SubSeq(batch, i + 1, Len(batch))
          /\ NewFrom({batch[i]}) /\ \A c : InPosted(c)' => InPosted(c) \/ c = batch[i]
    BY <1>4, StridedPosts
  <2>3. pending' = pending /\ ppc = "strided"
    BY <1>4 DEF PostStrided
  <2>4. /\ \A j, k \in 1..Len(batch') : batch'[j] = batch'[k] => j = k
        /\ \A k \in 1..Len(batch') : batch'[k] # batch[i] /\ \E h \in 1..Len(batch) : batch'[k] = batch[h]
    <3>1. Distinct(batch)
      BY DEF OnceInv, Distinct
    <3>2. Distinct(batch') /\ LessOne(batch', batch, batch[i])
      BY <1>1, <2>2, <3>1, Removed
    <3> QED
      BY <3>2 DEF Distinct, LessOne
  <2>5. \A c : (InBatch(c)' => InBatch(c) /\ c # batch[i]) /\ (InPending(c)' <=> InPending(c))
    BY <2>3, <2>4 DEF InBatch, InPending
  <2>6. InBatch(batch[i]) /\ batch[i] \in Cmds
    BY <1>1, ElementOfSeq DEF InBatch
  <2>7. NewHeld
    BY <2>2, <2>5, <2>6 DEF NewHeld, Held
  <2>8. \A c \in Cmds : InPending(c)' => ~InBatch(c)' /\ ~InPosted(c)'
    BY <2>2, <2>5, <2>6 DEF OnceInv
  <2>9. \A c \in Cmds : InBatch(c)' => ~InPosted(c)'
    BY <2>2, <2>3, <2>5 DEF OnceInv
  <2>10. OnceInv'
    BY <1>0, <2>4, <2>8, <2>9 DEF OnceInv
  <2> QED
    BY <2>1, <2>2, <2>7, <2>10 DEF NewFrom, Batched
<1>5. CASE PostBatch
  <2>1. /\ NewFrom(Batched) /\ (\A c : InPosted(c)' => InPosted(c) \/ InBatch(c))
        /\ FlagOnce' /\ DataFirst'
    BY <1>5, BatchPosts
  <2>2. pending' = pending /\ batch' = batch /\ ppc' = "poll_cq"
    BY <1>5 DEF PostBatch
  <2>3. \A c : (InBatch(c)' <=> InBatch(c)) /\ (InPending(c)' <=> InPending(c))
    BY <2>2 DEF InBatch, InPending
  <2>4. NewHeld
    BY <2>1, <2>3 DEF NewHeld, Held
  <2>5. \A c \in Cmds : InPending(c)' => ~InBatch(c)' /\ ~InPosted(c)'
    BY <2>1, <2>3 DEF OnceInv
  <2>6. OnceInv'
    BY <1>0, <2>2, <2>5 DEF OnceInv
  <2> QED
    BY <2>1, <2>4, <2>6 DEF NewFrom
<1>6. CASE AdvanceTail
  <2>1. posted' = posted /\ batch' = <<>> /\ pending' = pending /\ ppc' = "top"
    BY <1>6 DEF AdvanceTail, nic
  <2>2. NewFrom({}) /\ (\A c : InPosted(c)' => InPosted(c)) /\ FlagOnce' /\ DataFirst'
    BY <1>0, <2>1, SameWrs
  <2>3. \A c : ~InBatch(c)' /\ (InPending(c)' <=> InPending(c))
    BY <2>1 DEF InBatch, InPending
  <2>4. NewHeld
    BY <2>2, <2>3 DEF NewHeld, Held
  <2>5. \A i, j \in 1..Len(batch') : batch'[i] = batch'[j] => i = j
    BY <2>1
  <2>6. OnceInv'
    BY <1>0, <2>1, <2>2, <2>3, <2>5 DEF OnceInv
  <2> QED
    BY <2>2, <2>4, <2>6 DEF NewFrom
<1>7. CASE cpu_head < Len(fifo) /\ Collect(fifo[cpu_head + 1])
  <2> DEFINE c == fifo[cpu_head + 1]
  <2>1. c \in Cmds /\ ~InBatch(c) /\ ~InPending(c) /\ ~InPosted(c) /\ NextCmds = {c}
    BY <1>7, NextIsNew DEF Held, NextCmds
  <2>2. ppc = "collect" /\ cpu_head' = cpu_head + 1 /\ Collect(c)
    BY <1>7 DEF Collect, Polls
  <2> HIDE DEF c
  <2>3. CASE CollectBarrier(c)
    <3>1. PostStageBarrier(c) /\ UNCHANGED <<ppc, batch, pending>>
      BY <2>3 DEF CollectBarrier
    <3>2. NewFrom({c}) /\ (\A d : InPosted(d)' => InPosted(d)) /\ FlagOnce' /\ DataFirst'
      BY <1>0, <2>1, <3>1, BarrierPosts
    <3>3. \A d : (InBatch(d)' <=> InBatch(d)) /\ (InPending(d)' <=> InPending(d))
      BY <3>1 DEF InBatch, InPending
    <3>4. NewHeld
      BY <3>2, <3>3 DEF NewHeld, Held
    <3>5. OnceInv'
      BY <1>0, <3>1, <3>2, <3>3 DEF OnceInv
    <3> QED
      BY <2>1, <3>2, <3>4, <3>5 DEF NewFrom
  <2>4. CASE CollectNothing(c) \/ CollectWrite(c) \/ CollectStash(c)
    <3>1. posted' = posted
      BY <2>4 DEF CollectNothing, CollectWrite, CollectStash, nic
    <3>2. NewFrom({}) /\ (\A d : InPosted(d)' => InPosted(d)) /\ FlagOnce' /\ DataFirst'
      BY <1>0, <3>1, SameWrs
    <3>3. NewFrom(Batched \cup NextCmds)
      BY <3>2 DEF NewFrom
    <3>4. CASE CollectNothing(c)
      <4>1. UNCHANGED <<ppc, batch, pending>>
        BY <3>4 DEF CollectNothing
      <4>2. \A d : (InBatch(d)' <=> InBatch(d)) /\ (InPending(d)' <=> InPending(d))
        BY <4>1 DEF InBatch, InPending
      <4>3. NewHeld
        BY <3>2, <4>2 DEF NewHeld, Held
      <4>4. OnceInv'
        BY <1>0, <3>2, <4>1, <4>2 DEF OnceInv
      <4> QED
        BY <3>2, <3>3, <4>3, <4>4
    <3>5. CASE CollectWrite(c)
      <4>1. batch' = Append(batch, c) /\ pending' = pending
        BY <3>5 DEF CollectWrite
      <4>2. /\ Len(batch') = Len(batch) + 1 /\ batch'[Len(batch) + 1] = c
            /\ \A i \in 1..Len(batch) : batch'[i] = batch[i]
        BY <1>1, <2>1, <4>1
      <4>3. \A i \in 1..Len(batch') : i \in 1..Len(batch) \/ i = Len(batch) + 1
        BY <1>1, <4>2
      <4>4. \A d : (InBatch(d)' => InBatch(d) \/ d = c) /\ (InPending(d)' <=> InPending(d))
        BY <4>1, <4>2, <4>3 DEF InBatch, InPending
      <4>5. NewHeld
        BY <1>7, <2>2, <3>2, <4>4 DEF NewHeld, Held, c
      <4>6. \A i, j \in 1..Len(batch') : batch'[i] = batch'[j] => i = j
        BY <2>1, <4>2, <4>3 DEF OnceInv, InBatch
      <4>7. \A d \in Cmds : InPending(d)' => ~InBatch(d)' /\ ~InPosted(d)'
        BY <2>1, <3>2, <4>4 DEF OnceInv
      <4>8. \A d \in Cmds : InBatch(d)' => ~InPosted(d)'
        BY <2>1, <2>2, <3>2, <4>4 DEF OnceInv
      <4>9. OnceInv'
        BY <1>0, <4>6, <4>7, <4>8 DEF OnceInv
      <4> QED
        BY <3>2, <3>3, <4>5, <4>9
    <3>6. CASE CollectStash(c)
      <4>1. pending' = <<c>> /\ batch' = batch
        BY <3>6 DEF CollectStash
      <4>2. \A d : (InBatch(d)' <=> InBatch(d)) /\ (InPending(d)' => d = c)
        BY <4>1 DEF InBatch, InPending
      <4>3. NewHeld
        BY <1>7, <2>2, <3>2, <4>2 DEF NewHeld, Held, c
      <4>4. OnceInv'
        BY <1>0, <2>1, <2>2, <3>2, <4>1, <4>2 DEF OnceInv
      <4> QED
        BY <3>2, <3>3, <4>3, <4>4
    <3> QED
      BY <2>4, <3>4, <3>5, <3>6
  <2> QED
    BY <2>2, <2>3, <2>4 DEF Collect
<1> QED
  BY <1>2, <1>3, <1>4, <1>5, <1>6, <1>7, HandMoves

\* Where drain_proxy drains everything, no command is left behind.
LEMMA DrainStep ==
    ASSUME TypeOK, CollectInv, PhaseInv, WaitingInv, DrainInv, NewFrom(Batched \cup NextCmds),
           posted' \in [QPs -> Seq(Wrs)], [Next]_vars
    PROVE  DrainInv'
<1>0. cfg' = cfg /\ QPs' = QPs /\ DrainsAll' = DrainsAll
  BY CfgSame, CfgKept
<1>1. batch \in Seq(Cmds) /\ Len(batch) \in Nat /\ Len(fifo) \in Nat /\ cpu_head \in 0..Len(fifo)
  BY LenProperties DEF TypeOK
<1> SUFFICES ASSUME DrainsAll
             PROVE  /\ pending' = <<>>
                    /\ \A i \in 1..Len(batch') : batch'[i].gen = epoch'
                    /\ \A q \in QPs : \A i \in 1..Len(posted'[q]) :
                         posted'[q][i].epoch = posted'[q][i].cmd.gen
                    /\ hpc' \in Drained => cpu_head' = Len(fifo')
  BY <1>0 DEF DrainInv
<1>2. /\ pending = <<>> /\ \A i \in 1..Len(batch) : batch[i].gen = epoch
      /\ \A q \in QPs : \A i \in 1..Len(posted[q]) : posted[q][i].epoch = posted[q][i].cmd.gen
      /\ hpc \in Drained => cpu_head = Len(fifo)
  BY DEF DrainInv
<1>3. \A c \in NextCmds : c.gen = epoch
  BY <1>1 DEF NextCmds, WaitingInv
<1>4. \A q \in QPs : \A i \in 1..Len(posted'[q]) : posted'[q][i].epoch = posted'[q][i].cmd.gen
  BY <1>2, <1>3 DEF NewFrom, Batched, OldWr
<1>5. pending' = <<>> /\ (epoch' = epoch => \A i \in 1..Len(batch') : batch'[i].gen = epoch)
  <2>1. CASE Keeps
    BY <1>2, <2>1 DEF Keeps
  <2>2. CASE StartBatch \/ AdvanceTail
    BY <1>2, <2>2 DEF StartBatch, AdvanceTail
  <2>3. CASE PostBatch
    BY <1>2, <2>3 DEF PostBatch
  <2>4. CASE PostStrided
    <3>1. PICK i \in 1..Len(batch) :
            batch' = SubSeq(batch, 1, i - 1) \o SubSeq(batch, i + 1, Len(batch))
      BY <2>4 DEF PostStrided
    <3>2. pending' = pending
      BY <2>4 DEF PostStrided
    <3>3. /\ Len(batch') = Len(batch) - 1
          /\ \A k \in 1..(Len(batch) - 1) : batch'[k] = IF k < i THEN batch[k] ELSE batch[k + 1]
      BY <1>1, <3>1, RemoveFacts
    <3>4. \A k \in 1..(Len(batch) - 1) : k \in 1..Len(batch) /\ k + 1 \in 1..Len(batch)
      BY <1>1
    <3> QED
      BY <1>2, <3>2, <3>3, <3>4
  <2>5. CASE cpu_head < Len(fifo) /\ Collect(fifo[cpu_head + 1])
    <3> DEFINE c == fifo[cpu_head + 1]
    <3>1. c.gen = epoch /\ Collect(c) /\ c \in Cmds
      <4>1. cpu_head + 1 \in 1..Len(fifo) /\ fifo \in Seq(Cmds)
        BY <1>1, <2>5 DEF TypeOK
      <4> QED
        BY <1>3, <2>5, <4>1, ElementOfSeq DEF NextCmds
    <3> HIDE DEF c
    <3>2. CASE CollectBarrier(c) \/ CollectNothing(c)
      BY <1>2, <3>2 DEF CollectBarrier, CollectNothing
    <3>3. CASE CollectWrite(c)
      <4>1. batch' = Append(batch, c) /\ pending' = pending
        BY <3>3 DEF CollectWrite
      <4>2. \A i \in 1..Len(batch') : (i \in 1..Len(batch) /\ batch'[i] = batch[i]) \/ batch'[i] = c
        BY <1>1, <3>1, <4>1
      <4> QED
        BY <1>2, <3>1, <4>1, <4>2
    <3>4. CASE CollectStash(c)
      <4>1. Collectable(c) /\ ~Joins(c)
        BY <3>4 DEF CollectStash
      <4>2. Routed /\ RouteQp(c) \in QPs /\ RouteQp(c) # batch_qp /\ batch_qp \in QPs
        BY <4>1 DEF Collectable, Joins, TypeOK
      <4>3. ~(NumQPs > 1)
        BY <4>2 DEF DrainsAll
      <4>4. QPs = {0}
        BY <4>3, CfgFacts, SMTT(20) DEF QPs, TypeOK
      <4> QED
        BY <4>2, <4>4
    <3> QED
      BY <3>1, <3>2, <3>3, <3>4 DEF Collect
  <2> QED
    BY <2>1, <2>2, <2>3, <2>4, <2>5, HandMoves
<1>6. /\ hpc' \in Drained => cpu_head' = Len(fifo')
      /\ epoch' = epoch \/ batch' = <<>>
  <2>1. CASE Sits
    <3>1. fifo' = fifo /\ epoch' = epoch
      BY <2>1 DEF Sits
    <3>2. ASSUME hpc' \in Drained PROVE cpu_head' = Len(fifo)
      <4>1. CASE hpc \in Drained
        BY <1>1, <1>2, <2>1, <4>1 DEF Sits
      <4>2. CASE hpc \notin Drained
        <5>1. cpu_head' >= Len(fifo)
          BY <2>1, <3>2, <4>2 DEF Sits
        <5>2. cpu_head' = cpu_head \/ (cpu_head < Len(fifo) /\ cpu_head' = cpu_head + 1)
          BY <2>1 DEF Sits
        <5> QED
          BY <1>1, <5>1, <5>2
      <4> QED
        BY <4>1, <4>2
    <3> QED
      BY <3>1, <3>2
  <2>2. CASE \E k \in Kernels : Launch(k)
    BY <2>2 DEF Launch, Drained
  <2>3. CASE \E c \in todo : Push(c)
    <3>1. hpc = "kernel" /\ hpc' = hpc /\ epoch' = epoch
      BY <2>3 DEF Push, PhaseInv
    <3> QED
      BY <3>1 DEF Drained
  <2>4. CASE CommitEpoch
    BY <2>4 DEF CommitEpoch, Drained, PhaseInv
  <2> QED
    BY <2>1, <2>2, <2>3, <2>4, WaitMoves
<1> QED
  <2>1. \A i \in 1..Len(batch') : batch'[i].gen = epoch'
    <3>1. CASE epoch' = epoch
      BY <1>5, <3>1
    <3>2. CASE batch' = <<>>
      BY <3>2
    <3> QED
      BY <1>6, <3>1, <3>2
  <2> QED
    BY <1>4, <1>5, <1>6, <2>1

-----------------------------------------------------------------------------
\* Once, and data first.

OneHand ==
    WaitingInv /\ HeldInv /\ OnceInv /\ FlagOnce /\ DataFirst /\ DrainInv

\* Initially no command is anywhere.
LEMMA InitOneHand == Init => OneHand
<1> SUFFICES ASSUME Init PROVE OneHand
  OBVIOUS
<1>1. /\ todo = {} /\ fifo = <<>> /\ batch = <<>> /\ pending = <<>> /\ hpc = "idle"
      /\ \A q \in QPs : posted[q] = <<>>
  BY DEF Init
<1>2. \A c : ~InBatch(c) /\ ~InPending(c) /\ ~InPosted(c)
  BY <1>1 DEF InBatch, InPending, InPosted
<1>3. WaitingInv
  BY <1>1 DEF WaitingInv
<1>4. HeldInv
  BY <1>2 DEF HeldInv, Held
<1>5. OnceInv
  BY <1>1, <1>2 DEF OnceInv
<1>6. FlagOnce /\ DataFirst
  BY <1>1 DEF FlagOnce, DataFirst
<1>7. DrainInv
  BY <1>1 DEF DrainInv, Drained
<1> QED
  BY <1>3, <1>4, <1>5, <1>6, <1>7 DEF OneHand

\* Every step keeps each command in one place.
LEMMA OneHandStep == Base /\ Base' /\ OneHand /\ [Next]_vars => OneHand'
<1> SUFFICES ASSUME Base, Base', OneHand, [Next]_vars PROVE OneHand'
  OBVIOUS
<1>1. TypeOK /\ CollectInv /\ PhaseInv /\ CqInv
  BY DEF Base
<1>2. WaitingInv /\ HeldInv /\ OnceInv /\ FlagOnce /\ DataFirst /\ DrainInv
  BY DEF OneHand
<1>3. WaitingInv'
  BY <1>1, <1>2, WaitingStep
<1>4. NewHeld /\ OnceInv' /\ FlagOnce' /\ DataFirst' /\ NewFrom(Batched \cup NextCmds)
  BY <1>1, <1>2, HandsStep
<1>5. HeldInv'
  BY <1>1, <1>2, <1>4, HeldStep
<1>6. posted' \in [QPs -> Seq(Wrs)]
  <2>1. QPs' = QPs /\ Wrs' = Wrs
    BY <1>1, CfgSame, CfgKept
  <2> QED
    BY <2>1 DEF Base, TypeOK
<1>7. DrainInv'
  BY <1>1, <1>2, <1>4, <1>6, DrainStep
<1> QED
  BY <1>3, <1>4, <1>5, <1>7 DEF OneHand

\* Each command is in one place, always.
LEMMA AlwaysOneHand == Spec => []OneHand
  BY AlwaysBase, InitOneHand, OneHandStep, PTL DEF Spec

\* No command is transferred twice, whether it is batched, stashed for the next QP, posted
\* with the batch or alone as a strided chain, and whatever is refused or given up; and if
\* drain_proxy drains everything, no transfer of one epoch is posted in the next.
THEOREM NothingTransferredTwice == Spec => []TransferredOnce
<1>1. TypeOK /\ FlagOnce /\ DrainInv => TransferredOnce
  <2> SUFFICES ASSUME TypeOK, FlagOnce, DrainInv PROVE TransferredOnce
    OBVIOUS
  <2>1. ASSUME NEW w \in AllPosted, w.op = "flag"
        PROVE  Cardinality(UNION {{<<q, i>> : i \in {j \in 1..Len(posted[q]) :
                              posted[q][j].op = "flag" /\ posted[q][j].cmd = w.cmd}}
                            : q \in QPs}) = 1
    <3> DEFINE F(q) == {j \in 1..Len(posted[q]) :
                          posted[q][j].op = "flag" /\ posted[q][j].cmd = w.cmd}
               U == UNION {{<<q, i>> : i \in F(q)} : q \in QPs}
    <3>1. PICK q \in QPs : \E i \in 1..Len(posted[q]) : w = posted[q][i]
      BY DEF AllPosted
    <3>2. PICK i \in 1..Len(posted[q]) : w = posted[q][i]
      BY <3>1
    <3>3. i \in F(q)
      BY <2>1, <3>2
    <3>4. ASSUME NEW r \in QPs, NEW j \in F(r) PROVE r = q /\ j = i
      BY <2>1, <3>2, <3>4 DEF FlagOnce
    <3>5. U = {<<q, i>>}
      <4> HIDE DEF F
      <4> QED
        BY <3>3, <3>4
    <3>6. Cardinality(U) = 1
      BY <3>5, FS_Singleton
    <3> QED
      BY <3>6
  <2>2. ASSUME DrainsAll, NEW w \in AllPosted PROVE w.epoch = w.cmd.gen
    BY <2>2 DEF AllPosted, DrainInv
  <2> QED
    BY <2>1, <2>2 DEF TransferredOnce
<1>2. Base /\ OneHand => TypeOK /\ FlagOnce /\ DrainInv
  BY DEF Base, OneHand
<1> QED
  BY <1>1, <1>2, AlwaysBase, AlwaysOneHand, PTL

\* When the NIC carries out a WR that writes an arrival flag, it has carried out the WRs
\* that write the data of that command, all of them and on the same QP: the one of a batched
\* command, and every gather of a strided one, also when the flag sits in the middle of a
\* chain of which the NIC refused the rest.
THEOREM FlagsFollowData == Spec => []DataBeforeFlag
<1>1. TypeOK /\ CqInv /\ DataFirst => DataBeforeFlag
  <2> SUFFICES ASSUME TypeOK, CqInv, DataFirst, NEW q \in QPs, NEW i \in 1..done[q],
                      posted[q][i].op = "flag"
               PROVE  Cardinality(Before(posted[q], i)) = DataOf(posted[q][i].cmd)
    BY DEF DataBeforeFlag, Before, DataOf
  <2>1. i \in 1..Len(posted[q])
    BY LenProperties, SMTT(20) DEF TypeOK, CqInv
  <2> QED
    BY <2>1 DEF DataFirst
<1>2. Base /\ OneHand => TypeOK /\ CqInv /\ DataFirst
  BY DEF Base, OneHand
<1> QED
  BY <1>1, <1>2, AlwaysBase, AlwaysOneHand, PTL

-----------------------------------------------------------------------------
\* When the NIC refuses nothing.

\* Nothing counted in flight is nothing left to complete.
LEMMA NicIdle ==
    ASSUME TypeOK, CqInv, InflightExact, inflight <= 0, strided_posted = 0
    PROVE  /\ inflight = 0 /\ cq = <<>>
           /\ \A q \in QPs : \A i \in (freed[q] + 1)..Len(posted[q]) : posted[q][i].wr_count = 0
<1> DEFINE w == Left(posted, freed, QPs)
<1>1. /\ Outstanding = Total(w, QPs) /\ IsFiniteSet(QPs) /\ Total(w, QPs) \in Nat
      /\ \A q \in QPs : w[q] = Remaining(posted[q], freed[q]) /\ w[q] \in Nat
  BY OutstandingIs, LeftNat, CfgFacts DEF TypeOK
<1> HIDE DEF w
<1>2. inflight = 0 /\ Total(w, QPs) = 0
  BY <1>1 DEF TypeOK, InflightExact
<1>3. \A q \in QPs : w[q] <= Total(w, QPs)
  BY <1>1, TotalBounds
<1>4. \A q \in QPs : Remaining(posted[q], freed[q]) = 0
  BY <1>1, <1>2, <1>3
<1>5. ASSUME NEW q \in QPs, NEW i \in (freed[q] + 1)..Len(posted[q])
      PROVE  posted[q][i].wr_count = 0
  <2> DEFINE T == (freed[q] + 1)..Len(posted[q])
             v == Weights(posted[q])
  <2>1. freed[q] + 1 \in Int /\ Len(posted[q]) \in Int /\ freed[q] \in Nat
    BY LenProperties, SMTT(20) DEF TypeOK
  <2>2. IsFiniteSet(T) /\ \A k \in T : k \in 1..Len(posted[q])
    <3>1. IsFiniteSet(T)
      BY <2>1, PartFinite, Zenon
    <3> QED
      BY <2>1, <3>1
  <2>3. \A k \in 1..Len(posted[q]) : v[k] = posted[q][k].wr_count /\ v[k] \in Nat
    <3>1. posted[q] \in Seq(Wrs)
      BY DEF TypeOK
    <3>2. \A k \in 1..Len(posted[q]) : v[k] = posted[q][k].wr_count /\ posted[q][k] \in Wrs
      BY <3>1, WeightsAre, ElementOfSeq
    <3> QED
      BY <3>2 DEF Wrs
  <2>4. Total(v, T) = 0
    BY <1>4 DEF Remaining
  <2> HIDE DEF v
  <2>5. \A k \in T : v[k] <= Total(v, T)
    <3>1. \A k \in T : v[k] \in Nat
      BY <2>2, <2>3
    <3> HIDE DEF T
    <3> QED
      BY <2>2, <3>1, TotalBounds
  <2> QED
    BY <2>2, <2>3, <2>4, <2>5
<1>6. cq = <<>>
  <2> SUFFICES ASSUME cq # <<>> PROVE FALSE
    OBVIOUS
  <2> DEFINE R == [qp : QPs, wr : Nat]
  <2>0. cq \in Seq(R)
    BY DEF TypeOK
  <2>1. 1 \in 1..Len(cq) /\ cq[1] \in R
    <3> HIDE DEF R
    <3>1. Len(cq) \in Nat /\ Len(cq) # 0
      BY <2>0, EmptySeq, LenProperties
    <3>2. 1 \in 1..Len(cq)
      BY <3>1
    <3> QED
      BY <2>0, <3>2, ElementOfSeq
  <2>2. /\ freed[cq[1].qp] < cq[1].wr /\ cq[1].wr <= Len(posted[cq[1].qp])
        /\ posted[cq[1].qp][cq[1].wr].wr_count > 0
    <3>1. cq[1].qp \in QPs /\ cq[1].wr \in Nat
      BY <2>1
    <3>2. done[cq[1].qp] \in Nat /\ Len(posted[cq[1].qp]) \in Nat
      BY <3>1, LenProperties DEF TypeOK
    <3> QED
      BY <2>1, <3>1, <3>2 DEF CqInv
  <2>3. cq[1].qp \in QPs /\ cq[1].wr \in (freed[cq[1].qp] + 1)..Len(posted[cq[1].qp])
    <3>1. cq[1].qp \in QPs /\ cq[1].wr \in Nat
      BY <2>1
    <3>2. freed[cq[1].qp] \in Nat /\ Len(posted[cq[1].qp]) \in Nat
      BY <3>1, LenProperties DEF TypeOK
    <3> QED
      BY <2>2, <3>1, <3>2
  <2> QED
    BY <1>5, <2>2, <2>3
<1> QED
  BY <1>2, <1>5, <1>6

\* So where each queue ends with a signaled WR, the NIC has carried out all it accepted.
LEMMA NicDone ==
    ASSUME TypeOK, CqInv, InflightExact, WholeInv, inflight <= 0, strided_posted = 0
    PROVE  cq = <<>> /\ \A q \in QPs : done[q] = Len(posted[q])
<1>1. cq = <<>> /\ \A q \in QPs : \A i \in (freed[q] + 1)..Len(posted[q]) : posted[q][i].wr_count = 0
  BY NicIdle
<1>2. ASSUME NEW q \in QPs PROVE done[q] = Len(posted[q])
  <2>1. /\ freed[q] \in Nat /\ done[q] \in Nat /\ Len(posted[q]) \in Nat
        /\ freed[q] <= done[q] /\ done[q] <= Len(posted[q]) /\ posted[q] \in Seq(Wrs)
    BY LenProperties DEF TypeOK, CqInv
  <2>2. CASE Len(posted[q]) = 0
    BY <2>1, <2>2
  <2>3. CASE Len(posted[q]) # 0
    <3>1. posted[q] # <<>>
      BY <2>3
    <3>2. posted[q][Len(posted[q])].wr_count > 0
      BY <3>1 DEF WholeInv
    <3>3. ~(Len(posted[q]) \in (freed[q] + 1)..Len(posted[q]))
      BY <1>1, <3>2
    <3> QED
      BY <2>1, <3>3
  <2> QED
    BY <2>2, <2>3
<1> QED
  BY <1>1, <1>2

\* The ceiling on what is in flight is a number, of whatever sign.
LEMMA CeilingIsInt ==
    ASSUME cfg \in Configs
    PROVE  EffectiveMaxInflight \in Int
<1>1. MaxInflightCfg \in Int /\ NumQPs \in Int
  BY CfgFacts
<1>2. QpSqDepth \div WrsPerChunk - SafetyMargin \in Int
  BY LimitAssumption, CfgFacts DEF WrsPerChunk
<1>3. PerQpChunkCap \in Int
  <2> DEFINE a == QpSqDepth \div WrsPerChunk - SafetyMargin
  <2> HIDE DEF a
  <2>1. \E x \in {1, a} : \A y \in {1, a} : y <= x
    BY <1>2 DEF a
  <2>2. Max({1, a}) \in {1, a}
    BY <2>1 DEF Max
  <2> QED
    BY <1>2, <2>2 DEF PerQpChunkCap, a
<1>4. Min({MaxInflightCfg, PerQpChunkCap}) \in Int
  BY <1>1, <1>3, MinOfTwo
<1> QED
  BY <1>1, <1>4 DEF EffectiveMaxInflight

\* The proxy stops with nothing in flight, and stashes a command only with a QP of its own.
LEMMA IdleStep ==
    ASSUME TypeOK, CollectInv, PhaseInv, IdleInv, [Next]_vars
    PROVE  IdleInv'
<1>0. cfg' = cfg /\ Routed' = Routed
  BY CfgSame, CfgKept
<1>1. EffectiveMaxInflight' = EffectiveMaxInflight
  BY <1>0 DEF EffectiveMaxInflight, PerQpChunkCap, WrsPerChunk, EnableRemoteTail,
              MaxInflightCfg, NumQPs
<1>2. inflight \in Int /\ pre_inflight \in Int /\ pending \in Seq(Cmds)
  BY DEF TypeOK
<1>3. CASE Exit
  BY <1>0, <1>1, <1>3 DEF Exit, IdleInv, loop
<1>4. CASE QuietActions /\ ~Exit
  <2>1. UNCHANGED <<inflight, pending, pre_inflight>>
    BY <1>4, QuietOnes DEF Quiet, loop
  <2>2. hpc' = "prepared" => hpc = "prepared"
    BY <1>4, QuietOnes DEF Quiet
  <2>3. ppc' = "collect" => ppc = "collect"
    BY <1>4, QuietOnes DEF Quiet
  <2>4. ppc' = "ended" => ppc = "ended"
    BY <1>4 DEF QuietActions, Leave, Acknowledge, SpinEnds, Withdraw, CollectEnds, Synchronize,
       DrainProxy, Pause, PauseReturns, ResumeAck, Resume, Stop, Join, Finished, vars
  <2> QED
    BY <1>0, <1>1, <2>1, <2>2, <2>3, <2>4 DEF IdleInv
<1>5. CASE StartBatch
  <2>1. ppc = "top" /\ ppc' = "collect" /\ UNCHANGED <<inflight, hpc>> /\ pre_inflight' = inflight
    BY <1>5 DEF StartBatch
  <2>2. hpc # "prepared"
    BY <2>1 DEF PhaseInv
  <2>3. pending' # <<>> => pending # <<>> /\ ~(inflight < EffectiveMaxInflight)
    BY <1>5 DEF StartBatch, IdleInv
  <2>4. EffectiveMaxInflight \in Int
    BY CeilingIsInt DEF TypeOK
  <2> QED
    BY <1>0, <1>1, <1>2, <2>1, <2>2, <2>3, <2>4 DEF IdleInv
<1>6. CASE Collect(fifo[cpu_head + 1])
  <2> DEFINE c == fifo[cpu_head + 1]
  <2>1. Collect(c) /\ ppc = "collect" /\ UNCHANGED <<pre_inflight, hpc>> /\ CanCollect
    BY <1>6 DEF Collect, Polls
  <2> HIDE DEF c
  <2>2. hpc # "prepared"
    BY <2>1 DEF PhaseInv
  <2>3. CASE CollectStash(c)
    <3>1. ppc' = "strided" /\ Routed
      BY <2>3 DEF CollectStash, Joins
    <3> QED
      BY <1>0, <1>1, <2>1, <2>2, <3>1 DEF IdleInv
  <2>4. CASE CollectBarrier(c) \/ CollectNothing(c) \/ CollectWrite(c)
    <3>1. pending' = pending /\ ppc' = ppc
      BY <2>4 DEF CollectBarrier, CollectNothing, CollectWrite
    <3> QED
      BY <1>0, <1>1, <2>1, <2>2, <3>1 DEF IdleInv
  <2> QED
    BY <2>1, <2>3, <2>4 DEF Collect
<1>7. CASE PostStrided \/ PostBatch \/ PostNothing
  <2>1. ppc = "strided" /\ ppc' \in {"strided", "poll_cq"} /\ UNCHANGED <<pending, hpc>>
    BY <1>7 DEF PostStrided, PostBatch, PostNothing
  <2>2. hpc # "prepared"
    BY <2>1 DEF PhaseInv
  <2> QED
    BY <1>0, <2>1, <2>2 DEF IdleInv
<1>8. CASE ProxyPollCq
  <2>1. ppc = "poll_cq" /\ ppc' = "advance_tail" /\ UNCHANGED <<pending, hpc>>
    BY <1>8 DEF ProxyPollCq, loop
  <2>2. hpc # "prepared"
    BY <2>1 DEF PhaseInv
  <2> QED
    BY <1>0, <2>1, <2>2 DEF IdleInv
<1>9. CASE ExitDrain
  <2>1. ppc = "exit" /\ ppc' = "exit" /\ UNCHANGED <<pending, hpc>>
    BY <1>9 DEF ExitDrain, loop
  <2>2. hpc # "prepared"
    BY <2>1 DEF PhaseInv
  <2> QED
    BY <1>0, <2>1, <2>2 DEF IdleInv
<1>10. CASE DrainCq
  <2>1. hpc = "drain_cq" /\ hpc' = hpc /\ ppc' = ppc /\ pending' = pending
    BY <1>10 DEF DrainCq, loop
  <2>2. ppc = "spin"
    BY <2>1 DEF PhaseInv
  <2> QED
    BY <1>0, <2>1, <2>2 DEF IdleInv
<1>11. CASE AdvanceTail
  BY <1>0, <1>1, <1>11 DEF AdvanceTail, IdleInv
<1>12. CASE (\E k \in Kernels : Launch(k)) \/ (\E c \in todo : Push(c)) \/ CommitEpoch
  BY <1>0, <1>1, <1>12 DEF Launch, Push, CommitEpoch, IdleInv, loop
<1>13. CASE Prepared
  <2>1. ppc' = "spin" /\ inflight' = 0 /\ pending' = pending
    BY <1>13 DEF Prepared, PhaseInv, loop
  <2> QED
    BY <1>0, <2>1 DEF IdleInv
<1>14. CASE \E q \in QPs : Execute(q)
  BY <1>0, <1>1, <1>14 DEF Execute, IdleInv, loop
<1> QED
  BY <1>3, <1>4, <1>5, <1>6, <1>7, <1>8, <1>9, <1>10, <1>11, <1>12, <1>13, <1>14, Actions
  DEF LoudActions

\* Every queue ends with a signaled WR.
Signaled == \A q \in QPs : posted[q] # <<>> => posted[q][Len(posted[q])].wr_count > 0

\* What is posted stays posted.
LEMMA StaysPosted ==
    ASSUME cfg' = cfg, Grown, TypeOK
    PROVE  \A c : /\ Flagged(c) => Flagged(c)'
                  /\ \A q \in QPs : Barred(q, c) => Barred(q, c)'
<1>1. QPs' = QPs
  BY CfgKept
<1>2. ASSUME NEW q \in QPs, NEW i \in 1..Len(posted[q])
      PROVE  posted'[q][i] = posted[q][i] /\ i \in 1..Len(posted'[q])
  <2>1. Len(posted[q]) \in Nat /\ Len(posted[q]) <= Len(posted'[q])
        /\ posted'[q][i] = posted[q][i]
    BY LenProperties DEF TypeOK, Grown
  <2>2. Len(posted'[q]) - Len(posted[q]) <= Room(q)
    BY DEF Grown
  <2> QED
    BY <2>1
<1> QED
  BY <1>1, <1>2 DEF Flagged, Barred

\* QP q gets the whole of a chain of the commands b, signaled at its end.
Whole(q, b) ==
    /\ \E ch, n, p : Chained(ch, b, n, p) /\ n > 0 /\ Longer(posted[q], posted'[q], ch, Len(ch))
    /\ \A r \in QPs : r # q => posted'[r] = posted[r]

\* A chain posted whole ends signaled, and has the flags of its commands.
LEMMA WholeChain ==
    ASSUME TypeOK, cfg' = cfg, NEW q \in QPs, NEW b, Whole(q, b), Signaled
    PROVE  Signaled' /\ \A c : (\E i \in 1..Len(b) : c = b[i]) => Flagged(c)'
<1>1. PICK ch, n, p :
        Chained(ch, b, n, p) /\ n > 0 /\ Longer(posted[q], posted'[q], ch, Len(ch))
  BY DEF Whole
<1>2. QPs' = QPs /\ \A r \in QPs : r # q => posted'[r] = posted[r]
  BY CfgKept DEF Whole
<1>3. /\ Len(posted[q]) \in Nat /\ Len(ch) \in Nat /\ Len(ch) > 0
      /\ Len(posted'[q]) = Len(posted[q]) + Len(ch)
      /\ \A k \in 1..Len(ch) : posted'[q][Len(posted[q]) + k] = ch[k]
  BY <1>1, LenProperties DEF TypeOK, Chained, Longer
<1>4. \A k \in 1..Len(ch) : Len(posted[q]) + k \in 1..Len(posted'[q])
  BY <1>3
<1>5. posted'[q][Len(posted'[q])].wr_count > 0
  <2>1. Len(ch) \in 1..Len(ch)
    BY <1>3
  <2>2. ch[Len(ch)].wr_count = n
    BY <1>1, <2>1 DEF Chained
  <2> QED
    BY <1>1, <1>3, <2>1, <2>2
<1>6. Signaled'
  BY <1>2, <1>5 DEF Signaled
<1>7. ASSUME NEW c, NEW i \in 1..Len(b), c = b[i] PROVE Flagged(c)'
  <2>1. p[i] \in 1..Len(ch) /\ ch[p[i]].op = "flag" /\ ch[p[i]].cmd = c
    BY <1>1, <1>7 DEF Chained
  <2> DEFINE j == Len(posted[q]) + p[i]
  <2>2. j \in 1..Len(posted'[q]) /\ posted'[q][j] = ch[p[i]]
    BY <1>3, <1>4, <2>1
  <2> HIDE DEF j
  <2>3. posted'[q][j].op = "flag" /\ posted'[q][j].cmd = c
    BY <2>1, <2>2
  <2> QED
    BY <1>2, <2>2, <2>3 DEF Flagged
<1> QED
  BY <1>6, <1>7

\* Where nothing is refused, post_batch posts the batch whole.
LEMMA BatchWhole ==
    ASSUME TypeOK, CqInv, OnceInv, NothingRefused, PostBatch
    PROVE  Whole(batch_qp, batch)
<1> DEFINE ch == Chain(batch)
<1>1. /\ batch \in Seq(Cmds) /\ batch # <<>> /\ batch_qp \in QPs
      /\ \A i \in 1..Len(batch) : ~Strided(batch[i])
      /\ \A i, j \in 1..Len(batch) : batch[i] = batch[j] => i = j
  BY DEF PostBatch, NoStrided, TypeOK, OnceInv
<1>2. PICK p : Chained(ch, batch, Len(batch), p)
  BY <1>1, ChainIsChained
<1>3. posted' = [posted EXCEPT ![batch_qp] = @ \o SubSeq(ch, 1, Accepts(batch_qp, Len(ch)))]
  BY DEF PostBatch
<1>4. Fits(batch_qp, Len(ch))
  BY DEF NothingRefused, PostBatch
<1>5. Len(batch) > 0
  BY <1>1, EmptySeq
<1> HIDE DEF ch
<1>6. ch \in Seq(Wrs) /\ Room(batch_qp) >= 0
  BY <1>1, <1>2 DEF Chained, CqInv
<1>7. /\ \E m \in 0..Len(ch) : /\ Longer(posted[batch_qp], posted'[batch_qp], ch, m)
                               /\ m = Len(ch) <=> Fits(batch_qp, Len(ch))
      /\ \A r \in QPs : r # batch_qp => posted'[r] = posted[r]
  BY <1>1, <1>3, <1>6, PostFacts
<1> QED
  BY <1>2, <1>4, <1>5, <1>7 DEF Whole

\* So is a strided command, unless its shape is refused: then it is dropped and takes no slot.
LEMMA StridedWhole ==
    ASSUME TypeOK, CqInv, NothingRefused, PostStrided
    PROVE  \E i \in 1..Len(batch) :
             /\ batch' = SubSeq(batch, 1, i - 1) \o SubSeq(batch, i + 1, Len(batch))
             /\ \/ posted' = posted /\ sender_seq' = sender_seq /\ ~Transferable(batch[i])
                \/ Whole(batch_qp, <<batch[i]>>) /\ sender_seq' = SeqAfter(<<batch[i]>>)
<1>1. PICK i \in 1..Len(batch) :
        /\ batch' = SubSeq(batch, 1, i - 1) \o SubSeq(batch, i + 1, Len(batch))
        /\ Strided(batch[i])
        /\ IF StridedShapeOk(batch[i])
            THEN LET ch == StridedChain(batch[i])
                 IN  /\ posted' = [posted EXCEPT ![batch_qp] =
                                     @ \o SubSeq(ch, 1, Accepts(batch_qp, Len(ch)))]
                     /\ sender_seq' = SeqAfter(<<batch[i]>>)
            ELSE posted' = posted /\ sender_seq' = sender_seq
  BY DEF PostStrided
<1>2. batch[i] \in Cmds /\ batch_qp \in QPs
  BY ElementOfSeq DEF TypeOK
<1>3. CASE ~StridedShapeOk(batch[i])
  BY <1>1, <1>3 DEF Transferable
<1>4. CASE StridedShapeOk(batch[i])
  <2> DEFINE ch == StridedChain(batch[i])
             b == <<batch[i]>>
  <2>1. PICK p : Chained(ch, b, Len(ch), p)
    BY <1>1, <1>2, <1>4, StridedIsChained
  <2>2. posted' = [posted EXCEPT ![batch_qp] = @ \o SubSeq(ch, 1, Accepts(batch_qp, Len(ch)))]
    BY <1>1, <1>4
  <2>3. Fits(batch_qp, Len(ch))
    BY <1>1, <1>4 DEF NothingRefused, PostStrided
  <2> HIDE DEF ch, b
  <2>4. ch \in Seq(Wrs) /\ Len(ch) > 0 /\ Room(batch_qp) >= 0
    BY <1>2, <2>1 DEF Chained, CqInv
  <2>5. /\ \E m \in 0..Len(ch) : /\ Longer(posted[batch_qp], posted'[batch_qp], ch, m)
                                 /\ m = Len(ch) <=> Fits(batch_qp, Len(ch))
        /\ \A r \in QPs : r # batch_qp => posted'[r] = posted[r]
    BY <1>2, <2>2, <2>4, PostFacts
  <2>6. Whole(batch_qp, b)
    BY <2>1, <2>3, <2>4, <2>5 DEF Whole
  <2>7. sender_seq' = SeqAfter(b)
    BY <1>1, <1>4 DEF b
  <2> QED
    BY <1>1, <2>6, <2>7 DEF b
<1> QED
  BY <1>3, <1>4

\* A barrier that is not refused is on every barrier QP.
LEMMA BarrierWhole ==
    ASSUME TypeOK, CqInv, cfg' = cfg, NEW c \in Cmds, PostStageBarrier(c), Signaled,
           \A q \in BarrierQPs : Fits(q, 1)
    PROVE  Signaled' /\ \A q \in BarrierQPs : Barred(q, c)'
<1> DEFINE x == Wr("barrier", c, 0, 1)
<1>1. QPs' = QPs
  BY CfgKept
<1>2. x \in Wrs /\ x.op = "barrier" /\ x.cmd = c /\ x.wr_count = 1
  BY WrFacts
<1>3. \A r \in QPs : posted'[r] = IF r \in BarrierQPs THEN Append(posted[r], x) ELSE posted[r]
  BY BarrierAdds
<1>4. BarrierQPs \subseteq QPs
  BY BarrierQPsOwned DEF TypeOK
<1> HIDE DEF x
<1>5. ASSUME NEW r \in BarrierQPs
      PROVE  /\ Len(posted'[r]) \in 1..Len(posted'[r])
             /\ posted'[r][Len(posted'[r])] = x
  <2> DEFINE s == posted[r]
             t == posted'[r]
  <2>1. s \in Seq(Wrs) /\ t = Append(s, x)
    BY <1>3, <1>4 DEF TypeOK
  <2> HIDE DEF s, t
  <2>2. Len(t) = Len(s) + 1 /\ Len(s) \in Nat /\ t[Len(s) + 1] = x
    BY <1>2, <2>1
  <2>3. Len(t) \in 1..Len(t) /\ t[Len(t)] = x
    BY <2>2
  <2> QED
    BY <2>3 DEF t
<1>6. Signaled'
  <2> SUFFICES ASSUME NEW r \in QPs, posted'[r] # <<>>
               PROVE  posted'[r][Len(posted'[r])].wr_count > 0
    BY <1>1 DEF Signaled
  <2>1. CASE r \in BarrierQPs
    BY <1>2, <1>5, <2>1
  <2>2. CASE r \notin BarrierQPs
    BY <1>3, <2>2 DEF Signaled
  <2> QED
    BY <2>1, <2>2
<1>7. \A q \in BarrierQPs : Barred(q, c)'
  BY <1>2, <1>5 DEF Barred
<1> QED
  BY <1>6, <1>7

\* What is polled stays polled until the FIFO is reset, and one more comes by Collect.
LEMMA PolledMoves ==
    ASSUME TypeOK, [Next]_vars
    PROVE  /\ \A i \in 1..cpu_head' :
                \/ i \in 1..cpu_head /\ fifo'[i] = fifo[i]
                \/ /\ cpu_head < Len(fifo) /\ fifo'[i] = fifo[cpu_head + 1]
                   /\ Collect(fifo[cpu_head + 1])
           /\ cpu_head' \in Nat
<1>1. Len(fifo) \in Nat /\ cpu_head \in 0..Len(fifo) /\ fifo \in Seq(Cmds)
  BY LenProperties DEF TypeOK
<1>2. CASE cpu_head' = cpu_head /\ \A i \in 1..cpu_head : fifo'[i] = fifo[i]
  BY <1>1, <1>2
<1>3. CASE QuietActions
  <2>1. cpu_head' = cpu_head /\ fifo' = fifo
    BY <1>3, QuietOnes DEF Quiet, gpu
  <2> QED
    BY <1>2, <2>1
<1>4. CASE \/ StartBatch \/ PostStrided \/ PostBatch \/ PostNothing \/ AdvanceTail \/ ProxyPollCq
           \/ ExitDrain \/ DrainCq \/ Prepared \/ \E q \in QPs : Execute(q)
  <2>1. cpu_head' = cpu_head /\ fifo' = fifo
    BY <1>4 DEF StartBatch, PostStrided, PostBatch, PostNothing, AdvanceTail, ProxyPollCq,
       ExitDrain, DrainCq, Prepared, Execute, gpu
  <2> QED
    BY <1>2, <2>1
<1>5. CASE \E k \in Kernels : Launch(k)
  BY <1>2, <1>5 DEF Launch
<1>6. ASSUME NEW c \in todo, Push(c)
      PROVE  cpu_head' = cpu_head /\ \A i \in 1..cpu_head : fifo'[i] = fifo[i]
  <2>1. cpu_head' = cpu_head /\ fifo' = Append(fifo, c) /\ c \in Cmds
    BY <1>6 DEF Push, TypeOK
  <2>2. \A i \in 1..Len(fifo) : fifo'[i] = fifo[i]
    BY <1>1, <2>1
  <2> QED
    BY <1>1, <2>1, <2>2
<1>7. CASE CommitEpoch
  <2>1. cpu_head' = 0
    BY <1>7 DEF CommitEpoch
  <2> QED
    BY <2>1
<1>8. CASE cpu_head < Len(fifo) /\ Collect(fifo[cpu_head + 1])
  <2>1. cpu_head' = cpu_head + 1 /\ fifo' = fifo
    BY <1>8 DEF Collect, Polls, gpu
  <2>2. \A i \in 1..cpu_head' : i \in 1..cpu_head \/ i = cpu_head + 1
    BY <1>1, <2>1
  <2> QED
    BY <1>1, <1>8, <2>1, <2>2
<1> QED
  BY <1>2, <1>3, <1>4, <1>5, <1>6, <1>7, <1>8, Actions DEF LoudActions

\* What a step does to the commands the proxy has taken, when nothing is refused.
ServesOn ==
    /\ \A c \in Cmds : Transferable(c) /\ Served(c) => Served(c)'
    /\ \A c : cpu_head < Len(fifo) /\ c = fifo[cpu_head + 1] /\ Collect(c) =>
         /\ Transferable(c) => Served(c)'
         /\ c.type = "BARRIER_NOTIFY" => \A q \in BarrierQPs : Barred(q, c)'

\* Polling a command puts it in the batch or the stash, or posts its barrier.
LEMMA CollectServes ==
    ASSUME TypeOK, CqInv, CollectInv, IdleInv, NothingRefused, Signaled, cfg' = cfg,
           NEW c \in Cmds, cpu_head < Len(fifo), c = fifo[cpu_head + 1], Collect(c)
    PROVE  /\ Signaled' /\ Grown
           /\ \A d \in Cmds : Transferable(d) /\ Served(d) => Served(d)'
           /\ Transferable(c) => Served(c)'
           /\ c.type = "BARRIER_NOTIFY" => \A q \in BarrierQPs : Barred(q, c)'
<1>1. ppc = "collect" /\ CanCollect /\ UNCHANGED <<cfg, gpu, pre_inflight>>
  BY DEF Collect, Polls
<1>2. \A q \in QPs : Len(posted[q]) \in Nat /\ Room(q) >= 0 /\ Room(q) \in Int
  <2> SUFFICES ASSUME NEW q \in QPs
               PROVE  Len(posted[q]) \in Nat /\ Room(q) >= 0 /\ Room(q) \in Int
    OBVIOUS
  <2>1. Len(posted[q]) \in Nat /\ freed[q] \in Nat /\ QpSqDepth \in Nat
    BY LimitAssumption, LenProperties DEF TypeOK
  <2> QED
    BY <2>1 DEF CqInv, Room
<1>3. CASE CollectBarrier(c)
  <2>1. PostStageBarrier(c) /\ UNCHANGED <<ppc, batch, pending>> /\ c.type = "BARRIER_NOTIFY"
    BY <1>3 DEF CollectBarrier
  <2>2. \A q \in BarrierQPs : Fits(q, 1)
    BY <1>1, <2>1 DEF NothingRefused
  <2>3. Signaled' /\ \A q \in BarrierQPs : Barred(q, c)'
    BY <2>1, <2>2, BarrierWhole
  <2>4. Grown
    BY <2>1, BarrierAdds
  <2>5. \A d : Flagged(d) => Flagged(d)'
    BY <2>4, StaysPosted
  <2>6. \A d : Served(d) => Served(d)'
    BY <2>1, <2>5 DEF Served, InBatch, InPending
  <2>7. ~Transferable(c)
    BY <2>1 DEF Transferable, Collectable
  <2> QED
    BY <2>3, <2>4, <2>6, <2>7
<1>4. CASE CollectNothing(c) \/ CollectWrite(c) \/ CollectStash(c)
  <2>1. posted' = posted
    BY <1>4 DEF CollectNothing, CollectWrite, CollectStash, nic
  <2>2. QPs' = QPs
    BY CfgKept
  <2>3. Signaled' /\ Grown /\ \A d : Flagged(d) => Flagged(d)'
    BY <1>2, <2>1, <2>2 DEF Signaled, Grown, Flagged
  <2>4. c.type # "BARRIER_NOTIFY"
    BY <1>4 DEF CollectNothing, CollectWrite, CollectStash, Collectable
  <2>5. CASE CollectNothing(c)
    <3>1. UNCHANGED <<ppc, batch, pending>> /\ ~Transferable(c)
      BY <2>5, <2>4 DEF CollectNothing, Transferable
    <3>2. \A d : Served(d) => Served(d)'
      BY <2>3, <3>1 DEF Served, InBatch, InPending
    <3> QED
      BY <2>3, <2>4, <3>1, <3>2
  <2>6. CASE CollectWrite(c)
    <3>1. batch' = Append(batch, c) /\ UNCHANGED <<ppc, pending>>
      BY <2>6 DEF CollectWrite
    <3>2. batch \in Seq(Cmds) /\ Len(batch) \in Nat
      BY LenProperties DEF TypeOK
    <3>3. /\ Len(batch) + 1 \in 1..Len(batch') /\ batch'[Len(batch) + 1] = c
          /\ \A i \in 1..Len(batch) : i \in 1..Len(batch') /\ batch'[i] = batch[i]
      BY <3>1, <3>2
    <3>4. InBatch(c)' /\ \A d : InBatch(d) => InBatch(d)'
      BY <3>3 DEF InBatch
    <3>5. \A d : Served(d) => Served(d)'
      BY <2>3, <3>1, <3>4 DEF Served, InPending
    <3>6. Served(c)'
      BY <1>1, <3>1, <3>4 DEF Served
    <3> QED
      BY <2>3, <2>4, <3>5, <3>6
  <2>7. CASE CollectStash(c)
    <3>1. pending' = <<c>> /\ ppc' = "strided" /\ batch' = batch
      BY <2>7 DEF CollectStash
    <3>2. pending = <<>>
      <4>1. pre_inflight \in Int /\ Len(batch) \in Nat /\ EffectiveMaxInflight \in Int
        BY LenProperties, CeilingIsInt DEF TypeOK
      <4>2. ~(pre_inflight >= EffectiveMaxInflight)
        BY <1>1, <4>1 DEF CanCollect
      <4> QED
        BY <1>1, <4>2 DEF IdleInv
    <3>3. \A d : ~InPending(d) /\ (InBatch(d) => InBatch(d)')
      BY <3>1, <3>2 DEF InPending, InBatch
    <3>4. \A d : Served(d) => Served(d)'
      BY <2>3, <3>1, <3>3 DEF Served
    <3>5. InPending(c)'
      <4>1. Len(<<c>>) = 1 /\ <<c>>[1] = c
        OBVIOUS
      <4>2. 1 \in 1..Len(pending') /\ pending'[1] = c
        BY <3>1, <4>1
      <4> QED
        BY <4>2 DEF InPending
    <3>6. Served(c)'
      BY <3>5 DEF Served
    <3> QED
      BY <2>3, <2>4, <3>4, <3>6
  <2> QED
    BY <1>4, <2>5, <2>6, <2>7
<1> QED
  BY <1>3, <1>4 DEF Collect

\* A command polled stays batched or stashed until its flag is posted, and a barrier posted.
LEMMA ServesStep ==
    ASSUME TypeOK, CqInv, CollectInv, PhaseInv, OnceInv, IdleInv, NothingRefused, Signaled,
           [Next]_vars
    PROVE  Signaled' /\ ServesOn /\ \A q \in QPs : \A c : Barred(q, c) => Barred(q, c)'
<1>0. cfg' = cfg /\ QPs' = QPs
  BY CfgSame, CfgKept
<1>1. batch \in Seq(Cmds) /\ Len(batch) \in Nat
  BY LenProperties DEF TypeOK
<1> DEFINE Coll == cpu_head < Len(fifo) /\ Collect(fifo[cpu_head + 1])
<1>2. ASSUME posted' = posted
      PROVE  /\ Signaled' /\ \A c : Flagged(c) => Flagged(c)'
             /\ \A q \in QPs : \A c : Barred(q, c) => Barred(q, c)'
  BY <1>0, <1>2 DEF Signaled, Flagged, Barred
<1>3. CASE Coll
  <2>1. PICK c \in Cmds : cpu_head < Len(fifo) /\ c = fifo[cpu_head + 1] /\ Collect(c)
    <3>1. cpu_head + 1 \in 1..Len(fifo) /\ fifo \in Seq(Cmds)
      BY <1>3, LenProperties DEF TypeOK
    <3>2. fifo[cpu_head + 1] \in Cmds
      BY <3>1, ElementOfSeq
    <3> QED
      BY <1>3, <3>2
  <2>2. /\ Signaled' /\ Grown
        /\ \A d \in Cmds : Transferable(d) /\ Served(d) => Served(d)'
        /\ Transferable(c) => Served(c)'
        /\ c.type = "BARRIER_NOTIFY" => \A q \in BarrierQPs : Barred(q, c)'
    BY <1>0, <2>1, CollectServes
  <2>3. ServesOn
    BY <2>1, <2>2 DEF ServesOn
  <2> QED
    BY <1>0, <2>2, <2>3, StaysPosted
<1>4. CASE ~Coll /\ Keeps
  <2>1. UNCHANGED <<batch, pending, posted>>
    BY <1>4 DEF Keeps
  <2>2. \A c : InBatch(c) => batch # <<>>
    BY DEF InBatch
  <2>3. \A c : Served(c) => Served(c)'
    BY <1>2, <1>4, <2>1, <2>2 DEF Served, InBatch, InPending, Keeps
  <2> QED
    BY <1>2, <1>4, <2>1, <2>3 DEF ServesOn
<1>5. CASE ~Coll /\ StartBatch
  <2>1. posted' = posted /\ ppc = "top" /\ ppc' = "collect"
    BY <1>5 DEF StartBatch, nic
  <2>2. \A c : InPending(c) => InPending(c)' \/ InBatch(c)'
    <3>1. (batch' = <<>> /\ pending' = pending) \/ (batch' = pending /\ pending' = <<>>)
      BY <1>5 DEF StartBatch
    <3> QED
      BY <3>1 DEF InPending, InBatch
  <2>3. \A c : Served(c) => Served(c)'
    BY <1>2, <2>1, <2>2 DEF Served
  <2> QED
    BY <1>2, <1>5, <2>1, <2>3 DEF ServesOn
<1>6. CASE ~Coll /\ AdvanceTail
  <2>1. posted' = posted /\ pending' = pending /\ ppc = "advance_tail"
    BY <1>6 DEF AdvanceTail, nic
  <2>2. \A c : Served(c) => Served(c)'
    BY <1>2, <2>1 DEF Served, InPending
  <2> QED
    BY <1>2, <1>6, <2>1, <2>2 DEF ServesOn
<1>7. CASE ~Coll /\ PostBatch
  <2>1. Grown /\ batch_qp \in QPs
    BY <1>7, PostingsAdd DEF TypeOK
  <2>2. Whole(batch_qp, batch)
    BY <1>7, BatchWhole
  <2>3. Signaled' /\ \A c : (\E i \in 1..Len(batch) : c = batch[i]) => Flagged(c)'
    BY <1>0, <2>1, <2>2, WholeChain
  <2>4. pending' = pending
    BY <1>7 DEF PostBatch
  <2>5. \A c : (InBatch(c) => Flagged(c)') /\ (Flagged(c) => Flagged(c)')
               /\ (InPending(c) => InPending(c)')
    BY <1>0, <2>1, <2>3, <2>4, StaysPosted DEF InBatch, InPending
  <2>6. \A c : Served(c) => Served(c)'
    BY <2>5 DEF Served
  <2> QED
    BY <1>0, <1>7, <2>1, <2>3, <2>6, StaysPosted DEF ServesOn
<1>8. CASE ~Coll /\ PostStrided
  <2>1. Grown /\ batch_qp \in QPs
    BY <1>8, PostingsAdd DEF TypeOK
  <2>2. ppc' = ppc /\ pending' = pending
    BY <1>8 DEF PostStrided
  <2>3. PICK i \in 1..Len(batch) :
          /\ batch' = SubSeq(batch, 1, i - 1) \o SubSeq(batch, i + 1, Len(batch))
          /\ \/ posted' = posted /\ ~Transferable(batch[i])
             \/ Whole(batch_qp, <<batch[i]>>)
    BY <1>8, StridedWhole
  <2>4. Signaled' /\ \A c : c = batch[i] /\ Transferable(c) => Flagged(c)'
    <3>1. CASE posted' = posted /\ ~Transferable(batch[i])
      BY <1>2, <3>1
    <3>2. CASE Whole(batch_qp, <<batch[i]>>)
      <4> DEFINE b == <<batch[i]>>
      <4>1. Len(b) = 1 /\ b[1] = batch[i] /\ Whole(batch_qp, b)
        BY <3>2
      <4> HIDE DEF b
      <4>2. Signaled' /\ \A c : (\E h \in 1..Len(b) : c = b[h]) => Flagged(c)'
        BY <1>0, <2>1, <4>1, WholeChain
      <4>3. 1 \in 1..Len(b)
        BY <4>1
      <4> QED
        BY <4>1, <4>2, <4>3
    <3> QED
      BY <2>3, <3>1, <3>2
  <2>5. \A c : InBatch(c) => InBatch(c)' \/ c = batch[i]
    <3>1. /\ Len(batch') = Len(batch) - 1
          /\ \A k \in 1..(Len(batch) - 1) : batch'[k] = IF k < i THEN batch[k] ELSE batch[k + 1]
      BY <1>1, <2>3, RemoveFacts
    <3>2. ASSUME NEW h \in 1..Len(batch), h # i PROVE \E k \in 1..Len(batch') : batch'[k] = batch[h]
      <4>1. CASE h < i
        <5>1. h \in 1..(Len(batch) - 1)
          BY <1>1, <4>1
        <5> QED
          BY <3>1, <4>1, <5>1
      <4>2. CASE h > i
        <5> DEFINE k == h - 1
        <5>1. k \in 1..(Len(batch) - 1) /\ ~(k < i) /\ k + 1 = h
          BY <1>1, <4>2
        <5> HIDE DEF k
        <5> QED
          BY <3>1, <5>1
      <4> QED
        BY <1>1, <3>2, <4>1, <4>2
    <3> QED
      BY <3>2 DEF InBatch
  <2>6. \A c : (Flagged(c) => Flagged(c)') /\ (InPending(c) => InPending(c)')
    BY <1>0, <2>1, <2>2, StaysPosted DEF InPending
  <2>7. \A c : Transferable(c) /\ Served(c) => Served(c)'
    BY <2>2, <2>4, <2>5, <2>6 DEF Served
  <2> QED
    BY <1>0, <1>8, <2>1, <2>4, <2>7, StaysPosted DEF ServesOn
<1> HIDE DEF Coll
<1>9. Coll \/ Keeps \/ StartBatch \/ PostStrided \/ PostBatch \/ AdvanceTail
  BY HandMoves DEF Coll
<1> QED
  BY <1>3, <1>4, <1>5, <1>6, <1>7, <1>8, <1>9

\* Every step keeps the invariant of what was posted whole.
LEMMA WholeStep ==
    ASSUME TypeOK, CqInv, CollectInv, PhaseInv, OnceInv, IdleInv, WholeInv, NothingRefused,
           [Next]_vars
    PROVE  WholeInv'
<1>0. cfg' = cfg /\ QPs' = QPs /\ BarrierQPs' = BarrierQPs
      /\ \A c : Transferable(c)' = Transferable(c)
  BY CfgSame, CfgKept
<1>1. Signaled' /\ ServesOn /\ \A q \in QPs : \A c : Barred(q, c) => Barred(q, c)'
  <2>1. Signaled
    BY DEF WholeInv, Signaled
  <2> QED
    BY <2>1, ServesStep
<1>2. BarrierQPs \subseteq QPs
  BY BarrierQPsOwned DEF TypeOK
<1>3. \A i \in 1..cpu_head : fifo[i] \in Cmds
  <2>1. \A i \in 1..cpu_head : i \in 1..Len(fifo)
    BY LenProperties DEF TypeOK
  <2> QED
    BY <2>1, ElementOfSeq DEF TypeOK
<1>4. ASSUME NEW i \in 1..cpu_head', NEW c, c = fifo'[i]
      PROVE  /\ Transferable(c) => Served(c)'
             /\ c.type = "BARRIER_NOTIFY" => \A q \in BarrierQPs : Barred(q, c)'
  <2>1. CASE i \in 1..cpu_head /\ c = fifo[i]
    <3>1. Transferable(c) => Served(c) /\ c \in Cmds
      BY <1>3, <2>1 DEF WholeInv
    <3>2. c.type = "BARRIER_NOTIFY" => \A q \in BarrierQPs : Barred(q, c)
      BY <2>1 DEF WholeInv
    <3> QED
      BY <1>1, <1>2, <3>1, <3>2 DEF ServesOn
  <2>2. CASE cpu_head < Len(fifo) /\ c = fifo[cpu_head + 1] /\ Collect(c)
    BY <1>1, <2>2 DEF ServesOn
  <2> QED
    BY <1>4, <2>1, <2>2, PolledMoves
<1>5. /\ \A i \in 1..cpu_head' : Transferable(fifo[i])' => Served(fifo[i])'
      /\ \A i \in 1..cpu_head' : fifo'[i].type = "BARRIER_NOTIFY" =>
           \A q \in BarrierQPs : Barred(q, fifo[i])'
  BY <1>0, <1>4
<1> QED
  BY <1>0, <1>1, <1>5 DEF WholeInv, Signaled

-----------------------------------------------------------------------------
\* Arrival slots.

\* The elements of S before i.
Below(S, i) == {h \in S : h < i}

\* Counting through a set of numbers meets every number up to its size, once.
LEMMA CountThrough ==
    ASSUME NEW n \in Nat, NEW S \in SUBSET (1..n)
    PROVE  /\ Cardinality(S) \in Nat
           /\ \A i \in S : /\ Cardinality(Below(S, i)) \in Nat
                           /\ Cardinality(Below(S, i)) < Cardinality(S)
           /\ \A h, i \in S : h < i => Cardinality(Below(S, h)) < Cardinality(Below(S, i))
           /\ \A m \in Nat : m < Cardinality(S) => \E i \in S : Cardinality(Below(S, i)) = m
<1>0. \A i \in S : i \in Nat /\ 1 <= i /\ i <= n
  OBVIOUS
<1>1. ASSUME NEW T \in SUBSET S PROVE IsFiniteSet(T) /\ Cardinality(T) \in Nat
  <2>1. T \in SUBSET (1..n) /\ 1 \in Int /\ n \in Int
    OBVIOUS
  <2> QED
    BY <2>1, PartFinite
<1>2. ASSUME NEW T \in SUBSET S, NEW i \in S, i \notin T
      PROVE  Cardinality(T \cup {i}) = Cardinality(T) + 1
  BY <1>1, <1>2, FS_AddElement
<1>3. ASSUME NEW T \in SUBSET S, NEW U \in SUBSET T
      PROVE  Cardinality(U) <= Cardinality(T)
  BY <1>1, FS_Subset
<1>4. ASSUME NEW T \in SUBSET S, NEW i \in T
      PROVE  /\ Cardinality(Below(S, i)) \in Nat
             /\ Below(S, i) \subseteq T => Cardinality(Below(S, i)) < Cardinality(T)
  <2> DEFINE B == Below(S, i)
  <2>1. B \in SUBSET S /\ i \in S /\ i \notin B
    BY DEF Below
  <2>2. B \subseteq T => B \cup {i} \in SUBSET T
    OBVIOUS
  <2> HIDE DEF B
  <2>3. Cardinality(B \cup {i}) = Cardinality(B) + 1 /\ Cardinality(B) \in Nat
    BY <1>1, <1>2, <2>1
  <2>4. Cardinality(T) \in Nat /\ (B \subseteq T => Cardinality(B \cup {i}) <= Cardinality(T))
    BY <1>1, <1>3, <2>2
  <2> QED
    BY <2>3, <2>4 DEF B
<1>5. ASSUME NEW i \in S
      PROVE  Cardinality(Below(S, i)) \in Nat /\ Cardinality(Below(S, i)) < Cardinality(S)
  BY <1>4 DEF Below
<1>6. ASSUME NEW h \in S, NEW i \in S, h < i
      PROVE  Cardinality(Below(S, h)) < Cardinality(Below(S, i))
  <2>1. Below(S, i) \in SUBSET S /\ h \in Below(S, i)
    BY <1>6 DEF Below
  <2>2. \A k \in S : k < h => k < i
    BY <1>0, <1>6
  <2>3. Below(S, h) \subseteq Below(S, i)
    BY <2>2 DEF Below
  <2> QED
    BY <1>4, <2>1, <2>3
<1>7. ASSUME NEW m \in Nat, m < Cardinality(S)
      PROVE  \E i \in S : Cardinality(Below(S, i)) = m
  <2> DEFINE T == {k \in Nat : k <= n + 1 /\ Cardinality(Below(S, k)) > m}
  <2>1. Below(S, n + 1) = S
    <3>1. \A k \in S : k < n + 1
      BY <1>0
    <3> QED
      BY <3>1 DEF Below
  <2>2. n + 1 \in T
    BY <1>1, <1>7, <2>1
  <2>3. PICK k \in T : \A j \in T : k <= j
    <3>1. T \in SUBSET Nat /\ T # {}
      BY <2>2
    <3> HIDE DEF T
    <3> QED
      BY <3>1, NatLeast
  <2>4. k > 0
    <3>0. \A h \in S : ~(h < 0)
      BY <1>0
    <3>1. Below(S, 0) = {}
      BY <3>0 DEF Below
    <3>2. Cardinality(Below(S, 0)) = 0
      BY <3>1, FS_EmptySet
    <3> QED
      BY <2>3, <3>2
  <2>5. k - 1 \in Nat /\ k - 1 \notin T
    BY <2>3, <2>4
  <2> DEFINE i == k - 1
             B == Below(S, i)
             C == Below(S, k)
  <2>6. B \in SUBSET S /\ i \notin B /\ i \in Nat
    BY <2>5 DEF Below
  <2>7. Cardinality(B) <= m /\ Cardinality(B) \in Nat
    <3>1. ~(Cardinality(B) > m)
      BY <2>3, <2>5
    <3>2. Cardinality(B) \in Nat
      BY <1>1, <2>6
    <3> HIDE DEF B
    <3> QED
      BY <3>1, <3>2
  <2>8. Cardinality(C) > m
    BY <2>3
  <2>9. C = IF i \in S THEN B \cup {i} ELSE B
    <3>1. \A h \in S : h < k <=> h < i \/ h = i
      BY <1>0, <2>5
    <3>2. i \in Nat /\ ~(i < i)
      BY <2>5
    <3> HIDE DEF i
    <3> QED
      BY <3>1, <3>2 DEF Below
  <2> HIDE DEF i, B, C, T
  <2>10. i \in S
    BY <2>7, <2>8, <2>9
  <2>11. Cardinality(C) = Cardinality(B) + 1
    BY <1>2, <2>6, <2>9, <2>10
  <2>12. Cardinality(B) = m
    BY <2>7, <2>8, <2>11
  <2> QED
    BY <2>10, <2>12 DEF B
<1> QED
  BY <1>1, <1>5, <1>6, <1>7

\* A finite set of numbers without a hole is an interval.
LEMMA NoHole ==
    ASSUME NEW D \in SUBSET Nat, IsFiniteSet(D), \A x \in D : \A y \in 0..(x - 1) : y \in D
    PROVE  D = 0..(Cardinality(D) - 1)
<1> DEFINE n == Cardinality(D)
<1>1. n \in Nat
  BY FS_CardinalityType
<1>2. ASSUME NEW x \in D PROVE x <= n - 1
  <2>1. 0..x \in SUBSET D
    <3>1. \A y \in 0..x : y = x \/ y \in 0..(x - 1)
      OBVIOUS
    <3> QED
      BY <3>1
  <2>2. Cardinality(0..x) <= n
    BY <2>1, FS_Subset
  <2>3. Cardinality(0..x) = x + 1
    <3>1. 0 \in Int /\ x \in Int /\ ~(0 > x) /\ x - 0 + 1 = x + 1
      OBVIOUS
    <3> QED
      BY <3>1, FS_Interval
  <2> HIDE DEF n
  <2> QED
    BY <1>1, <2>2, <2>3
<1>3. D \in SUBSET (0..(n - 1))
  <2> HIDE DEF n
  <2> QED
    BY <1>1, <1>2
<1>4. IsFiniteSet(0..(n - 1)) /\ Cardinality(0..(n - 1)) = n
  <2> HIDE DEF n
  <2>1. 0 \in Int /\ n - 1 \in Int /\ (IF 0 > n - 1 THEN 0 ELSE (n - 1) - 0 + 1) = n
    BY <1>1
  <2> QED
    BY <2>1, FS_Interval
<1> QED
  BY <1>3, <1>4, FS_Subset

\* The slots a batch takes: of each logical queue the next ones, in the order of the batch.
LEMMA SlotsTaken ==
    ASSUME TypeOK, UseArrivalQueue, NEW b \in Seq(Cmds)
    PROVE  /\ \A l \in LogicalQueues :
                /\ sender_seq[l] \in Nat /\ SeqAfter(b)[l] \in Nat
                /\ sender_seq[l] <= SeqAfter(b)[l]
                /\ \A x \in sender_seq[l]..(SeqAfter(b)[l] - 1) : \E h \in 1..Len(b) :
                     LogicalQueue(b[h]) = l /\ SlotOf(b, h) = x
           /\ \A i \in 1..Len(b) : \A l \in LogicalQueues : LogicalQueue(b[i]) = l =>
                /\ SlotOf(b, i) \in Nat
                /\ sender_seq[l] <= SlotOf(b, i) /\ SlotOf(b, i) < SeqAfter(b)[l]
                /\ \A h \in 1..Len(b) : h < i /\ LogicalQueue(b[h]) = l =>
                     SlotOf(b, h) < SlotOf(b, i)
                /\ \A x \in sender_seq[l]..(SlotOf(b, i) - 1) : \E h \in 1..Len(b) :
                     h < i /\ LogicalQueue(b[h]) = l /\ SlotOf(b, h) = x
<1> DEFINE n == Len(b)
<1>1. n \in Nat
  BY LenProperties
<1>2. ASSUME NEW l \in LogicalQueues
      PROVE  /\ /\ sender_seq[l] \in Nat /\ SeqAfter(b)[l] \in Nat
                /\ sender_seq[l] <= SeqAfter(b)[l]
                /\ \A x \in sender_seq[l]..(SeqAfter(b)[l] - 1) : \E h \in 1..n :
                     LogicalQueue(b[h]) = l /\ SlotOf(b, h) = x
             /\ \A i \in 1..n : LogicalQueue(b[i]) = l =>
                  /\ SlotOf(b, i) \in Nat
                  /\ sender_seq[l] <= SlotOf(b, i) /\ SlotOf(b, i) < SeqAfter(b)[l]
                  /\ \A h \in 1..n : h < i /\ LogicalQueue(b[h]) = l =>
                       SlotOf(b, h) < SlotOf(b, i)
                  /\ \A x \in sender_seq[l]..(SlotOf(b, i) - 1) : \E h \in 1..n :
                       h < i /\ LogicalQueue(b[h]) = l /\ SlotOf(b, h) = x
  <2> DEFINE S == {h \in 1..n : LogicalQueue(b[h]) = l}
             a == sender_seq[l]
             N == Cardinality(S)
             C(i) == Cardinality(Below(S, i))
  <2>1. a \in Nat
    BY DEF TypeOK
  <2>2. SeqAfter(b)[l] = a + N
    BY DEF SeqAfter
  <2>3. \A i \in 1..n : LogicalQueue(b[i]) = l => SlotOf(b, i) = a + C(i)
    <3> TAKE i \in 1..n
    <3> HAVE LogicalQueue(b[i]) = l
    <3>1. {h \in 1..(i - 1) : LogicalQueue(b[h]) = l} = Below(S, i)
      <4>1. \A h : h \in 1..(i - 1) <=> h \in 1..n /\ h < i
        BY <1>1
      <4> QED
        BY <4>1 DEF Below
    <3> QED
      BY <3>1 DEF SlotOf
  <2>4. \A i \in 1..n : LogicalQueue(b[i]) = l <=> i \in S
    OBVIOUS
  <2>5. S \in SUBSET (1..n)
    OBVIOUS
  <2> HIDE DEF n, S
  <2>6. /\ N \in Nat
        /\ \A i \in S : C(i) \in Nat /\ C(i) < N
        /\ \A h, i \in S : h < i => C(h) < C(i)
        /\ \A m \in Nat : m < N => \E i \in S : C(i) = m
    BY <1>1, <2>5, CountThrough
  <2>7. \A i \in S : i \in Nat
    BY <2>5
  <2> HIDE DEF a, N, C
  <2>8. /\ SeqAfter(b)[l] \in Nat /\ a <= SeqAfter(b)[l]
        /\ \A i \in S : /\ SlotOf(b, i) = a + C(i) /\ SlotOf(b, i) \in Nat
                        /\ a <= SlotOf(b, i) /\ SlotOf(b, i) < SeqAfter(b)[l]
    BY <2>1, <2>2, <2>3, <2>4, <2>5, <2>6
  <2>9. ASSUME NEW h \in S, NEW i \in S, h < i PROVE SlotOf(b, h) < SlotOf(b, i)
    <3>1. C(h) < C(i) /\ C(h) \in Nat /\ C(i) \in Nat
      BY <2>6, <2>9
    <3>2. SlotOf(b, h) = a + C(h) /\ SlotOf(b, i) = a + C(i)
      BY <2>8
    <3> QED
      BY <2>1, <3>1, <3>2
  <2>10. ASSUME NEW x \in a..(SeqAfter(b)[l] - 1)
         PROVE  \E h \in S : SlotOf(b, h) = x
    <3>1. x - a \in Nat /\ x - a < N
      BY <2>1, <2>2, <2>6
    <3>2. PICK h \in S : C(h) = x - a
      BY <2>6, <3>1
    <3>3. a + (x - a) = x
      BY <2>1
    <3> QED
      BY <2>8, <3>2, <3>3
  <2>11. ASSUME NEW i \in S, NEW x \in a..(SlotOf(b, i) - 1)
         PROVE  \E h \in S : h < i /\ SlotOf(b, h) = x
    <3>1. x \in a..(SeqAfter(b)[l] - 1) /\ x < SlotOf(b, i)
      BY <2>1, <2>8
    <3>2. PICK h \in S : SlotOf(b, h) = x
      BY <2>10, <3>1
    <3>3. ~(i < h) /\ h # i
      <4>1. CASE i < h
        <5>1. SlotOf(b, i) < SlotOf(b, h)
          BY <2>9, <4>1
        <5>2. SlotOf(b, i) \in Nat /\ SlotOf(b, h) \in Nat
          BY <2>8
        <5> QED
          BY <3>1, <3>2, <5>1, <5>2
      <4>2. CASE h = i
        <5>1. SlotOf(b, i) \in Nat
          BY <2>8
        <5> QED
          BY <3>1, <3>2, <4>2, <5>1
      <4> QED
        BY <4>1, <4>2
    <3>4. h < i
      BY <2>7, <3>3
    <3> QED
      BY <3>2, <3>4
  <2> QED
    BY <2>1, <2>4, <2>5, <2>8, <2>9, <2>10, <2>11 DEF a
<1>3. \A i \in 1..n : LogicalQueue(b[i]) \in LogicalQueues
  BY CmdFacts, ElementOfSeq DEF TypeOK
<1> QED
  BY <1>2, <1>3

\* The slots of queue l and this epoch that sequence s has flags for end at n.
UpTo(s, l, n) ==
    \A i \in 1..Len(s) : Is("flag", s[i], l, epoch) => s[i].slot < n
\* Slot x of queue l and epoch e has its flag among the first n WRs of s.
Has(s, n, l, e, x) == \E j \in 1..n : Is("flag", s[j], l, e) /\ s[j].slot = x

\* A whole chain goes on where the flags before it ended.
LEMMA ChainInOrder ==
    ASSUME TypeOK, UseArrivalQueue, NEW b \in Seq(Cmds), NEW s \in Seq(Wrs), NEW t \in Seq(Wrs),
           NEW ch, NEW n, NEW p, Chained(ch, b, n, p), Longer(s, t, ch, Len(ch)), InOrder(s),
           \A l \in LogicalQueues : UpTo(s, l, sender_seq[l]),
           \A i \in 1..Len(b) : \A l \in LogicalQueues : LogicalQueue(b[i]) = l =>
             \A x \in 0..(sender_seq[l] - 1) : Has(s, Len(s), l, epoch, x)
    PROVE  /\ InOrder(t)
           /\ \A l \in LogicalQueues : UpTo(t, l, SeqAfter(b)[l])
           /\ \A l \in LogicalQueues : \A x \in sender_seq[l]..(SeqAfter(b)[l] - 1) :
                Has(t, Len(t), l, epoch, x)
<1> DEFINE a == Len(s)
           Q(i) == LogicalQueue(b[i])
<1>1. /\ a \in Nat /\ Len(ch) \in Nat /\ Len(t) = a + Len(ch) /\ ch \in Seq(Wrs)
      /\ \A i \in 1..a : t[i] = s[i]
      /\ \A k \in 1..Len(ch) : t[a + k] = ch[k]
  BY LenProperties DEF Chained, Longer
<1>2. /\ \A k \in 1..Len(ch) :
           /\ ch[k].epoch = epoch
           /\ ch[k].op = "flag" => \E i \in 1..Len(b) : k = p[i]
           /\ ch[k].op = "tail" => \E i \in 1..Len(b) :
                p[i] < k /\ ch[k].cmd = b[i] /\ ch[k].slot = SlotOf(b, i) + 1
      /\ \A i \in 1..Len(b) :
           /\ p[i] \in 1..Len(ch)
           /\ ch[p[i]].op = "flag" /\ ch[p[i]].cmd = b[i] /\ ch[p[i]].slot = SlotOf(b, i)
           /\ \A h \in 1..Len(b) : h < i => p[h] < p[i]
  BY DEF Chained
<1>3. /\ \A l \in LogicalQueues :
           /\ sender_seq[l] \in Nat /\ SeqAfter(b)[l] \in Nat
           /\ sender_seq[l] <= SeqAfter(b)[l]
           /\ \A x \in sender_seq[l]..(SeqAfter(b)[l] - 1) : \E h \in 1..Len(b) :
                Q(h) = l /\ SlotOf(b, h) = x
      /\ \A i \in 1..Len(b) : \A l \in LogicalQueues : Q(i) = l =>
           /\ SlotOf(b, i) \in Nat
           /\ sender_seq[l] <= SlotOf(b, i) /\ SlotOf(b, i) < SeqAfter(b)[l]
           /\ \A h \in 1..Len(b) : h < i /\ Q(h) = l => SlotOf(b, h) < SlotOf(b, i)
           /\ \A x \in sender_seq[l]..(SlotOf(b, i) - 1) : \E h \in 1..Len(b) :
                h < i /\ Q(h) = l /\ SlotOf(b, h) = x
  BY SlotsTaken
<1>4. epoch \in Nat /\ Len(b) \in Nat /\ \A i \in 1..Len(b) : Q(i) \in LogicalQueues
  BY CmdFacts, ElementOfSeq, LenProperties DEF TypeOK
<1>5. \A i \in 1..a : s[i].slot \in Nat
  <2>1. \A i \in 1..a : s[i] \in Wrs
    BY ElementOfSeq
  <2> QED
    BY <2>1 DEF Wrs
<1> HIDE DEF a, Q
\* The flag of the h-th command.
<1>6. ASSUME NEW h \in 1..Len(b)
      PROVE  /\ a + p[h] \in 1..Len(t) /\ a < a + p[h]
             /\ Is("flag", t[a + p[h]], Q(h), epoch) /\ t[a + p[h]].slot = SlotOf(b, h)
  <2>1. p[h] \in 1..Len(ch) /\ t[a + p[h]] = ch[p[h]]
    BY <1>1, <1>2
  <2>2. a + p[h] \in 1..Len(t) /\ a < a + p[h]
    <3> DEFINE k == p[h]
    <3>1. k \in 1..Len(ch)
      BY <2>1
    <3> HIDE DEF k
    <3>2. a + k \in 1..Len(t) /\ a < a + k
      BY <1>1, <3>1
    <3> QED
      BY <3>2 DEF k
  <2> QED
    BY <1>2, <2>1, <2>2 DEF Is, Q
\* A flag of t is an old one or the flag of a command of b.
<1>7. ASSUME NEW j \in 1..Len(t), j > a
      PROVE  /\ t[j].op = "flag" => \E h \in 1..Len(b) : j = a + p[h]
             /\ t[j].op = "tail" => \E h \in 1..Len(b) :
                  p[h] + a < j /\ t[j].cmd = b[h] /\ t[j].slot = SlotOf(b, h) + 1
             /\ t[j].epoch = epoch
  <2> DEFINE k == j - a
  <2>1. k \in 1..Len(ch) /\ j = a + k
    BY <1>1, <1>7
  <2> HIDE DEF k
  <2>2. t[j] = ch[k]
    BY <1>1, <2>1
  <2>3. \A h \in 1..Len(b) : p[h] \in Nat /\ (p[h] < k => p[h] + a < j)
    BY <1>1, <1>2, <2>1
  <2> QED
    BY <1>2, <2>1, <2>2, <2>3
\* What a command finds before its flag: the slots before its own, all different from it.
<1>8. ASSUME NEW i \in 1..Len(b), NEW l \in LogicalQueues, Q(i) = l
      PROVE  /\ \A x \in 0..(SlotOf(b, i) - 1) : Has(t, (a + p[i]) - 1, l, epoch, x)
             /\ \A j \in 1..((a + p[i]) - 1) :
                  Is("flag", t[j], l, epoch) => t[j].slot # SlotOf(b, i)
  <2>1. p[i] \in Nat \ {0} /\ SlotOf(b, i) \in Nat /\ sender_seq[l] \in Nat
    BY <1>2, <1>3, <1>8
  <2>2. ASSUME NEW x \in 0..(SlotOf(b, i) - 1) PROVE Has(t, (a + p[i]) - 1, l, epoch, x)
    <3>1. CASE x < sender_seq[l]
      <4>1. x \in 0..(sender_seq[l] - 1)
        BY <2>1, <3>1
      <4>2. Has(s, a, l, epoch, x)
        BY <1>8, <4>1 DEF a, Q
      <4>3. PICK j \in 1..a : Is("flag", s[j], l, epoch) /\ s[j].slot = x
        BY <4>2 DEF Has
      <4>4. j \in 1..((a + p[i]) - 1) /\ t[j] = s[j]
        BY <1>1, <2>1, SMTT(20)
      <4> QED
        BY <4>3, <4>4 DEF Has
    <3>2. CASE x >= sender_seq[l]
      <4>1. x \in sender_seq[l]..(SlotOf(b, i) - 1)
        BY <2>1, <3>2
      <4>2. PICK h \in 1..Len(b) : h < i /\ Q(h) = l /\ SlotOf(b, h) = x
        BY <1>3, <1>8, <4>1
      <4>3. p[h] < p[i] /\ p[h] \in Nat \ {0}
        BY <1>2, <4>2
      <4>4. a + p[h] \in 1..((a + p[i]) - 1)
        <5>1. \A k, y, z \in Nat : 0 < y /\ y < z => k + y \in 1..((k + z) - 1)
          OBVIOUS
        <5>2. a \in Nat /\ p[h] \in Nat /\ 0 < p[h] /\ p[i] \in Nat
          BY <1>1, <2>1, <4>3
        <5> QED
          BY <4>3, <5>1, <5>2
      <4> QED
        BY <1>6, <4>2, <4>4 DEF Has
    <3> QED
      BY <2>1, <3>1, <3>2
  <2>3. ASSUME NEW j \in 1..((a + p[i]) - 1), Is("flag", t[j], l, epoch)
        PROVE  t[j].slot # SlotOf(b, i)
    <3>1. j \in 1..Len(t) /\ j < a + p[i] /\ j \in Nat
      <4> DEFINE m == a + p[i]
      <4>1. m \in 1..Len(t) /\ j \in 1..(m - 1) /\ Len(t) \in Nat
        <5>1. m \in 1..Len(t)
          BY <1>6
        <5>2. j \in 1..(m - 1)
          OBVIOUS
        <5>3. Len(t) \in Nat
          BY LenProperties
        <5> QED
          BY <5>1, <5>2, <5>3
      <4> HIDE DEF m
      <4>2. j \in 1..Len(t) /\ j < m /\ j \in Nat
        BY <4>1
      <4> QED
        BY <4>2 DEF m
    <3>2. CASE j <= a
      <4>1. j \in 1..a /\ t[j] = s[j]
        BY <1>1, <3>1, <3>2
      <4>2. s[j].slot < sender_seq[l] /\ s[j].slot \in Nat
        BY <1>5, <2>3, <4>1 DEF UpTo, a
      <4> QED
        BY <1>3, <1>8, <2>1, <4>1, <4>2
    <3>3. CASE j > a
      <4>1. PICK h \in 1..Len(b) : j = a + p[h]
        BY <1>7, <2>3, <3>1, <3>3 DEF Is
      <4>2. Q(h) = l /\ t[j].slot = SlotOf(b, h)
        BY <1>6, <2>3, <4>1 DEF Is
      <4>3. h < i
        <5>1. p[h] < p[i] /\ p[h] \in Nat
          <6>1. p[h] \in Nat /\ p[i] \in Nat /\ a \in Nat /\ a + p[h] < a + p[i]
            BY <1>1, <1>2, <2>1, <3>1, <4>1
          <6>2. \A x, y, z \in Nat : z + x < z + y => x < y
            OBVIOUS
          <6> QED
            BY <6>1, <6>2
        <5>2. ~(i < h) /\ h # i
          BY <1>2, <2>1, <5>1
        <5> QED
          BY <1>4, <5>2
      <4>4. SlotOf(b, h) < SlotOf(b, i) /\ SlotOf(b, h) \in Nat
        BY <1>3, <1>8, <4>2, <4>3
      <4> QED
        BY <2>1, <4>2, <4>4
    <3> QED
      BY <1>1, <3>1, <3>2, <3>3
  <2> QED
    BY <2>2, <2>3
<1>9. InOrder(t)
  <2> SUFFICES ASSUME NEW i \in 1..Len(t), NEW l \in LogicalQueues, NEW e \in Nat
               PROVE  /\ Is("flag", t[i], l, e) =>
                           /\ \A x \in 0..(t[i].slot - 1) :
                                \E j \in 1..(i - 1) : Is("flag", t[j], l, e) /\ t[j].slot = x
                           /\ \A j \in 1..(i - 1) :
                                Is("flag", t[j], l, e) => t[j].slot # t[i].slot
                      /\ Is("tail", t[i], l, e) =>
                           \E j \in 1..(i - 1) :
                             Is("flag", t[j], l, e) /\ t[j].slot = t[i].slot - 1
    BY DEF InOrder
  <2>1. i \in Nat
    BY <1>1
  <2>2. CASE i <= a
    <3>1. i \in 1..a /\ t[i] = s[i] /\ \A j \in 1..(i - 1) : t[j] = s[j]
      BY <1>1, <2>1, <2>2
    <3>2. /\ Is("flag", s[i], l, e) =>
               /\ \A x \in 0..(s[i].slot - 1) :
                    \E j \in 1..(i - 1) : Is("flag", s[j], l, e) /\ s[j].slot = x
               /\ \A j \in 1..(i - 1) : Is("flag", s[j], l, e) => s[j].slot # s[i].slot
          /\ Is("tail", s[i], l, e) =>
               \E j \in 1..(i - 1) : Is("flag", s[j], l, e) /\ s[j].slot = s[i].slot - 1
      BY <3>1 DEF InOrder, a
    <3> QED
      BY <3>1, <3>2
  <2>3. ASSUME i > a, Is("flag", t[i], l, e)
        PROVE  /\ \A x \in 0..(t[i].slot - 1) :
                    \E j \in 1..(i - 1) : Is("flag", t[j], l, e) /\ t[j].slot = x
               /\ \A j \in 1..(i - 1) : Is("flag", t[j], l, e) => t[j].slot # t[i].slot
    <3>1. PICK h \in 1..Len(b) : i = a + p[h]
      BY <1>7, <2>3 DEF Is
    <3>2. e = epoch /\ Q(h) = l /\ t[i].slot = SlotOf(b, h)
      BY <1>6, <2>3, <3>1 DEF Is
    <3>3. i - 1 = (a + p[h]) - 1
      BY <3>1, Zenon
    <3>4. /\ \A x \in 0..(SlotOf(b, h) - 1) : Has(t, (a + p[h]) - 1, l, epoch, x)
          /\ \A j \in 1..((a + p[h]) - 1) :
               Is("flag", t[j], l, epoch) => t[j].slot # SlotOf(b, h)
      BY <1>8, <3>2
    <3>5. /\ \A x \in 0..(t[i].slot - 1) : Has(t, i - 1, l, e, x)
          /\ \A j \in 1..(i - 1) : Is("flag", t[j], l, e) => t[j].slot # t[i].slot
      BY <3>2, <3>3, <3>4
    <3> QED
      BY <3>5 DEF Has
  <2>4. ASSUME i > a, Is("tail", t[i], l, e)
        PROVE  \E j \in 1..(i - 1) : Is("flag", t[j], l, e) /\ t[j].slot = t[i].slot - 1
    <3>1. PICK h \in 1..Len(b) :
            p[h] + a < i /\ t[i].cmd = b[h] /\ t[i].slot = SlotOf(b, h) + 1
      BY <1>7, <2>4 DEF Is
    <3>2. e = epoch /\ Q(h) = l
      BY <1>7, <2>4, <3>1 DEF Is, Q
    <3>3. p[h] \in Nat \ {0} /\ a + p[h] \in 1..(i - 1)
      BY <1>1, <1>2, <2>1, <3>1, SMTT(20)
    <3>4. t[i].slot - 1 = SlotOf(b, h)
      <4>1. SlotOf(b, h) \in Nat
        BY <1>3, <3>2
      <4> QED
        BY <3>1, <4>1
    <3>5. Is("flag", t[a + p[h]], l, e) /\ t[a + p[h]].slot = t[i].slot - 1
      BY <1>6, <3>2, <3>4
    <3> QED
      BY <3>3, <3>5
  <2> QED
    BY <1>1, <2>1, <2>2, <2>3, <2>4
<1>10. ASSUME NEW l \in LogicalQueues PROVE UpTo(t, l, SeqAfter(b)[l])
  <2> SUFFICES ASSUME NEW i \in 1..Len(t), Is("flag", t[i], l, epoch)
               PROVE  t[i].slot < SeqAfter(b)[l]
    BY DEF UpTo
  <2>1. i \in Nat /\ sender_seq[l] \in Nat /\ SeqAfter(b)[l] \in Nat
        /\ sender_seq[l] <= SeqAfter(b)[l]
    BY <1>1, <1>3
  <2>2. CASE i <= a
    <3>1. i \in 1..a /\ t[i] = s[i]
      BY <1>1, <2>1, <2>2
    <3>2. s[i].slot < sender_seq[l] /\ s[i].slot \in Nat
      BY <1>5, <3>1 DEF UpTo, a
    <3>3. \A x, y, z \in Nat : x < y /\ y <= z => x < z
      OBVIOUS
    <3> QED
      BY <2>1, <3>1, <3>2, <3>3
  <2>3. CASE i > a
    <3>1. PICK h \in 1..Len(b) : i = a + p[h]
      BY <1>7, <2>3 DEF Is
    <3>2. Q(h) = l /\ t[i].slot = SlotOf(b, h)
      BY <1>6, <3>1 DEF Is
    <3> QED
      BY <1>3, <3>2
  <2> QED
    BY <1>1, <2>1, <2>2, <2>3
<1>11. ASSUME NEW l \in LogicalQueues, NEW x \in sender_seq[l]..(SeqAfter(b)[l] - 1)
       PROVE  Has(t, Len(t), l, epoch, x)
  <2>1. PICK h \in 1..Len(b) : Q(h) = l /\ SlotOf(b, h) = x
    BY <1>3
  <2> QED
    BY <1>6, <2>1 DEF Has
<1> QED
  BY <1>9, <1>10, <1>11

\* Commands of one logical queue go to one QP, the copies the proxy fetched of them too.
LEMMA OneRoute ==
    ASSUME QueueHasOneQP, NEW c \in Cmds, NEW d \in Cmds, LogicalQueue(c) = LogicalQueue(d)
    PROVE  RouteQp(c) = RouteQp(d)
<1>1. \A x, e : LogicalQueue(Of(x, e)) = LogicalQueue(x) /\ RouteQp(Of(x, e)) = RouteQp(x)
  BY DEF Of, LogicalQueue, RouteQp
<1>2. \A y \in Cmds : \E x \in UNION Kernels : \E e \in Nat : y = Of(x, e)
  BY DEF Cmds
<1>3. PICK x \in UNION Kernels : LogicalQueue(x) = LogicalQueue(c) /\ RouteQp(x) = RouteQp(c)
  BY <1>1, <1>2
<1>4. PICK y \in UNION Kernels : LogicalQueue(y) = LogicalQueue(d) /\ RouteQp(y) = RouteQp(d)
  BY <1>1, <1>2
<1> QED
  BY <1>3, <1>4 DEF QueueHasOneQP

\* Slots in the next state, the configuration being the same.
LEMMA SlotsThen ==
    ASSUME cfg' = cfg,
           \A q \in QPs : InOrder(posted'[q]),
           \A q \in QPs : \A i \in 1..Len(posted'[q]) :
             /\ posted'[q][i].epoch <= epoch'
             /\ Transfer(posted'[q][i]) => RouteQp(posted'[q][i].cmd) = q,
           \A q \in QPs : \A i \in 1..Len(posted'[q]) : \A l \in LogicalQueues :
             Is("flag", posted'[q][i], l, epoch') => posted'[q][i].slot < sender_seq'[l],
           \A l \in LogicalQueues : \A x \in 0..(sender_seq'[l] - 1) :
             \E q \in QPs : \E i \in 1..Len(posted'[q]) :
               Is("flag", posted'[q][i], l, epoch') /\ posted'[q][i].slot = x
    PROVE  Slots'
<1>1. /\ QPs' = QPs /\ LogicalQueues' = LogicalQueues
      /\ TotalLogicalQueues' = TotalLogicalQueues
  BY CfgKept DEF TotalLogicalQueues, GlobalNumQPs, LogicalQueuesPerQP
<1>2. GlobalNumQPs' = GlobalNumQPs /\ QpBase' = QpBase /\ ChannelizeGpuPeers' = ChannelizeGpuPeers
  BY DEF GlobalNumQPs, QpBase, ChannelizeGpuPeers
<1>3. \A q \in QPs : InOrder(posted[q])'
  <2>1. \A op, w, l, e : Is(op, w, l, e)' <=> Is(op, w, l, e)
    BY <1>1 DEF Is, LogicalQueue
  <2>2. \A s : InOrder(s)' <=> InOrder(s)
    BY <1>1, <2>1 DEF InOrder
  <2>3. \A q \in QPs : \A s : s = posted'[q] => InOrder(s)'
    BY <2>2
  <2> QED
    BY <2>3
<1>4. \A q \in QPs : \A i \in 1..Len(posted'[q]) :
        (posted[q][i].epoch <= epoch /\ (Transfer(posted[q][i]) => RouteQp(posted[q][i].cmd) = q))'
  BY <1>2 DEF Transfer, RouteQp
<1>5. \A q \in QPs : \A i \in 1..Len(posted'[q]) : \A l \in LogicalQueues :
        (Is("flag", posted[q][i], l, epoch) => posted[q][i].slot < sender_seq[l])'
  BY <1>1 DEF Is, LogicalQueue
<1>6. \A l \in LogicalQueues : \A x \in 0..(sender_seq'[l] - 1) :
        \E q \in QPs : \E i \in 1..Len(posted'[q]) :
          (Is("flag", posted[q][i], l, epoch) /\ posted[q][i].slot = x)'
  BY <1>1 DEF Is, LogicalQueue
<1> QED
  BY <1>1, <1>3, <1>4, <1>5, <1>6 DEF Slots

\* A chain posted whole, of commands that are routed to its QP.
LEMMA SlotsAfterChain ==
    ASSUME TypeOK, cfg' = cfg, epoch' = epoch, posted' \in [QPs -> Seq(Wrs)],
           UseArrivalQueue, QueueHasOneQP, Slots, NEW q \in QPs, NEW b \in Seq(Cmds), Whole(q, b),
           \A i \in 1..Len(b) : RouteQp(b[i]) = q, sender_seq' = SeqAfter(b)
    PROVE  Slots'
<1> DEFINE s == posted[q]
           t == posted'[q]
<1>1. PICK ch, n, p : Chained(ch, b, n, p) /\ Longer(s, t, ch, Len(ch))
  BY DEF Whole
<1>2. \A r \in QPs : r # q => posted'[r] = posted[r]
  BY DEF Whole
<1>3. s \in Seq(Wrs) /\ t \in Seq(Wrs) /\ InOrder(s)
  BY DEF TypeOK, Slots
<1>4. \A l \in LogicalQueues : UpTo(s, l, sender_seq[l])
  BY DEF UpTo, Slots
<1>5. ASSUME NEW i \in 1..Len(b), NEW l \in LogicalQueues, LogicalQueue(b[i]) = l,
             NEW x \in 0..(sender_seq[l] - 1)
      PROVE  Has(s, Len(s), l, epoch, x)
  <2>1. PICK r \in QPs : \E j \in 1..Len(posted[r]) :
          Is("flag", posted[r][j], l, epoch) /\ posted[r][j].slot = x
    BY DEF Slots
  <2>2. PICK j \in 1..Len(posted[r]) : Is("flag", posted[r][j], l, epoch) /\ posted[r][j].slot = x
    BY <2>1
  <2>3. posted[r] \in Seq(Wrs)
    BY DEF TypeOK
  <2>4. posted[r][j].cmd \in Cmds /\ b[i] \in Cmds
    <3>1. posted[r][j] \in Wrs
      BY <2>3, ElementOfSeq
    <3> QED
      BY <3>1, ElementOfSeq DEF Wrs
  <2>5. RouteQp(posted[r][j].cmd) = r
    BY <2>2 DEF Slots, Transfer, Is
  <2>6. RouteQp(posted[r][j].cmd) = RouteQp(b[i])
    BY <1>5, <2>2, <2>4, OneRoute DEF Is
  <2>7. r = q
    BY <2>5, <2>6
  <2> QED
    BY <2>2, <2>7 DEF Has
<1>6. /\ InOrder(t)
      /\ \A l \in LogicalQueues : UpTo(t, l, SeqAfter(b)[l])
      /\ \A l \in LogicalQueues : \A x \in sender_seq[l]..(SeqAfter(b)[l] - 1) :
           Has(t, Len(t), l, epoch, x)
  <2> HIDE DEF s, t
  <2> QED
    BY <1>1, <1>3, <1>4, <1>5, ChainInOrder
<1>7. \A l \in LogicalQueues : /\ sender_seq[l] \in Nat /\ SeqAfter(b)[l] \in Nat
                               /\ sender_seq[l] <= SeqAfter(b)[l]
  BY SlotsTaken
<1>8. /\ Len(s) \in Nat /\ Len(t) \in Nat /\ Len(t) = Len(s) + Len(ch) /\ Len(ch) \in Nat
      /\ \A i \in 1..Len(s) : t[i] = s[i] /\ i \in 1..Len(t)
      /\ \A k \in 1..Len(ch) : t[Len(s) + k] = ch[k]
  <2>1. /\ Len(s) \in Nat /\ Len(ch) \in Nat /\ Len(t) = Len(s) + Len(ch)
        /\ \A i \in 1..Len(s) : t[i] = s[i]
        /\ \A k \in 1..Len(ch) : t[Len(s) + k] = ch[k]
    BY <1>1, <1>3, LenProperties DEF Chained, Longer
  <2>2. \A i \in 1..Len(s) : i \in 1..Len(t)
    <3> DEFINE m == Len(s)
               N == Len(t)
               k == Len(ch)
    <3>1. m \in Nat /\ k \in Nat /\ N = m + k
      BY <2>1
    <3> HIDE DEF m, N, k
    <3>2. \A i \in 1..m : i \in 1..N
      BY <3>1
    <3> QED
      BY <3>2 DEF m, N
  <2>3. Len(t) \in Nat
    BY <1>3, LenProperties
  <2> HIDE DEF s, t
  <2> QED
    BY <2>1, <2>2, <2>3
<1>9. ASSUME NEW r \in QPs PROVE InOrder(posted'[r])
  BY <1>2, <1>6 DEF Slots
<1>10. ASSUME NEW r \in QPs, NEW i \in 1..Len(posted'[r])
       PROVE  /\ posted'[r][i].epoch <= epoch
              /\ Transfer(posted'[r][i]) => RouteQp(posted'[r][i].cmd) = r
  <2>1. CASE r # q
    BY <1>2, <2>1 DEF Slots
  <2>2. CASE r = q /\ i \in 1..Len(s)
    BY <1>8, <2>2 DEF Slots
  <2>3. CASE r = q /\ i \notin 1..Len(s)
    <3>1. PICK k \in 1..Len(ch) : i = Len(s) + k
      <4>1. i \in 1..Len(t) /\ i \notin 1..Len(s)
        BY <2>3
      <4> DEFINE m == Len(s)
                 k == i - m
      <4> HIDE DEF s, t
      <4>2. m \in Nat /\ Len(t) = m + Len(ch) /\ Len(ch) \in Nat /\ i \in 1..Len(t) /\ i \notin 1..m
        BY <1>8, <4>1
      <4> HIDE DEF m
      <4>3. k \in 1..Len(ch) /\ i = m + k
        BY <4>2
      <4> QED
        BY <4>3 DEF m
    <3>2. t[i] = ch[k]
      BY <1>8, <3>1
    <3>3. ch[k].epoch = epoch /\ \E h \in 1..Len(b) : ch[k].cmd = b[h]
      BY <1>1 DEF Chained
    <3>4. epoch <= epoch
      BY DEF TypeOK
    <3> QED
      BY <2>3, <3>2, <3>3, <3>4
  <2> QED
    BY <2>1, <2>2, <2>3
<1>11. ASSUME NEW r \in QPs, NEW i \in 1..Len(posted'[r]), NEW l \in LogicalQueues,
              Is("flag", posted'[r][i], l, epoch)
       PROVE  posted'[r][i].slot < SeqAfter(b)[l]
  <2>1. CASE r = q
    BY <1>6, <1>11, <2>1 DEF UpTo
  <2>2. CASE r # q
    <3>1. i \in 1..Len(posted[r]) /\ posted'[r][i] = posted[r][i]
      BY <1>2, <2>2
    <3>2. posted[r][i].slot < sender_seq[l]
      BY <1>11, <3>1 DEF Slots
    <3>3. posted[r][i].slot \in Nat
      <4>1. posted[r] \in Seq(Wrs)
        BY DEF TypeOK
      <4>2. posted[r][i] \in Wrs
        BY <3>1, <4>1, ElementOfSeq
      <4> QED
        BY <4>2 DEF Wrs
    <3>4. \A x, y, z \in Nat : x < y /\ y <= z => x < z
      OBVIOUS
    <3> QED
      BY <1>7, <3>1, <3>2, <3>3, <3>4
  <2> QED
    BY <2>1, <2>2
<1>12. ASSUME NEW l \in LogicalQueues, NEW x \in 0..(SeqAfter(b)[l] - 1)
       PROVE  \E r \in QPs : \E i \in 1..Len(posted'[r]) :
                Is("flag", posted'[r][i], l, epoch) /\ posted'[r][i].slot = x
  <2>1. x \in 0..(sender_seq[l] - 1) \/ x \in sender_seq[l]..(SeqAfter(b)[l] - 1)
    BY <1>7
  <2>2. CASE x \in 0..(sender_seq[l] - 1)
    <3>1. PICK r \in QPs : \E j \in 1..Len(posted[r]) :
            Is("flag", posted[r][j], l, epoch) /\ posted[r][j].slot = x
      BY <2>2 DEF Slots
    <3>2. PICK j \in 1..Len(posted[r]) :
            Is("flag", posted[r][j], l, epoch) /\ posted[r][j].slot = x
      BY <3>1
    <3>3. j \in 1..Len(posted'[r]) /\ posted'[r][j] = posted[r][j]
      BY <1>2, <1>8
    <3> QED
      BY <3>2, <3>3
  <2>3. CASE x \in sender_seq[l]..(SeqAfter(b)[l] - 1)
    BY <1>6, <2>3 DEF Has
  <2> QED
    BY <2>1, <2>2, <2>3
<1>13. /\ \A r \in QPs : \A i \in 1..Len(posted'[r]) :
            /\ posted'[r][i].epoch <= epoch'
            /\ Transfer(posted'[r][i]) => RouteQp(posted'[r][i].cmd) = r
       /\ \A r \in QPs : \A i \in 1..Len(posted'[r]) : \A l \in LogicalQueues :
            Is("flag", posted'[r][i], l, epoch') => posted'[r][i].slot < sender_seq'[l]
       /\ \A l \in LogicalQueues : \A x \in 0..(sender_seq'[l] - 1) :
            \E r \in QPs : \E i \in 1..Len(posted'[r]) :
              Is("flag", posted'[r][i], l, epoch') /\ posted'[r][i].slot = x
  <2>1. \A r \in QPs : \A i \in 1..Len(posted'[r]) :
          /\ posted'[r][i].epoch <= epoch'
          /\ Transfer(posted'[r][i]) => RouteQp(posted'[r][i].cmd) = r
    BY <1>10
  <2>2. \A r \in QPs : \A i \in 1..Len(posted'[r]) : \A l \in LogicalQueues :
          Is("flag", posted'[r][i], l, epoch') => posted'[r][i].slot < sender_seq'[l]
    BY <1>11
  <2>3. \A l \in LogicalQueues : \A x \in 0..(sender_seq'[l] - 1) :
          \E r \in QPs : \E i \in 1..Len(posted'[r]) :
            Is("flag", posted'[r][i], l, epoch') /\ posted'[r][i].slot = x
    BY <1>12
  <2> QED
    BY <2>1, <2>2, <2>3
<1> QED
  BY <1>9, <1>13, SlotsThen

\* Barrier writes take no slots.
LEMMA SlotsAfterBarriers ==
    ASSUME TypeOK, cfg' = cfg, UNCHANGED <<epoch, sender_seq>>, Slots,
           posted' \in [QPs -> Seq(Wrs)],
           \A r \in QPs : \A i \in 1..Len(posted[r]) :
             posted'[r][i] = posted[r][i] /\ i \in 1..Len(posted'[r]),
           \A r \in QPs : \A i \in 1..Len(posted'[r]) :
             i \in 1..Len(posted[r]) \/ (posted'[r][i].op = "barrier" /\ posted'[r][i].epoch = epoch)
    PROVE  Slots'
<1>1. ASSUME NEW r \in QPs PROVE InOrder(posted'[r])
  <2> DEFINE s == posted[r]
             t == posted'[r]
  <2>1. /\ InOrder(s) /\ Len(s) \in Nat /\ Len(t) \in Nat
        /\ \A i \in 1..Len(s) : t[i] = s[i] /\ i \in 1..Len(t)
        /\ \A i \in 1..Len(t) : i \in 1..Len(s) \/ t[i].op = "barrier"
    BY LenProperties DEF TypeOK, Slots
  <2> HIDE DEF s, t
  <2> SUFFICES ASSUME NEW i \in 1..Len(t), NEW l \in LogicalQueues, NEW e \in Nat,
                      Is("flag", t[i], l, e) \/ Is("tail", t[i], l, e)
               PROVE  /\ Is("flag", t[i], l, e) =>
                           /\ \A x \in 0..(t[i].slot - 1) :
                                \E j \in 1..(i - 1) : Is("flag", t[j], l, e) /\ t[j].slot = x
                           /\ \A j \in 1..(i - 1) :
                                Is("flag", t[j], l, e) => t[j].slot # t[i].slot
                      /\ Is("tail", t[i], l, e) =>
                           \E j \in 1..(i - 1) :
                             Is("flag", t[j], l, e) /\ t[j].slot = t[i].slot - 1
    BY DEF InOrder, t
  <2>2. i \in 1..Len(s)
    BY <2>1 DEF Is
  <2>3. t[i] = s[i] /\ \A j \in 1..(i - 1) : t[j] = s[j]
    <3>1. \A j \in 1..(i - 1) : j \in 1..Len(s)
      BY <2>1, <2>2
    <3> QED
      BY <2>1, <2>2, <3>1
  <2>4. Is("flag", s[i], l, e) =>
          /\ \A x \in 0..(s[i].slot - 1) :
               \E j \in 1..(i - 1) : Is("flag", s[j], l, e) /\ s[j].slot = x
          /\ \A j \in 1..(i - 1) : Is("flag", s[j], l, e) => s[j].slot # s[i].slot
    BY <2>1, <2>2 DEF InOrder
  <2>5. Is("tail", s[i], l, e) =>
          \E j \in 1..(i - 1) : Is("flag", s[j], l, e) /\ s[j].slot = s[i].slot - 1
    BY <2>1, <2>2 DEF InOrder
  <2> QED
    BY <2>3, <2>4, <2>5
<1>2. \A r \in QPs : \A i \in 1..Len(posted'[r]) :
        /\ posted'[r][i].epoch <= epoch'
        /\ Transfer(posted'[r][i]) => RouteQp(posted'[r][i].cmd) = r
  <2>1. epoch <= epoch
    BY DEF TypeOK
  <2> QED
    BY <2>1 DEF Slots, Transfer
<1>3. \A r \in QPs : \A i \in 1..Len(posted'[r]) : \A l \in LogicalQueues :
        Is("flag", posted'[r][i], l, epoch') => posted'[r][i].slot < sender_seq'[l]
  BY DEF Slots, Is
<1>4. ASSUME NEW l \in LogicalQueues, NEW x \in 0..(sender_seq'[l] - 1)
      PROVE  \E r \in QPs : \E i \in 1..Len(posted'[r]) :
               Is("flag", posted'[r][i], l, epoch') /\ posted'[r][i].slot = x
  <2>1. PICK r \in QPs : \E i \in 1..Len(posted[r]) :
          Is("flag", posted[r][i], l, epoch) /\ posted[r][i].slot = x
    BY DEF Slots
  <2>2. PICK i \in 1..Len(posted[r]) : Is("flag", posted[r][i], l, epoch) /\ posted[r][i].slot = x
    BY <2>1
  <2>3. posted'[r][i] = posted[r][i] /\ i \in 1..Len(posted'[r])
    OBVIOUS
  <2> QED
    BY <2>2, <2>3
<1> QED
  BY <1>1, <1>2, <1>3, <1>4, SlotsThen

\* A new epoch starts with every queue at slot 0.
LEMMA SlotsAfterCommit ==
    ASSUME TypeOK, Slots, CommitEpoch
    PROVE  Slots'
<1>1. /\ cfg' = cfg /\ epoch' = epoch + 1 /\ sender_seq' = [l \in LogicalQueues |-> 0]
      /\ posted' = posted /\ epoch \in Nat
  BY DEF CommitEpoch, TypeOK, nic
<1>2. \A r \in QPs : InOrder(posted'[r])
  BY <1>1 DEF Slots
<1>3. \A r \in QPs : \A i \in 1..Len(posted'[r]) : posted[r][i].epoch \in Nat
  <2> SUFFICES ASSUME NEW r \in QPs, NEW i \in 1..Len(posted[r]) PROVE posted[r][i].epoch \in Nat
    BY <1>1
  <2>1. posted[r] \in Seq(Wrs)
    BY DEF TypeOK
  <2>2. posted[r][i] \in Wrs
    BY <2>1, ElementOfSeq
  <2> QED
    BY <2>2 DEF Wrs
<1>4. \A m \in Nat : m <= epoch => m <= epoch + 1 /\ m # epoch + 1
  BY <1>1
<1>5. \A r \in QPs : \A i \in 1..Len(posted'[r]) :
        /\ posted'[r][i].epoch <= epoch' /\ posted'[r][i].epoch # epoch'
        /\ Transfer(posted'[r][i]) => RouteQp(posted'[r][i].cmd) = r
  <2> TAKE r \in QPs
  <2> TAKE i \in 1..Len(posted'[r])
  <2>1. /\ posted[r][i].epoch <= epoch /\ posted[r][i].epoch \in Nat
        /\ Transfer(posted[r][i]) => RouteQp(posted[r][i].cmd) = r
    BY <1>1, <1>3 DEF Slots
  <2> QED
    BY <1>1, <1>4, <2>1
<1>6. \A r \in QPs : \A i \in 1..Len(posted'[r]) : \A l \in LogicalQueues :
        Is("flag", posted'[r][i], l, epoch') => posted'[r][i].slot < sender_seq'[l]
  BY <1>5 DEF Is
<1>7. \A l \in LogicalQueues : 0..(sender_seq'[l] - 1) = {}
  BY <1>1
<1> QED
  BY <1>1, <1>2, <1>5, <1>6, <1>7, SlotsThen

\* Only posting takes slots, and only a new epoch gives them back.
LEMMA SeqMoves ==
    ASSUME TypeOK, [Next]_vars
    PROVE  PostStrided \/ PostBatch \/ CommitEpoch \/ UNCHANGED <<epoch, sender_seq>>
<1>1. CASE QuietActions
  BY <1>1, QuietOnes DEF Quiet, loop
<1>2. CASE StartBatch \/ PostNothing \/ AdvanceTail \/ ProxyPollCq \/ ExitDrain \/ DrainCq
  BY <1>2 DEF StartBatch, PostNothing, AdvanceTail, ProxyPollCq, ExitDrain, DrainCq, loop
<1>3. CASE \/ cpu_head < Len(fifo) /\ Collect(fifo[cpu_head + 1])
           \/ (\E k \in Kernels : Launch(k)) \/ (\E c \in todo : Push(c))
           \/ Prepared \/ (\E q \in QPs : Execute(q))
  BY <1>3 DEF Collect, Polls, Launch, Push, Prepared, Execute, loop
<1> QED
  BY <1>1, <1>2, <1>3, Actions DEF LoudActions

\* Every step keeps the slots in order.
LEMMA SlotStep ==
    ASSUME TypeOK, TypeOK', CollectInv, PhaseInv, CqInv, OnceInv, NothingRefused, SlotInv,
           [Next]_vars
    PROVE  SlotInv'
<1>0. cfg' = cfg /\ QPs' = QPs /\ Wrs' = Wrs
      /\ UseArrivalQueue' = UseArrivalQueue /\ QueueHasOneQP' = QueueHasOneQP
  BY CfgSame, CfgKept
<1> SUFFICES ASSUME UseArrivalQueue, QueueHasOneQP PROVE Slots'
  BY <1>0 DEF SlotInv
<1>1. Slots
  BY DEF SlotInv
<1>2. posted' \in [QPs -> Seq(Wrs)]
  BY <1>0 DEF TypeOK
<1>3. Routed
  BY DEF Routed
<1>4. batch \in Seq(Cmds) /\ batch_qp \in QPs /\ \A i \in 1..Len(batch) : RouteQp(batch[i]) = batch_qp
  BY <1>3 DEF TypeOK, CollectInv
<1>5. ASSUME posted' = posted, UNCHANGED <<epoch, sender_seq>> PROVE Slots'
  BY <1>0, <1>1, <1>2, <1>5, SlotsAfterBarriers
<1>6. CASE PostBatch
  <2>1. Whole(batch_qp, batch) /\ epoch' = epoch /\ sender_seq' = SeqAfter(batch)
    BY <1>6, BatchWhole DEF PostBatch
  <2> QED
    BY <1>0, <1>1, <1>2, <1>4, <2>1, SlotsAfterChain
<1>7. CASE PostStrided
  <2>1. PICK i \in 1..Len(batch) :
          \/ posted' = posted /\ sender_seq' = sender_seq
          \/ Whole(batch_qp, <<batch[i]>>) /\ sender_seq' = SeqAfter(<<batch[i]>>)
    BY <1>7, StridedWhole
  <2>2. epoch' = epoch
    BY <1>7 DEF PostStrided
  <2>3. CASE Whole(batch_qp, <<batch[i]>>) /\ sender_seq' = SeqAfter(<<batch[i]>>)
    <3> DEFINE b == <<batch[i]>>
    <3>1. batch[i] \in Cmds /\ RouteQp(batch[i]) = batch_qp
      BY <1>4, ElementOfSeq
    <3>2. b \in Seq(Cmds) /\ \A h \in 1..Len(b) : b[h] = batch[i]
      BY <3>1
    <3>3. Whole(batch_qp, b) /\ sender_seq' = SeqAfter(b)
      BY <2>3
    <3> HIDE DEF b
    <3>4. \A h \in 1..Len(b) : RouteQp(b[h]) = batch_qp
      BY <3>1, <3>2
    <3> QED
      BY <1>0, <1>1, <1>2, <1>4, <2>2, <3>2, <3>3, <3>4, SlotsAfterChain
  <2> QED
    BY <1>5, <2>1, <2>2, <2>3
<1>8. CASE CommitEpoch
  BY <1>1, <1>8, SlotsAfterCommit
<1>9. CASE UNCHANGED <<epoch, sender_seq>>
  <2>1. CASE Keeps \/ StartBatch \/ AdvanceTail
    BY <1>5, <1>9, <2>1 DEF Keeps, StartBatch, AdvanceTail, nic
  <2>2. CASE cpu_head < Len(fifo) /\ Collect(fifo[cpu_head + 1])
    <3> DEFINE c == fifo[cpu_head + 1]
    <3>1. c \in Cmds /\ Collect(c)
      <4>1. cpu_head + 1 \in 1..Len(fifo) /\ fifo \in Seq(Cmds)
        BY <2>2, LenProperties DEF TypeOK
      <4> QED
        BY <2>2, <4>1, ElementOfSeq
    <3> HIDE DEF c
    <3>2. CASE CollectNothing(c) \/ CollectWrite(c) \/ CollectStash(c)
      BY <1>5, <1>9, <3>2 DEF CollectNothing, CollectWrite, CollectStash, nic
    <3>3. CASE CollectBarrier(c)
      <4> DEFINE x == Wr("barrier", c, 0, 1)
      <4>1. PostStageBarrier(c)
        BY <3>3 DEF CollectBarrier
      <4>2. x \in Wrs /\ x.op = "barrier" /\ x.epoch = epoch
        BY <3>1, WrFacts
      <4>3. \A r \in QPs : posted'[r] = posted[r] \/ posted'[r] = Append(posted[r], x)
        BY <1>0, <3>1, <4>1, BarrierAdds
      <4> HIDE DEF x
      <4>4. ASSUME NEW r \in QPs
            PROVE  /\ \A i \in 1..Len(posted[r]) :
                        posted'[r][i] = posted[r][i] /\ i \in 1..Len(posted'[r])
                   /\ \A i \in 1..Len(posted'[r]) : i \in 1..Len(posted[r]) \/ posted'[r][i] = x
        <5> DEFINE s == posted[r]
                   t == posted'[r]
        <5>1. s \in Seq(Wrs) /\ (t = s \/ t = Append(s, x))
          BY <4>3 DEF TypeOK
        <5> HIDE DEF s, t
        <5>2. /\ \A i \in 1..Len(s) : t[i] = s[i] /\ i \in 1..Len(t)
              /\ \A i \in 1..Len(t) : i \in 1..Len(s) \/ t[i] = x
          BY <4>2, <5>1
        <5> QED
          BY <5>2 DEF s, t
      <4> QED
        BY <1>0, <1>1, <1>2, <1>9, <4>2, <4>4, SlotsAfterBarriers
    <3> QED
      BY <3>1, <3>2, <3>3 DEF Collect
  <2> QED
    BY <1>6, <1>7, <2>1, <2>2, HandMoves
<1> QED
  BY <1>6, <1>7, <1>8, <1>9, SeqMoves

\* The slots of a logical queue that are filled are those before some slot.
LEMMA SlotsAreDense ==
    ASSUME TypeOK, CqInv, SlotInv, QueueHasOneQP PROVE ArrivalSlotsDense
<1> SUFFICES ASSUME UseArrivalQueue, NEW l \in LogicalQueues, NEW e \in 1..epoch
             PROVE  LET of(op) == {w \in AllExecuted : w.op = op /\ w.epoch = e
                                                        /\ LogicalQueue(w.cmd) = l}
                    IN  /\ {w.slot : w \in of("flag")} = 0..(Cardinality(of("flag")) - 1)
                        /\ \A w \in of("tail") : w.slot <= Cardinality(of("flag"))
  BY DEF ArrivalSlotsDense
<1> DEFINE F == {w \in AllExecuted : w.op = "flag" /\ w.epoch = e /\ LogicalQueue(w.cmd) = l}
           T == {w \in AllExecuted : w.op = "tail" /\ w.epoch = e /\ LogicalQueue(w.cmd) = l}
           D == {w.slot : w \in F}
<1>1. Slots /\ e \in Nat
  BY DEF SlotInv, TypeOK
\* A flag or tail of the queue is somewhere on the one QP of the queue.
<1>2. ASSUME NEW w \in F \cup T
      PROVE  \E q \in QPs : \E i \in 1..done[q] :
               w = posted[q][i] /\ i \in 1..Len(posted[q]) /\ w \in Wrs /\ RouteQp(w.cmd) = q
  <2>1. PICK q \in QPs : \E i \in 1..done[q] : w = posted[q][i]
    BY DEF AllExecuted, Executed
  <2>2. PICK i \in 1..done[q] : w = posted[q][i]
    BY <2>1
  <2>3. i \in 1..Len(posted[q]) /\ posted[q] \in Seq(Wrs)
    <3>1. done[q] \in Nat /\ done[q] <= Len(posted[q]) /\ Len(posted[q]) \in Nat
          /\ posted[q] \in Seq(Wrs)
      BY LenProperties DEF TypeOK, CqInv
    <3> DEFINE m == Len(posted[q])
               d == done[q]
    <3>2. d \in Nat /\ m \in Nat /\ d <= m /\ i \in 1..d
      BY <3>1
    <3> HIDE DEF m, d
    <3>3. i \in 1..m
      BY <3>2
    <3> QED
      BY <3>1, <3>3 DEF m
  <2>4. w \in Wrs
    BY <2>2, <2>3, ElementOfSeq
  <2>5. RouteQp(w.cmd) = q
    <3>1. Transfer(w)
      BY DEF Transfer
    <3> QED
      BY <1>1, <2>2, <2>3, <3>1 DEF Slots
  <2> QED
    BY <2>2, <2>3, <2>4, <2>5
<1>3. ASSUME NEW q \in QPs, NEW i \in 1..done[q]
      PROVE  done[q] \in Nat /\ i \in Nat /\ i <= done[q] /\ posted[q][i] \in AllExecuted
  <2>1. done[q] \in Nat
    BY DEF TypeOK
  <2>2. posted[q][i] \in AllExecuted
    BY DEF AllExecuted, Executed
  <2> DEFINE d == done[q]
  <2>3. d \in Nat /\ i \in 1..d
    BY <2>1
  <2> HIDE DEF d
  <2>4. i \in Nat /\ i <= d
    BY <2>3
  <2> QED
    BY <2>1, <2>2, <2>4 DEF d
\* Every slot before the one of a flag, or covered by a tail, has its flag.
<1>4. ASSUME NEW w \in F, NEW x \in 0..(w.slot - 1) PROVE x \in D
  <2>1. PICK q \in QPs : \E i \in 1..done[q] : w = posted[q][i] /\ i \in 1..Len(posted[q])
    BY <1>2
  <2>2. PICK i \in 1..done[q] : w = posted[q][i] /\ i \in 1..Len(posted[q])
    BY <2>1
  <2>3. PICK j \in 1..(i - 1) : Is("flag", posted[q][j], l, e) /\ posted[q][j].slot = x
    <3>1. InOrder(posted[q]) /\ Is("flag", posted[q][i], l, e) /\ x \in 0..(posted[q][i].slot - 1)
      BY <1>1, <2>2 DEF Slots, Is
    <3> DEFINE p == posted[q]
    <3>2. InOrder(p) /\ i \in 1..Len(p)
      BY <2>2, <3>1
    <3> HIDE DEF p
    <3>3. Is("flag", p[i], l, e) =>
            \A y \in 0..(p[i].slot - 1) : \E j \in 1..(i - 1) : Is("flag", p[j], l, e) /\ p[j].slot = y
      BY <1>1, <3>2 DEF InOrder
    <3> QED
      BY <3>1, <3>3 DEF p
  <2>4. j \in 1..done[q]
    BY <1>3
  <2> QED
    BY <1>3, <2>3, <2>4 DEF Is
<1>5. ASSUME NEW w \in T PROVE w.slot \in Nat /\ w.slot - 1 \in D
  <2>1. PICK q \in QPs : \E i \in 1..done[q] :
          w = posted[q][i] /\ i \in 1..Len(posted[q]) /\ w \in Wrs
    BY <1>2
  <2>2. PICK i \in 1..done[q] : w = posted[q][i] /\ i \in 1..Len(posted[q]) /\ w \in Wrs
    BY <2>1
  <2>3. PICK j \in 1..(i - 1) : Is("flag", posted[q][j], l, e) /\ posted[q][j].slot = w.slot - 1
    <3>1. InOrder(posted[q]) /\ Is("tail", posted[q][i], l, e)
      BY <1>1, <2>2 DEF Slots, Is
    <3> QED
      BY <1>1, <2>2, <3>1 DEF InOrder
  <2>4. j \in 1..done[q]
    BY <1>3
  <2> QED
    BY <1>3, <2>2, <2>3, <2>4 DEF Is, Wrs
\* Different flags have different slots.
<1>6. ASSUME NEW v \in F, NEW w \in F, v.slot = w.slot PROVE v = w
  <2>1. PICK q \in QPs : \E i \in 1..done[q] :
          v = posted[q][i] /\ i \in 1..Len(posted[q]) /\ v \in Wrs /\ RouteQp(v.cmd) = q
    BY <1>2
  <2>2. PICK i \in 1..done[q] : v = posted[q][i] /\ i \in 1..Len(posted[q])
    BY <2>1
  <2>3. PICK r \in QPs : \E j \in 1..done[r] :
          w = posted[r][j] /\ j \in 1..Len(posted[r]) /\ w \in Wrs /\ RouteQp(w.cmd) = r
    BY <1>2
  <2>4. PICK j \in 1..done[r] : w = posted[r][j] /\ j \in 1..Len(posted[r])
    BY <2>3
  <2>5. q = r
    <3>1. v.cmd \in Cmds /\ w.cmd \in Cmds
      BY <2>1, <2>3 DEF Wrs
    <3> QED
      BY <2>1, <2>3, <3>1, OneRoute
  <2>6. \A a, b \in 1..Len(posted[q]) :
          a \in 1..(b - 1) /\ Is("flag", posted[q][a], l, e) /\ Is("flag", posted[q][b], l, e)
            => posted[q][a].slot # posted[q][b].slot
    <3>1. InOrder(posted[q])
      BY <1>1 DEF Slots
    <3> DEFINE s == posted[q]
    <3>2. \A b \in 1..Len(s) : Is("flag", s[b], l, e) =>
            \A a \in 1..(b - 1) : Is("flag", s[a], l, e) => s[a].slot # s[b].slot
      BY <1>1, <3>1 DEF InOrder
    <3> QED
      BY <3>2
  <2>7. i \in 1..(j - 1) \/ j \in 1..(i - 1) \/ i = j
    BY <1>3
  <2> QED
    BY <1>6, <2>2, <2>4, <2>5, <2>6, <2>7 DEF Is
<1>7. F = {} \/ \E q \in QPs : F \subseteq {posted[q][i] : i \in 1..done[q]}
  <2> SUFFICES ASSUME NEW v \in F
               PROVE  \E q \in QPs : F \subseteq {posted[q][i] : i \in 1..done[q]}
    OBVIOUS
  <2>1. PICK q \in QPs : v \in Wrs /\ RouteQp(v.cmd) = q
    BY <1>2
  <2>2. ASSUME NEW w \in F PROVE w \in {posted[q][i] : i \in 1..done[q]}
    <3>1. PICK r \in QPs : \E j \in 1..done[r] :
            w = posted[r][j] /\ w \in Wrs /\ RouteQp(w.cmd) = r
      BY <1>2
    <3>2. v.cmd \in Cmds /\ w.cmd \in Cmds
      BY <2>1, <3>1 DEF Wrs
    <3>3. q = r
      BY <2>1, <3>1, <3>2, OneRoute
    <3> QED
      BY <3>1, <3>3
  <2> QED
    BY <2>2
<1>8. IsFiniteSet(F)
  <2>1. ASSUME NEW q \in QPs PROVE IsFiniteSet({posted[q][i] : i \in 1..done[q]})
    <3> DEFINE P == posted[q]
               d == done[q]
               I == {P[i] : i \in 1..d}
               f == [i \in 1..d |-> P[i]]
    <3>1. d \in Int /\ 1 \in Int
      BY DEF TypeOK
    <3> HIDE DEF P, d
    <3>2. IsFiniteSet(1..d)
      BY <3>1, FS_Interval
    <3>3. f \in Surjection(1..d, I)
      <4>1. f \in [1..d -> I] /\ \A y \in I : \E i \in 1..d : f[i] = y
        OBVIOUS
      <4> HIDE DEF f, I
      <4> QED
        BY <4>1, Fun_IsSurj
    <3>4. IsFiniteSet(I)
      BY <3>2, <3>3, FS_Surjection
    <3> QED
      BY <3>4 DEF P, d
  <2>2. IsFiniteSet({})
    BY FS_EmptySet
  <2> HIDE DEF F
  <2> QED
    BY <1>7, <2>1, <2>2, FS_Subset
<1>9. \A w \in F : w.slot \in Nat
  <2> TAKE w \in F
  <2>1. w \in Wrs
    BY <1>2
  <2> QED
    BY <2>1 DEF Wrs
<1>10. D \in SUBSET Nat
  BY <1>9
<1>11. IsFiniteSet(D) /\ Cardinality(D) = Cardinality(F)
  <2> DEFINE f == [w \in F |-> w.slot]
  <2>1. f \in [F -> D] /\ (\A v, w \in F : f[v] = f[w] => v = w) /\ \A x \in D : \E w \in F : f[w] = x
    BY <1>6
  <2> HIDE DEF f, F, D
  <2>2. f \in Bijection(F, D)
    BY <2>1, Fun_IsBij
  <2> QED
    BY <1>8, <2>2, FS_Bijection DEF ExistsBijection
<1>12. \A x \in D : \A y \in 0..(x - 1) : y \in D
  BY <1>4
<1> HIDE DEF D, F
<1>13. D = 0..(Cardinality(F) - 1)
  BY <1>10, <1>11, <1>12, NoHole
<1>14. Cardinality(F) \in Nat
  BY <1>8, FS_CardinalityType
<1>15. \A w \in T : w.slot <= Cardinality(F)
  BY <1>5, <1>13, <1>14
<1> QED
  BY <1>13, <1>15 DEF D, F

\* What holds as long as the NIC refuses nothing.
Unrefused == IdleInv /\ WholeInv /\ SlotInv

\* The invariant of a NIC that refuses nothing holds initially.
LEMMA InitUnrefused == Init => Unrefused
<1> SUFFICES ASSUME Init PROVE Unrefused
  OBVIOUS
<1>1. /\ hpc = "idle" /\ ppc = "top" /\ pending = <<>> /\ cpu_head = 0
      /\ \A q \in QPs : posted[q] = <<>>
      /\ \A l \in LogicalQueues : sender_seq[l] = 0
  BY DEF Init
<1>2. Slots
  <2>1. \A q \in QPs : InOrder(posted[q])
    BY <1>1 DEF InOrder
  <2> QED
    BY <1>1, <2>1 DEF Slots
<1> QED
  BY <1>1, <1>2 DEF Unrefused, IdleInv, WholeInv, SlotInv

\* Every step keeps it where nothing is refused.
LEMMA UnrefusedStep ==
    Base /\ Base' /\ OneHand /\ NothingRefused /\ Unrefused /\ [Next]_vars => Unrefused'
<1> SUFFICES ASSUME Base, Base', OneHand, NothingRefused, Unrefused, [Next]_vars PROVE Unrefused'
  OBVIOUS
<1>1. /\ TypeOK /\ CollectInv /\ PhaseInv /\ CqInv /\ OnceInv
      /\ IdleInv /\ WholeInv /\ SlotInv /\ TypeOK'
  BY DEF Base, OneHand, Unrefused
<1> QED
  BY <1>1, IdleStep, WholeStep, SlotStep DEF Unrefused

\* It always holds in a behaviour that refuses nothing.
LEMMA AlwaysUnrefused == Spec /\ []NothingRefused => []Unrefused
  BY AlwaysBase, AlwaysOneHand, InitUnrefused, UnrefusedStep, PTL DEF Spec

\* At the end of an epoch, and of the session, the proxy has nothing in hand and the NIC has
\* carried out all it accepted.
LEMMA BoundaryIdle ==
    ASSUME Base, OneHand, Unrefused, hpc \in {"prepared", "destroyed"}
    PROVE  /\ batch = <<>> /\ cq = <<>>
           /\ \A q \in QPs : done[q] = Len(posted[q])
<1>1. TypeOK /\ PhaseInv /\ CqInv /\ InflightExact /\ IdleInv /\ WholeInv
  BY DEF Base, Unrefused
<1>2. CASE hpc = "prepared"
  <2>1. ppc = "spin" /\ inflight = 0
    BY <1>1, <1>2 DEF PhaseInv, IdleInv
  <2> QED
    BY <1>1, <2>1, NicDone DEF PhaseInv
<1>3. CASE hpc = "destroyed"
  <2>1. ppc = "ended" /\ inflight <= 0
    BY <1>1, <1>3 DEF PhaseInv, IdleInv
  <2> QED
    BY <1>1, <2>1, NicDone DEF PhaseInv
<1> QED
  BY <1>2, <1>3

\* What was polled and not refused is carried out when the proxy comes to rest.
LEMMA QuietAtBoundary == Base /\ OneHand /\ Unrefused => QuiescentWhenPrepared
<1> SUFFICES ASSUME Base, OneHand, Unrefused, DrainsAll, hpc \in {"prepared", "destroyed"}
             PROVE  Quiescent
  BY DEF QuiescentWhenPrepared, DrainedAtBoundary
<1>1. batch = <<>> /\ cq = <<>> /\ \A q \in QPs : done[q] = Len(posted[q])
  BY BoundaryIdle
<1>2. pending = <<>> /\ cpu_head = Len(fifo)
  BY DEF OneHand, DrainInv, Drained
<1>3. ASSUME NEW i \in 1..Len(fifo), Transferable(fifo[i])
      PROVE  \E w \in AllExecuted : w.op = "flag" /\ w.cmd = fifo[i]
  <2>1. Served(fifo[i])
    BY <1>2, <1>3 DEF Unrefused, WholeInv
  <2>2. ~InBatch(fifo[i]) /\ ~InPending(fifo[i])
    BY <1>1, <1>2 DEF InBatch, InPending
  <2>3. PICK q \in QPs : \E j \in 1..Len(posted[q]) :
          posted[q][j].op = "flag" /\ posted[q][j].cmd = fifo[i]
    BY <2>1, <2>2 DEF Served, Flagged
  <2>4. PICK j \in 1..Len(posted[q]) : posted[q][j].op = "flag" /\ posted[q][j].cmd = fifo[i]
    BY <2>3
  <2>5. posted[q][j] \in AllExecuted
    BY <1>1 DEF AllExecuted, Executed
  <2> QED
    BY <2>4, <2>5
<1> QED
  BY <1>1, <1>2, <1>3 DEF Quiescent

\* When the NIC refuses nothing, prepare_epoch returns, and destroy_session has joined the
\* proxy, only when every transfer the kernel pushed is at the peer: drain_proxy polled the
\* FIFO empty, nothing is stashed, and draining inflight_ to 0 took in all that was posted.
THEOREM EpochEndsQuiescent == Spec /\ []NothingRefused => []QuiescentWhenPrepared
  BY QuietAtBoundary, AlwaysBase, AlwaysOneHand, AlwaysUnrefused, PTL

\* One proxy owns all the QPs of the session, and has one for every peer.
CoversPeers ==
    /\ QpBase = 0 /\ NumQPs = GlobalNumQPs
    /\ NumNodes = 2 \/ (ChannelizeGpuPeers /\ NumQPs >= NumNodes - 1)

\* Where the QPs cover the peers, each peer has a QP that carries its barriers.
LEMMA PeerHasBarrierQP ==
    ASSUME cfg \in Configs, CoversPeers, NEW p \in 0..(NumNodes - 2)
    PROVE  \E q \in BarrierQPs : PeerOf(q) = p
<1>1. /\ NumNodes \in Nat \ {0, 1} /\ NumQPs \in Nat \ {0} /\ GlobalNumQPs = NumQPs
      /\ QpBase = 0
  BY CfgFacts DEF CoversPeers
<1>2. CASE NumNodes = 2
  <2>1. BarrierQPs = {0} /\ p = 0
    BY <1>2 DEF BarrierQPs
  <2>2. PeerOf(0) = 0
    <3>1. CASE ~ChannelizeGpuPeers
      BY <3>1 DEF PeerOf
    <3>2. CASE ChannelizeGpuPeers
      <4> DEFINE D == Max({1, GlobalNumQPs \div (NumNodes - 1)})
      <4>1. GlobalNumQPs \div (NumNodes - 1) \in Nat
        BY <1>1, <1>2
      <4>2. D \in {1, GlobalNumQPs \div (NumNodes - 1)} /\ D >= 1
        <5> DEFINE x == GlobalNumQPs \div (NumNodes - 1)
        <5> HIDE DEF x
        <5>1. 1 \in Int /\ x \in Int /\ \E m \in {1, x} : \A y \in {1, x} : y <= m
          BY <4>1 DEF x
        <5>2. Max({1, x}) \in {1, x} /\ \A y \in {1, x} : y <= Max({1, x})
          BY <5>1 DEF Max
        <5> QED
          BY <5>1, <5>2 DEF x
      <4>3. D \in Nat \ {0}
        BY <4>1, <4>2
      <4> HIDE DEF D
      <4>4. (0 + 0) \div D = 0
        BY <4>3
      <4>5. Min({NumNodes - 2, (QpBase + 0) \div D}) = 0
        BY <1>1, <1>2, <4>4, MinOfTwo
      <4> QED
        BY <3>2, <4>5 DEF PeerOf, D
    <3> QED
      BY <3>1, <3>2
  <2> QED
    BY <2>1, <2>2
<1>3. CASE NumNodes # 2
  <2> DEFINE m == NumNodes - 1
             d == NumQPs \div m
  <2>1. ChannelizeGpuPeers /\ m > 1 /\ NumQPs >= m /\ m \in Nat \ {0} /\ p \in 0..(m - 1)
    BY <1>1, <1>3 DEF CoversPeers
  <2>2. BarrierQPs = {x * d : x \in 0..(m - 1)}
    BY <2>1 DEF BarrierQPs
  <2>3. d \in Nat \ {0}
    <3>1. \A a \in Nat, b \in Nat \ {0} : a \div b \in Nat /\ a < b * (a \div b) + b
      BY SMT
    <3> HIDE DEF m
    <3>2. d \in Nat /\ NumQPs < m * d + m
      BY <1>1, <2>1, <3>1
    <3> HIDE DEF d
    <3>3. d # 0
      BY <1>1, <2>1, <3>2
    <3> QED
      BY <3>2, <3>3
  <2>4. Max({1, d}) = d
    <3> HIDE DEF d
    <3>1. d \in {1, d} /\ {1, d} \in SUBSET Int /\ \A y \in {1, d} : y <= d
      BY <2>3
    <3> QED
      BY <3>1, MaxIs
  <2>5. (0 + p * d) \div d = p
    <3>1. \A a \in Nat, b \in Nat \ {0} : (0 + a * b) \div b = a
      BY SMT
    <3> HIDE DEF d, m
    <3> QED
      BY <2>1, <2>3, <3>1
  <2>6. PeerOf(p * d) = Min({NumNodes - 2, p})
    <3>1. Max({1, GlobalNumQPs \div (NumNodes - 1)}) = d
      BY <1>1, <2>4
    <3> HIDE DEF d, m
    <3> QED
      BY <1>1, <2>1, <2>5, <3>1 DEF PeerOf
  <2>7. Min({NumNodes - 2, p}) = p
    BY <1>1, MinOfTwo
  <2> HIDE DEF d
  <2> QED
    BY <2>1, <2>2, <2>6, <2>7
<1> QED
  BY <1>2, <1>3

\* The barriers among it as well.
LEMMA BarriersAtBoundary ==
    Base /\ OneHand /\ Unrefused => (CoversPeers => BarrierReachesEveryPeer)
<1> SUFFICES ASSUME Base, OneHand, Unrefused, CoversPeers, hpc = "prepared",
                    NEW c \in Polled, c.type = "BARRIER_NOTIFY", NEW p \in 0..(NumNodes - 2)
             PROVE  \E q \in QPs :
                      PeerOf(q) = p /\ \E w \in Executed(q) : w.op = "barrier" /\ w.cmd = c
  BY DEF BarrierReachesEveryPeer
<1>1. cfg \in Configs /\ \A q \in QPs : done[q] = Len(posted[q])
  BY BoundaryIdle DEF Base, TypeOK
<1>2. PICK q \in BarrierQPs : PeerOf(q) = p
  BY <1>1, PeerHasBarrierQP
<1>3. q \in QPs
  BY <1>1, BarrierQPsOwned
<1>4. Barred(q, c)
  BY DEF Polled, Unrefused, WholeInv
<1>5. PICK j \in 1..Len(posted[q]) : posted[q][j].op = "barrier" /\ posted[q][j].cmd = c
  BY <1>4 DEF Barred
<1>6. posted[q][j] \in Executed(q)
  BY <1>1, <1>3 DEF Executed
<1> QED
  BY <1>2, <1>3, <1>5, <1>6

\* When the NIC refuses nothing, every peer has the barrier write of every barrier the
\* kernel pushed and the proxy polled, once prepare_epoch has drained the proxy: none of
\* them waits at the next stage barrier for a write that was never posted.
THEOREM BarriersGetThrough ==
    Spec /\ []NothingRefused => [](CoversPeers => BarrierReachesEveryPeer)
  BY BarriersAtBoundary, AlwaysBase, AlwaysOneHand, AlwaysUnrefused, PTL

\* Multiples of g lie at least g apart.
LEMMA Times ==
    ASSUME NEW g \in Nat \ {0}, NEW m \in Int, NEW n \in Int, m < n
    PROVE  g * m + g <= g * n
<1>1. m + 1 <= n /\ g > 0
  OBVIOUS
<1>2. n - (m + 1) \in Nat
  BY <1>1
<1> DEFINE d == n - (m + 1)
<1>3. g * d >= 0
  BY <1>2
<1>4. g * n = g * (m + 1 + d)
  OBVIOUS
<1>5. g * (m + 1 + d) = g * m + g + g * d
  BY <1>2
<1> HIDE DEF d
<1>6. g * d \in Int /\ g * m \in Int
  BY <1>2 DEF d
<1> QED
  BY <1>3, <1>4, <1>5, <1>6

\* A number has one remainder by g.
LEMMA OneRemainder ==
    ASSUME NEW g \in Nat \ {0}, NEW m \in Int, NEW n \in Int, NEW s \in 0..(g - 1), NEW t \in 0..(g - 1),
           g * m + s = g * n + t
    PROVE  s = t
<1>1. ~(m < n)
  <2> SUFFICES ASSUME m < n PROVE FALSE
    OBVIOUS
  <2>1. g * m + g <= g * n
    BY Times
  <2>2. g * m \in Int /\ g * n \in Int
    OBVIOUS
  <2> QED
    BY <2>1, <2>2
<1>2. ~(n < m)
  <2> SUFFICES ASSUME n < m PROVE FALSE
    OBVIOUS
  <2>1. g * n + g <= g * m
    BY Times
  <2>2. g * m \in Int /\ g * n \in Int
    OBVIOUS
  <2> QED
    BY <2>1, <2>2
<1>3. m = n
  BY <1>1, <1>2
<1>4. g * m \in Int
  OBVIOUS
<1> QED
  BY <1>3, <1>4

\* What \div and % promise of each other.
LEMMA Divided ==
    ASSUME NEW a \in Nat, NEW g \in Nat \ {0}
    PROVE  a = g * (a \div g) + (a % g) /\ a \div g \in Int /\ a % g \in 0..(g - 1)
OBVIOUS

\* The remainder by g of the remainder by g * l is the remainder by g.
LEMMA RemainderOfRemainder ==
    ASSUME NEW a \in Nat, NEW g \in Nat \ {0}, NEW l \in Nat \ {0}
    PROVE  (a % (g * l)) % g = a % g
<1> DEFINE gl == g * l
           k == a \div gl
           r == a % gl
           q == r \div g
           s == r % g
           n == a \div g
           t == a % g
<1>1. gl \in Nat \ {0}
  OBVIOUS
<1> HIDE DEF gl
<1>2. a = gl * k + r /\ k \in Int /\ r \in Nat
  BY <1>1, Divided
<1> HIDE DEF k, r
<1>3. r = g * q + s /\ q \in Int /\ s \in 0..(g - 1)
  BY <1>2, Divided
<1>4. a = g * n + t /\ n \in Int /\ t \in 0..(g - 1)
  BY Divided
<1> HIDE DEF q, s, n, t
<1>5. gl * k = g * (l * k) /\ l * k \in Int
  BY <1>2 DEF gl
<1> DEFINE m == l * k
<1> HIDE DEF m
<1>6. g * (m + q) = g * m + g * q /\ m + q \in Int /\ g * m \in Int /\ g * q \in Int
  BY <1>3, <1>5 DEF m
<1>7. g * (m + q) + s = g * n + t
  BY <1>2, <1>3, <1>4, <1>5, <1>6 DEF m
<1>8. s = t
  BY <1>3, <1>4, <1>6, <1>7, OneRemainder
<1> QED
  BY <1>8 DEF s, t, r, gl

\* Where commands are not channelized, the lane gives both the QP, lane % G, and the logical
\* queue, lane % (G * L): a queue has one QP.
LEMMA LaneHasOneQP ==
    ASSUME cfg \in Configs, ~ChannelizeGpuPeers
    PROVE  QueueHasOneQP
<1>1. GlobalNumQPs \in Nat \ {0} /\ LogicalQueuesPerQP \in Nat \ {0}
  BY ConfigAssumption DEF GlobalNumQPs, LogicalQueuesPerQP
<1>2. \A c \in UNION Kernels : c.lane \in Nat
  BY KernelAssumption DEF Kernels
<1>3. ASSUME NEW c \in UNION Kernels
      PROVE  RouteQp(c) = (LogicalQueue(c) % GlobalNumQPs) - QpBase
  <2>1. (c.lane % (GlobalNumQPs * LogicalQueuesPerQP)) % GlobalNumQPs = c.lane % GlobalNumQPs
    BY <1>1, <1>2, RemainderOfRemainder
  <2> QED
    BY <2>1 DEF RouteQp, LogicalQueue, TotalLogicalQueues
<1> QED
  BY <1>3 DEF QueueHasOneQP

\* The proxy fills the arrival slots of a logical queue, within an epoch, from slot 0 without
\* a gap or a repeat, and publishes a tail only after the slots below it, while the NIC
\* refuses nothing and the commands of the queue go over one QP.
THEOREM SlotsStayDense ==
    Spec /\ []NothingRefused => [](QueueHasOneQP => ArrivalSlotsDense)
<1>1. Base /\ Unrefused => (QueueHasOneQP => ArrivalSlotsDense)
  BY SlotsAreDense DEF Base, Unrefused
<1> QED
  BY <1>1, AlwaysBase, AlwaysUnrefused, PTL

-----------------------------------------------------------------------------
\* Where the send queues are deep enough, nothing is refused.

\* The barriers of a kernel, and the WRs they take.
Barriers(k) == {c \in k : c.type = "BARRIER_NOTIFY"}
BarrierWrs(k) == Cardinality(BarrierQPs) * Cardinality(Barriers(k))
\* All the WRs that batches up to the limit and the barriers of an epoch may have outstanding
\* fit into one queue.
Ample ==
    /\ ~DirectDmabuf /\ WrsPerChunk * EffectiveMaxInflight <= QpSqDepth
    /\ \A k \in Kernels :
         IsFiniteSet(k) /\ WrsPerChunk * (EffectiveMaxInflight + BarrierWrs(k)) <= QpSqDepth

\* The barriers of the epoch that were polled.
PolledBarriers == {i \in 1..cpu_head : fifo[i].type = "BARRIER_NOTIFY"}

\* The WRs behind any place of a queue are at most WrsPerChunk for each command still counted.
Backed(s) == \A i \in 0..Len(s) : Len(s) - i <= WrsPerChunk * Remaining(s, i)

\* What waits is pushed by one kernel.
FromKernel(k) ==
    /\ \A c \in todo : \E d \in k : c = Of(d, epoch)
    /\ \A i \in 1..Len(fifo) : \E d \in k : fifo[i] = Of(d, epoch)

\* The collect loop stops while what is counted, with the batch, stays within its limit, so
\* that what is behind any place of a queue does too.
RoomInv ==
    /\ \A q \in QPs : Backed(posted[q])
    /\ strided_posted = 0
    /\ ppc \in {"collect", "strided"} =>
         inflight <= pre_inflight + Cardinality(BarrierQPs) * Cardinality(PolledBarriers)
    /\ ppc \in {"collect", "strided"} /\ batch # <<>> =>
         pre_inflight + Len(batch) <= EffectiveMaxInflight
    /\ (todo = {} /\ fifo = <<>>) \/ \E k \in Kernels : FromKernel(k)

\* A chain of n commands, counted at its end, is at most WrsPerChunk WRs for each of them.
LEMMA BackedLonger ==
    ASSUME NEW s \in Seq(Wrs), NEW t \in Seq(Wrs), NEW ch \in Seq(Wrs), Longer(s, t, ch, Len(ch)),
           NEW n \in Nat, Len(ch) > 0, Len(ch) <= WrsPerChunk * n, Backed(s),
           \A i \in 1..Len(ch) : ch[i].wr_count = IF i = Len(ch) THEN n ELSE 0
    PROVE  Backed(t)
<1>1. WrsPerChunk \in {2, 3}
  BY DEF WrsPerChunk
<1>2. /\ Len(s) \in Nat /\ Len(ch) \in Nat /\ Len(t) = Len(s) + Len(ch)
      /\ Len(ch) \in 0..Len(ch)
  BY LenProperties DEF Longer
<1> SUFFICES ASSUME NEW i \in 0..Len(t) PROVE Len(t) - i <= WrsPerChunk * Remaining(t, i)
  BY DEF Backed
<1>3. Remaining(t, i) \in Nat
  BY RemainingNat
<1>4. CASE i \in 0..Len(s)
  <2>1. Remaining(t, i) = Remaining(s, i) + n
    BY <1>2, <1>4, RemainingLonger
  <2>2. Remaining(s, i) \in Nat
    BY <1>4, RemainingNat
  <2>3. Len(s) - i <= WrsPerChunk * Remaining(s, i)
    BY <1>4 DEF Backed
  <2> DEFINE x == Remaining(s, i)
             y == Remaining(t, i)
  <2> HIDE DEF x, y
  <2>4. y = x + n /\ x \in Nat /\ Len(s) - i <= WrsPerChunk * x
    BY <2>1, <2>2, <2>3 DEF x, y
  <2>5. CASE WrsPerChunk = 2
    <3>1. Len(t) - i <= 2 * y
      BY <1>2, <2>4, <2>5
    <3> QED
      BY <2>5, <3>1 DEF y
  <2>6. CASE WrsPerChunk = 3
    <3>1. Len(t) - i <= 3 * y
      BY <1>2, <2>4, <2>6
    <3> QED
      BY <2>6, <3>1 DEF y
  <2> QED
    BY <1>1, <2>5, <2>6
<1>5. CASE i = Len(t)
  <2> DEFINE y == Remaining(t, i)
  <2>1. Len(t) - i = 0 /\ y \in Nat
    BY <1>2, <1>3, <1>5
  <2> HIDE DEF y
  <2>2. WrsPerChunk * y >= 0
    BY <1>1, <2>1
  <2> QED
    BY <2>1, <2>2 DEF y
<1>6. CASE i \notin 0..Len(s) /\ i # Len(t)
  <2> DEFINE a == Len(s)
             b == Len(t)
  <2>0. a \in Nat /\ b \in Nat /\ i \in 0..b /\ i \notin 0..a /\ i # b
    BY <1>2, <1>6
  <2> HIDE DEF a, b
  <2>1. i > Len(s) /\ i < Len(t)
    <3>1. i > a /\ i < b
      BY <2>0
    <3> QED
      BY <3>1 DEF a, b
  <2> DEFINE T == (i + 1)..Len(t)
             w == Weights(t)
             y == Remaining(t, i)
  <2>2. IsFiniteSet(T) /\ Len(t) \in T /\ T \subseteq 1..Len(t)
    <3>1. i + 1 \in Int /\ Len(t) \in Int
      BY <1>2
    <3>2. IsFiniteSet(T)
      BY <3>1, PartFinite, Zenon
    <3> QED
      BY <1>2, <2>1, <3>2
  <2>3. w[Len(t)] = n
    <3>1. t[Len(s) + Len(ch)] = ch[Len(ch)]
      BY <1>2 DEF Longer
    <3>2. ch[Len(ch)].wr_count = n
      BY <1>2
    <3>3. w[Len(t)] = t[Len(t)].wr_count
      BY <2>2, WeightsAre
    <3> QED
      BY <1>2, <3>1, <3>2, <3>3
  <2>4. \A k \in T : w[k] \in Nat
    BY <2>2, WeightsAre
  <2>5. y = Total(w, T)
    BY DEF Remaining
  <2> HIDE DEF w, T, y
  <2>6. n <= y
    BY <2>2, <2>3, <2>4, <2>5, TotalBounds
  <2>7. y \in Nat
    BY <1>3 DEF y
  <2>8. Len(t) - i <= Len(ch)
    BY <1>2, <2>1
  <2>9. WrsPerChunk * n <= WrsPerChunk * y
    BY <1>1, <2>6, <2>7
  <2>10. WrsPerChunk * n \in Int /\ WrsPerChunk * y \in Int
    BY <1>1, <2>7
  <2>11. Len(t) - i <= WrsPerChunk * y
    BY <1>2, <2>8, <2>9, <2>10
  <2> QED
    BY <2>11 DEF y
<1> QED
  BY <1>4, <1>5, <1>6

\* Different entries of the FIFO are different commands of the kernel.
LEMMA BarriersBounded ==
    ASSUME TypeOK, WaitingInv, NEW k \in Kernels, FromKernel(k), IsFiniteSet(k)
    PROVE  /\ IsFiniteSet(PolledBarriers) /\ Cardinality(PolledBarriers) \in Nat
           /\ Cardinality(Barriers(k)) \in Nat
           /\ Cardinality(PolledBarriers) <= Cardinality(Barriers(k))
<1> DEFINE P == PolledBarriers
           B == Barriers(k)
           f == [i \in P |-> CHOOSE d \in k : fifo[i] = Of(d, epoch)]
<1>1. cpu_head \in Int /\ \A i \in P : i \in 1..Len(fifo) /\ fifo[i].type = "BARRIER_NOTIFY"
  BY LenProperties DEF TypeOK, PolledBarriers
<1>2. IsFiniteSet(P) /\ Cardinality(P) \in Nat
  <2>1. P \in SUBSET (1..cpu_head) /\ 1 \in Int
    BY DEF PolledBarriers
  <2> HIDE DEF P
  <2> QED
    BY <1>1, <2>1, PartFinite
<1>3. IsFiniteSet(B) /\ Cardinality(B) \in Nat
  <2>1. B \in SUBSET k
    BY DEF Barriers
  <2>2. IsFiniteSet(B)
    BY <2>1, FS_Subset
  <2> QED
    BY <2>2, FS_CardinalityType
<1>4. ASSUME NEW i \in P PROVE f[i] \in B /\ fifo[i] = Of(f[i], epoch)
  <2>1. \E d \in k : fifo[i] = Of(d, epoch)
    BY <1>1 DEF FromKernel
  <2>2. f[i] \in k /\ fifo[i] = Of(f[i], epoch)
    BY <2>1
  <2>3. f[i].type = fifo[i].type
    BY <2>2 DEF Of
  <2> QED
    BY <1>1, <2>2, <2>3 DEF Barriers
<1>5. \A i, j \in P : f[i] = f[j] => i = j
  <2> SUFFICES ASSUME NEW i \in P, NEW j \in P, f[i] = f[j] PROVE i = j
    OBVIOUS
  <2> HIDE DEF f
  <2>1. fifo[i] = fifo[j]
    BY <1>4
  <2> QED
    BY <1>1, <2>1 DEF WaitingInv
<1>6. f \in Injection(P, B)
  <2>1. f \in [P -> B]
    BY <1>4
  <2> HIDE DEF f, P, B
  <2> QED
    BY <1>5, <2>1 DEF Injection, IsInjective
<1>7. Cardinality(P) <= Cardinality(B)
  <2> HIDE DEF f, P, B
  <2> QED
    BY <1>3, <1>6, FS_Injection
<1> QED
  BY <1>2, <1>3, <1>7

\* What is outstanding on a QP is at most what is counted in flight.
LEMMA QueueUse ==
    ASSUME TypeOK, CqInv, InflightExact, RoomInv, NEW q \in QPs
    PROVE  /\ inflight \in Nat /\ Len(posted[q]) - freed[q] \in Nat
           /\ Len(posted[q]) - freed[q] <= WrsPerChunk * inflight
<1> DEFINE w == Left(posted, freed, QPs)
           x == Remaining(posted[q], freed[q])
           u == Len(posted[q]) - freed[q]
<1>1. /\ Outstanding = Total(w, QPs) /\ IsFiniteSet(QPs) /\ Total(w, QPs) \in Nat
      /\ \A r \in QPs : w[r] = Remaining(posted[r], freed[r]) /\ w[r] \in Nat
  BY OutstandingIs, LeftNat, CfgFacts DEF TypeOK
<1> HIDE DEF w
<1>2. inflight = Total(w, QPs) /\ inflight \in Nat
  BY <1>1 DEF TypeOK, InflightExact, RoomInv
<1>3. x <= inflight /\ x \in Nat
  BY <1>1, <1>2, TotalBounds
<1>4. freed[q] \in 0..Len(posted[q]) /\ u \in Nat
  <2>1. freed[q] \in Nat /\ done[q] \in Nat /\ Len(posted[q]) \in Nat
    BY LenProperties DEF TypeOK
  <2> QED
    BY <2>1 DEF CqInv
<1>5. u <= WrsPerChunk * x
  BY <1>4 DEF RoomInv, Backed
<1>6. WrsPerChunk \in {2, 3}
  BY DEF WrsPerChunk
<1> HIDE DEF x, u
<1>7. u <= WrsPerChunk * inflight
  <2>1. CASE WrsPerChunk = 2
    BY <1>2, <1>3, <1>4, <1>5, <2>1
  <2>2. CASE WrsPerChunk = 3
    BY <1>2, <1>3, <1>4, <1>5, <2>2
  <2> QED
    BY <1>6, <2>1, <2>2
<1> QED
  BY <1>2, <1>4, <1>7 DEF u

\* The barriers polled fit into what Ample sets aside for them.
LEMMA BarrierBudget ==
    ASSUME TypeOK, WaitingInv, RoomInv, Ample
    PROVE  \E m \in Nat :
             /\ Cardinality(BarrierQPs) * Cardinality(PolledBarriers) <= m
             /\ WrsPerChunk * (EffectiveMaxInflight + m) <= QpSqDepth
<1>1. CASE fifo = <<>>
  <2>1. PolledBarriers = {}
    <3>1. Len(fifo) = 0
      BY <1>1
    <3>2. cpu_head \in 0..0
      BY <3>1 DEF TypeOK
    <3> QED
      BY <3>2 DEF PolledBarriers
  <2>2. Cardinality(PolledBarriers) = 0 /\ Cardinality(BarrierQPs) \in Nat
    BY <2>1, BarrierQPsOwned, CfgFacts, FS_Subset, FS_CardinalityType, FS_EmptySet DEF TypeOK
  <2>3. WrsPerChunk * EffectiveMaxInflight <= QpSqDepth /\ EffectiveMaxInflight \in Int
    BY CeilingIsInt DEF Ample, TypeOK
  <2>4. Cardinality(BarrierQPs) * Cardinality(PolledBarriers) <= 0
    BY <2>2
  <2>5. EffectiveMaxInflight + 0 = EffectiveMaxInflight
    BY <2>3
  <2> QED
    BY <2>3, <2>4, <2>5
<1>2. CASE fifo # <<>>
  <2>1. PICK k \in Kernels : FromKernel(k)
    BY <1>2 DEF RoomInv
  <2>2. IsFiniteSet(k) /\ WrsPerChunk * (EffectiveMaxInflight + BarrierWrs(k)) <= QpSqDepth
    BY DEF Ample
  <2>3. /\ Cardinality(PolledBarriers) \in Nat /\ Cardinality(Barriers(k)) \in Nat
        /\ Cardinality(PolledBarriers) <= Cardinality(Barriers(k))
    BY <2>1, <2>2, BarriersBounded
  <2>4. Cardinality(BarrierQPs) \in Nat
    BY BarrierQPsOwned, CfgFacts, FS_Subset, FS_CardinalityType DEF TypeOK
  <2>5. \A a, b, c \in Nat : b <= c => a * b <= a * c /\ a * c \in Nat
    BY SMT
  <2> QED
    BY <2>2, <2>3, <2>4, <2>5 DEF BarrierWrs
<1> QED
  BY <1>1, <1>2

\* The throttle leaves room in every queue for what is posted next.
LEMMA RoomIsLeft ==
    ASSUME TypeOK, CqInv, CollectInv, InflightExact, WaitingInv, RoomInv, Ample
    PROVE  NothingRefused
<1> DEFINE E == EffectiveMaxInflight
           W == WrsPerChunk
           B == Cardinality(BarrierQPs) * Cardinality(PolledBarriers)
<1>0. \A c : ~Strided(c)
  BY DEF Ample, Strided
<1>1. PICK m \in Nat : B <= m /\ W * (E + m) <= QpSqDepth
  BY BarrierBudget
<1>2. W \in {2, 3} /\ 1 + Tails <= W /\ Tails \in {1, 2}
  BY DEF WrsPerChunk, Tails
<1>3. E \in Int /\ pre_inflight \in Int /\ Len(batch) \in Nat /\ inflight \in Int
      /\ QpSqDepth \in Nat
  BY CeilingIsInt, LenProperties, LimitAssumption DEF TypeOK
<1>4. ppc \in {"collect", "strided"} => inflight <= pre_inflight + m
  <2>1. B \in Int
    <3>1. Cardinality(BarrierQPs) \in Nat
      BY BarrierQPsOwned, CfgFacts, FS_Subset, FS_CardinalityType DEF TypeOK
    <3>2. PolledBarriers \in SUBSET (1..cpu_head) /\ 1 \in Int /\ cpu_head \in Int
      BY LenProperties DEF PolledBarriers, TypeOK
    <3>3. Cardinality(PolledBarriers) \in Nat
      BY <3>2, PartFinite
    <3>4. \A a, b \in Nat : a * b \in Int
      BY SMT
    <3> QED
      BY <3>1, <3>3, <3>4
  <2>2. ppc \in {"collect", "strided"} => inflight <= pre_inflight + B
    BY DEF RoomInv
  <2> HIDE DEF B
  <2> QED
    BY <1>1, <1>3, <2>1, <2>2
<1> HIDE DEF E, W, B
<1>5. ASSUME NEW q \in QPs, NEW n \in Nat, NEW b \in Nat, n <= W * b, inflight + b <= E + m
      PROVE  Fits(q, n)
  <2> DEFINE u == Len(posted[q]) - freed[q]
  <2>1. inflight \in Nat /\ u \in Nat /\ u <= W * inflight
    BY QueueUse DEF W
  <2>2. Room(q) = QpSqDepth - u
    BY DEF Room
  <2> HIDE DEF u
  <2>3. n <= QpSqDepth - u
    <3>1. CASE W = 2
      BY <1>1, <1>3, <1>5, <2>1, <3>1
    <3>2. CASE W = 3
      BY <1>1, <1>3, <1>5, <2>1, <3>2
    <3> QED
      BY <1>2, <3>1, <3>2
  <2> QED
    BY <2>2, <2>3 DEF Fits
<1>6. ASSUME ppc = "strided", batch # <<>> PROVE Fits(batch_qp, Len(Chain(batch)))
  <2>1. batch \in Seq(Cmds) /\ batch_qp \in QPs
    BY DEF TypeOK
  <2>2. Len(Chain(batch)) = (1 + Tails) * Len(batch)
    BY <1>6, <2>1, ChainLayout
  <2>3. Len(Chain(batch)) \in Nat /\ Len(Chain(batch)) <= W * Len(batch)
    <3> DEFINE n == Len(batch)
    <3>1. n \in Nat
      BY <1>3
    <3> HIDE DEF n
    <3>2. (1 + Tails) * n \in Nat /\ (1 + Tails) * n <= W * n
      BY <1>2, <3>1
    <3> QED
      BY <2>2, <3>2 DEF n
  <2>4. pre_inflight + Len(batch) <= E
    BY <1>6 DEF RoomInv, E
  <2>5. inflight + Len(batch) <= E + m
    BY <1>3, <1>4, <1>6, <2>4
  <2> QED
    BY <1>3, <1>5, <2>1, <2>3, <2>5
<1>7. ASSUME ppc = "collect", CanCollect, NEW q \in BarrierQPs PROVE Fits(q, 1)
  <2>1. q \in QPs
    BY BarrierQPsOwned DEF TypeOK
  <2>2. pre_inflight < E
    BY <1>3, <1>7 DEF CanCollect, E
  <2>3. inflight + 1 <= E + m
    BY <1>3, <1>4, <1>7, <2>2
  <2>4. 1 <= W * 1
    BY <1>2
  <2> QED
    BY <1>5, <2>1, <2>3, <2>4
<1> QED
  BY <1>0, <1>6, <1>7 DEF NothingRefused

\* Every step leaves at most WrsPerChunk WRs behind a place for each command counted.
LEMMA BackedStep ==
    ASSUME TypeOK, CqInv, OnceInv, RoomInv, Ample, NothingRefused, [Next]_vars
    PROVE  \A q \in QPs : Backed(posted[q])'
<1>0. cfg' = cfg /\ QPs' = QPs /\ WrsPerChunk' = WrsPerChunk
  BY CfgSame, CfgKept DEF WrsPerChunk, EnableRemoteTail
<1>1. \A s : Backed(s)' <=> Backed(s)
  BY <1>0 DEF Backed, Remaining, Weights, Total, MapThenSumSet, MapThenFoldSet
<1>2. \A q \in QPs : Backed(posted[q]) /\ posted[q] \in Seq(Wrs)
  BY DEF RoomInv, TypeOK
<1>3. WrsPerChunk \in {2, 3} /\ Tails \in {1, 2} /\ 1 + Tails <= WrsPerChunk
  BY DEF WrsPerChunk, Tails
<1> SUFFICES ASSUME NEW q \in QPs, NEW t, t = posted'[q] PROVE Backed(t)
  <2>1. \A q \in QPs : \A t : t = posted'[q] => Backed(t)'
    BY <1>1
  <2> QED
    BY <1>0, <2>1
<1>4. CASE posted' = posted
  BY <1>2, <1>4
<1>5. CASE PostBatch
  <2> DEFINE ch == Chain(batch)
             n == Len(batch)
  <2>1. batch \in Seq(Cmds) /\ batch # <<>> /\ batch_qp \in QPs
    BY <1>5 DEF PostBatch, TypeOK
  <2>2. Signals(ch, n) /\ Fits(batch_qp, Len(ch)) /\ Len(ch) = (1 + Tails) * n
    BY <1>5, <2>1, ChainSignals, ChainLayout DEF NothingRefused, PostBatch
  <2>3. posted' = [posted EXCEPT ![batch_qp] = @ \o SubSeq(ch, 1, Accepts(batch_qp, Len(ch)))]
    BY <1>5 DEF PostBatch
  <2>4. n \in Nat
    BY <2>1, LenProperties
  <2> HIDE DEF ch, n
  <2>5. /\ ch \in Seq(Wrs) /\ Len(ch) > 0 /\ n \in Nat
        /\ \A i \in 1..Len(ch) : ch[i].wr_count = IF i = Len(ch) THEN n ELSE 0
    BY <2>2, <2>4 DEF Signals
  <2>6. Room(batch_qp) >= 0
    BY <2>1 DEF CqInv
  <2>7. /\ posted' \in [QPs -> Seq(Wrs)] /\ Longer(posted[batch_qp], posted'[batch_qp], ch, Len(ch))
        /\ \A r \in QPs : r # batch_qp => posted'[r] = posted[r]
    BY <2>1, <2>2, <2>3, <2>5, <2>6, PostFacts
  <2>8. Len(ch) <= WrsPerChunk * n
    BY <1>3, <2>2, <2>4
  <2>9. CASE q = batch_qp
    BY <1>2, <2>5, <2>7, <2>8, <2>9, BackedLonger
  <2>10. CASE q # batch_qp
    BY <1>2, <2>7, <2>10
  <2> QED
    BY <2>9, <2>10
<1>6. CASE cpu_head < Len(fifo) /\ Collect(fifo[cpu_head + 1])
  <2> DEFINE c == fifo[cpu_head + 1]
  <2>1. Collect(c) /\ c \in Cmds
    <3>1. cpu_head + 1 \in 1..Len(fifo) /\ fifo \in Seq(Cmds)
      BY <1>6, LenProperties DEF TypeOK
    <3> QED
      BY <1>6, <3>1, ElementOfSeq
  <2> HIDE DEF c
  <2>2. CASE CollectNothing(c) \/ CollectWrite(c) \/ CollectStash(c)
    BY <1>4, <2>2 DEF CollectNothing, CollectWrite, CollectStash, nic
  <2>3. CASE CollectBarrier(c)
    <3> DEFINE x == Wr("barrier", c, 0, 1)
               ch == <<x>>
    <3>1. PostStageBarrier(c)
      BY <2>3 DEF CollectBarrier
    <3>2. x \in Wrs /\ x.wr_count = 1
      BY <2>1, WrFacts
    <3>3. posted'[q] = posted[q] \/ posted'[q] = Append(posted[q], x)
      BY <1>0, <2>1, <3>1, BarrierAdds
    <3> HIDE DEF x
    <3>4. CASE posted'[q] = Append(posted[q], x)
      <4>1. /\ ch \in Seq(Wrs) /\ Len(ch) = 1
            /\ \A i \in 1..Len(ch) : ch[i].wr_count = IF i = Len(ch) THEN 1 ELSE 0
        BY <3>2
      <4>2. t \in Seq(Wrs) /\ Longer(posted[q], t, ch, Len(ch))
        BY <1>2, <3>2, <3>4, <4>1, AppendIsLonger
      <4> HIDE DEF ch
      <4>3. Len(ch) > 0 /\ Len(ch) <= WrsPerChunk * 1 /\ 1 \in Nat
        BY <1>3, <4>1
      <4> QED
        BY <1>2, <4>1, <4>2, <4>3, BackedLonger
    <3> QED
      BY <1>2, <3>3, <3>4
  <2> QED
    BY <2>1, <2>2, <2>3 DEF Collect
<1>7. ~PostStrided
  BY DEF PostStrided, Strided, Ample
<1> QED
  BY <1>4, <1>5, <1>6, <1>7, HandMoves DEF Keeps, StartBatch, AdvanceTail, nic

\* What waits in the FIFO, or is still to be pushed, is of the one kernel of the epoch.
LEMMA FromKernelStep ==
    ASSUME TypeOK, PhaseInv, WaitingInv, RoomInv, [Next]_vars
    PROVE  (todo' = {} /\ fifo' = <<>>) \/ \E k \in Kernels' : FromKernel(k)'
<1>0. cfg' = cfg /\ Kernels' = Kernels
  BY CfgSame DEF Kernels
<1>1. CASE Sits
  <2>1. todo' = todo /\ fifo' = fifo /\ epoch' = epoch
    BY <1>1 DEF Sits
  <2>2. \A k : FromKernel(k) => FromKernel(k)'
    BY <2>1 DEF FromKernel
  <2> QED
    BY <1>0, <2>1, <2>2 DEF RoomInv
<1>2. ASSUME NEW k \in Kernels, Launch(k) PROVE FromKernel(k)'
  <2>1. todo' = {Of(c, epoch) : c \in k} /\ fifo' = fifo /\ epoch' = epoch /\ hpc = "idle"
    BY <1>2 DEF Launch
  <2>2. fifo = <<>>
    BY <2>1 DEF WaitingInv
  <2> QED
    BY <2>1, <2>2 DEF FromKernel
<1>3. ASSUME NEW c \in todo, Push(c) PROVE \E k \in Kernels : FromKernel(k)'
  <2>1. fifo' = Append(fifo, c) /\ todo' = todo \ {c} /\ epoch' = epoch /\ c \in Cmds
    BY <1>3 DEF Push, TypeOK
  <2>2. PICK k \in Kernels : FromKernel(k)
    BY DEF RoomInv
  <2>3. \A i \in 1..Len(fifo') : fifo'[i] = c \/ (i \in 1..Len(fifo) /\ fifo'[i] = fifo[i])
    <3>1. fifo \in Seq(Cmds)
      BY DEF TypeOK
    <3> QED
      BY <2>1, <3>1
  <2>4. \A i \in 1..Len(fifo') : \E d \in k : fifo'[i] = Of(d, epoch)
    BY <2>2, <2>3 DEF FromKernel
  <2>5. FromKernel(k)'
    BY <2>1, <2>2, <2>4 DEF FromKernel
  <2> QED
    BY <2>5
<1>4. CASE CommitEpoch
  BY <1>4 DEF CommitEpoch, PhaseInv
<1> QED
  BY <1>0, <1>1, <1>2, <1>3, <1>4, WaitMoves

\* Steps that neither poll, nor count, nor batch, nor start an iteration.
Rests ==
    /\ UNCHANGED <<batch, pre_inflight, inflight>> /\ cpu_head' = cpu_head
    /\ \A i \in 1..cpu_head : fifo'[i] = fifo[i]
    /\ strided_posted' = 0
    /\ ppc' \in {"collect", "strided"} => ppc \in {"collect", "strided"}

\* How a step may change the throttle's bookkeeping.
LEMMA RoomMoves ==
    ASSUME TypeOK, PhaseInv, RoomInv, Ample, [Next]_vars
    PROVE  \/ Rests \/ StartBatch
           \/ strided_posted' = 0 /\ ppc' \notin {"collect", "strided"}
           \/ cpu_head < Len(fifo) /\ Collect(fifo[cpu_head + 1])
<1>0. strided_posted = 0 /\ cpu_head \in 0..Len(fifo) /\ Len(fifo) \in Nat /\ fifo \in Seq(Cmds)
  BY LenProperties DEF RoomInv, TypeOK
<1>1. CASE QuietActions
  <2>1. Quiet
    BY <1>1, QuietOnes
  <2> QED
    BY <1>0, <2>1 DEF Quiet, gpu, loop, Rests
<1>2. CASE PostBatch \/ PostNothing \/ ProxyPollCq \/ AdvanceTail
  <2>1. ppc' \notin {"collect", "strided"} /\ strided_posted' = 0
    BY <1>0, <1>2 DEF PostBatch, PostNothing, ProxyPollCq, AdvanceTail, loop
  <2> QED
    BY <2>1
<1>3. CASE ExitDrain \/ DrainCq \/ Prepared \/ CommitEpoch
  <2>1. ppc' = ppc /\ strided_posted' = strided_posted
    BY <1>3 DEF ExitDrain, DrainCq, Prepared, CommitEpoch, loop
  <2>2. ppc \in {"exit", "spin"}
    BY <1>3 DEF ExitDrain, DrainCq, Prepared, CommitEpoch, PhaseInv
  <2> QED
    BY <1>0, <2>1, <2>2
<1>4. ~PostStrided
  BY DEF PostStrided, Strided, Ample
<1>5. CASE (\E k \in Kernels : Launch(k)) \/ (\E q \in QPs : Execute(q))
  BY <1>0, <1>5 DEF Launch, Execute, loop, Rests, gpu
<1>6. ASSUME NEW c \in todo, Push(c) PROVE Rests
  <2>1. /\ fifo' = Append(fifo, c) /\ c \in Cmds
        /\ UNCHANGED <<batch, pre_inflight, inflight, cpu_head, strided_posted, ppc>>
    BY <1>6 DEF Push, TypeOK, loop
  <2>2. \A i \in 1..Len(fifo) : fifo'[i] = fifo[i]
    BY <1>0, <2>1
  <2>3. \A i \in 1..cpu_head : fifo'[i] = fifo[i]
    BY <1>0, <2>2
  <2> QED
    BY <1>0, <2>1, <2>3 DEF Rests
<1> QED
  BY <1>1, <1>2, <1>3, <1>4, <1>5, <1>6, Actions DEF LoudActions

\* Every step keeps the throttle's bound.
LEMMA RoomStep ==
    ASSUME TypeOK, CollectInv, PhaseInv, CqInv, OnceInv, WaitingInv, InflightExact, RoomInv,
           Ample, NothingRefused, [Next]_vars, inflight' \in Int
    PROVE  RoomInv'
<1> DEFINE B == Cardinality(BarrierQPs)
           P == Cardinality(PolledBarriers)
           Q == Cardinality(PolledBarriers')
           E == EffectiveMaxInflight
<1>0. cfg' = cfg /\ QPs' = QPs /\ BarrierQPs' = BarrierQPs
  BY CfgSame, CfgKept
<1>1. EffectiveMaxInflight' = EffectiveMaxInflight
  BY <1>0 DEF EffectiveMaxInflight, PerQpChunkCap, WrsPerChunk, EnableRemoteTail,
              MaxInflightCfg, NumQPs
<1>2. \A q \in QPs : Backed(posted[q])'
  BY BackedStep
<1>3. (todo' = {} /\ fifo' = <<>>) \/ \E k \in Kernels' : FromKernel(k)'
  BY FromKernelStep
<1>4. /\ cpu_head \in Nat /\ Len(batch) \in Nat /\ batch \in Seq(Cmds) /\ pre_inflight \in Int
      /\ inflight \in Int /\ E \in Int /\ fifo \in Seq(Cmds) /\ Len(fifo) \in Nat
      /\ IsFiniteSet(BarrierQPs) /\ B \in Nat /\ cpu_head <= Len(fifo)
  <2>1. BarrierQPs \subseteq QPs /\ IsFiniteSet(QPs)
    BY BarrierQPsOwned, CfgFacts DEF TypeOK
  <2> QED
    BY <2>1, FS_Subset, FS_CardinalityType, CeilingIsInt, LenProperties DEF TypeOK
<1>5. IsFiniteSet(PolledBarriers) /\ P \in Nat
  <2>1. PolledBarriers \in SUBSET (1..cpu_head) /\ 1 \in Int /\ cpu_head \in Int
    BY <1>4 DEF PolledBarriers
  <2> QED
    BY <2>1, PartFinite
<1>6. \A a \in Nat, b \in Nat : a * b \in Nat /\ a * (b + 1) = a * b + a
  BY SMT
<1>7. /\ strided_posted' = 0
      /\ ppc' \in {"collect", "strided"} => inflight' <= pre_inflight' + B * Q
      /\ ppc' \in {"collect", "strided"} /\ batch' # <<>> => pre_inflight' + Len(batch') <= E
  <2>1. CASE strided_posted' = 0 /\ ppc' \notin {"collect", "strided"}
    BY <2>1
  <2>2. CASE Rests
    <3>1. PolledBarriers' = PolledBarriers
      BY <2>2 DEF Rests, PolledBarriers
    <3>2. UNCHANGED <<batch, pre_inflight, inflight>> /\ strided_posted' = 0
          /\ (ppc' \in {"collect", "strided"} => ppc \in {"collect", "strided"})
      BY <2>2 DEF Rests
    <3> QED
      BY <3>1, <3>2 DEF RoomInv
  <2>3. CASE StartBatch
    <3>1. /\ pre_inflight' = inflight /\ inflight' = inflight /\ strided_posted' = strided_posted
          /\ cpu_head' = cpu_head /\ fifo' = fifo
      BY <2>3 DEF StartBatch, gpu
    <3>2. batch' = <<>> \/ (batch' = pending /\ inflight < E)
      BY <2>3 DEF StartBatch
    <3>3. PolledBarriers' = PolledBarriers
      BY <3>1 DEF PolledBarriers
    <3>4. Len(pending) <= 1 /\ Len(pending) \in Nat
      BY LenProperties DEF CollectInv, TypeOK
    <3>5. B * Q \in Nat
      BY <1>4, <1>5, <1>6, <3>3
    <3> HIDE DEF E, B, Q
    <3>6. inflight <= inflight + B * Q
      BY <1>4, <3>5
    <3>7. batch' # <<>> => inflight + Len(batch') <= E
      BY <1>4, <3>2, <3>4
    <3> QED
      BY <3>1, <3>6, <3>7 DEF RoomInv
  <2>4. CASE cpu_head < Len(fifo) /\ Collect(fifo[cpu_head + 1])
    <3> DEFINE c == fifo[cpu_head + 1]
    <3>1. /\ c \in Cmds /\ Collect(c) /\ ppc = "collect" /\ CanCollect /\ cpu_head' = cpu_head + 1
          /\ fifo' = fifo /\ pre_inflight' = pre_inflight /\ strided_posted' = strided_posted
      <4>1. cpu_head + 1 \in 1..Len(fifo)
        BY <1>4, <2>4
      <4>2. c \in Cmds
        BY <1>4, <4>1, ElementOfSeq
      <4> QED
        BY <2>4, <4>2 DEF Collect, Polls, gpu
    <3>2. inflight <= pre_inflight + B * P
      BY <3>1 DEF RoomInv
    <3>3. pre_inflight + Len(batch) < E
      BY <3>1 DEF CanCollect
    <3>4. PolledBarriers' = IF c.type = "BARRIER_NOTIFY" THEN PolledBarriers \cup {cpu_head + 1}
                                                         ELSE PolledBarriers
      <4>1. \A i \in 1..(cpu_head + 1) : i \in 1..cpu_head \/ i = cpu_head + 1
        BY <1>4
      <4>2. cpu_head + 1 \in 1..(cpu_head + 1) /\ \A i \in 1..cpu_head : i \in 1..(cpu_head + 1)
        BY <1>4
      <4> QED
        BY <3>1, <4>1, <4>2 DEF PolledBarriers
    <3>5. Q = IF c.type = "BARRIER_NOTIFY" THEN P + 1 ELSE P
      <4>1. cpu_head + 1 \notin PolledBarriers
        BY <1>4 DEF PolledBarriers
      <4> QED
        BY <1>5, <3>4, <4>1, FS_AddElement
    <3> HIDE DEF c, Q, P, B, E
    <3>6. B * P \in Nat /\ B * (P + 1) = B * P + B
      BY <1>4, <1>5, <1>6
    <3>7. CASE CollectBarrier(c)
      <4>1. batch' = batch /\ c.type = "BARRIER_NOTIFY"
            /\ inflight' = inflight + Cardinality({q \in BarrierQPs : Fits(q, 1)})
        BY <3>7 DEF CollectBarrier, PostStageBarrier
      <4> DEFINE n == Cardinality({q \in BarrierQPs : Fits(q, 1)})
      <4>2. n \in Nat /\ n <= B
        <5>1. {q \in BarrierQPs : Fits(q, 1)} \in SUBSET BarrierQPs
          OBVIOUS
        <5> QED
          BY <1>4, <5>1, FS_Subset, FS_CardinalityType DEF B
      <4>3. inflight' = inflight + n
        BY <4>1
      <4> HIDE DEF n
      <4>4. inflight + n <= pre_inflight + B * (P + 1)
        BY <1>4, <3>2, <3>6, <4>2
      <4>5. inflight' <= pre_inflight' + B * Q
        BY <3>1, <3>5, <4>1, <4>3, <4>4
      <4>6. pre_inflight + Len(batch) <= E
        BY <1>4, <3>3
      <4> QED
        BY <3>1, <4>1, <4>5, <4>6 DEF RoomInv
    <3>8. CASE CollectNothing(c) \/ CollectWrite(c) \/ CollectStash(c)
      <4>1. inflight' = inflight /\ c.type # "BARRIER_NOTIFY"
        BY <3>8 DEF CollectNothing, CollectWrite, CollectStash, Collectable
      <4>2. batch' = batch \/ batch' = Append(batch, c)
        BY <3>8 DEF CollectNothing, CollectWrite, CollectStash
      <4>3. Len(batch') \in {Len(batch), Len(batch) + 1}
        BY <1>4, <3>1, <4>2
      <4>4. pre_inflight + Len(batch') <= E
        BY <1>4, <3>3, <4>3
      <4> QED
        BY <3>1, <3>2, <3>5, <4>1, <4>4 DEF RoomInv
    <3> QED
      BY <3>1, <3>7, <3>8 DEF Collect
  <2> QED
    BY <2>1, <2>2, <2>3, <2>4, RoomMoves
<1>8. Cardinality(BarrierQPs)' = B /\ Cardinality(PolledBarriers)' = Q
  BY <1>0 DEF Cardinality
<1> QED
  BY <1>0, <1>1, <1>2, <1>3, <1>7, <1>8 DEF RoomInv

\* Nothing of Ample changes: the configuration is fixed at creation.
LEMMA AmpleStays == ASSUME [Next]_vars, TypeOK PROVE Ample' <=> Ample
<1>1. cfg' = cfg
  BY CfgSame
<1>2. /\ EffectiveMaxInflight' = EffectiveMaxInflight /\ WrsPerChunk' = WrsPerChunk
      /\ Kernels' = Kernels /\ BarrierQPs' = BarrierQPs /\ DirectDmabuf' = DirectDmabuf
  BY <1>1 DEF EffectiveMaxInflight, PerQpChunkCap, WrsPerChunk, EnableRemoteTail,
              MaxInflightCfg, NumQPs, Kernels, BarrierQPs, NumNodes, ChannelizeGpuPeers,
              DirectDmabuf
<1>3. \A k : BarrierWrs(k)' = BarrierWrs(k)
  BY <1>2 DEF BarrierWrs, Barriers, Cardinality
<1> QED
  BY <1>2, <1>3 DEF Ample

\* The throttle's bound holds initially.
LEMMA InitRoom == Init => RoomInv
<1> SUFFICES ASSUME Init PROVE RoomInv
  OBVIOUS
<1>1. /\ \A q \in QPs : posted[q] = <<>>
      /\ strided_posted = 0 /\ ppc = "top" /\ todo = {} /\ fifo = <<>>
  BY DEF Init
<1>2. Backed(<<>>)
  <2>1. <<>> \in Seq(Wrs) /\ Len(<<>>) = 0
    OBVIOUS
  <2>2. \A i \in 0..0 : i = 0
    OBVIOUS
  <2>3. Remaining(<<>>, 0) \in Nat
    BY <2>1, RemainingNat
  <2>4. WrsPerChunk \in {2, 3}
    BY DEF WrsPerChunk
  <2>5. \A r \in Nat : \A w \in {2, 3} : 0 - 0 <= w * r
    OBVIOUS
  <2>6. 0 - 0 <= WrsPerChunk * Remaining(<<>>, 0)
    BY <2>3, <2>4, <2>5
  <2> QED
    BY <2>1, <2>2, <2>6 DEF Backed
<1> QED
  BY <1>1, <1>2 DEF RoomInv

\* Where Ample holds, what it needs to keep holding does.
Deep == Ample => RoomInv /\ Unrefused

\* The invariant of deep queues holds initially.
LEMMA InitDeep == Init => Deep
  BY InitRoom, InitUnrefused DEF Deep

\* With its part of the invariant, Ample rules a refusal out.
LEMMA DeepIsLeft == Base /\ OneHand /\ Deep /\ Ample => NothingRefused
<1> SUFFICES ASSUME Base, OneHand, Deep, Ample PROVE NothingRefused
  OBVIOUS
<1>1. TypeOK /\ CqInv /\ CollectInv /\ InflightExact /\ WaitingInv /\ RoomInv
  BY DEF Base, OneHand, Deep
<1> QED
  BY <1>1, RoomIsLeft

\* Every step keeps the invariant of deep queues.
LEMMA DeepStep == Base /\ Base' /\ OneHand /\ Deep /\ [Next]_vars => Deep'
<1> SUFFICES ASSUME Base, Base', OneHand, Deep, [Next]_vars, Ample'
             PROVE  RoomInv' /\ Unrefused'
  BY DEF Deep
<1>1. /\ TypeOK /\ CollectInv /\ PhaseInv /\ CqInv /\ InflightExact
      /\ OnceInv /\ WaitingInv /\ inflight' \in Int
  BY DEF Base, OneHand, TypeOK
<1>2. Ample
  BY <1>1, AmpleStays
<1>3. RoomInv /\ Unrefused
  BY <1>2 DEF Deep
<1>4. NothingRefused
  BY <1>2, DeepIsLeft
<1>5. RoomInv'
  BY <1>1, <1>2, <1>3, <1>4, RoomStep
<1>6. Unrefused'
  BY <1>3, <1>4, UnrefusedStep
<1> QED
  BY <1>5, <1>6

\* The invariant of deep queues always holds.
LEMMA AlwaysDeep == Spec => []Deep
<1>1. Base /\ Base' /\ OneHand /\ Deep /\ [Next]_vars => Deep'
  BY DeepStep
<1> QED
  BY <1>1, AlwaysBase, AlwaysOneHand, InitDeep, PTL DEF Spec

\* The throttle of the collect loop does what it is there for: where the limit on what is in
\* flight, and the barriers of a kernel on top of it, fit into one send queue, ibv_post_send
\* never finds a queue full.
THEOREM SendQueuesSuffice == Spec => [](Ample => NothingRefused)
<1>1. Base /\ OneHand /\ Deep => (Ample => NothingRefused)
  BY DeepIsLeft
<1> QED
  BY <1>1, AlwaysBase, AlwaysOneHand, AlwaysDeep, PTL

\* There the proxy needs no assumption on what the NIC accepts: the end of an epoch is
\* quiescent, every peer has its barrier writes, and the arrival slots are dense.
THEOREM DeepQueuesDeliver ==
    Spec => [](Ample => /\ QuiescentWhenPrepared
                        /\ CoversPeers => BarrierReachesEveryPeer
                        /\ QueueHasOneQP => ArrivalSlotsDense)
<1>1. Base /\ OneHand /\ Deep =>
        (Ample => /\ QuiescentWhenPrepared
                  /\ CoversPeers => BarrierReachesEveryPeer
                  /\ QueueHasOneQP => ArrivalSlotsDense)
  <2> SUFFICES ASSUME Base, OneHand, Unrefused
               PROVE  /\ QuiescentWhenPrepared
                      /\ CoversPeers => BarrierReachesEveryPeer
                      /\ QueueHasOneQP => ArrivalSlotsDense
    BY DEF Deep
  <2>1. QueueHasOneQP => ArrivalSlotsDense
    BY SlotsAreDense DEF Base, Unrefused
  <2> QED
    BY <2>1, QuietAtBoundary, BarriersAtBoundary
<1> QED
  BY <1>1, AlwaysBase, AlwaysOneHand, AlwaysDeep, PTL

\* With routing by lane, slots are dense wherever the send queues are deep enough.
THEOREM LanesStayDense == Spec => [](Ample /\ ~ChannelizeGpuPeers => ArrivalSlotsDense)
<1>1. Base => (~ChannelizeGpuPeers => QueueHasOneQP)
  BY LaneHasOneQP DEF Base, TypeOK
<1> QED
  BY <1>1, DeepQueuesDeliver, AlwaysBase, PTL

\* The constructor's cap makes it so for a proxy of one QP: kSafetyMargin is what it leaves
\* for the barriers of a kernel.
OneQP ==
    /\ NumQPs = 1 /\ ~DirectDmabuf /\ QpSqDepth \div WrsPerChunk > SafetyMargin
    /\ \A k \in Kernels : IsFiniteSet(k) /\ Cardinality(Barriers(k)) <= SafetyMargin

\* The cap of the constructor fits one QP's batches and the margin's barriers in its queue.
LEMMA OneQPIsAmple == ASSUME cfg \in Configs, OneQP PROVE Ample
<1> DEFINE W == WrsPerChunk
           d == QpSqDepth \div WrsPerChunk
           E == EffectiveMaxInflight
<1>1. W \in {2, 3} /\ QpSqDepth \in Nat /\ SafetyMargin \in Nat
  BY LimitAssumption DEF WrsPerChunk
<1>2. \A n \in Nat : \A w \in {2, 3} : n \div w \in Nat /\ w * (n \div w) <= n
  OBVIOUS
<1>3. d \in Nat /\ W * d <= QpSqDepth /\ d > SafetyMargin
  BY <1>1, <1>2 DEF OneQP
<1>4. E \in Int /\ E <= d - SafetyMargin
  <2> DEFINE a == d - SafetyMargin
             M == MaxInflightCfg
  <2>1. a \in Int /\ 1 <= a /\ M \in Int
    <3>1. MaxInflightCfg \in Int
      BY CfgFacts
    <3> HIDE DEF d
    <3> QED
      BY <1>1, <1>3, <3>1
  <2>2. PerQpChunkCap = Max({1, a})
    BY DEF PerQpChunkCap
  <2> HIDE DEF a, d, M
  <2>3. Max({1, a}) = a
    BY <2>1, MaxIs
  <2>4. E = Min({M, a}) * 1
    BY <2>2, <2>3 DEF EffectiveMaxInflight, OneQP, M
  <2>5. Min({M, a}) \in Int /\ Min({M, a}) <= a
    BY <2>1, MinOfTwo
  <2> HIDE DEF E
  <2> QED
    BY <2>4, <2>5 DEF a
<1> HIDE DEF W, d, E
<1>5. \A b \in Nat : b <= SafetyMargin => W * (E + b) <= QpSqDepth
  <2> TAKE b \in Nat
  <2>1. CASE W = 2
    BY <1>1, <1>3, <1>4, <2>1
  <2>2. CASE W = 3
    BY <1>1, <1>3, <1>4, <2>2
  <2> QED
    BY <1>1, <2>1, <2>2
<1>6. W * E <= QpSqDepth
  BY <1>1, <1>4, <1>5
<1>7. Cardinality(BarrierQPs) = 1
  <2>1. BarrierQPs = {0}
    <3>1. NumNodes - 1 \in Int /\ ~(NumNodes - 1 > 1 /\ 1 >= NumNodes - 1)
      BY CfgFacts
    <3> QED
      BY <3>1 DEF BarrierQPs, OneQP
  <2> QED
    BY <2>1, FS_Singleton
<1>8. ASSUME NEW k \in Kernels
      PROVE  IsFiniteSet(k) /\ W * (E + BarrierWrs(k)) <= QpSqDepth
  <2>1. IsFiniteSet(k) /\ Cardinality(Barriers(k)) <= SafetyMargin
    BY DEF OneQP
  <2>2. Cardinality(Barriers(k)) \in Nat
    BY <2>1, FS_Subset, FS_CardinalityType DEF Barriers
  <2>3. BarrierWrs(k) = Cardinality(Barriers(k))
    BY <1>7, <2>2 DEF BarrierWrs
  <2> QED
    BY <1>5, <2>1, <2>2, <2>3
<1> QED
  BY <1>6, <1>8 DEF Ample, OneQP, W, E

\* A proxy of one QP is never refused a post, whatever max_inflight it is given: the promise
\* of the comment on kSafetyMargin.
THEOREM OneQPIsNeverRefused == Spec => [](OneQP => NothingRefused)
<1>1. Base /\ OneHand /\ Deep => (OneQP => NothingRefused)
  BY OneQPIsAmple, DeepIsLeft DEF Base, TypeOK
<1> QED
  BY <1>1, AlwaysBase, AlwaysOneHand, AlwaysDeep, PTL
=============================================================================
