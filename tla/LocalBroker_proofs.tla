------------------------- MODULE LocalBroker_proofs -------------------------
(***************************************************************************)
(* For every number of ranks, every sequence of calls and every length of  *)
(* the socket queues: the calls of LocalBroker never mix what was given in *)
(* two of them, and no datagram goes astray.  The argument rests on the    *)
(* two-phase barrier being a rendezvous, which is proved first; the        *)
(* constructor, and the two together, come last.                           *)
(***************************************************************************)
EXTENDS BrokerLife, FiniteSetTheorems, SequenceTheorems, TLAPS

-----------------------------------------------------------------------------
\* The barrier, of every finite set of ranks and any number of syncs.

\* The ranks counted in `barrier` are finitely many.
LEMMA InsideFinite ==
    /\ IsFiniteSet(Inside) /\ Inside \subseteq Ranks
    /\ Cardinality(Inside) \in Nat /\ N \in Nat \ {0}
<1>1. Inside \in SUBSET Ranks
  BY DEF Inside
<1>2. IsFiniteSet(Inside)
  BY <1>1, RanksAssumption, FS_Subset
<1>3. Cardinality(Inside) \in Nat /\ N \in Nat
  BY <1>2, RanksAssumption, FS_CardinalityType DEF N
<1>4. N # 0
  BY RanksAssumption, FS_EmptySet DEF N
<1> QED
  BY <1>1, <1>2, <1>3, <1>4

\* A rank that arrives is counted; it is the last one exactly when all the
\* others are already counted.
LEMMA ArriveCounts ==
    ASSUME NEW r \in Ranks, r \notin Inside
    PROVE  /\ Cardinality(Inside \cup {r}) = Cardinality(Inside) + 1
           /\ Cardinality(Inside) + 1 = N => Inside \cup {r} = Ranks
<1>1. Inside \cup {r} \in SUBSET Ranks
  BY InsideFinite
<1>2. Cardinality(Inside \cup {r}) = Cardinality(Inside) + 1
  BY InsideFinite, FS_AddElement
<1>3. Cardinality(Ranks) = Cardinality(Inside \cup {r}) => Ranks = Inside \cup {r}
  BY <1>1, RanksAssumption, FS_Subset
<1> QED
  BY <1>2, <1>3 DEF N

\* A rank that departs is not counted any more; it is the last one exactly when
\* no other is counted.
LEMMA DepartCounts ==
    ASSUME NEW r \in Ranks, r \in Inside
    PROVE  /\ Cardinality(Inside \ {r}) = Cardinality(Inside) - 1
           /\ Cardinality(Inside) - 1 = 0 => Inside \ {r} = {}
<1>1. /\ IsFiniteSet(Inside \ {r})
      /\ Cardinality(Inside \ {r}) = Cardinality(Inside) - 1
  BY InsideFinite, FS_RemoveElement
<1> QED
  BY <1>1, FS_EmptySet

-----------------------------------------------------------------------------
\* IInv is inductive: it holds initially and every step of every rank keeps it.
THEOREM BarrierInductive == Spec => []IInv
<1>1. Init => IInv
  <2> SUFFICES ASSUME Init PROVE IInv
    OBVIOUS
  <2>1. Inside = {}
    BY DEF Init, Inside
  <2>2. CountInv
    BY <2>1, FS_EmptySet DEF Init, CountInv
  <2>3. TypeOK /\ PhaseInv /\ LastInv /\ GenerationInv
    BY DEF Init, TypeOK, PhaseInv, LastInv, GenerationInv, Ahead
  <2> QED
    BY <2>2, <2>3 DEF IInv
<1>2. IInv /\ [Next]_vars => IInv'
  <2> SUFFICES ASSUME IInv, [Next]_vars PROVE IInv'
    OBVIOUS
  <2> USE DEF IInv
  <2>1. ASSUME NEW r \in Ranks, Arrive(r) PROVE IInv'
    <3>1. sense = 0 /\ r \notin Inside
      BY <2>1 DEF Arrive, TypeOK, PhaseInv, Inside
    <3>2. Inside' = Inside \cup {r}
      BY <2>1 DEF Arrive, TypeOK, Inside
    <3>3. TypeOK'
      BY <2>1 DEF Arrive, TypeOK
    <3>4. CountInv'
      BY <2>1, <3>1, <3>2, ArriveCounts DEF Arrive, CountInv
    <3>5. PhaseInv'
      BY <2>1, <3>1 DEF Arrive, TypeOK, PhaseInv
    <3>6. \A q \in Ranks : pc[q] # "set" /\ pc[q] # "clear"
      BY <2>1, <3>1 DEF Arrive, TypeOK, PhaseInv, LastInv
    <3>7. barrier + 1 = N => \A q \in Ranks \ {r} : pc[q] = "wait1"
      BY <3>1, <3>6, ArriveCounts DEF CountInv, PhaseInv, Inside
    <3>8. LastInv'
      BY <2>1, <3>6, <3>7 DEF Arrive, TypeOK, LastInv
    <3>9. GenerationInv'
      BY <2>1, <3>1 DEF Arrive, TypeOK, GenerationInv, Ahead
    <3> QED
      BY <3>3, <3>4, <3>5, <3>8, <3>9
  <2>2. ASSUME NEW r \in Ranks, SetSense(r) PROVE IInv'
    <3>1. sense = 0 /\ \A q \in Ranks : pc[q] \in {"set", "wait1"} /\ pc'[q] = "wait1"
      BY <2>2 DEF SetSense, TypeOK, PhaseInv, LastInv
    <3>2. Inside' = Inside
      BY <3>1 DEF Inside
    <3>3. TypeOK' /\ PhaseInv' /\ LastInv'
      BY <2>2, <3>1 DEF SetSense, TypeOK, PhaseInv, LastInv
    <3>4. CountInv'
      BY <2>2, <3>2 DEF SetSense, CountInv
    <3>5. GenerationInv'
      BY <2>2, <3>1 DEF SetSense, TypeOK, GenerationInv, Ahead
    <3> QED
      BY <3>3, <3>4, <3>5
  <2>3. ASSUME NEW r \in Ranks, SeeSense(r) PROVE IInv'
    <3>1. Inside' = Inside
      BY <2>3 DEF SeeSense, TypeOK, Inside
    <3>2. TypeOK' /\ PhaseInv' /\ LastInv'
      BY <2>3 DEF SeeSense, TypeOK, PhaseInv, LastInv
    <3>3. CountInv'
      BY <2>3, <3>1 DEF SeeSense, CountInv
    <3>4. GenerationInv'
      BY <2>3 DEF SeeSense, TypeOK, GenerationInv, Ahead
    <3> QED
      BY <3>2, <3>3, <3>4
  <2>4. ASSUME NEW r \in Ranks, Depart(r) PROVE IInv'
    <3>1. sense = 1 /\ r \in Inside
      BY <2>4 DEF Depart, TypeOK, PhaseInv, Inside
    <3>2. Inside' = Inside \ {r}
      BY <2>4 DEF Depart, TypeOK, Inside
    <3>3. TypeOK'
      BY <2>4 DEF Depart, TypeOK
    <3>4. CountInv'
      BY <2>4, <3>1, <3>2, DepartCounts DEF Depart, CountInv
    <3>5. PhaseInv'
      BY <2>4, <3>1 DEF Depart, TypeOK, PhaseInv
    <3>6. \A q \in Ranks : pc[q] # "set" /\ pc[q] # "clear"
      BY <2>4, <3>1 DEF Depart, TypeOK, PhaseInv, LastInv
    <3>7. barrier - 1 = 0 => \A q \in Ranks \ {r} : pc[q] = "wait2"
      BY <3>1, <3>6, DepartCounts DEF CountInv, PhaseInv, Inside
    <3>8. LastInv'
      BY <2>4, <3>6, <3>7 DEF Depart, TypeOK, LastInv
    <3>9. GenerationInv'
      BY <2>4, <3>1 DEF Depart, TypeOK, GenerationInv, Ahead
    <3> QED
      BY <3>3, <3>4, <3>5, <3>8, <3>9
  <2>5. ASSUME NEW r \in Ranks, ClearSense(r) PROVE IInv'
    <3>1. sense = 1 /\ \A q \in Ranks : pc[q] \in {"clear", "wait2"} /\ pc'[q] = "wait2"
      BY <2>5 DEF ClearSense, TypeOK, PhaseInv, LastInv
    <3>2. Inside' = Inside
      BY <3>1 DEF Inside
    <3>3. TypeOK' /\ PhaseInv' /\ LastInv'
      BY <2>5, <3>1 DEF ClearSense, TypeOK, PhaseInv, LastInv
    <3>4. CountInv'
      BY <2>5, <3>2 DEF ClearSense, CountInv
    <3>5. GenerationInv'
      BY <2>5, <3>1 DEF ClearSense, TypeOK, GenerationInv, Ahead
    <3> QED
      BY <3>3, <3>4, <3>5
  <2>6. ASSUME NEW r \in Ranks, Return(r) PROVE IInv'
    <3>1. Inside' = Inside
      BY <2>6 DEF Return, TypeOK, Inside
    <3>2. TypeOK' /\ PhaseInv' /\ LastInv'
      BY <2>6 DEF Return, TypeOK, PhaseInv, LastInv, GenerationInv
    <3>3. CountInv'
      BY <2>6, <3>1 DEF Return, CountInv
    <3>4. GenerationInv'
      BY <2>6 DEF Return, TypeOK, GenerationInv, Ahead
    <3> QED
      BY <3>2, <3>3, <3>4
  <2>7. CASE UNCHANGED vars
    BY <2>7 DEF vars, TypeOK, CountInv, Inside, PhaseInv, LastInv, GenerationInv, Ahead
  <2> QED
    BY <2>1, <2>2, <2>3, <2>4, <2>5, <2>6, <2>7 DEF Next, Sync, Finished
<1> QED
  BY <1>1, <1>2, PTL DEF Spec

-----------------------------------------------------------------------------
\* What the generations say: nobody is ahead of an entry it waited for.
LEMMA GenerationOrder ==
    ASSUME IInv
    PROVE  /\ NoEarlyReturn
           /\ \A r \in Ranks : pc[r] = "wait2" /\ sense = 0 =>
                left[r] < entered[r] /\ \A q \in Ranks : entered[q] >= entered[r]
  BY DEF IInv, TypeOK, GenerationInv, Ahead, NoEarlyReturn

\* sync() never returns early: no rank returns from its k-th sync before all have
\* entered theirs, however the ranks that race ahead reuse the two shared words.
THEOREM SyncIsABarrier == Spec => []NoEarlyReturn
<1>1. IInv => NoEarlyReturn
  BY GenerationOrder
<1> QED
  BY <1>1, BarrierInductive, PTL

-----------------------------------------------------------------------------
\* The calls.

M == WorldSize - 1   \* the peers of a rank

Middle == {"exchange_data", "exchange_fds", "broadcast_fd", "gather", "spread", "receive"}
Done == {"idle", "exit", "copy"}
Fresh == {"enter", "exchange_data", "exchange_fds", "broadcast_fd"}

BrokerType ==
    /\ call \in [Ranks -> 0..Len(Program)]
    /\ at \in [Ranks -> Middle \cup Done \cup {"enter"}]
    /\ i \in [Ranks -> Nat]
    /\ data \in [Ranks -> (Ranks \X Nat) \cup {None}]
    /\ dst \in [Ranks -> [Ranks -> (Ranks \X Nat) \cup {None}]]
    /\ sock \in [Ranks -> Seq([fd : Ranks \X Nat, src : Ranks])]

\* Where a rank is in a call, and how many syncs that takes.
CallInv(r) ==
    /\ at[r] # "idle" => call[r] >= 1
    /\ at[r] \in Calls => Call(r) = at[r]
    /\ at[r] \in {"gather", "spread"} => r = 0 /\ Call(r) = "exchange_fds"
    /\ at[r] = "receive" => r # 0 /\ Call(r) = "exchange_fds"
    /\ at[r] = "copy" => Call(r) = "exchange_data"
    /\ entered[r] = 2 * call[r] - (IF at[r] \in Done THEN 0 ELSE 1)
    /\ pc[r] = "out" <=> at[r] \notin {"enter", "exit"}

\* exchange_data: a rank's word is the one it gave last, until its next call of any
\* kind is past its first sync.
DataInv(r) ==
    /\ at[r] \in Done /\ call[r] > 0 /\ Call(r) = "exchange_data" => data[r] = <<r, call[r]>>
    /\ at[r] = "enter" /\ call[r] > 1 /\ Program[call[r] - 1] = "exchange_data"
         => data[r] = <<r, call[r] - 1>>

\* The k-th of the others, as rank r counts them, and the place of q among them.
Other(r, k) == IF k < r THEN k ELSE k + 1
Place(r, q) == IF q < r THEN q ELSE q - 1

\* What a rank has collected so far.
DstInv(r) ==
    /\ at[r] \in Fresh => dst[r] = Nothing
    /\ at[r] = "copy" =>
         /\ i[r] < WorldSize
         /\ dst[r] = [q \in Ranks |-> IF q < i[r] THEN <<q, call[r]>> ELSE None]
    /\ at[r] = "receive" =>
         /\ i[r] < M
         /\ dst[r] = [q \in Ranks |-> IF q # r /\ Place(r, q) < i[r] THEN <<q, call[r]>> ELSE None]
    /\ at[r] = "spread" => i[r] <= M * M /\ dst[r] = [q \in Ranks |-> <<q, call[r]>>]
    /\ at[r] = "exit" => dst[r] = IF Call(r) = "exchange_data" THEN Nothing ELSE Result(r)
    /\ at[r] = "idle" /\ call[r] > 0 => dst[r] = Result(r)

\* What rank 0 has gathered: from ranks that wait for its answer.
Gathered == {q \in Ranks : q # 0 /\ dst[0][q] # None}

GatherInv ==
    at[0] = "gather" =>
        /\ dst[0][0] = <<0, call[0]>>
        /\ \A q \in Gathered : dst[0][q] = <<q, call[0]>> /\ at[q] = "receive"
        /\ i[0] = Cardinality(Gathered) /\ i[0] < M

\* The socket of rank 0 holds one descriptor of each rank that waits for its answer
\* and has not been gathered from.
Datagram(q, c) == [fd |-> <<q, c>>, src |-> q]

RootSock ==
    /\ \A k \in 1..Len(sock[0]) :
         LET q == sock[0][k].src
         IN  /\ q # 0 /\ sock[0][k] = Datagram(q, call[0]) /\ at[q] = "receive"
             /\ at[0] \in {"enter", "exchange_fds", "gather"} /\ dst[0][q] = None
    /\ \A j, k \in 1..Len(sock[0]) : j # k => sock[0][j].src # sock[0][k].src

\* How many datagrams rank 0 has sent to rank r in the call r is in, and how many r
\* has taken; the socket of r holds the others, in the order of their sources.
SpreadTo(r, k) ==
    IF k <= (r - 1) * M THEN 0 ELSE IF k >= r * M THEN M ELSE k - (r - 1) * M

Whole(r) ==
    CASE Call(r) = "exchange_fds" -> M [] Call(r) = "broadcast_fd" -> 1 [] OTHER -> 0

Sent(r) ==
    IF call[0] # call[r] THEN 0
    ELSE IF at[0] = "spread" THEN SpreadTo(r, i[0])
    ELSE IF at[0] = "broadcast_fd" THEN IF i[0] > r THEN 1 ELSE 0
    ELSE IF at[0] \in Done THEN Whole(0)
    ELSE 0

Got(r) == IF at[r] = "receive" THEN i[r] ELSE 0

PeerSock(r) ==
    /\ Len(sock[r]) = IF at[r] \in Done THEN 0 ELSE Sent(r) - Got(r)
    /\ \A k \in 1..Len(sock[r]) : sock[r][k] = Datagram(Other(r, Got(r) + k - 1), call[r])
    /\ at[r] = "exit" /\ call[0] = call[r] => Sent(r) = Whole(r)

\* Rank 0 answers only when it has heard from all.
Answered(r) ==
    /\ call[r] = call[0] /\ call[0] > 0 /\ Call(0) = "exchange_fds"
    /\ at[0] \in Done \cup {"spread"}
    => at[r] \in Done \cup {"receive"}

BInv ==
    /\ BrokerType
    /\ \A r \in Ranks : CallInv(r) /\ DataInv(r) /\ DstInv(r)
    /\ GatherInv /\ RootSock
    /\ \A r \in Ranks \ {0} : PeerSock(r) /\ Answered(r)

-----------------------------------------------------------------------------
\* The ranks are numbered from zero, and a message is never the missing descriptor.
LEMMA RankFacts ==
    /\ WorldSize \in Nat \ {0} /\ M \in Nat /\ Ranks = 0..M /\ 0 \in Ranks
    /\ Ranks \subseteq Nat /\ IsFiniteSet(Ranks) /\ Cardinality(Ranks) = WorldSize
    /\ \A q \in Ranks, c \in Nat : <<q, c>> # None
<1>1. WorldSize \in Nat \ {0} /\ Cardinality(Ranks) = WorldSize
  BY InsideFinite DEF WorldSize, N
<1>2. M \in Nat /\ Ranks = 0..M
  BY <1>1, BrokerAssumption DEF M
<1>3. \A q \in Ranks, c \in Nat : <<q, c>> # None
  BY BrokerAssumption
<1> QED
  BY <1>1, <1>2, <1>3, RanksAssumption

\* A product grows with its factor.
LEMMA Grows ==
    ASSUME NEW b \in Nat, NEW x \in Nat, NEW y \in Nat, x <= y
    PROVE  x * b \in Nat /\ y * b \in Nat /\ x * b <= y * b
<1> DEFINE d == y - x
<1>1. d \in Nat /\ y = x + d
  OBVIOUS
<1>2. (x + d) * b = x * b + d * b /\ d * b \in Nat /\ x * b \in Nat
  BY <1>1
<1> QED
  BY <1>1, <1>2

\* The k-th datagram of rank 0 goes to one rank, as the next one it is to receive,
\* and carries the descriptor that this rank counts next.
LEMMA SpreadStep ==
    ASSUME NEW k \in 0..(M * M), NEW r \in Ranks \ {0}
    PROVE  /\ SpreadTo(r, k) \in 0..M
           /\ k = M * M => SpreadTo(r, k) = M
           /\ k = 0 => SpreadTo(r, k) = 0
           /\ k \in DOMAIN Pairs <=> k < M * M
           /\ k \in DOMAIN Pairs =>
                LET to == Pairs[k][1]
                IN  /\ to \in Ranks \ {0}
                    /\ SpreadTo(to, k) < M
                    /\ Pairs[k][2] = Other(to, SpreadTo(to, k))
                    /\ Pairs[k][2] \in Ranks
                    /\ SpreadTo(r, k + 1) = SpreadTo(r, k) + (IF r = to THEN 1 ELSE 0)
<1>1. M \in Nat \ {0} /\ r \in 1..M /\ k \in Nat /\ M * M \in Nat
  BY RankFacts
<1>2. (r - 1) * M \in Nat /\ r * M \in Nat /\ r * M = (r - 1) * M + M /\ r * M <= M * M
  BY <1>1, Grows
<1>3. SpreadTo(r, k) \in 0..M /\ (k = M * M => SpreadTo(r, k) = M) /\ (k = 0 => SpreadTo(r, k) = 0)
  BY <1>1, <1>2 DEF SpreadTo
<1>4. k \in DOMAIN Pairs <=> k < M * M
  BY <1>1 DEF Pairs, M
<1>5. ASSUME k < M * M
      PROVE  LET to == Pairs[k][1]
             IN  /\ to \in Ranks \ {0}
                 /\ SpreadTo(to, k) < M
                 /\ Pairs[k][2] = Other(to, SpreadTo(to, k))
                 /\ Pairs[k][2] \in Ranks
                 /\ SpreadTo(r, k + 1) = SpreadTo(r, k) + (IF r = to THEN 1 ELSE 0)
  <2> DEFINE d == k \div M
             s == k % M
             to == d + 1
  <2>1. d \in Nat /\ s \in 0..(M - 1) /\ k = d * M + s
    BY <1>1
  <2>2. d < M
    <3>1. M <= d => M * M <= d * M
      BY <1>1, <2>1, Grows
    <3>2. d * M \in Nat
      BY <1>1, <2>1
    <3> QED
      BY <1>1, <1>5, <2>1, <3>1, <3>2
  <2>3. Pairs[k] = <<to, IF s < to THEN s ELSE s + 1>>
    BY <1>4, <1>5 DEF Pairs, M
  <2> HIDE DEF d, s
  <2>4. to \in Ranks \ {0} /\ to \in 1..M
    BY <2>1, <2>2, <1>1, RankFacts
  <2>5. (to - 1) * M = d * M /\ to * M = d * M + M /\ d * M \in Nat
    BY <1>1, <2>1
  <2>6. SpreadTo(to, k) = s
    BY <1>1, <2>1, <2>5 DEF SpreadTo
  <2>7. (IF s < to THEN s ELSE s + 1) = Other(to, s) /\ Other(to, s) \in Ranks
    BY <1>1, <2>1, <2>4, RankFacts DEF Other
  <2>8. r = to => SpreadTo(r, k + 1) = SpreadTo(r, k) + 1
    BY <1>1, <2>1, <2>5, <2>6 DEF SpreadTo
  <2>9. r < to => SpreadTo(r, k + 1) = M /\ SpreadTo(r, k) = M
    <3>1. r < to => r * M <= d * M
      BY <1>1, <2>1, Grows
    <3> QED
      BY <1>1, <1>2, <2>1, <2>5, <3>1 DEF SpreadTo
  <2>10. r > to => SpreadTo(r, k + 1) = 0 /\ SpreadTo(r, k) = 0
    <3>1. r > to => to * M <= (r - 1) * M
      BY <1>1, <2>1, Grows
    <3> QED
      BY <1>1, <1>2, <2>1, <2>5, <3>1 DEF SpreadTo
  <2>11. SpreadTo(r, k + 1) = SpreadTo(r, k) + (IF r = to THEN 1 ELSE 0)
    BY <1>1, <2>1, <2>8, <2>9, <2>10
  <2> QED
    BY <1>1, <2>1, <2>3, <2>4, <2>6, <2>7, <2>11
<1> QED
  BY <1>3, <1>4, <1>5

\* The counter of the gathering wraps when it is complete.
LEMMA Wraps ==
    ASSUME M \in Nat \ {0}, NEW k \in 0..(M - 1)
    PROVE  (k + 1) % M = IF k + 1 = M THEN 0 ELSE k + 1
  OBVIOUS

-----------------------------------------------------------------------------
\* The steps of the calls are steps of the barrier or leave it alone.
THEOREM BrokerRunsTheBarrier == BrokerSpec => Spec
<1>1. BrokerInit => Init
  BY DEF BrokerInit
<1>2. [BrokerNext]_brokerVars => [Next]_vars
  <2> SUFFICES ASSUME [BrokerNext]_brokerVars PROVE [Next]_vars
    OBVIOUS
  <2>1. ASSUME NEW r \in Ranks, Step(r) PROVE Sync(r) \/ UNCHANGED vars
    <3>1. CASE InSync(r) \/ Begin(r) \/ Entered(r) \/ Leave(r) \/ WriteData(r) \/ CopyData(r)
      BY <3>1 DEF InSync, Begin, Entered, Leave, WriteData, CopyData, Sync
    <3>2. CASE r = 0 /\ (FdsRoot \/ FdsGather \/ FdsSpread \/ FdsSpreadEnds)
      BY <3>2 DEF FdsRoot, FdsGather, FdsSpread, FdsSpreadEnds, Last, More, Sync
    <3>3. CASE FdsSend(r) \/ FdsRecv(r) \/ BroadcastRecv(r)
      BY <3>3 DEF FdsSend, FdsRecv, BroadcastRecv, Last, More, Sync
    <3>4. CASE r = Src /\ (BroadcastSend \/ BroadcastEnds)
      BY <3>4 DEF BroadcastSend, BroadcastEnds, Last, Sync
    <3> QED
      BY <2>1, <3>1, <3>2, <3>3, <3>4 DEF Step
  <2> QED
    BY <2>1 DEF BrokerNext, Returned, brokerVars, Next
<1> QED
  BY <1>1, <1>2, PTL DEF BrokerSpec, Spec

\* While one rank is between the two syncs of a call, all are in that call.
LEMMA TogetherInside ==
    ASSUME IInv, BInv, NEW r \in Ranks, NEW q \in Ranks,
           \/ at[r] \in Middle
           \/ at[r] = "enter" /\ pc[r] = "wait2" /\ sense = 0
    PROVE  call[q] = call[r] /\ at[q] \notin {"idle", "copy"}
<1>1. pc[r] \in {"out", "wait2"} /\ sense = 0
  <2>1. CASE at[r] \in Middle
    <3>1. pc[r] = "out"
      BY <2>1 DEF BInv, CallInv, Middle
    <3> QED
      BY <3>1 DEF IInv, PhaseInv, TypeOK
  <2> QED
    BY <2>1
<1>2. entered[r] = 2 * call[r] - 1 /\ CallInv(q) /\ call[q] \in Nat /\ call[r] \in Nat
  BY DEF BInv, CallInv, Middle, Done, BrokerType
<1>3. entered[q] - (IF Ahead(q) THEN 1 ELSE 0) = entered[r]
  BY <1>1, <1>2 DEF IInv, TypeOK, GenerationInv, Ahead
<1>4. entered[q] \in Nat /\ (Ahead(q) => at[q] \in {"enter", "exit"})
  BY <1>2 DEF IInv, TypeOK, Ahead, CallInv
<1>5. CASE Ahead(q)
  <2>1. CASE at[q] \in Done
    BY <1>2, <1>3, <1>4, <1>5, <2>1 DEF CallInv, Done
  <2>2. CASE at[q] \notin Done
    BY <1>2, <1>3, <1>4, <1>5, <2>2 DEF CallInv, Done
  <2> QED
    BY <2>1, <2>2
<1>6. CASE ~Ahead(q)
  BY <1>2, <1>3, <1>4, <1>6, SMTT(20) DEF CallInv, Done
<1> QED
  BY <1>5, <1>6

\* When one rank is past the last sync of a call, all have done their part in it,
\* and none is past the first sync of the next.
LEMMA TogetherDone ==
    ASSUME IInv, BInv, NEW r \in Ranks, NEW q \in Ranks,
           \/ at[r] \in {"idle", "copy"}
           \/ at[r] = "exit" /\ pc[r] = "wait2" /\ sense = 0
    PROVE  \/ call[q] = call[r] /\ at[q] \in Done
           \/ call[q] = call[r] + 1 /\ at[q] = "enter"
<1>1. pc[r] \in {"out", "wait2"} /\ sense = 0
  BY DEF BInv, CallInv, IInv, PhaseInv, TypeOK
<1>2. entered[r] = 2 * call[r] /\ CallInv(q) /\ call[q] \in Nat /\ call[r] \in Nat
  BY DEF BInv, CallInv, Done, BrokerType
<1>3. entered[q] - (IF Ahead(q) THEN 1 ELSE 0) = entered[r]
  BY <1>1, <1>2 DEF IInv, TypeOK, GenerationInv, Ahead
<1>4. entered[q] \in Nat /\ (Ahead(q) => at[q] \in {"enter", "exit"})
  BY <1>2 DEF IInv, TypeOK, Ahead, CallInv
<1>5. CASE Ahead(q)
  <2>1. CASE at[q] \in Done
    BY <1>2, <1>3, <1>4, <1>5, <2>1 DEF CallInv, Done
  <2>2. CASE at[q] \notin Done
    BY <1>2, <1>3, <1>4, <1>5, <2>2 DEF CallInv, Done
  <2> QED
    BY <2>1, <2>2
<1>6. CASE ~Ahead(q)
  BY <1>2, <1>3, <1>4, <1>6 DEF CallInv, Done
<1> QED
  BY <1>5, <1>6

-----------------------------------------------------------------------------
\* A socket holds datagrams; one is added at its end or taken from its head.
Datagrams == [fd : Ranks \X Nat, src : Ranks]

\* A socket is a sequence of datagrams.
LEMMA SocketFacts ==
    ASSUME BrokerType, NEW r \in Ranks
    PROVE  /\ sock[r] \in Seq(Datagrams) /\ Len(sock[r]) \in Nat
           /\ \A k \in 1..Len(sock[r]) : sock[r][k] \in Datagrams /\ sock[r][k].src \in Ranks
           /\ sock[r] # <<>> <=> Len(sock[r]) > 0
<1>1. sock[r] \in Seq(Datagrams)
  BY DEF BrokerType, Datagrams
<1>2. Len(sock[r]) \in Nat /\ \A k \in 1..Len(sock[r]) : sock[r][k] \in Datagrams
  BY <1>1, LenProperties
<1>3. sock[r] # <<>> <=> Len(sock[r]) > 0
  BY <1>1, EmptySeq
<1> QED
  BY <1>1, <1>2, <1>3 DEF Datagrams

\* What sendmsg leaves: one datagram more, behind the others.
LEMMA Sends ==
    ASSUME BrokerType, NEW r \in Ranks, NEW m \in Datagrams, sock'[r] = Append(sock[r], m)
    PROVE  /\ sock'[r] \in Seq(Datagrams)
           /\ Len(sock'[r]) = Len(sock[r]) + 1 /\ sock'[r][Len(sock[r]) + 1] = m
           /\ \A k \in 1..Len(sock[r]) : sock'[r][k] = sock[r][k]
  BY SocketFacts, AppendProperties

\* What recvmsg leaves: the datagrams behind the first.
LEMMA Takes ==
    ASSUME BrokerType, NEW r \in Ranks, sock[r] # <<>>, sock'[r] = Tail(sock[r])
    PROVE  /\ sock'[r] \in Seq(Datagrams)
           /\ Len(sock'[r]) = Len(sock[r]) - 1 /\ Len(sock[r]) > 0
           /\ Head(sock[r]) = sock[r][1]
           /\ \A k \in 1..Len(sock'[r]) : sock'[r][k] = sock[r][k + 1]
<1>1. Head(sock[r]) = sock[r][1]
  BY SocketFacts
<1> QED
  BY <1>1, SocketFacts, HeadTailProperties

-----------------------------------------------------------------------------
\* A rank that a step of another leaves as it is.
Same(q) ==
    /\ at'[q] = at[q] /\ call'[q] = call[q] /\ i'[q] = i[q]
    /\ data'[q] = data[q] /\ dst'[q] = dst[q]
    /\ entered'[q] = entered[q] /\ (pc'[q] = "out" <=> pc[q] = "out")

RankInv(q) == CallInv(q) /\ DataInv(q) /\ DstInv(q)

\* Its own part of the invariant stays.
LEMMA RankFramed == ASSUME BInv, NEW q \in Ranks, Same(q) PROVE RankInv(q)'
<1>1. CallInv(q)'
  BY DEF BInv, CallInv, Same, Call
<1>2. DataInv(q)'
  BY DEF BInv, DataInv, Same, Call
<1>3. DstInv(q)'
  <2>1. Result(q)' = Result(q) /\ Call(q)' = Call(q)
    BY DEF Same, Call, Result
  <2>2. DstInv(q)
    BY DEF BInv
  <2> QED
    BY <2>1, <2>2 DEF DstInv, Same
<1> QED
  BY <1>1, <1>2, <1>3 DEF RankInv

\* What rank 0 knows of the others changes only when they stop waiting for it.
LEMMA RootFramed ==
    ASSUME BInv, Same(0), sock'[0] = sock[0],
           \A q \in Ranks : at[q] = "receive" => at'[q] = "receive"
    PROVE  GatherInv' /\ RootSock'
<1>1. Gathered' = Gathered
  BY DEF Same, Gathered
<1>2. GatherInv'
  BY <1>1 DEF BInv, GatherInv, Same, Gathered
<1>3. RootSock'
  <2>1. \A k \in 1..Len(sock[0]) : sock[0][k].src \in Ranks
    BY SocketFacts, RankFacts DEF BInv
  <2> QED
    BY <2>1 DEF BInv, RootSock, Same, Datagram
<1> QED
  BY <1>2, <1>3

\* What rank 0 has sent to another and the other has taken.
LEMMA PeerFramed ==
    ASSUME BInv, NEW q \in Ranks \ {0}, Same(0), Same(q), sock'[q] = sock[q]
    PROVE  PeerSock(q)' /\ Answered(q)'
<1>1. Sent(q)' = Sent(q) /\ Whole(q)' = Whole(q) /\ Call(0)' = Call(0)
  BY DEF Sent, Same, SpreadTo, Call, Whole
<1>2. Got(q)' = Got(q)
  BY DEF Got, Same
<1> QED
  BY <1>1, <1>2 DEF BInv, PeerSock, Answered, Same, Datagram, Other

\* A step of rank r leaves the others as they are.
Only(r) == \A q \in Ranks \ {r} : Same(q)

\* The invariant from its parts, after a step of rank r ...
LEMMA Assembled ==
    ASSUME BInv, NEW r \in Ranks, Only(r), BrokerType', RankInv(r)', GatherInv', RootSock',
           \A q \in Ranks \ {0} : PeerSock(q)' /\ Answered(q)'
    PROVE  BInv'
<1>1. \A q \in Ranks : RankInv(q)'
  BY RankFramed DEF Only
<1> QED
  BY <1>1 DEF BInv, RankInv

\* ... and, when r is not rank 0 and only its own socket changes, from fewer.
LEMMA PeerAssembled ==
    ASSUME BInv, NEW r \in Ranks \ {0}, Only(r), BrokerType', RankInv(r)',
           \A q \in Ranks \ {r} : sock'[q] = sock[q],
           PeerSock(r)', Answered(r)',
           (at[r] # "receive" \/ at'[r] = "receive") \/ (GatherInv' /\ RootSock')
    PROVE  BInv'
<1>1. 0 \in Ranks /\ Same(0)
  BY RankFacts DEF Only
<1>2. \A q \in Ranks \ {0} : PeerSock(q)' /\ Answered(q)'
  BY <1>1, PeerFramed DEF Only
<1>3. CASE at[r] # "receive" \/ at'[r] = "receive"
  <2>1. \A q \in Ranks : at[q] = "receive" => at'[q] = "receive"
    BY <1>3 DEF Only, Same
  <2> QED
    BY <1>1, <1>2, <2>1, RootFramed, Assembled
<1> QED
  BY <1>2, <1>3, Assembled

\* A step of rank 0 that sends nothing and leaves what it has sent as it is.
LEMMA RootAssembled ==
    ASSUME BInv, Only(0), BrokerType', RankInv(0)', GatherInv', RootSock', sock' = sock,
           \A q \in Ranks \ {0} : Answered(q)',
           \A q \in Ranks \ {0} : at[q] \notin Done => Sent(q)' = Sent(q),
           \A q \in Ranks \ {0} : at[q] = "exit" /\ call'[0] = call[q] =>
               call[0] = call[q] /\ Sent(q)' = Sent(q)
    PROVE  BInv'
<1>1. 0 \in Ranks
  BY RankFacts
<1>2. ASSUME NEW q \in Ranks \ {0} PROVE PeerSock(q)'
  <2>1. Same(q) /\ PeerSock(q)
    BY DEF Only, BInv
  <2>2. Got(q)' = Got(q) /\ Whole(q)' = Whole(q)
    BY <2>1 DEF Got, Whole, Same, Call
  <2> QED
    BY <2>1, <2>2 DEF PeerSock, Same, Datagram, Other
<1> QED
  BY <1>1, <1>2, Assembled

\* Outside the gathering the socket of rank 0 is empty.
LEMMA RootSockEmpty ==
    ASSUME BInv, at[0] \notin {"enter", "exchange_fds", "gather"}
    PROVE  Len(sock[0]) = 0 /\ \A k : k \notin 1..Len(sock[0])
<1>1. Len(sock[0]) \in Nat
  BY SocketFacts, RankFacts DEF BInv
<1>2. 1 \notin 1..Len(sock[0])
  BY DEF BInv, RootSock
<1> QED
  BY <1>1, <1>2

-----------------------------------------------------------------------------
\* Initially no rank has made a call.
LEMMA BInit == BrokerInit => BInv
<1> SUFFICES ASSUME BrokerInit PROVE BInv
  OBVIOUS
<1>1. BrokerType
  BY EmptySeq, RankFacts, BrokerAssumption DEF BrokerInit, BrokerType, Nothing, Middle, Done
<1>2. \A r \in Ranks : CallInv(r) /\ DataInv(r) /\ DstInv(r)
  BY DEF BrokerInit, Init, CallInv, DataInv, DstInv, Done, Fresh, Calls
<1>3. \A r \in Ranks : Len(sock[r]) = 0 /\ at[r] = "idle" /\ call[r] = 0
  BY EmptySeq DEF BrokerInit
<1>4. GatherInv /\ RootSock
  BY <1>3, RankFacts DEF GatherInv, RootSock
<1>5. \A r \in Ranks \ {0} : PeerSock(r) /\ Answered(r)
  BY <1>3, RankFacts DEF PeerSock, Answered, Done
<1> QED
  BY <1>1, <1>2, <1>4, <1>5 DEF BInv

\* The steps within sync() change nothing outside it.
LEMMA InSyncKeeps == ASSUME IInv, BInv, NEW r \in Ranks, InSync(r) PROVE BInv'
<1>1. \A q \in Ranks : Same(q)
  BY DEF InSync, SetSense, SeeSense, Depart, ClearSense, Same, IInv, TypeOK
<1>2. sock' = sock /\ BrokerType'
  BY DEF InSync, BInv, BrokerType
<1>3. GatherInv' /\ RootSock'
  BY <1>1, <1>2, RootFramed, RankFacts DEF Same
<1>4. \A q \in Ranks \ {0} : PeerSock(q)' /\ Answered(q)'
  BY <1>1, <1>2, PeerFramed, RankFacts
<1> QED
  BY <1>1, <1>2, <1>3, <1>4, Assembled, RankFramed DEF Only

\* A call begins: the rank has taken all of the calls before it.
LEMMA BeginKeeps == ASSUME IInv, BInv, NEW r \in Ranks, Begin(r) PROVE BInv'
<1>1. /\ at[r] = "idle" /\ call[r] < Len(Program) /\ call[r] \in Nat /\ Len(Program) \in Nat
      /\ at'[r] = "enter" /\ call'[r] = call[r] + 1 /\ dst'[r] = Nothing
      /\ data' = data /\ sock' = sock /\ i' = i
      /\ entered'[r] = entered[r] + 1 /\ pc'[r] # "out"
  BY BrokerAssumption DEF Begin, Arrive, Goto, BInv, BrokerType, IInv, TypeOK
<1>2. Only(r)
  BY DEF Begin, Arrive, Goto, BInv, BrokerType, IInv, TypeOK, Only, Same
<1>3. BrokerType'
  <2>1. Nothing \in [Ranks -> (Ranks \X Nat) \cup {None}]
    BY DEF Nothing
  <2>2. dst' \in [Ranks -> [Ranks -> (Ranks \X Nat) \cup {None}]]
    BY <2>1 DEF Begin, BInv, BrokerType
  <2>3. at' \in [Ranks -> Middle \cup Done \cup {"enter"}]
    BY DEF Begin, Goto, BInv, BrokerType
  <2>4. call' \in [Ranks -> 0..Len(Program)]
    BY <1>1 DEF Begin, BInv, BrokerType
  <2> QED
    BY <1>1, <2>2, <2>3, <2>4 DEF BInv, BrokerType
<1>4. RankInv(r)'
  <2>1. CallInv(r) /\ DataInv(r) /\ entered[r] \in Nat
    BY DEF BInv, IInv, TypeOK
  <2>2. CallInv(r)'
    BY <1>1, <2>1 DEF CallInv, Done, Calls
  <2>3. DataInv(r)'
    BY <1>1, <2>1 DEF DataInv, Done, Call
  <2>4. DstInv(r)'
    BY <1>1 DEF DstInv, Fresh, Nothing
  <2> QED
    BY <2>2, <2>3, <2>4 DEF RankInv
<1>5. \A q \in Ranks : \/ call[q] = call[r] /\ at[q] \in Done
                       \/ call[q] = call[r] + 1 /\ at[q] = "enter"
  BY <1>1, TogetherDone
<1>6. CASE r # 0
  <2>1. 0 \in Ranks /\ Same(0)
    BY <1>2, <1>6, RankFacts DEF Only
  <2>2. Sent(r)' = 0
    BY <1>1, <1>5, <2>1 DEF Sent, Same, Done
  <2>3. Len(sock[r]) = 0
    BY <1>1, <1>6 DEF BInv, PeerSock, Done
  <2>4. PeerSock(r)'
    BY <1>1, <2>2, <2>3 DEF PeerSock, Got, Done
  <2>5. Answered(r)'
    BY <1>1, <1>5, <2>1 DEF Answered, Same, Done
  <2> QED
    BY <1>1, <1>2, <1>3, <1>4, <1>6, <2>4, <2>5, PeerAssembled
<1>7. CASE r = 0
  <2>1. Len(sock[0]) = 0
    BY <1>1, <1>7, RootSockEmpty
  <2>2. GatherInv' /\ RootSock'
    BY <1>1, <1>7, <2>1 DEF GatherInv, RootSock
  <2>3. \A q \in Ranks \ {0} : Answered(q)'
    BY <1>1, <1>7 DEF Answered, Done
  <2>4. \A q \in Ranks \ {0} : at[q] \notin Done => Sent(q)' = Sent(q)
    BY <1>1, <1>2, <1>5, <1>7 DEF Sent, Only, Same, Done
  <2>5. \A q \in Ranks \ {0} : at[q] = "exit" => call'[0] # call[q]
    BY <1>1, <1>5, <1>7
  <2> QED
    BY <1>1, <1>2, <1>3, <1>4, <1>7, <2>2, <2>3, <2>4, <2>5, RootAssembled
<1> QED
  BY <1>6, <1>7

\* A rank comes out of the first sync of a call, so all ranks are in that call.
LEMMA EnteredKeeps == ASSUME IInv, BInv, NEW r \in Ranks, Entered(r) PROVE BInv'
<1>1. /\ at[r] = "enter" /\ call' = call /\ dst' = dst /\ data' = data /\ sock' = sock
      /\ at'[r] = Call(r) /\ i'[r] = 0
      /\ entered' = entered /\ pc[r] = "wait2" /\ sense = 0 /\ pc'[r] = "out"
  BY DEF Entered, Return, Goto, Counter, BInv, BrokerType, IInv, TypeOK
<1>2. Only(r)
  BY DEF Entered, Return, Goto, Counter, BInv, BrokerType, IInv, TypeOK, Only, Same
<1>3. Call(r) \in Calls /\ Call(r)' = Call(r)
  <2>1. call[r] \in 1..Len(Program)
    BY <1>1, BrokerAssumption DEF BInv, BrokerType, CallInv
  <2> QED
    BY <1>1, <2>1, BrokerAssumption, LenProperties DEF Call
<1>4. BrokerType'
  BY <1>1, <1>3 DEF Entered, Goto, Counter, BInv, BrokerType, Calls, Middle
<1>5. RankInv(r)'
  <2>1. CallInv(r) /\ DstInv(r)
    BY DEF BInv
  <2>2. CallInv(r)'
    BY <1>1, <1>3, <2>1 DEF CallInv, Done, Calls
  <2>3. DataInv(r)'
    BY <1>1, <1>3 DEF DataInv, Done, Calls
  <2>4. DstInv(r)'
    BY <1>1, <1>3, <2>1 DEF DstInv, Fresh, Calls, Nothing
  <2> QED
    BY <2>2, <2>3, <2>4 DEF RankInv
<1>6. \A q \in Ranks : call[q] = call[r]
  BY <1>1, TogetherInside
<1>7. CASE r # 0
  <2>1. 0 \in Ranks /\ Same(0)
    BY <1>2, <1>7, RankFacts DEF Only
  <2>2. Sent(r)' = Sent(r) /\ Got(r)' = Got(r) /\ at[r] \notin Done /\ at'[r] \notin Done
    BY <1>1, <1>3, <2>1 DEF Sent, Got, Same, Done, Calls, Call, Whole
  <2>3. PeerSock(r) /\ Answered(r)
    BY <1>7 DEF BInv
  <2>4. PeerSock(r)'
    BY <1>1, <2>2, <2>3 DEF PeerSock, Done, Datagram, Other
  <2>5. Answered(r)'
    BY <1>1, <2>1, <2>2, <2>3 DEF Answered, Same, Done, Call
  <2> QED
    BY <1>1, <1>2, <1>4, <1>5, <1>7, <2>4, <2>5, PeerAssembled
<1>8. CASE r = 0
  <2>1. GatherInv'
    BY <1>1, <1>3, <1>8 DEF GatherInv, Calls
  <2>2. ASSUME NEW k \in 1..Len(sock[0]) PROVE at'[0] = "exchange_fds"
    <3> DEFINE q == sock[0][k].src
    <3>1. q \in Ranks /\ at[q] = "receive"
      BY SocketFacts, RankFacts DEF BInv, RootSock
    <3>2. Call(q) = "exchange_fds" /\ call[q] = call[0]
      BY <3>1, <1>6, <1>8 DEF BInv, CallInv
    <3> QED
      BY <1>1, <1>8, <3>2 DEF Call
  <2>3. \A k \in 1..Len(sock[0]) : sock[0][k].src \in Ranks
    BY SocketFacts, RankFacts DEF BInv
  <2>4. RootSock'
    <3>1. ASSUME NEW k \in 1..Len(sock[0])
          PROVE  LET q == sock[0][k].src
                 IN  q # 0 /\ sock[0][k] = Datagram(q, call[0]) /\ at'[q] = "receive"
                     /\ dst[0][q] = None
      BY <1>2, <1>8, <2>3 DEF BInv, RootSock, Only, Same
    <3>2. \A j, k \in 1..Len(sock[0]) : j # k => sock[0][j].src # sock[0][k].src
      BY DEF BInv, RootSock
    <3>3. \A k \in 1..Len(sock[0]) : at'[0] \in {"enter", "exchange_fds", "gather"}
      BY <2>2
    <3>4. sock' = sock /\ call' = call /\ dst' = dst
      BY <1>1
    <3> QED
      BY <3>1, <3>2, <3>3, <3>4 DEF RootSock, Datagram
  <2>5. \A q \in Ranks \ {0} : Answered(q)'
    BY <1>1, <1>3, <1>8 DEF Answered, Calls, Done
  <2>6. \A q \in Ranks \ {0} : Sent(q) = 0 /\ Sent(q)' = 0
    BY <1>1, <1>3, <1>8, RankFacts DEF Sent, Done, Calls
  <2> QED
    BY <1>1, <1>2, <1>4, <1>5, <1>8, <2>1, <2>4, <2>5, <2>6, RootAssembled
<1> QED
  BY <1>7, <1>8

\* A rank leaves a call when its last sync is over.
LEMMA LeaveKeeps == ASSUME IInv, BInv, NEW r \in Ranks, Leave(r) PROVE BInv'
<1>1. /\ at[r] = "exit" /\ call' = call /\ dst' = dst /\ data' = data /\ sock' = sock
      /\ at'[r] = (IF Call(r) = "exchange_data" THEN "copy" ELSE "idle") /\ i'[r] = 0
      /\ entered' = entered /\ pc[r] = "wait2" /\ sense = 0 /\ pc'[r] = "out"
  BY DEF Leave, Return, Goto, Counter, BInv, BrokerType, IInv, TypeOK
<1>2. Only(r)
  BY DEF Leave, Return, Goto, Counter, BInv, BrokerType, IInv, TypeOK, Only, Same
<1>3. BrokerType'
  BY <1>1 DEF Leave, Goto, Counter, BInv, BrokerType, Done
<1>4. RankInv(r)'
  <2>1. CallInv(r) /\ DstInv(r) /\ DataInv(r) /\ Call(r)' = Call(r) /\ Result(r)' = Result(r)
    BY <1>1 DEF BInv, Call, Result
  <2>2. CallInv(r)'
    BY <1>1, <2>1 DEF CallInv, Done, Calls
  <2>3. DataInv(r)'
    BY <1>1, <2>1 DEF DataInv, Done
  <2>4. Nothing = [q \in Ranks |-> IF q < 0 THEN <<q, call[r]>> ELSE None] /\ 0 < WorldSize
    BY RankFacts DEF Nothing
  <2>5. DstInv(r)'
    BY <1>1, <2>1, <2>4 DEF DstInv, Fresh
  <2> QED
    BY <2>2, <2>3, <2>5 DEF RankInv
<1>5. at'[r] \in Done /\ at[r] \in Done /\ at'[r] # "exit"
  BY <1>1 DEF Done
<1>6. CASE r # 0
  <2>1. 0 \in Ranks /\ Same(0)
    BY <1>2, <1>6, RankFacts DEF Only
  <2>2. PeerSock(r) /\ Answered(r)
    BY <1>6 DEF BInv
  <2>3. Len(sock[r]) = 0
    BY <1>5, <2>2 DEF PeerSock
  <2>4. PeerSock(r)'
    BY <1>1, <1>5, <2>3 DEF PeerSock
  <2>5. Answered(r)'
    BY <1>5 DEF Answered, Done
  <2> QED
    BY <1>1, <1>2, <1>3, <1>4, <1>6, <2>4, <2>5, PeerAssembled
<1>7. CASE r = 0
  <2>1. GatherInv' /\ RootSock'
    BY <1>1, <1>7, RootSockEmpty DEF GatherInv, RootSock
  <2>2. \A q \in Ranks \ {0} : Answered(q)'
    BY <1>1, <1>2, <1>5, <1>7 DEF BInv, Answered, Only, Same, Call, Done
  <2>3. \A q \in Ranks \ {0} : Sent(q)' = Sent(q)
    BY <1>1, <1>5, <1>7 DEF Sent, Done, Whole, Call
  <2> QED
    BY <1>1, <1>2, <1>3, <1>4, <1>7, <2>1, <2>2, <2>3, RootAssembled
<1> QED
  BY <1>6, <1>7

\* exchange_data: a rank writes its own part of the vault's data.
LEMMA WriteDataKeeps == ASSUME IInv, BInv, NEW r \in Ranks, WriteData(r) PROVE BInv'
<1>1. /\ at[r] = "exchange_data" /\ call' = call /\ dst' = dst /\ sock' = sock /\ i' = i
      /\ data'[r] = <<r, call[r]>> /\ at'[r] = "exit" /\ call[r] \in Nat
      /\ entered'[r] = entered[r] + 1 /\ pc[r] = "out" /\ pc'[r] # "out"
  BY DEF WriteData, Arrive, Goto, BInv, BrokerType, IInv, TypeOK
<1>2. Only(r)
  BY DEF WriteData, Arrive, Goto, BInv, BrokerType, IInv, TypeOK, Only, Same
<1>3. BrokerType'
  <2>1. <<r, call[r]>> \in (Ranks \X Nat) \cup {None}
    BY <1>1
  <2> QED
    BY <1>1, <2>1 DEF WriteData, Goto, BInv, BrokerType, Done
<1>4. Call(r) = "exchange_data" /\ Call(r)' = Call(r)
  BY <1>1 DEF BInv, CallInv, Calls, Call
<1>5. RankInv(r)'
  <2>1. CallInv(r) /\ DstInv(r) /\ entered[r] \in Nat
    BY DEF BInv, IInv, TypeOK
  <2>2. CallInv(r)'
    BY <1>1, <1>4, <2>1 DEF CallInv, Done, Calls
  <2>3. DataInv(r)'
    BY <1>1 DEF DataInv
  <2>4. DstInv(r)'
    BY <1>1, <1>4, <2>1 DEF DstInv, Fresh, Nothing
  <2> QED
    BY <2>2, <2>3, <2>4 DEF RankInv
<1>6. CASE r # 0
  <2>1. 0 \in Ranks /\ Same(0) /\ call[0] = call[r]
    BY <1>1, <1>2, <1>6, RankFacts, TogetherInside DEF Only, Middle
  <2>2. Call(0) = "exchange_data"
    BY <1>4, <2>1 DEF Call
  <2>3. at[0] # "spread" /\ at[0] # "broadcast_fd"
    BY <2>1, <2>2 DEF BInv, CallInv, Calls
  <2>4. Sent(r) = 0 /\ Sent(r)' = 0 /\ Whole(r)' = 0
    BY <1>1, <1>4, <2>1, <2>2, <2>3 DEF Sent, Same, Whole, Call
  <2>5. PeerSock(r) /\ Answered(r)
    BY <1>6 DEF BInv
  <2>6. Len(sock[r]) = 0
    BY <1>1, <2>4, <2>5 DEF PeerSock, Done, Got
  <2>7. PeerSock(r)'
    BY <1>1, <2>4, <2>6 DEF PeerSock, Done
  <2>8. Answered(r)'
    BY <1>1 DEF Answered, Done
  <2> QED
    BY <1>1, <1>2, <1>3, <1>5, <1>6, <2>7, <2>8, PeerAssembled
<1>7. CASE r = 0
  <2>1. GatherInv' /\ RootSock'
    BY <1>1, <1>7, RootSockEmpty DEF GatherInv, RootSock
  <2>2. \A q \in Ranks \ {0} : Answered(q)'
    BY <1>4, <1>7 DEF Answered
  <2>3. \A q \in Ranks \ {0} : Sent(q)' = 0 /\ Sent(q) = 0
    BY <1>1, <1>4, <1>7 DEF Sent, Done, Whole
  <2> QED
    BY <1>1, <1>2, <1>3, <1>5, <1>7, <2>1, <2>2, <2>3, RootAssembled
<1> QED
  BY <1>6, <1>7

\* exchange_data: a rank copies the data of all, which no next call has overwritten yet.
LEMMA CopyDataKeeps == ASSUME IInv, BInv, NEW r \in Ranks, CopyData(r) PROVE BInv'
<1>1. /\ at[r] = "copy" /\ call' = call /\ data' = data /\ sock' = sock /\ i'[r] = i[r] + 1
      /\ at'[r] = (IF i[r] + 1 = WorldSize THEN "idle" ELSE "copy")
      /\ dst' = [dst EXCEPT ![r][i[r]] = data[i[r]]] /\ entered' = entered /\ pc' = pc
  BY DEF CopyData, Goto, Counter, BInv, BrokerType, vars
<1>2. Only(r)
  BY DEF CopyData, Goto, Counter, BInv, BrokerType, vars, Only, Same
<1>3. /\ call[r] \in Nat /\ i[r] \in Ranks /\ i[r] \in Nat /\ Call(r) = "exchange_data"
      /\ dst[r] = [q \in Ranks |-> IF q < i[r] THEN <<q, call[r]>> ELSE None]
      /\ call[r] >= 1 /\ i[r] < WorldSize
  <2>1. CallInv(r) /\ DstInv(r) /\ call[r] \in Nat /\ i[r] \in Nat
    BY DEF BInv, BrokerType
  <2>2. /\ i[r] < WorldSize /\ call[r] >= 1 /\ Call(r) = "exchange_data"
        /\ dst[r] = [q \in Ranks |-> IF q < i[r] THEN <<q, call[r]>> ELSE None]
    BY <1>1, <2>1 DEF CallInv, DstInv
  <2>3. i[r] \in Ranks
    BY <2>1, <2>2, RankFacts DEF M
  <2> QED
    BY <2>1, <2>2, <2>3
<1>4. data[i[r]] = <<i[r], call[r]>>
  <2> DEFINE q == i[r]
  <2>1. DataInv(q) /\ q \in Ranks
    BY <1>3 DEF BInv
  <2>2. CASE call[q] = call[r] /\ at[q] \in Done
    BY <1>3, <2>1, <2>2 DEF DataInv, Call
  <2>3. CASE call[q] = call[r] + 1 /\ at[q] = "enter"
    BY <1>3, <2>1, <2>3 DEF DataInv, Call
  <2> QED
    BY <1>1, <1>3, <2>2, <2>3, TogetherDone
<1>5. BrokerType'
  <2>1. data[i[r]] \in (Ranks \X Nat) \cup {None}
    BY <1>3 DEF BInv, BrokerType
  <2>2. dst' \in [Ranks -> [Ranks -> (Ranks \X Nat) \cup {None}]]
    BY <1>1, <1>3, <2>1 DEF BInv, BrokerType
  <2> QED
    BY <1>1, <1>3, <2>2, SMTT(20) DEF CopyData, Goto, Counter, BInv, BrokerType, Done
<1>6. dst'[r] = [q \in Ranks |-> IF q < i[r] + 1 THEN <<q, call[r]>> ELSE None]
  <2>1. dst'[r] = [dst[r] EXCEPT ![i[r]] = <<i[r], call[r]>>]
    BY <1>1, <1>4 DEF BInv, BrokerType
  <2>2. \A q \in Ranks : q < i[r] + 1 <=> q < i[r] \/ q = i[r]
    BY <1>3, RankFacts
  <2> QED
    BY <1>3, <2>1, <2>2
<1>7. RankInv(r)'
  <2>1. CallInv(r) /\ DataInv(r) /\ Call(r)' = Call(r)
    BY <1>1 DEF BInv, Call
  <2>2. CallInv(r)'
    BY <1>1, <2>1 DEF CallInv, Done, Calls
  <2>3. DataInv(r)'
    BY <1>1, <2>1 DEF DataInv, Done
  <2>4. Result(r)' = [q \in Ranks |-> <<q, call[r]>>]
    BY <1>1, <1>3, <2>1 DEF Result
  <2>5. i[r] + 1 = WorldSize => dst'[r] = [q \in Ranks |-> <<q, call[r]>>]
    BY <1>6, RankFacts DEF M
  <2>6. DstInv(r)'
    BY <1>1, <1>3, <1>6, <2>4, <2>5, RankFacts DEF DstInv, Fresh
  <2> QED
    BY <2>2, <2>3, <2>6 DEF RankInv
<1>8. at'[r] \in Done /\ at[r] \in Done /\ at'[r] # "exit"
  BY <1>1 DEF Done
<1>9. CASE r # 0
  <2>1. Len(sock[r]) = 0
    BY <1>8, <1>9 DEF BInv, PeerSock
  <2>2. PeerSock(r)'
    BY <1>1, <1>8, <2>1 DEF PeerSock
  <2>3. Answered(r)'
    BY <1>8 DEF Answered, Done
  <2> QED
    BY <1>1, <1>2, <1>5, <1>7, <1>9, <2>2, <2>3, PeerAssembled
<1>10. CASE r = 0
  <2>1. GatherInv' /\ RootSock'
    BY <1>1, <1>10, RootSockEmpty DEF GatherInv, RootSock
  <2>2. \A q \in Ranks \ {0} : Answered(q)'
    BY <1>1, <1>3, <1>10 DEF Answered, Call
  <2>3. \A q \in Ranks \ {0} : Sent(q)' = Sent(q)
    BY <1>1, <1>8, <1>10 DEF Sent, Done, Whole, Call
  <2> QED
    BY <1>1, <1>2, <1>5, <1>7, <1>10, <2>1, <2>2, <2>3, RootAssembled
<1> QED
  BY <1>9, <1>10

-----------------------------------------------------------------------------
\* exchange_fds, rank 0.
LEMMA FdsRootKeeps == ASSUME IInv, BInv, FdsRoot PROVE BInv'
<1>0. 0 \in Ranks /\ M \in Nat /\ WorldSize = M + 1 /\ Ranks = 0..M
  BY RankFacts DEF M
<1>1. /\ at[0] = "exchange_fds" /\ call' = call /\ data' = data /\ sock' = sock /\ i'[0] = 0
      /\ at'[0] = (IF WorldSize > 1 THEN "gather" ELSE "spread") /\ call[0] \in Nat
      /\ dst' = [dst EXCEPT ![0][0] = <<0, call[0]>>] /\ entered' = entered /\ pc' = pc
  BY <1>0 DEF FdsRoot, Goto, Counter, BInv, BrokerType, vars
<1>2. Only(0)
  BY <1>0 DEF FdsRoot, Goto, Counter, BInv, BrokerType, vars, Only, Same
<1>3. CallInv(0) /\ dst[0] = Nothing /\ Call(0) = "exchange_fds" /\ Call(0)' = Call(0)
  BY <1>0, <1>1 DEF BInv, CallInv, DstInv, Fresh, Calls, Call
<1>4. dst'[0] = [q \in Ranks |-> IF q = 0 THEN <<0, call[0]>> ELSE None]
  BY <1>0, <1>1, <1>3 DEF BInv, BrokerType, Nothing
<1>5. BrokerType'
  <2>1. dst' \in [Ranks -> [Ranks -> (Ranks \X Nat) \cup {None}]]
    BY <1>0, <1>1 DEF BInv, BrokerType
  <2>2. at' \in [Ranks -> Middle \cup Done \cup {"enter"}]
    BY DEF FdsRoot, Goto, BInv, BrokerType, Middle
  <2>3. i' \in [Ranks -> Nat]
    BY DEF FdsRoot, Counter, BInv, BrokerType
  <2> QED
    BY <1>1, <2>1, <2>2, <2>3 DEF BInv, BrokerType
<1>6. RankInv(0)'
  <2>1. CallInv(0)'
    BY <1>1, <1>3 DEF CallInv, Done, Calls
  <2>2. DataInv(0)'
    BY <1>1 DEF DataInv, Done
  <2>3. WorldSize = 1 => dst'[0] = [q \in Ranks |-> <<q, call[0]>>]
    BY <1>0, <1>4
  <2>4. 0 <= M * M
    BY <1>0
  <2>5. DstInv(0)'
    BY <1>0, <1>1, <2>3, <2>4 DEF DstInv, Fresh
  <2> QED
    BY <2>1, <2>2, <2>5 DEF RankInv
<1>7. Gathered' = {} /\ Cardinality({}) = 0
  BY <1>4, FS_EmptySet DEF Gathered
<1>8. GatherInv'
  BY <1>0, <1>1, <1>4, <1>7 DEF GatherInv
<1>9. RootSock'
  <2>1. ASSUME NEW k \in 1..Len(sock[0])
        PROVE  LET q == sock[0][k].src
               IN  q # 0 /\ sock[0][k] = Datagram(q, call[0]) /\ at'[q] = "receive"
                   /\ dst'[0][q] = None /\ at'[0] = "gather"
    <3> DEFINE q == sock[0][k].src
    <3>1. q \in Ranks /\ q # 0 /\ at[q] = "receive" /\ sock[0][k] = Datagram(q, call[0])
      BY <1>0, SocketFacts DEF BInv, RootSock
    <3> HIDE DEF q
    <3>2. at'[q] = "receive" /\ dst'[0][q] = None /\ at'[0] = "gather"
      BY <1>0, <1>1, <1>2, <1>4, <3>1 DEF Only, Same
    <3> QED
      BY <3>1, <3>2 DEF q
  <2>2. \A j, k \in 1..Len(sock[0]) : j # k => sock[0][j].src # sock[0][k].src
    BY DEF BInv, RootSock
  <2>3. sock' = sock /\ call' = call
    BY <1>1
  <2> QED
    BY <2>1, <2>2, <2>3 DEF RootSock, Datagram
<1>10. ASSUME NEW q \in Ranks \ {0} PROVE Answered(q)' /\ Sent(q)' = 0 /\ Sent(q) = 0
  <2>1. at'[0] = "gather"
    BY <1>0, <1>1, <1>10
  <2> QED
    BY <1>1, <2>1 DEF Answered, Sent, Done
<1> QED
  BY <1>1, <1>2, <1>5, <1>6, <1>8, <1>9, <1>10, RootAssembled

\* exchange_fds: rank 0 takes the next descriptor from its socket.
LEMMA FdsGatherKeeps == ASSUME IInv, BInv, FdsGather PROVE BInv'
<1> DEFINE m == Head(sock[0])
           q == m.src
           c == call[0]
<1>0. 0 \in Ranks /\ M \in Nat /\ WorldSize - 1 = M /\ Ranks = 0..M
  BY RankFacts DEF M
<1>1. at[0] = "gather" /\ sock[0] # <<>> /\ sock' = [sock EXCEPT ![0] = Tail(@)]
      /\ call' = call /\ data' = data
  BY DEF FdsGather, RecvFd
<1>2. /\ sock'[0] \in Seq(Datagrams) /\ Len(sock[0]) \in Nat
      /\ Len(sock'[0]) = Len(sock[0]) - 1 /\ Len(sock[0]) > 0
      /\ m = sock[0][1] /\ \A k \in 1..Len(sock'[0]) : sock'[0][k] = sock[0][k + 1]
  <2>1. sock'[0] = Tail(sock[0]) /\ BrokerType
    BY <1>0, <1>1 DEF BInv, BrokerType
  <2> QED
    BY <1>0, <1>1, <2>1, Takes, SocketFacts
<1>3. q \in Ranks /\ q # 0 /\ m = Datagram(q, c) /\ at[q] = "receive" /\ dst[0][q] = None
  <2>1. 1 \in 1..Len(sock[0])
    BY <1>2
  <2>2. m = sock[0][1] /\ sock[0][1].src \in Ranks
    BY <1>0, <1>2, <2>1, SocketFacts DEF BInv
  <2> QED
    BY <2>1, <2>2 DEF BInv, RootSock
<1>4. m.fd = <<q, c>> /\ c \in Nat
  <2>1. c \in Nat
    BY <1>0 DEF BInv, BrokerType
  <2>2. Datagram(q, c).fd = <<q, c>>
    BY DEF Datagram
  <2> QED
    BY <1>3, <2>1, <2>2
<1>5. /\ dst' = [dst EXCEPT ![0][q] = <<q, c>>] /\ UNCHANGED vars
      /\ i' = [i EXCEPT ![0] = (i[0] + 1) % (WorldSize - 1)]
      /\ at' = [at EXCEPT ![0] = IF i[0] + 1 = WorldSize - 1 THEN "spread" ELSE "gather"]
  <2>1. m.src # 0
    BY <1>3
  <2>2. FdsReceive(0, m) /\ UNCHANGED vars /\ Counter(0, (i[0] + 1) % (WorldSize - 1))
        /\ Goto(0, IF i[0] + 1 = WorldSize - 1 THEN "spread" ELSE "gather")
    BY <2>1 DEF FdsGather
  <2> QED
    BY <1>4, <2>2 DEF FdsReceive, Goto, Counter
<1> HIDE DEF m, q
<1>6. Only(0)
  BY <1>0, <1>1, <1>5 DEF BInv, BrokerType, vars, Only, Same
<1>7. /\ dst[0][0] = <<0, c>> /\ i[0] = Cardinality(Gathered) /\ i[0] < M /\ i[0] \in Nat
      /\ \A p \in Gathered : dst[0][p] = <<p, c>> /\ at[p] = "receive"
  BY <1>0, <1>1 DEF BInv, GatherInv, BrokerType
<1>8. i'[0] = IF i[0] + 1 = M THEN 0 ELSE i[0] + 1
  <2>1. M \in Nat \ {0} /\ i[0] \in 0..(M - 1)
    BY <1>0, <1>7
  <2>2. i'[0] = (i[0] + 1) % M
    BY <1>0, <1>5 DEF BInv, BrokerType
  <2> QED
    BY <2>1, <2>2, Wraps
<1>9. BrokerType'
  <2>1. <<q, c>> \in (Ranks \X Nat) \cup {None}
    BY <1>3, <1>4
  <2>2. dst' \in [Ranks -> [Ranks -> (Ranks \X Nat) \cup {None}]]
    BY <1>0, <1>3, <1>5, <2>1 DEF BInv, BrokerType
  <2>3. i' \in [Ranks -> Nat]
    <3>1. (i[0] + 1) % (WorldSize - 1) \in Nat
      BY <1>0, <1>7
    <3> QED
      BY <1>5, <3>1 DEF BInv, BrokerType
  <2>4. at' \in [Ranks -> Middle \cup Done \cup {"enter"}]
    BY <1>5 DEF BInv, BrokerType, Middle
  <2>5. sock' \in [Ranks -> Seq([fd : Ranks \X Nat, src : Ranks])]
    BY <1>0, <1>1, <1>2 DEF BInv, BrokerType, Datagrams
  <2> QED
    BY <1>1, <2>2, <2>3, <2>4, <2>5 DEF BInv, BrokerType
<1>10. \A p \in Ranks : dst'[0][p] = IF p = q THEN <<q, c>> ELSE dst[0][p]
  BY <1>0, <1>3, <1>5 DEF BInv, BrokerType
<1>11. q \notin Gathered /\ Gathered' = Gathered \cup {q} /\ <<q, c>> # None
  BY <1>3, <1>4, <1>10, RankFacts DEF Gathered
<1>12. /\ Cardinality(Gathered') = i[0] + 1
       /\ i[0] + 1 = M => Gathered' = Ranks \ {0}
  <2>1. IsFiniteSet(Ranks \ {0}) /\ Cardinality(Ranks \ {0}) = M
    BY <1>0, RankFacts, FS_RemoveElement DEF M
  <2>2. Gathered \subseteq Ranks \ {0} /\ Gathered' \subseteq Ranks \ {0}
    BY DEF Gathered
  <2>3. IsFiniteSet(Gathered) /\ IsFiniteSet(Gathered')
    BY <2>1, <2>2, FS_Subset
  <2>4. Cardinality(Gathered') = i[0] + 1
    BY <1>7, <1>11, <2>3, FS_AddElement
  <2> QED
    BY <2>1, <2>2, <2>4, FS_Subset
<1>13. at'[0] = IF i[0] + 1 = M THEN "spread" ELSE "gather"
  BY <1>0, <1>5 DEF BInv, BrokerType
<1>14. GatherInv'
  <2>1. dst'[0][0] = <<0, c>>
    BY <1>0, <1>3, <1>7, <1>10
  <2>2. \A p \in Gathered' : dst'[0][p] = <<p, c>> /\ at'[p] = "receive"
    BY <1>3, <1>6, <1>7, <1>10, <1>11 DEF Gathered, Only, Same
  <2>3. at'[0] = "gather" => i'[0] = Cardinality(Gathered') /\ i'[0] < M
    BY <1>0, <1>7, <1>8, <1>12, <1>13
  <2> QED
    BY <1>1, <2>1, <2>2, <2>3 DEF GatherInv
<1>15. RankInv(0)'
  <2>1. CallInv(0) /\ Call(0)' = Call(0) /\ Call(0) = "exchange_fds"
    BY <1>0, <1>1 DEF BInv, CallInv, Call
  <2>2. CallInv(0)'
    BY <1>1, <1>5, <1>13, <2>1 DEF CallInv, Done, Calls, vars
  <2>3. DataInv(0)'
    BY <1>13 DEF DataInv, Done
  <2>4. at'[0] = "spread" => \A p \in Ranks : dst'[0][p] = <<p, c>>
    BY <1>7, <1>10, <1>11, <1>12, <1>13
  <2>5. at'[0] = "spread" => dst'[0] = [p \in Ranks |-> <<p, c>>]
    BY <1>0, <1>9, <2>4 DEF BrokerType
  <2>6. at'[0] = "spread" => i'[0] <= M * M
    BY <1>0, <1>7, <1>8, <1>13
  <2>7. DstInv(0)'
    BY <1>1, <1>13, <2>5, <2>6 DEF DstInv, Fresh
  <2> QED
    BY <2>2, <2>3, <2>7 DEF RankInv
<1>16. ASSUME NEW k \in 1..Len(sock'[0])
       PROVE  LET p == sock'[0][k].src
              IN  p # 0 /\ sock'[0][k] = Datagram(p, c) /\ at'[p] = "receive"
                  /\ dst'[0][p] = None /\ at'[0] = "gather"
  <2> DEFINE p == sock[0][k + 1].src
  <2>1. k + 1 \in 1..Len(sock[0]) /\ 1 \in 1..Len(sock[0]) /\ k + 1 # 1 /\ sock'[0][k] = sock[0][k + 1]
    BY <1>2, SMTT(20)
  <2>2. p \in Ranks
    BY <1>0, <2>1, SocketFacts DEF BInv
  <2>3. p # 0 /\ sock[0][k + 1] = Datagram(p, c) /\ at[p] = "receive" /\ dst[0][p] = None
    BY <2>1 DEF BInv, RootSock
  <2>4. p # q
    BY <1>2, <2>1 DEF BInv, RootSock, q
  <2> HIDE DEF p
  <2>5. at'[p] = "receive" /\ dst'[0][p] = None
    BY <1>6, <1>10, <2>2, <2>3, <2>4 DEF Only, Same
  <2>6. p \notin Gathered'
    BY <2>5 DEF Gathered
  <2>7. at'[0] = "gather"
    BY <1>12, <1>13, <2>2, <2>3, <2>6
  <2> QED
    BY <2>1, <2>3, <2>5, <2>7 DEF p
<1>17. RootSock'
  <2>1. \A j, k \in 1..Len(sock[0]) : j # k => sock[0][j].src # sock[0][k].src
    BY DEF BInv, RootSock
  <2>2. \A j, k \in 1..Len(sock'[0]) : j # k => sock'[0][j].src # sock'[0][k].src
    <3> SUFFICES ASSUME NEW j \in 1..Len(sock'[0]), NEW k \in 1..Len(sock'[0]), j # k
                 PROVE  sock'[0][j].src # sock'[0][k].src
      OBVIOUS
    <3>1. j + 1 \in 1..Len(sock[0]) /\ k + 1 \in 1..Len(sock[0]) /\ j + 1 # k + 1
      BY <1>2
    <3> QED
      BY <1>2, <2>1, <3>1
  <2>3. call'[0] = c
    BY <1>1
  <2> QED
    BY <1>16, <2>2, <2>3 DEF RootSock, Datagram
<1>18. ASSUME NEW p \in Ranks \ {0} PROVE PeerSock(p)' /\ Answered(p)'
  <2>1. Same(p) /\ PeerSock(p) /\ sock'[p] = sock[p]
    BY <1>0, <1>1, <1>6, <1>18 DEF BInv, Only, BrokerType
  <2>2. Sent(p) = 0
    BY <1>1 DEF Sent, Done
  <2>3. Sent(p)' = 0
    <3>1. 0 \in 0..(M * M)
      BY <1>0
    <3>2. SpreadTo(p, 0) = 0
      BY <1>18, <3>1, SpreadStep
    <3>3. at'[0] = "spread" => SpreadTo(p, i'[0]) = 0
      BY <1>8, <1>13, <3>2
    <3> QED
      BY <1>13, <3>3 DEF Sent, Done, SpreadTo
  <2>4. Got(p)' = Got(p) /\ Whole(p)' = Whole(p)
    BY <2>1 DEF Got, Whole, Same, Call
  <2>5. PeerSock(p)'
    BY <1>1, <2>1, <2>2, <2>3, <2>4 DEF PeerSock, Same, Datagram, Other
  <2>6. at'[0] = "spread" => at'[p] = "receive"
    <3>1. at'[0] = "spread" => p \in Gathered'
      BY <1>12, <1>13, <1>18
    <3> QED
      BY <1>3, <1>7, <1>11, <2>1, <3>1 DEF Same
  <2>7. Answered(p)'
    BY <1>13, <2>6 DEF Answered, Done
  <2> QED
    BY <2>5, <2>7
<1> QED
  BY <1>0, <1>6, <1>9, <1>14, <1>15, <1>17, <1>18, Assembled

\* Rank 0 sends a rank the next of the datagrams it is to receive.
LEMMA RootSends ==
    ASSUME IInv, BInv, at[0] \in {"spread", "broadcast_fd"}, at' = at, call' = call, dst' = dst,
           data' = data, Only(0), i' \in [Ranks -> Nat], RankInv(0)',
           NEW to \in Ranks \ {0}, Sent(to) < Whole(to), Sent(to) \in Nat,
           Sent(to)' = Sent(to) + 1,
           \A q \in Ranks \ {0, to} : Sent(q)' = Sent(q),
           Datagram(Other(to, Sent(to)), call[0]) \in Datagrams,
           sock' = [sock EXCEPT ![to] = Append(@, Datagram(Other(to, Sent(to)), call[0]))]
    PROVE  BInv'
<1> DEFINE m == Datagram(Other(to, Sent(to)), call[0])
<1>0. 0 \in Ranks
  BY RankFacts
<1>1. call[to] = call[0] /\ at[to] \notin {"idle", "copy"}
  BY <1>0, TogetherInside DEF Middle
<1>2. PeerSock(to) /\ Same(to)
  BY DEF BInv, Only
<1>3. at[to] # "exit" /\ at[to] \notin Done
  <2>1. at[to] = "exit" => Sent(to) = Whole(to)
    BY <1>1, <1>2 DEF PeerSock
  <2>2. at[to] # "exit"
    BY <2>1
  <2> QED
    BY <1>1, <2>2 DEF Done
<1>4. BrokerType /\ sock'[to] = Append(sock[to], m) /\ m \in Datagrams
  BY DEF BInv, BrokerType
<1> HIDE DEF m
<1>5. /\ sock'[to] \in Seq(Datagrams) /\ Len(sock[to]) \in Nat
      /\ Len(sock'[to]) = Len(sock[to]) + 1 /\ sock'[to][Len(sock[to]) + 1] = m
      /\ \A k \in 1..Len(sock[to]) : sock'[to][k] = sock[to][k]
  BY <1>4, Sends, SocketFacts
<1>6. BrokerType'
  <2>1. sock' \in [Ranks -> Seq([fd : Ranks \X Nat, src : Ranks])]
    BY <1>5 DEF BInv, BrokerType, Datagrams
  <2> QED
    BY <2>1 DEF BInv, BrokerType
<1>7. sock'[0] = sock[0]
  BY <1>0 DEF BInv, BrokerType
<1>8. GatherInv' /\ RootSock'
  BY <1>7, RootSockEmpty DEF GatherInv, RootSock
<1>9. PeerSock(to)'
  <2>1. Got(to)' = Got(to) /\ Got(to) \in Nat
    BY <1>2 DEF Got, Same, BInv, BrokerType
  <2>2. Len(sock[to]) = Sent(to) - Got(to)
    BY <1>2, <1>3 DEF PeerSock
  <2>3. Len(sock'[to]) = Sent(to)' - Got(to)'
    BY <1>5, <2>1, <2>2
  <2>4. m = Datagram(Other(to, Got(to) + (Len(sock[to]) + 1) - 1), call[to])
    <3>1. Got(to) + (Len(sock[to]) + 1) - 1 = Sent(to)
      BY <2>1, <2>2
    <3> QED
      BY <1>1, <3>1 DEF m
  <2>5. \A k \in 1..Len(sock'[to]) : sock'[to][k] = Datagram(Other(to, Got(to) + k - 1), call[to])
    <3> SUFFICES ASSUME NEW k \in 1..Len(sock'[to])
                 PROVE  sock'[to][k] = Datagram(Other(to, Got(to) + k - 1), call[to])
      OBVIOUS
    <3>1. CASE k = Len(sock[to]) + 1
      BY <1>5, <2>4, <3>1
    <3>2. CASE k \in 1..Len(sock[to])
      BY <1>2, <1>5, <3>2 DEF PeerSock
    <3> QED
      BY <1>5, <3>1, <3>2
  <2>6. /\ Len(sock'[to]) = IF at'[to] \in Done THEN 0 ELSE Sent(to)' - Got(to)'
        /\ at'[to] # "exit"
    BY <1>3, <2>3
  <2>7. \A k \in 1..Len(sock'[to]) :
          sock'[to][k] = Datagram(Other(to, Got(to)' + k - 1), call'[to])
    BY <2>1, <2>5
  <2> QED
    BY <2>6, <2>7 DEF PeerSock, Datagram, Other
<1>10. ASSUME NEW q \in Ranks \ {0, to} PROVE PeerSock(q)'
  <2>1. Same(q) /\ PeerSock(q) /\ sock'[q] = sock[q]
    BY DEF BInv, Only, BrokerType
  <2>2. Got(q)' = Got(q) /\ Whole(q)' = Whole(q) /\ Sent(q)' = Sent(q)
    BY <2>1 DEF Got, Whole, Same, Call
  <2> QED
    BY <2>1, <2>2 DEF PeerSock, Same, Datagram, Other
<1>11. \A q \in Ranks \ {0} : Answered(q)'
  BY DEF BInv, Answered, Call
<1> QED
  BY <1>0, <1>6, <1>8, <1>9, <1>10, <1>11, Assembled

\* exchange_fds: rank 0 sends one descriptor to one peer.
LEMMA FdsSpreadKeeps == ASSUME IInv, BInv, FdsSpread PROVE BInv'
<1> DEFINE k == i[0]
           c == call[0]
<1>0. 0 \in Ranks /\ M \in Nat
  BY RankFacts
<1>1. /\ at[0] = "spread" /\ k \in DOMAIN Pairs /\ call' = call /\ data' = data /\ dst' = dst
      /\ sock' = [sock EXCEPT ![Pairs[k][1]] =
                    Append(@, [fd |-> dst[0][Pairs[k][2]], src |-> Pairs[k][2]])]
      /\ UNCHANGED vars /\ i' = [i EXCEPT ![0] = k + 1] /\ at' = [at EXCEPT ![0] = "spread"]
  BY DEF FdsSpread, SendFd, More, Goto, Counter
<1>2. at' = at /\ i'[0] = k + 1
  BY <1>0, <1>1 DEF BInv, BrokerType
<1>3. /\ k \in Nat /\ k <= M * M /\ dst[0] = [q \in Ranks |-> <<q, c>>] /\ c \in Nat
      /\ Call(0) = "exchange_fds"
  BY <1>0, <1>1 DEF BInv, DstInv, BrokerType, CallInv
<1>4. M * M \in Nat /\ k \in 0..(M * M)
  BY <1>0, <1>3
<1>5. Ranks \ {0} # {}
  <2>1. M = 0 => M * M = 0
    OBVIOUS
  <2>2. k < M * M
    <3>1. k \in 0..((WorldSize - 1) * (WorldSize - 1) - 1)
      BY <1>1 DEF Pairs
    <3> QED
      BY <1>0, <1>4, <3>1, RankFacts, SMTT(20) DEF M
  <2>3. M >= 1
    BY <1>0, <1>3, <2>1, <2>2
  <2>4. 1 \in Ranks
    BY <1>0, <2>3, RankFacts
  <2> QED
    BY <2>4
<1>6. PICK to \in Ranks \ {0}, src \in Ranks :
        /\ to = Pairs[k][1] /\ src = Pairs[k][2]
        /\ SpreadTo(to, k) < M /\ src = Other(to, SpreadTo(to, k))
        /\ \A q \in Ranks \ {0} :
             /\ SpreadTo(q, k + 1) = SpreadTo(q, k) + (IF q = to THEN 1 ELSE 0)
             /\ SpreadTo(q, k) \in Nat
  <2> DEFINE t == Pairs[k][1]
             s == Pairs[k][2]
  <2>1. ASSUME NEW q \in Ranks \ {0}
        PROVE  /\ t \in Ranks \ {0} /\ SpreadTo(t, k) < M /\ s = Other(t, SpreadTo(t, k))
               /\ s \in Ranks
               /\ SpreadTo(q, k + 1) = SpreadTo(q, k) + (IF q = t THEN 1 ELSE 0)
               /\ SpreadTo(q, k) \in 0..M
    BY <1>1, <1>4, SpreadStep
  <2> HIDE DEF t, s
  <2>2. /\ t \in Ranks \ {0} /\ SpreadTo(t, k) < M /\ s = Other(t, SpreadTo(t, k)) /\ s \in Ranks
        /\ \A q \in Ranks \ {0} :
             /\ SpreadTo(q, k + 1) = SpreadTo(q, k) + (IF q = t THEN 1 ELSE 0)
             /\ SpreadTo(q, k) \in Nat
    BY <1>0, <1>5, <2>1
  <2> QED
    BY <2>2 DEF t, s
<1>7. \A q \in Ranks \ {0} : call[q] = call[0]
  BY <1>0, <1>1, TogetherInside DEF Middle
<1>8. \A q \in Ranks \ {0} : Sent(q) = SpreadTo(q, k) /\ Sent(q)' = SpreadTo(q, k + 1)
  BY <1>1, <1>2, <1>7 DEF Sent, SpreadTo
<1>9. Whole(to) = M
  BY <1>3, <1>6, <1>7 DEF Whole, Call
<1>10. [fd |-> dst[0][src], src |-> src] = Datagram(Other(to, Sent(to)), c)
  BY <1>3, <1>6, <1>8 DEF Datagram
<1>11. Datagram(Other(to, Sent(to)), c) \in Datagrams
  BY <1>3, <1>6, <1>8 DEF Datagram, Datagrams
<1>12. Only(0) /\ i' \in [Ranks -> Nat]
  BY <1>0, <1>1, <1>2, <1>3 DEF BInv, BrokerType, vars, Only, Same
<1>13. RankInv(0)'
  <2>1. CallInv(0) /\ DstInv(0) /\ Call(0)' = Call(0)
    BY <1>0, <1>1 DEF BInv, Call
  <2>2. CallInv(0)' /\ DataInv(0)'
    BY <1>1, <1>2, <2>1 DEF CallInv, DataInv, Done, vars
  <2>3. k + 1 <= M * M
    <3>1. k \in 0..((WorldSize - 1) * (WorldSize - 1) - 1)
      BY <1>1 DEF Pairs
    <3> QED
      BY <1>4, <3>1, SMTT(20) DEF M
  <2>4. DstInv(0)'
    BY <1>1, <1>2, <1>3, <2>3 DEF DstInv, Fresh
  <2> QED
    BY <2>2, <2>4 DEF RankInv
<1>14. Sent(to) < Whole(to) /\ Sent(to) \in Nat /\ Sent(to)' = Sent(to) + 1
       /\ \A q \in Ranks \ {0, to} : Sent(q)' = Sent(q)
  BY <1>6, <1>8, <1>9
<1>15. sock' = [sock EXCEPT ![to] = Append(@, Datagram(Other(to, Sent(to)), call[0]))]
  BY <1>1, <1>6, <1>10
<1> QED
  BY <1>1, <1>2, <1>6, <1>11, <1>12, <1>13, <1>14, <1>15, RootSends

\* exchange_fds: rank 0 has sent everything to everyone.
LEMMA FdsSpreadEndsKeeps == ASSUME IInv, BInv, FdsSpreadEnds PROVE BInv'
<1> DEFINE c == call[0]
<1>0. 0 \in Ranks /\ M \in Nat
  BY RankFacts
<1>1. /\ at[0] = "spread" /\ i[0] \notin DOMAIN Pairs /\ call' = call /\ data' = data /\ sock' = sock
      /\ dst' = [dst EXCEPT ![0][0] = None] /\ at'[0] = "exit" /\ i'[0] = 0
      /\ entered'[0] = entered[0] + 1 /\ pc'[0] # "out"
  BY <1>0 DEF FdsSpreadEnds, Last, Arrive, Goto, Counter, BInv, BrokerType, IInv, TypeOK
<1>2. Only(0)
  BY <1>0 DEF FdsSpreadEnds, Last, Arrive, Goto, Counter, BInv, BrokerType, IInv, TypeOK, Only, Same
<1>3. /\ i[0] \in Nat /\ i[0] <= M * M /\ dst[0] = [q \in Ranks |-> <<q, c>>] /\ c \in Nat
      /\ Call(0) = "exchange_fds" /\ c >= 1
  BY <1>0, <1>1 DEF BInv, DstInv, BrokerType, CallInv
<1>4. M * M \in Nat /\ i[0] = M * M
  <2>1. M * M \in Nat
    BY <1>0
  <2>2. i[0] \notin 0..(M * M - 1)
    BY <1>1 DEF Pairs, M
  <2> QED
    BY <1>3, <2>1, <2>2
<1>5. BrokerType'
  <2>1. dst' \in [Ranks -> [Ranks -> (Ranks \X Nat) \cup {None}]]
    BY <1>0, <1>1 DEF BInv, BrokerType
  <2>2. i' \in [Ranks -> Nat] /\ at' \in [Ranks -> Middle \cup Done \cup {"enter"}]
    BY <1>0 DEF FdsSpreadEnds, Last, Goto, Counter, BInv, BrokerType, Done
  <2> QED
    BY <1>1, <2>1, <2>2 DEF BInv, BrokerType
<1>6. RankInv(0)'
  <2>1. CallInv(0) /\ Call(0)' = Call(0) /\ entered[0] \in Nat
    BY <1>0, <1>1 DEF BInv, Call, IInv, TypeOK
  <2>2. CallInv(0)' /\ DataInv(0)'
    BY <1>1, <1>3, <2>1 DEF CallInv, DataInv, Done, Calls
  <2>3. dst'[0] = [q \in Ranks |-> IF q # 0 THEN <<q, c>> ELSE None]
    BY <1>0, <1>1, <1>3 DEF BInv, BrokerType
  <2>4. Result(0)' = [q \in Ranks |-> IF q # 0 THEN <<q, c>> ELSE None]
    BY <1>1, <1>3, <2>1 DEF Result
  <2>5. DstInv(0)'
    BY <1>1, <1>3, <2>1, <2>3, <2>4 DEF DstInv, Fresh
  <2> QED
    BY <2>2, <2>5 DEF RankInv
<1>7. GatherInv' /\ RootSock'
  BY <1>1, RootSockEmpty DEF GatherInv, RootSock
<1>8. \A q \in Ranks \ {0} : call[q] = call[0]
  BY <1>0, <1>1, TogetherInside DEF Middle
<1>9. \A q \in Ranks \ {0} : Answered(q)'
  BY <1>1, <1>2, <1>3, <1>8 DEF BInv, Answered, Only, Same
<1>10. ASSUME NEW q \in Ranks \ {0} PROVE Sent(q)' = Sent(q)
  <2>1. SpreadTo(q, i[0]) = M
    BY <1>4, SpreadStep
  <2>2. Sent(q) = M
    BY <1>1, <1>8, <2>1 DEF Sent
  <2>3. Whole(0)' = M
    BY <1>1, <1>3 DEF Whole, Call
  <2> QED
    BY <1>1, <1>8, <2>2, <2>3 DEF Sent, Done
<1> QED
  BY <1>1, <1>2, <1>5, <1>6, <1>7, <1>9, <1>10, RootAssembled

-----------------------------------------------------------------------------
\* exchange_fds, the other ranks.
LEMMA FdsSendKeeps == ASSUME IInv, BInv, NEW r \in Ranks, FdsSend(r) PROVE BInv'
<1> DEFINE c == call[r]
           m == Datagram(r, c)
<1>0. 0 \in Ranks /\ M \in Nat /\ Ranks = 0..M
  BY RankFacts
<1>1. /\ r # 0 /\ at[r] = "exchange_fds" /\ call' = call /\ data' = data /\ dst' = dst
      /\ sock' = [sock EXCEPT ![0] = Append(@, m)]
      /\ at' = [at EXCEPT ![r] = "receive"] /\ i' = [i EXCEPT ![r] = 0] /\ UNCHANGED vars
  BY DEF FdsSend, SendFd, Goto, Counter, Datagram
<1>2. at'[r] = "receive" /\ i'[r] = 0 /\ c \in Nat /\ M >= 1 /\ M \in Nat
  BY <1>0, <1>1 DEF BInv, BrokerType
<1>3. Only(r)
  BY <1>1 DEF BInv, BrokerType, vars, Only, Same
<1>4. \A q \in Ranks : call[q] = c /\ at[q] \notin {"idle", "copy"}
  BY <1>1, TogetherInside DEF Middle
<1>5. Call(r) = "exchange_fds" /\ Call(r)' = Call(r) /\ Call(0) = "exchange_fds" /\ c >= 1
  <2>1. CallInv(r) /\ call[0] = c
    BY <1>0, <1>4 DEF BInv
  <2> QED
    BY <1>1, <2>1 DEF CallInv, Calls, Call
<1>6. at[0] \in {"enter", "exchange_fds", "gather"}
  <2>1. CallInv(0) /\ Answered(r) /\ at[0] \in Middle \cup Done \cup {"enter"}
    BY <1>0, <1>1 DEF BInv, BrokerType
  <2>2. at[0] \notin Done \cup {"spread"}
    <3>1. call[r] = call[0] /\ call[0] > 0 /\ Call(0) = "exchange_fds"
      BY <1>0, <1>2, <1>4, <1>5
    <3> QED
      BY <1>1, <2>1, <3>1 DEF Answered, Done
  <2>3. at[0] \notin {"exchange_data", "broadcast_fd", "receive"}
    BY <1>5, <2>1 DEF CallInv, Calls
  <2> QED
    BY <2>1, <2>2, <2>3 DEF Middle
<1>7. dst[0][r] = None
  <2>1. CASE at[0] = "gather"
    BY <1>1, <2>1 DEF BInv, GatherInv, Gathered
  <2>2. CASE at[0] \in {"enter", "exchange_fds"}
    <3>1. dst[0] = Nothing
      BY <1>0, <2>2 DEF BInv, DstInv, Fresh
    <3> QED
      BY <3>1 DEF Nothing
  <2> QED
    BY <1>6, <2>1, <2>2
<1>8. m \in Datagrams /\ m.src = r /\ BrokerType /\ sock'[0] = Append(sock[0], m)
  BY <1>0, <1>1, <1>2 DEF Datagram, Datagrams, BInv, BrokerType
<1> HIDE DEF m
<1>9. /\ sock'[0] \in Seq(Datagrams) /\ Len(sock[0]) \in Nat
      /\ Len(sock'[0]) = Len(sock[0]) + 1 /\ sock'[0][Len(sock[0]) + 1] = m
      /\ \A k \in 1..Len(sock[0]) : sock'[0][k] = sock[0][k]
  BY <1>0, <1>8, Sends, SocketFacts
<1>10. BrokerType'
  <2>1. sock' \in [Ranks -> Seq([fd : Ranks \X Nat, src : Ranks])]
    BY <1>0, <1>1, <1>8, <1>9 DEF BrokerType, Datagrams
  <2> QED
    BY <1>1, <1>8, <2>1 DEF BrokerType, Middle
<1>11. RankInv(r)'
  <2>1. CallInv(r) /\ dst[r] = Nothing
    BY <1>1 DEF BInv, DstInv, Fresh
  <2>2. CallInv(r)' /\ DataInv(r)'
    BY <1>1, <1>2, <1>5, <2>1 DEF CallInv, DataInv, Done, Calls, vars
  <2>3. \A q \in Ranks : q # r => ~(Place(r, q) < 0)
    BY <1>0 DEF Place
  <2>4. dst[r] = [q \in Ranks |-> IF q # r /\ Place(r, q) < 0 THEN <<q, c>> ELSE None]
    BY <2>1, <2>3 DEF Nothing
  <2>5. DstInv(r)'
    BY <1>1, <1>2, <2>4 DEF DstInv, Fresh
  <2> QED
    BY <2>2, <2>5 DEF RankInv
<1>12. Same(0) /\ \A q \in Ranks : at[q] = "receive" => at'[q] = "receive"
  BY <1>0, <1>1, <1>2, <1>3 DEF Only, Same
<1>13. GatherInv'
  <2>1. Gathered' = Gathered
    BY <1>1 DEF Gathered
  <2> QED
    BY <1>0, <1>12, <2>1 DEF BInv, GatherInv, Same, Gathered
<1>14. ASSUME NEW k \in 1..Len(sock[0])
       PROVE  LET q == sock[0][k].src
              IN  q # 0 /\ sock[0][k] = Datagram(q, c) /\ at'[q] = "receive"
                  /\ dst[0][q] = None /\ q # r
  <2>1. sock[0][k].src \in Ranks
    BY <1>0, SocketFacts DEF BInv
  <2>2. call[0] = c
    BY <1>0, <1>4
  <2> QED
    BY <1>1, <1>12, <2>1, <2>2 DEF BInv, RootSock
<1>15. RootSock'
  <2>1. ASSUME NEW k \in 1..Len(sock'[0])
        PROVE  LET q == sock'[0][k].src
               IN  q # 0 /\ sock'[0][k] = Datagram(q, c) /\ at'[q] = "receive" /\ dst[0][q] = None
    <3>1. CASE k = Len(sock[0]) + 1
      BY <1>1, <1>2, <1>7, <1>8, <1>9, <3>1 DEF m
    <3>2. CASE k \in 1..Len(sock[0])
      BY <1>9, <1>14, <3>2
    <3> QED
      BY <1>9, <3>1, <3>2
  <2>2. \A j, k \in 1..Len(sock[0]) : j # k => sock[0][j].src # sock[0][k].src
    BY DEF BInv, RootSock
  <2>3. ASSUME NEW j \in 1..Len(sock'[0]), NEW k \in 1..Len(sock'[0]), j # k
        PROVE  sock'[0][j].src # sock'[0][k].src
    <3>1. CASE j \in 1..Len(sock[0]) /\ k \in 1..Len(sock[0])
      BY <1>9, <2>2, <2>3, <3>1
    <3>2. CASE j = Len(sock[0]) + 1 /\ k \in 1..Len(sock[0])
      BY <1>8, <1>9, <1>14, <3>2
    <3>3. CASE j \in 1..Len(sock[0]) /\ k = Len(sock[0]) + 1
      BY <1>8, <1>9, <1>14, <3>3
    <3> QED
      BY <1>9, <2>3, <3>1, <3>2, <3>3
  <2>4. call'[0] = c /\ dst' = dst /\ at'[0] \in {"enter", "exchange_fds", "gather"}
    BY <1>0, <1>1, <1>4, <1>6, <1>12 DEF Same
  <2> QED
    BY <2>1, <2>3, <2>4 DEF RootSock, Datagram
<1>16. PeerSock(r)' /\ Answered(r)'
  <2>1. PeerSock(r) /\ sock'[r] = sock[r]
    BY <1>1 DEF BInv, BrokerType
  <2>2. Sent(r)' = Sent(r) /\ Got(r)' = 0 /\ Got(r) = 0
    BY <1>1, <1>2, <1>12 DEF Sent, Got, Same, SpreadTo, Whole, Call
  <2>3. PeerSock(r)'
    BY <1>1, <1>2, <2>1, <2>2 DEF PeerSock, Done, Datagram, Other
  <2> QED
    BY <1>2, <2>3 DEF Answered
<1>17. \A q \in Ranks \ {0} : PeerSock(q)' /\ Answered(q)'
  <2>1. \A q \in Ranks \ {0, r} : sock'[q] = sock[q] /\ Same(q)
    BY <1>1, <1>3 DEF Only, BInv, BrokerType
  <2> QED
    BY <1>12, <1>16, <2>1, PeerFramed
<1> QED
  BY <1>3, <1>10, <1>11, <1>13, <1>15, <1>17, Assembled

\* In exchange_fds rank 0 never sends a rank more than there are others.
LEMMA BSentType ==
    ASSUME BInv, NEW r \in Ranks \ {0}, call[0] = call[r], Call(r) = "exchange_fds"
    PROVE  Sent(r) \in Int /\ Sent(r) <= M
<1>1. Call(0) = "exchange_fds" /\ CallInv(0) /\ M \in Nat /\ Whole(0) = M /\ 0 \in Ranks
  BY RankFacts DEF Call, BInv, Whole
<1>2. at[0] # "broadcast_fd"
  BY <1>1 DEF CallInv, Calls
<1>3. at[0] = "spread" => SpreadTo(r, i[0]) \in 0..M
  <2>1. at[0] = "spread" => i[0] \in 0..(M * M)
    BY <1>1 DEF BInv, DstInv, BrokerType
  <2> QED
    BY <2>1, SpreadStep
<1> QED
  BY <1>1, <1>2, <1>3 DEF Sent

\* The place of the k-th of the others is k.
LEMMA Places ==
    ASSUME NEW r \in Ranks, NEW k \in 0..(M - 1)
    PROVE  /\ Other(r, k) \in Ranks \ {r} /\ Place(r, Other(r, k)) = k
           /\ \A q \in Ranks \ {r} : Place(r, q) = k <=> q = Other(r, k)
           /\ \A q \in Ranks \ {r} : Place(r, q) \in 0..(M - 1)
  BY RankFacts DEF Other, Place

\* exchange_fds: a peer takes the next descriptor that rank 0 sent.
LEMMA FdsRecvKeeps == ASSUME IInv, BInv, NEW r \in Ranks, FdsRecv(r) PROVE BInv'
<1> DEFINE c == call[r]
           k == i[r]
           m == Head(sock[r])
           q == Other(r, k)
<1>0. 0 \in Ranks /\ M \in Nat /\ Ranks = 0..M /\ WorldSize - 1 = M
  BY RankFacts DEF M
<1>1. at[r] = "receive" /\ sock[r] # <<>> /\ sock' = [sock EXCEPT ![r] = Tail(@)]
      /\ call' = call /\ data' = data
  BY DEF FdsRecv, RecvFd
<1>2. /\ r # 0 /\ Call(r) = "exchange_fds" /\ CallInv(r) /\ c \in Nat /\ c >= 1 /\ k \in Nat /\ k < M
      /\ dst[r] = [p \in Ranks |-> IF p # r /\ Place(r, p) < k THEN <<p, c>> ELSE None]
      /\ PeerSock(r)
  <2>1. CallInv(r) /\ DstInv(r) /\ c \in Nat /\ k \in Nat
    BY DEF BInv, BrokerType
  <2>2. r # 0 /\ Call(r) = "exchange_fds" /\ c >= 1
    BY <1>1, <2>1 DEF CallInv
  <2>3. /\ k < M
        /\ dst[r] = [p \in Ranks |-> IF p # r /\ Place(r, p) < k THEN <<p, c>> ELSE None]
    BY <1>1, <2>1 DEF DstInv
  <2> QED
    BY <2>1, <2>2, <2>3 DEF BInv
<1>3. /\ sock'[r] \in Seq(Datagrams) /\ Len(sock[r]) \in Nat
      /\ Len(sock'[r]) = Len(sock[r]) - 1 /\ Len(sock[r]) > 0
      /\ m = sock[r][1] /\ \A j \in 1..Len(sock'[r]) : sock'[r][j] = sock[r][j + 1]
  <2>1. sock'[r] = Tail(sock[r]) /\ BrokerType
    BY <1>1 DEF BInv, BrokerType
  <2> QED
    BY <1>1, <2>1, Takes, SocketFacts
<1>4. Got(r) = k /\ Len(sock[r]) = Sent(r) - k
  BY <1>1, <1>2 DEF Got, PeerSock, Done
<1>5. /\ q \in Ranks \ {r} /\ \A p \in Ranks \ {r} : Place(r, p) = k <=> p = q
      /\ \A p \in Ranks \ {r} : Place(r, p) \in 0..(M - 1)
  <2>1. k \in 0..(M - 1)
    BY <1>0, <1>2
  <2> QED
    BY <2>1, Places
<1>6. m = Datagram(q, c)
  <2>1. 1 \in 1..Len(sock[r]) /\ k + 1 - 1 = k
    BY <1>2, <1>3
  <2> QED
    BY <1>2, <1>3, <1>4, <2>1 DEF PeerSock
<1>7. m.src = q /\ m.fd = <<q, c>>
  BY <1>6 DEF Datagram
<1>8. /\ dst' = [dst EXCEPT ![r][q] = <<q, c>>]
      /\ IF k + 1 = M THEN Last(r) ELSE More(r, "receive")
  <2>1. m.src # r
    BY <1>5, <1>7
  <2>2. FdsReceive(r, m) /\ IF i[r] + 1 = WorldSize - 1 THEN Last(r) ELSE More(r, "receive")
    BY <2>1 DEF FdsRecv
  <2> QED
    BY <1>0, <1>7, <2>2 DEF FdsReceive
<1> HIDE DEF m, q
<1>9. Only(r)
  BY <1>1, <1>8 DEF Last, More, Arrive, Goto, Counter, BInv, BrokerType, IInv, TypeOK, vars, Only, Same
<1>10. BrokerType'
  <2>1. <<q, c>> \in (Ranks \X Nat) \cup {None}
    BY <1>2, <1>5
  <2>2. dst' \in [Ranks -> [Ranks -> (Ranks \X Nat) \cup {None}]]
    BY <1>5, <1>8, <2>1 DEF BInv, BrokerType
  <2>3. i' \in [Ranks -> Nat] /\ at' \in [Ranks -> Middle \cup Done \cup {"enter"}]
    <3>1. 0 \in Nat /\ k + 1 \in Nat /\ i \in [Ranks -> Nat]
      BY <1>2 DEF BInv, BrokerType
    <3>2. i' = [i EXCEPT ![r] = 0] \/ i' = [i EXCEPT ![r] = k + 1]
      BY <1>8 DEF Last, More, Counter
    <3>3. i' \in [Ranks -> Nat]
      BY <3>1, <3>2
    <3>4. at' = [at EXCEPT ![r] = "exit"] \/ at' = [at EXCEPT ![r] = "receive"]
      BY <1>8 DEF Last, More, Goto
    <3> QED
      BY <3>3, <3>4 DEF BInv, BrokerType, Middle, Done
  <2>4. sock' \in [Ranks -> Seq([fd : Ranks \X Nat, src : Ranks])]
    BY <1>1, <1>3 DEF BInv, BrokerType, Datagrams
  <2> QED
    BY <1>1, <2>2, <2>3, <2>4 DEF BInv, BrokerType
<1>11. dst'[r] = [p \in Ranks |-> IF p # r /\ Place(r, p) < k + 1 THEN <<p, c>> ELSE None]
  <2>1. \A p \in Ranks \ {r} : Place(r, p) < k + 1 <=> Place(r, p) < k \/ p = q
    <3>1. \A p \in Ranks \ {r} : Place(r, p) \in Int
      BY <1>0 DEF Place
    <3> QED
      BY <1>2, <1>5, <3>1
  <2>2. dst'[r] = [dst[r] EXCEPT ![q] = <<q, c>>]
    BY <1>8 DEF BInv, BrokerType
  <2> QED
    BY <1>2, <1>5, <2>1, <2>2
<1>12. Same(0) /\ \A p \in Ranks \ {r} : sock'[p] = sock[p]
  BY <1>0, <1>1, <1>2, <1>9 DEF Only, BInv, BrokerType
<1>13. Sent(r)' = Sent(r) /\ Call(r)' = Call(r) /\ call[0] = c
  <2>1. call[0] = c
    BY <1>0, <1>1, TogetherInside DEF Middle
  <2> QED
    BY <1>1, <1>12, <2>1 DEF Sent, Same, SpreadTo, Whole, Call
<1>14. CASE k + 1 # M
  <2>1. More(r, "receive") /\ at' = at /\ i'[r] = k + 1 /\ UNCHANGED vars
    BY <1>1, <1>8, <1>14 DEF More, Goto, Counter, BInv, BrokerType
  <2>2. RankInv(r)'
    <3>1. CallInv(r)' /\ DataInv(r)'
      BY <1>1, <1>2, <1>13, <2>1 DEF CallInv, DataInv, Done, Calls, vars
    <3>2. DstInv(r)'
      BY <1>1, <1>2, <1>11, <1>14, <2>1, <1>0 DEF DstInv, Fresh
    <3> QED
      BY <3>1, <3>2 DEF RankInv
  <2>3. PeerSock(r)'
    <3>1. Got(r)' = k + 1 /\ at'[r] = "receive"
      BY <1>1, <2>1 DEF Got
    <3>2. Len(sock'[r]) = Sent(r)' - Got(r)'
      <4>1. Sent(r) \in Int
        BY <1>0, <1>2, <1>13, BSentType
      <4> QED
        BY <1>2, <1>3, <1>4, <1>13, <3>1, <4>1
    <3>3. ASSUME NEW j \in 1..Len(sock'[r])
          PROVE  sock'[r][j] = Datagram(Other(r, (k + 1) + j - 1), c)
      <4>0. k \in Nat /\ Len(sock[r]) \in Nat /\ Len(sock'[r]) = Len(sock[r]) - 1 /\ j \in 1..Len(sock'[r])
        BY <1>2, <1>3
      <4>1. j + 1 \in 1..Len(sock[r]) /\ k + (j + 1) - 1 = (k + 1) + j - 1
        BY <4>0
      <4>2. sock[r][j + 1] = Datagram(Other(r, k + (j + 1) - 1), c)
        BY <1>2, <1>4, <4>1 DEF PeerSock
      <4> QED
        BY <1>3, <4>1, <4>2
    <3> QED
      BY <1>1, <3>1, <3>2, <3>3 DEF PeerSock, Done, Datagram, Other
  <2>4. Answered(r)'
    BY <1>1, <2>1 DEF Answered
  <2> QED
    BY <1>1, <1>2, <1>9, <1>10, <1>12, <2>1, <2>2, <2>3, <2>4, PeerAssembled
<1>15. CASE k + 1 = M
  <2>1. at'[r] = "exit" /\ i'[r] = 0 /\ entered'[r] = entered[r] + 1 /\ pc'[r] # "out"
    BY <1>8, <1>15 DEF Last, Arrive, Goto, Counter, BInv, BrokerType, IInv, TypeOK
  <2>2. RankInv(r)'
    <3>1. CallInv(r)' /\ DataInv(r)'
      <4>1. entered[r] \in Nat
        BY DEF IInv, TypeOK
      <4> QED
        BY <1>1, <1>2, <1>13, <2>1, <4>1 DEF CallInv, DataInv, Done, Calls
    <3>2. Result(r)' = [p \in Ranks |-> IF p # r THEN <<p, c>> ELSE None]
      BY <1>1, <1>2, <1>13 DEF Result
    <3>3. \A p \in Ranks \ {r} : Place(r, p) < M
      BY <1>0, <1>5
    <3>4. dst'[r] = [p \in Ranks |-> IF p # r THEN <<p, c>> ELSE None]
      BY <1>11, <1>15, <3>3
    <3>5. DstInv(r)'
      BY <1>2, <1>13, <2>1, <3>2, <3>4 DEF DstInv, Fresh
    <3> QED
      BY <3>1, <3>5 DEF RankInv
  <2>3. Sent(r) = M /\ Len(sock'[r]) = 0
    <3>1. Sent(r) \in Int /\ Sent(r) <= M
      BY <1>0, <1>2, <1>13, BSentType
    <3> QED
      BY <1>0, <1>2, <1>3, <1>4, <1>15, <3>1
  <2>4. PeerSock(r)'
    <3>1. Whole(r)' = M
      BY <1>2, <1>13 DEF Whole
    <3> QED
      BY <1>13, <2>1, <2>3, <3>1 DEF PeerSock, Done
  <2>5. Answered(r)'
    BY <2>1 DEF Answered, Done
  <2>6. at[0] \in {"spread", "broadcast_fd"} \cup Done
    <3>1. M # 0
      BY <1>0, <1>2
    <3> QED
      BY <1>13, <2>3, <3>1 DEF Sent
  <2>7. at'[0] = at[0] /\ sock'[0] = sock[0]
    BY <1>0, <1>2, <1>12 DEF Same
  <2>8. GatherInv' /\ RootSock'
    <3>1. Len(sock[0]) = 0 /\ at[0] # "gather"
      BY <2>6, RootSockEmpty DEF Done
    <3> QED
      BY <2>7, <3>1 DEF GatherInv, RootSock
  <2> QED
    BY <1>2, <1>9, <1>10, <1>12, <2>2, <2>4, <2>5, <2>8, PeerAssembled
<1> QED
  BY <1>14, <1>15

-----------------------------------------------------------------------------
\* broadcast_fd.
LEMMA BroadcastSendKeeps == ASSUME IInv, BInv, BroadcastSend PROVE BInv'
<1> DEFINE others == {q \in Ranks : q # 0 /\ q >= i[0]}
           c == call[0]
<1>0. 0 \in Ranks /\ M \in Nat /\ Ranks = 0..M
  BY RankFacts
<1>1. /\ at[0] = "broadcast_fd" /\ others # {} /\ i[0] \in Nat /\ c \in Nat
      /\ call' = call /\ data' = data /\ dst' = dst /\ at' = at /\ UNCHANGED vars
  BY <1>0 DEF BroadcastSend, Src, BInv, BrokerType
<1>2. PICK to \in Ranks \ {0} :
        /\ to = CHOOSE q \in others : \A p \in others : q <= p
        /\ to \in others /\ \A p \in others : to <= p
  <2> DEFINE least == IF i[0] = 0 THEN 1 ELSE i[0]
  <2>1. least \in others /\ \A p \in others : least <= p
    BY <1>0, <1>1
  <2>2. \E q \in others : \A p \in others : q <= p
    BY <2>1
  <2>3. /\ (CHOOSE q \in others : \A p \in others : q <= p) \in others
        /\ \A p \in others : (CHOOSE q \in others : \A r \in others : q <= r) <= p
    BY <2>2
  <2> QED
    BY <2>3
<1>3. /\ sock' = [sock EXCEPT ![to] = Append(@, [fd |-> <<0, c>>, src |-> 0])]
      /\ i' = [i EXCEPT ![0] = to + 1]
  BY <1>2 DEF BroadcastSend, SendFd, Counter, Src
<1>4. /\ i'[0] = to + 1 /\ to \in Nat /\ i' \in [Ranks -> Nat] /\ to >= i[0] /\ i[0] \in Nat
      /\ \A q \in Ranks \ {0} : q \in Nat /\ (q >= i[0] => to <= q)
  <2>1. to \in Nat /\ to >= i[0]
    BY <1>0, <1>2
  <2>2. to + 1 \in Nat /\ i \in [Ranks -> Nat]
    BY <2>1 DEF BInv, BrokerType
  <2>3. \A q \in Ranks \ {0} : q \in Nat /\ (q >= i[0] => to <= q)
    BY <1>0, <1>2
  <2> QED
    BY <1>0, <1>3, <2>1, <2>2, <2>3
<1>5. Call(0) = "broadcast_fd" /\ Call(0)' = Call(0) /\ CallInv(0)
  BY <1>0, <1>1 DEF BInv, CallInv, Calls, Call
<1>6. \A q \in Ranks \ {0} : call[q] = call[0]
  BY <1>0, <1>1, TogetherInside DEF Middle
<1>7. \A q \in Ranks \ {0} : /\ Sent(q) = (IF i[0] > q THEN 1 ELSE 0)
                             /\ Sent(q)' = (IF to + 1 > q THEN 1 ELSE 0)
  BY <1>1, <1>4, <1>6 DEF Sent
<1>8. Whole(to) = 1
  BY <1>5, <1>6 DEF Whole, Call
<1>9. Sent(to) = 0 /\ Sent(to)' = 1
  BY <1>4, <1>7
<1>10. \A q \in Ranks \ {0, to} : Sent(q)' = Sent(q)
  BY <1>4, <1>7
<1>11. Other(to, Sent(to)) = 0
  BY <1>0, <1>9 DEF Other
<1>12. [fd |-> <<0, c>>, src |-> 0] = Datagram(Other(to, Sent(to)), c)
       /\ Datagram(Other(to, Sent(to)), c) \in Datagrams
  BY <1>0, <1>1, <1>11 DEF Datagram, Datagrams
<1>13. Only(0)
  BY <1>0, <1>1, <1>3 DEF BInv, BrokerType, vars, Only, Same
<1>14. RankInv(0)'
  <2>1. DstInv(0)
    BY <1>0 DEF BInv
  <2>2. CallInv(0)' /\ DataInv(0)'
    BY <1>1, <1>5 DEF CallInv, DataInv, Done, Calls, vars
  <2>3. DstInv(0)'
    BY <1>1, <2>1 DEF DstInv, Fresh, Nothing
  <2> QED
    BY <2>2, <2>3 DEF RankInv
<1>15. sock' = [sock EXCEPT ![to] = Append(@, Datagram(Other(to, Sent(to)), call[0]))]
  BY <1>3, <1>12
<1>16. Sent(to) < Whole(to) /\ Sent(to) \in Nat /\ Sent(to)' = Sent(to) + 1
  BY <1>8, <1>9
<1> QED
  BY <1>1, <1>4, <1>10, <1>12, <1>13, <1>14, <1>15, <1>16, RootSends

\* broadcast_fd: the source has sent to everyone.
LEMMA BroadcastEndsKeeps == ASSUME IInv, BInv, BroadcastEnds PROVE BInv'
<1> DEFINE c == call[0]
<1>0. 0 \in Ranks /\ M \in Nat /\ Ranks = 0..M
  BY RankFacts
<1>1. /\ at[0] = "broadcast_fd" /\ call' = call /\ data' = data /\ sock' = sock /\ dst' = dst
      /\ at'[0] = "exit" /\ i'[0] = 0 /\ entered'[0] = entered[0] + 1 /\ pc'[0] # "out"
      /\ \A q \in Ranks \ {0} : q < i[0]
  BY <1>0 DEF BroadcastEnds, Src, Last, Arrive, Goto, Counter, BInv, BrokerType, IInv, TypeOK
<1>2. Only(0)
  BY <1>0 DEF BroadcastEnds, Src, Last, Arrive, Goto, Counter, BInv, BrokerType, IInv, TypeOK, Only, Same
<1>3. CallInv(0) /\ dst[0] = Nothing /\ Call(0) = "broadcast_fd" /\ Call(0)' = Call(0)
      /\ i[0] \in Nat /\ entered[0] \in Nat
  BY <1>0, <1>1 DEF BInv, CallInv, DstInv, Fresh, Calls, Call, BrokerType, IInv, TypeOK
<1>4. BrokerType'
  <2>1. i' \in [Ranks -> Nat] /\ at' \in [Ranks -> Middle \cup Done \cup {"enter"}]
    BY DEF BroadcastEnds, Last, Goto, Counter, BInv, BrokerType, Done
  <2> QED
    BY <1>1, <2>1 DEF BInv, BrokerType
<1>5. RankInv(0)'
  <2>0. c \in Nat
    BY <1>0 DEF BInv, BrokerType
  <2>1. CallInv(0)' /\ DataInv(0)'
    BY <1>1, <1>3, <2>0 DEF CallInv, DataInv, Done, Calls
  <2>2. Result(0)' = Nothing
    BY <1>3 DEF Result, Nothing, Src
  <2>3. DstInv(0)'
    BY <1>1, <1>3, <2>2 DEF DstInv, Fresh
  <2> QED
    BY <2>1, <2>3 DEF RankInv
<1>6. GatherInv' /\ RootSock'
  BY <1>1, RootSockEmpty DEF GatherInv, RootSock
<1>7. \A q \in Ranks \ {0} : Answered(q)'
  BY <1>3 DEF Answered
<1>8. ASSUME NEW q \in Ranks \ {0} PROVE Sent(q)' = Sent(q)
  <2>1. call[q] = call[0]
    BY <1>0, <1>1, TogetherInside DEF Middle
  <2>2. i[0] > q
    BY <1>0, <1>1, <1>3
  <2>3. Whole(0)' = 1
    BY <1>3 DEF Whole
  <2> QED
    BY <1>1, <2>1, <2>2, <2>3 DEF Sent, Done
<1> QED
  BY <1>1, <1>2, <1>4, <1>5, <1>6, <1>7, <1>8, RootAssembled

\* broadcast_fd: a peer takes the descriptor.
LEMMA BroadcastRecvKeeps == ASSUME IInv, BInv, NEW r \in Ranks, BroadcastRecv(r) PROVE BInv'
<1> DEFINE c == call[r]
           m == Head(sock[r])
<1>0. 0 \in Ranks /\ M \in Nat /\ Ranks = 0..M
  BY RankFacts
<1>1. r # 0 /\ at[r] = "broadcast_fd" /\ sock[r] # <<>> /\ sock' = [sock EXCEPT ![r] = Tail(@)]
      /\ call' = call /\ data' = data
  BY DEF BroadcastRecv, RecvFd, Src
<1>2. /\ sock'[r] \in Seq(Datagrams) /\ Len(sock[r]) \in Nat
      /\ Len(sock'[r]) = Len(sock[r]) - 1 /\ Len(sock[r]) > 0 /\ m = sock[r][1]
  <2>1. sock'[r] = Tail(sock[r]) /\ BrokerType
    BY <1>1 DEF BInv, BrokerType
  <2> QED
    BY <1>1, <2>1, Takes, SocketFacts
<1>3. CallInv(r) /\ dst[r] = Nothing /\ Call(r) = "broadcast_fd" /\ PeerSock(r) /\ c \in Nat
      /\ entered[r] \in Nat
  <2>1. CallInv(r) /\ DstInv(r) /\ PeerSock(r)
    BY <1>1 DEF BInv
  <2>2. c \in Nat /\ entered[r] \in Nat
    BY DEF BInv, BrokerType, IInv, TypeOK
  <2>3. dst[r] = Nothing
    BY <1>1, <2>1 DEF DstInv, Fresh
  <2>4. Call(r) = "broadcast_fd"
    BY <1>1, <2>1 DEF CallInv, Calls
  <2> QED
    BY <2>1, <2>2, <2>3, <2>4
<1>4. call[0] = c /\ Call(0) = "broadcast_fd" /\ CallInv(0)
  <2>1. call[0] = c
    BY <1>0, <1>1, TogetherInside DEF Middle
  <2> QED
    BY <1>0, <1>3, <2>1 DEF BInv, Call
<1>5. Sent(r) \in {0, 1}
  BY <1>4 DEF Sent, Whole, CallInv
<1>6. Got(r) = 0 /\ Len(sock[r]) = 1 /\ Sent(r) = 1
  <2>1. Got(r) = 0 /\ Len(sock[r]) = Sent(r) - Got(r)
    BY <1>1, <1>3 DEF PeerSock, Got, Done
  <2> QED
    BY <1>2, <1>5, <2>1
<1>7. m = Datagram(0, c)
  <2>1. 1 \in 1..Len(sock[r]) /\ Other(r, Got(r) + 1 - 1) = 0
    BY <1>0, <1>1, <1>6 DEF Other
  <2> QED
    BY <1>2, <1>3, <2>1 DEF PeerSock
<1>8. m.src = 0 /\ m.fd = <<0, c>>
  BY <1>7 DEF Datagram
<1>9. dst' = [dst EXCEPT ![r][0] = <<0, c>>] /\ Last(r)
  BY <1>8 DEF BroadcastRecv, Src
<1> HIDE DEF m
<1>10. at'[r] = "exit" /\ i'[r] = 0 /\ entered'[r] = entered[r] + 1 /\ pc'[r] # "out"
  BY <1>9 DEF Last, Arrive, Goto, Counter, BInv, BrokerType, IInv, TypeOK
<1>11. Only(r)
  BY <1>1, <1>9 DEF Last, Arrive, Goto, Counter, BInv, BrokerType, IInv, TypeOK, Only, Same
<1>12. BrokerType'
  <2>1. dst' \in [Ranks -> [Ranks -> (Ranks \X Nat) \cup {None}]]
    BY <1>0, <1>3, <1>9 DEF BInv, BrokerType
  <2>2. i' \in [Ranks -> Nat] /\ at' \in [Ranks -> Middle \cup Done \cup {"enter"}]
    BY <1>9 DEF Last, Goto, Counter, BInv, BrokerType, Done
  <2>3. sock' \in [Ranks -> Seq([fd : Ranks \X Nat, src : Ranks])]
    BY <1>1, <1>2 DEF BInv, BrokerType, Datagrams
  <2> QED
    BY <1>1, <2>1, <2>2, <2>3 DEF BInv, BrokerType
<1>13. RankInv(r)'
  <2>1. Call(r)' = Call(r)
    BY <1>1 DEF Call
  <2>2. CallInv(r)' /\ DataInv(r)'
    BY <1>1, <1>3, <1>10, <2>1 DEF CallInv, DataInv, Done, Calls
  <2>3. dst'[r] = [q \in Ranks |-> IF q = 0 THEN <<q, c>> ELSE None]
    BY <1>0, <1>3, <1>9 DEF BInv, BrokerType, Nothing
  <2>4. Result(r)' = [q \in Ranks |-> IF q = 0 THEN <<q, c>> ELSE None]
    BY <1>1, <1>3, <2>1 DEF Result, Src
  <2>5. DstInv(r)'
    BY <1>3, <1>10, <2>1, <2>3, <2>4 DEF DstInv, Fresh
  <2> QED
    BY <2>2, <2>5 DEF RankInv
<1>14. Same(0) /\ \A q \in Ranks \ {r} : sock'[q] = sock[q]
  BY <1>0, <1>1, <1>11 DEF Only, BInv, BrokerType
<1>15. PeerSock(r)'
  <2>1. Sent(r)' = Sent(r) /\ Whole(r)' = 1
    BY <1>1, <1>3, <1>14 DEF Sent, Same, SpreadTo, Whole, Call
  <2>2. Len(sock'[r]) = 0
    BY <1>2, <1>6
  <2> QED
    BY <1>6, <1>10, <2>1, <2>2 DEF PeerSock, Done
<1>16. Answered(r)'
  BY <1>10 DEF Answered, Done
<1> QED
  BY <1>1, <1>11, <1>12, <1>13, <1>14, <1>15, <1>16, PeerAssembled

-----------------------------------------------------------------------------
\* The invariant says what the calls promise.
LEMMA BInvPromises == ASSUME BInv PROVE ReturnsThisCall /\ NoStrayDatagram
<1>1. ReturnsThisCall
  BY DEF ReturnsThisCall, BInv, DstInv
<1>2. \A r \in Ranks : at[r] # "thrown"
  BY DEF BInv, BrokerType, Middle, Done
<1>3. ASSUME NEW r \in Ranks, at[r] = "idle" PROVE Len(sock[r]) = 0
  <2>1. CASE r = 0
    BY <1>3, <2>1, RootSockEmpty
  <2>2. CASE r # 0
    BY <1>3, <2>2 DEF BInv, PeerSock, Done
  <2> QED
    BY <2>1, <2>2
<1> QED
  BY <1>1, <1>2, <1>3 DEF NoStrayDatagram

\* No call ever mixes with another: whatever the sequence of calls, however many the
\* ranks and however far one of them runs ahead, a call delivers what the ranks gave
\* in it, and every datagram is taken in the call in which it was sent.
THEOREM CallsNeverMix == BrokerSpec => [](ReturnsThisCall /\ NoStrayDatagram)
<1>1. BrokerInit => BInv
  BY BInit
<1>2. IInv /\ BInv /\ [BrokerNext]_brokerVars => BInv'
  <2> SUFFICES ASSUME IInv, BInv, [BrokerNext]_brokerVars PROVE BInv'
    OBVIOUS
  <2>1. ASSUME NEW r \in Ranks, Step(r) PROVE BInv'
    BY <2>1, InSyncKeeps, BeginKeeps, EnteredKeeps, LeaveKeeps, WriteDataKeeps, CopyDataKeeps,
       FdsRootKeeps, FdsGatherKeeps, FdsSpreadKeeps, FdsSpreadEndsKeeps, FdsSendKeeps,
       FdsRecvKeeps, BroadcastSendKeeps, BroadcastEndsKeeps, BroadcastRecvKeeps
    DEF Step
  <2>2. ASSUME UNCHANGED brokerVars PROVE BInv'
    <3>1. \A q \in Ranks : Same(q)
      BY <2>2 DEF brokerVars, vars, Same
    <3>2. sock' = sock /\ BrokerType'
      BY <2>2 DEF brokerVars, BInv, BrokerType
    <3>3. GatherInv' /\ RootSock'
      BY <3>1, <3>2, RootFramed, RankFacts DEF Same
    <3>4. \A q \in Ranks \ {0} : PeerSock(q)' /\ Answered(q)'
      BY <3>1, <3>2, PeerFramed, RankFacts
    <3> QED
      BY <3>1, <3>2, <3>3, <3>4, Assembled, RankFramed, RankFacts DEF Only
  <2> QED
    BY <2>1, <2>2 DEF BrokerNext, Returned
<1>3. BInv => ReturnsThisCall /\ NoStrayDatagram
  BY BInvPromises
<1> QED
  BY <1>1, <1>2, <1>3, BrokerRunsTheBarrier, BarrierInductive, PTL DEF BrokerSpec

-----------------------------------------------------------------------------
(***************************************************************************)
(* The constructor.  Whatever an earlier run left in the shared segment,   *)
(* and however many ranks there are, it never lets a rank out before all   *)
(* have mapped its segment and bound their sockets.                        *)
(***************************************************************************)

\* Local ranks are numbered from zero.
Numbered == WorldSize \in Nat \ {0} /\ Ranks = 0..(WorldSize - 1)

RootSteps == {"create", "truncate", "clear", "publish", "unlink"}
OpenSteps == {"open", "stat", "await"}
Waiting == {"raise", "wait1", "depart", "lower", "wait2"}

TypeInv ==
    /\ name \in {"none", "old", "new"}
    /\ vault \in [Start!Segments -> [sized : BOOLEAN, init : BOOLEAN, barrier : Int, sense : {0, 1}]]
    /\ seg \in [Ranks -> {"none", "old", "new"}]
    /\ built \in [Ranks -> RootSteps \cup OpenSteps \cup Waiting \cup {"arrive", "bind", "ready"}]
    /\ stage \in [Ranks -> 1..4]
    /\ bound \subseteq Ranks

\* Where a rank is in the constructor and what it has done by then.
BuiltRank(r) ==
    /\ r = 0 => built[r] \notin OpenSteps /\ seg[r] # "old"
    /\ r = 0 => (seg[r] = "none" <=> built[r] \in {"create", "truncate"})
    /\ r # 0 => built[r] \notin RootSteps
    /\ r # 0 => (seg[r] = "none" <=> built[r] = "open")
    /\ built[r] \in OpenSteps \cup (RootSteps \ {"unlink"}) => stage[r] = 1
    /\ built[r] = "unlink" => stage[r] = 2
    /\ built[r] = "bind" => stage[r] = 3
    /\ built[r] = "ready" <=> stage[r] = 4
    /\ stage[r] = 4 \/ (stage[r] = 3 /\ built[r] # "bind") => r \in bound

\* The name leads to the old segment until rank 0 takes it away, and to none after
\* the first sync; nobody syncs on the new segment before its init code is stored.
NameInv ==
    /\ built[0] # "create" => name # "old"
    /\ stage[0] >= 2 /\ built[0] # "unlink" => name = "none"
    /\ vault["new"].init => built[0] \notin {"create", "truncate", "clear", "publish"}
    /\ \A r \in Ranks : seg[r] = "new" /\ built[r] \in Waiting \cup {"arrive", "unlink", "bind", "ready"}
                          => vault["new"].init

-----------------------------------------------------------------------------
\* The ranks counted in the barrier word of a segment.
Counted(s) == {r \in Ranks : seg[r] = s /\ built[r] \in {"raise", "wait1", "depart"}}

\* On the new segment: a barrier of all ranks, of which those that have not mapped
\* the segment are outside (see SenseBarrier).
NewOut(r) == seg[r] # "new" \/ built[r] \notin Waiting

NewCount == vault["new"].barrier = Cardinality(Counted("new"))

NewPhase ==
    \A r \in Ranks :
        /\ vault["new"].sense = 1 => ~NewOut(r) /\ built[r] # "raise"
        /\ vault["new"].sense = 0 /\ seg[r] = "new" => built[r] \notin {"depart", "lower"}

NewLast ==
    \A r, q \in Ranks : r # q /\ seg[r] = "new" =>
        /\ built[r] = "raise" => seg[q] = "new" /\ built[q] = "wait1"
        /\ built[r] = "lower" => seg[q] = "new" /\ built[q] = "wait2"

\* The syncs on the new segment that a rank has entered together with all the others.
Generation(r) ==
    IF seg[r] # "new" THEN 0
    ELSE IF NewOut(r) \/ (vault["new"].sense = 0 /\ built[r] \in {"raise", "wait1"})
      THEN stage[r] - 1 ELSE stage[r]

NewGeneration == \A r, q \in Ranks : Generation(r) = Generation(q)

-----------------------------------------------------------------------------
\* On the old segment, with b left over in its barrier word: rank 0 is never there.
\* With b > 0 the count never comes back to zero, and nobody returns from the first
\* sync; with b = 0 it never comes to WorldSize, and a sense left at 1 lets ranks
\* through the first sync but is not raised again.
OldRank(r, b) ==
    /\ b > 0 => /\ stage[r] = 1 /\ built[r] # "lower"
                /\ built[r] \in {"depart", "wait2"} => vault["old"].sense = 1
    /\ b = 0 => /\ built[r] # "raise"
                /\ stage[r] = 1 \/ (/\ stage[r] = 2 /\ vault["old"].sense = 0
                                    /\ built[r] \in {"arrive", "wait1"})

OldWith(b) ==
    /\ vault["old"].barrier = b + Cardinality(Counted("old"))
    /\ \A r \in Ranks : seg[r] = "old" => OldRank(r, b)

OldInv == \E b \in 0..WorldSize : OldWith(b)

NewInv == NewCount /\ NewPhase /\ NewLast /\ NewGeneration

\* The conjunction the proof carries from state to state.
BuiltInv ==
    /\ TypeInv /\ (\A r \in Ranks : BuiltRank(r)) /\ NameInv
    /\ NewInv /\ OldInv

-----------------------------------------------------------------------------
LEMMA NumberedRanks == Numbered
  BY RankFacts DEF Numbered, M

\* The ranks are finitely many, and 0 is one of them.
LEMMA RanksFinite ==
    ASSUME Numbered
    PROVE  /\ IsFiniteSet(Ranks) /\ Cardinality(Ranks) = WorldSize
           /\ 0 \in Ranks /\ WorldSize \in Nat \ {0}
  BY RankFacts

\* So are the ranks counted in a barrier word; one more or one less is counted as such.
LEMMA Counting ==
    ASSUME Numbered, NEW S, S \subseteq Ranks, NEW r \in Ranks
    PROVE  /\ IsFiniteSet(S) /\ Cardinality(S) \in Nat
           /\ r \notin S => Cardinality(S \cup {r}) = Cardinality(S) + 1
           /\ r \in S => Cardinality(S \ {r}) = Cardinality(S) - 1
           /\ Cardinality(S) = 0 <=> S = {}
           /\ Cardinality(S) = WorldSize => S = Ranks
           /\ Cardinality(S) <= WorldSize
           /\ r \notin S => Cardinality(S) < WorldSize
<1>1. IsFiniteSet(S) /\ Cardinality(S) <= Cardinality(Ranks)
      /\ (Cardinality(S) = Cardinality(Ranks) => S = Ranks)
  BY RanksFinite, FS_Subset
<1>2. Cardinality(S) \in Nat
  BY <1>1, FS_CardinalityType
<1>3. r \notin S => Cardinality(S \cup {r}) = Cardinality(S) + 1
  BY <1>1, FS_AddElement
<1>4. r \in S => Cardinality(S \ {r}) = Cardinality(S) - 1
  BY <1>1, FS_RemoveElement
<1>5. Cardinality(S) = 0 <=> S = {}
  BY <1>1, FS_EmptySet
<1>6. Cardinality(S) = WorldSize => S = Ranks
  BY <1>1, RanksFinite
<1>7. Cardinality(S) <= WorldSize
  BY <1>1, RanksFinite
<1>8. r \notin S => Cardinality(S) < WorldSize
  BY <1>2, <1>6, <1>7, RanksFinite
<1> QED
  BY <1>1, <1>2, <1>3, <1>4, <1>5, <1>6, <1>7, <1>8

\* Rank 0 is never counted on the old segment, so the others alone never fill it.
LEMMA OldSmall ==
    ASSUME Numbered, BuiltInv
    PROVE  /\ Counted("old") \subseteq Ranks /\ Counted("new") \subseteq Ranks
           /\ Cardinality(Counted("old")) \in Nat
           /\ Cardinality(Counted("old")) < WorldSize
<1>1. Counted("old") \subseteq Ranks /\ Counted("new") \subseteq Ranks
  BY DEF Counted
<1>2. 0 \in Ranks /\ 0 \notin Counted("old")
  BY RanksFinite DEF BuiltInv, BuiltRank, Counted
<1> QED
  BY <1>1, <1>2, Counting

-----------------------------------------------------------------------------
\* What a step of sync() does: rank r goes to l, the words of its segment become
\* b and s, and everything else stays.
Syncs(r, l, b, s) ==
    /\ built' = [built EXCEPT ![r] = l]
    /\ seg' = seg /\ name' = name /\ bound' = bound
    /\ seg[r] \in Start!Segments
    /\ vault'[seg[r]].barrier = b /\ vault'[seg[r]].sense = s
    /\ vault'[seg[r]].init = vault[seg[r]].init
    /\ \A t \in Start!Segments : t # seg[r] => vault'[t] = vault[t]

\* The steps of sync() in those terms.
LEMMA SyncDoes ==
    ASSUME Numbered, BuiltInv, NEW r \in Ranks
    PROVE  /\ Start!Arrive(r) =>
                /\ stage' = stage
                /\ Syncs(r, IF Start!Word(r).barrier + 1 = WorldSize THEN "raise" ELSE "wait1",
                         Start!Word(r).barrier + 1, Start!Word(r).sense)
           /\ Start!Raise(r) => Syncs(r, "wait1", Start!Word(r).barrier, 1) /\ stage' = stage
           /\ Start!Pass(r) =>
                /\ stage' = stage
                /\ Syncs(r, "depart", Start!Word(r).barrier, Start!Word(r).sense)
           /\ Start!Depart(r) =>
                /\ stage' = stage
                /\ Syncs(r, IF Start!Word(r).barrier - 1 = 0 THEN "lower" ELSE "wait2",
                         Start!Word(r).barrier - 1, Start!Word(r).sense)
           /\ Start!Lower(r) => Syncs(r, "wait2", Start!Word(r).barrier, 0) /\ stage' = stage
           /\ Start!Return(r) => Syncs(r, Start!After(r), Start!Word(r).barrier, Start!Word(r).sense)
<1>1. built[r] \in Waiting \cup {"arrive"} => seg[r] \in Start!Segments
  BY DEF BuiltInv, TypeInv, BuiltRank, Start!Segments, Waiting
<1>2. vault \in [Start!Segments -> [sized : BOOLEAN, init : BOOLEAN, barrier : Int, sense : {0, 1}]]
  BY DEF BuiltInv, TypeInv
<1>3. Start!Arrive(r) => Syncs(r, IF Start!Word(r).barrier + 1 = WorldSize THEN "raise" ELSE "wait1",
                         Start!Word(r).barrier + 1, Start!Word(r).sense)
  BY <1>1, <1>2 DEF Start!Arrive, Syncs, Start!Word, Start!Goto, Waiting
<1>4. Start!Raise(r) => Syncs(r, "wait1", Start!Word(r).barrier, 1)
  BY <1>1, <1>2 DEF Start!Raise, Syncs, Start!Word, Start!Goto, Waiting
<1>5. Start!Pass(r) => Syncs(r, "depart", Start!Word(r).barrier, Start!Word(r).sense)
  BY <1>1, <1>2 DEF Start!Pass, Syncs, Start!Word, Start!Goto, Waiting
<1>6. Start!Depart(r) => Syncs(r, IF Start!Word(r).barrier - 1 = 0 THEN "lower" ELSE "wait2",
                         Start!Word(r).barrier - 1, Start!Word(r).sense)
  BY <1>1, <1>2 DEF Start!Depart, Syncs, Start!Word, Start!Goto, Waiting
<1>7. Start!Lower(r) => Syncs(r, "wait2", Start!Word(r).barrier, 0)
  BY <1>1, <1>2 DEF Start!Lower, Syncs, Start!Word, Start!Goto, Waiting
<1>8. Start!Return(r) => Syncs(r, Start!After(r), Start!Word(r).barrier, Start!Word(r).sense)
  BY <1>1, <1>2 DEF Start!Return, Syncs, Start!Word, Start!Goto, Waiting
<1>9. Start!Arrive(r) \/ Start!Raise(r) \/ Start!Pass(r) \/ Start!Depart(r) \/ Start!Lower(r)
        => stage' = stage
  BY DEF Start!Arrive, Start!Raise, Start!Pass, Start!Depart, Start!Lower
<1> QED
  BY <1>3, <1>4, <1>5, <1>6, <1>7, <1>8, <1>9

-----------------------------------------------------------------------------
\* Every step keeps the types.
LEMMA TypeKept ==
    ASSUME Numbered, BuiltInv, NEW r \in Ranks, Start!Step(r)
    PROVE  TypeInv'
<1> USE DEF BuiltInv, TypeInv, RootSteps, OpenSteps, Waiting, Start!Goto
<1>0. 0 \in Ranks
  BY RanksFinite
<1>1. CASE Start!CreateShm \/ Start!UnlinkShm
  BY <1>0, <1>1 DEF Start!CreateShm, Start!UnlinkShm
<1>2. CASE Start!Truncate
  BY <1>0, <1>2 DEF Start!Truncate, Start!Segments
<1>3. CASE Start!ClearVault
  <2> DEFINE Words == [sized : BOOLEAN, init : BOOLEAN, barrier : Int, sense : {0, 1}]
             cleared == [vault EXCEPT !["new"].barrier = 0]
  <2>1. cleared \in [Start!Segments -> Words]
    BY DEF Start!Segments
  <2> HIDE DEF cleared
  <2>2. [cleared EXCEPT !["new"].sense = 0] \in [Start!Segments -> Words]
    BY <2>1 DEF Start!Segments
  <2>3. vault' = [cleared EXCEPT !["new"].sense = 0]
    BY <1>3 DEF Start!ClearVault, cleared
  <2> QED
    BY <1>0, <1>3, <2>2, <2>3 DEF Start!ClearVault
<1>4. CASE Start!PublishInit
  BY <1>0, <1>4 DEF Start!PublishInit, Start!Segments
<1>5. CASE Start!OpenShm(r) \/ Start!StatShm(r) \/ Start!AwaitInit(r)
  BY <1>5 DEF Start!OpenShm, Start!StatShm, Start!AwaitInit
<1>6. built[r] \in Waiting \cup {"arrive"} => seg[r] \in Start!Segments
  BY DEF BuiltRank, Start!Segments
<1>7. CASE Start!Arrive(r)
  BY <1>6, <1>7 DEF Start!Arrive, Start!Word
<1>8. CASE Start!Raise(r)
  BY <1>6, <1>8 DEF Start!Raise
<1>9. CASE Start!Pass(r)
  BY <1>9 DEF Start!Pass
<1>10. CASE Start!Depart(r)
  BY <1>6, <1>10 DEF Start!Depart, Start!Word
<1>11. CASE Start!Lower(r)
  BY <1>6, <1>11 DEF Start!Lower
<1>12. CASE Start!Return(r)
  <2>1. stage[r] \in 1..3
    BY <1>12 DEF Start!Return, BuiltRank
  <2>2. Start!After(r) \in RootSteps \cup OpenSteps \cup Waiting \cup {"arrive", "bind", "ready"}
    BY <2>1 DEF Start!After
  <2> QED
    BY <1>12, <2>1, <2>2 DEF Start!Return
<1>13. CASE Start!Bind(r)
  BY <1>13 DEF Start!Bind
<1> QED
  BY <1>1, <1>2, <1>3, <1>4, <1>5, <1>7, <1>8, <1>9, <1>10, <1>11, <1>12, <1>13 DEF Start!Step

\* Initially nothing is mapped, and the old segment holds any count left over.
LEMMA InitHolds == ASSUME Numbered, Start!Init PROVE BuiltInv
<1>0. 0 \in Ranks /\ WorldSize \in Nat
  BY RanksFinite
<1>1. PICK v \in Start!Leftovers \cup {Start!Fresh} :
        vault = [s \in Start!Segments |-> IF s = "old" THEN v ELSE Start!Fresh]
  BY DEF Start!Init
<1>2. v \in [sized : BOOLEAN, init : BOOLEAN, barrier : 0..WorldSize, sense : {0, 1}]
  <2>1. CASE v = Start!Fresh
    BY <1>0, <2>1 DEF Start!Fresh
  <2>2. CASE v = [Start!Fresh EXCEPT !.sized = TRUE]
    <3>1. v = [sized |-> TRUE, init |-> FALSE, barrier |-> 0, sense |-> 0]
      BY <2>2 DEF Start!Fresh
    <3> QED
      BY <1>0, <3>1
  <2>3. CASE v \in [sized : {TRUE}, init : {TRUE}, barrier : 0..WorldSize, sense : {0, 1}]
    BY <2>3
  <2> QED
    BY <2>1, <2>2, <2>3 DEF Start!Leftovers
<1>3. TypeInv
  BY <1>0, <1>1, <1>2 DEF Start!Init, TypeInv, Start!Segments, Start!Fresh, RootSteps,
     OpenSteps, Waiting
<1>4. \A r \in Ranks : BuiltRank(r)
  BY DEF Start!Init, BuiltRank, RootSteps, OpenSteps
<1>5. vault["new"] = Start!Fresh /\ vault["old"] = v
  BY <1>1 DEF Start!Segments
<1>6. NameInv
  BY <1>0, <1>5 DEF Start!Init, NameInv, Start!Fresh
<1>7. Counted("old") = {} /\ Counted("new") = {} /\ Cardinality({}) = 0
  BY FS_EmptySet DEF Start!Init, Counted
<1>8. NewInv
  <2>1. vault["new"].barrier = 0 /\ vault["new"].sense = 0
    BY <1>5 DEF Start!Fresh
  <2>2. \A r \in Ranks : seg[r] = "none"
    BY DEF Start!Init
  <2>3. NewPhase /\ NewLast
    BY <2>1, <2>2 DEF NewPhase, NewLast
  <2>4. NewGeneration
    BY <2>2 DEF NewGeneration, Generation
  <2> QED
    BY <1>7, <2>1, <2>3, <2>4 DEF NewInv, NewCount
<1>9. OldWith(v.barrier)
  <2>1. \A r \in Ranks : seg[r] # "old"
    BY DEF Start!Init
  <2>2. v.barrier \in Nat /\ vault["old"].barrier = v.barrier
    BY <1>0, <1>2, <1>5
  <2>3. vault["old"].barrier = v.barrier + Cardinality(Counted("old"))
    BY <1>7, <2>2
  <2> QED
    BY <2>1, <2>3 DEF OldWith
<1> QED
  BY <1>2, <1>3, <1>4, <1>6, <1>8, <1>9 DEF BuiltInv, OldInv

-----------------------------------------------------------------------------
\* Where a rank is goes with what it has done, after every step.
LEMMA RanksKept ==
    ASSUME Numbered, BuiltInv, NEW r \in Ranks, Start!Step(r)
    PROVE  \A q \in Ranks : BuiltRank(q)'
<1> SUFFICES ASSUME NEW q \in Ranks PROVE BuiltRank(q)'
  OBVIOUS
<1> USE DEF BuiltInv, TypeInv, BuiltRank, RootSteps, OpenSteps, Waiting, Start!Goto
<1>0. 0 \in Ranks
  BY RanksFinite
<1>1. CASE Start!CreateShm
  BY <1>0, <1>1 DEF Start!CreateShm
<1>2. CASE Start!Truncate
  BY <1>0, <1>2 DEF Start!Truncate
<1>3. CASE Start!ClearVault
  BY <1>0, <1>3 DEF Start!ClearVault
<1>4. CASE Start!PublishInit
  BY <1>0, <1>4 DEF Start!PublishInit
<1>5. CASE Start!UnlinkShm
  BY <1>0, <1>5 DEF Start!UnlinkShm
<1>6. CASE Start!OpenShm(r)
  BY <1>6 DEF Start!OpenShm
<1>7. CASE Start!StatShm(r)
  BY <1>7 DEF Start!StatShm
<1>8. CASE Start!AwaitInit(r)
  BY <1>8 DEF Start!AwaitInit
<1>9. CASE Start!Arrive(r)
  BY <1>9 DEF Start!Arrive
<1>10. CASE Start!Raise(r) \/ Start!Pass(r)
  BY <1>10 DEF Start!Raise, Start!Pass
<1>11. CASE Start!Depart(r)
  BY <1>11 DEF Start!Depart
<1>12. CASE Start!Lower(r)
  BY <1>12 DEF Start!Lower
<1>13. CASE Start!Return(r)
  <2>1. stage[r] \in 1..3
    BY <1>13 DEF Start!Return
  <2>2. /\ stage[r] = 1 => Start!After(r) = (IF r = 0 THEN "unlink" ELSE "arrive")
        /\ stage[r] = 2 => Start!After(r) = "bind"
        /\ stage[r] = 3 => Start!After(r) = "ready"
    BY <2>1 DEF Start!After
  <2> QED
    BY <1>13, <2>1, <2>2 DEF Start!Return
<1>14. CASE Start!Bind(r)
  BY <1>14 DEF Start!Bind
<1> QED
  BY <1>1, <1>2, <1>3, <1>4, <1>5, <1>6, <1>7, <1>8, <1>9, <1>10, <1>11, <1>12, <1>13, <1>14
  DEF Start!Step

\* The name and the init code follow rank 0.
LEMMA NameKept ==
    ASSUME Numbered, BuiltInv, NEW r \in Ranks, Start!Step(r)
    PROVE  NameInv'
<1> USE DEF BuiltInv, TypeInv, NameInv, Start!Goto
<1>0. 0 \in Ranks
  BY RanksFinite
<1>1. CASE Start!CreateShm
  BY <1>0, <1>1 DEF Start!CreateShm, BuiltRank, RootSteps, Waiting
<1>2. CASE Start!Truncate
  BY <1>0, <1>2 DEF Start!Truncate, BuiltRank, RootSteps, Waiting, Start!Segments
<1>3. CASE Start!ClearVault
  BY <1>0, <1>3 DEF Start!ClearVault, BuiltRank, RootSteps, Waiting, Start!Segments
<1>4. CASE Start!PublishInit
  BY <1>0, <1>4 DEF Start!PublishInit, BuiltRank, RootSteps, Waiting, Start!Segments
<1>5. CASE Start!UnlinkShm
  BY <1>0, <1>5 DEF Start!UnlinkShm, BuiltRank, RootSteps, Waiting
<1>6. CASE Start!OpenShm(r)
  BY <1>0, <1>6 DEF Start!OpenShm, Waiting
<1>7. CASE Start!StatShm(r)
  BY <1>0, <1>7 DEF Start!StatShm, BuiltRank, OpenSteps, Waiting
<1>8. CASE Start!AwaitInit(r)
  BY <1>0, <1>8 DEF Start!AwaitInit, BuiltRank, OpenSteps, Waiting
<1>9. CASE \/ Start!Arrive(r) \/ Start!Raise(r) \/ Start!Pass(r)
           \/ Start!Depart(r) \/ Start!Lower(r) \/ Start!Return(r)
  <2>1. PICK l, b, s : Syncs(r, l, b, s) /\ (l = Start!After(r) \/ l \in Waiting)
    BY <1>9, SyncDoes DEF Waiting
  <2>2. built[r] \in Waiting \cup {"arrive"}
    BY <1>9 DEF Start!Arrive, Start!Raise, Start!Pass, Start!Depart, Start!Lower, Start!Return,
       Waiting
  <2>3. vault'["new"].init = vault["new"].init
    BY <2>1 DEF Syncs, Start!Segments
  <2>4. stage[r] \in 1..3
    BY <2>2 DEF BuiltRank, Waiting
  <2>5. /\ Start!After(r) \in {"unlink", "arrive", "bind", "ready"}
        /\ Start!After(r) = "unlink" <=> r = 0 /\ stage[r] = 1
    BY <2>4 DEF Start!After
  <2>6. built'[0] \notin {"create", "truncate", "clear", "publish"} \/ built'[0] = built[0]
    BY <1>0, <2>1, <2>5 DEF Syncs, Waiting
  <2>7. built[0] # "create" => name' # "old"
    BY <2>1 DEF Syncs
  <2>8. built'[0] # "create" => built[0] # "create"
    BY <1>0, <2>1, <2>2 DEF Syncs, Waiting
  <2>9. stage' = stage \/ (Start!Return(r) /\ stage' = [stage EXCEPT ![r] = @ + 1])
    BY <1>9, SyncDoes DEF Start!Return
  <2>10. stage'[0] >= 2 /\ built'[0] # "unlink" => name' = "none"
    <3>1. CASE r # 0
      <4>1. built'[0] = built[0] /\ stage'[0] = stage[0] /\ name' = name
        BY <1>0, <2>1, <2>9, <3>1 DEF Syncs
      <4> QED
        BY <4>1
    <3>2. CASE r = 0
      <4>1. built[0] # "unlink" /\ name' = name /\ built'[0] = l
        BY <1>0, <2>1, <2>2, <3>2 DEF Syncs, Waiting
      <4>2. CASE stage' = stage
        BY <4>1, <4>2
      <4>3. CASE Start!Return(r) /\ stage' = [stage EXCEPT ![r] = @ + 1]
        <5>1. l = Start!After(r)
          BY <4>3, <4>1, <3>2, <1>0 DEF Start!Return
        <5> QED
          BY <5>1, <4>1, <4>3, <2>4, <2>5, <3>2
      <4> QED
        BY <2>9, <4>2, <4>3
    <3> QED
      BY <3>1, <3>2
  <2>11. \A q \in Ranks : seg'[q] = "new" /\ built'[q] \in Waiting \cup {"arrive", "unlink", "bind", "ready"}
                          => vault'["new"].init
    BY <2>1, <2>2, <2>3 DEF Syncs
  <2> QED
    BY <2>3, <2>6, <2>7, <2>8, <2>10, <2>11
<1>14. CASE Start!Bind(r)
  BY <1>0, <1>14 DEF Start!Bind, BuiltRank, Waiting
<1> QED
  BY <1>1, <1>2, <1>3, <1>4, <1>5, <1>6, <1>7, <1>8, <1>9, <1>14 DEF Start!Step

-----------------------------------------------------------------------------
\* A rank that a step leaves where it is.
Stays(q) == built'[q] = built[q] /\ seg'[q] = seg[q] /\ stage'[q] = stage[q]

\* A rank that a step moves outside the barrier of the new segment.
MovesOutside(q) == NewOut(q) /\ NewOut(q)' /\ Generation(q)' = Generation(q)

\* A step that touches neither the new words nor a rank in the barrier keeps the
\* barrier's invariant.
LEMMA NewQuiet ==
    ASSUME Numbered, BuiltInv, TypeInv',
           vault'["new"].barrier = vault["new"].barrier,
           vault'["new"].sense = vault["new"].sense,
           \A q \in Ranks : Stays(q) \/ MovesOutside(q)
    PROVE  NewInv'
<1>1. vault["new"].sense \in {0, 1}
  BY DEF BuiltInv, TypeInv, Start!Segments
<1>2. \A q \in Ranks : q \in Counted("new")' <=> q \in Counted("new")
  BY DEF Stays, MovesOutside, NewOut, Counted, Waiting
<1>3. Counted("new")' = Counted("new")
  BY <1>2 DEF Counted
<1>4. NewCount'
  BY <1>3 DEF BuiltInv, NewInv, NewCount
<1>5. NewPhase'
  BY <1>1 DEF BuiltInv, NewInv, NewPhase, Stays, MovesOutside, NewOut, Waiting
<1>6. NewLast'
  <2> SUFFICES ASSUME NEW r \in Ranks, NEW q \in Ranks, r # q, seg'[r] = "new",
                      built'[r] \in {"raise", "lower"}
               PROVE  /\ built'[r] = "raise" => seg'[q] = "new" /\ built'[q] = "wait1"
                      /\ built'[r] = "lower" => seg'[q] = "new" /\ built'[q] = "wait2"
    BY DEF NewLast
  <2>1. Stays(r)
    BY DEF MovesOutside, NewOut, Waiting
  <2>2. /\ built[r] = "raise" => seg[q] = "new" /\ built[q] = "wait1"
        /\ built[r] = "lower" => seg[q] = "new" /\ built[q] = "wait2"
    BY <2>1 DEF Stays, BuiltInv, NewInv, NewLast
  <2>3. Stays(q)
    BY <2>1, <2>2 DEF Stays, MovesOutside, NewOut, Waiting
  <2> QED
    BY <2>1, <2>2, <2>3 DEF Stays
<1>7. \A q \in Ranks : Generation(q)' = Generation(q)
  BY DEF Stays, MovesOutside, Generation, NewOut
<1>8. NewGeneration'
  BY <1>7 DEF BuiltInv, NewInv, NewGeneration
<1> QED
  BY <1>4, <1>5, <1>6, <1>8 DEF NewInv

\* A rank that the old segment does not count, before and after the step.
MovesUncounted(q, b) ==
    /\ seg[q] = "old" => built[q] \notin {"raise", "wait1", "depart"}
    /\ seg'[q] = "old" => built'[q] \notin {"raise", "wait1", "depart"} /\ OldRank(q, b)'

\* A step that touches neither the old words nor a rank counted in them keeps what
\* is known of the old segment.
LEMMA OldQuiet ==
    ASSUME Numbered, BuiltInv, NEW b \in 0..WorldSize, OldWith(b),
           vault'["old"].barrier = vault["old"].barrier,
           vault'["old"].sense = vault["old"].sense,
           \A q \in Ranks : Stays(q) \/ MovesUncounted(q, b)
    PROVE  OldInv'
<1>1. \A q \in Ranks : q \in Counted("old")' <=> q \in Counted("old")
  BY DEF Stays, MovesUncounted, Counted
<1>2. Counted("old")' = Counted("old")
  BY <1>1 DEF Counted
<1>3. \A q \in Ranks : seg'[q] = "old" => OldRank(q, b)'
  BY DEF OldWith, OldRank, Stays, MovesUncounted
<1>4. OldWith(b)'
  BY <1>2, <1>3 DEF OldWith
<1> QED
  BY <1>4 DEF OldInv, Numbered

-----------------------------------------------------------------------------
\* The steps outside sync().
Outside(r) ==
    \/ r = 0 /\ \/ Start!CreateShm \/ Start!Truncate \/ Start!ClearVault
                \/ Start!PublishInit \/ Start!UnlinkShm
    \/ Start!OpenShm(r) \/ Start!StatShm(r) \/ Start!AwaitInit(r) \/ Start!Bind(r)

\* They leave the words of both barriers as they are: what rank 0 clears is clear.
LEMMA WordsUntouched ==
    ASSUME Numbered, BuiltInv, NEW r \in Ranks, Outside(r)
    PROVE  \A s \in Start!Segments : /\ vault'[s].barrier = vault[s].barrier
                                     /\ vault'[s].sense = vault[s].sense
<1>0. 0 \in Ranks
  BY RanksFinite
<1>1. vault \in [Start!Segments -> [sized : BOOLEAN, init : BOOLEAN, barrier : Int, sense : {0, 1}]]
  BY DEF BuiltInv, TypeInv
<1>2. CASE \/ Start!CreateShm \/ Start!UnlinkShm \/ Start!OpenShm(r)
           \/ Start!StatShm(r) \/ Start!AwaitInit(r) \/ Start!Bind(r)
  BY <1>2 DEF Start!CreateShm, Start!UnlinkShm, Start!OpenShm, Start!StatShm, Start!AwaitInit,
     Start!Bind
<1>3. CASE Start!Truncate \/ Start!PublishInit
  BY <1>1, <1>3 DEF Start!Truncate, Start!PublishInit, Start!Segments
<1>4. CASE Start!ClearVault
  <2>1. ~vault["new"].init
    BY <1>4 DEF Start!ClearVault, BuiltInv, NameInv
  <2>2. Counted("new") = {}
    BY <2>1 DEF BuiltInv, NameInv, Counted, Waiting
  <2>3. vault["new"].barrier = 0
    BY <2>2, FS_EmptySet DEF BuiltInv, NewInv, NewCount
  <2>4. vault["new"].sense = 0
    BY <1>0, <1>1, <1>4 DEF Start!ClearVault, BuiltInv, NewInv, NewPhase, NewOut, Waiting,
       Start!Segments
  <2>5. vault'["new"].barrier = 0 /\ vault'["new"].sense = 0 /\ vault'["old"] = vault["old"]
    BY <1>1, <1>4 DEF Start!ClearVault, Start!Segments
  <2> QED
    BY <2>3, <2>4, <2>5 DEF Start!Segments
<1> QED
  BY <1>2, <1>3, <1>4 DEF Outside

\* And they keep both invariants.
LEMMA OutsideKeeps ==
    ASSUME Numbered, BuiltInv, NEW r \in Ranks, Outside(r)
    PROVE  NewInv' /\ OldInv'
<1> USE DEF Start!Goto
<1>0. 0 \in Ranks /\ Start!Step(r)
  BY RanksFinite DEF Outside, Start!Step
<1>1. TypeInv' /\ BuiltRank(r)'
  BY <1>0, TypeKept, RanksKept
<1>2. \A s \in Start!Segments : /\ vault'[s].barrier = vault[s].barrier
                                /\ vault'[s].sense = vault[s].sense
  BY WordsUntouched
<1>3. \A q \in Ranks \ {r} : Stays(q)
  BY DEF Outside, Start!CreateShm, Start!Truncate, Start!ClearVault, Start!PublishInit,
     Start!UnlinkShm, Start!OpenShm, Start!StatShm, Start!AwaitInit, Start!Bind, Stays,
     BuiltInv, TypeInv
<1>4. stage' = stage
  BY DEF Outside, Start!CreateShm, Start!Truncate, Start!ClearVault, Start!PublishInit,
     Start!UnlinkShm, Start!OpenShm, Start!StatShm, Start!AwaitInit, Start!Bind
<1>5. built[r] \notin Waiting /\ built[r] # "arrive" /\ built'[r] \notin Waiting
  BY <1>0 DEF Outside, Start!CreateShm, Start!Truncate, Start!ClearVault, Start!PublishInit,
     Start!UnlinkShm, Start!OpenShm, Start!StatShm, Start!AwaitInit, Start!Bind, BuiltInv,
     TypeInv, Waiting
<1>6. seg'[r] = seg[r] \/ (seg[r] = "none" /\ stage[r] = 1)
  BY <1>0 DEF Outside, Start!CreateShm, Start!Truncate, Start!ClearVault, Start!PublishInit,
     Start!UnlinkShm, Start!OpenShm, Start!StatShm, Start!AwaitInit, Start!Bind, BuiltInv,
     TypeInv, BuiltRank, OpenSteps, RootSteps
<1>7. MovesOutside(r)
  BY <1>4, <1>5, <1>6 DEF MovesOutside, NewOut, Generation, BuiltInv, TypeInv
<1>8. NewInv'
  BY <1>1, <1>2, <1>3, <1>7, NewQuiet DEF Start!Segments
<1>9. PICK b \in 0..WorldSize : OldWith(b)
  BY DEF BuiltInv, OldInv
<1>10. seg'[r] = "old" => r # 0 /\ ~Start!Bind(r)
  <2>1. r = 0 => seg'[r] # "old"
    BY <1>1 DEF BuiltRank
  <2>2. Start!Bind(r) => stage[r] = 3 /\ seg'[r] = seg[r]
    BY DEF Start!Bind, BuiltInv, BuiltRank
  <2>3. seg[r] = "old" => stage[r] # 3
    BY <1>9 DEF OldWith, OldRank, BuiltInv, TypeInv
  <2> QED
    BY <2>1, <2>2, <2>3
<1>11. seg'[r] = "old" => stage'[r] = 1 /\ built'[r] \in {"stat", "await", "arrive"}
  BY <1>0, <1>4, <1>10 DEF Outside, Start!OpenShm, Start!StatShm, Start!AwaitInit, BuiltInv,
     TypeInv, BuiltRank, OpenSteps
<1>12. MovesUncounted(r, b)
  BY <1>5, <1>11 DEF MovesUncounted, OldRank, Waiting
<1>13. OldInv'
  BY <1>2, <1>3, <1>9, <1>12, OldQuiet DEF Start!Segments
<1> QED
  BY <1>8, <1>13

-----------------------------------------------------------------------------
\* A rank that syncs on one segment is nothing to the other.
LEMMA NewApart ==
    ASSUME Numbered, BuiltInv, TypeInv', NEW r \in Ranks, seg[r] = "old", NEW l, NEW b, NEW s,
           Syncs(r, l, b, s), \A q \in Ranks \ {r} : stage'[q] = stage[q]
    PROVE  NewInv'
<1>1. \A q \in Ranks \ {r} : Stays(q)
  BY DEF Syncs, Stays, BuiltInv, TypeInv
<1>2. MovesOutside(r)
  BY DEF Syncs, MovesOutside, NewOut, Generation
<1>3. vault'["new"] = vault["new"]
  BY DEF Syncs, Start!Segments
<1> QED
  BY <1>1, <1>2, <1>3, NewQuiet

\* A rank that syncs on the new segment does not touch the old one.
LEMMA OldApart ==
    ASSUME Numbered, BuiltInv, NEW r \in Ranks, seg[r] = "new", NEW l, NEW b, NEW s,
           Syncs(r, l, b, s), \A q \in Ranks \ {r} : stage'[q] = stage[q]
    PROVE  OldInv'
<1>1. \A q \in Ranks \ {r} : Stays(q)
  BY DEF Syncs, Stays, BuiltInv, TypeInv
<1>2. \A c : MovesUncounted(r, c)
  BY DEF Syncs, MovesUncounted
<1>3. vault'["old"] = vault["old"]
  BY DEF Syncs, Start!Segments
<1>4. PICK c \in 0..WorldSize : OldWith(c)
  BY DEF BuiltInv, OldInv
<1> QED
  BY <1>1, <1>2, <1>3, <1>4, OldQuiet

-----------------------------------------------------------------------------
\* The barrier of the new segment, step by step: it is the one of SenseBarrier, in
\* which a rank that has not mapped the segment has not arrived.
LEMMA NewArrive ==
    ASSUME Numbered, BuiltInv, TypeInv', NEW r \in Ranks, seg[r] = "new", Start!Arrive(r)
    PROVE  NewInv'
<1> DEFINE b == vault["new"].barrier
<1>1. built[r] = "arrive" /\ b \in Int /\ vault["new"].sense \in {0, 1}
  BY DEF Start!Arrive, BuiltInv, TypeInv, Start!Segments
<1>2. /\ stage' = stage /\ seg' = seg
      /\ built' = [built EXCEPT ![r] = IF b + 1 = WorldSize THEN "raise" ELSE "wait1"]
      /\ vault'["new"].barrier = b + 1 /\ vault'["new"].sense = vault["new"].sense
  BY SyncDoes DEF Syncs, Start!Word
<1>3. vault["new"].sense = 0 /\ r \notin Counted("new")
  BY <1>1 DEF BuiltInv, NewInv, NewPhase, NewOut, Waiting, Counted
<1>4. Counted("new")' = Counted("new") \cup {r}
  BY <1>2 DEF Counted, BuiltInv, TypeInv
<1>5. Counted("new") \subseteq Ranks
  BY DEF Counted
<1>6. b = Cardinality(Counted("new"))
  BY DEF BuiltInv, NewInv, NewCount
<1>7. NewCount'
  BY <1>2, <1>3, <1>4, <1>5, <1>6, Counting DEF NewCount
<1>8. NewPhase'
  BY <1>2, <1>3 DEF BuiltInv, TypeInv, NewInv, NewPhase
<1>9. \A q \in Ranks : seg[q] = "new" => built[q] # "raise" /\ built[q] # "lower"
  BY <1>1, <1>3 DEF BuiltInv, NewInv, NewLast, NewPhase
<1>10. b + 1 = WorldSize => Counted("new") \cup {r} = Ranks
  <2>1. Counted("new") \cup {r} \subseteq Ranks
    BY <1>5
  <2>2. Cardinality(Counted("new") \cup {r}) = b + 1
    BY <1>3, <1>5, <1>6, Counting
  <2> QED
    BY <2>1, <2>2, Counting
<1>11. b + 1 = WorldSize => \A q \in Ranks \ {r} : seg[q] = "new" /\ built[q] = "wait1"
  BY <1>3, <1>9, <1>10 DEF BuiltInv, NewInv, NewPhase, Counted
<1>12. NewLast'
  BY <1>2, <1>9, <1>11 DEF BuiltInv, TypeInv, NewLast
<1>13. \A q \in Ranks : Generation(q)' = Generation(q)
  BY <1>1, <1>2, <1>3 DEF BuiltInv, TypeInv, Generation, NewOut, Waiting
<1>14. NewGeneration'
  BY <1>13 DEF BuiltInv, NewInv, NewGeneration
<1> QED
  BY <1>7, <1>8, <1>12, <1>14 DEF NewInv

\* The last to arrive turns the sense up.
LEMMA NewRaise ==
    ASSUME Numbered, BuiltInv, TypeInv', NEW r \in Ranks, seg[r] = "new", Start!Raise(r)
    PROVE  NewInv'
<1>1. built[r] = "raise" /\ vault["new"].sense \in {0, 1}
  BY DEF Start!Raise, BuiltInv, TypeInv, Start!Segments
<1>2. /\ stage' = stage /\ seg' = seg /\ built' = [built EXCEPT ![r] = "wait1"]
      /\ vault'["new"].barrier = vault["new"].barrier /\ vault'["new"].sense = 1
  BY SyncDoes DEF Syncs, Start!Word
<1>3. vault["new"].sense = 0
  BY <1>1 DEF BuiltInv, NewInv, NewPhase
<1>4. \A q \in Ranks : seg[q] = "new" /\ built[q] \in {"raise", "wait1"} /\ built'[q] = "wait1"
  BY <1>1, <1>2 DEF BuiltInv, TypeInv, NewInv, NewLast
<1>5. Counted("new")' = Counted("new")
  BY <1>2, <1>4 DEF Counted
<1>6. NewCount'
  BY <1>2, <1>5 DEF BuiltInv, NewInv, NewCount
<1>7. NewPhase' /\ NewLast'
  BY <1>2, <1>4 DEF NewPhase, NewLast, NewOut, Waiting
<1>8. \A q \in Ranks : Generation(q) = stage[q] - 1 /\ Generation(q)' = stage[q]
  BY <1>2, <1>3, <1>4 DEF Generation, NewOut, Waiting
<1>9. \A q \in Ranks : stage[q] \in Int
  BY DEF BuiltInv, TypeInv
<1>10. NewGeneration'
  BY <1>8, <1>9 DEF BuiltInv, NewInv, NewGeneration
<1> QED
  BY <1>6, <1>7, <1>10 DEF NewInv

\* A rank sees the sense up.
LEMMA NewPass ==
    ASSUME Numbered, BuiltInv, TypeInv', NEW r \in Ranks, seg[r] = "new", Start!Pass(r)
    PROVE  NewInv'
<1>1. built[r] = "wait1" /\ vault["new"].sense = 1
  BY DEF Start!Pass, Start!Word
<1>2. /\ stage' = stage /\ seg' = seg /\ built' = [built EXCEPT ![r] = "depart"]
      /\ vault'["new"].barrier = vault["new"].barrier /\ vault'["new"].sense = 1
  BY <1>1, SyncDoes DEF Syncs, Start!Word
<1>3. Counted("new")' = Counted("new")
  BY <1>1, <1>2 DEF Counted, BuiltInv, TypeInv
<1>4. NewCount'
  BY <1>2, <1>3 DEF BuiltInv, NewInv, NewCount
<1>5. NewPhase' /\ NewLast'
  BY <1>1, <1>2 DEF BuiltInv, TypeInv, NewInv, NewPhase, NewLast, NewOut, Waiting
<1>6. \A q \in Ranks : Generation(q)' = Generation(q)
  BY <1>1, <1>2 DEF BuiltInv, TypeInv, Generation, NewOut, Waiting
<1>7. NewGeneration'
  BY <1>6 DEF BuiltInv, NewInv, NewGeneration
<1> QED
  BY <1>4, <1>5, <1>7 DEF NewInv

\* A rank counts itself out.
LEMMA NewDepart ==
    ASSUME Numbered, BuiltInv, TypeInv', NEW r \in Ranks, seg[r] = "new", Start!Depart(r)
    PROVE  NewInv'
<1> DEFINE b == vault["new"].barrier
<1>1. built[r] = "depart" /\ b \in Int /\ vault["new"].sense \in {0, 1}
  BY DEF Start!Depart, BuiltInv, TypeInv, Start!Segments
<1>2. /\ stage' = stage /\ seg' = seg
      /\ built' = [built EXCEPT ![r] = IF b - 1 = 0 THEN "lower" ELSE "wait2"]
      /\ vault'["new"].barrier = b - 1 /\ vault'["new"].sense = vault["new"].sense
  BY SyncDoes DEF Syncs, Start!Word
<1>3. vault["new"].sense = 1 /\ r \in Counted("new")
  BY <1>1 DEF BuiltInv, NewInv, NewPhase, Counted
<1>4. Counted("new")' = Counted("new") \ {r}
  BY <1>2 DEF Counted, BuiltInv, TypeInv
<1>5. Counted("new") \subseteq Ranks /\ Counted("new") \ {r} \subseteq Ranks
  BY DEF Counted
<1>6. b = Cardinality(Counted("new"))
  BY DEF BuiltInv, NewInv, NewCount
<1>7. Cardinality(Counted("new") \ {r}) = b - 1
  BY <1>3, <1>5, <1>6, Counting
<1>8. NewCount'
  BY <1>2, <1>4, <1>7 DEF NewCount
<1>9. NewPhase'
  BY <1>2, <1>3 DEF BuiltInv, TypeInv, NewInv, NewPhase, NewOut, Waiting
<1>10. \A q \in Ranks : /\ seg[q] = "new" /\ built[q] # "raise"
                       /\ built[q] # "lower" /\ built[q] \in Waiting
  BY <1>1, <1>3 DEF BuiltInv, NewInv, NewLast, NewPhase, NewOut
<1>11. b - 1 = 0 => Counted("new") \ {r} = {}
  BY <1>5, <1>7, Counting
<1>12. b - 1 = 0 => \A q \in Ranks \ {r} : seg[q] = "new" /\ built[q] = "wait2"
  BY <1>10, <1>11 DEF Counted, Waiting
<1>13. NewLast'
  BY <1>2, <1>10, <1>12 DEF BuiltInv, TypeInv, NewLast
<1>14. \A q \in Ranks : Generation(q)' = Generation(q)
  BY <1>1, <1>2, <1>3 DEF BuiltInv, TypeInv, Generation, NewOut, Waiting
<1>15. NewGeneration'
  BY <1>14 DEF BuiltInv, NewInv, NewGeneration
<1> QED
  BY <1>8, <1>9, <1>13, <1>15 DEF NewInv

\* The last to leave turns the sense down.
LEMMA NewLower ==
    ASSUME Numbered, BuiltInv, TypeInv', NEW r \in Ranks, seg[r] = "new", Start!Lower(r)
    PROVE  NewInv'
<1>1. built[r] = "lower" /\ vault["new"].sense \in {0, 1}
  BY DEF Start!Lower, BuiltInv, TypeInv, Start!Segments
<1>2. /\ stage' = stage /\ seg' = seg /\ built' = [built EXCEPT ![r] = "wait2"]
      /\ vault'["new"].barrier = vault["new"].barrier /\ vault'["new"].sense = 0
  BY SyncDoes DEF Syncs, Start!Word
<1>3. \A q \in Ranks : seg[q] = "new" /\ built[q] \in {"lower", "wait2"} /\ built'[q] = "wait2"
  BY <1>1, <1>2 DEF BuiltInv, TypeInv, NewInv, NewLast
<1>4. Counted("new")' = Counted("new")
  BY <1>2, <1>3 DEF Counted
<1>5. NewCount'
  BY <1>2, <1>4 DEF BuiltInv, NewInv, NewCount
<1>6. NewPhase' /\ NewLast'
  BY <1>2, <1>3 DEF NewPhase, NewLast, NewOut, Waiting
<1>7. \A q \in Ranks : Generation(q)' = Generation(q)
  BY <1>2, <1>3 DEF Generation, NewOut, Waiting
<1>8. NewGeneration'
  BY <1>7 DEF BuiltInv, NewInv, NewGeneration
<1> QED
  BY <1>5, <1>6, <1>8 DEF NewInv

\* A rank sees the sense down and has passed the sync.
LEMMA NewReturn ==
    ASSUME Numbered, BuiltInv, TypeInv', NEW r \in Ranks, seg[r] = "new", Start!Return(r)
    PROVE  NewInv'
<1>1. built[r] = "wait2" /\ vault["new"].sense = 0 /\ stage[r] \in 1..3
  BY DEF Start!Return, Start!Word, BuiltInv, TypeInv, BuiltRank
<1>2. /\ stage' = [stage EXCEPT ![r] = @ + 1] /\ seg' = seg
      /\ built' = [built EXCEPT ![r] = Start!After(r)]
      /\ vault'["new"].barrier = vault["new"].barrier /\ vault'["new"].sense = 0
  BY <1>1, SyncDoes DEF Syncs, Start!Word, Start!Return
<1>3. Start!After(r) \notin Waiting
  BY <1>1 DEF Start!After, Waiting
<1>4. Counted("new")' = Counted("new")
  BY <1>1, <1>2, <1>3 DEF Counted, BuiltInv, TypeInv, Waiting
<1>5. NewCount'
  BY <1>2, <1>4 DEF BuiltInv, NewInv, NewCount
<1>6. NewPhase' /\ NewLast'
  BY <1>1, <1>2, <1>3 DEF BuiltInv, TypeInv, NewInv, NewPhase, NewLast, NewOut, Waiting
<1>7. \A q \in Ranks : Generation(q)' = Generation(q)
  BY <1>1, <1>2, <1>3 DEF BuiltInv, TypeInv, Generation, NewOut, Waiting
<1>8. NewGeneration'
  BY <1>7 DEF BuiltInv, NewInv, NewGeneration
<1> QED
  BY <1>5, <1>6, <1>8 DEF NewInv

-----------------------------------------------------------------------------
\* A step of sync() on the old segment, given what it does to the count of the ranks
\* inside and what it leaves true of the rank that takes it.
LEMMA OldSync ==
    ASSUME Numbered, BuiltInv, NEW c \in 0..WorldSize, OldWith(c), NEW r \in Ranks, seg[r] = "old",
           NEW l, NEW b, NEW s, Syncs(r, l, b, s),
           \A q \in Ranks \ {r} : stage'[q] = stage[q],
           b = c + Cardinality(Counted("old")'),
           s = vault["old"].sense, OldRank(r, c)'
    PROVE  OldInv'
<1>1. \A q \in Ranks \ {r} : Stays(q)
  BY DEF Syncs, Stays, BuiltInv, TypeInv
<1>2. vault'["old"].barrier = b /\ vault'["old"].sense = vault["old"].sense
  BY DEF Syncs
<1>3. \A q \in Ranks : seg'[q] = "old" => OldRank(q, c)'
  BY <1>1, <1>2 DEF OldWith, OldRank, Stays
<1>4. OldWith(c)'
  BY <1>2, <1>3 DEF OldWith
<1> QED
  BY <1>4 DEF OldInv, Numbered

\* With ranks missing, the old barrier neither fills nor drains.
LEMMA OldKept ==
    ASSUME Numbered, BuiltInv, NEW r \in Ranks, seg[r] = "old",
           \/ Start!Arrive(r) \/ Start!Raise(r) \/ Start!Pass(r)
           \/ Start!Depart(r) \/ Start!Lower(r) \/ Start!Return(r)
    PROVE  OldInv'
<1> DEFINE b == vault["old"].barrier
           In == Counted("old")
<1>1. PICK c \in 0..WorldSize : OldWith(c)
  BY DEF BuiltInv, OldInv
<1>2. /\ c \in Nat /\ WorldSize \in Nat \ {0} /\ b = c + Cardinality(In)
      /\ In \subseteq Ranks /\ Cardinality(In) \in Nat /\ Cardinality(In) < WorldSize
  BY <1>1, OldSmall, RanksFinite DEF OldWith
<1>3. OldRank(r, c) /\ vault["old"].sense \in {0, 1} /\ stage[r] \in 1..4 /\ r # 0
  BY <1>1 DEF OldWith, BuiltInv, TypeInv, Start!Segments, BuiltRank
<1>4. built \in [Ranks -> RootSteps \cup OpenSteps \cup Waiting \cup {"arrive", "bind", "ready"}]
  BY DEF BuiltInv, TypeInv
<1>5. CASE Start!Arrive(r)
  <2>1. stage' = stage /\ built[r] = "arrive"
        /\ Syncs(r, IF b + 1 = WorldSize THEN "raise" ELSE "wait1", b + 1, vault["old"].sense)
    BY <1>5, SyncDoes DEF Start!Word, Start!Arrive
  <2>2. r \notin In /\ Counted("old")' = In \cup {r}
    BY <1>4, <2>1 DEF Counted, Syncs
  <2>3. Cardinality(Counted("old")') = Cardinality(In) + 1
    BY <1>2, <2>2, Counting
  <2>4. c = 0 => b + 1 # WorldSize
    <3>1. 0 \in Ranks /\ 0 \notin In \cup {r}
      BY <1>3, RanksFinite DEF BuiltInv, BuiltRank, Counted
    <3>2. In \cup {r} \subseteq Ranks
      BY <1>2
    <3>3. Cardinality(In \cup {r}) < WorldSize
      BY <3>1, <3>2, Counting
    <3> QED
      BY <1>2, <2>2, <2>3, <3>3
  <2>5. OldRank(r, c)'
    BY <1>2, <1>3, <1>4, <2>1, <2>4 DEF OldRank, Syncs
  <2> QED
    BY <1>1, <1>2, <2>1, <2>3, <2>5, OldSync
<1>6. CASE Start!Raise(r)
  <2>1. c > 0 /\ stage' = stage /\ built[r] = "raise" /\ Syncs(r, "wait1", b, 1)
    <3>1. built[r] = "raise" /\ stage' = stage /\ Syncs(r, "wait1", b, 1)
      BY <1>6, SyncDoes DEF Start!Word, Start!Raise
    <3>2. c > 0
      BY <1>2, <1>3, <3>1 DEF OldRank
    <3> QED
      BY <3>1, <3>2
  <2>2. Counted("old")' = In
    BY <1>4, <2>1 DEF Counted, Syncs
  <2>3. vault'["old"].barrier = b /\ vault'["old"].sense = 1
    BY <2>1 DEF Syncs
  <2>4. \A q \in Ranks : seg'[q] = "old" => OldRank(q, c)'
    BY <1>1, <1>3, <1>4, <2>1, <2>3 DEF OldWith, OldRank, Syncs
  <2>5. OldWith(c)'
    BY <1>2, <2>2, <2>3, <2>4 DEF OldWith
  <2> QED
    BY <2>5 DEF OldInv, Numbered
<1>7. CASE Start!Pass(r)
  <2>1. stage' = stage /\ built[r] = "wait1" /\ vault["old"].sense = 1
        /\ Syncs(r, "depart", b, vault["old"].sense)
    BY <1>7, SyncDoes DEF Start!Word, Start!Pass
  <2>2. Counted("old")' = In
    BY <1>4, <2>1 DEF Counted, Syncs
  <2>3. OldRank(r, c)'
    BY <1>3, <1>4, <2>1 DEF OldRank, Syncs
  <2> QED
    BY <1>1, <1>2, <2>1, <2>2, <2>3, OldSync
<1>8. CASE Start!Depart(r)
  <2>1. stage' = stage /\ built[r] = "depart"
        /\ Syncs(r, IF b - 1 = 0 THEN "lower" ELSE "wait2", b - 1, vault["old"].sense)
    BY <1>8, SyncDoes DEF Start!Word, Start!Depart
  <2>2. r \in In /\ Counted("old")' = In \ {r}
    BY <1>4, <2>1 DEF Counted, Syncs
  <2>3. Cardinality(Counted("old")') = Cardinality(In) - 1
    BY <1>2, <2>2, Counting
  <2>4. Cardinality(In) >= 1
    <3>1. Cardinality(In) # 0
      BY <1>2, <2>2, Counting
    <3> QED
      BY <1>2, <3>1
  <2>5. c > 0 => b - 1 # 0
    BY <1>2, <2>4
  <2>6. OldRank(r, c)'
    BY <1>2, <1>3, <1>4, <2>1, <2>5 DEF OldRank, Syncs
  <2> QED
    BY <1>1, <1>2, <2>1, <2>3, <2>6, OldSync
<1>9. CASE Start!Lower(r)
  <2>1. c = 0 /\ stage' = stage /\ built[r] = "lower" /\ Syncs(r, "wait2", b, 0)
    <3>1. built[r] = "lower" /\ stage' = stage /\ Syncs(r, "wait2", b, 0)
      BY <1>9, SyncDoes DEF Start!Word, Start!Lower
    <3>2. c = 0
      BY <1>2, <1>3, <3>1 DEF OldRank
    <3> QED
      BY <3>1, <3>2
  <2>2. Counted("old")' = In
    BY <1>4, <2>1 DEF Counted, Syncs
  <2>3. vault'["old"].barrier = b /\ vault'["old"].sense = 0
    BY <2>1 DEF Syncs
  <2>4. \A q \in Ranks : seg'[q] = "old" => OldRank(q, c)'
    BY <1>1, <1>3, <1>4, <2>1, <2>3 DEF OldWith, OldRank, Syncs
  <2>5. OldWith(c)'
    BY <1>2, <2>2, <2>3, <2>4 DEF OldWith
  <2> QED
    BY <2>5 DEF OldInv, Numbered
<1>10. CASE Start!Return(r)
  <2>1. built[r] = "wait2" /\ vault["old"].sense = 0 /\ stage' = [stage EXCEPT ![r] = @ + 1]
        /\ Syncs(r, Start!After(r), b, vault["old"].sense)
    BY <1>10, SyncDoes DEF Start!Word, Start!Return
  <2>2. c = 0 /\ stage[r] = 1
    BY <1>2, <1>3, <2>1 DEF OldRank
  <2>3. Start!After(r) = "arrive"
    BY <1>3, <2>2 DEF Start!After
  <2>4. Counted("old")' = In
    BY <1>4, <2>1, <2>3 DEF Counted, Syncs
  <2>5. stage'[r] = 2 /\ \A q \in Ranks \ {r} : stage'[q] = stage[q]
    BY <2>1, <2>2 DEF BuiltInv, TypeInv
  <2>6. OldRank(r, c)'
    BY <1>3, <1>4, <2>1, <2>2, <2>3, <2>5 DEF OldRank, Syncs
  <2> QED
    BY <1>1, <1>2, <2>1, <2>4, <2>5, <2>6, OldSync
<1> QED
  BY <1>5, <1>6, <1>7, <1>8, <1>9, <1>10

-----------------------------------------------------------------------------
\* Every step of the constructor keeps the invariant.
LEMMA StepKeeps == ASSUME Numbered, BuiltInv, NEW r \in Ranks, Start!Step(r) PROVE BuiltInv'
<1>1. TypeInv' /\ NameInv' /\ \A q \in Ranks : BuiltRank(q)'
  BY TypeKept, NameKept, RanksKept
<1>2. CASE Outside(r)
  BY <1>1, <1>2, OutsideKeeps DEF BuiltInv
<1>3. CASE \/ Start!Arrive(r) \/ Start!Raise(r) \/ Start!Pass(r)
           \/ Start!Depart(r) \/ Start!Lower(r) \/ Start!Return(r)
  <2>1. PICK l, b, s : Syncs(r, l, b, s)
    BY <1>3, SyncDoes
  <2>2. \A q \in Ranks \ {r} : stage'[q] = stage[q]
    BY <1>3 DEF Start!Arrive, Start!Raise, Start!Pass, Start!Depart, Start!Lower, Start!Return,
       BuiltInv, TypeInv
  <2>3. CASE seg[r] = "old"
    BY <1>1, <1>3, <2>1, <2>2, <2>3, NewApart, OldKept DEF BuiltInv
  <2>4. CASE seg[r] = "new"
    <3>1. OldInv'
      BY <2>1, <2>2, <2>4, OldApart
    <3>2. NewInv'
      BY <1>1, <1>3, <2>4, NewArrive, NewRaise, NewPass, NewDepart, NewLower, NewReturn
    <3> QED
      BY <1>1, <3>1, <3>2 DEF BuiltInv
  <2> QED
    BY <2>1, <2>3, <2>4 DEF Syncs, Start!Segments
<1> QED
  BY <1>2, <1>3 DEF Start!Step, Outside

\* A step that leaves the constructor alone keeps it too.
LEMMA StutterKeeps == ASSUME BuiltInv, UNCHANGED Start!vars PROVE BuiltInv'
<1> USE DEF Start!vars
<1>1. TypeInv' /\ NameInv' /\ \A q \in Ranks : BuiltRank(q)'
  BY DEF BuiltInv, TypeInv, NameInv, BuiltRank
<1>2. Counted("old")' = Counted("old") /\ Counted("new")' = Counted("new")
  BY DEF Counted
<1>3. NewInv'
  BY <1>2 DEF BuiltInv, NewInv, NewCount, NewPhase, NewLast, NewGeneration, Generation, NewOut
<1>4. OldInv'
  BY <1>2 DEF BuiltInv, OldInv, OldWith, OldRank
<1> QED
  BY <1>1, <1>3, <1>4 DEF BuiltInv

\* A rank that is out has synced three times; on the old segment nobody syncs more
\* than once, so it is on the new one, and there all have synced as often.
LEMMA OutTogether == ASSUME Numbered, BuiltInv PROVE Start!StartTogether
<1> SUFFICES ASSUME NEW r \in Ranks, built[r] = "ready"
             PROVE  (\A q \in Ranks : seg[q] = seg[r]) /\ bound = Ranks /\ name = "none"
  BY DEF Start!StartTogether
<1>1. stage[r] = 4 /\ seg[r] \in Start!Segments /\ 0 \in Ranks
  BY RanksFinite DEF BuiltInv, TypeInv, BuiltRank, Start!Segments, OpenSteps, RootSteps
<1>2. seg[r] = "new"
  BY <1>1 DEF BuiltInv, OldInv, OldWith, OldRank, Start!Segments, Numbered
<1>3. Generation(r) = 3
  BY <1>1, <1>2 DEF Generation, NewOut, Waiting
<1>4. \A q \in Ranks : Generation(q) = 3
  BY <1>3 DEF BuiltInv, NewInv, NewGeneration
<1>5. \A q \in Ranks : seg[q] = "new" /\ stage[q] \in {3, 4} /\ built[q] # "bind"
  BY <1>4 DEF Generation, NewOut, Waiting, BuiltInv, TypeInv, BuiltRank
<1>6. \A q \in Ranks : q \in bound
  BY <1>5 DEF BuiltInv, BuiltRank
<1>7. name = "none"
  BY <1>1, <1>5 DEF BuiltInv, NameInv, BuiltRank
<1> QED
  BY <1>2, <1>5, <1>6, <1>7 DEF BuiltInv, TypeInv

\* Whatever an earlier run left at the name, no rank leaves the constructor before
\* all have mapped its segment, bound their sockets and seen the name go: for every
\* number of ranks.
THEOREM StartsTogether == Start!Spec => []Start!StartTogether
<1>1. Start!Init => BuiltInv
  BY NumberedRanks, InitHolds
<1>2. BuiltInv /\ [Start!Next]_(Start!vars) => BuiltInv'
  BY NumberedRanks, StepKeeps, StutterKeeps DEF Start!Next, Start!Finished
<1>3. BuiltInv => Start!StartTogether
  BY NumberedRanks, OutTogether
<1> QED
  BY <1>1, <1>2, <1>3, PTL DEF Start!Spec

-----------------------------------------------------------------------------
\* From the constructor on: a rank that makes its calls while others are still in the
\* constructor changes neither what the constructor nor what the calls promise.

\* The calls within BrokerLife are those of LocalBroker.
LEMMA LifeRunsBoth ==
    /\ LifeInit => BrokerInit
    /\ [LifeNext]_<<brokerVars, startVars>> => [BrokerNext]_brokerVars
  BY DEF LifeInit, LifeNext, Constructs, Exchanges, BrokerNext, Returned

\* exchange_data, exchange_fds and broadcast_fd deliver what was given in the same call
\* also when some ranks still have to leave the constructor.
THEOREM LifeCallsNeverMix == LifeSpec => [](ReturnsThisCall /\ NoStrayDatagram)
<1>1. LifeSpec => BrokerSpec
  BY LifeRunsBoth, PTL DEF LifeSpec, BrokerSpec
<1> QED
  BY <1>1, CallsNeverMix, PTL

\* Ranks whose constructor has returned have mapped the same segment, whatever a dead
\* run left behind and whatever calls the others make meanwhile.
THEOREM LifeStartsTogether == LifeSpec => []StartTogether
<1>1. LifeInit => BuiltInv
  BY NumberedRanks, InitHolds DEF LifeInit
<1>2. BuiltInv /\ [LifeNext]_<<brokerVars, startVars>> => BuiltInv'
  <2> SUFFICES ASSUME BuiltInv, [LifeNext]_<<brokerVars, startVars>> PROVE BuiltInv'
    OBVIOUS
  <2>1. ASSUME NEW r \in Ranks, Constructs(r) PROVE BuiltInv'
    BY <2>1, NumberedRanks, StepKeeps DEF Constructs
  <2>2. ASSUME UNCHANGED startVars PROVE BuiltInv'
    BY <2>2, StutterKeeps DEF startVars, Start!vars
  <2> QED
    BY <2>1, <2>2 DEF LifeNext, Exchanges
<1>3. BuiltInv => StartTogether
  BY NumberedRanks, OutTogether DEF StartTogether
<1> QED
  BY <1>1, <1>2, <1>3, PTL DEF LifeSpec
=============================================================================
