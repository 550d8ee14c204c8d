--------------------------- MODULE D2HFifo_proofs ---------------------------
(***************************************************************************)
(* TLAPS proofs about the way of a command to its peer: through the        *)
(* device-to-host ring, for every number of producers, every capacity and  *)
(* every bound on the pushes, and over the mesh that create_session        *)
(* builds, a perfect matching of queue pairs for every number of nodes and *)
(* every QP count; the slot arithmetic of types.h is the inverse that its  *)
(* comment says it is.                                                     *)
(***************************************************************************)
EXTENDS D2HFifo, PeerMesh, TLAPS

-----------------------------------------------------------------------------
(* Arithmetic of slot & mask                                               *)

\* A slot number masked by the capacity is a position of the ring.
LEMMA IndexType == \A n \in Nat : Index(n) \in Slots
  BY CapacityAssumption DEF Index, Slots

\* A multiple of the capacity is zero or at least the capacity.
LEMMA MultipleOfCapacity ==
    \A k \in Int : (k > 0 => Capacity * k >= Capacity) /\ (Capacity * k > 0 => k > 0)
  BY CapacityAssumption

\* Two slot numbers share a ring position only when they are a lap apart.
LEMMA IndexLap ==
    \A x, y \in Nat : Index(x) = Index(y) /\ x < y => y - x >= Capacity
<1> SUFFICES ASSUME NEW x \in Nat, NEW y \in Nat, Index(x) = Index(y), x < y
             PROVE  y - x >= Capacity
  OBVIOUS
<1> DEFINE qx == x \div Capacity
           qy == y \div Capacity
<1>1. /\ qx \in Int /\ qy \in Int
      /\ x = Capacity * qx + Index(x)
      /\ y = Capacity * qy + Index(y)
  BY CapacityAssumption DEF Index
<1> HIDE DEF qx, qy
<1>2. Index(x) \in Int
  BY IndexType, CapacityAssumption DEF Slots
<1>3. y - x = Capacity * (qy - qx)
  BY <1>1, <1>2, CapacityAssumption
<1>4. (qy - qx) \in Int /\ Capacity * (qy - qx) > 0
  BY <1>1, <1>3
<1> QED BY <1>3, <1>4, MultipleOfCapacity, CapacityAssumption

\* The slot number one lap later has the same ring position.
LEMMA IndexShift == \A n \in Nat : Index(n + Capacity) = Index(n)
<1> SUFFICES ASSUME NEW n \in Nat PROVE Index(n + Capacity) = Index(n)
  OBVIOUS
<1> DEFINE q == n \div Capacity
           r == n % Capacity
           q2 == (n + Capacity) \div Capacity
           r2 == (n + Capacity) % Capacity
<1>1. q \in Int /\ r \in 0..(Capacity - 1) /\ n = Capacity * q + r
  BY CapacityAssumption
<1>2. q2 \in Int /\ r2 \in 0..(Capacity - 1) /\ n + Capacity = Capacity * q2 + r2
  BY CapacityAssumption
<1> HIDE DEF q, r, q2, r2
<1> DEFINE d == q2 - q - 1
<1>3. d \in Int /\ Capacity * d = r - r2
  BY <1>1, <1>2, CapacityAssumption
<1>4. Capacity * (-d) = r2 - r
  BY <1>1, <1>2, <1>3, CapacityAssumption
<1> HIDE DEF d
<1>5. ~(d > 0)
  BY <1>1, <1>2, <1>3, MultipleOfCapacity, CapacityAssumption
<1>6. ~(-d > 0)
  BY <1>1, <1>2, <1>3, <1>4, MultipleOfCapacity, CapacityAssumption
<1>7. d = 0
  BY <1>3, <1>5, <1>6
<1>8. r = r2
  BY <1>1, <1>2, <1>3, <1>7, CapacityAssumption
<1> QED BY <1>8 DEF r, r2, Index

\* Within the window of Capacity numbers that starts at a, positions are distinct.
LEMMA IndexInjective ==
    ASSUME NEW a \in Nat,
           NEW x \in a..(a + Capacity - 1), NEW y \in a..(a + Capacity - 1),
           Index(x) = Index(y)
    PROVE  x = y
<1>1. x \in Nat /\ y \in Nat
  BY CapacityAssumption
<1>2. ~(x < y)
  BY <1>1, IndexLap, CapacityAssumption
<1>3. ~(y < x)
  BY <1>1, IndexLap, CapacityAssumption
<1> QED BY <1>1, <1>2, <1>3

-----------------------------------------------------------------------------
(* Type correctness                                                        *)

\* Type correctness of a step, for use inside the induction.
LEMMA TypeStep == TypeOK /\ Next => TypeOK'
<1> SUFFICES ASSUME TypeOK, Next PROVE TypeOK'
  OBVIOUS
<1> USE CapacityAssumption, CommandAssumption DEF TypeOK
<1>1. ASSUME NEW p \in Producers, NEW c \in Cmds, ClaimSlot(p, c) PROVE TypeOK'
  BY <1>1 DEF ClaimSlot, ring
<1>2. ASSUME NEW p \in Producers, CheckCache(p) PROVE TypeOK'
  BY <1>2 DEF CheckCache, ring
<1>3. ASSUME NEW p \in Producers, LoadTail(p) PROVE TypeOK'
  BY <1>3 DEF LoadTail, ring
<1>4. ASSUME NEW p \in Producers, StoreCache(p) PROVE TypeOK'
  BY <1>4 DEF StoreCache, ring
<1>5. ASSUME NEW p \in Producers, WritePayload(p) PROVE TypeOK'
  BY <1>5, IndexType DEF WritePayload
<1>6. ASSUME NEW p \in Producers, CommitHeader(p) PROVE TypeOK'
  BY <1>6, IndexType DEF CommitHeader
<1>7. ASSUME PollCopy PROVE TypeOK'
  BY <1>7, IndexType DEF PollCopy, ring, gpu
<1>8. ASSUME PollClear PROVE TypeOK'
  BY <1>8, IndexType DEF PollClear, gpu
<1>9. ASSUME NEW n \in tail..cpu_head, AdvanceTail(n) PROVE TypeOK'
  BY <1>9 DEF AdvanceTail, ring, gpu
<1> QED
  BY <1>1, <1>2, <1>3, <1>4, <1>5, <1>6, <1>7, <1>8, <1>9 DEF Next, Push, Poll

\* The cursors, the ring words and push()'s locals keep their types for every
\* instance (d2h_fifo.cuh).
THEOREM TypeCorrect == Spec => []TypeOK
<1>1. Init => TypeOK
  BY CapacityAssumption, CommandAssumption DEF Init, TypeOK
<1>2. TypeOK /\ UNCHANGED vars => TypeOK'
  BY DEF TypeOK, vars
<1> QED BY <1>1, <1>2, TypeStep, PTL DEF Spec

-----------------------------------------------------------------------------
(* The inductive invariant                                                 *)

\* Nothing is done in the empty ring.
LEMMA InitIInv == Init => IInv
<1> SUFFICES ASSUME Init PROVE IInv
  OBVIOUS
<1> USE CapacityAssumption, CommandAssumption
<1>1. TypeOK
  BY DEF Init, TypeOK
<1>2. CursorInv /\ ClaimInv /\ DoneInv /\ FifoOrder
  BY DEF Init, CursorInv, CacheIsConservative, ClaimInv, DoneInv, FifoOrder, Active
<1>3. WindowInv
  BY IndexType DEF Init, WindowInv, Done
<1> QED BY <1>1, <1>2, <1>3 DEF IInv

\* A claim makes nothing done: its number is held by the claiming producer.
LEMMA ClaimPreserves ==
    ASSUME IInv, TypeOK', NEW p \in Producers, NEW c \in Cmds, ClaimSlot(p, c)
    PROVE  IInv'
<1> USE CapacityAssumption, CommandAssumption DEF IInv, TypeOK
<1>1. \A n \in Nat : Done(n)' <=> Done(n)
  BY DEF ClaimSlot, ClaimInv, Done, Active, CursorInv
<1>2. log' = Append(log, c) /\ Len(log') = head' /\ head' = head + 1
  BY DEF ClaimSlot, CursorInv
<1>3. \A i \in 1..head : log'[i] = log[i]
  BY <1>2 DEF CursorInv
<1>4. CursorInv'
  BY <1>1, <1>2 DEF ClaimSlot, CursorInv, CacheIsConservative
<1>5. ClaimInv'
  BY <1>2, <1>3 DEF ClaimSlot, ClaimInv, Active, ring, CursorInv, CacheIsConservative
<1>6. DoneInv'
  <2> SUFFICES ASSUME NEW n \in (cpu_head..(head - 1))', Done(n)'
               PROVE  (n < Capacity + tail)'
    BY DEF DoneInv
  <2>1. n \in Nat /\ cpu_head' = cpu_head /\ tail' = tail
    BY DEF ClaimSlot
  <2>2. Done(n) /\ n < head
    BY <1>1, <2>1 DEF Done
  <2> QED BY <2>1, <2>2 DEF DoneInv
<1>7. WindowInv'
  <2> SUFFICES ASSUME NEW n \in (cpu_head..(cpu_head + Capacity - 1))'
               PROVE  (IF Done(n)
                       THEN header[Index(n)] = log[n + 1] /\ payload[Index(n)] = log[n + 1]
                       ELSE header[Index(n)] = EMPTY)'
    BY DEF WindowInv
  <2>1. n \in Nat /\ cpu_head' = cpu_head /\ header' = header /\ payload' = payload
    BY DEF ClaimSlot, ring
  <2>2. Done(n) => n + 1 \in 1..head
    BY <2>1 DEF Done
  <2> QED BY <1>1, <1>3, <2>1, <2>2 DEF WindowInv
<1>8. FifoOrder'
  <2>1. polled' = polled /\ Len(polled) <= Len(log)
    BY DEF ClaimSlot, CursorInv, CacheIsConservative, Done
  <2> QED BY <1>2, <1>3, <2>1 DEF FifoOrder, CursorInv
<1> QED BY <1>4, <1>5, <1>6, <1>7, <1>8

\* Checking, loading and caching the tail move only the producer's own place;
\* a stale load is still below the tail, so it admits no slot in use.
LEMMA BackpressurePreserves ==
    ASSUME IInv, TypeOK', NEW p \in Producers,
           CheckCache(p) \/ LoadTail(p) \/ StoreCache(p)
    PROVE  IInv'
<1> USE CapacityAssumption, CommandAssumption DEF IInv, TypeOK
<1>1. /\ UNCHANGED <<head, tail, header, payload, cpu_head, slot, cmd, hostpc, log, polled>>
      /\ \A q \in Producers : Active(q)' <=> Active(q)
      /\ \A q \in Producers \ {p} : pc'[q] = pc[q] /\ t'[q] = t[q]
      /\ pc[p] \in {"check", "load", "store"}
  BY DEF CheckCache, LoadTail, StoreCache, ring, Active
<1>2. tail_cache' <= tail
  BY DEF CheckCache, LoadTail, StoreCache, CursorInv, CacheIsConservative, ClaimInv, Active
<1>3. \A n \in Nat : Done(n)' <=> Done(n)
  BY <1>1 DEF Done
<1>4. CursorInv'
  BY <1>1, <1>2, <1>3 DEF CursorInv, CacheIsConservative
<1>5. ClaimInv'
  <2>1. /\ pc'[p] = "store" => t'[p] <= tail
        /\ pc'[p] = "payload" => slot[p] < Capacity + tail
        /\ pc'[p] # "commit"
    BY DEF CheckCache, LoadTail, StoreCache, CursorInv, CacheIsConservative, ClaimInv, Active
  <2> QED BY <1>1, <2>1 DEF ClaimInv
<1>6. DoneInv'
  BY <1>1, <1>3 DEF DoneInv
<1>6a. FifoOrder'
  BY <1>1 DEF FifoOrder
<1>7. WindowInv'
  BY <1>1, <1>3 DEF WindowInv
<1> QED BY <1>4, <1>5, <1>6, <1>6a, <1>7

\* Writing the payload touches one slot of the window that is not done, so every
\* record the host can see stays whole.
LEMMA PayloadPreserves ==
    ASSUME IInv, TypeOK', NEW p \in Producers, WritePayload(p)
    PROVE  IInv'
<1> USE CapacityAssumption, CommandAssumption DEF IInv, TypeOK
<1>1. /\ UNCHANGED <<head, tail, tail_cache, header, cpu_head, slot, t, cmd, hostpc, log, polled>>
      /\ \A q \in Producers : Active(q)' <=> Active(q)
      /\ \A q \in Producers \ {p} : pc'[q] = pc[q]
      /\ pc[p] = "payload" /\ pc'[p] = "commit"
  BY DEF WritePayload, Active
<1>2. \A n \in Nat : Done(n)' <=> Done(n)
  BY <1>1 DEF Done
<1>3. slot[p] \in cpu_head..(cpu_head + Capacity - 1) /\ ~Done(slot[p])
  BY <1>1 DEF ClaimInv, CursorInv, CacheIsConservative, Done, Active
<1>4. CursorInv'
  BY <1>1, <1>2 DEF CursorInv, CacheIsConservative
<1>5. payload'[Index(slot[p])] = cmd[p]
  BY <1>1, IndexType DEF WritePayload
<1>6. ASSUME NEW n \in cpu_head..(cpu_head + Capacity - 1), n # slot[p]
      PROVE  payload'[Index(n)] = payload[Index(n)]
  <2>1. Index(n) # Index(slot[p])
    BY <1>3, <1>6, IndexInjective
  <2> QED BY <2>1, <1>1, IndexType DEF WritePayload
<1>7. ClaimInv'
  <2> SUFFICES ASSUME NEW q \in Producers, Active(q)'
               PROVE  (/\ cpu_head <= slot[q] /\ slot[q] < head
                       /\ cmd[q] = log[slot[q] + 1]
                       /\ pc[q] = "store" => t[q] <= tail
                       /\ pc[q] \in {"payload", "commit"} => slot[q] < Capacity + tail
                       /\ pc[q] = "commit" => payload[Index(slot[q])] = cmd[q]
                       /\ \A r \in Producers \ {q} : Active(r) => slot[r] # slot[q])'
    BY DEF ClaimInv
  <2>1. CASE q = p
    BY <2>1, <1>1, <1>5 DEF ClaimInv
  <2>2. CASE q # p
    <3>1. pc[q] = "commit" => payload'[Index(slot[q])] = payload[Index(slot[q])]
      <4> SUFFICES ASSUME pc[q] = "commit" PROVE payload'[Index(slot[q])] = payload[Index(slot[q])]
        OBVIOUS
      <4>1. slot[q] \in cpu_head..(cpu_head + Capacity - 1) /\ slot[q] # slot[p]
        BY <2>2, <1>1 DEF ClaimInv, CursorInv, CacheIsConservative, Active
      <4> QED BY <4>1, <1>6
    <3> QED BY <2>2, <3>1, <1>1 DEF ClaimInv
  <2> QED BY <2>1, <2>2
<1>8. DoneInv'
  BY <1>1, <1>2 DEF DoneInv
<1>9. WindowInv'
  <2> SUFFICES ASSUME NEW n \in cpu_head..(cpu_head + Capacity - 1)
               PROVE  (IF Done(n)
                       THEN header[Index(n)] = log[n + 1] /\ payload[Index(n)] = log[n + 1]
                       ELSE header[Index(n)] = EMPTY)'
    BY <1>1 DEF WindowInv
  <2>1. n \in Nat
    OBVIOUS
  <2>2. Done(n) => n # slot[p]
    BY <1>3
  <2> QED BY <1>1, <1>2, <1>6, <2>1, <2>2 DEF WindowInv
<1>10. FifoOrder'
  BY <1>1 DEF FifoOrder
<1> QED BY <1>4, <1>7, <1>8, <1>9, <1>10

\* The header store makes exactly this claim done; its slot then holds the whole
\* record, and no other slot of the window changes.
LEMMA CommitPreserves ==
    ASSUME IInv, TypeOK', NEW p \in Producers, CommitHeader(p)
    PROVE  IInv'
<1> USE CapacityAssumption, CommandAssumption DEF IInv, TypeOK
<1>1. /\ UNCHANGED <<head, tail, tail_cache, payload, cpu_head, slot, t, cmd, hostpc, log, polled>>
      /\ \A q \in Producers \ {p} : pc'[q] = pc[q]
      /\ pc[p] = "commit" /\ pc'[p] = "idle"
  BY DEF CommitHeader
<1>2. /\ slot[p] \in cpu_head..(cpu_head + Capacity - 1)
      /\ slot[p] < head /\ slot[p] < Capacity + tail
      /\ cmd[p] = log[slot[p] + 1]
      /\ payload[Index(slot[p])] = cmd[p]
      /\ \A q \in Producers \ {p} : Active(q) => slot[q] # slot[p]
  BY <1>1 DEF ClaimInv, CursorInv, CacheIsConservative, Active
<1>3. \A n \in Nat : Done(n)' <=> (Done(n) \/ n = slot[p])
  BY <1>1, <1>2 DEF Done, Active
<1>4. CursorInv'
  BY <1>1, <1>3 DEF CursorInv, CacheIsConservative
<1>5. ClaimInv'
  BY <1>1 DEF ClaimInv, Active
<1>6. DoneInv'
  <2> SUFFICES ASSUME NEW n \in cpu_head..(head - 1), Done(n)'
               PROVE  n < Capacity + tail
    BY <1>1 DEF DoneInv
  <2>1. n \in Nat /\ (Done(n) \/ n = slot[p])
    BY <1>3
  <2> QED BY <1>2, <2>1 DEF DoneInv
<1>7. header'[Index(slot[p])] = cmd[p]
  BY <1>1, IndexType DEF CommitHeader
<1>8. ASSUME NEW n \in cpu_head..(cpu_head + Capacity - 1), n # slot[p]
      PROVE  header'[Index(n)] = header[Index(n)]
  <2>1. Index(n) # Index(slot[p])
    BY <1>2, <1>8, IndexInjective
  <2> QED BY <2>1, IndexType DEF CommitHeader
<1>9. WindowInv'
  <2> SUFFICES ASSUME NEW n \in cpu_head..(cpu_head + Capacity - 1)
               PROVE  (IF Done(n)
                       THEN header[Index(n)] = log[n + 1] /\ payload[Index(n)] = log[n + 1]
                       ELSE header[Index(n)] = EMPTY)'
    BY <1>1 DEF WindowInv
  <2>1. n \in Nat
    OBVIOUS
  <2>2. CASE n = slot[p]
    BY <1>1, <1>2, <1>3, <1>7, <2>1, <2>2
  <2>3. CASE n # slot[p]
    BY <1>1, <1>3, <1>8, <2>1, <2>3 DEF WindowInv
  <2> QED BY <2>2, <2>3
<1>10. FifoOrder'
  BY <1>1 DEF FifoOrder
<1> QED BY <1>4, <1>5, <1>6, <1>9, <1>10

\* A header that is not EMPTY belongs to a finished push: the copy is whole and is
\* the next command of the claim order.
LEMMA PollCopyPreserves ==
    ASSUME IInv, TypeOK', PollCopy
    PROVE  IInv'
<1> USE CapacityAssumption, CommandAssumption DEF IInv, TypeOK
<1>1. /\ UNCHANGED <<head, tail, tail_cache, header, payload, cpu_head, pc, slot, t, cmd, log>>
      /\ hostpc = "poll" /\ hostpc' = "clear"
      /\ header[Index(cpu_head)] # EMPTY
      /\ polled' = Append(polled, [header |-> header[Index(cpu_head)],
                                   payload |-> payload[Index(cpu_head)]])
  BY DEF PollCopy, ring, gpu
<1>2. \A n \in Nat : Done(n)' <=> Done(n)
  BY <1>1 DEF Done, Active
<1>3. cpu_head \in cpu_head..(cpu_head + Capacity - 1)
  OBVIOUS
<1>4. /\ Done(cpu_head) /\ cpu_head < head
      /\ header[Index(cpu_head)] = log[cpu_head + 1]
      /\ payload[Index(cpu_head)] = log[cpu_head + 1]
  BY <1>1, <1>3 DEF WindowInv, Done
<1>5. /\ Len(polled) = cpu_head /\ Len(polled') = cpu_head + 1
      /\ \A i \in 1..cpu_head : polled'[i] = polled[i]
      /\ polled'[cpu_head + 1] = [header |-> log[cpu_head + 1], payload |-> log[cpu_head + 1]]
  BY <1>1, <1>4 DEF CursorInv
<1>6. CursorInv'
  BY <1>1, <1>2, <1>4, <1>5 DEF CursorInv, CacheIsConservative
<1>7. ClaimInv'
  BY <1>1 DEF ClaimInv, Active
<1>8. DoneInv'
  BY <1>1, <1>2 DEF DoneInv
<1>9. WindowInv'
  BY <1>1, <1>2 DEF WindowInv
<1>10. FifoOrder'
  <2> SUFFICES ASSUME NEW i \in 1..(cpu_head + 1)
               PROVE  /\ i <= Len(log)
                      /\ polled'[i] = [header |-> log[i], payload |-> log[i]]
    BY <1>1, <1>5 DEF FifoOrder
  <2>1. Len(log) = head
    BY DEF CursorInv
  <2>2. CASE i = cpu_head + 1
    BY <1>4, <1>5, <2>1, <2>2
  <2>3. CASE i # cpu_head + 1
    BY <1>5, <2>3 DEF FifoOrder
  <2> QED BY <2>2, <2>3
<1> QED BY <1>6, <1>7, <1>8, <1>9, <1>10

\* Clearing the header moves the window one slot on: the number that enters it is
\* a lap after the one that leaves, has the cleared slot, and cannot be done.
LEMMA PollClearPreserves ==
    ASSUME IInv, TypeOK', PollClear
    PROVE  IInv'
<1> USE CapacityAssumption, CommandAssumption DEF IInv, TypeOK
<1>1. /\ UNCHANGED <<head, tail, tail_cache, payload, pc, slot, t, cmd, log, polled>>
      /\ hostpc = "clear" /\ hostpc' = "poll" /\ cpu_head' = cpu_head + 1
      /\ header' = [header EXCEPT ![Index(cpu_head)] = EMPTY]
  BY DEF PollClear, gpu
<1>2. \A n \in Nat : Done(n)' <=> Done(n)
  BY <1>1 DEF Done, Active
<1>3. Done(cpu_head) /\ cpu_head < head
  BY <1>1 DEF CursorInv, Done
<1>4. CursorInv'
  BY <1>1, <1>3 DEF CursorInv, CacheIsConservative
<1>5. ClaimInv'
  <2>1. \A q \in Producers : Active(q) => cpu_head + 1 <= slot[q]
    BY <1>3 DEF ClaimInv, Done
  <2> QED BY <1>1, <2>1 DEF ClaimInv, Active
<1>6. DoneInv'
  BY <1>1, <1>2 DEF DoneInv
<1>7. WindowInv'
  <2> SUFFICES ASSUME NEW n \in (cpu_head + 1)..(cpu_head + Capacity)
               PROVE  IF Done(n)
                      THEN header'[Index(n)] = log[n + 1] /\ payload[Index(n)] = log[n + 1]
                      ELSE header'[Index(n)] = EMPTY
    <3>1. (cpu_head..(cpu_head + Capacity - 1))' = (cpu_head + 1)..(cpu_head + Capacity)
      BY <1>1
    <3> QED BY <1>1, <1>2, <3>1 DEF WindowInv
  <2>1. n \in Nat
    OBVIOUS
  <2>2. CASE n = cpu_head + Capacity
    <3>1. Index(n) = Index(cpu_head)
      BY <2>2, IndexShift
    <3>2. header'[Index(n)] = EMPTY
      BY <1>1, <3>1, IndexType
    <3>3. ~Done(n)
      <4> SUFFICES ASSUME Done(n) PROVE FALSE
        OBVIOUS
      <4>1. n \in cpu_head..(head - 1)
        BY <2>1 DEF Done
      <4>2. n < Capacity + tail
        BY <4>1 DEF DoneInv
      <4> QED BY <2>2, <4>2 DEF CursorInv, CacheIsConservative
    <3> QED BY <3>2, <3>3
  <2>3. CASE n # cpu_head + Capacity
    <3>1. n \in cpu_head..(cpu_head + Capacity - 1) /\ n # cpu_head
      BY <2>3
    <3>2. cpu_head \in cpu_head..(cpu_head + Capacity - 1)
      OBVIOUS
    <3>3. Index(n) # Index(cpu_head)
      BY <3>1, <3>2, IndexInjective
    <3>4. header'[Index(n)] = header[Index(n)]
      BY <1>1, <2>1, <3>3, IndexType
    <3> QED BY <3>1, <3>4 DEF WindowInv
  <2> QED BY <2>2, <2>3
<1>8. FifoOrder'
  BY <1>1 DEF FifoOrder
<1> QED BY <1>4, <1>5, <1>6, <1>7, <1>8

\* Releasing polled slots only widens what a push may use.
LEMMA AdvanceTailPreserves ==
    ASSUME IInv, TypeOK', NEW new_tail \in tail..cpu_head, AdvanceTail(new_tail)
    PROVE  IInv'
<1> USE CapacityAssumption, CommandAssumption DEF IInv, TypeOK
<1>1. /\ UNCHANGED <<head, tail_cache, header, payload, cpu_head, pc, slot, t, cmd,
                     hostpc, log, polled>>
      /\ tail' = new_tail /\ tail <= new_tail /\ new_tail <= cpu_head /\ new_tail \in Nat
  BY DEF AdvanceTail, ring, gpu
<1>2. \A n \in Nat : Done(n)' <=> Done(n)
  BY <1>1 DEF Done, Active
<1>3. CursorInv'
  BY <1>1, <1>2 DEF CursorInv, CacheIsConservative
<1>4. ClaimInv'
  BY <1>1 DEF ClaimInv, Active
<1>5. DoneInv'
  BY <1>1, <1>2 DEF DoneInv
<1>6. WindowInv'
  BY <1>1, <1>2 DEF WindowInv
<1>7. FifoOrder'
  BY <1>1 DEF FifoOrder
<1> QED BY <1>3, <1>4, <1>5, <1>6, <1>7

\* Every step, and stuttering, preserves the inductive invariant.
LEMMA StepIInv == IInv /\ [Next]_vars => IInv'
<1> SUFFICES ASSUME IInv, [Next]_vars PROVE IInv'
  OBVIOUS
<1>1. ASSUME Next PROVE IInv'
  <2>1. TypeOK'
    BY <1>1, TypeStep DEF IInv
  <2>2. ASSUME NEW p \in Producers, Push(p) PROVE IInv'
    BY <2>1, <2>2, ClaimPreserves, BackpressurePreserves, PayloadPreserves, CommitPreserves
    DEF Push
  <2>3. ASSUME Poll PROVE IInv'
    BY <2>1, <2>3, PollCopyPreserves, PollClearPreserves DEF Poll
  <2>4. ASSUME NEW n \in tail..cpu_head, AdvanceTail(n) PROVE IInv'
    BY <2>1, <2>4, AdvanceTailPreserves
  <2> QED BY <1>1, <2>2, <2>3, <2>4 DEF Next
<1>2. CASE UNCHANGED vars
  BY <1>2 DEF vars, IInv, TypeOK, CursorInv, CacheIsConservative, ClaimInv, DoneInv,
              WindowInv, FifoOrder, Done, Active
<1> QED BY <1>1, <1>2

\* The inductive invariant holds in every reachable state.
THEOREM Inductive == Spec => []IInv
  BY InitIInv, StepIInv, PTL DEF Spec

\* A push that passed the backpressure test owns its slot.
LEMMA OwnedFromIInv == IInv => SlotOwned
<1> SUFFICES ASSUME IInv, NEW p \in Producers, pc[p] \in {"payload", "commit"}
             PROVE  /\ header[Index(slot[p])] = EMPTY
                    /\ hostpc = "clear" => Index(cpu_head) # Index(slot[p])
                    /\ \A q \in Producers \ {p} : pc[q] \in {"payload", "commit"} =>
                           Index(slot[q]) # Index(slot[p])
  BY DEF SlotOwned
<1> USE CapacityAssumption, CommandAssumption DEF IInv, TypeOK
<1>1. Active(p) /\ slot[p] \in cpu_head..(cpu_head + Capacity - 1) /\ ~Done(slot[p])
  BY DEF ClaimInv, CursorInv, CacheIsConservative, Done, Active
<1>2. header[Index(slot[p])] = EMPTY
  BY <1>1 DEF WindowInv
<1>3. hostpc = "clear" => Index(cpu_head) # Index(slot[p])
  <2> SUFFICES ASSUME hostpc = "clear", Index(cpu_head) = Index(slot[p]) PROVE FALSE
    OBVIOUS
  <2>1. cpu_head \in cpu_head..(cpu_head + Capacity - 1) /\ Done(cpu_head)
    BY DEF CursorInv
  <2>2. cpu_head = slot[p]
    BY <1>1, <2>1, IndexInjective
  <2> QED BY <1>1, <2>1, <2>2
<1>4. ASSUME NEW q \in Producers \ {p}, pc[q] \in {"payload", "commit"},
             Index(slot[q]) = Index(slot[p])
      PROVE  FALSE
  <2>1. Active(q) /\ slot[q] \in cpu_head..(cpu_head + Capacity - 1) /\ slot[q] # slot[p]
    BY <1>1, <1>4 DEF ClaimInv, CursorInv, CacheIsConservative, Active
  <2> QED BY <1>1, <1>4, <2>1, IndexInjective
<1> QED BY <1>2, <1>3, <1>4

\* For every number of producers, every capacity and any interleaving with a stale
\* tail_cache: records reach the proxy whole and in claim order, a slot is written
\* only by its owner, and the cached tail never passes the released one.
THEOREM FifoSafe == Spec => [](FifoOrder /\ SlotOwned /\ CacheIsConservative)
<1>1. IInv => FifoOrder /\ SlotOwned /\ CacheIsConservative
  BY OwnedFromIInv DEF IInv, CursorInv
<1> QED BY <1>1, Inductive, PTL

-----------------------------------------------------------------------------
(* Refinement                                                              *)

\* The numbers the refinement mapping calls published.
Published == {n \in 0..(head - 1) : Done(n)}

\* A step that neither claims, commits nor copies leaves the abstract queue alone.
LEMMA QueueStutters ==
    ASSUME IInv, UNCHANGED <<head, log, polled>>,
           \A n \in Nat : Done(n)' <=> Done(n)
    PROVE  UNCHANGED Queue!vars
<1>1. Published' = Published
  BY DEF Published, IInv, TypeOK
<1> QED BY <1>1 DEF Queue!vars, Published

\* The atomic add of push() is the queue's Claim.
LEMMA ClaimIsClaim ==
    ASSUME IInv, NEW p \in Producers, NEW c \in Cmds, ClaimSlot(p, c)
    PROVE  Queue!Claim(c)
<1> USE DEF IInv, TypeOK
<1>1. \A n \in Nat : Done(n)' <=> Done(n)
  BY DEF ClaimSlot, ClaimInv, Done, Active, CursorInv
<1>2. Published' = Published
  <2>1. head' = head + 1 /\ \A n \in Nat : Done(n) => n < head
    BY DEF ClaimSlot, Done
  <2>2. ASSUME NEW n \in Published' PROVE n \in Published
    BY <1>1, <2>1, <2>2 DEF Published
  <2>3. ASSUME NEW n \in Published PROVE n \in Published'
    BY <1>1, <2>1, <2>3 DEF Published
  <2> QED BY <2>2, <2>3
<1> QED BY <1>2 DEF ClaimSlot, Queue!Claim, Published

\* The header store of push() is the queue's Publish, within its capacity.
LEMMA CommitIsPublish ==
    ASSUME IInv, NEW p \in Producers, CommitHeader(p)
    PROVE  Queue!Publish(slot[p]) /\ slot[p] \in 0..Len(log)
<1> USE CapacityAssumption DEF IInv, TypeOK
<1>1. /\ UNCHANGED <<head, slot, log, polled>>
      /\ \A q \in Producers \ {p} : pc'[q] = pc[q]
      /\ pc[p] = "commit" /\ pc'[p] = "idle"
  BY DEF CommitHeader
<1>2. /\ slot[p] \in Nat /\ slot[p] < head /\ slot[p] < Capacity + tail
      /\ \A q \in Producers \ {p} : Active(q) => slot[q] # slot[p]
  BY <1>1 DEF ClaimInv, Active
<1>3. \A n \in Nat : Done(n)' <=> (Done(n) \/ n = slot[p])
  BY <1>1, <1>2 DEF Done, Active
<1>4. Published' = Published \cup {slot[p]}
  BY <1>1, <1>2, <1>3 DEF Published
<1>5. slot[p] \notin Published
  BY <1>1 DEF Published, Done, Active
<1>6. Len(log) = head /\ tail <= Len(polled) /\ Len(polled) \in Nat
  BY DEF CursorInv, CacheIsConservative
<1>7. slot[p] < Len(log) /\ slot[p] < Len(polled) + Capacity
  BY <1>2, <1>6
<1> QED BY <1>1, <1>2, <1>4, <1>5, <1>7 DEF Queue!Publish, Published

\* The copy in poll() is the queue's Deliver.
LEMMA CopyIsDeliver ==
    ASSUME IInv, PollCopy
    PROVE  Queue!Deliver
<1> USE CapacityAssumption DEF IInv, TypeOK
<1>1. /\ UNCHANGED <<head, log, pc, slot>>
      /\ hostpc = "poll"
      /\ header[Index(cpu_head)] # EMPTY
      /\ polled' = Append(polled, [header |-> header[Index(cpu_head)],
                                   payload |-> payload[Index(cpu_head)]])
  BY DEF PollCopy, ring, gpu
<1>2. cpu_head \in cpu_head..(cpu_head + Capacity - 1)
  OBVIOUS
<1>3. /\ Done(cpu_head) /\ cpu_head < head
      /\ header[Index(cpu_head)] = log[cpu_head + 1]
      /\ payload[Index(cpu_head)] = log[cpu_head + 1]
  BY <1>1, <1>2 DEF WindowInv, Done
<1>4. Len(polled) = cpu_head /\ Len(log) = head
  BY <1>1 DEF CursorInv
<1>5. Published' = Published
  BY <1>1 DEF Published, Done, Active
<1>6. cpu_head \in Published
  BY <1>3 DEF Published
<1>7. polled' = Append(polled, Queue!Whole(log[Len(polled) + 1]))
  BY <1>1, <1>3, <1>4 DEF Queue!Whole
<1> QED BY <1>1, <1>3, <1>4, <1>5, <1>6, <1>7 DEF Queue!Deliver, Published

\* The ring with its cursors, its cached tail and its two-step slot writes
\* implements the abstract command queue, for every instance.
THEOREM RingImplementsQueue == Spec => ImplementsQueue
<1>1. Init => Queue!Init
  BY DEF Init, Queue!Init
<1>2. IInv /\ [Next]_vars => [Queue!Next]_(Queue!vars)
  <2> SUFFICES ASSUME IInv, [Next]_vars PROVE [Queue!Next]_(Queue!vars)
    OBVIOUS
  <2>1. ASSUME NEW p \in Producers, NEW c \in Cmds, ClaimSlot(p, c)
        PROVE  Queue!Next
    BY <2>1, ClaimIsClaim DEF Queue!Next
  <2>2. ASSUME NEW p \in Producers,
               CheckCache(p) \/ LoadTail(p) \/ StoreCache(p) \/ WritePayload(p)
        PROVE  UNCHANGED Queue!vars
    <3>1. UNCHANGED <<head, log, polled>> /\ \A n \in Nat : Done(n)' <=> Done(n)
      BY <2>2 DEF CheckCache, LoadTail, StoreCache, WritePayload, Done, Active, IInv, TypeOK
    <3> QED BY <3>1, QueueStutters
  <2>3. ASSUME NEW p \in Producers, CommitHeader(p)
        PROVE  Queue!Next
    BY <2>3, CommitIsPublish DEF Queue!Next
  <2>4. ASSUME PollCopy PROVE Queue!Next
    BY <2>4, CopyIsDeliver DEF Queue!Next
  <2>5. ASSUME PollClear \/ \E n \in tail..cpu_head : AdvanceTail(n)
        PROVE  UNCHANGED Queue!vars
    <3>1. UNCHANGED <<head, log, polled>> /\ \A n \in Nat : Done(n)' <=> Done(n)
      BY <2>5 DEF PollClear, AdvanceTail, gpu, Done, Active
    <3> QED BY <3>1, QueueStutters
  <2>6. ASSUME UNCHANGED vars PROVE UNCHANGED Queue!vars
    <3>1. UNCHANGED <<head, log, polled>> /\ \A n \in Nat : Done(n)' <=> Done(n)
      BY <2>6 DEF vars, Done, Active
    <3> QED BY <3>1, QueueStutters
  <2> QED
    BY <2>1, <2>2, <2>3, <2>4, <2>5, <2>6 DEF Next, Push, Poll
<1> QED BY <1>1, <1>2, Inductive, PTL DEF Spec, ImplementsQueue, Queue!Spec

-----------------------------------------------------------------------------
(* The mesh of queue pairs, and the QP of a command                        *)

\* peer_rank_for_slot never names the node itself, and slot_at_peer inverts it,
\* in both directions: from the peer's side the slot leads back to this node.
THEOREM SlotsAreInverse ==
    ASSUME NEW r \in Nodes, NEW p \in PeerSlots
    PROVE  LET m == PeerRankForSlot(r, p)
           IN  /\ m \in Nodes \ {r}
               /\ SlotAtPeer(r, m) \in PeerSlots
               /\ PeerRankForSlot(m, SlotAtPeer(r, m)) = r
               /\ SlotAtPeer(m, r) = p
  BY MeshAssumption DEF Nodes, PeerSlots, NumPeers, PeerRankForSlot, SlotAtPeer

-----------------------------------------------------------------------------
\* There is at least one QP per peer, and the blocks fit.
LEMMA BlockSize ==
    /\ NumQPs \in Nat \ {0} /\ QpsPerPeer \in Nat \ {0}
    /\ NumPeers * QpsPerPeer <= NumQPs
<1>1. NumPeers \in Nat \ {0} /\ NumPeers <= KMaxQPs
  BY MeshAssumption DEF NumPeers
<1>2. NumPeers * Devices \in Nat /\ NumPeers * Devices >= NumPeers
  <2> DEFINE D == Devices - 1
  <2>1. D \in Nat /\ Devices = D + 1
    BY MeshAssumption
  <2>2. NumPeers * (D + 1) = NumPeers * D + NumPeers /\ NumPeers * D \in Nat
    BY <1>1, <2>1
  <2> QED
    BY <1>1, <2>1, <2>2
<1>3. NumQPs \in Nat \ {0} /\ (Channelize => NumQPs >= NumPeers)
  BY <1>1, <1>2, MeshAssumption DEF NumQPs, AtMost, AtLeast, Channelize
<1>4. CASE Channelize
  <2>1. NumQPs \div NumPeers \in Nat /\ NumPeers * (NumQPs \div NumPeers) <= NumQPs
    BY <1>1, <1>3
  <2>2. NumQPs \div NumPeers >= 1
    BY <1>1, <1>3, <1>4
  <2> QED
    BY <1>3, <1>4, <2>1, <2>2 DEF QpsPerPeer, AtLeast
<1>5. CASE ~Channelize
  BY <1>1, <1>3, <1>5 DEF QpsPerPeer, Channelize
<1> QED
  BY <1>4, <1>5

\* Multiples of the block size are ordered like their factors.
LEMMA BaseOrder ==
    ASSUME NEW p \in Nat, NEW r \in Nat, p < r
    PROVE  Base(p) \in Nat /\ Base(r) \in Nat /\ Base(p) + QpsPerPeer <= Base(r)
<1> DEFINE d == r - p - 1
<1>1. d \in Nat /\ r = p + 1 + d
  OBVIOUS
<1>2. (p + 1 + d) * QpsPerPeer = p * QpsPerPeer + QpsPerPeer + d * QpsPerPeer
  BY BlockSize, <1>1
<1>3. d * QpsPerPeer \in Nat /\ p * QpsPerPeer \in Nat
  BY BlockSize, <1>1
<1> QED
  BY BlockSize, <1>1, <1>2, <1>3 DEF Base

\* No block is cut short, and all of them are QPs of the session.
LEMMA BlockShape ==
    ASSUME NEW p \in PeerSlots
    PROVE  /\ Base(p) \in Nat /\ Block(p) = Base(p)..(Base(p) + QpsPerPeer - 1)
           /\ Block(p) \subseteq QPs
<1>1. p \in Nat /\ p < NumPeers /\ NumPeers \in Nat
  BY MeshAssumption DEF PeerSlots, NumPeers
<1>2. Base(p) \in Nat /\ Base(p) + QpsPerPeer <= Base(NumPeers)
  BY <1>1, BaseOrder
<1>3. Base(NumPeers) <= NumQPs
  BY BlockSize DEF Base
<1>4. Base(p) + QpsPerPeer <= NumQPs
  BY <1>1, <1>2, <1>3, BlockSize, BaseOrder DEF Base
<1> QED
  BY <1>2, <1>4, BlockSize DEF Block, AtMost, QPs

\* A QP belongs to one block at most.
LEMMA BlocksDisjoint ==
    ASSUME NEW p \in PeerSlots, NEW r \in PeerSlots, NEW i \in Block(p), i \in Block(r)
    PROVE  p = r
<1>1. p \in Nat /\ r \in Nat
  BY DEF PeerSlots
<1>2. ~(p < r)
  BY <1>1, BaseOrder, BlockShape, BlockSize
<1>3. ~(r < p)
  BY <1>1, BaseOrder, BlockShape, BlockSize
<1> QED
  BY <1>1, <1>2, <1>3

\* Where the QP at place i of slot p is connected to, and the way back.
LEMMA MirrorPlace ==
    ASSUME NEW n \in Nodes, NEW p \in PeerSlots, NEW i \in Block(p)
    PROVE  LET m == PeerRankForSlot(n, p)
               s == SlotAtPeer(n, m)
               j == Base(s) + (i - Base(p))
           IN  /\ m \in Nodes \ {n} /\ s \in PeerSlots /\ j \in Block(s) /\ j \in QPs
               /\ PeerRankForSlot(m, s) = n
               /\ Base(SlotAtPeer(m, n)) + (j - Base(s)) = i
<1> DEFINE m == PeerRankForSlot(n, p)
           s == SlotAtPeer(n, m)
           j == Base(s) + (i - Base(p))
<1>1. m \in Nodes \ {n} /\ s \in PeerSlots /\ PeerRankForSlot(m, s) = n /\ SlotAtPeer(m, n) = p
  BY SlotsAreInverse
<1>2. Base(p) \in Nat /\ i \in Base(p)..(Base(p) + QpsPerPeer - 1)
  BY BlockShape
<1>3. /\ Base(s) \in Nat /\ Block(s) = Base(s)..(Base(s) + QpsPerPeer - 1)
      /\ Block(s) \subseteq QPs
  BY <1>1, BlockShape
<1>4. j \in Block(s) /\ Base(p) + (j - Base(s)) = i
  BY <1>2, <1>3, BlockSize
<1> QED
  BY <1>1, <1>3, <1>4

-----------------------------------------------------------------------------
\* Before the bootstrap nothing is connected.
LEMMA MeshStart == MeshInit => MeshIInv
<1> SUFFICES ASSUME MeshInit PROVE MeshIInv
  OBVIOUS
<1>1. NumPeers \in Nat
  BY MeshAssumption DEF NumPeers
<1>2. MeshTypeOK
  BY <1>1 DEF MeshInit, MeshTypeOK
<1>3. BlockInv
  BY DEF MeshInit, BlockInv, PeerSlots
<1>4. OnlyInv
  BY DEF MeshInit, OnlyInv
<1> QED
  BY <1>2, <1>3, <1>4 DEF MeshIInv

\* Bringing up the next slot keeps the earlier ones and fills its own.
LEMMA ConnectPreserves ==
    ASSUME MeshIInv, NEW n \in Nodes, ConnectPeer(n)
    PROVE  MeshIInv'
<1> DEFINE c == connected[n]
           m == PeerRankForSlot(n, c)
           link(i) == <<m, Base(SlotAtPeer(n, m)) + (i - Base(c))>>
<1> USE DEF MeshIInv
<1>1. c \in PeerSlots /\ c + 1 \in 0..NumPeers
  BY MeshAssumption DEF ConnectPeer, MeshTypeOK, PeerSlots, NumPeers
<1>2. qp' = [qp EXCEPT ![n] = [i \in QPs |-> IF i \in Block(c) THEN link(i) ELSE qp[n][i]]]
  BY DEF ConnectPeer, MeshTypeOK
<1>3. connected' = [connected EXCEPT ![n] = c + 1] /\ met' = met
  BY DEF ConnectPeer
<1>4. \A i \in Block(c) : link(i) \in Nodes \X QPs
  BY <1>1, MirrorPlace
<1>5. \A i \in QPs : qp'[n][i] = IF i \in Block(c) THEN link(i) ELSE qp[n][i]
  BY <1>2 DEF MeshTypeOK
<1>6. \A k \in Nodes \ {n} : qp'[k] = qp[k] /\ connected'[k] = connected[k]
  BY <1>2, <1>3 DEF MeshTypeOK
<1>7. connected'[n] = c + 1
  BY <1>3 DEF MeshTypeOK
<1>8. MeshTypeOK'
  BY <1>1, <1>2, <1>3, <1>4 DEF MeshTypeOK
<1>9. BlockInv'
  <2> SUFFICES ASSUME NEW k \in Nodes, NEW p \in PeerSlots, p < connected'[k], NEW i \in Block(p)
               PROVE  qp'[k][i] = <<PeerRankForSlot(k, p),
                         Base(SlotAtPeer(k, PeerRankForSlot(k, p))) + (i - Base(p))>>
    BY DEF BlockInv
  <2>1. CASE k # n
    BY <2>1, <1>6 DEF BlockInv
  <2>2. CASE k = n /\ p = c
    BY <2>2, <1>1, <1>5, BlockShape
  <2>3. CASE k = n /\ p # c
    <3>1. p < c
      BY <2>3, <1>1, <1>7 DEF PeerSlots
    <3>2. i \in QPs /\ i \notin Block(c)
      BY <2>3, <1>1, BlockShape, BlocksDisjoint
    <3> QED
      BY <2>3, <3>1, <3>2, <1>5 DEF BlockInv
  <2> QED
    BY <2>1, <2>2, <2>3
<1>10. OnlyInv'
  <2> SUFFICES ASSUME NEW k \in Nodes, NEW i \in QPs, qp'[k][i] # None
               PROVE  \E p \in PeerSlots : p < connected'[k] /\ i \in Block(p)
    BY DEF OnlyInv
  <2>1. CASE k # n
    BY <2>1, <1>6 DEF OnlyInv
  <2>2. CASE k = n /\ i \in Block(c)
    BY <2>2, <1>1, <1>7 DEF PeerSlots
  <2>3. CASE k = n /\ i \notin Block(c)
    <3>1. qp[n][i] # None
      BY <2>3, <1>5
    <3>2. PICK p \in PeerSlots : p < c /\ i \in Block(p)
      BY <3>1 DEF OnlyInv
    <3> QED
      BY <2>3, <3>2, <1>1, <1>7 DEF PeerSlots
  <2> QED
    BY <2>1, <2>2, <2>3
<1> QED
  BY <1>8, <1>9, <1>10

\* Every step keeps the invariant.
LEMMA MeshStep == MeshIInv /\ [MeshNext]_meshVars => MeshIInv'
<1> SUFFICES ASSUME MeshIInv, [MeshNext]_meshVars PROVE MeshIInv'
  OBVIOUS
<1>1. CASE \E lo \in Nodes, hi \in Nodes : Exchange(lo, hi)
  <2> PICK lo \in Nodes, hi \in Nodes : Exchange(lo, hi)
    BY <1>1
  <2>1. UNCHANGED <<connected, qp>> /\ met' \in [Nodes -> SUBSET Nodes]
    BY DEF Exchange, MeshIInv, MeshTypeOK
  <2> QED
    BY <2>1 DEF MeshIInv, MeshTypeOK, BlockInv, OnlyInv
<1>2. CASE \E n \in Nodes : ConnectPeer(n)
  BY <1>2, ConnectPreserves
<1>3. CASE \E n \in Nodes, p \in PeerSlots, l \in Lanes : Issue(n, p, l)
  BY <1>3 DEF Issue, MeshIInv, MeshTypeOK, BlockInv, OnlyInv
<1>4. CASE Finished \/ UNCHANGED meshVars
  BY <1>4 DEF Finished, meshVars, MeshIInv, MeshTypeOK, BlockInv, OnlyInv
<1> QED
  BY <1>1, <1>2, <1>3, <1>4 DEF MeshNext

\* On every node the slots gone through, and no others, are connected, each QP to the
\* one at the same place of the peer's block.
THEOREM MeshInductive == MeshSpec => []MeshIInv
  BY MeshStart, MeshStep, PTL DEF MeshSpec

\* The blocks of two nodes at each other's slots are the two ends of the same links.
LEMMA PairsFromIInv == MeshIInv => LinksArePairs
<1> SUFFICES ASSUME MeshIInv, NEW n \in Nodes, NEW i \in QPs, qp[n][i] # None
             PROVE  LET m == qp[n][i][1]  j == qp[n][i][2]
                    IN  m # n /\ (connected[m] > SlotAtPeer(n, m) => qp[m][j] = <<n, i>>)
  BY DEF LinksArePairs
<1>1. PICK p \in PeerSlots : p < connected[n] /\ i \in Block(p)
  BY DEF MeshIInv, OnlyInv
<1> DEFINE m == PeerRankForSlot(n, p)
           s == SlotAtPeer(n, m)
           j == Base(s) + (i - Base(p))
<1>2. qp[n][i] = <<m, j>>
  BY <1>1 DEF MeshIInv, BlockInv
<1>3. /\ m \in Nodes \ {n} /\ s \in PeerSlots /\ j \in Block(s)
      /\ PeerRankForSlot(m, s) = n
      /\ Base(SlotAtPeer(m, n)) + (j - Base(s)) = i
  BY <1>1, MirrorPlace
<1>4. ASSUME connected[m] > s PROVE qp[m][j] = <<n, i>>
  <2>1. s < connected[m]
    BY <1>3, <1>4 DEF MeshIInv, MeshTypeOK, PeerSlots
  <2> QED
    BY <1>3, <2>1 DEF MeshIInv, BlockInv
<1> QED
  BY <1>2, <1>3, <1>4

\* For every number of nodes and QPs, two connected QPs point at each other.
THEOREM MeshIsPaired == MeshSpec => [](MeshTypeOK /\ LinksArePairs)
<1>1. MeshIInv => MeshTypeOK
  BY DEF MeshIInv
<1> QED
  BY <1>1, MeshInductive, PairsFromIInv, PTL

-----------------------------------------------------------------------------
\* Routing.

\* What the provers need to know of a quotient.
LEMMA Quotient ==
    ASSUME NEW a \in Nat, NEW b \in Nat \ {0}
    PROVE  /\ a \div b \in Nat
           /\ b * (a \div b) <= a
           /\ a < b * (a \div b) + b
  OBVIOUS

\* A product grows with its factor.
LEMMA ProductOrder ==
    ASSUME NEW b \in Nat, NEW x \in Nat, NEW y \in Nat, x <= y
    PROVE  b * x \in Nat /\ b * y \in Nat /\ b * x <= b * y
<1> DEFINE d == y - x
<1>1. d \in Nat /\ y = x + d
  OBVIOUS
<1>2. b * (x + d) = b * x + b * d /\ b * d \in Nat /\ b * x \in Nat
  BY <1>1
<1> QED
  BY <1>1, <1>2

\* The blocks of QPs that the proxy threads own cover all QPs of the session.
LEMMA ThreadsCover ==
    /\ NumThreads \in Nat \ {0} /\ QpsPerProxy \in Nat \ {0}
    /\ QpsPerProxy * NumThreads >= NumQPs
    /\ NumThreads = 1 => QpsPerProxy = NumQPs
<1>1. NumQPs \in Nat \ {0} /\ NumThreads \in Nat \ {0}
  BY BlockSize, RouteAssumption DEF NumThreads, AtMost
<1> DEFINE a == NumQPs + NumThreads - 1
           d == a \div NumThreads
<1>2. a \in Nat
  BY <1>1
<1>3. d \in Nat /\ NumThreads * d <= a /\ a < NumThreads * d + NumThreads
  BY <1>1, <1>2, Quotient
<1>4. NumThreads * d \in Nat /\ NumThreads * d >= NumQPs
  BY <1>1, <1>3
<1>5. d >= 1
  <2>1. CASE d = 0
    BY <2>1, <1>1, <1>4
  <2> QED
    BY <2>1, <1>3
<1>6. QpsPerProxy = d
  BY <1>3, <1>5 DEF QpsPerProxy, AtLeast
<1>7. d * NumThreads = NumThreads * d
  BY <1>1, <1>3
<1>8. NumThreads = 1 => d = NumQPs
  BY <1>1, <1>3
<1> QED
  BY <1>1, <1>3, <1>4, <1>5, <1>6, <1>7, <1>8

\* The thread that the division picks owns the QP, and the clamp to the last
\* thread never has anything to do.
LEMMA PickOwns ==
    ASSUME NEW q \in QPs
    PROVE  q \in OwnedBy(AtMost(NumThreads - 1, q \div QpsPerProxy))
<1> DEFINE k == q \div QpsPerProxy
<1>1. q \in Nat /\ q < NumQPs
  BY BlockSize DEF QPs
<1>2. k \in Nat /\ QpsPerProxy * k <= q /\ q < QpsPerProxy * k + QpsPerProxy
  BY <1>1, ThreadsCover, Quotient
<1>3. k <= NumThreads - 1
  <2> SUFFICES ASSUME NumThreads <= k PROVE FALSE
    BY <1>2, ThreadsCover
  <2>1. QpsPerProxy * NumThreads <= QpsPerProxy * k
    BY <1>2, ThreadsCover, ProductOrder
  <2> QED
    BY <2>1, <1>1, <1>2, ThreadsCover, BlockSize
<1>4. AtMost(NumThreads - 1, k) = k
  BY <1>2, <1>3, ThreadsCover DEF AtMost
<1>5. k * QpsPerProxy = QpsPerProxy * k /\ (k + 1) * QpsPerProxy = QpsPerProxy * k + QpsPerProxy
  BY <1>2, ThreadsCover
<1> QED
  BY <1>2, <1>4, <1>5 DEF OwnedBy

\* Where the routes agree, the QP of a command lies in the block of the peer it is
\* for, and the proxy thread the kernel hands it to owns that QP.
LEMMA RouteInBlock ==
    ASSUME RoutesAgree, NEW n \in Nodes, NEW p \in PeerSlots, NEW l \in Lanes
    PROVE  LET c == Command(n, p, l)
           IN  /\ RouteGlobalQp(c) \in Block(p)
               /\ RouteGlobalQp(c) \in OwnedBy(SelectFifo(c))
<1> DEFINE c == Command(n, p, l)
           q == RouteGlobalQp(c)
<1>1. c.chan = p * Devices + Dev /\ c.lane = l /\ l \in Nat
  BY RouteAssumption DEF Command
<1>2. p \in Nat /\ p <= NumPeers - 1 /\ NumPeers \in Nat \ {0}
  BY MeshAssumption DEF PeerSlots, NumPeers
<1>3. q \in Block(p)
  <2>1. CASE Channelize
    <3>1. NumPeers * Devices \in Nat /\ Devices \in Nat \ {0} /\ Dev \in 0..(Devices - 1)
      BY <1>2, MeshAssumption, RouteAssumption
    <3>2. NumQPs = NumPeers * Devices
      BY <2>1, <3>1, MeshAssumption DEF RoutesAgree, NumQPs, AtMost, AtLeast
    <3>3. NumQPs \div NumPeers = Devices
      <4> DEFINE x == NumQPs \div NumPeers
      <4>1. x \in Nat /\ NumPeers * x <= NumQPs /\ NumQPs < NumPeers * x + NumPeers
        BY <1>2, BlockSize, Quotient
      <4>2. ~(Devices + 1 <= x)
        <5>1. ASSUME Devices + 1 <= x PROVE FALSE
          <6>1. NumPeers * (Devices + 1) <= NumPeers * x
            BY <5>1, <4>1, <1>2, <3>1, ProductOrder
          <6>2. NumPeers * (Devices + 1) = NumPeers * Devices + NumPeers
            BY <1>2, <3>1
          <6> QED
            BY <6>1, <6>2, <4>1, <3>1, <3>2, <1>2
        <5> QED
          BY <5>1
      <4>3. ~(x + 1 <= Devices)
        <5>1. ASSUME x + 1 <= Devices PROVE FALSE
          <6>1. NumPeers * (x + 1) <= NumPeers * Devices
            BY <5>1, <4>1, <1>2, <3>1, ProductOrder
          <6>2. NumPeers * (x + 1) = NumPeers * x + NumPeers
            BY <1>2, <4>1
          <6> QED
            BY <6>1, <6>2, <4>1, <3>1, <3>2, <1>2
        <5> QED
          BY <5>1
      <4> QED
        BY <4>1, <4>2, <4>3, <3>1
    <3>4. QpsPerPeer = Devices
      BY <2>1, <3>1, <3>3 DEF QpsPerPeer, AtLeast
    <3>5. c.chan \in Base(p)..(Base(p) + QpsPerPeer - 1) /\ Base(p) \in Nat
      BY <1>1, <1>2, <3>1, <3>4, BlockShape DEF Base
    <3>6. c.chan \in Block(p) /\ c.chan \in QPs
      BY <3>5, BlockShape
    <3>7. c.chan % NumQPs = c.chan
      BY <3>6, BlockSize DEF QPs
    <3> QED
      BY <2>1, <3>6, <3>7 DEF RouteGlobalQp
  <2>2. CASE ~Channelize
    <3>1. p = 0 /\ QpsPerPeer = NumQPs
      BY <2>2, <1>2 DEF Channelize, QpsPerPeer
    <3>2. Block(p) = 0..(NumQPs - 1)
      BY <3>1, BlockShape, BlockSize DEF Base
    <3>3. l % NumQPs \in 0..(NumQPs - 1)
      BY <1>1, BlockSize
    <3> QED
      BY <2>2, <1>1, <3>2, <3>3 DEF RouteGlobalQp
  <2> QED
    BY <2>1, <2>2
<1>4. q \in QPs
  BY <1>3, BlockShape
<1>5. q \in OwnedBy(SelectFifo(c))
  <2>1. CASE FifoByChannel <=> Channelize
    <3>1. SelectFifo(c) = AtMost(NumThreads - 1, q \div QpsPerProxy)
      BY <2>1 DEF SelectFifo, RouteGlobalQp
    <3> QED
      BY <3>1, <1>4, PickOwns
  <2>2. CASE ProxyThreads = 1
    <3>1. NumThreads = 1 /\ QpsPerProxy = NumQPs
      BY <2>2, BlockSize, ThreadsCover DEF NumThreads, AtMost
    <3> DEFINE x == IF FifoByChannel THEN c.chan ELSE c.lane
    <3>2. x \in Nat
      BY <1>1, <1>2, MeshAssumption, RouteAssumption
    <3>3. x % NumQPs \in Nat
      BY <3>2, BlockSize
    <3>4. (x % NumQPs) \div QpsPerProxy \in Nat
      BY <3>3, ThreadsCover, Quotient
    <3>5. SelectFifo(c) = 0
      BY <3>1, <3>4 DEF SelectFifo, AtMost
    <3> QED
      BY <3>1, <3>5, <1>4, BlockSize DEF OwnedBy, QPs
  <2> QED
    BY <2>1, <2>2 DEF RoutesAgree
<1> QED
  BY <1>3, <1>5

\* Every step keeps what has landed where it belongs.
LEMMA LandStep ==
    ASSUME RoutesAgree, MeshIInv, LandsAtAddressee, [MeshNext]_meshVars
    PROVE  LandsAtAddressee'
<1>1. CASE \E n \in Nodes, p \in PeerSlots, l \in Lanes : Issue(n, p, l)
  <2> PICK n \in Nodes, p \in PeerSlots, l \in Lanes : Issue(n, p, l)
    BY <1>1
  <2> DEFINE c == Command(n, p, l)
             q == RouteGlobalQp(c)
             m == PeerRankForSlot(n, p)
  <2>1. q \in Block(p) /\ q \in OwnedBy(SelectFifo(c))
    BY RouteInBlock
  <2>2. m \in Nodes /\ PeerRankForSlot(m, SlotAtPeer(n, m)) = n
    BY SlotsAreInverse
  <2>3. p < connected[n]
    BY MeshAssumption DEF Issue, Up, PeerSlots, NumPeers
  <2> DEFINE j == Base(SlotAtPeer(n, m)) + (q - Base(p))
  <2>4. qp[n][q] = <<m, j>>
    BY <2>1, <2>3 DEF MeshIInv, BlockInv
  <2>5. qp[n][q] # None
    <3>1. <<m, j>> \in (0..(NumNodes - 1)) \X Nat
      BY <2>1, MirrorPlace, BlockSize DEF Nodes, QPs
    <3> QED
      BY <3>1, <2>4, MeshAssumption
  <2>6. landed' = landed \cup {[cmd |-> c, at |-> m]} /\ dropped' = dropped
    BY <2>1, <2>4, <2>5 DEF Issue
  <2>7. c.dst = m /\ c.src = n /\ c.slot = SlotAtPeer(n, m)
    BY DEF Command
  <2> QED
    BY <2>2, <2>6, <2>7 DEF LandsAtAddressee
<1>2. CASE UNCHANGED <<landed, dropped>>
  BY <1>2 DEF LandsAtAddressee
<1> QED
  BY <1>1, <1>2 DEF MeshNext, Exchange, ConnectPeer, Finished, meshVars

\* For every number of nodes, GPUs, lanes and proxy threads under which the routes
\* agree, no command is dropped and every write lands on the node it is meant for,
\* in the bank of its sender.
THEOREM CommandsLand ==
    ASSUME RoutesAgree
    PROVE  MeshSpec => []LandsAtAddressee
<1>1. MeshInit => LandsAtAddressee
  BY DEF MeshInit, LandsAtAddressee
<1>2. MeshIInv /\ LandsAtAddressee /\ [MeshNext]_meshVars => LandsAtAddressee'
  BY LandStep
<1> QED
  BY <1>1, <1>2, MeshInductive, PTL DEF MeshSpec
=============================================================================
