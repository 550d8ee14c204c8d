------------------------------ MODULE D2HFifo -------------------------------
(***************************************************************************)
(* The device-to-host command ring of comm/internode/d2h_fifo.cuh.         *)
(*                                                                         *)
(* Many GPU threads push TransferCmds; one proxy thread polls them.  The   *)
(* GPU claims a slot number by an atomic add on `head`, waits until the    *)
(* ring has room (comparing with `tail_cache`, a device copy of the host's *)
(* `tail` that every pusher overwrites without synchronisation), writes    *)
(* words 1..5 of the slot and commits word 0, which holds cmd_type.  The   *)
(* proxy polls word 0 at `cpu_head`, copies the record, stores EMPTY and   *)
(* advances; it publishes `tail` later, when it has posted the commands.   *)
(*                                                                         *)
(* Every shared-memory access of push() and poll() is a step of its own.   *)
(* A command is opaque; a slot is its header word (EMPTY or the command    *)
(* whose word 0 is stored) and its payload (the command whose words 1..5   *)
(* are stored), so that a torn record is one whose halves differ.          *)
(***************************************************************************)
EXTENDS Integers, Sequences

CONSTANTS Producers,  \* GPU threads that push
          Cmds,       \* the commands they push
          Capacity,   \* slots of the ring
          EMPTY,      \* CmdType::EMPTY, the header of a free slot
          MaxPush     \* bound on the pushes of a behaviour

\* create_d2h_fifo refuses a capacity that is not a power of two: only then is
\* `slot & (capacity - 1)` the remainder of slot by capacity.
ASSUME CapacityAssumption == Capacity \in Nat \ {0}

ASSUME PowerOfTwoAssumption == \E k \in 0..Capacity : Capacity = 2^k

ASSUME CommandAssumption == EMPTY \notin Cmds /\ MaxPush \in Nat

VARIABLES head,       \* next slot number, atomicAdd by the GPU (device memory)
          tail,       \* first slot number not yet released (host-pinned)
          tail_cache, \* the GPU's unsynchronised copy of tail (device memory)
          header,     \* word 0 of each slot
          payload,    \* words 1..5 of each slot
          cpu_head,   \* the proxy's read cursor
          pc,         \* where each producer is in push()
          slot,       \* push(): the claimed slot number
          t,          \* push(): the tail last loaded
          cmd,        \* push(): the command being pushed
          hostpc,     \* where the proxy is in poll()
          log,        \* history: commands in claim order
          polled      \* history: records poll() copied out, in order

gpu == <<pc, slot, t, cmd>>
ring == <<header, payload>>
vars == <<head, tail, tail_cache, header, payload, cpu_head, pc, slot, t, cmd,
          hostpc, log, polled>>

Slots == 0..(Capacity - 1)

\* slot & mask
Index(n) == n % Capacity

-----------------------------------------------------------------------------

\* create_d2h_fifo(): zeroed triggers, head, tail and tail_cache.
Init ==
    /\ head = 0 /\ tail = 0 /\ tail_cache = 0 /\ cpu_head = 0
    /\ header = [i \in Slots |-> EMPTY]
    /\ payload = [i \in Slots |-> EMPTY]
    /\ pc = [p \in Producers |-> "idle"]
    /\ slot = [p \in Producers |-> 0]
    /\ t = [p \in Producers |-> 0]
    /\ cmd = [p \in Producers |-> EMPTY]
    /\ hostpc = "poll"
    /\ log = <<>>
    /\ polled = <<>>

-----------------------------------------------------------------------------
(* push(), run by producer p                                               *)

\* slot = atomicAdd(head, 1)
ClaimSlot(p, c) ==
    /\ pc[p] = "idle"
    /\ head < MaxPush
    /\ slot' = [slot EXCEPT ![p] = head]
    /\ head' = head + 1
    /\ cmd' = [cmd EXCEPT ![p] = c]
    /\ log' = Append(log, c)
    /\ pc' = [pc EXCEPT ![p] = "check"]
    /\ UNCHANGED <<tail, tail_cache, ring, cpu_head, t, hostpc, polled>>

\* if (slot >= capacity + *tail_cache): the fast path trusts the cached tail.
CheckCache(p) ==
    /\ pc[p] = "check"
    /\ pc' = [pc EXCEPT ![p] = IF slot[p] >= Capacity + tail_cache
                               THEN "load" ELSE "payload"]
    /\ UNCHANGED <<head, tail, tail_cache, ring, cpu_head, slot, t, cmd,
                   hostpc, log, polled>>

\* Mutant of LoadTail: rereads the device copy instead of the host's tail.
LoadTailFromCache(p) ==
    /\ pc[p] = "load"
    /\ t' = [t EXCEPT ![p] = tail_cache]
    /\ pc' = [pc EXCEPT ![p] = "store"]
    /\ UNCHANGED <<head, tail, tail_cache, ring, cpu_head, slot, cmd,
                   hostpc, log, polled>>

\* t = volatile_load(tail)
LoadTail(p) ==
    /\ pc[p] = "load"
    /\ t' = [t EXCEPT ![p] = tail]
    /\ pc' = [pc EXCEPT ![p] = "store"]
    /\ UNCHANGED <<head, tail, tail_cache, ring, cpu_head, slot, cmd,
                   hostpc, log, polled>>

\* Mutant of StoreCache: refreshes once and proceeds without testing again.
StoreCacheNoRetest(p) ==
    /\ pc[p] = "store"
    /\ tail_cache' = t[p]
    /\ pc' = [pc EXCEPT ![p] = "payload"]
    /\ UNCHANGED <<head, tail, ring, cpu_head, slot, t, cmd,
                   hostpc, log, polled>>

\* *tail_cache = t; leave the loop when the slot fits.  Between the load and
\* this store another producer may have stored a newer tail: the cache goes back.
StoreCache(p) ==
    /\ pc[p] = "store"
    /\ tail_cache' = t[p]
    /\ pc' = [pc EXCEPT ![p] = IF slot[p] < Capacity + t[p]
                               THEN "payload" ELSE "load"]
    /\ UNCHANGED <<head, tail, ring, cpu_head, slot, t, cmd,
                   hostpc, log, polled>>

\* store words 1..5 of the record
WritePayload(p) ==
    /\ pc[p] = "payload"
    /\ payload' = [payload EXCEPT ![Index(slot[p])] = cmd[p]]
    /\ pc' = [pc EXCEPT ![p] = "commit"]
    /\ UNCHANGED <<head, tail, tail_cache, header, cpu_head, slot, t, cmd,
                   hostpc, log, polled>>

\* release-store word 0, the header with cmd_type
CommitHeader(p) ==
    /\ pc[p] = "commit"
    /\ header' = [header EXCEPT ![Index(slot[p])] = cmd[p]]
    /\ pc' = [pc EXCEPT ![p] = "idle"]
    /\ UNCHANGED <<head, tail, tail_cache, payload, cpu_head, slot, t, cmd,
                   hostpc, log, polled>>

-----------------------------------------------------------------------------
(* poll() and advance_tail(), run by the proxy thread                      *)

\* Acquire-load cmd_type; unless it is EMPTY copy the record out.
PollCopy ==
    /\ hostpc = "poll"
    /\ header[Index(cpu_head)] # EMPTY
    /\ polled' = Append(polled, [header |-> header[Index(cpu_head)],
                                 payload |-> payload[Index(cpu_head)]])
    /\ hostpc' = "clear"
    /\ UNCHANGED <<head, tail, tail_cache, ring, cpu_head, gpu, log>>

\* Mutant of PollClear: forgets to store EMPTY.
PollClearKeepsHeader ==
    /\ hostpc = "clear"
    /\ cpu_head' = cpu_head + 1
    /\ hostpc' = "poll"
    /\ UNCHANGED <<head, tail, tail_cache, ring, gpu, log, polled>>

\* Store EMPTY in cmd_type; cpu_head++.
PollClear ==
    /\ hostpc = "clear"
    /\ header' = [header EXCEPT ![Index(cpu_head)] = EMPTY]
    /\ cpu_head' = cpu_head + 1
    /\ hostpc' = "poll"
    /\ UNCHANGED <<head, tail, tail_cache, payload, gpu, log, polled>>

\* advance_tail(new_tail): the proxies pass cpu_head, or a cpu_head they saved
\* when the batch they have now posted was collected.
AdvanceTail(new_tail) ==
    /\ hostpc = "poll"
    /\ new_tail \in tail..cpu_head
    /\ tail' = new_tail
    /\ UNCHANGED <<head, tail_cache, ring, cpu_head, gpu, hostpc, log, polled>>

-----------------------------------------------------------------------------

Push(p) ==
    \/ \E c \in Cmds : ClaimSlot(p, c)
    \/ CheckCache(p)
    \/ LoadTail(p)
    \/ StoreCache(p)
    \/ WritePayload(p)
    \/ CommitHeader(p)

Poll == PollCopy \/ PollClear

Next ==
    \/ \E p \in Producers : Push(p)
    \/ Poll
    \/ \E n \in tail..cpu_head : AdvanceTail(n)

Spec == Init /\ [][Next]_vars

\* A producer past its claim keeps running (its CTA is resident and never
\* yields), the proxy thread keeps polling, and it releases what it has polled.
\* The last assumption is the proxy's duty, not the ring's: module Proxy shows
\* that it is met when transfers are pushed and not when only barriers are.
Finish(p) ==
    CheckCache(p) \/ LoadTail(p) \/ StoreCache(p) \/ WritePayload(p) \/ CommitHeader(p)

Fairness ==
    /\ \A p \in Producers : WF_vars(Finish(p))
    /\ WF_vars(Poll)
    /\ WF_vars(tail < cpu_head /\ AdvanceTail(cpu_head))

FairSpec == Spec /\ Fairness

-----------------------------------------------------------------------------

Active(p) == pc[p] # "idle"

\* Slot number n is claimed and its push has returned.
Done(n) == n < head /\ \A p \in Producers : Active(p) => slot[p] # n

\* The types of the cursors, of the ring and of push()'s locals.
TypeOK ==
    /\ head \in Nat /\ tail \in Nat /\ tail_cache \in Nat /\ cpu_head \in Nat
    /\ header \in [Slots -> Cmds \cup {EMPTY}]
    /\ payload \in [Slots -> Cmds \cup {EMPTY}]
    /\ pc \in [Producers -> {"idle", "check", "load", "store", "payload", "commit"}]
    /\ slot \in [Producers -> Nat]
    /\ t \in [Producers -> Nat]
    /\ cmd \in [Producers -> Cmds \cup {EMPTY}]
    /\ hostpc \in {"poll", "clear"}
    /\ log \in Seq(Cmds)
    /\ polled \in Seq([header : Cmds \cup {EMPTY}, payload : Cmds \cup {EMPTY}])

\* However the pushes and the stale tail_cache interleave, the proxy gets every
\* record whole (no payload of another command) and in claim order, none twice.
FifoOrder ==
    \A i \in 1..Len(polled) :
        /\ i <= Len(log)
        /\ polled[i] = [header |-> log[i], payload |-> log[i]]

\* A producer that writes a ring slot has it for itself: the slot was polled and
\* cleared by the proxy, and no other push is writing it (backpressure is enough).
SlotOwned ==
    \A p \in Producers : pc[p] \in {"payload", "commit"} =>
        /\ header[Index(slot[p])] = EMPTY
        /\ hostpc = "clear" => Index(cpu_head) # Index(slot[p])
        /\ \A q \in Producers \ {p} : pc[q] \in {"payload", "commit"} =>
               Index(slot[q]) # Index(slot[p])

\* The cached tail may go backwards but never passes the released tail, so the
\* fast path of push() never admits a slot that is still in use.
CacheIsConservative ==
    /\ tail_cache <= tail
    /\ tail <= cpu_head
    /\ head >= cpu_head

-----------------------------------------------------------------------------
(* The inductive invariant: FifoOrder, SlotOwned and CacheIsConservative    *)
(* only follow once the whole window of Capacity slots that starts at       *)
(* cpu_head is described.                                                   *)

\* The cursors, the histories and the host's position agree.
CursorInv ==
    /\ CacheIsConservative
    /\ Len(log) = head
    /\ hostpc = "poll" => Len(polled) = cpu_head
    /\ hostpc = "clear" => Len(polled) = cpu_head + 1 /\ Done(cpu_head)

\* What a producer inside push() knows of its slot.
ClaimInv ==
    \A p \in Producers : Active(p) =>
        /\ cpu_head <= slot[p] /\ slot[p] < head
        /\ cmd[p] = log[slot[p] + 1]
        /\ pc[p] = "store" => t[p] <= tail
        /\ pc[p] \in {"payload", "commit"} => slot[p] < Capacity + tail
        /\ pc[p] = "commit" => payload[Index(slot[p])] = cmd[p]
        /\ \A q \in Producers \ {p} : Active(q) => slot[q] # slot[p]

\* A finished push lies within Capacity of the released tail.
DoneInv ==
    \A n \in cpu_head..(head - 1) : Done(n) => n < Capacity + tail

\* In the window that starts at the cursor, a slot holds a whole record if its
\* push is done and has an EMPTY header otherwise.
WindowInv ==
    \A n \in cpu_head..(cpu_head + Capacity - 1) :
        IF Done(n)
        THEN header[Index(n)] = log[n + 1] /\ payload[Index(n)] = log[n + 1]
        ELSE header[Index(n)] = EMPTY

\* The conjunction the proof carries from state to state; it implies FifoOrder,
\* SlotOwned and CacheIsConservative.
IInv == TypeOK /\ CursorInv /\ ClaimInv /\ DoneInv /\ WindowInv /\ FifoOrder

-----------------------------------------------------------------------------

\* Every claimed slot is eventually polled: a full ring delays a push, it never
\* blocks it for ever, and a slow producer delays only what is claimed after it.
EveryClaimIsPolled ==
    \A n \in 0..(MaxPush - 1) : (head > n) ~> (cpu_head > n)

\* The ring implements the abstract command queue.
Queue == INSTANCE CommandQueue WITH
            claimed <- log,
            published <- {n \in 0..(head - 1) : Done(n)},
            delivered <- polled

\* Every step of the ring is a step of the queue the operators rely on.
ImplementsQueue == Queue!Spec
=============================================================================
