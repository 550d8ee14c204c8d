----------------------------- MODULE BrokerStart ----------------------------
(***************************************************************************)
(* The constructor of LocalBroker (comm/local_broker.cuh): rank 0 creates  *)
(* the named shared-memory segment and initialises the vault in it, the    *)
(* others open it by name and wait for the init code; then all sync, rank  *)
(* 0 takes the name away, all sync, each binds its socket, all sync.       *)
(*                                                                         *)
(* The name may still lead to a segment that an earlier run left behind    *)
(* when it died inside the constructor.  There are therefore two segments, *)
(* the old and the new, each with its own vault words; sync() works on the *)
(* words of the segment the rank has mapped.                               *)
(***************************************************************************)
EXTENDS Integers

CONSTANTS WorldSize,  \* local_world_size
          Ranks       \* local_rank of each process: 0..(WorldSize - 1)

Segments == {"old", "new"}

VARIABLES stale, \* whether an earlier run left the name behind
          name,  \* the segment shm_key leads to, or "none"
          vault, \* of each segment: sized, init, barrier, sense
          seg,   \* the segment each rank has mapped, or "none"
          pc,    \* where each rank is
          stage, \* the sync (1..3) it is in or comes to next
          bound  \* ranks whose socket is bound

vars == <<stale, name, vault, seg, pc, stage, bound>>

Fresh == [sized |-> FALSE, init |-> FALSE, barrier |-> 0, sense |-> 0]

\* What a run that died before rank 0 unlinked the name leaves in the segment.
Leftovers ==
    {Fresh, [Fresh EXCEPT !.sized = TRUE]}
      \cup [sized : {TRUE}, init : {TRUE}, barrier : 0..WorldSize, sense : {0, 1}]

Init ==
    /\ stale \in BOOLEAN
    /\ name = IF stale THEN "old" ELSE "none"
    /\ \E v \in (IF stale THEN Leftovers ELSE {Fresh}) :
         vault = [s \in Segments |-> IF s = "old" THEN v ELSE Fresh]
    /\ seg = [r \in Ranks |-> "none"]
    /\ pc = [r \in Ranks |-> IF r = 0 THEN "create" ELSE "open"]
    /\ stage = [r \in Ranks |-> 1]
    /\ bound = {}

Goto(r, l) == pc' = [pc EXCEPT ![r] = l]

-----------------------------------------------------------------------------
\* Rank 0.

\* create_shm: shm_open(O_CREAT | O_EXCL); an existing name is unlinked once.
CreateShm ==
    /\ pc[0] = "create"
    /\ IF name = "none" THEN name' = "new" /\ Goto(0, "truncate")
                        ELSE name' = "none" /\ UNCHANGED pc
    /\ UNCHANGED <<stale, vault, seg, stage, bound>>

\* ftruncate and mmap; the constructor's memset writes zeros over zeros.
Truncate ==
    /\ pc[0] = "truncate"
    /\ vault' = [vault EXCEPT !["new"].sized = TRUE]
    /\ seg' = [seg EXCEPT ![0] = "new"]
    /\ Goto(0, "clear")
    /\ UNCHANGED <<stale, name, stage, bound>>

\* init_sync: clear the words ...
ClearVault ==
    /\ pc[0] = "clear"
    /\ vault' = [vault EXCEPT !["new"].barrier = 0, !["new"].sense = 0]
    /\ Goto(0, "publish")
    /\ UNCHANGED <<stale, name, seg, stage, bound>>

\* ... and then store INIT_CODE.
PublishInit ==
    /\ pc[0] = "publish"
    /\ vault' = [vault EXCEPT !["new"].init = TRUE]
    /\ Goto(0, "arrive")
    /\ UNCHANGED <<stale, name, seg, stage, bound>>

\* unlink_shm, between the first and the second sync.
UnlinkShm ==
    /\ pc[0] = "unlink"
    /\ name' = "none" /\ Goto(0, "arrive")
    /\ UNCHANGED <<stale, vault, seg, stage, bound>>

-----------------------------------------------------------------------------
\* The other ranks.

\* open_shm: shm_open until the name exists, fstat until the segment is large
\* enough, mmap.
OpenShm(r) ==
    /\ r # 0 /\ pc[r] = "open" /\ name # "none"
    /\ seg' = [seg EXCEPT ![r] = name]
    /\ Goto(r, "stat")
    /\ UNCHANGED <<stale, name, vault, stage, bound>>

StatShm(r) ==
    /\ pc[r] = "stat" /\ vault[seg[r]].sized
    /\ Goto(r, "await")
    /\ UNCHANGED <<stale, name, vault, seg, stage, bound>>

\* init_sync: wait for INIT_CODE.
AwaitInit(r) ==
    /\ pc[r] = "await" /\ vault[seg[r]].init
    /\ Goto(r, "arrive")
    /\ UNCHANGED <<stale, name, vault, seg, stage, bound>>

-----------------------------------------------------------------------------
\* sync(), on the words of the segment the rank has mapped (see SenseBarrier).
Word(r) == vault[seg[r]]

Arrive(r) ==
    /\ pc[r] = "arrive"
    /\ vault' = [vault EXCEPT ![seg[r]].barrier = @ + 1]
    /\ Goto(r, IF Word(r).barrier + 1 = WorldSize THEN "raise" ELSE "wait1")
    /\ UNCHANGED <<stale, name, seg, stage, bound>>

Raise(r) ==
    /\ pc[r] = "raise"
    /\ vault' = [vault EXCEPT ![seg[r]].sense = 1]
    /\ Goto(r, "wait1")
    /\ UNCHANGED <<stale, name, seg, stage, bound>>

Pass(r) ==
    /\ pc[r] = "wait1" /\ Word(r).sense = 1
    /\ Goto(r, "depart")
    /\ UNCHANGED <<stale, name, vault, seg, stage, bound>>

Depart(r) ==
    /\ pc[r] = "depart"
    /\ vault' = [vault EXCEPT ![seg[r]].barrier = @ - 1]
    /\ Goto(r, IF Word(r).barrier - 1 = 0 THEN "lower" ELSE "wait2")
    /\ UNCHANGED <<stale, name, seg, stage, bound>>

Lower(r) ==
    /\ pc[r] = "lower"
    /\ vault' = [vault EXCEPT ![seg[r]].sense = 0]
    /\ Goto(r, "wait2")
    /\ UNCHANGED <<stale, name, seg, stage, bound>>

\* What follows each of the three syncs.
After(r) ==
    CASE stage[r] = 1 -> IF r = 0 THEN "unlink" ELSE "arrive"
      [] stage[r] = 2 -> "bind"
      [] stage[r] = 3 -> "ready"

Return(r) ==
    /\ pc[r] = "wait2" /\ Word(r).sense = 0
    /\ Goto(r, After(r))
    /\ stage' = [stage EXCEPT ![r] = @ + 1]
    /\ UNCHANGED <<stale, name, vault, seg, bound>>

\* The bug of leaving out the last sync.
BindNoSync(r) ==
    /\ pc[r] = "bind"
    /\ bound' = bound \cup {r} /\ Goto(r, "ready")
    /\ UNCHANGED <<stale, name, vault, seg, stage>>

\* create_socket: unlink what an earlier run left at the path, and bind.
Bind(r) ==
    /\ pc[r] = "bind"
    /\ bound' = bound \cup {r} /\ Goto(r, "arrive")
    /\ UNCHANGED <<stale, name, vault, seg, stage>>

-----------------------------------------------------------------------------
Step(r) ==
    \/ r = 0 /\ (CreateShm \/ Truncate \/ ClearVault \/ PublishInit \/ UnlinkShm)
    \/ OpenShm(r) \/ StatShm(r) \/ AwaitInit(r)
    \/ Arrive(r) \/ Raise(r) \/ Pass(r) \/ Depart(r) \/ Lower(r) \/ Return(r)
    \/ Bind(r)

Finished == (\A r \in Ranks : pc[r] = "ready") /\ UNCHANGED vars

Next == (\E r \in Ranks : Step(r)) \/ Finished

Spec == Init /\ [][Next]_vars

-----------------------------------------------------------------------------
\* A rank leaves the constructor only when all ranks have mapped the segment it
\* has mapped and have bound their sockets, and the name is gone: what it sends
\* next finds a socket, and the next run finds no name.
StartTogether ==
    \A r \in Ranks : pc[r] = "ready" =>
        /\ \A q \in Ranks : seg[q] = seg[r]
        /\ bound = Ranks
        /\ name = "none"
=============================================================================
