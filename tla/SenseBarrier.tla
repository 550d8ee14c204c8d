---------------------------- MODULE SenseBarrier ----------------------------
(***************************************************************************)
(* detail::local_broker::sync() of comm/local_broker.cuh: the two-phase    *)
(* counting barrier that the processes of one node keep in shared memory.  *)
(* `barrier` counts up as ranks arrive; the last one raises `sense` and    *)
(* lets the others through; `barrier` counts down as they depart; the last *)
(* one lowers `sense`, on which all wait before they return.               *)
(*                                                                         *)
(* Each access to the shared words is a step of its own.  There is one     *)
(* word of sense for all uses: a rank that has returned may enter the next *)
(* sync while others have not yet noticed that this one is over.           *)
(***************************************************************************)
EXTENDS Integers, FiniteSets

CONSTANTS Ranks,    \* the processes that call sync(local_world_size, vault)
          MaxSyncs  \* bound on the syncs of a rank

ASSUME RanksAssumption == IsFiniteSet(Ranks) /\ Ranks # {}

ASSUME SyncsAssumption == MaxSyncs \in Nat

VARIABLES barrier,  \* vault->barrier
          sense,    \* vault->sense
          pc,       \* where each rank is in sync(); "out" is outside
          entered,  \* history: syncs each rank has entered
          left      \* history: syncs each rank has returned from

vars == <<barrier, sense, pc, entered, left>>

N == Cardinality(Ranks)   \* local_world_size

\* init_sync: rank 0 clears both words before anyone enters.
Init ==
    /\ barrier = 0 /\ sense = 0
    /\ pc = [r \in Ranks |-> "out"]
    /\ entered = [r \in Ranks |-> 0]
    /\ left = [r \in Ranks |-> 0]

-----------------------------------------------------------------------------
\* arrived = __sync_add_and_fetch(&barrier, 1); the last one goes on to set sense.
Arrive(r) ==
    /\ pc[r] = "out" /\ entered[r] < MaxSyncs
    /\ barrier' = barrier + 1
    /\ pc' = [pc EXCEPT ![r] = IF barrier + 1 = N THEN "set" ELSE "wait1"]
    /\ entered' = [entered EXCEPT ![r] = @ + 1]
    /\ UNCHANGED <<sense, left>>

\* sense = 1
SetSense(r) ==
    /\ pc[r] = "set"
    /\ sense' = 1
    /\ pc' = [pc EXCEPT ![r] = "wait1"]
    /\ UNCHANGED <<barrier, entered, left>>

\* while (!sense) ends.
SeeSense(r) ==
    /\ pc[r] = "wait1" /\ sense = 1
    /\ pc' = [pc EXCEPT ![r] = "sub"]
    /\ UNCHANGED <<barrier, sense, entered, left>>

\* The bug of the first to depart lowering the sense.
DepartFirstClears(r) ==
    /\ pc[r] = "sub"
    /\ barrier' = barrier - 1
    /\ pc' = [pc EXCEPT ![r] = IF barrier = N THEN "clear" ELSE "wait2"]
    /\ UNCHANGED <<sense, entered, left>>

\* arrived = __sync_add_and_fetch(&barrier, -1); the last one clears sense.
Depart(r) ==
    /\ pc[r] = "sub"
    /\ barrier' = barrier - 1
    /\ pc' = [pc EXCEPT ![r] = IF barrier - 1 = 0 THEN "clear" ELSE "wait2"]
    /\ UNCHANGED <<sense, entered, left>>

\* sense = 0
ClearSense(r) ==
    /\ pc[r] = "clear"
    /\ sense' = 0
    /\ pc' = [pc EXCEPT ![r] = "wait2"]
    /\ UNCHANGED <<barrier, entered, left>>

\* while (sense) ends: sync() returns.
Return(r) ==
    /\ pc[r] = "wait2" /\ sense = 0
    /\ pc' = [pc EXCEPT ![r] = "out"]
    /\ left' = [left EXCEPT ![r] = @ + 1]
    /\ UNCHANGED <<barrier, sense, entered>>

Sync(r) ==
    \/ Arrive(r) \/ SetSense(r) \/ SeeSense(r)
    \/ Depart(r) \/ ClearSense(r) \/ Return(r)

\* Every rank has made all its calls.
Finished ==
    /\ \A r \in Ranks : pc[r] = "out" /\ entered[r] = MaxSyncs
    /\ UNCHANGED vars

Next == (\E r \in Ranks : Sync(r)) \/ Finished

Spec == Init /\ [][Next]_vars

-----------------------------------------------------------------------------
\* Types of the vault's words and of the callers.
TypeOK ==
    /\ barrier \in Int /\ sense \in {0, 1}
    /\ pc \in [Ranks -> {"out", "set", "wait1", "sub", "clear", "wait2"}]
    /\ entered \in [Ranks -> Nat]
    /\ left \in [Ranks -> Nat]

\* No rank returns from its k-th sync before every rank has entered its k-th:
\* what a rank did before the sync is there for all to see after it.
NoEarlyReturn == \A r, q \in Ranks : left[r] <= entered[q]

\* The ranks counted in `barrier`: arrived and not yet departed.
Inside == {r \in Ranks : pc[r] \in {"set", "wait1", "sub"}}

CountInv == barrier = Cardinality(Inside)

\* While sense is 1 all are in the same sync, on their way out; while it is 0
\* they are waiting for it to rise or have already departed.
PhaseInv ==
    /\ sense = 1 => \A r \in Ranks : pc[r] \in {"wait1", "sub", "clear", "wait2"}
    /\ sense = 0 => \A r \in Ranks : pc[r] \in {"out", "set", "wait1", "wait2"}

\* Who is about to set the sense finds all the others waiting for it to rise; who
\* is about to clear it finds all the others waiting for it to fall.
LastInv ==
    /\ \A r \in Ranks : pc[r] = "set" => \A q \in Ranks \ {r} : pc[q] = "wait1"
    /\ \A r \in Ranks : pc[r] = "clear" => \A q \in Ranks \ {r} : pc[q] = "wait2"

\* The generations: those who have arrived in the next sync are one ahead of
\* those who have not.
Ahead(r) == sense = 0 /\ pc[r] \in {"set", "wait1"}

GenerationInv ==
    /\ \A r \in Ranks : left[r] = IF pc[r] = "out" THEN entered[r] ELSE entered[r] - 1
    /\ \A r, q \in Ranks :
         entered[r] - (IF Ahead(r) THEN 1 ELSE 0) = entered[q] - (IF Ahead(q) THEN 1 ELSE 0)

\* The conjunction the proof carries from state to state.
IInv == TypeOK /\ CountInv /\ PhaseInv /\ LastInv /\ GenerationInv
=============================================================================
