----------------------------- MODULE BrokerLife -----------------------------
(***************************************************************************)
(* A LocalBroker from its construction to its last call: each rank goes    *)
(* through the constructor (BrokerStart) and then makes its calls          *)
(* (LocalBroker).  A rank whose constructor has returned does not wait for *)
(* the others': it may be in its first call while they still have to see   *)
(* that the last sync of the constructor is over.                          *)
(*                                                                         *)
(* The words of sync() are at rest when the constructor has used them last *)
(* (SenseBarrier), so the calls have words of their own.                   *)
(***************************************************************************)
EXTENDS LocalBroker

VARIABLES stale, name, vault, seg, stage, bound,
          built    \* where each rank is in the constructor

startVars == <<stale, name, vault, seg, stage, bound, built>>

Start == INSTANCE BrokerStart WITH pc <- built

ASSUME LifeAssumption == WorldSize >= 2

LifeInit == BrokerInit /\ Start!Init

Constructs(r) == Start!Step(r) /\ UNCHANGED brokerVars

Exchanges(r) == built[r] = "ready" /\ Step(r) /\ UNCHANGED startVars

LifeNext ==
    \/ \E r \in Ranks : Constructs(r) \/ Exchanges(r)
    \/ Returned /\ UNCHANGED startVars

LifeSpec == LifeInit /\ [][LifeNext]_<<brokerVars, startVars>>

\* Every process runs.
LifeFairSpec ==
    LifeSpec /\ \A r \in Ranks : WF_<<brokerVars, startVars>>(Constructs(r) \/ Exchanges(r))

-----------------------------------------------------------------------------
\* What an earlier run left behind never splits the ranks: see BrokerStart.
StartTogether == Start!StartTogether

\* However small the sockets, the constructor and the calls come to an end on every
\* rank, when no run has left its name behind.
CallsComplete == ~stale => <>(\A r \in Ranks : at[r] = "idle" /\ call[r] = Len(Program))
=============================================================================
