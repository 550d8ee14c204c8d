----------------------------- MODULE MCPeerMesh -----------------------------
(* Lanes for the TLC instances of PeerMesh. *)
EXTENDS PeerMesh

OneLane == {0}

\* Lanes of two different proxy threads out of four.
TwoLanes == {0, 6}
=============================================================================
