------------------------------ MODULE MCAgGemm ------------------------------
(* Launches for the TLC instances of AgGemm. *)
EXTENDS AgGemm

\* Two nodes of one GPU, two launches, a row of two row blocks and two columns.
Pair == [nodes |-> 2, watched |-> 2, devices |-> 1, rows |-> 1, cols |-> 2, b_cols |-> 1, super_m |-> 12,
         halves |-> 2, warps |-> 1, num_intra |-> 1, num_comp |-> 1, launches |-> 2,
         per_col |-> FALSE, proxy_forward |-> FALSE, sync |-> TRUE]

\* A ring of three nodes: a hop more.
Ring == [Pair EXCEPT !.nodes = 3, !.watched = 3, !.cols = 1, !.halves = 1, !.launches = 1]
RingProxy == [Ring EXCEPT !.proxy_forward = TRUE]

\* Two GPUs on a node; two CTAs that gather, and signals by column.
Node2 == [Pair EXCEPT !.devices = 2, !.watched = 1, !.halves = 1, !.cols = 1, !.b_cols = 2,
                      !.launches = 1]
Wide == [Pair EXCEPT !.rows = 2, !.halves = 1, !.cols = 1, !.num_intra = 2, !.launches = 1,
                     !.per_col = TRUE, !.super_m = 1]

AgConfigs == {Pair, Ring, RingProxy, Node2, Wide}

\* The loop without synchronisation between the launches.
NoSync == {[Node2 EXCEPT !.launches = 2, !.sync = FALSE]}
=============================================================================
