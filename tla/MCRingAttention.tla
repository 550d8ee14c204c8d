--------------------------- MODULE MCRingAttention --------------------------
(* Shapes for the TLC instances of RingAttention. *)
EXTENDS RingAttention

\* Two nodes of two GPUs, one tile, two blocks of queries, two epochs of one launch.
Pair == [devices |-> 2, nodes |-> 2, tiles |-> 1, lanes |-> 1, num_send |-> 1, num_copy |-> 1,
         resident |-> 2, reductions |-> 1, launches |-> 1, max_epoch |-> 2,
         late |-> {<<0, 0>>}]
PairOnly == {Pair}

\* A peer whose NIC may find anything in the buffers it sends from.
Late == [Pair EXCEPT !.late = (0..1) \X (0..1), !.resident = 1, !.max_epoch = 1]

\* Three nodes.
ThreeNodes == [Pair EXCEPT !.nodes = 3, !.late = {}, !.resident = 1, !.max_epoch = 1]

\* The default loop: two launches in an epoch.
BackToBack == [Pair EXCEPT !.resident = 1, !.launches = 2, !.late = {<<0, 0>>}, !.max_epoch = 1]
BackToBackOnly == {BackToBack}

\* One node, three tiles on two lanes, which a lane takes in turn.
OneNode == [Pair EXCEPT !.nodes = 1, !.tiles = 3, !.lanes = 2, !.late = {}, !.resident = 1,
                        !.max_epoch = 1]

RingConfigs == {Pair, Late, ThreeNodes, BackToBack, OneNode}
=============================================================================
