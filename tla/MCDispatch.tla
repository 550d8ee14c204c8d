----------------------------- MODULE MCDispatch -----------------------------
(* Shapes and routings for the TLC instances of Dispatch. *)
EXTENDS Dispatch

\* Two nodes of one GPU with three tokens each, the second of which straddles the two
\* chunks; an expert with a local row block and one that mixes, two launches.
Pair == [nodes |-> 2, watched |-> 1, devices |-> 1, tokens |-> 3, token_bytes |-> 2,
         chunk_bytes |-> 3, experts |-> 1, col_blocks |-> 1, slice |-> 2, slices |-> 1, warps |-> 1,
         sm_count |-> 4, req_send |-> 1, req_copy |-> 1, req_dispatch |-> 1, launches |-> 2,
         chosen |-> (0 :> {0} @@ 1 :> {0} @@ 2 :> {1} @@ 3 :> {1} @@ 4 :> {0} @@ 5 :> {1}),
         sync |-> TRUE]

\* Both nodes in full.
Full == [Pair EXCEPT !.watched = 2, !.tokens = 1, !.token_bytes = 4, !.slice = 1,
                     !.chosen = (0 :> {0, 1} @@ 1 :> {0})]

\* Two GPUs on the node: a GPU pulls what the other's copy CTA has published; two experts
\* on each, one without tokens.
Node2 == [Pair EXCEPT !.devices = 2, !.tokens = 1, !.chunk_bytes = 2, !.experts = 2, !.slice = 1,
                      !.chosen = (0 :> {0} @@ 1 :> {0} @@ 2 :> {1, 4} @@ 3 :> {0, 2}),
                      !.launches = 1]

\* Two slices a row block, two CTAs that dispatch and two that multiply two column blocks.
Wide == [Pair EXCEPT !.experts = 2, !.slice = 1, !.slices = 2, !.sm_count = 6, !.req_dispatch = 2,
                     !.col_blocks = 2, !.chunk_bytes = 6, !.launches = 1,
                     !.chosen = (0 :> {0, 1} @@ 1 :> {0} @@ 2 :> {1} @@ 3 :> {1} @@ 4 :> {0} @@ 5 :> {2})]

\* Three nodes; a request for more CTAs than there are.
Three == [Full EXCEPT !.nodes = 3, !.watched = 1, !.chunk_bytes = 4, !.launches = 1, !.req_dispatch = 9,
                      !.chosen = (0 :> {0, 1} @@ 1 :> {0} @@ 2 :> {0, 2})]

\* The loop without synchronisation between the launches.
NoSync == [Pair EXCEPT !.sync = FALSE]

DispatchConfigs == {Pair, Full, Node2, Wide, Three, NoSync}
=============================================================================
