------------------------------ MODULE MCGemmRs ------------------------------
(* Launches for the TLC instances of GemmRs. *)
EXTENDS GemmRs

\* Two nodes, chunks of two tiles and of one, the shared counter and flat flags.
Default == [devices |-> 2, rows |-> 1, cols |-> 3, chunk_tiles |-> 2, nodes |-> 2, node |-> 0,
            num_blocks |-> 2, num_comp |-> 1, num_intra |-> 0, num_send |-> 1,
            num_reduce |-> 0, progress_sms |-> 1, qps |-> 2, receiver_owner |-> FALSE,
            incremental |-> FALSE, transport |-> FALSE, ready_queue |-> FALSE]

\* Two rows for two send CTAs; compute gives way to them.
TwoSenders == [Default EXCEPT !.devices = 1, !.rows = 2, !.cols = 1, !.num_comp = 2,
                              !.num_blocks = 4, !.num_send = 2, !.num_intra = 1]

\* GEMM_RS_READY_REDUCE_QUEUE.
ReadyReduce == [Default EXCEPT !.ready_queue = TRUE, !.devices = 1, !.cols = 2,
                               !.chunk_tiles = 1]

\* GEMM_RS_TRANSPORT_ARRIVAL_QUEUE, with a CTA that only drains.
TransportQueue == [Default EXCEPT !.transport = TRUE, !.nodes = 3, !.num_reduce = 1,
                                  !.num_blocks = 3, !.devices = 1, !.chunk_tiles = 3]

\* GEMM_RS_RECEIVER_OWNER_RS, which implies the incremental reduction.
Owner == [Default EXCEPT !.receiver_owner = TRUE, !.incremental = TRUE, !.transport = TRUE,
                         !.progress_sms = 0, !.node = 1, !.devices = 1, !.cols = 2,
                         !.chunk_tiles = 1, !.nodes = 3]

\* GEMM_RS_INCREMENTAL_PEER_REDUCE alone.
Increments == [Owner EXCEPT !.receiver_owner = FALSE, !.node = 0, !.cols = 1]

RsConfigs == {Default, TwoSenders, ReadyReduce, TransportQueue, Owner, Increments}
Ctas == {<<0, 0>>, <<0, 1>>, <<0, 2>>, <<0, 3>>, <<1, 0>>}
SignalConfigs == {Default}
=============================================================================
