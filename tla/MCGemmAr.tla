------------------------------ MODULE MCGemmAr ------------------------------
(* Launches for the TLC instances of GemmAr. *)
EXTENDS GemmAr

\* Two GPUs, a chunk of two tiles each, two launches.
TwoGpus == [devices |-> 2, nodes |-> 2, rows |-> 1, cols |-> 2, chunk_tiles |-> 4,
            device_chunk_tiles |-> 4, num_blocks |-> 5, num_intra |-> 2, num_inter |-> 2,
            send_sms |-> 0, recv_sms |-> 0, queues |-> 1, static_max |-> 64,
            steal_min |-> 512, inline_max |-> 16, window |-> 32, slot_rows |-> 4,
            max_epoch |-> 2, multimem |-> FALSE, early |-> FALSE]

\* GEMM_AR_INTRA_READY_MULTIMEM, and the end of the iteration in the epilogue.
Multimem == [TwoGpus EXCEPT !.cols = 1, !.multimem = TRUE, !.inline_max = 0]

\* Three nodes, two chunks, two reduce CTAs, GEMM_AR_EARLY_REMOTE_ACCUM.
EarlyAccum == [TwoGpus EXCEPT !.devices = 1, !.nodes = 3, !.rows = 2, !.cols = 1,
                              !.num_inter = 3, !.num_blocks = 5, !.num_intra = 1,
                              !.max_epoch = 1, !.early = TRUE, !.queues = 2]

\* Chunks claimed from a window, by two CTAs, and a CTA that only drains.
Window1 == [EarlyAccum EXCEPT !.nodes = 2, !.early = FALSE, !.static_max = 0,
                              !.window = 1, !.recv_sms = 1, !.num_blocks = 6]

\* Work stealing.
Stealing == [Window1 EXCEPT !.steal_min = 2, !.recv_sms = 0]

ArConfigs == {TwoGpus, Multimem, EarlyAccum, Window1, Stealing}

\* Two reduce CTAs and two launches.
ResetConfigs == {[Multimem EXCEPT !.devices = 1, !.num_inter = 3, !.rows = 2, !.num_intra = 1]}

\* Three nodes and two launches: the first peer to notify lets the GPU go on.
ThreeNodes == {[EarlyAccum EXCEPT !.rows = 1, !.num_inter = 2, !.num_blocks = 4,
                                  !.early = FALSE, !.max_epoch = 2]}
=============================================================================
