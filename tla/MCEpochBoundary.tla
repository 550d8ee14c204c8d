-------------------------- MODULE MCEpochBoundary ---------------------------
(* Host programs and configurations for the TLC instances of EpochBoundary. *)
EXTENDS EpochBoundary

\* The synchronised loops of the benchmarks: set_epoch, barrier, run, barrier.
SyncedLoop == <<"prepare", "commit", "barrier", "kernel", "barrier">>

\* The steady-state loop of gemm_rs: nothing between commit_epoch and the run.
PrepareBarrierCommit == <<"prepare", "barrier", "commit", "kernel">>

\* The steady-state loop of gemm_ar: set_epoch and run, no barrier at all.
NoBarrier == <<"prepare", "commit", "kernel">>

\* Three nodes, the host resetting the flags of the queue layout.
Synced ==
    [nodes |-> 1..3, num_tiles |-> 1, program |-> SyncedLoop, queue_layout |-> TRUE,
     host_reset |-> TRUE, kernel_reset |-> FALSE, num_reduce |-> 1]

\* Three nodes that may be an iteration apart, flat flags that are never reset.
Flat == [Synced EXCEPT !.program = PrepareBarrierCommit, !.queue_layout = FALSE,
                       !.host_reset = FALSE]

\* gemm_ar between two nodes, with one reduce CTA.
GemmAr == [Synced EXCEPT !.nodes = 1..2, !.num_tiles = 2, !.program = NoBarrier,
                         !.host_reset = FALSE, !.kernel_reset = TRUE]

SafeConfigs == {Synced, Flat, GemmAr}

\* gemm_rs with the reset that commit_epoch makes by default.
GemmRsConfigs == {[Synced EXCEPT !.nodes = 1..2, !.program = PrepareBarrierCommit]}

\* gemm_ar between three nodes.
ThreeConfigs == {[GemmAr EXCEPT !.nodes = 1..3, !.num_tiles = 1]}
=============================================================================
