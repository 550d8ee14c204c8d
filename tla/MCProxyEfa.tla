----------------------------- MODULE MCProxyEfa -----------------------------
(* Kernels and configurations for the TLC instances of ProxyEfa. *)
EXTENDS ProxyEfa

Cmd(type, t, l, d) == [type |-> type, tile |-> t, lane |-> l, dst |-> d]
Write(t, l) == Cmd("WRITE", t, l, 1)

\* One QP, one peer, three transfers through a ring of two slots, two arrivals; the
\* peer may be an epoch ahead; a send queue that refuses nothing.
Imm == [num_qps |-> 1, num_peers |-> 1, max_inflight |-> 2, max_epoch |-> 2, write_imm |-> TRUE,
        use_arrival_queue |-> FALSE, enable_remote_tail |-> FALSE, fifo_per_qp |-> FALSE,
        refuses |-> FALSE, fast |-> FALSE, skip_reset |-> FALSE, peer_ahead |-> TRUE,
        drain_may_time_out |-> FALSE,
        incoming |-> {0, 1}, kernels |-> {{Write(0, 0), Write(1, 0), Write(2, 0)}}]

\* Two QPs with a FIFO each, two peers, a send queue that may refuse.
ImmRefused == [Imm EXCEPT !.num_qps = 2, !.num_peers = 2, !.fifo_per_qp = TRUE,
                          !.refuses = TRUE, !.incoming = {}, !.max_epoch = 1,
                          !.kernels = {{Write(0, 0), Cmd("WRITE", 1, 0, 2), Write(2, 1),
                                        Cmd("FENCE", 3, 0, 1)}}]

\* gemm_ar: arrival queues, two peers, a barrier after the transfers, refusals.
GemmAr == [Imm EXCEPT !.num_qps = 2, !.num_peers = 2, !.write_imm = FALSE,
                      !.use_arrival_queue = TRUE, !.refuses = TRUE, !.max_epoch = 1,
                      !.incoming = {},
                      !.kernels = {{Write(0, 0), Write(1, 1),
                                    Cmd("BARRIER_NOTIFY", 2, 0, 1)}}]

\* gemm_ar's fast transition over two epochs.
GemmArFast == [GemmAr EXCEPT !.num_qps = 1, !.num_peers = 1, !.refuses = FALSE,
                             !.fast = TRUE, !.skip_reset = TRUE, !.max_epoch = 2,
                             !.incoming = {0},
                             !.kernels = {{Write(0, 0), Cmd("BARRIER_NOTIFY", 2, 0, 1)}}]

\* dispatch_gemm: flat flags, one per tile; the peers meet between epochs.
Flat == [GemmArFast EXCEPT !.use_arrival_queue = FALSE, !.fast = FALSE, !.skip_reset = FALSE,
                           !.peer_ahead = FALSE,
                           !.kernels = {{Write(0, 0), Write(1, 0)}}]

\* A batch may be refused and kept over the transition, and the drain may give up.
Kept == [Imm EXCEPT !.refuses = TRUE, !.drain_may_time_out = TRUE, !.incoming = {}]

EfaConfigs == {Imm, ImmRefused, GemmAr, GemmArFast, Flat, Kept}
KeptOnly == {Kept}
BarrierConfigs == {GemmArFast}
=============================================================================
