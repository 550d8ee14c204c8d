------------------------------ MODULE MCProxy -------------------------------
(* Kernels and configurations for the TLC instances of Proxy. *)
EXTENDS Proxy

Write(t, l) == [tile |-> t, type |-> "WRITE", view |-> 0, rows |-> 0,
                lane |-> l, chan |-> l]
StridedWrite(t, n) == [Write(t, 0) EXCEPT !.view = 2, !.rows = n]
BarrierNotify(t) == [Write(t, 0) EXCEPT !.type = "BARRIER_NOTIFY"]
Fence(t) == [Write(t, 0) EXCEPT !.type = "FENCE"]

\* Two transfers of one lane and one of another, in any order.
TwoLanes == {{Write(0, 0), Write(1, 0), Write(2, 1)}}

\* A strided transfer, one of an impossible shape, a plain one, a fence.
Views == {{StridedWrite(0, 3), StridedWrite(1, 0), Write(2, 0)},
          {StridedWrite(0, 2), Write(1, 0), Fence(2)}}

\* A transfer to each of two peers and a barrier for both.
Channels == {{Write(0, 0), Write(1, 1), BarrierNotify(2)}}

\* More commands than a ring of one slot and a send queue of four WRs hold.
OneLane == {{Write(t, 0) : t \in 0..2}}

-----------------------------------------------------------------------------
\* A session between two nodes with one QP, the queue layout, two in flight.
OneQP(k) ==
    [num_qps |-> 1, global_num_qps |-> 1, qp_base_idx |-> 0,
     logical_queues_per_qp |-> 1, num_nodes |-> 2, use_arrival_queue |-> TRUE,
     channelize_gpu_peers |-> FALSE, enable_remote_tail |-> FALSE,
     direct_dmabuf_enabled |-> FALSE, max_inflight |-> 2,
     kernels |-> k, drain_may_time_out |-> FALSE]

TwoQPs(k) == [OneQP(k) EXCEPT !.num_qps = 2, !.global_num_qps = 2]

\* Queue layout with remote tails; flat layout with strided transfers; three
\* nodes with a QP for each peer, where drain_proxy may time out.
QueueConfig == [TwoQPs(TwoLanes) EXCEPT !.enable_remote_tail = TRUE]
FlatConfig == [TwoQPs(Views) EXCEPT !.use_arrival_queue = FALSE,
                                    !.direct_dmabuf_enabled = TRUE]
ChannelConfig == [TwoQPs(Channels) EXCEPT !.use_arrival_queue = FALSE,
                                          !.channelize_gpu_peers = TRUE,
                                          !.num_nodes = 3, !.max_inflight = 1,
                                          !.drain_may_time_out = TRUE]

SafetyConfigs == {QueueConfig, FlatConfig, ChannelConfig}
LiveConfigs == {[OneQP(OneLane) EXCEPT !.max_inflight = 3]}
StashConfigs == {TwoQPs(TwoLanes)}
=============================================================================
