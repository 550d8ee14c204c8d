----------------------------- MODULE MCBrokerLife ---------------------------
(* The calls of a ParallelBuffer with multicast and of one without. *)
EXTENDS BrokerLife

FourRanks == 0..3

TwoBuffers == <<"exchange_fds", "broadcast_fd", "exchange_data", "exchange_data", "exchange_fds">>
=============================================================================
