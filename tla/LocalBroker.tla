----------------------------- MODULE LocalBroker ----------------------------
(***************************************************************************)
(* The exchanges of LocalBroker (comm/local_broker.cuh): exchange_data     *)
(* through the shared vault, exchange_fds and broadcast_fd through the     *)
(* datagram sockets of the ranks.  ParallelBuffer calls them one after     *)
(* another, the same sequence on every rank, to share its allocations.     *)
(*                                                                         *)
(* sync() is that of SenseBarrier, word by word: a call enters it with     *)
(* Arrive and is out of it with Return.  A value or descriptor that rank r *)
(* gives in its k-th call is <<r, k>>, so that a mixture of two calls      *)
(* shows.                                                                  *)
(***************************************************************************)
EXTENDS SenseBarrier, Sequences

CONSTANTS Program,   \* the calls every rank makes, in order
          QueueLen,  \* datagrams a socket holds before sendmsg blocks
          None       \* the descriptor -1

WorldSize == N
Calls == {"exchange_data", "exchange_fds", "broadcast_fd"}

ASSUME BrokerAssumption ==
    /\ Ranks = 0..(WorldSize - 1) /\ QueueLen \in Nat \ {0}
    /\ Program \in Seq(Calls) /\ MaxSyncs >= 2 * Len(Program)
    /\ None \notin Ranks \X Nat

VARIABLES call,    \* calls each rank has begun
          at,      \* where it is in the call
          i,       \* its loop counter
          data,    \* vault->data: the word of each rank
          dst,     \* the result of each rank's current call
          sock     \* datagrams waiting in each rank's socket

brokerVars == <<vars, call, at, i, data, dst, sock>>

Nothing == [q \in Ranks |-> None]
Call(r) == Program[call[r]]
Src == 0   \* broadcast_fd's src_local_rank, 0 at every call site

BrokerInit ==
    /\ Init
    /\ call = [r \in Ranks |-> 0] /\ at = [r \in Ranks |-> "idle"]
    /\ i = [r \in Ranks |-> 0]
    /\ data = Nothing
    /\ dst = [r \in Ranks |-> Nothing]
    /\ sock = [r \in Ranks |-> <<>>]

Goto(r, l) == at' = [at EXCEPT ![r] = l]
Counter(r, n) == i' = [i EXCEPT ![r] = n]

-----------------------------------------------------------------------------
\* The steps of sync() between the first and the last.
InSync(r) ==
    /\ at[r] \in {"enter", "exit"}
    /\ SetSense(r) \/ SeeSense(r) \/ Depart(r) \/ ClearSense(r)
    /\ UNCHANGED <<call, at, i, data, dst, sock>>

\* The bug of writing to the vault without waiting for the others.
BeginNoSync(r) ==
    /\ at[r] = "idle" /\ call[r] < Len(Program)
    /\ call' = [call EXCEPT ![r] = @ + 1]
    /\ dst' = [dst EXCEPT ![r] = Nothing]
    /\ Goto(r, Program[call[r] + 1]) /\ Counter(r, 0)
    /\ UNCHANGED <<vars, data, sock>>

\* The next call: an empty destination, and the sync that lets all in together.
Begin(r) ==
    /\ at[r] = "idle" /\ call[r] < Len(Program)
    /\ call' = [call EXCEPT ![r] = @ + 1]
    /\ dst' = [dst EXCEPT ![r] = Nothing]
    /\ Arrive(r) /\ Goto(r, "enter")
    /\ UNCHANGED <<i, data, sock>>

Entered(r) ==
    /\ at[r] = "enter" /\ Return(r)
    /\ Goto(r, Call(r)) /\ Counter(r, 0)
    /\ UNCHANGED <<call, data, dst, sock>>

\* The sync at the end: exchange_data has still to copy the vault.
Leave(r) ==
    /\ at[r] = "exit" /\ Return(r)
    /\ Goto(r, IF Call(r) = "exchange_data" THEN "copy" ELSE "idle") /\ Counter(r, 0)
    /\ UNCHANGED <<call, data, dst, sock>>

-----------------------------------------------------------------------------
\* exchange_data: a rank writes its word, and after the second sync reads those
\* of all ranks one by one.
WriteData(r) ==
    /\ at[r] = "exchange_data"
    /\ data' = [data EXCEPT ![r] = <<r, call[r]>>]
    /\ Arrive(r) /\ Goto(r, "exit")
    /\ UNCHANGED <<call, i, dst, sock>>

CopyData(r) ==
    /\ at[r] = "copy"
    /\ dst' = [dst EXCEPT ![r][i[r]] = data[i[r]]]
    /\ Counter(r, i[r] + 1)
    /\ Goto(r, IF i[r] + 1 = WorldSize THEN "idle" ELSE "copy")
    /\ UNCHANGED <<call, vars, data, sock>>

-----------------------------------------------------------------------------
\* sendmsg blocks on a full socket; recvmsg takes the oldest datagram.
SendFd(fd, to, from) ==
    /\ Len(sock[to]) < QueueLen
    /\ sock' = [sock EXCEPT ![to] = Append(@, [fd |-> fd, src |-> from])]

RecvFd(r) == sock[r] # <<>> /\ sock' = [sock EXCEPT ![r] = Tail(@)]

\* A call that has nothing more to send or to receive enters the last sync.
Last(r) == Arrive(r) /\ Goto(r, "exit") /\ Counter(r, 0)
More(r, l) == UNCHANGED vars /\ Goto(r, l) /\ Counter(r, i[r] + 1)

\* exchange_fds of rank 0: its own descriptor, or no peers at all.
FdsRoot ==
    /\ at[0] = "exchange_fds"
    /\ dst' = [dst EXCEPT ![0][0] = <<0, call[0]>>]
    /\ Goto(0, IF WorldSize > 1 THEN "gather" ELSE "spread") /\ Counter(0, 0)
    /\ UNCHANGED <<call, vars, data, sock>>

\* dst[src_local_rank] = received_fd, whatever order they come in.
FdsReceive(r, m) == dst' = [dst EXCEPT ![r][m.src] = m.fd]

\* It collects one descriptor from every other rank ...
FdsGather ==
    /\ at[0] = "gather" /\ RecvFd(0)
    /\ LET m == Head(sock[0])
       IN  IF m.src = 0
             THEN Goto(0, "thrown") /\ UNCHANGED <<i, vars, dst>>
             ELSE /\ FdsReceive(0, m) /\ UNCHANGED vars
                  /\ Counter(0, (i[0] + 1) % (WorldSize - 1))
                  /\ Goto(0, IF i[0] + 1 = WorldSize - 1 THEN "spread" ELSE "gather")
    /\ UNCHANGED <<call, data>>

\* The bug of sending a rank its own descriptor as well.
PairsNoSkip ==
    [k \in 0..((WorldSize - 1) * WorldSize - 1) |-> <<k \div WorldSize + 1, k % WorldSize>>]

\* ... and sends to each of them the descriptors of all the others, by receiver
\* and then by source; then it drops its own.
Pairs == [k \in 0..((WorldSize - 1) * (WorldSize - 1) - 1) |->
            LET to == k \div (WorldSize - 1) + 1
                s  == k % (WorldSize - 1)
            IN  <<to, IF s < to THEN s ELSE s + 1>>]

FdsSpread ==
    /\ at[0] = "spread" /\ i[0] \in DOMAIN Pairs
    /\ SendFd(dst[0][Pairs[i[0]][2]], Pairs[i[0]][1], Pairs[i[0]][2])
    /\ More(0, "spread")
    /\ UNCHANGED <<call, data, dst>>

FdsSpreadEnds ==
    /\ at[0] = "spread" /\ i[0] \notin DOMAIN Pairs
    /\ dst' = [dst EXCEPT ![0][0] = None]
    /\ Last(0)
    /\ UNCHANGED <<call, data, sock>>

\* exchange_fds of any other rank: send to rank 0, then receive WorldSize - 1.
FdsSend(r) ==
    /\ r # 0 /\ at[r] = "exchange_fds"
    /\ SendFd(<<r, call[r]>>, 0, r)
    /\ Goto(r, "receive") /\ Counter(r, 0)
    /\ UNCHANGED <<call, vars, data, dst>>

FdsRecv(r) ==
    /\ at[r] = "receive" /\ RecvFd(r)
    /\ LET m == Head(sock[r])
       IN  IF m.src = r
             THEN Goto(r, "thrown") /\ UNCHANGED <<i, vars, dst>>
             ELSE /\ FdsReceive(r, m)
                  /\ IF i[r] + 1 = WorldSize - 1 THEN Last(r) ELSE More(r, "receive")
    /\ UNCHANGED <<call, data>>

-----------------------------------------------------------------------------
\* broadcast_fd: the source sends to every other rank, each of which receives
\* one datagram and checks where it comes from.
BroadcastSend ==
    LET others == {q \in Ranks : q # Src /\ q >= i[Src]}
        to == CHOOSE q \in others : \A p \in others : q <= p
    IN  /\ at[Src] = "broadcast_fd" /\ others # {}
        /\ SendFd(<<Src, call[Src]>>, to, Src)
        /\ Counter(Src, to + 1)
        /\ UNCHANGED <<call, at, vars, data, dst>>

BroadcastEnds ==
    /\ at[Src] = "broadcast_fd" /\ \A q \in Ranks : q # Src => q < i[Src]
    /\ Last(Src)
    /\ UNCHANGED <<call, data, dst, sock>>

BroadcastRecv(r) ==
    /\ r # Src /\ at[r] = "broadcast_fd" /\ RecvFd(r)
    /\ LET m == Head(sock[r])
       IN  IF m.src # Src
             THEN Goto(r, "thrown") /\ UNCHANGED <<i, vars, dst>>
             ELSE dst' = [dst EXCEPT ![r][Src] = m.fd] /\ Last(r)
    /\ UNCHANGED <<call, data>>

-----------------------------------------------------------------------------
Step(r) ==
    \/ InSync(r) \/ Begin(r) \/ Entered(r) \/ Leave(r) \/ WriteData(r) \/ CopyData(r)
    \/ r = 0 /\ (FdsRoot \/ FdsGather \/ FdsSpread \/ FdsSpreadEnds)
    \/ FdsSend(r) \/ FdsRecv(r)
    \/ r = Src /\ (BroadcastSend \/ BroadcastEnds)
    \/ BroadcastRecv(r)

Returned ==
    /\ \A r \in Ranks : at[r] = "idle" /\ call[r] = Len(Program)
    /\ UNCHANGED brokerVars

BrokerNext == (\E r \in Ranks : Step(r)) \/ Returned

BrokerSpec == BrokerInit /\ [][BrokerNext]_brokerVars

-----------------------------------------------------------------------------
\* What a call returns: what every rank gave in this very call.  exchange_fds
\* leaves -1 for the rank itself, broadcast_fd delivers the source's to the rest.
Result(r) ==
    [q \in Ranks |->
        IF \/ Call(r) = "exchange_data"
           \/ Call(r) = "exchange_fds" /\ q # r
           \/ Call(r) = "broadcast_fd" /\ q = Src /\ r # Src
          THEN <<q, call[r]>> ELSE None]

\* A call that has returned delivers what the ranks gave in the same call: never
\* what one of them gave in the call before, nor, when one of them runs ahead into
\* the next call, what it gives there; and descriptors are filed under their owner.
ReturnsThisCall ==
    \A r \in Ranks : at[r] = "idle" /\ call[r] > 0 => dst[r] = Result(r)

\* No rank finds a datagram of another call in its socket: none of the "Invalid
\* source rank" errors is ever thrown, and no descriptor is left over.
NoStrayDatagram ==
    \A r \in Ranks :
        /\ at[r] # "thrown"
        /\ at[r] = "idle" => \A k \in 1..Len(sock[r]) : sock[r][k].fd[2] > call[r]
=============================================================================
