---------------------------- MODULE CommandQueue ----------------------------
(***************************************************************************)
(* What the device-to-host command FIFO promises its users, free of rings, *)
(* cursors and caches.  Commands are numbered in the order in which the    *)
(* GPU claims them; claims may become visible to the host in any order,    *)
(* but at most Capacity ahead of what the host has taken; the host takes   *)
(* them exactly once, whole, in the order of their numbers.                *)
(***************************************************************************)
EXTENDS Naturals, Sequences

CONSTANTS Cmds,      \* the commands the GPU can push
          Capacity   \* how far publication may run ahead of delivery

VARIABLES claimed,   \* the commands in claim order; command n is claimed[n + 1]
          published, \* the numbers of the commands visible to the host
          delivered  \* the records the host has taken, in order

vars == <<claimed, published, delivered>>

\* A record whose header word and whose payload words are of the same command.
Whole(c) == [header |-> c, payload |-> c]

Init ==
    /\ claimed = <<>>
    /\ published = {}
    /\ delivered = <<>>

\* A GPU thread obtains the next number for its command.
Claim(c) ==
    /\ claimed' = Append(claimed, c)
    /\ UNCHANGED <<published, delivered>>

\* Command n becomes visible; flow control keeps it near the host's position.
Publish(n) ==
    /\ n < Len(claimed)
    /\ n \notin published
    /\ n < Len(delivered) + Capacity
    /\ published' = published \cup {n}
    /\ UNCHANGED <<claimed, delivered>>

\* The host takes the next command, and only the next.
Deliver ==
    /\ Len(delivered) < Len(claimed)
    /\ Len(delivered) \in published
    /\ delivered' = Append(delivered, Whole(claimed[Len(delivered) + 1]))
    /\ UNCHANGED <<claimed, published>>

Next ==
    \/ \E c \in Cmds : Claim(c)
    \/ \E n \in 0..Len(claimed) : Publish(n)
    \/ Deliver

Spec == Init /\ [][Next]_vars
=============================================================================
