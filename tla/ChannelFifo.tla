---------------------------- MODULE ChannelFifo ----------------------------
(***************************************************************************)
(* What one channel of std/task promises to the tasks that share it: a     *)
(* FIFO queue with a logical capacity (0 = unbounded).  A send is accepted *)
(* while there is room; the executor's quiescence close pass may store one *)
(* more message past the capacity; a receive yields the oldest message.    *)
(* ChannelRing implements this queue with the two ring buffers of the      *)
(* source.                                                                 *)
(***************************************************************************)
EXTENDS Naturals, Sequences

CONSTANTS Msg,      \* the messages
          Caps,     \* the logical capacities a program opens channels with
          MaxLen    \* bound: messages queued at once


VARIABLES queue,    \* the queued messages, oldest first
          cap,      \* the logical capacity
          out       \* the message the latest receive delivered, <<>> before any

fifoVars == <<queue, cap, out>>

FifoInit == /\ queue = <<>>
            /\ cap \in Caps
            /\ out = <<>>

\* An ordinary send, admitted while the channel has room.
Accept == /\ cap = 0 \/ Len(queue) < cap
          /\ Len(queue) < MaxLen
          /\ \E m \in Msg : queue' = Append(queue, m)
          /\ UNCHANGED <<cap, out>>

\* The close pass releases a blocked sender: its message is stored although
\* the channel is full.
Overflow == /\ cap > 0 /\ Len(queue) >= cap
            /\ Len(queue) < MaxLen
            /\ \E m \in Msg : queue' = Append(queue, m)
            /\ UNCHANGED <<cap, out>>

Deliver == /\ queue # <<>>
           /\ out' = <<Head(queue)>>
           /\ queue' = Tail(queue)
           /\ UNCHANGED cap

FifoNext == Accept \/ Overflow \/ Deliver

FifoSpec == FifoInit /\ [][FifoNext]_fifoVars
=============================================================================
