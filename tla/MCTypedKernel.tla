--------------------------- MODULE MCTypedKernel ---------------------------
(* Three small programs over a rendezvous queue and a queue of one place.  *)
EXTENDS TypedKernel

Edge(arm, out, next, site) == [arm |-> arm, out |-> out, next |-> next, site |-> site]
Site(kind, queue, arms) == [kind |-> kind, queue |-> queue, arms |-> arms]
Arm(direction, queue) == [direction |-> direction, queue |-> queue]

Go(n) == Edge(0, "Continue", n, 1)
Block(next, site) == Edge(0, "Blocked", next, site)
Took(arm, n) == Edge(arm, "Continue", n, 1)

\* Sends to the one-place queue, or selects between sending to either queue.
\* It declares no cancellation.
Sender ==
  [entry |-> 1, cleanup |-> 0,
   states |-> << <<Block(2, 1), Block(4, 2)>>,
                 <<Go(3)>>,
                 <<Go(1), Edge(0, "Complete", 1, 1)>>,
                 <<Took(1, 3), Took(2, 3)>> >>,
   sites |-> <<Site("send", "b", <<>>),
               Site("select", "a", <<Arm("send", "b"), Arm("send", "a")>>)>>]

\* Waits for the host or for a join, then receives from either queue.
Receiver ==
  [entry |-> 1, cleanup |-> 6,
   states |-> << <<Block(2, 1), Block(2, 2)>>,
                 <<Go(3)>>,
                 <<Block(4, 3), Block(4, 4)>>,
                 <<Go(5)>>,
                 <<Go(3), Edge(0, "Trapped", 1, 1)>>,
                 <<Edge(0, "PropagatedError", 1, 1)>> >>,
   sites |-> <<Site("host", "a", <<>>), Site("join", "a", <<>>),
               Site("receive", "a", <<>>), Site("receive", "b", <<>>)>>]

\* Selects between receiving from either queue.
Selector ==
  [entry |-> 1, cleanup |-> 4,
   states |-> << <<Block(2, 1)>>,
                 <<Took(1, 3), Took(2, 3)>>,
                 <<Edge(0, "Complete", 1, 1)>>,
                 <<Edge(0, "PropagatedError", 1, 1)>> >>,
   sites |-> <<Site("select", "a", <<Arm("receive", "b"), Arm("receive", "a")>>)>>]

MCShape == <<Sender, Receiver, Selector>>
MCCapacity == [a |-> 0, b |-> 1]
MCInstallOrder == <<1, 2, 3>>
=============================================================================
