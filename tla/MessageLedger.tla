--------------------------- MODULE MessageLedger ---------------------------
(***************************************************************************)
(* What the executor of std/task promises about messages, whatever mix of  *)
(* typed and erased rings, parked operations, frames, cancellations and    *)
(* close passes carries them.  A message is with its sender, in its        *)
(* channel, with the frame that received it, handed to the program, or     *)
(* dropped with a cancelled task; it moves only from one of these places   *)
(* to the next.  TaskExecutor implements this ledger.                      *)
(***************************************************************************)
EXTENDS Naturals, Sequences

CONSTANTS Tasks,     \* the task slots
          Channels   \* the channels

VARIABLES contents,  \* the messages queued in each channel, oldest first
          sending,   \* the message each task still has to send, 0 for none
          receiving, \* the message taken for each task's frame but not yet handed over
          issued,    \* sender and channel of every message; message m is the m-th
          taken,     \* the messages taken from each channel, in order
          seen,      \* the messages handed to the program
          dropped    \* the messages cancelled tasks held

ledgerVars == <<contents, sending, receiving, issued, taken, seen, dropped>>

LedgerInit ==
  /\ contents = [c \in Channels |-> <<>>]
  /\ sending = [t \in Tasks |-> 0]
  /\ receiving = [t \in Tasks |-> 0]
  /\ issued = <<>>
  /\ taken = [c \in Channels |-> <<>>]
  /\ seen = {} /\ dropped = {}

NewMessage == Len(issued) + 1

Enqueue(c, m) == contents' = [contents EXCEPT ![c] = Append(@, m)]

Dequeue(c) == /\ contents[c] # <<>>
              /\ contents' = [contents EXCEPT ![c] = Tail(@)]
              /\ taken' = [taken EXCEPT ![c] = Append(@, Head(contents[c]))]

\* A task without an unsent message issues one, which goes into its channel...
Send(t, c) == /\ sending[t] = 0
              /\ issued' = Append(issued, [from |-> t, ch |-> c])
              /\ Enqueue(c, NewMessage)
              /\ UNCHANGED <<sending, receiving, taken, seen, dropped>>

\* ...or stays with the task, which waits until it can be sent.
Hold(t, c) == /\ sending[t] = 0
              /\ issued' = Append(issued, [from |-> t, ch |-> c])
              /\ sending' = [sending EXCEPT ![t] = NewMessage]
              /\ UNCHANGED <<contents, receiving, taken, seen, dropped>>

\* A waiting message goes into the channel it was issued for.
Release(t) == /\ sending[t] # 0
              /\ Enqueue(issued[sending[t]].ch, sending[t])
              /\ sending' = [sending EXCEPT ![t] = 0]
              /\ UNCHANGED <<receiving, issued, taken, seen, dropped>>

\* The oldest message of a channel is handed to the program...
Receive(c) == /\ Dequeue(c)
              /\ seen' = seen \cup {Head(contents[c])}
              /\ UNCHANGED <<sending, receiving, issued, dropped>>

\* ...or kept for a task's frame, which holds no other...
Fetch(t, c) == /\ receiving[t] = 0
               /\ Dequeue(c)
               /\ receiving' = [receiving EXCEPT ![t] = Head(contents[c])]
               /\ UNCHANGED <<sending, issued, seen, dropped>>

\* ...until the frame is activated.
HandOver(t) == /\ receiving[t] # 0
               /\ seen' = seen \cup {receiving[t]}
               /\ receiving' = [receiving EXCEPT ![t] = 0]
               /\ UNCHANGED <<contents, sending, issued, taken, dropped>>

\* A cancelled task takes the message it holds with it.
Cancel(t) == /\ dropped' = dropped \cup ({sending[t], receiving[t]} \ {0})
             /\ sending' = [sending EXCEPT ![t] = 0]
             /\ receiving' = [receiving EXCEPT ![t] = 0]
             /\ UNCHANGED <<contents, issued, taken, seen>>

LedgerNext == \/ \E t \in Tasks : \/ Release(t) \/ HandOver(t) \/ Cancel(t)
                                  \/ \E c \in Channels : Send(t, c) \/ Hold(t, c) \/ Fetch(t, c)
              \/ \E c \in Channels : Receive(c)

LedgerSpec == LedgerInit /\ [][LedgerNext]_ledgerVars
=============================================================================
