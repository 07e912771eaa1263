---------------------------- MODULE ChannelOnly ----------------------------
(***************************************************************************)
(* The direct loop of std/task for programs of one task whose only effects *)
(* are yields and channel operations (__compiler_run_channel_only).  It    *)
(* has no slots, no parking and no close pass: a receive on an empty       *)
(* channel goes on with None and a send never waits for room.              *)
(* SingleTask shows that the executor, run on such a program, does what    *)
(* this loop does.                                                         *)
(***************************************************************************)
EXTENDS Naturals, Sequences

CONSTANTS MaxChans,  \* bound: channels ever opened
          MaxPolls,  \* bound: operations the program requests
          Caps,      \* the logical capacities channels are opened with
          Ops        \* the Step constructors the program uses

VARIABLES erased,      \* channels
          typed,       \* typed_i64_channels: the payload of a Some entry
          typed_live,  \* typed_i64_channels: the entry is Some
          cap, chan_count,
          producing,   \* inside the loop of a ProduceFrame
          finished,
          polls,       \* operations requested so far
          sent,        \* the number of messages issued; message m is the m-th
          taken        \* the messages received from each channel, in order

loopVars == <<erased, typed, typed_live, cap, chan_count, producing, finished,
              polls, sent, taken>>

Chan == 0..(MaxChans - 1)
OpenChan == 0..(chan_count - 1)

\* The effect of materialize_typed_i64_channel on the contents of channel c.
Contents(c) == IF typed_live[c] THEN typed[c] ELSE erased[c]

Retire(c) == /\ typed' = [typed EXCEPT ![c] = <<>>]
             /\ typed_live' = [typed_live EXCEPT ![c] = FALSE]

\* The task, polled, yields the Step constructor op.
Poll(op) == /\ ~finished /\ ~producing /\ op \in Ops
            /\ polls < MaxPolls /\ polls' = polls + 1

\* Materialize, then ring_put without asking for room.
Put(c) == /\ erased' = [erased EXCEPT ![c] = Append(Contents(c), sent + 1)]
          /\ Retire(c)
          /\ sent' = sent + 1
          /\ UNCHANGED <<cap, chan_count, finished, taken>>

\* A receive of the oldest of the messages q of channel c.
Received(c, q) == taken' = [taken EXCEPT ![c] = Append(@, Head(q))]

Init == /\ erased = [c \in Chan |-> <<>>]
        /\ typed = [c \in Chan |-> <<>>]
        /\ typed_live = [c \in Chan |-> FALSE]
        /\ cap = [c \in Chan |-> 0] /\ chan_count = 0
        /\ producing = FALSE /\ finished = FALSE
        /\ polls = 0 /\ sent = 0
        /\ taken = [c \in Chan |-> <<>>]

Done == /\ ~finished /\ ~producing
        /\ finished' = TRUE
        /\ UNCHANGED <<erased, typed, typed_live, cap, chan_count, producing, polls,
                       sent, taken>>

Yield == /\ Poll("Yield")
         /\ UNCHANGED <<erased, typed, typed_live, cap, chan_count, producing, finished,
                        sent, taken>>

\* Open and OpenI64.
Open == /\ ~finished /\ ~producing /\ chan_count < MaxChans
        /\ chan_count' = chan_count + 1
        /\ \E c \in Caps : cap' = [cap EXCEPT ![chan_count] = c]
        /\ \E t \in (IF "OpenI64" \in Ops THEN BOOLEAN ELSE {FALSE}) :
              typed_live' = [typed_live EXCEPT ![chan_count] = t]
        /\ UNCHANGED <<erased, typed, producing, finished, polls, sent, taken>>

Push == /\ Poll("Push")
        /\ \E c \in OpenChan : Put(c)
        /\ UNCHANGED producing

Pull == /\ Poll("Pull")
        /\ \E c \in OpenChan :
              LET q == Contents(c)
              IN  /\ Retire(c)
                  /\ \/ /\ q = <<>>
                        /\ erased' = [erased EXCEPT ![c] = q]
                        /\ UNCHANGED taken
                     \/ /\ q # <<>>
                        /\ erased' = [erased EXCEPT ![c] = Tail(q)]
                        /\ Received(c, q)
        /\ UNCHANGED <<cap, chan_count, producing, finished, sent>>

\* Only a full typed ring is materialized.
PushI64 == /\ Poll("PushI64")
           /\ \E c \in OpenChan :
                 \/ /\ ~typed_live[c] \/ (cap[c] > 0 /\ Len(typed[c]) >= cap[c])
                    /\ Put(c)
                 \/ /\ typed_live[c] /\ ~(cap[c] > 0 /\ Len(typed[c]) >= cap[c])
                    /\ typed' = [typed EXCEPT ![c] = Append(@, sent + 1)]
                    /\ sent' = sent + 1
                    /\ UNCHANGED <<erased, typed_live, cap, chan_count, finished, taken>>
           /\ UNCHANGED producing

\* Only an empty typed ring is materialized.
PullI64 == /\ Poll("PullI64")
           /\ \E c \in OpenChan :
                 \/ /\ Contents(c) = <<>>
                    /\ Retire(c)
                    /\ UNCHANGED <<erased, taken>>
                 \/ /\ typed_live[c] /\ typed[c] # <<>>
                    /\ typed' = [typed EXCEPT ![c] = Tail(@)]
                    /\ Received(c, typed[c])
                    /\ UNCHANGED <<erased, typed_live>>
                 \/ /\ ~typed_live[c] /\ erased[c] # <<>>
                    /\ erased' = [erased EXCEPT ![c] = Tail(@)]
                    /\ Received(c, erased[c])
                    /\ UNCHANGED <<typed, typed_live>>
           /\ UNCHANGED <<cap, chan_count, producing, finished, sent>>

\* A ProduceFrame sends its first message and enters its own loop, ...
ProduceFrame == /\ Poll("ProduceFrame")
                /\ \E c \in OpenChan : Put(c)
                /\ producing' = TRUE

\* ... in which it sends the next prepared message ...
ProduceNext == /\ producing
               /\ polls < MaxPolls /\ polls' = polls + 1
               /\ \E c \in OpenChan : Put(c)
               /\ UNCHANGED producing

\* ... or finishes.
ProduceFinish == /\ producing /\ producing' = FALSE
                 /\ UNCHANGED <<erased, typed, typed_live, cap, chan_count, finished,
                                polls, sent, taken>>

LoopNext == \/ Done \/ Yield \/ Open \/ Push \/ Pull \/ PushI64 \/ PullI64
            \/ ProduceFrame \/ ProduceNext \/ ProduceFinish

LoopSpec == Init /\ [][LoopNext]_loopVars
=============================================================================
