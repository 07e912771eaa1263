---------------------------- MODULE TaskExecutor ----------------------------
(***************************************************************************)
(* The cooperative executor of std/task (`run`): a deterministic           *)
(* round-robin over task slots, with channels, joins, cancellation, the    *)
(* compiler's reusable "frames" and the quiescence close pass.             *)
(*                                                                         *)
(* The scheduler is sequential: one slot takes one turn at a time.  What   *)
(* is nondeterministic is the program: at every poll a task may ask for    *)
(* any operation in Ops on any channel or task id that exists (ids are     *)
(* plain values that tasks send to one another), and every callback of a   *)
(* frame may finish or continue.  Programs are finite: MaxPolls operations *)
(* in all, after which every task ends.                                    *)
(*                                                                         *)
(* Channels are FIFO sequences; ChannelRing shows that the ring buffers    *)
(* implement them.  Message m is the m-th message any task issued.         *)
(***************************************************************************)
EXTENDS Integers, Sequences, FiniteSets

CONSTANTS MaxSlots,  \* bound: task slots ever created
          MaxChans,  \* bound: channels ever opened
          MaxPolls,  \* bound: scheduler operations the whole program requests
          MaxArms,   \* bound: channels one receive or select waits on
          Caps,      \* the logical capacities channels are opened with
          Ops        \* the Step constructors the program uses

ASSUME BoundsAreNatural == /\ MaxSlots \in Nat \ {0}
                           /\ MaxChans \in Nat
                           /\ MaxPolls \in Nat
                           /\ MaxArms \in Nat
ASSUME CapsAreNatural == Caps \subseteq Nat

VARIABLES
  slots,           \* what each slot runs or waits for
  slot_live,       \* the slot still has to be scheduled
  live_count, slot_count,
  frame_kinds,     \* 0, or the kind of the frame the slot is executing
  frame_phases,    \* receive: 0 parked, 1 activation, 2 probe; send: 1, 2, 3 parked
  frame_channels,  \* the channels (for a join: the task) the frame waits on;
                   \* select_first_channels and select_second_channels too
  frame_recipes,   \* the slot's index in the frame kind's table of callbacks
  frame_pending,   \* a message on its way into or out of the frame
  recipes,         \* the tables of callbacks, by kind
  erased,          \* channels: the erased rings
  typed,           \* typed_i64_channels: the payload of a Some entry
  typed_live,      \* typed_i64_channels: the entry is Some
  cap, chan_count,
  pc, i, n, prog,  \* the control state of run
  polls,           \* operations requested so far
  issued,          \* history: sender and channel of every message issued
  taken,           \* history: the messages taken from each channel, in order
  seen,            \* history: the messages some task or callback was handed
  dropped          \* history: the messages a cancelled task held

chanVars  == <<erased, typed, typed_live, cap, chan_count>>
liveVars  == <<slot_live, live_count, slot_count>>
tableVars == <<frame_channels, frame_recipes, recipes>>
frameVars == <<frame_kinds, frame_phases, frame_pending, tableVars>>
histVars  == <<issued, taken, seen, dropped>>
vars == <<slots, liveVars, frameVars, chanVars, pc, i, n, prog, polls, histVars>>

Slot == 0..(MaxSlots - 1)
Chan == 0..(MaxChans - 1)
NoMsg == 0

----------------------------------------------------------------------------
(* Slots.  The source's constructors Wait2/3/4 and WaitAny are WaitRecv     *)
(* with several arms; the seven frame constructors are FrameSlot(kind).     *)
(* WaitJoin is never constructed: a join parks as frame kind 3.             *)

SlotRecord(tag, chs, msg, arg) == [tag |-> tag, chs |-> chs, msg |-> msg, arg |-> arg]

Active == SlotRecord("Active", <<>>, NoMsg, 0)
Ended == SlotRecord("Ended", <<>>, NoMsg, 0)
WaitRecv(chs) == SlotRecord("WaitRecv", chs, NoMsg, 0)
WaitSend(c, m) == SlotRecord("WaitSend", <<c>>, m, 0)
Wait2Frame(chs) == SlotRecord("Wait2Frame", chs, NoMsg, 0)
WaitFrameLoop(chs) == SlotRecord("WaitFrameLoop", chs, NoMsg, 0)
ReceiveFrameSlot(c, m, phase) == SlotRecord("ReceiveFrameSlot", <<c>>, m, phase)
FrameSlot(kind) == SlotRecord("FrameSlot", <<>>, NoMsg, kind)

\* The frame kinds.
ReceiveLane == 1
Produce == 2
Join == 3
SelectLane == 4
ReceiveState == 5
ProduceState == 6
TerminalProduceState == 7

is_live(s) == s.tag # "Ended"

is_parked(s) == \/ s.tag \in {"WaitRecv", "WaitSend", "Wait2Frame", "WaitFrameLoop", "FrameSlot"}
                \/ s.tag = "ReceiveFrameSlot" /\ s.arg = 0

is_only_live_slot == \A s \in 0..(slot_count - 1) : s # i => ~is_live(slots[s])

----------------------------------------------------------------------------
(* Channels. *)

OpenChan == 0..(chan_count - 1)

\* The possible lists of receivers of a select.
Arms == UNION {[1..k -> OpenChan] : k \in 1..MaxArms}

\* PullAny takes a list of receivers, which may be empty.
EmptyList == IF "PullAny" \in Ops THEN {<<>>} ELSE {}

\* Mutant: the typed payload is not copied.
Materialized_Forgets(C) == erased

\* Contents of the erased rings once the typed rings of the channels in C have
\* been materialized.
Materialized(C) == [c \in Chan |-> IF c \in C /\ typed_live[c] THEN typed[c] ELSE erased[c]]

\* Mutant: the typed entry is not set to None.
materialize_KeepsTyped(C) == UNCHANGED <<typed, typed_live>>

\* The typed rings of the channels in C are retired for good.
materialize_typed_i64_channel(C) ==
  /\ typed' = [c \in Chan |-> IF c \in C THEN <<>> ELSE typed[c]]
  /\ typed_live' = [c \in Chan |-> typed_live[c] /\ c \notin C]

\* Mutant: only the first arm of a select is probed.
first_message_FirstArm(e, chs) ==
  {chs[k] : k \in {k \in DOMAIN chs : k = 1 /\ e[chs[k]] # <<>>}}

\* The first channel of chs, in source order, with a message in e: {} or {c}.
first_message(e, chs) ==
  {chs[k] : k \in {k \in DOMAIN chs : /\ e[chs[k]] # <<>>
                                      /\ \A j \in 1..(k - 1) : e[chs[j]] = <<>>}}

\* Mutant: head is read but not advanced.
Take_KeepsHead(e, c) == /\ erased' = e
                        /\ taken' = [taken EXCEPT ![c] = Append(@, Head(e[c]))]

\* Take the head of channel c.
Take(e, c) == /\ erased' = [e EXCEPT ![c] = Tail(@)]
              /\ taken' = [taken EXCEPT ![c] = Append(@, Head(e[c]))]

\* Mutant: the message is written at the head of the ring.
Put_AtHead(e, c, m) == erased' = [e EXCEPT ![c] = <<m>> \o @]

\* ring_put, which never refuses a message.
Put(e, c, m) == erased' = [e EXCEPT ![c] = Append(@, m)]

\* Mutant: off by one.
HasRoom_OneMore(e, c) == cap[c] = 0 \/ Len(e[c]) <= cap[c]

\* The room predicate of every send.
HasRoom(e, c) == cap[c] = 0 \/ Len(e[c]) < cap[c]

\* Hand message m (or NoMsg, for None) to a continuation or a callback.
Hand(m) == seen' = seen \cup ({m} \ {NoMsg})

NextMsg == Len(issued) + 1

\* The task in slot i issues a message for channel c.
Issue(c) == issued' = Append(issued, [from |-> i, ch |-> c])

----------------------------------------------------------------------------
(* Turns. *)

\* Mutant: the round runs one slot too far.
Turn_OneMore == pc = "round" /\ i <= n

\* A round steps the slots 0..n-1, n fixed at its start.
Turn == pc = "round" /\ i < n

LiveTurn(kind) == Turn /\ slot_live[i] /\ frame_kinds[i] = kind

SlotTurn(tag) == LiveTurn(0) /\ slots[i].tag = tag

\* Mutant: the latest turn's progress replaces the round's.
EndTurn_LastOnly(p) == /\ i' = i + 1
                       /\ prog' = p
                       /\ UNCHANGED <<pc, n>>

\* The turn ends; p says whether it made progress.
EndTurn(p) == /\ i' = i + 1
              /\ prog' = (prog \/ p)
              /\ UNCHANGED <<pc, n>>

SetSlot(v) == slots' = [slots EXCEPT ![i] = v]
SetKind(v) == frame_kinds' = [frame_kinds EXCEPT ![i] = v]
SetPhase(v) == frame_phases' = [frame_phases EXCEPT ![i] = v]
SetPending(v) == frame_pending' = [frame_pending EXCEPT ![i] = v]

\* The program asks for one more operation.
Spend == polls < MaxPolls /\ polls' = polls + 1

\* The slot's task, polled, yields the Step constructor op.
Poll(op) == SlotTurn("Active") /\ op \in Ops /\ Spend

----------------------------------------------------------------------------
(* Frames and their tables of callbacks.  Entry r of a kind's tables is the *)
(* kind whose callbacks it holds, 0 once they are cleared.  Kinds 6 and 7   *)
(* share their tables.                                                      *)

Table(kind) == IF kind = TerminalProduceState THEN ProduceState ELSE kind

HasRecipe(s) ==
  LET table == recipes[Table(frame_kinds[s])]
  IN  frame_recipes[s] \in DOMAIN table /\ table[frame_recipes[s]] = frame_kinds[s]

ClearRecipe(s) == recipes' = [recipes EXCEPT ![Table(frame_kinds[s])] =
                                [@ EXCEPT ![frame_recipes[s]] = 0]]

\* Mutant: the index of the latest entry, not of the new one.
StoreFrame_Stale(kind, chs, held) ==
  /\ frame_channels' = [frame_channels EXCEPT ![i] = chs]
  /\ recipes' = [recipes EXCEPT ![Table(kind)] = Append(@, held)]
  /\ frame_recipes' = [frame_recipes EXCEPT ![i] = Len(recipes[Table(kind)])]

\* Store a frame of this kind, waiting on chs, for the slot; held is the kind
\* whose callbacks stay in the new table entry.
StoreFrame(kind, chs, held) ==
  /\ frame_channels' = [frame_channels EXCEPT ![i] = chs]
  /\ recipes' = [recipes EXCEPT ![Table(kind)] = Append(@, held)]
  /\ frame_recipes' = [frame_recipes EXCEPT ![i] = Len(recipes[Table(kind)]) + 1]

\* The frame's finish callback takes over: the slot is Active again.
FinishFrame == /\ SetSlot(Active) /\ SetKind(0)
               /\ ClearRecipe(i)
               /\ UNCHANGED <<frame_phases, frame_channels, frame_recipes>>

\* A receive frame in its activation phase hands over its pending message (or
\* None) and either finishes or waits again, on one of next_channels.
Activate(next_channels) ==
  /\ frame_phases[i] = 1 /\ HasRecipe(i)
  /\ Hand(frame_pending[i]) /\ SetPending(NoMsg)
  /\ \/ FinishFrame /\ UNCHANGED polls
     \/ /\ Spend /\ SetPhase(2)
        /\ \E chs \in next_channels :
              frame_channels' = [frame_channels EXCEPT ![i] = chs]
        /\ UNCHANGED <<slots, frame_kinds, frame_recipes, recipes>>
  /\ EndTurn(TRUE)
  /\ UNCHANGED <<liveVars, chanVars, issued, taken, dropped>>

\* A receive frame in another phase probes its channels; e is what they hold.
Probe(e) ==
  /\ frame_phases[i] # 1
  /\ \/ \E c \in first_message(e, frame_channels[i]) :
           /\ Take(e, c)
           /\ SetPending(Head(e[c])) /\ SetPhase(1)
           /\ EndTurn(TRUE)
     \/ /\ first_message(e, frame_channels[i]) = {}
        /\ erased' = e
        /\ SetPhase(0)
        /\ EndTurn(FALSE)
        /\ UNCHANGED <<taken, frame_pending>>
  /\ UNCHANGED <<slots, liveVars, frame_kinds, tableVars, cap, chan_count,
                 polls, issued, seen, dropped>>

FrameChannels == {frame_channels[i][k] : k \in DOMAIN frame_channels[i]}

\* The lane frame keeps its channel, which it materialized when installed.
ReceiveLaneTurn ==
  /\ LiveTurn(ReceiveLane)
  /\ \/ Activate({frame_channels[i]})
     \/ Probe(erased) /\ UNCHANGED <<typed, typed_live>>

\* The state frame is told its next channel by its prepare callback.
ReceiveStateTurn ==
  /\ LiveTurn(ReceiveState)
  /\ \/ Activate({<<c>> : c \in OpenChan})
     \/ /\ Probe(Materialized(FrameChannels))
        /\ materialize_typed_i64_channel(FrameChannels)

SelectLaneTurn ==
  /\ LiveTurn(SelectLane)
  /\ \/ Activate(OpenChan \X OpenChan)
     \/ /\ Probe(Materialized(FrameChannels))
        /\ materialize_typed_i64_channel(FrameChannels)

\* A producer frame: resume and prepare after a completed send, else another
\* attempt to send the pending message.  A frame that finishes leaves `left` in
\* frame_pending.
ProducerTurn(left) ==
  \/ /\ frame_phases[i] = 1 /\ HasRecipe(i)
     /\ \/ FinishFrame /\ SetPending(left) /\ UNCHANGED <<polls, issued>>
        \/ /\ Spend
           /\ \E c \in OpenChan :
                 /\ Issue(c)
                 /\ frame_channels' = [frame_channels EXCEPT ![i] = <<c>>]
           /\ SetPending(NextMsg) /\ SetPhase(2)
           /\ UNCHANGED <<slots, frame_kinds, frame_recipes, recipes>>
     /\ EndTurn(TRUE)
     /\ UNCHANGED <<liveVars, chanVars, taken, seen, dropped>>
  \/ /\ frame_phases[i] # 1 /\ frame_pending[i] # NoMsg
     /\ LET c == frame_channels[i][1]
            e == Materialized({c})
        IN  /\ materialize_typed_i64_channel({c})
            /\ \/ /\ HasRoom(e, c)
                  /\ Put(e, c, frame_pending[i])
                  /\ SetPending(NoMsg) /\ SetPhase(1)
                  /\ EndTurn(TRUE)
               \/ /\ ~HasRoom(e, c)
                  /\ erased' = e
                  /\ SetPhase(3)
                  /\ EndTurn(FALSE)
                  /\ UNCHANGED frame_pending
     /\ UNCHANGED <<slots, liveVars, frame_kinds, tableVars, cap, chan_count,
                    polls, histVars>>

ProduceFrameTurn == LiveTurn(Produce) /\ ProducerTurn(NoMsg)

\* The state frame does not reset frame_pending when it finishes.
ProduceStateTurn == LiveTurn(ProduceState) /\ ProducerTurn(frame_pending[i])

\* The terminal producer finishes with its only send.
TerminalProduceTurn ==
  /\ LiveTurn(TerminalProduceState)
  /\ frame_pending[i] # NoMsg
  /\ LET c == frame_channels[i][1]
         e == Materialized({c})
     IN  /\ materialize_typed_i64_channel({c})
         /\ \/ /\ HasRoom(e, c) /\ HasRecipe(i)
               /\ Put(e, c, frame_pending[i])
               /\ SetPending(NoMsg)
               /\ FinishFrame
               /\ EndTurn(TRUE)
            \/ /\ ~HasRoom(e, c)
               /\ erased' = e
               /\ SetPhase(3)
               /\ EndTurn(FALSE)
               /\ UNCHANGED <<slots, frame_kinds, frame_pending, tableVars>>
  /\ UNCHANGED <<liveVars, cap, chan_count, polls, histVars>>

\* A parked join resumes once its target is dead.
JoinTurn ==
  /\ LiveTurn(Join)
  /\ \/ /\ ~slot_live[frame_channels[i][1]] /\ HasRecipe(i)
        /\ FinishFrame
        /\ EndTurn(TRUE)
     \/ /\ slot_live[frame_channels[i][1]]
        /\ EndTurn(FALSE)
        /\ UNCHANGED <<slots, frame_kinds, frame_phases, tableVars>>
  /\ UNCHANGED <<liveVars, frame_pending, chanVars, polls, histVars>>

----------------------------------------------------------------------------
(* Slots that are parked without a frame. *)

DeadTurn == /\ Turn /\ ~slot_live[i]
            /\ EndTurn(FALSE)
            /\ UNCHANGED <<slots, liveVars, frameVars, chanVars, polls, histVars>>

\* WaitRecv, Wait2, Wait3, Wait4 and WaitAny.
WaitRecvTurn ==
  /\ SlotTurn("WaitRecv")
  /\ \/ \E c \in first_message(erased, slots[i].chs) :
           /\ Take(erased, c) /\ Hand(Head(erased[c]))
           /\ SetSlot(Active)
           /\ EndTurn(TRUE)
     \/ /\ first_message(erased, slots[i].chs) = {}
        /\ EndTurn(FALSE)
        /\ UNCHANGED <<slots, erased, taken, seen>>
  /\ UNCHANGED <<liveVars, frameVars, typed, typed_live, cap, chan_count,
                 polls, issued, dropped>>

WaitSendTurn ==
  /\ SlotTurn("WaitSend")
  /\ LET c == slots[i].chs[1]
     IN  \/ /\ HasRoom(erased, c)
            /\ Put(erased, c, slots[i].msg)
            /\ SetSlot(Active)
            /\ EndTurn(TRUE)
         \/ /\ ~HasRoom(erased, c)
            /\ EndTurn(FALSE)
            /\ UNCHANGED <<slots, erased>>
  /\ UNCHANGED <<liveVars, frameVars, typed, typed_live, cap, chan_count,
                 polls, histVars>>

\* A frame loop handles one message per turn; the sole live slot goes on until
\* its channels are empty (the turn does not end).
FrameLoopTurn ==
  /\ SlotTurn("WaitFrameLoop") \/ SlotTurn("Wait2Frame")
  /\ \/ \E c \in first_message(erased, slots[i].chs) :
           /\ Take(erased, c) /\ Hand(Head(erased[c]))
           /\ \/ SetSlot(Active) /\ EndTurn(TRUE)
              \/ /\ UNCHANGED slots
                 /\ IF slots[i].tag = "WaitFrameLoop" /\ is_only_live_slot
                    THEN prog' = TRUE /\ UNCHANGED <<pc, i, n>>
                    ELSE EndTurn(TRUE)
     \/ /\ first_message(erased, slots[i].chs) = {}
        /\ EndTurn(FALSE)
        /\ UNCHANGED <<slots, erased, taken, seen>>
  /\ UNCHANGED <<liveVars, frameVars, typed, typed_live, cap, chan_count,
                 polls, issued, dropped>>

ReceiveFrameSlotTurn ==
  /\ SlotTurn("ReceiveFrameSlot")
  /\ LET c == slots[i].chs[1]
     IN  \/ /\ slots[i].arg = 1
            /\ Hand(slots[i].msg)
            /\ \/ SetSlot(Active) /\ UNCHANGED polls
               \/ Spend /\ SetSlot(ReceiveFrameSlot(c, NoMsg, 2))
            /\ EndTurn(TRUE)
            /\ UNCHANGED <<erased, taken>>
         \/ /\ slots[i].arg # 1 /\ erased[c] # <<>>
            /\ Take(erased, c)
            /\ SetSlot(ReceiveFrameSlot(c, Head(erased[c]), 1))
            /\ EndTurn(TRUE)
            /\ UNCHANGED <<polls, seen>>
         \/ /\ slots[i].arg # 1 /\ erased[c] = <<>>
            /\ SetSlot(ReceiveFrameSlot(c, NoMsg, 0))
            /\ EndTurn(FALSE)
            /\ UNCHANGED <<polls, seen, erased, taken>>
  /\ UNCHANGED <<liveVars, frameVars, typed, typed_live, cap, chan_count,
                 issued, dropped>>

----------------------------------------------------------------------------
(* The operations a polled task asks for. *)

PollDone ==
  /\ SlotTurn("Active")
  /\ SetSlot(Ended)
  /\ slot_live' = [slot_live EXCEPT ![i] = FALSE]
  /\ live_count' = live_count - 1
  /\ EndTurn(TRUE)
  /\ UNCHANGED <<slot_count, frameVars, chanVars, polls, histVars>>

PollYield ==
  /\ Poll("Yield")
  /\ SetSlot(Active)
  /\ EndTurn(TRUE)
  /\ UNCHANGED <<liveVars, frameVars, chanVars, histVars>>

\* The child takes the next slot, beyond this round's n.
PollFork ==
  /\ SlotTurn("Active") /\ slot_count < MaxSlots
  /\ slots' = [slots EXCEPT ![slot_count] = Active, ![i] = Active]
  /\ frame_kinds' = [frame_kinds EXCEPT ![slot_count] = 0]
  /\ frame_phases' = [frame_phases EXCEPT ![slot_count] = 0]
  /\ frame_pending' = [frame_pending EXCEPT ![slot_count] = NoMsg]
  /\ slot_live' = [slot_live EXCEPT ![slot_count] = TRUE]
  /\ live_count' = live_count + 1
  /\ slot_count' = slot_count + 1
  /\ EndTurn(TRUE)
  /\ UNCHANGED <<tableVars, chanVars, polls, histVars>>

\* Open and OpenI64.
PollOpen ==
  /\ SlotTurn("Active") /\ chan_count < MaxChans
  /\ SetSlot(Active)
  /\ chan_count' = chan_count + 1
  /\ \E c \in Caps : cap' = [cap EXCEPT ![chan_count] = c]
  /\ \E t \in (IF "OpenI64" \in Ops THEN BOOLEAN ELSE {FALSE}) :
        typed_live' = [typed_live EXCEPT ![chan_count] = t]
  /\ EndTurn(TRUE)
  /\ UNCHANGED <<erased, typed, liveVars, frameVars, polls, histVars>>

PollPush ==
  /\ Poll("Push")
  /\ \E c \in OpenChan :
       LET e == Materialized({c})
       IN  /\ materialize_typed_i64_channel({c})
           /\ Issue(c)
           /\ \/ /\ HasRoom(e, c)
                 /\ Put(e, c, NextMsg)
                 /\ SetSlot(Active)
                 /\ EndTurn(TRUE)
              \/ /\ ~HasRoom(e, c)
                 /\ erased' = e
                 /\ SetSlot(WaitSend(c, NextMsg))
                 /\ EndTurn(FALSE)
  /\ UNCHANGED <<liveVars, frameVars, cap, chan_count, taken, seen, dropped>>

\* Pull, Pull2, Pull3, Pull4, Pull2Ready and PullAny.
PollPull ==
  /\ Poll("Pull")
  /\ \E chs \in Arms \cup EmptyList :
       LET C == {chs[k] : k \in DOMAIN chs}
           e == Materialized(C)
       IN  /\ materialize_typed_i64_channel(C)
           /\ \/ \E c \in first_message(e, chs) :
                    /\ Take(e, c) /\ Hand(Head(e[c]))
                    /\ SetSlot(Active)
                    /\ EndTurn(TRUE)
              \/ /\ first_message(e, chs) = {}
                 /\ erased' = e
                 /\ SetSlot(WaitRecv(chs))
                 /\ EndTurn(FALSE)
                 /\ UNCHANGED <<taken, seen>>
  /\ UNCHANGED <<liveVars, frameVars, cap, chan_count, issued, dropped>>

\* A full typed ring is materialized before the sender parks.
PollPushI64 ==
  /\ Poll("PushI64")
  /\ \E c \in OpenChan :
       /\ Issue(c)
       /\ \/ /\ typed_live[c] /\ HasRoom(typed, c)
             /\ typed' = [typed EXCEPT ![c] = Append(@, NextMsg)]
             /\ SetSlot(Active)
             /\ EndTurn(TRUE)
             /\ UNCHANGED <<erased, typed_live>>
          \/ /\ typed_live[c] /\ ~HasRoom(typed, c)
             /\ erased' = Materialized({c})
             /\ materialize_typed_i64_channel({c})
             /\ SetSlot(WaitSend(c, NextMsg))
             /\ EndTurn(FALSE)
          \/ /\ ~typed_live[c] /\ HasRoom(erased, c)
             /\ Put(erased, c, NextMsg)
             /\ SetSlot(Active)
             /\ EndTurn(TRUE)
             /\ UNCHANGED <<typed, typed_live>>
          \/ /\ ~typed_live[c] /\ ~HasRoom(erased, c)
             /\ SetSlot(WaitSend(c, NextMsg))
             /\ EndTurn(FALSE)
             /\ UNCHANGED <<erased, typed, typed_live>>
  /\ UNCHANGED <<liveVars, frameVars, cap, chan_count, taken, seen, dropped>>

\* An empty typed ring is materialized before the receiver parks.
PollPullI64 ==
  /\ Poll("PullI64")
  /\ \E c \in OpenChan :
       \/ /\ typed_live[c] /\ typed[c] # <<>>
          /\ typed' = [typed EXCEPT ![c] = Tail(@)]
          /\ taken' = [taken EXCEPT ![c] = Append(@, Head(typed[c]))]
          /\ Hand(Head(typed[c]))
          /\ SetSlot(Active)
          /\ EndTurn(TRUE)
          /\ UNCHANGED <<erased, typed_live>>
       \/ /\ typed_live[c] /\ typed[c] = <<>>
          /\ erased' = Materialized({c})
          /\ materialize_typed_i64_channel({c})
          /\ SetSlot(WaitRecv(<<c>>))
          /\ EndTurn(FALSE)
          /\ UNCHANGED <<taken, seen>>
       \/ /\ ~typed_live[c] /\ erased[c] # <<>>
          /\ Take(erased, c) /\ Hand(Head(erased[c]))
          /\ SetSlot(Active)
          /\ EndTurn(TRUE)
          /\ UNCHANGED <<typed, typed_live>>
       \/ /\ ~typed_live[c] /\ erased[c] = <<>>
          /\ SetSlot(WaitRecv(<<c>>))
          /\ EndTurn(FALSE)
          /\ UNCHANGED <<erased, typed, typed_live, taken, seen>>
  /\ UNCHANGED <<liveVars, frameVars, cap, chan_count, issued, dropped>>

\* Pull2Frame, PullFrameLoop and Pull2FrameLoop only install the loop.
PollFrameLoop ==
  /\ Poll("FrameLoop")
  /\ \E chs \in Arms :
       LET C == {chs[k] : k \in DOMAIN chs}
       IN  /\ Len(chs) <= 2
           /\ materialize_typed_i64_channel(C)
           /\ erased' = Materialized(C)
           /\ \/ SetSlot(WaitFrameLoop(chs))
              \/ Len(chs) = 2 /\ SetSlot(Wait2Frame(chs))
  /\ EndTurn(TRUE)
  /\ UNCHANGED <<liveVars, frameVars, cap, chan_count, histVars>>

\* PullReadyFrameLoop and the Pull3/Pull4 loops: the sole live slot drains its
\* channels at once, as FrameLoopTurn does, without ending its turn.
PollReadyFrameLoop ==
  /\ Poll("ReadyFrameLoop")
  /\ \E chs \in Arms :
       LET C == {chs[k] : k \in DOMAIN chs}
       IN  /\ Len(chs) # 2
           /\ materialize_typed_i64_channel(C)
           /\ erased' = Materialized(C)
           /\ SetSlot(WaitFrameLoop(chs))
  /\ IF is_only_live_slot THEN prog' = TRUE /\ UNCHANGED <<pc, i, n>>
                          ELSE EndTurn(TRUE)
  /\ UNCHANGED <<liveVars, frameVars, cap, chan_count, histVars>>

\* Pull2ReadyFrameLoop: the sole live slot handles one ready message.
PollReady2FrameLoop ==
  /\ Poll("ReadyFrameLoop")
  /\ \E chs \in Arms :
       LET C == {chs[k] : k \in DOMAIN chs}
           e == Materialized(C)
           ready == IF is_only_live_slot THEN first_message(e, chs) ELSE {}
       IN  /\ Len(chs) = 2
           /\ materialize_typed_i64_channel(C)
           /\ \/ \E c \in ready :
                    /\ Take(e, c) /\ Hand(Head(e[c]))
                    /\ SetSlot(Active) \/ SetSlot(WaitFrameLoop(chs))
              \/ /\ ready = {}
                 /\ erased' = e
                 /\ SetSlot(WaitFrameLoop(chs))
                 /\ UNCHANGED <<taken, seen>>
  /\ EndTurn(TRUE)
  /\ UNCHANGED <<liveVars, frameVars, cap, chan_count, issued, dropped>>

\* Wait: a join on a dead task goes on, another parks as a join frame.
PollWait ==
  /\ Poll("Wait")
  /\ \E t \in 0..(slot_count - 1) :
       \/ /\ ~is_live(slots[t])
          /\ SetSlot(Active)
          /\ EndTurn(TRUE)
          /\ UNCHANGED <<frame_kinds, tableVars>>
       \/ /\ is_live(slots[t])
          /\ StoreFrame(Join, <<t>>, Join)
          /\ SetSlot(FrameSlot(Join)) /\ SetKind(Join)
          /\ EndTurn(FALSE)
  /\ UNCHANGED <<liveVars, frame_phases, frame_pending, chanVars, histVars>>

\* Mutant: a cancelled task is counted out although it has ended already.
CountOut_Twice(t) ==
  IF t # i
  THEN /\ live_count' = live_count - 1
       /\ slot_live' = [slot_live EXCEPT ![t] = FALSE]
  ELSE UNCHANGED <<live_count, slot_live>>

\* A cancelled task leaves the account of live tasks, once.
CountOut(t) ==
  IF t # i /\ slot_live[t]
  THEN /\ live_count' = live_count - 1
       /\ slot_live' = [slot_live EXCEPT ![t] = FALSE]
  ELSE UNCHANGED <<live_count, slot_live>>

\* Cancel: the target's frame is torn down and its slot ended; a task that
\* cancels itself goes on.
PollCancel ==
  /\ Poll("Cancel")
  /\ \E t \in 0..(slot_count - 1) :
       /\ CountOut(t)
       /\ IF frame_kinds[t] = 0 THEN UNCHANGED recipes ELSE ClearRecipe(t)
       /\ frame_kinds' = [frame_kinds EXCEPT ![t] = 0]
       /\ frame_pending' = [frame_pending EXCEPT ![t] = NoMsg]
       /\ slots' = [slots EXCEPT ![t] = Ended, ![i] = Active]
       /\ dropped' = dropped \cup ({slots[t].msg, frame_pending[t]} \ {NoMsg})
  /\ EndTurn(TRUE)
  /\ UNCHANGED <<slot_count, frame_phases, frame_channels, frame_recipes,
                 chanVars, issued, taken, seen>>

\* ReceiveFrame keeps its phase and its message in the slot itself.
PollReceiveFrame ==
  /\ Poll("ReceiveFrame")
  /\ \E c \in OpenChan :
       LET e == Materialized({c})
       IN  /\ materialize_typed_i64_channel({c})
           /\ \/ /\ e[c] # <<>>
                 /\ Take(e, c)
                 /\ SetSlot(ReceiveFrameSlot(c, Head(e[c]), 1))
                 /\ EndTurn(TRUE)
              \/ /\ e[c] = <<>>
                 /\ erased' = e
                 /\ SetSlot(ReceiveFrameSlot(c, NoMsg, 0))
                 /\ EndTurn(FALSE)
                 /\ UNCHANGED taken
  /\ UNCHANGED <<liveVars, frameVars, cap, chan_count, issued, seen, dropped>>

\* Install a receive frame of this kind on chs and probe at once.
InstallReceive(kind, chs) ==
  LET C == {chs[k] : k \in DOMAIN chs}
      e == Materialized(C)
  IN  /\ StoreFrame(kind, chs, kind)
      /\ SetSlot(FrameSlot(kind)) /\ SetKind(kind)
      /\ materialize_typed_i64_channel(C)
      /\ \/ \E c \in first_message(e, chs) :
               /\ Take(e, c)
               /\ SetPending(Head(e[c])) /\ SetPhase(1)
               /\ EndTurn(TRUE)
         \/ /\ first_message(e, chs) = {}
            /\ erased' = e
            /\ SetPhase(0)
            /\ EndTurn(FALSE)
            /\ UNCHANGED <<taken, frame_pending>>
      /\ UNCHANGED <<liveVars, cap, chan_count, issued, seen, dropped>>

PollReceiveLaneFrame ==
  Poll("ReceiveLaneFrame") /\ \E c \in OpenChan : InstallReceive(ReceiveLane, <<c>>)

PollReceiveStateFrame ==
  Poll("ReceiveStateFrame") /\ \E c \in OpenChan : InstallReceive(ReceiveState, <<c>>)

PollSelectLaneFrame ==
  Poll("SelectLaneFrame") /\ \E chs \in OpenChan \X OpenChan : InstallReceive(SelectLane, chs)

\* Install a producer frame of this kind and try its first send at once.
InstallProduce(kind) ==
  \E c \in OpenChan :
    LET e == Materialized({c})
    IN  /\ StoreFrame(kind, <<c>>, kind)
        /\ SetSlot(FrameSlot(kind)) /\ SetKind(kind)
        /\ materialize_typed_i64_channel({c})
        /\ Issue(c)
        /\ \/ /\ HasRoom(e, c)
              /\ Put(e, c, NextMsg)
              /\ SetPhase(1)
              /\ EndTurn(TRUE)
              /\ UNCHANGED frame_pending
           \/ /\ ~HasRoom(e, c)
              /\ erased' = e
              /\ SetPending(NextMsg) /\ SetPhase(3)
              /\ EndTurn(FALSE)
        /\ UNCHANGED <<liveVars, cap, chan_count, taken, seen, dropped>>

PollProduceFrame == Poll("ProduceFrame") /\ InstallProduce(Produce)

PollProduceStateFrame == Poll("ProduceStateFrame") /\ InstallProduce(ProduceState)

\* A terminal producer whose send succeeds at once has finished already: its
\* table entry is stored and cleared in the same turn.
PollTerminalProduceStateFrame ==
  /\ Poll("TerminalProduceStateFrame")
  /\ \E c \in OpenChan :
       LET e == Materialized({c})
       IN  /\ materialize_typed_i64_channel({c})
           /\ Issue(c)
           /\ \/ /\ HasRoom(e, c)
                 /\ StoreFrame(TerminalProduceState, <<c>>, 0)
                 /\ Put(e, c, NextMsg)
                 /\ SetSlot(Active) /\ SetKind(0)
                 /\ EndTurn(TRUE)
                 /\ UNCHANGED <<frame_pending, frame_phases>>
              \/ /\ ~HasRoom(e, c)
                 /\ StoreFrame(TerminalProduceState, <<c>>, TerminalProduceState)
                 /\ erased' = e
                 /\ SetSlot(FrameSlot(TerminalProduceState))
                 /\ SetKind(TerminalProduceState)
                 /\ SetPending(NextMsg) /\ SetPhase(3)
                 /\ EndTurn(FALSE)
  /\ UNCHANGED <<liveVars, cap, chan_count, taken, seen, dropped>>

----------------------------------------------------------------------------
(* The end of a round and the quiescence close pass, one slot at a time. *)

StartRound(count) == pc' = "round" /\ i' = 0 /\ n' = count /\ prog' = FALSE

\* The remaining branch of the source (no progress, nothing parked) has no
\* action: it is never taken, or this model would deadlock.
EndRound ==
  /\ pc = "round" /\ i = n
  /\ \/ prog /\ live_count > 0 /\ StartRound(slot_count)
     \/ prog /\ live_count = 0 /\ pc' = "done" /\ UNCHANGED <<i, n, prog>>
     \/ /\ ~prog /\ \E s \in 0..(slot_count - 1) : is_parked(slots[s])
        /\ pc' = "close" /\ i' = 0 /\ n' = slot_count
        /\ UNCHANGED prog
  /\ UNCHANGED <<slots, liveVars, frameVars, chanVars, polls, histVars>>

Closing == pc = "close" /\ i < n

CloseOnward == i' = i + 1 /\ UNCHANGED <<pc, n, prog>>

\* Mutant: a parked receive is not released.
CloseRecv_StaysParked ==
  /\ Closing /\ slots[i].tag = "WaitRecv"
  /\ CloseOnward
  /\ UNCHANGED <<slots, liveVars, frameVars, chanVars, polls, histVars>>

\* A parked receive or select resumes with None.
CloseRecv ==
  /\ Closing /\ slots[i].tag = "WaitRecv"
  /\ SetSlot(Active)
  /\ CloseOnward
  /\ UNCHANGED <<liveVars, frameVars, chanVars, polls, histVars>>

\* Mutant: a parked send is released, its message forgotten.
CloseSend_Drops ==
  /\ Closing /\ slots[i].tag = "WaitSend"
  /\ SetSlot(Active)
  /\ CloseOnward
  /\ UNCHANGED <<liveVars, frameVars, chanVars, polls, histVars>>

\* A parked send is released, its message stored past the capacity.
CloseSend ==
  /\ Closing /\ slots[i].tag = "WaitSend"
  /\ SetSlot(Active)
  /\ Put(erased, slots[i].chs[1], slots[i].msg)
  /\ CloseOnward
  /\ UNCHANGED <<liveVars, frameVars, typed, typed_live, cap, chan_count,
                 polls, histVars>>

\* A frame loop is offered None; it may stay parked.
CloseFrameLoop ==
  /\ Closing /\ slots[i].tag \in {"WaitFrameLoop", "Wait2Frame"}
  /\ \/ SetSlot(Active) /\ UNCHANGED polls
     \/ Spend /\ UNCHANGED slots
  /\ CloseOnward
  /\ UNCHANGED <<liveVars, frameVars, chanVars, histVars>>

CloseReceiveFrameSlot ==
  /\ Closing /\ slots[i].tag = "ReceiveFrameSlot"
  /\ SetSlot(ReceiveFrameSlot(slots[i].chs[1], NoMsg, 1))
  /\ CloseOnward
  /\ UNCHANGED <<liveVars, frameVars, chanVars, polls, histVars>>

ClosingFrame(kinds) == Closing /\ slots[i].tag = "FrameSlot" /\ slots[i].arg \in kinds

\* Mutant: a parked join waits on.
CloseJoin_StaysParked ==
  /\ ClosingFrame({Join})
  /\ CloseOnward
  /\ UNCHANGED <<slots, liveVars, frameVars, chanVars, polls, histVars>>

\* A parked join resumes although its target is still alive.
CloseJoin ==
  /\ ClosingFrame({Join}) /\ HasRecipe(i)
  /\ FinishFrame
  /\ CloseOnward
  /\ UNCHANGED <<liveVars, frame_pending, chanVars, polls, histVars>>

\* A receive frame is activated with None.
CloseReceiveFrame ==
  /\ ClosingFrame({ReceiveLane, ReceiveState, SelectLane})
  /\ SetPending(NoMsg) /\ SetPhase(1)
  /\ CloseOnward
  /\ UNCHANGED <<slots, liveVars, frame_kinds, tableVars, chanVars, polls, histVars>>

\* Mutant: the pending message is stored but stays pending.
CloseProduceFrame_KeepsPending ==
  /\ ClosingFrame({Produce, ProduceState}) /\ frame_pending[i] # NoMsg
  /\ Put(erased, frame_channels[i][1], frame_pending[i])
  /\ SetPhase(1)
  /\ CloseOnward
  /\ UNCHANGED <<slots, liveVars, frame_kinds, frame_pending, tableVars, typed, typed_live,
                 cap, chan_count, polls, histVars>>

\* A producer frame's pending message is stored past the capacity.
CloseProduceFrame ==
  /\ ClosingFrame({Produce, ProduceState}) /\ frame_pending[i] # NoMsg
  /\ Put(erased, frame_channels[i][1], frame_pending[i])
  /\ SetPending(NoMsg) /\ SetPhase(1)
  /\ CloseOnward
  /\ UNCHANGED <<slots, liveVars, frame_kinds, tableVars, typed, typed_live, cap,
                 chan_count, polls, histVars>>

CloseTerminalProduce ==
  /\ ClosingFrame({TerminalProduceState})
  /\ frame_pending[i] # NoMsg /\ HasRecipe(i)
  /\ Put(erased, frame_channels[i][1], frame_pending[i])
  /\ SetPending(NoMsg)
  /\ FinishFrame
  /\ CloseOnward
  /\ UNCHANGED <<liveVars, typed, typed_live, cap, chan_count, polls, histVars>>

\* Mutant: the default arm of the close pass wakes the slot.
CloseOther_Wakes ==
  /\ Closing /\ slots[i].tag \in {"Active", "Ended"}
  /\ SetSlot(Active)
  /\ CloseOnward
  /\ UNCHANGED <<liveVars, frameVars, chanVars, polls, histVars>>

\* In the close pass every other slot has ended.
CloseOther ==
  /\ Closing /\ slots[i].tag \in {"Active", "Ended"}
  /\ CloseOnward
  /\ UNCHANGED <<slots, liveVars, frameVars, chanVars, polls, histVars>>

EndClose ==
  /\ pc = "close" /\ i = n
  /\ StartRound(slot_count)
  /\ UNCHANGED <<slots, liveVars, frameVars, chanVars, polls, histVars>>

\* run has returned.
Returned == pc = "done" /\ UNCHANGED vars

----------------------------------------------------------------------------
Init ==
  /\ slots = [s \in Slot |-> IF s = 0 THEN Active ELSE Ended]
  /\ slot_live = [s \in Slot |-> s = 0]
  /\ live_count = 1 /\ slot_count = 1
  /\ frame_kinds = [s \in Slot |-> 0]
  /\ frame_phases = [s \in Slot |-> 0]
  /\ frame_channels = [s \in Slot |-> <<>>]
  /\ frame_recipes = [s \in Slot |-> 0]
  /\ frame_pending = [s \in Slot |-> NoMsg]
  /\ recipes = [k \in 1..6 |-> <<>>]
  /\ erased = [c \in Chan |-> <<>>]
  /\ typed = [c \in Chan |-> <<>>]
  /\ typed_live = [c \in Chan |-> FALSE]
  /\ cap = [c \in Chan |-> 0]
  /\ chan_count = 0
  /\ pc = "round" /\ i = 0 /\ n = 1 /\ prog = FALSE
  /\ polls = 0
  /\ issued = <<>>
  /\ taken = [c \in Chan |-> <<>>]
  /\ seen = {} /\ dropped = {}

FrameTurn == \/ ReceiveLaneTurn \/ ReceiveStateTurn \/ SelectLaneTurn
             \/ ProduceFrameTurn \/ ProduceStateTurn \/ TerminalProduceTurn
             \/ JoinTurn

ParkedTurn == \/ WaitRecvTurn \/ WaitSendTurn \/ FrameLoopTurn \/ ReceiveFrameSlotTurn

PollTurn == \/ PollDone \/ PollYield \/ PollFork \/ PollOpen
            \/ PollPush \/ PollPull \/ PollPushI64 \/ PollPullI64
            \/ PollFrameLoop \/ PollReadyFrameLoop \/ PollReady2FrameLoop
            \/ PollWait \/ PollCancel
            \/ PollReceiveFrame \/ PollReceiveLaneFrame \/ PollReceiveStateFrame
            \/ PollSelectLaneFrame \/ PollProduceFrame \/ PollProduceStateFrame
            \/ PollTerminalProduceStateFrame

CloseTurn == \/ CloseRecv \/ CloseSend \/ CloseFrameLoop \/ CloseReceiveFrameSlot
             \/ CloseJoin \/ CloseReceiveFrame \/ CloseProduceFrame
             \/ CloseTerminalProduce \/ CloseOther

Step == \/ DeadTurn \/ FrameTurn \/ ParkedTurn \/ PollTurn
        \/ EndRound \/ CloseTurn \/ EndClose

Next == Step \/ Returned

Spec == Init /\ [][Next]_vars

\* The loop of run never pauses: no turn blocks, every callback returns.
FairSpec == Spec /\ WF_vars(Step)

----------------------------------------------------------------------------
(* Properties. *)

SlotTags == {"Active", "Ended", "WaitRecv", "WaitSend", "Wait2Frame", "WaitFrameLoop",
             "ReceiveFrameSlot", "FrameSlot"}

SlotRec == [tag : SlotTags, chs : Seq(Chan), msg : Nat, arg : 0..7]

SlotTypes == /\ slots \in [Slot -> SlotRec]
             /\ slot_live \in [Slot -> BOOLEAN]
             /\ live_count \in Int
             /\ slot_count \in 1..MaxSlots

FrameTypes == /\ frame_kinds \in [Slot -> 0..7]
              /\ frame_phases \in [Slot -> 0..3]
              /\ frame_channels \in [Slot -> Seq(Nat)]
              /\ frame_recipes \in [Slot -> Nat]
              /\ frame_pending \in [Slot -> Nat]
              /\ recipes \in [1..6 -> Seq(0..7)]

ChanTypes == /\ erased \in [Chan -> Seq(Nat)]
             /\ typed \in [Chan -> Seq(Nat)]
             /\ typed_live \in [Chan -> BOOLEAN]
             /\ cap \in [Chan -> Nat]
             /\ chan_count \in 0..MaxChans

ControlTypes == /\ pc \in {"round", "close", "done"}
                /\ prog \in BOOLEAN
                /\ n \in 1..slot_count /\ i \in 0..n
                /\ polls \in 0..MaxPolls

HistoryTypes == /\ issued \in Seq([from : Slot, ch : Chan])
                /\ taken \in [Chan -> Seq(Nat)]
                /\ seen \subseteq Nat /\ dropped \subseteq Nat

\* Type invariant.
TypeOK == SlotTypes /\ FrameTypes /\ ChanTypes /\ ControlTypes /\ HistoryTypes

\* The three accounts of which tasks are alive agree: the Ended constructor,
\* the slot_live table the dispatch loop reads, and live_count, which decides
\* whether run returns.
LiveTablesAgree ==
  /\ \A s \in Slot : slot_live[s] <=> is_live(slots[s])
  /\ \A s \in Slot : slot_live[s] => s < slot_count
  /\ live_count = Cardinality({s \in Slot : slot_live[s]})

\* What the next dispatch of slot s relies on: a frame slot has its kind in
\* frame_kinds and its callbacks in the tables, a producer that is not being
\* resumed has a message to send.
Dispatchable(s) ==
  /\ slots[s].tag = "FrameSlot" <=> frame_kinds[s] # 0
  /\ frame_kinds[s] # 0 => slots[s].arg = frame_kinds[s] /\ HasRecipe(s)
  /\ frame_kinds[s] = TerminalProduceState => frame_pending[s] # NoMsg
  /\ frame_kinds[s] \in {Produce, ProduceState} /\ frame_phases[s] # 1 =>
        frame_pending[s] # NoMsg

\* run never reaches one of its fail(...) branches ("missing receive
\* activation", "frame reached ordinary dispatch", ...), in a round or in the
\* close pass, although frames are installed, finished, cancelled and released
\* by different code paths over seventeen parallel tables.
NoMissingRecipe ==
  \/ pc = "round" /\ i < n /\ slot_live[i]
  \/ pc = "close" /\ i < n
  => Dispatchable(i)

Contents(c) == IF typed_live[c] THEN typed[c] ELSE erased[c]

Elements(q) == {q[k] : k \in DOMAIN q}

\* The message a parked sender in slot s still holds, or NoMsg.
Outgoing(s) ==
  IF slots[s].tag = "WaitSend" THEN slots[s].msg
  ELSE IF frame_kinds[s] \in {Produce, ProduceState, TerminalProduceState}
       THEN frame_pending[s] ELSE NoMsg

HeldToSend(s) == {Outgoing(s)} \ {NoMsg}

\* The message taken for a receive frame in slot s but not yet handed over, or
\* NoMsg.
Incoming(s) ==
  IF slots[s].tag = "ReceiveFrameSlot" THEN slots[s].msg
  ELSE IF frame_kinds[s] \in {ReceiveLane, ReceiveState, SelectLane}
       THEN frame_pending[s] ELSE NoMsg

HeldToReceive(s) == {Incoming(s)} \ {NoMsg}

\* The messages as the ledger sees them: what carries them is abstracted.
Ledger == INSTANCE MessageLedger WITH
  Tasks     <- Slot,
  Channels  <- Chan,
  contents  <- [c \in Chan |-> Contents(c)],
  sending   <- [s \in Slot |-> Outgoing(s)],
  receiving <- [s \in Slot |-> Incoming(s)]

\* Every operation, frame callback, cancellation and step of the close pass
\* moves at most one task's messages, from one place to the next, in the order
\* of the channel: the executor implements the ledger of messages.
MovesAreAccounted == Ledger!LedgerSpec

\* No message is lost or duplicated: every message a task issued is in exactly
\* one place - still with its sender, in its channel, taken but not yet handed
\* over, handed to a task, or dropped with a cancelled task - whatever mix of
\* typed, erased, parked, framed, cancelled and closed operations moved it.
NothingLostOrDuplicated ==
  \A m \in 1..Len(issued) :
    LET c == issued[m].ch
        places == [sender |-> m \in HeldToSend(issued[m].from),
                   channel |-> m \in Elements(Contents(c)),
                   receiver |-> \E s \in Slot : m \in HeldToReceive(s),
                   program |-> m \in seen,
                   gone |-> m \in dropped]
    IN  /\ Cardinality({p \in DOMAIN places : places[p]}) = 1
        /\ Cardinality({k \in DOMAIN Contents(c) : Contents(c)[k] = m}) <= 1
        /\ Cardinality({k \in DOMAIN taken[c] : taken[c][k] = m}) <= 1

\* Two messages one task sends to one channel are received in the order they
\* were sent, also across the typed-to-erased switch and the close pass.
PerSenderOrder ==
  \A c \in Chan :
    LET history == taken[c] \o Contents(c)
    IN  \A k1, k2 \in DOMAIN history :
          k1 < k2 /\ issued[history[k1]].from = issued[history[k2]].from
            => history[k1] < history[k2]

\* While the typed ring of a channel is active the erased ring is empty and no
\* slot is parked on the channel: parked slots look only at the erased ring.
TypedRingIsExclusive ==
  \A c \in Chan : typed_live[c] =>
    /\ erased[c] = <<>>
    /\ \A s \in Slot : /\ c \notin Elements(slots[s].chs)
                       /\ frame_kinds[s] = ReceiveLane => frame_channels[s] # <<c>>

\* What slot s waits for cannot happen.
Stuck(s) ==
  CASE slots[s].tag \in {"WaitRecv", "WaitFrameLoop", "Wait2Frame", "ReceiveFrameSlot"} ->
         \A c \in Elements(slots[s].chs) : Contents(c) = <<>>
    [] slots[s].tag = "WaitSend" -> ~HasRoom(erased, slots[s].chs[1])
    [] frame_kinds[s] = Join -> slot_live[frame_channels[s][1]]
    [] frame_kinds[s] \in {ReceiveLane, ReceiveState, SelectLane} ->
         \A c \in Elements(frame_channels[s]) : Contents(c) = <<>>
    [] frame_kinds[s] \in {Produce, ProduceState, TerminalProduceState} ->
         ~HasRoom(erased, frame_channels[s][1])
    [] OTHER -> slots[s].tag = "Ended"

\* The close pass runs only at true quiescence: when it reaches a slot nothing
\* that slot waits for can happen, so no receiver is given None while its
\* channel holds a message (not even one released a moment before), no sender
\* is pushed past a capacity with room left, no join of a dead task is cut.
QuiescentClose ==
  pc = "close" => \A s \in i..(n - 1) : Stuck(s)

\* A channel grows past its capacity only in the close pass.
CapacityHolds ==
  [][\A c \in Chan : cap[c] > 0 /\ Len(Contents(c)') > Len(Contents(c)) /\ pc # "close"
       => Len(Contents(c)') <= cap[c]]_vars

\* A task that ended, by itself or cancelled, never runs again.
EndedForGood ==
  [][\A s \in Slot : s < slot_count /\ ~slot_live[s] =>
       ~slot_live'[s] /\ slots'[s] = slots[s]]_vars

\* run returns, with every task ended, for every finite program: whatever
\* tasks wait for one another, the close pass gets them all going again.
RunReturns == <>(pc = "done" /\ \A s \in Slot : slots[s] = Ended)
=============================================================================
