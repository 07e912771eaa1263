------------------------- MODULE TaskLedger_proofs -------------------------
(***************************************************************************)
(* The executor of std/task implements the ledger of messages, for every   *)
(* number of slots and channels, every capacity and every program; and     *)
(* with it: no message is lost or duplicated, the order of each sender is  *)
(* kept, the typed ring is exclusive, the close pass runs only at true     *)
(* quiescence, capacities hold and ended tasks stay ended.                 *)
(***************************************************************************)
EXTENDS TaskExecutor_proofs, WellFoundedInduction

USE BoundsAreNatural, CapsAreNatural

----------------------------------------------------------------------------
(* The invariant: what ties the slots and the frame tables to the rings.    *)

ReceiveKinds == {ReceiveLane, ReceiveState, SelectLane}
ProduceKinds == {Produce, ProduceState, TerminalProduceState}

\* A typed ring is active only on an open channel whose erased ring is empty,
\* and a channel that is not open yet has nothing in either ring.
RingsInv ==
  \A c \in Chan : /\ typed_live[c] => c < chan_count /\ erased[c] = <<>>
                  /\ c >= chan_count => erased[c] = <<>> /\ typed[c] = <<>>

\* Slot s is parked on open channels, materialized unless its frame materializes
\* them at every probe.
Moored(s) ==
  /\ \A c \in Elements(slots[s].chs) : c \in OpenChan /\ ~typed_live[c]
  /\ slots[s].tag \in {"WaitSend", "ReceiveFrameSlot"} => slots[s].chs # <<>>
  /\ frame_kinds[s] \in ReceiveKinds \cup ProduceKinds =>
        frame_channels[s] # <<>> /\ Elements(frame_channels[s]) \subseteq OpenChan
  /\ frame_kinds[s] = ReceiveLane => \A c \in Elements(frame_channels[s]) : ~typed_live[c]

\* Slot s holds a message only where the accounts look for one.
Carried(s) ==
  /\ slots[s].tag \notin {"WaitSend", "ReceiveFrameSlot"} => slots[s].msg = NoMsg
  /\ slots[s].tag = "ReceiveFrameSlot" /\ slots[s].arg # 1 => slots[s].msg = NoMsg
  /\ frame_kinds[s] \in {0, Join} => frame_pending[s] = NoMsg
  /\ frame_kinds[s] \in ReceiveKinds /\ frame_phases[s] # 1 => frame_pending[s] = NoMsg
  /\ frame_kinds[s] \in {Produce, ProduceState} /\ frame_phases[s] = 1 =>
        frame_pending[s] = NoMsg
  /\ slots[s].tag = "Ended" => slots[s] = Ended
  /\ slots[s].tag = "FrameSlot" => slots[s] = FrameSlot(frame_kinds[s])

\* Message m was issued for channel c.
IssuedFor(m, c) == m \in 1..Len(issued) /\ issued[m].ch = c

\* What slot s waits to send goes to the channel it was issued for.
Addressed(s) ==
  /\ slots[s].tag = "WaitSend" => IssuedFor(slots[s].msg, slots[s].chs[1])
  /\ frame_kinds[s] \in ProduceKinds /\ frame_pending[s] # NoMsg =>
        IssuedFor(frame_pending[s], frame_channels[s][1])

SlotInv(s) == Moored(s) /\ Carried(s) /\ Addressed(s)

\* Slot s is parked, what it waits for cannot happen, and its frame, if any, is
\* not about to be activated.
Rests(s) == /\ Stuck(s)
            /\ slots[s].tag = "ReceiveFrameSlot" => slots[s].arg # 1
            /\ frame_kinds[s] \in ReceiveKinds => frame_phases[s] # 1

\* As long as a round makes no progress it leaves every slot it visits at rest;
\* the close pass finds every slot it has still to visit so.
IdleInv ==
  /\ pc = "round" /\ ~prog => n = slot_count /\ \A s \in 0..(i - 1) : Rests(s)
  /\ pc = "close" => \A s \in i..(n - 1) : Rests(s)

\* The ledger with the facts proved about it.
LP == INSTANCE MessageLedger_proofs WITH
  Tasks     <- Slot,
  Channels  <- Chan,
  contents  <- [c \in Chan |-> Contents(c)],
  sending   <- [s \in Slot |-> Outgoing(s)],
  receiving <- [s \in Slot |-> Incoming(s)]

MInv == IInv /\ RingsInv /\ (\A s \in Slot : SlotInv(s)) /\ IdleInv /\ LP!LedgerInv

----------------------------------------------------------------------------
(* What the channel operations do to the contents of the channels. *)

\* The typed rings of C are retired and no other becomes active.
Settles(C) == \A c \in Chan : typed_live'[c] => typed_live[c] /\ c \notin C

ContentsStay == \A c \in Chan : Contents(c)' = Contents(c)

ContentsGain(c, m) ==
  \A d \in Chan : Contents(d)' = IF d = c THEN Append(Contents(c), m) ELSE Contents(d)

ContentsLose(c) ==
  /\ Contents(c) # <<>>
  /\ \A d \in Chan : Contents(d)' = IF d = c THEN Tail(Contents(c)) ELSE Contents(d)
  /\ taken' = [taken EXCEPT ![c] = Append(@, Head(Contents(c)))]

\* The contents of a channel are messages.
LEMMA ContentsType == ASSUME IInv, NEW c \in Chan PROVE Contents(c) \in Seq(Nat)
BY DEF IInv, ChanTypes, Contents

\* Retiring typed rings, and what the erased rings then have to hold.
LEMMA MaterializeEffect ==
  ASSUME IInv, NEW C \in SUBSET Chan, materialize_typed_i64_channel(C)
  PROVE  \A c \in Chan : /\ typed_live'[c] <=> typed_live[c] /\ c \notin C
                         /\ typed'[c] = IF c \in C THEN <<>> ELSE typed[c]
                         /\ Materialized(C)[c] = IF c \in C THEN Contents(c) ELSE erased[c]
BY DEF materialize_typed_i64_channel, Materialized, Contents

\* Leaving the typed rings alone retires none.
LEMMA NothingMaterialized ==
  ASSUME IInv, UNCHANGED <<typed, typed_live>>
  PROVE  materialize_typed_i64_channel({}) /\ Materialized({}) = erased
<1>1. typed \in [Chan -> Seq(Nat)] /\ typed_live \in [Chan -> BOOLEAN] /\ erased \in [Chan -> Seq(Nat)]
  BY DEF IInv, ChanTypes
<1>2. typed = [c \in Chan |-> IF c \in {} THEN <<>> ELSE typed[c]]
  BY <1>1
<1>3. typed_live = [c \in Chan |-> typed_live[c] /\ c \notin {}]
  BY <1>1
<1>4. erased = [c \in Chan |-> IF c \in {} /\ typed_live[c] THEN typed[c] ELSE erased[c]]
  BY <1>1
<1>5. QED
  BY <1>2, <1>3, <1>4 DEF materialize_typed_i64_channel, Materialized

\* Materializing keeps the contents.
LEMMA StillEffect ==
  ASSUME IInv, RingsInv, NEW C \in SUBSET Chan, materialize_typed_i64_channel(C),
         erased' = Materialized(C), chan_count' = chan_count
  PROVE  RingsInv' /\ Settles(C) /\ ContentsStay
<1>1. \A c \in Chan : /\ typed_live'[c] <=> typed_live[c] /\ c \notin C
                      /\ typed'[c] = IF c \in C THEN <<>> ELSE typed[c]
                      /\ erased'[c] = IF c \in C THEN Contents(c) ELSE erased[c]
  BY MaterializeEffect
<1>2. chan_count \in Nat /\ \A c \in Chan : c \in Nat
  BY DEF IInv, ChanTypes, Chan
<1>3. RingsInv'
  BY <1>1, <1>2 DEF RingsInv, Contents
<1>4. ContentsStay
  BY <1>1 DEF ContentsStay, Contents
<1>5. QED
  BY <1>1, <1>3, <1>4 DEF Settles

\* A send appends to the contents.
LEMMA PutEffect ==
  ASSUME IInv, RingsInv, NEW C \in SUBSET Chan, materialize_typed_i64_channel(C),
         NEW c \in OpenChan, c \in C \/ ~typed_live[c], NEW m \in Nat,
         Put(Materialized(C), c, m), chan_count' = chan_count
  PROVE  /\ RingsInv' /\ Settles(C) /\ ContentsGain(c, m)
         /\ Materialized(C)[c] = Contents(c)
<1>0. c \in Chan
  BY OpenChanIsChan, IInvTypes
<1>1. \A d \in Chan : /\ typed_live'[d] <=> typed_live[d] /\ d \notin C
                      /\ typed'[d] = IF d \in C THEN <<>> ELSE typed[d]
                      /\ Materialized(C)[d] = IF d \in C THEN Contents(d) ELSE erased[d]
  BY MaterializeEffect
<1>2. Materialized(C) \in [Chan -> Seq(Nat)]
  BY MaterializedType, IInvTypes
<1>3. \A d \in Chan : erased'[d] = IF d = c THEN Append(Materialized(C)[c], m) ELSE Materialized(C)[d]
  BY <1>0, <1>2 DEF Put
<1>4. Materialized(C)[c] = Contents(c)
  BY <1>0, <1>1 DEF Contents
<1>5. chan_count \in Nat /\ (\A d \in Chan : d \in Nat) /\ c < chan_count
  BY DEF IInv, ChanTypes, Chan, OpenChan
<1>6. RingsInv'
  <2> SUFFICES ASSUME NEW d \in Chan
               PROVE  /\ typed_live'[d] => d < chan_count /\ erased'[d] = <<>>
                      /\ d >= chan_count => erased'[d] = <<>> /\ typed'[d] = <<>>
    BY DEF RingsInv
  <2>1. CASE d = c
    BY <1>0, <1>1, <1>5, <2>1
  <2>2. CASE d # c
    BY <1>1, <1>3, <1>5, <2>2 DEF RingsInv, Contents
  <2>3. QED
    BY <2>1, <2>2
<1>7. ContentsGain(c, m)
  <2> SUFFICES ASSUME NEW d \in Chan
               PROVE  Contents(d)' = IF d = c THEN Append(Contents(c), m) ELSE Contents(d)
    BY DEF ContentsGain
  <2>1. CASE d = c
    BY <1>0, <1>1, <1>3, <1>4, <2>1 DEF Contents
  <2>2. CASE d # c
    BY <1>1, <1>3, <2>2 DEF Contents
  <2>3. QED
    BY <2>1, <2>2
<1>8. QED
  BY <1>1, <1>4, <1>6, <1>7 DEF Settles

\* A receive takes the head of the contents.
LEMMA TakeEffect ==
  ASSUME IInv, RingsInv, NEW C \in SUBSET Chan, materialize_typed_i64_channel(C),
         NEW c \in OpenChan, c \in C \/ ~typed_live[c], Materialized(C)[c] # <<>>,
         Take(Materialized(C), c), chan_count' = chan_count
  PROVE  /\ RingsInv' /\ Settles(C) /\ ContentsLose(c)
         /\ Materialized(C)[c] = Contents(c)
<1>0. c \in Chan
  BY OpenChanIsChan, IInvTypes
<1>1. \A d \in Chan : /\ typed_live'[d] <=> typed_live[d] /\ d \notin C
                      /\ typed'[d] = IF d \in C THEN <<>> ELSE typed[d]
                      /\ Materialized(C)[d] = IF d \in C THEN Contents(d) ELSE erased[d]
  BY MaterializeEffect
<1>2. Materialized(C) \in [Chan -> Seq(Nat)]
  BY MaterializedType, IInvTypes
<1>3. \A d \in Chan : erased'[d] = IF d = c THEN Tail(Materialized(C)[c]) ELSE Materialized(C)[d]
  BY <1>0, <1>2 DEF Take
<1>4. Materialized(C)[c] = Contents(c)
  BY <1>0, <1>1 DEF Contents
<1>5. chan_count \in Nat /\ (\A d \in Chan : d \in Nat) /\ c < chan_count
  BY DEF IInv, ChanTypes, Chan, OpenChan
<1>6. RingsInv'
  <2> SUFFICES ASSUME NEW d \in Chan
               PROVE  /\ typed_live'[d] => d < chan_count /\ erased'[d] = <<>>
                      /\ d >= chan_count => erased'[d] = <<>> /\ typed'[d] = <<>>
    BY DEF RingsInv
  <2>1. CASE d = c
    BY <1>0, <1>1, <1>5, <2>1
  <2>2. CASE d # c
    BY <1>1, <1>3, <1>5, <2>2 DEF RingsInv, Contents
  <2>3. QED
    BY <2>1, <2>2
<1>7. ContentsLose(c)
  <2>1. ASSUME NEW d \in Chan
        PROVE  Contents(d)' = IF d = c THEN Tail(Contents(c)) ELSE Contents(d)
    <3>1. CASE d = c
      BY <1>0, <1>1, <1>3, <1>4, <3>1 DEF Contents
    <3>2. CASE d # c
      BY <1>1, <1>3, <3>2 DEF Contents
    <3>3. QED
      BY <3>1, <3>2
  <2>2. Contents(c) # <<>> /\ taken' = [taken EXCEPT ![c] = Append(@, Head(Contents(c)))]
    BY <1>4 DEF Take
  <2>3. QED
    BY <2>1, <2>2 DEF ContentsLose
<1>8. QED
  BY <1>1, <1>4, <1>6, <1>7 DEF Settles

----------------------------------------------------------------------------
(* Steps as moves in the ledger. *)

LedgerMove == [LP!LedgerNext]_(LP!ledgerVars)

\* Slots other than j, their frames included, are left alone.
OthersStay(j) ==
  \A s \in Slot : s # j => /\ slots'[s] = slots[s]
                           /\ frame_kinds'[s] = frame_kinds[s]
                           /\ frame_phases'[s] = frame_phases[s]
                           /\ frame_channels'[s] = frame_channels[s]
                           /\ frame_pending'[s] = frame_pending[s]

\* The messages slot j holds after the step.
HoldsNext(j, out, in) == Outgoing(j)' = out /\ Incoming(j)' = in

\* A slot that is left alone holds the same messages.
LEMMA OthersHold ==
  ASSUME NEW j \in Slot, OthersStay(j), NEW s \in Slot, s # j
  PROVE  Outgoing(s)' = Outgoing(s) /\ Incoming(s)' = Incoming(s)
BY DEF OthersStay, Outgoing, Incoming

\* The tables of held messages after a step about slot j.
LEMMA HeldTables ==
  ASSUME NEW j \in Slot, OthersStay(j), NEW out, NEW in, HoldsNext(j, out, in)
  PROVE  /\ [s \in Slot |-> Outgoing(s)]' = [[s \in Slot |-> Outgoing(s)] EXCEPT ![j] = out]
         /\ [s \in Slot |-> Incoming(s)]' = [[s \in Slot |-> Incoming(s)] EXCEPT ![j] = in]
BY OthersHold DEF HoldsNext

\* Writing back what slot j holds changes nothing.
LEMMA HeldTablesSame ==
  ASSUME NEW j \in Slot
  PROVE  /\ [[s \in Slot |-> Outgoing(s)] EXCEPT ![j] = Outgoing(j)] = [s \in Slot |-> Outgoing(s)]
         /\ [[s \in Slot |-> Incoming(s)] EXCEPT ![j] = Incoming(j)] = [s \in Slot |-> Incoming(s)]
OBVIOUS

\* No message moves.
LEMMA MoveStill ==
  ASSUME NEW j \in Slot, OthersStay(j), HoldsNext(j, Outgoing(j), Incoming(j)),
         ContentsStay, UNCHANGED histVars
  PROVE  LedgerMove
<1>1. /\ [s \in Slot |-> Outgoing(s)]' = [s \in Slot |-> Outgoing(s)]
      /\ [s \in Slot |-> Incoming(s)]' = [s \in Slot |-> Incoming(s)]
  <2>1. /\ [s \in Slot |-> Outgoing(s)]' = [[s \in Slot |-> Outgoing(s)] EXCEPT ![j] = Outgoing(j)]
        /\ [s \in Slot |-> Incoming(s)]' = [[s \in Slot |-> Incoming(s)] EXCEPT ![j] = Incoming(j)]
    BY HeldTables
  <2>2. QED
    BY <2>1, HeldTablesSame
<1>2. [c \in Chan |-> Contents(c)]' = [c \in Chan |-> Contents(c)]
  BY DEF ContentsStay
<1>3. QED
  BY <1>1, <1>2 DEF LedgerMove, LP!ledgerVars, histVars

\* The table of contents after a send.
LEMMA GainTable ==
  ASSUME NEW c \in Chan, NEW m, ContentsGain(c, m)
  PROVE  [d \in Chan |-> Contents(d)]' = [[d \in Chan |-> Contents(d)] EXCEPT ![c] = Append(@, m)]
BY DEF ContentsGain

\* A new message goes into its channel.
LEMMA MoveSend ==
  ASSUME NEW j \in Slot, OthersStay(j), j = i, NEW c \in Chan, Outgoing(j) = NoMsg,
         HoldsNext(j, Outgoing(j), Incoming(j)), Issue(c), ContentsGain(c, NextMsg),
         UNCHANGED <<taken, seen, dropped>>
  PROVE  LedgerMove
<1>1. /\ [s \in Slot |-> Outgoing(s)]' = [s \in Slot |-> Outgoing(s)]
      /\ [s \in Slot |-> Incoming(s)]' = [s \in Slot |-> Incoming(s)]
  <2>1. /\ [s \in Slot |-> Outgoing(s)]' = [[s \in Slot |-> Outgoing(s)] EXCEPT ![j] = Outgoing(j)]
        /\ [s \in Slot |-> Incoming(s)]' = [[s \in Slot |-> Incoming(s)] EXCEPT ![j] = Incoming(j)]
    BY HeldTables
  <2>2. QED
    BY <2>1, HeldTablesSame
<1>2. [d \in Chan |-> Contents(d)]' = [[d \in Chan |-> Contents(d)] EXCEPT ![c] = Append(@, NextMsg)]
  BY GainTable
<1>3. [s \in Slot |-> Outgoing(s)][j] = 0
  BY DEF NoMsg
<1>4. LP!Send(j, c)
  BY <1>1, <1>2, <1>3 DEF LP!Send, LP!Enqueue, LP!NewMessage, NextMsg, Issue
<1>5. QED
  BY <1>4 DEF LedgerMove, LP!LedgerNext

\* A new message stays with its sender.
LEMMA MoveHold ==
  ASSUME NEW j \in Slot, OthersStay(j), j = i, NEW c \in Chan, Outgoing(j) = NoMsg,
         HoldsNext(j, NextMsg, Incoming(j)), Issue(c), ContentsStay,
         UNCHANGED <<taken, seen, dropped>>
  PROVE  LedgerMove
<1>1. /\ [s \in Slot |-> Outgoing(s)]' = [[s \in Slot |-> Outgoing(s)] EXCEPT ![j] = NextMsg]
      /\ [s \in Slot |-> Incoming(s)]' = [s \in Slot |-> Incoming(s)]
  <2>1. /\ [s \in Slot |-> Outgoing(s)]' = [[s \in Slot |-> Outgoing(s)] EXCEPT ![j] = NextMsg]
        /\ [s \in Slot |-> Incoming(s)]' = [[s \in Slot |-> Incoming(s)] EXCEPT ![j] = Incoming(j)]
    BY HeldTables
  <2>2. QED
    BY <2>1, HeldTablesSame
<1>2. [c2 \in Chan |-> Contents(c2)]' = [c2 \in Chan |-> Contents(c2)]
  BY DEF ContentsStay
<1>3. [s \in Slot |-> Outgoing(s)][j] = 0
  BY DEF NoMsg
<1>4. LP!Hold(j, c)
  BY <1>1, <1>2, <1>3 DEF LP!Hold, LP!NewMessage, NextMsg, Issue
<1>5. QED
  BY <1>4 DEF LedgerMove, LP!LedgerNext

\* A waiting message goes into its channel.
LEMMA MoveRelease ==
  ASSUME NEW j \in Slot, OthersStay(j), NEW c \in Chan, NEW m, m = Outgoing(j), m # NoMsg,
         issued[m].ch = c, HoldsNext(j, NoMsg, Incoming(j)), ContentsGain(c, m),
         UNCHANGED histVars
  PROVE  LedgerMove
<1>1. /\ [s \in Slot |-> Outgoing(s)]' = [[s \in Slot |-> Outgoing(s)] EXCEPT ![j] = 0]
      /\ [s \in Slot |-> Incoming(s)]' = [s \in Slot |-> Incoming(s)]
  <2>1. /\ [s \in Slot |-> Outgoing(s)]' = [[s \in Slot |-> Outgoing(s)] EXCEPT ![j] = 0]
        /\ [s \in Slot |-> Incoming(s)]' = [[s \in Slot |-> Incoming(s)] EXCEPT ![j] = Incoming(j)]
    BY HeldTables DEF NoMsg
  <2>2. QED
    BY <2>1, HeldTablesSame
<1>2. [d \in Chan |-> Contents(d)]' = [[d \in Chan |-> Contents(d)] EXCEPT ![c] = Append(@, m)]
  BY GainTable
<1>3. [s \in Slot |-> Outgoing(s)][j] = m /\ m # 0
  BY DEF NoMsg
<1>4. LP!Release(j)
  BY <1>1, <1>2, <1>3 DEF LP!Release, LP!Enqueue, histVars
<1>5. QED
  BY <1>4 DEF LedgerMove, LP!LedgerNext

\* The table of contents after a receive.
LEMMA LoseTable ==
  ASSUME NEW c \in Chan, ContentsLose(c)
  PROVE  LP!Dequeue(c)
<1>1. [d \in Chan |-> Contents(d)][c] = Contents(c)
  OBVIOUS
<1>2. [d \in Chan |-> Contents(d)]' = [[d \in Chan |-> Contents(d)] EXCEPT ![c] = Tail(@)]
  BY DEF ContentsLose
<1>3. QED
  BY <1>1, <1>2 DEF ContentsLose, LP!Dequeue

\* A message is received and handed to the program.
LEMMA MoveReceive ==
  ASSUME NEW j \in Slot, OthersStay(j), NEW c \in Chan, ContentsLose(c),
         HoldsNext(j, Outgoing(j), Incoming(j)),
         seen' = seen \cup {Head(Contents(c))}, UNCHANGED <<issued, dropped>>
  PROVE  LedgerMove
<1>1. /\ [s \in Slot |-> Outgoing(s)]' = [s \in Slot |-> Outgoing(s)]
      /\ [s \in Slot |-> Incoming(s)]' = [s \in Slot |-> Incoming(s)]
  <2>1. /\ [s \in Slot |-> Outgoing(s)]' = [[s \in Slot |-> Outgoing(s)] EXCEPT ![j] = Outgoing(j)]
        /\ [s \in Slot |-> Incoming(s)]' = [[s \in Slot |-> Incoming(s)] EXCEPT ![j] = Incoming(j)]
    BY HeldTables
  <2>2. QED
    BY <2>1, HeldTablesSame
<1>2. [d \in Chan |-> Contents(d)][c] = Contents(c)
  OBVIOUS
<1>3. LP!Receive(c)
  BY <1>1, <1>2, LoseTable DEF LP!Receive
<1>4. QED
  BY <1>3 DEF LedgerMove, LP!LedgerNext

\* A message is received and kept for a frame.
LEMMA MoveFetch ==
  ASSUME NEW j \in Slot, OthersStay(j), NEW c \in Chan, ContentsLose(c), Incoming(j) = NoMsg,
         HoldsNext(j, Outgoing(j), Head(Contents(c))), UNCHANGED <<issued, seen, dropped>>
  PROVE  LedgerMove
<1>1. /\ [s \in Slot |-> Outgoing(s)]' = [s \in Slot |-> Outgoing(s)]
      /\ [s \in Slot |-> Incoming(s)]' =
            [[s \in Slot |-> Incoming(s)] EXCEPT ![j] = Head(Contents(c))]
  BY HeldTables, HeldTablesSame
<1>2. [d \in Chan |-> Contents(d)][c] = Contents(c) /\ [s \in Slot |-> Incoming(s)][j] = 0
  BY DEF NoMsg
<1>3. LP!Fetch(j, c)
  BY <1>1, <1>2, LoseTable DEF LP!Fetch
<1>4. QED
  BY <1>3 DEF LedgerMove, LP!LedgerNext

\* A frame hands over its message, or None.
LEMMA MoveHandOver ==
  ASSUME NEW j \in Slot, OthersStay(j), ContentsStay, Hand(Incoming(j)),
         HoldsNext(j, Outgoing(j), NoMsg), UNCHANGED <<issued, taken, dropped>>
  PROVE  LedgerMove
<1>1. /\ [s \in Slot |-> Outgoing(s)]' = [s \in Slot |-> Outgoing(s)]
      /\ [s \in Slot |-> Incoming(s)]' = [[s \in Slot |-> Incoming(s)] EXCEPT ![j] = 0]
  BY HeldTables, HeldTablesSame DEF NoMsg
<1>2. [d \in Chan |-> Contents(d)]' = [d \in Chan |-> Contents(d)]
  BY DEF ContentsStay
<1>3. [s \in Slot |-> Incoming(s)][j] = Incoming(j)
  OBVIOUS
<1>4. CASE Incoming(j) = NoMsg
  <2>1. [s \in Slot |-> Incoming(s)]' = [s \in Slot |-> Incoming(s)] /\ seen' = seen
    BY <1>1, <1>4, HeldTablesSame DEF NoMsg, Hand
  <2>2. QED
    BY <1>1, <1>2, <2>1 DEF LedgerMove, LP!ledgerVars
<1>5. CASE Incoming(j) # NoMsg
  <2>1. LP!HandOver(j)
    BY <1>1, <1>2, <1>3, <1>5 DEF LP!HandOver, Hand, NoMsg
  <2>2. QED
    BY <2>1 DEF LedgerMove, LP!LedgerNext
<1>6. QED
  BY <1>4, <1>5

----------------------------------------------------------------------------
(* Slots at rest. *)

ReceiveTags == {"WaitRecv", "WaitFrameLoop", "Wait2Frame", "ReceiveFrameSlot"}

\* When a slot is stuck, by what it waits for.
Waits(s) ==
  /\ slots[s].tag # "Active"
  /\ slots[s].tag \in ReceiveTags => \A c \in Elements(slots[s].chs) : Contents(c) = <<>>
  /\ slots[s].tag = "WaitSend" => ~HasRoom(erased, slots[s].chs[1])
  /\ frame_kinds[s] = Join => slot_live[frame_channels[s][1]]
  /\ frame_kinds[s] \in ReceiveKinds =>
        \A c \in Elements(frame_channels[s]) : Contents(c) = <<>>
  /\ frame_kinds[s] \in ProduceKinds => ~HasRoom(erased, frame_channels[s][1])

\* That is what Stuck says.
LEMMA StuckForm == IInv => \A s \in Slot : Stuck(s) <=> Waits(s)
<1> SUFFICES ASSUME IInv, NEW s \in Slot PROVE Stuck(s) <=> Waits(s)
  OBVIOUS
<1>1. /\ slots[s].tag = "FrameSlot" <=> frame_kinds[s] # 0
      /\ slots[s].tag \in SlotTags /\ frame_kinds[s] \in 0..7
  <2>1. Aligned(s) /\ slots[s] \in SlotRec /\ frame_kinds[s] \in 0..7
    BY DEF IInv, TableInv, SlotTypes, FrameTypes
  <2>2. slots[s].tag \in SlotTags
    BY <2>1 DEF SlotRec
  <2>3. QED
    BY <2>1, <2>2 DEF Aligned, Dispatchable
<1>2. CASE slots[s].tag \in ReceiveTags
  <2>1. frame_kinds[s] = 0
    BY <1>1, <1>2 DEF ReceiveTags
  <2>2. frame_kinds[s] # Join /\ frame_kinds[s] \notin ReceiveKinds /\ frame_kinds[s] \notin ProduceKinds
    BY <2>1 DEF ReceiveKinds, ProduceKinds, Join, ReceiveLane, ReceiveState, SelectLane, Produce,
       ProduceState, TerminalProduceState
  <2>3. QED
    BY <1>2, <2>2 DEF Stuck, Waits, ReceiveTags, ReceiveKinds, ProduceKinds
<1>3. CASE slots[s].tag = "WaitSend"
  <2>1. frame_kinds[s] = 0
    BY <1>1, <1>3 DEF ReceiveTags
  <2>2. frame_kinds[s] # Join /\ frame_kinds[s] \notin ReceiveKinds /\ frame_kinds[s] \notin ProduceKinds
    BY <2>1 DEF ReceiveKinds, ProduceKinds, Join, ReceiveLane, ReceiveState, SelectLane, Produce,
       ProduceState, TerminalProduceState
  <2>3. QED
    BY <1>3, <2>2 DEF Stuck, Waits, ReceiveTags, ReceiveKinds, ProduceKinds
<1>4. CASE slots[s].tag \in {"Active", "Ended"}
  <2>1. frame_kinds[s] = 0
    BY <1>1, <1>4 DEF ReceiveTags
  <2>2. frame_kinds[s] # Join /\ frame_kinds[s] \notin ReceiveKinds /\ frame_kinds[s] \notin ProduceKinds
    BY <2>1 DEF ReceiveKinds, ProduceKinds, Join, ReceiveLane, ReceiveState, SelectLane, Produce,
       ProduceState, TerminalProduceState
  <2>3. QED
    BY <1>4, <2>2 DEF Stuck, Waits, ReceiveTags, ReceiveKinds, ProduceKinds
<1>5. CASE slots[s].tag = "FrameSlot"
  <2>1. CASE frame_kinds[s] = Join
    BY <1>5, <2>1 DEF Stuck, Waits, ReceiveTags, ReceiveKinds, ProduceKinds, Join, ReceiveLane,
       ReceiveState, SelectLane, Produce, ProduceState, TerminalProduceState
  <2>2. CASE frame_kinds[s] \in ReceiveKinds
    BY <1>5, <2>2 DEF Stuck, Waits, ReceiveTags, ReceiveKinds, ProduceKinds, Join, ReceiveLane,
       ReceiveState, SelectLane, Produce, ProduceState, TerminalProduceState
  <2>3. CASE frame_kinds[s] \in ProduceKinds
    BY <1>5, <2>3 DEF Stuck, Waits, ReceiveTags, ReceiveKinds, ProduceKinds, Join, ReceiveLane,
       ReceiveState, SelectLane, Produce, ProduceState, TerminalProduceState
  <2>4. QED
    BY <1>1, <1>5, <2>1, <2>2, <2>3 DEF ReceiveKinds, ProduceKinds, Join, ReceiveLane,
       ReceiveState, SelectLane, Produce, ProduceState, TerminalProduceState
<1>6. QED
  BY <1>1, <1>2, <1>3, <1>4, <1>5 DEF SlotTags, ReceiveTags

\* Likewise after a step.
LEMMA StuckFormNext == IInv' => (\A s \in Slot : Stuck(s) <=> Waits(s))'
BY StuckForm, PTL

\* Slot s and its frame are left alone.
Stays(s) == /\ slots'[s] = slots[s]
            /\ frame_kinds'[s] = frame_kinds[s]
            /\ frame_phases'[s] = frame_phases[s]
            /\ frame_channels'[s] = frame_channels[s]
            /\ frame_pending'[s] = frame_pending[s]

\* Empty channels stay empty and no channel loses messages.
Fuller == \A c \in Chan : /\ Contents(c) = <<>> => Contents(c)' = <<>>
                          /\ Len(Contents(c)') >= Len(Contents(c))

\* A full erased ring is what its channel holds, and stays so.
LEMMA FullRing ==
  ASSUME MInv, IInv', Settles({}), Fuller, UNCHANGED cap, NEW c \in Chan,
         ~HasRoom(erased, c)
  PROVE  ~HasRoom(erased, c)'
<1>1. /\ erased[c] \in Seq(Nat) /\ cap[c] \in Nat /\ typed_live[c] \in BOOLEAN
      /\ Contents(c) \in Seq(Nat) /\ Contents(c)' \in Seq(Nat)
  BY ContentsType DEF MInv, IInv, ChanTypes, Contents
<1>2. cap[c] > 0 /\ Len(erased[c]) >= cap[c]
  BY <1>1 DEF HasRoom
<1>3. erased[c] # <<>>
  BY <1>1, <1>2
<1>4. ~typed_live[c]
  BY <1>3 DEF MInv, RingsInv
<1>5. Contents(c) = erased[c] /\ Contents(c)' = erased'[c]
  BY <1>4 DEF Contents, Settles
<1>6. Len(erased'[c]) >= Len(erased[c])
  BY <1>5 DEF Fuller
<1>7. Len(erased'[c]) \in Nat /\ Len(erased[c]) \in Nat
  BY <1>1, <1>5
<1>8. cap'[c] > 0 /\ ~(Len(erased'[c]) < cap'[c])
  BY <1>1, <1>2, <1>6, <1>7
<1>9. QED
  BY <1>1, <1>8 DEF HasRoom

\* A slot at rest stays at rest while channels only fill up.
LEMMA RestsStays ==
  ASSUME MInv, IInv', NEW s \in Slot, Stays(s), UNCHANGED <<slot_live, cap>>,
         Settles({}), Fuller, Rests(s)
  PROVE  Rests(s)'
<1>1. /\ Stuck(s)
      /\ slots[s].tag = "ReceiveFrameSlot" => slots[s].arg # 1
      /\ frame_kinds[s] \in ReceiveKinds => frame_phases[s] # 1
  BY DEF Rests
<1>2. Waits(s)
  BY <1>1, StuckForm DEF MInv
<1>3. /\ \A c \in Elements(slots[s].chs) : c \in Chan
      /\ slots[s].tag = "WaitSend" => slots[s].chs # <<>>
      /\ frame_kinds[s] \in ReceiveKinds \cup ProduceKinds =>
           frame_channels[s] # <<>> /\ \A c \in Elements(frame_channels[s]) : c \in Chan
  <2>1. SlotInv(s)
    BY DEF MInv
  <2>2. QED
    BY <2>1, OpenChanIsChan, IInvTypes DEF SlotInv, Moored, MInv
<1>4. slots[s].chs \in Seq(Chan) /\ frame_channels[s] \in Seq(Nat)
  BY DEF MInv, IInv, TableInv, SlotTypes, SlotRec, FrameTypes
<1>5. slots[s].tag = "WaitSend" => slots[s].chs[1] \in Chan
  BY <1>3, <1>4
<1>6. frame_kinds[s] \in ProduceKinds => frame_channels[s][1] \in Chan
  BY <1>3, <1>4 DEF Elements
<1>7. /\ slots[s].tag \in ReceiveTags => \A c \in Elements(slots[s].chs) : Contents(c)' = <<>>
      /\ frame_kinds[s] \in ReceiveKinds =>
                 \A c \in Elements(frame_channels[s]) : Contents(c)' = <<>>
  BY <1>2, <1>3 DEF Fuller, Waits
<1>8. PICK a, b : a = slots[s].chs[1] /\ b = frame_channels[s][1]
  OBVIOUS
<1>9. slots[s].tag = "WaitSend" => ~HasRoom(erased, a)'
  BY <1>2, <1>5, <1>8, FullRing DEF Waits
<1>10. frame_kinds[s] \in ProduceKinds => ~HasRoom(erased, b)'
  BY <1>2, <1>6, <1>8, FullRing DEF Waits
<1>11. a = slots'[s].chs[1] /\ b = frame_channels'[s][1]
  BY <1>8 DEF Stays
<1>12. Waits(s)'
  BY <1>2, <1>7, <1>9, <1>10, <1>11 DEF Waits, Stays, HasRoom
<1>13. QED
  BY <1>1, <1>12, StuckFormNext DEF Rests, Stays

----------------------------------------------------------------------------
(* What a step about one slot has to establish. *)

\* A message issued for c stays so: messages are only ever added.
LEMMA IssuedForStays ==
  ASSUME IInv, issued' = issued \/ \E c \in Chan : Issue(c), NEW m, NEW c, IssuedFor(m, c)
  PROVE  IssuedFor(m, c)'
<1>1. issued \in Seq([from : Slot, ch : Chan])
  BY DEF IInv, HistoryTypes
<1>2. CASE issued' = issued
  BY <1>2 DEF IssuedFor
<1>3. ASSUME NEW d \in Chan, Issue(d) PROVE IssuedFor(m, c)'
  <2>1. PICK r : r = [from |-> i, ch |-> d]
    OBVIOUS
  <2>2. issued' = Append(issued, r)
    BY <1>3, <2>1 DEF Issue
  <2>3. Len(issued') = Len(issued) + 1 /\ issued'[m] = issued[m]
    BY <1>1, <2>2 DEF IssuedFor
  <2>4. QED
    BY <1>1, <2>3 DEF IssuedFor
<1>4. QED
  BY <1>2, <1>3

\* A slot that is left alone keeps its part of the invariant.
LEMMA SlotInvElsewhere ==
  ASSUME MInv, NEW s \in Slot, Stays(s), chan_count' >= chan_count, chan_count' \in Nat,
         \A c \in OpenChan : typed_live'[c] => typed_live[c],
         issued' = issued \/ \E c \in Chan : Issue(c)
  PROVE  SlotInv(s)'
<1>1. SlotInv(s) /\ chan_count \in Nat
  BY DEF MInv, IInv, ChanTypes
<1>2. ASSUME NEW c \in OpenChan PROVE c \in OpenChan'
  <2>1. c \in Nat /\ c < chan_count
    BY <1>1 DEF OpenChan
  <2>2. c < chan_count'
    BY <1>1, <2>1
  <2>3. \A k \in Nat : c < k => c \in 0..(k - 1)
    BY <2>1
  <2>4. c \in 0..(chan_count' - 1)
    BY <2>2, <2>3
  <2>5. QED
    BY <2>4, Zenon DEF OpenChan
<1>3. Moored(s)'
  <2>1. \A c \in Elements(slots[s].chs) : c \in OpenChan' /\ ~typed_live'[c]
    BY <1>1, <1>2 DEF SlotInv, Moored
  <2>2. frame_kinds[s] \in ReceiveKinds \cup ProduceKinds =>
          frame_channels[s] # <<>> /\ Elements(frame_channels[s]) \subseteq OpenChan'
    BY <1>1, <1>2 DEF SlotInv, Moored
  <2>3. frame_kinds[s] = ReceiveLane => \A c \in Elements(frame_channels[s]) : ~typed_live'[c]
    BY <1>1, <1>2 DEF SlotInv, Moored, ReceiveKinds
  <2>4. QED
    BY <1>1, <2>1, <2>2, <2>3 DEF SlotInv, Moored, Stays
<1>4. Carried(s)'
  BY <1>1 DEF SlotInv, Carried, Stays
<1>5. Addressed(s)'
  <2>1. PICK a, b, x, y : /\ a = slots[s].msg /\ b = slots[s].chs[1]
                          /\ x = frame_pending[s] /\ y = frame_channels[s][1]
    OBVIOUS
  <2>2. slots[s].tag = "WaitSend" => IssuedFor(a, b)'
    BY <1>1, <2>1, IssuedForStays DEF SlotInv, Addressed, MInv
  <2>3. frame_kinds[s] \in ProduceKinds /\ frame_pending[s] # NoMsg => IssuedFor(x, y)'
    BY <1>1, <2>1, IssuedForStays DEF SlotInv, Addressed, MInv
  <2>4. QED
    BY <2>1, <2>2, <2>3 DEF Addressed, Stays, IssuedFor
<1>6. QED
  BY <1>3, <1>4, <1>5 DEF SlotInv

CapacityStep ==
  \A c \in Chan : cap[c] > 0 /\ Len(Contents(c)') > Len(Contents(c)) /\ pc # "close"
    => Len(Contents(c)') <= cap[c]

EndedStep ==
  \A s \in Slot : s < slot_count /\ ~slot_live[s] =>
    ~slot_live'[s] /\ slots'[s] = slots[s]

\* All that is shown of a step.
Outcome == MInv' /\ LedgerMove /\ CapacityStep /\ EndedStep

\* The step is about slot j, which is live or does not change, and j is left in
\* order.
Touches(j) ==
  /\ OthersStay(j) /\ UNCHANGED <<liveVars, cap, chan_count>>
  /\ is_live(slots[j]) \/ slots'[j] = slots[j]
  /\ SlotInv(j)' /\ RingsInv' /\ Settles({})
  /\ issued' = issued \/ \E c \in Chan : Issue(c)
  /\ LedgerMove

\* What follows from that whatever the step does to the control state.
LEMMA TouchKeeps ==
  ASSUME MInv, IInv', NEW j \in Slot, Touches(j)
  PROVE  /\ RingsInv' /\ \A s \in Slot : SlotInv(s)'
         /\ EndedStep
         /\ \A s \in Slot : s # j => Stays(s)
<1>1. \A s \in Slot : s # j => Stays(s)
  BY DEF Touches, OthersStay, Stays
<1>2. chan_count' = chan_count /\ chan_count \in Nat /\ slot_live' = slot_live
  BY DEF Touches, liveVars, MInv, IInv, ChanTypes
<1>3. \A c \in OpenChan : typed_live'[c] => typed_live[c]
  BY OpenChanIsChan, IInvTypes DEF Touches, Settles, MInv
<1>4. issued' = issued \/ \E c \in Chan : Issue(c)
  BY DEF Touches
<1>5. ASSUME NEW s \in Slot, s # j PROVE SlotInv(s)'
  BY <1>1, <1>2, <1>3, <1>4, <1>5, SlotInvElsewhere
<1>6. \A s \in Slot : SlotInv(s)'
  BY <1>5 DEF Touches
<1>7. \A s \in Slot : slot_live[s] <=> is_live(slots[s])
  BY DEF MInv, IInv, TableInv, LiveTablesAgree
<1>8. EndedStep
  BY <1>1, <1>2, <1>7 DEF EndedStep, Touches, Stays
<1>9. QED
  BY <1>1, <1>6, <1>8 DEF Touches

\* A move in the ledger keeps the ledger's invariant.
LEMMA LedgerInvNext == ASSUME LP!LedgerInv, LedgerMove PROVE LP!LedgerInv'
BY LP!LedgerSteps DEF LedgerMove

\* A turn with progress.
LEMMA BusyTurn ==
  ASSUME MInv, IInv', NEW j \in Slot, Touches(j), Turn, pc' = pc, prog' = TRUE, CapacityStep
  PROVE  Outcome
<1>1. IdleInv'
  BY DEF IdleInv, Turn
<1>2. QED
  BY LedgerInvNext, <1>1, TouchKeeps DEF MInv, Outcome, Touches

\* A turn without progress moves no message and leaves its slot at rest.
LEMMA IdleTurn ==
  ASSUME MInv, IInv', NEW j \in Slot, j = i, Touches(j), Turn, EndTurn(FALSE), ContentsStay,
         Rests(j)'
  PROVE  Outcome
<1>1. /\ RingsInv' /\ (\A s \in Slot : SlotInv(s)') /\ EndedStep
      /\ \A s \in Slot : s # j => Stays(s)
  BY TouchKeeps
<1>2. Fuller
  BY ContentsType DEF ContentsStay, Fuller, MInv
<1>3. CapacityStep
  BY ContentsType DEF ContentsStay, CapacityStep, MInv
<1>4. /\ slot_live' = slot_live /\ cap' = cap /\ slot_count' = slot_count /\ Settles({})
      /\ pc' = pc /\ pc = "round" /\ n' = n /\ i' = i + 1 /\ (prog' <=> prog)
  BY DEF Touches, liveVars, EndTurn, Turn, MInv, IInv, ControlTypes
<1>5. i \in Nat /\ \A s \in 0..i : s \in Slot
  BY DEF MInv, IInv, ControlTypes, TableInv, SlotTypes, Slot, Turn
<1>6. ASSUME ~prog' PROVE n' = slot_count' /\ \A s \in 0..(i' - 1) : Rests(s)'
  <2>1. n = slot_count /\ \A s \in 0..(i - 1) : Rests(s)
    BY <1>4, <1>6 DEF MInv, IdleInv
  <2>2. ASSUME NEW s \in 0..(i - 1) PROVE Rests(s)'
    <3>1. s \in Slot /\ s # j
      BY <1>5
    <3>2. QED
      BY <1>1, <1>2, <1>4, <2>1, <3>1, RestsStays
  <2>3. QED
    BY <1>4, <1>5, <2>1, <2>2
<1>7. IdleInv'
  BY <1>4, <1>6 DEF IdleInv
<1>8. QED
  BY LedgerInvNext, <1>1, <1>3, <1>7 DEF MInv, Outcome, Touches

\* A step of the close pass.
LEMMA ClosingStep ==
  ASSUME MInv, IInv', NEW j \in Slot, j = i, Touches(j), Closing, CloseOnward, Fuller
  PROVE  Outcome
<1>1. /\ RingsInv' /\ (\A s \in Slot : SlotInv(s)') /\ EndedStep
      /\ \A s \in Slot : s # j => Stays(s)
  BY TouchKeeps
<1>2. CapacityStep
  BY DEF CapacityStep, Closing
<1>3. /\ slot_live' = slot_live /\ cap' = cap /\ slot_count' = slot_count /\ Settles({})
      /\ pc' = pc /\ pc = "close" /\ n' = n /\ i' = i + 1
  BY DEF Touches, liveVars, CloseOnward, Closing
<1>4. i \in Nat /\ n \in Nat /\ \A s \in i..(n - 1) : s \in Slot
  BY DEF MInv, IInv, ControlTypes, TableInv, SlotTypes, Slot
<1>5. ASSUME NEW s \in i'..(n' - 1) PROVE Rests(s)'
  <2>1. s \in i..(n - 1) /\ s # j /\ s \in Slot
    BY <1>3, <1>4
  <2>2. Rests(s)
    BY <1>3, <2>1 DEF MInv, IdleInv
  <2>3. QED
    BY <1>1, <1>3, <2>1, <2>2, RestsStays
<1>6. IdleInv'
  BY <1>3, <1>5 DEF IdleInv
<1>7. QED
  BY LedgerInvNext, <1>1, <1>2, <1>6 DEF MInv, Outcome, Touches

\* Nothing grows.
LEMMA CapacityStays == ASSUME IInv, ContentsStay PROVE CapacityStep
BY ContentsType DEF ContentsStay, CapacityStep

\* A receive makes nothing grow.
LEMMA CapacityLose ==
  ASSUME IInv, NEW c \in Chan, ContentsLose(c) PROVE CapacityStep
<1> SUFFICES ASSUME NEW d \in Chan PROVE ~(Len(Contents(d)') > Len(Contents(d)))
  BY DEF CapacityStep
<1>1. Contents(d) \in Seq(Nat) /\ Contents(c) \in Seq(Nat) /\ Contents(c) # <<>>
  BY ContentsType DEF ContentsLose
<1>2. Contents(d)' = IF d = c THEN Tail(Contents(c)) ELSE Contents(d)
  BY DEF ContentsLose
<1>3. CASE d = c
  BY <1>1, <1>2, <1>3
<1>4. CASE d # c
  BY <1>1, <1>2, <1>4
<1>5. QED
  BY <1>3, <1>4

\* A send that finds room stays within the capacity.
LEMMA CapacityGain ==
  ASSUME IInv, NEW c \in Chan, NEW m \in Nat, ContentsGain(c, m),
         cap[c] = 0 \/ Len(Contents(c)) < cap[c]
  PROVE  CapacityStep
<1> SUFFICES ASSUME NEW d \in Chan, cap[d] > 0, Len(Contents(d)') > Len(Contents(d))
             PROVE  Len(Contents(d)') <= cap[d]
  BY DEF CapacityStep
<1>1. Contents(d) \in Seq(Nat) /\ cap[d] \in Nat
  BY ContentsType DEF IInv, ChanTypes
<1>2. d = c
  BY <1>1 DEF ContentsGain
<1>3. Contents(d)' = Append(Contents(d), m)
  BY <1>2 DEF ContentsGain
<1>4. QED
  BY <1>1, <1>2, <1>3

----------------------------------------------------------------------------
(* The states a slot may be left in. *)

\* The fields of the slot constructors.
LEMMA SlotFields ==
  ASSUME NEW tag, NEW chs, NEW m, NEW a
  PROVE  /\ SlotRecord(tag, chs, m, a).tag = tag /\ SlotRecord(tag, chs, m, a).chs = chs
         /\ SlotRecord(tag, chs, m, a).msg = m /\ SlotRecord(tag, chs, m, a).arg = a
BY DEF SlotRecord

\* What short sequences hold.
LEMMA ElementsOf ==
  /\ Elements(<<>>) = {}
  /\ \A c : Elements(<<c>>) = {c} /\ <<c>> # <<>> /\ <<c>>[1] = c
BY DEF Elements

\* What the kinds stand for.
LEMMA KindFacts ==
  /\ 0 \notin ReceiveKinds /\ 0 \notin ProduceKinds /\ ReceiveLane # 0
  /\ Join \notin ReceiveKinds /\ Join \notin ProduceKinds /\ Join # 0 /\ Join # ReceiveLane
  /\ ReceiveKinds \cap ProduceKinds = {} /\ ReceiveLane \in ReceiveKinds
  /\ ReceiveLane \notin ProduceKinds /\ {Produce, ProduceState} \subseteq ProduceKinds
  /\ TerminalProduceState \in ProduceKinds /\ TerminalProduceState \notin {Produce, ProduceState}
  /\ ReceiveKinds \cap {Produce, ProduceState} = {}
  /\ ReceiveState \in ReceiveKinds /\ SelectLane \in ReceiveKinds
  /\ ReceiveLane # ReceiveState /\ ReceiveLane # SelectLane
BY DEF ReceiveKinds, ProduceKinds, Join, ReceiveLane, ReceiveState, SelectLane, Produce,
       ProduceState, TerminalProduceState

\* Slot j is a plain slot v after the step.
Plainly(j, v) == slots'[j] = v /\ frame_kinds'[j] = 0 /\ frame_pending'[j] = NoMsg

\* Slot j runs.
LEMMA LeftActive ==
  ASSUME NEW j \in Slot, Plainly(j, Active)
  PROVE  SlotInv(j)' /\ HoldsNext(j, NoMsg, NoMsg)
<1>1. /\ Active.tag = "Active" /\ Active.chs = <<>> /\ Active.msg = NoMsg
  BY SlotFields DEF Active
<1>2. Moored(j)'
  BY <1>1, ElementsOf, KindFacts DEF Moored, Plainly
<1>3. Carried(j)' /\ Addressed(j)'
  BY <1>1, KindFacts DEF Carried, Addressed, Plainly
<1>4. HoldsNext(j, NoMsg, NoMsg)
  BY <1>1, KindFacts DEF HoldsNext, Outgoing, Incoming, Plainly, ProduceKinds, ReceiveKinds
<1>5. QED
  BY <1>2, <1>3, <1>4 DEF SlotInv

\* Slot j has ended.
LEMMA LeftEnded ==
  ASSUME NEW j \in Slot, Plainly(j, Ended)
  PROVE  SlotInv(j)' /\ HoldsNext(j, NoMsg, NoMsg)
<1>1. /\ Ended.tag = "Ended" /\ Ended.chs = <<>> /\ Ended.msg = NoMsg
  BY SlotFields DEF Ended
<1>2. Moored(j)'
  BY <1>1, ElementsOf, KindFacts DEF Moored, Plainly
<1>3. Carried(j)' /\ Addressed(j)'
  BY <1>1, KindFacts DEF Carried, Addressed, Plainly
<1>4. HoldsNext(j, NoMsg, NoMsg)
  BY <1>1, KindFacts DEF HoldsNext, Outgoing, Incoming, Plainly, ProduceKinds, ReceiveKinds
<1>5. QED
  BY <1>2, <1>3, <1>4 DEF SlotInv

\* Slot j waits for a message.
LEMMA LeftReceiver ==
  ASSUME IInv', NEW j \in Slot, NEW chs, NEW v,
         v \in {WaitRecv(chs), WaitFrameLoop(chs), Wait2Frame(chs)}, Plainly(j, v),
         \A c \in Elements(chs) : c \in OpenChan' /\ ~typed_live'[c]
  PROVE  /\ SlotInv(j)' /\ HoldsNext(j, NoMsg, NoMsg)
         /\ (\A c \in Elements(chs) : Contents(c)' = <<>>) => Rests(j)'
<1>1. /\ v.tag \in {"WaitRecv", "WaitFrameLoop", "Wait2Frame"} /\ v.chs = chs /\ v.msg = NoMsg
  BY SlotFields DEF WaitRecv, WaitFrameLoop, Wait2Frame
<1>2. Moored(j)'
  BY <1>1, KindFacts DEF Moored, Plainly
<1>3. Carried(j)' /\ Addressed(j)'
  BY <1>1, KindFacts DEF Carried, Addressed, Plainly
<1>4. HoldsNext(j, NoMsg, NoMsg)
  BY <1>1, KindFacts DEF HoldsNext, Outgoing, Incoming, Plainly, ProduceKinds, ReceiveKinds
<1>5. (\A c \in Elements(chs) : Contents(c)' = <<>>) => Waits(j)'
  BY <1>1, KindFacts DEF Waits, Plainly
<1>6. (\A c \in Elements(chs) : Contents(c)' = <<>>) => Rests(j)'
  BY <1>1, <1>5, StuckFormNext, KindFacts DEF Rests, Plainly
<1>7. QED
  BY <1>2, <1>3, <1>4, <1>6 DEF SlotInv

\* Slot j waits for room.
LEMMA LeftSender ==
  ASSUME IInv', NEW j \in Slot, NEW c, NEW m, Plainly(j, WaitSend(c, m)),
         c \in OpenChan', ~typed_live'[c], IssuedFor(m, c)'
  PROVE  /\ SlotInv(j)' /\ HoldsNext(j, m, NoMsg)
         /\ ~HasRoom(erased, c)' => Rests(j)'
<1>1. /\ WaitSend(c, m).tag = "WaitSend" /\ WaitSend(c, m).chs = <<c>> /\ WaitSend(c, m).msg = m
  BY SlotFields DEF WaitSend
<1>2. Moored(j)'
  BY <1>1, ElementsOf, KindFacts DEF Moored, Plainly
<1>3. Carried(j)'
  BY <1>1, KindFacts DEF Carried, Plainly
<1>4. Addressed(j)'
  BY <1>1, KindFacts, ElementsOf DEF Addressed, Plainly, IssuedFor
<1>5. HoldsNext(j, m, NoMsg)
  BY <1>1, KindFacts DEF HoldsNext, Outgoing, Incoming, Plainly, ProduceKinds, ReceiveKinds
<1>6. ~HasRoom(erased, c)' => Waits(j)'
  BY <1>1, KindFacts, ElementsOf DEF Waits, Plainly, ReceiveTags, HasRoom
<1>7. ~HasRoom(erased, c)' => Rests(j)'
  BY <1>1, <1>6, StuckFormNext, KindFacts DEF Rests, Plainly
<1>8. QED
  BY <1>2, <1>3, <1>4, <1>5, <1>7 DEF SlotInv

\* Slot j keeps a receive in the slot itself.
LEMMA LeftReceiveFrameSlot ==
  ASSUME IInv', NEW j \in Slot, NEW c, NEW m, NEW p, Plainly(j, ReceiveFrameSlot(c, m, p)),
         c \in OpenChan', ~typed_live'[c], p # 1 => m = NoMsg
  PROVE  /\ SlotInv(j)' /\ HoldsNext(j, NoMsg, m)
         /\ p # 1 /\ Contents(c)' = <<>> => Rests(j)'
<1>1. /\ ReceiveFrameSlot(c, m, p).tag = "ReceiveFrameSlot" /\ ReceiveFrameSlot(c, m, p).chs = <<c>>
      /\ ReceiveFrameSlot(c, m, p).msg = m /\ ReceiveFrameSlot(c, m, p).arg = p
  BY SlotFields DEF ReceiveFrameSlot
<1>2. Moored(j)'
  BY <1>1, ElementsOf, KindFacts DEF Moored, Plainly
<1>3. Carried(j)' /\ Addressed(j)'
  BY <1>1, KindFacts DEF Carried, Addressed, Plainly
<1>4. HoldsNext(j, NoMsg, m)
  BY <1>1, KindFacts DEF HoldsNext, Outgoing, Incoming, Plainly, ProduceKinds, ReceiveKinds
<1>5. Contents(c)' = <<>> => Waits(j)'
  BY <1>1, KindFacts, ElementsOf DEF Waits, Plainly
<1>6. p # 1 /\ Contents(c)' = <<>> => Rests(j)'
  BY <1>1, <1>5, StuckFormNext, KindFacts DEF Rests, Plainly
<1>7. QED
  BY <1>2, <1>3, <1>4, <1>6 DEF SlotInv

\* Slot j executes a frame after the step.
Framed(j, kind, phase, chs, m) ==
  /\ slots'[j] = FrameSlot(kind) /\ frame_kinds'[j] = kind /\ frame_phases'[j] = phase
  /\ frame_channels'[j] = chs /\ frame_pending'[j] = m

\* The fields of a frame slot.
LEMMA FrameSlotIs ==
  ASSUME NEW kind
  PROVE  /\ FrameSlot(kind).tag = "FrameSlot" /\ FrameSlot(kind).chs = <<>>
         /\ FrameSlot(kind).msg = NoMsg
BY SlotFields DEF FrameSlot

\* Slot j executes a receive frame.
LEMMA LeftReceiveFrame ==
  ASSUME IInv', NEW j \in Slot, NEW kind \in ReceiveKinds, NEW phase, NEW chs, NEW m,
         Framed(j, kind, phase, chs, m), chs # <<>>, \A c \in Elements(chs) : c \in OpenChan',
         kind = ReceiveLane => \A c \in Elements(chs) : ~typed_live'[c],
         phase # 1 => m = NoMsg
  PROVE  /\ SlotInv(j)' /\ HoldsNext(j, NoMsg, m)
         /\ phase # 1 /\ (\A c \in Elements(chs) : Contents(c)' = <<>>) => Rests(j)'
<1>1. Moored(j)'
  BY ElementsOf, FrameSlotIs DEF Moored, Framed
<1>2. Carried(j)'
  BY FrameSlotIs, KindFacts DEF Carried, Framed
<1>3. Addressed(j)'
  BY FrameSlotIs, KindFacts DEF Addressed, Framed
<1>4. HoldsNext(j, NoMsg, m)
  BY FrameSlotIs, KindFacts DEF HoldsNext, Outgoing, Incoming, Framed, ProduceKinds, ReceiveKinds
<1>5. (\A c \in Elements(chs) : Contents(c)' = <<>>) => Waits(j)'
  BY FrameSlotIs, KindFacts DEF Waits, Framed, ReceiveTags
<1>6. phase # 1 /\ (\A c \in Elements(chs) : Contents(c)' = <<>>) => Rests(j)'
  BY <1>5, FrameSlotIs, StuckFormNext DEF Rests, Framed
<1>7. QED
  BY <1>1, <1>2, <1>3, <1>4, <1>6 DEF SlotInv

\* Slot j executes a producer frame.
LEMMA LeftProducer ==
  ASSUME IInv', NEW j \in Slot, NEW kind \in ProduceKinds, NEW phase, NEW c, NEW chs, NEW m,
         Framed(j, kind, phase, chs, m), chs # <<>>, c = chs[1],
         \A d \in Elements(chs) : d \in OpenChan',
         m # NoMsg => IssuedFor(m, c)',
         kind # TerminalProduceState /\ phase = 1 => m = NoMsg
  PROVE  /\ SlotInv(j)' /\ HoldsNext(j, m, NoMsg)
         /\ ~HasRoom(erased, c)' => Rests(j)'
<1>1. Moored(j)'
  BY ElementsOf, FrameSlotIs, KindFacts DEF Moored, Framed
<1>2. Carried(j)'
  BY FrameSlotIs, KindFacts DEF Carried, Framed
<1>3. Addressed(j)'
  BY FrameSlotIs, KindFacts DEF Addressed, Framed, IssuedFor
<1>4. HoldsNext(j, m, NoMsg)
  BY FrameSlotIs, KindFacts DEF HoldsNext, Outgoing, Incoming, Framed, ProduceKinds, ReceiveKinds
<1>5. ~HasRoom(erased, c)' => Waits(j)'
  BY FrameSlotIs, KindFacts DEF Waits, Framed, ReceiveTags, HasRoom
<1>6. ~HasRoom(erased, c)' => Rests(j)'
  BY <1>5, FrameSlotIs, StuckFormNext, KindFacts DEF Rests, Framed
<1>7. QED
  BY <1>1, <1>2, <1>3, <1>4, <1>6 DEF SlotInv

\* Slot j waits for another task to end.
LEMMA LeftJoin ==
  ASSUME IInv', NEW j \in Slot, NEW phase, NEW chs, Framed(j, Join, phase, chs, NoMsg)
  PROVE  /\ SlotInv(j)' /\ HoldsNext(j, NoMsg, NoMsg)
         /\ slot_live'[chs[1]] => Rests(j)'
<1>1. Moored(j)'
  BY ElementsOf, FrameSlotIs, KindFacts DEF Moored, Framed
<1>2. Carried(j)'
  BY FrameSlotIs, KindFacts DEF Carried, Framed
<1>3. Addressed(j)'
  BY FrameSlotIs, KindFacts DEF Addressed, Framed
<1>4. HoldsNext(j, NoMsg, NoMsg)
  BY FrameSlotIs, KindFacts DEF HoldsNext, Outgoing, Incoming, Framed, ProduceKinds, ReceiveKinds
<1>5. slot_live'[chs[1]] => Waits(j)'
  BY FrameSlotIs, KindFacts DEF Waits, Framed, ReceiveTags
<1>6. slot_live'[chs[1]] => Rests(j)'
  BY <1>5, FrameSlotIs, StuckFormNext, KindFacts DEF Rests, Framed
<1>7. QED
  BY <1>1, <1>2, <1>3, <1>4, <1>6 DEF SlotInv

----------------------------------------------------------------------------
(* Steps of slots without a frame. *)

\* Retiring more typed rings retires these.
LEMMA SettlesNone == ASSUME NEW C, Settles(C) PROVE Settles({})
BY DEF Settles

\* The head of a channel is a message.
LEMMA HeadIsMessage ==
  ASSUME MInv, NEW c \in Chan, Contents(c) # <<>>
  PROVE  Head(Contents(c)) \in Nat /\ Head(Contents(c)) # NoMsg
<1>1. Contents(c) \in Seq(Nat) /\ [d \in Chan |-> Contents(d)][c] = Contents(c)
  BY ContentsType DEF MInv
<1>2. \A m \in LP!Queued([d \in Chan |-> Contents(d)][c]) : m \in LP!Issued
  BY LP!ContentsFacts DEF MInv
<1>3. Head(Contents(c)) \in LP!Queued([d \in Chan |-> Contents(d)][c])
  BY <1>1 DEF LP!Queued
<1>4. QED
  BY <1>1, <1>2, <1>3 DEF LP!Issued, NoMsg

\* Handing over a message that exists.
LEMMA HandHead ==
  ASSUME MInv, NEW c \in Chan, Contents(c) # <<>>, Hand(Head(Contents(c)))
  PROVE  seen' = seen \cup {Head(Contents(c))}
BY HeadIsMessage DEF Hand

\* A plain slot at its turn, or when the close pass reaches it.
PlainNow(j) ==
  /\ j \in Slot /\ j = i /\ frame_kinds[j] = 0 /\ is_live(slots[j])
  /\ frame_pending[j] = NoMsg /\ SlotInv(j) /\ slots[j].chs \in Seq(Chan)

\* What a plain slot may rely on at its turn.
LEMMA PlainTurnFacts ==
  ASSUME MInv, NEW tag, tag # "Ended", SlotTurn(tag), NEW j, j = i
  PROVE  PlainNow(j) /\ Turn /\ slots[j].tag = tag
<1>1. /\ Turn /\ i \in Slot /\ frame_kinds[i] = 0 /\ is_live(slots[i])
      /\ slots[i].tag = tag /\ slots[i].chs \in Seq(Chan)
  BY SlotTurnFacts DEF MInv
<1>2. SlotInv(j)
  BY <1>1 DEF MInv
<1>3. QED
  BY <1>1, <1>2 DEF PlainNow, SlotInv, Carried

\* What a plain slot holds.
LEMMA PlainHolds ==
  ASSUME NEW j, PlainNow(j)
  PROVE  /\ Outgoing(j) = IF slots[j].tag = "WaitSend" THEN slots[j].msg ELSE NoMsg
         /\ Incoming(j) = IF slots[j].tag = "ReceiveFrameSlot" THEN slots[j].msg ELSE NoMsg
BY KindFacts DEF PlainNow, Outgoing, Incoming, ReceiveKinds, ProduceKinds

\* A plain slot is replaced by another.
LEMMA PlainReplaced ==
  ASSUME MInv, NEW j, PlainNow(j), NEW v, SetSlot(v), UNCHANGED frameVars
  PROVE  OthersStay(j) /\ Plainly(j, v)
BY DEF MInv, IInv, TableInv, SlotTypes, PlainNow, SetSlot, frameVars, tableVars, OthersStay, Plainly

\* A plain slot is left as it is.
LEMMA PlainStays ==
  ASSUME MInv, NEW j, PlainNow(j), UNCHANGED <<slots, frameVars>>
  PROVE  /\ OthersStay(j) /\ Stays(j) /\ Plainly(j, slots[j])
         /\ HoldsNext(j, Outgoing(j), Incoming(j))
BY DEF PlainNow, frameVars, tableVars, OthersStay, Stays, Plainly, HoldsNext, Outgoing, Incoming


\* An arm that first_message chooses.
LEMMA FirstArm ==
  ASSUME NEW e, NEW chs, NEW c \in first_message(e, chs)
  PROVE  c \in Elements(chs) /\ e[c] # <<>>
BY DEF first_message, Elements

\* Every non-empty set of numbers has a least one.
LEMMA LeastNumber ==
  ASSUME NEW S \in SUBSET Nat, S # {}
  PROVE  \E x \in S : \A y \in S : x <= y
<1>1. PICK x \in S : \A y \in S : ~(<<y, x>> \in OpToRel(<, Nat))
  BY WFMin, NatLessThanWellFounded
<1>2. \A y \in S : ~(y < x)
  BY <1>1 DEF OpToRel
<1>3. QED
  BY <1>2

\* When no arm has a message.
LEMMA NoArm ==
  ASSUME NEW e, NEW chs \in Seq(Chan), first_message(e, chs) = {}
  PROVE  \A c \in Elements(chs) : e[c] = <<>>
<1> SUFFICES ASSUME NEW k \in DOMAIN chs, e[chs[k]] # <<>> PROVE FALSE
  BY DEF Elements
<1> DEFINE S == {x \in DOMAIN chs : e[chs[x]] # <<>>}
<1>1. PICK x \in S : \A y \in S : x <= y
  <2>1. S \subseteq Nat /\ S # {}
    OBVIOUS
  <2>2. QED
    BY <2>1, LeastNumber
<1>2. x \in DOMAIN chs /\ DOMAIN chs = 1..Len(chs) /\ Len(chs) \in Nat
  OBVIOUS
<1>3. \A y \in 1..(x - 1) : e[chs[y]] = <<>>
  <2> SUFFICES ASSUME NEW y \in 1..(x - 1), e[chs[y]] # <<>> PROVE FALSE
    OBVIOUS
  <2>1. y \in DOMAIN chs
    BY <1>2
  <2>2. y \in S
    BY <2>1
  <2>3. QED
    BY <1>1, <1>2, <2>2
<1>4. chs[x] \in first_message(e, chs)
  BY <1>1, <1>2, <1>3 DEF first_message
<1>5. QED
  BY <1>4

\* A step that changes nothing but the control state.
LEMMA NothingTouched ==
  ASSUME MInv, IInv', NEW j \in Slot, UNCHANGED <<slots, liveVars, frameVars, chanVars, histVars>>
  PROVE  Touches(j) /\ ContentsStay /\ Fuller /\ Stays(j)
<1>1. /\ UNCHANGED <<slots, liveVars, cap, chan_count, erased, typed, typed_live, issued>>
      /\ UNCHANGED <<frame_kinds, frame_phases, frame_channels, frame_pending>>
  BY DEF frameVars, tableVars, chanVars, histVars
<1>2. OthersStay(j) /\ Stays(j) /\ HoldsNext(j, Outgoing(j), Incoming(j))
  BY <1>1 DEF OthersStay, Stays, HoldsNext, Outgoing, Incoming
<1>3. RingsInv' /\ Settles({}) /\ ContentsStay
  BY <1>1 DEF MInv, RingsInv, Settles, ContentsStay, Contents
<1>4. LedgerMove
  BY <1>2, <1>3, MoveStill
<1>5. SlotInv(j)'
  <2>1. chan_count' >= chan_count /\ chan_count' \in Nat
    BY <1>1 DEF MInv, IInv, ChanTypes
  <2>2. QED
    BY <1>1, <1>2, <2>1, SlotInvElsewhere
<1>6. Fuller
  BY <1>3, ContentsType DEF ContentsStay, Fuller, MInv
<1>7. QED
  BY <1>1, <1>2, <1>3, <1>4, <1>5, <1>6 DEF Touches

\* A slot that is at rest and stays so.
LEMMA StillTurn ==
  ASSUME MInv, IInv', NEW j \in Slot, j = i, Turn, Waits(j),
         slots[j].tag = "ReceiveFrameSlot" => slots[j].arg # 1,
         frame_kinds[j] \in ReceiveKinds => frame_phases[j] # 1,
         UNCHANGED <<slots, liveVars, frameVars, chanVars, histVars>>, EndTurn(FALSE)
  PROVE  Outcome
<1>1. Touches(j) /\ ContentsStay /\ Fuller /\ Stays(j)
  BY NothingTouched
<1>2. Rests(j)
  BY StuckForm DEF Rests, MInv
<1>3. UNCHANGED <<slot_live, cap>> /\ Settles({})
  BY <1>1 DEF Touches, liveVars
<1>4. Rests(j)'
  BY <1>1, <1>2, <1>3, RestsStays
<1>5. QED
  BY <1>1, <1>4, IdleTurn



\* The arms a parked slot waits on.
LEMMA ParkedArms ==
  ASSUME MInv, NEW j, PlainNow(j), NEW c \in Elements(slots[j].chs)
  PROVE  c \in OpenChan /\ c \in Chan /\ ~typed_live[c] /\ Contents(c) = erased[c]
<1>1. c \in OpenChan /\ ~typed_live[c]
  BY DEF PlainNow, SlotInv, Moored
<1>2. QED
  BY <1>1, OpenChanIsChan, IInvTypes DEF MInv, Contents


----------------------------------------------------------------------------
(* What a turn does to the messages, whatever slot and frame it is about. *)

\* A live slot at its turn.
AtTurn(j) == j \in Slot /\ j = i /\ is_live(slots[j]) /\ Turn

\* The turn is about slot j only, which is left in order.
Tends(j) == OthersStay(j) /\ SlotInv(j)' /\ UNCHANGED <<liveVars, cap, chan_count>>

\* What the tasks and the channels are outside slot j, and slot j's own state.
LEMMA TendsTouches ==
  ASSUME NEW j, AtTurn(j), Tends(j), RingsInv', NEW C, Settles(C), LedgerMove,
         issued' = issued \/ \E c \in Chan : Issue(c)
  PROVE  Touches(j)
BY SettlesNone DEF Touches, AtTurn, Tends

\* What is so after the typed rings of C are retired.
LEMMA Retired ==
  ASSUME MInv, NEW C \in SUBSET Chan, materialize_typed_i64_channel(C), chan_count' = chan_count
  PROVE  /\ OpenChan' = OpenChan
         /\ \A c \in Chan : c \in C \/ ~typed_live[c] => ~typed_live'[c]
         /\ \A c \in C : Materialized(C)[c] = Contents(c)
<1>1. OpenChan' = OpenChan
  BY DEF OpenChan
<1>2. QED
  BY <1>1, MaterializeEffect DEF MInv

\* A new message is sent at once.
LEMMA SendOutcome ==
  ASSUME MInv, IInv', NEW j, AtTurn(j), Tends(j), pc' = pc, prog' = TRUE,
         NEW C \in SUBSET Chan, materialize_typed_i64_channel(C),
         NEW c \in OpenChan, c \in C \/ ~typed_live[c],
         HasRoom(Materialized(C), c), Put(Materialized(C), c, NextMsg), Issue(c),
         Outgoing(j) = NoMsg, HoldsNext(j, NoMsg, Incoming(j)),
         UNCHANGED <<taken, seen, dropped>>
  PROVE  Outcome
<1>1. NextMsg \in Nat /\ c \in Chan /\ chan_count' = chan_count
  BY IssueType, OpenChanIsChan, IInvTypes DEF MInv, AtTurn, Tends
<1>2. /\ RingsInv' /\ Settles(C) /\ ContentsGain(c, NextMsg)
      /\ Materialized(C)[c] = Contents(c)
  BY <1>1, PutEffect DEF MInv
<1>3. LedgerMove
  BY <1>1, <1>2, MoveSend DEF AtTurn, Tends
<1>4. Touches(j)
  BY <1>1, <1>2, <1>3, TendsTouches
<1>5. CapacityStep
  BY <1>1, <1>2, CapacityGain DEF MInv, HasRoom
<1>6. QED
  BY <1>4, <1>5, BusyTurn DEF AtTurn

\* A waiting message is sent.
LEMMA ReleaseOutcome ==
  ASSUME MInv, IInv', NEW j, AtTurn(j), Tends(j), pc' = pc, prog' = TRUE,
         NEW C \in SUBSET Chan, materialize_typed_i64_channel(C),
         NEW c \in OpenChan, c \in C \/ ~typed_live[c], NEW m \in Nat,
         HasRoom(Materialized(C), c), Put(Materialized(C), c, m),
         m = Outgoing(j), m # NoMsg, IssuedFor(m, c), HoldsNext(j, NoMsg, Incoming(j)),
         UNCHANGED histVars
  PROVE  Outcome
<1>1. c \in Chan /\ chan_count' = chan_count /\ issued' = issued
  BY OpenChanIsChan, IInvTypes DEF MInv, Tends, histVars
<1>2. /\ RingsInv' /\ Settles(C) /\ ContentsGain(c, m)
      /\ Materialized(C)[c] = Contents(c)
  BY <1>1, PutEffect DEF MInv
<1>3. LedgerMove
  BY <1>1, <1>2, MoveRelease DEF AtTurn, Tends, IssuedFor
<1>4. Touches(j)
  BY <1>1, <1>2, <1>3, TendsTouches
<1>5. CapacityStep
  BY <1>1, <1>2, CapacityGain DEF MInv, HasRoom
<1>6. QED
  BY <1>4, <1>5, BusyTurn DEF AtTurn

\* A new message waits with its sender.
LEMMA HoldOutcome ==
  ASSUME MInv, IInv', NEW j, AtTurn(j), Tends(j), EndTurn(FALSE),
         NEW C \in SUBSET Chan, materialize_typed_i64_channel(C), erased' = Materialized(C),
         NEW c \in OpenChan, Issue(c),
         Outgoing(j) = NoMsg, HoldsNext(j, NextMsg, Incoming(j)), Rests(j)',
         UNCHANGED <<taken, seen, dropped>>
  PROVE  Outcome
<1>1. c \in Chan /\ chan_count' = chan_count
  BY OpenChanIsChan, IInvTypes DEF MInv, Tends
<1>2. RingsInv' /\ Settles(C) /\ ContentsStay
  BY <1>1, StillEffect DEF MInv
<1>3. LedgerMove
  BY <1>1, <1>2, MoveHold DEF AtTurn, Tends
<1>4. Touches(j)
  BY <1>1, <1>2, <1>3, TendsTouches
<1>5. QED
  BY <1>2, <1>4, IdleTurn DEF AtTurn

\* No message moves, and the slot is left at rest.
LEMMA ParkOutcome ==
  ASSUME MInv, IInv', NEW j, AtTurn(j), Tends(j), EndTurn(FALSE),
         NEW C \in SUBSET Chan, materialize_typed_i64_channel(C), erased' = Materialized(C),
         HoldsNext(j, Outgoing(j), Incoming(j)), Rests(j)', UNCHANGED histVars
  PROVE  Outcome
<1>1. chan_count' = chan_count /\ issued' = issued
  BY DEF Tends, histVars
<1>2. RingsInv' /\ Settles(C) /\ ContentsStay
  BY <1>1, StillEffect DEF MInv
<1>3. LedgerMove
  BY <1>2, MoveStill DEF AtTurn, Tends
<1>4. Touches(j)
  BY <1>1, <1>2, <1>3, TendsTouches
<1>5. QED
  BY <1>2, <1>4, IdleTurn DEF AtTurn

\* No message moves, and the turn makes progress.
LEMMA QuietOutcome ==
  ASSUME MInv, IInv', NEW j, AtTurn(j), Tends(j), pc' = pc, prog' = TRUE,
         NEW C \in SUBSET Chan, materialize_typed_i64_channel(C), erased' = Materialized(C),
         HoldsNext(j, Outgoing(j), Incoming(j)), UNCHANGED histVars
  PROVE  Outcome
<1>1. chan_count' = chan_count /\ issued' = issued
  BY DEF Tends, histVars
<1>2. RingsInv' /\ Settles(C) /\ ContentsStay
  BY <1>1, StillEffect DEF MInv
<1>3. LedgerMove
  BY <1>2, MoveStill DEF AtTurn, Tends
<1>4. Touches(j)
  BY <1>1, <1>2, <1>3, TendsTouches
<1>5. CapacityStep
  BY <1>2, CapacityStays DEF MInv
<1>6. QED
  BY <1>4, <1>5, BusyTurn DEF AtTurn

\* A message is handed to the program as it is received.
LEMMA ReceiveOutcome ==
  ASSUME MInv, IInv', NEW j, AtTurn(j), Tends(j), pc' = pc, prog' = TRUE,
         NEW C \in SUBSET Chan, materialize_typed_i64_channel(C),
         NEW c \in OpenChan, c \in C \/ ~typed_live[c], Materialized(C)[c] # <<>>,
         Take(Materialized(C), c), Hand(Head(Materialized(C)[c])),
         HoldsNext(j, Outgoing(j), Incoming(j)), UNCHANGED <<issued, dropped>>
  PROVE  Outcome
<1>1. c \in Chan /\ chan_count' = chan_count
  BY OpenChanIsChan, IInvTypes DEF MInv, Tends
<1>2. /\ RingsInv' /\ Settles(C) /\ ContentsLose(c)
      /\ Materialized(C)[c] = Contents(c)
  BY <1>1, TakeEffect DEF MInv
<1>3. seen' = seen \cup {Head(Contents(c))}
  BY <1>1, <1>2, HandHead DEF ContentsLose
<1>4. LedgerMove
  BY <1>1, <1>2, <1>3, MoveReceive DEF AtTurn, Tends
<1>5. Touches(j)
  BY <1>2, <1>4, TendsTouches
<1>6. CapacityStep
  BY <1>1, <1>2, CapacityLose DEF MInv
<1>7. QED
  BY <1>5, <1>6, BusyTurn DEF AtTurn

\* A message is received and kept for the frame.
LEMMA FetchOutcome ==
  ASSUME MInv, IInv', NEW j, AtTurn(j), Tends(j), pc' = pc, prog' = TRUE,
         NEW C \in SUBSET Chan, materialize_typed_i64_channel(C),
         NEW c \in OpenChan, c \in C \/ ~typed_live[c], Materialized(C)[c] # <<>>,
         Take(Materialized(C), c), Incoming(j) = NoMsg,
         HoldsNext(j, Outgoing(j), Head(Materialized(C)[c])), UNCHANGED <<issued, seen, dropped>>
  PROVE  Outcome
<1>1. c \in Chan /\ chan_count' = chan_count
  BY OpenChanIsChan, IInvTypes DEF MInv, Tends
<1>2. /\ RingsInv' /\ Settles(C) /\ ContentsLose(c)
      /\ Materialized(C)[c] = Contents(c)
  BY <1>1, TakeEffect DEF MInv
<1>3. LedgerMove
  BY <1>1, <1>2, MoveFetch DEF AtTurn, Tends
<1>4. Touches(j)
  BY <1>2, <1>3, TendsTouches
<1>5. CapacityStep
  BY <1>1, <1>2, CapacityLose DEF MInv
<1>6. QED
  BY <1>4, <1>5, BusyTurn DEF AtTurn

\* A frame hands over its message, or None.
LEMMA HandOverOutcome ==
  ASSUME MInv, IInv', NEW j, AtTurn(j), Tends(j), pc' = pc, prog' = TRUE,
         UNCHANGED chanVars, Hand(Incoming(j)), HoldsNext(j, Outgoing(j), NoMsg),
         UNCHANGED <<issued, taken, dropped>>
  PROVE  Outcome
<1>1. UNCHANGED <<erased, typed, typed_live, chan_count>>
  BY DEF chanVars
<1>2. materialize_typed_i64_channel({}) /\ Materialized({}) = erased
  BY <1>1, NothingMaterialized DEF MInv
<1>3. RingsInv' /\ Settles({}) /\ ContentsStay
  BY <1>1, <1>2, StillEffect DEF MInv
<1>4. LedgerMove
  BY <1>3, MoveHandOver DEF AtTurn, Tends
<1>5. Touches(j)
  BY <1>3, <1>4, TendsTouches
<1>6. CapacityStep
  BY <1>3, CapacityStays DEF MInv
<1>7. QED
  BY <1>5, <1>6, BusyTurn DEF AtTurn

----------------------------------------------------------------------------
(* Turns of slots without a frame. *)

\* A turn of a dead slot.
LEMMA DeadOutcome == ASSUME MInv, IInv', DeadTurn PROVE Outcome
<1>1. PICK j : j = i
  OBVIOUS
<1>2. /\ Turn /\ ~slot_live[j] /\ EndTurn(FALSE)
      /\ UNCHANGED <<slots, liveVars, frameVars, chanVars, polls, histVars>>
  BY <1>1 DEF DeadTurn
<1>3. j \in Slot
  BY <1>1, <1>2, CurrentSlot, IInvTypes DEF MInv
<1>4. slots[j].tag = "Ended" /\ frame_kinds[j] = 0
  BY <1>2, <1>3 DEF MInv, IInv, TableInv, LiveTablesAgree, is_live, Aligned, Dispatchable
<1>5. Waits(j)
  BY <1>4, KindFacts DEF Waits, ReceiveTags
<1>6. QED
  BY <1>1, <1>2, <1>3, <1>4, <1>5, KindFacts, StillTurn

\* A plain slot whose turn leaves it running.
LEMMA PlainRuns ==
  ASSUME MInv, NEW j, PlainNow(j), SetSlot(Active),
         UNCHANGED <<frameVars, liveVars, cap, chan_count>>
  PROVE  Tends(j) /\ HoldsNext(j, NoMsg, NoMsg)
<1>1. OthersStay(j) /\ Plainly(j, Active)
  BY PlainReplaced
<1>2. QED
  BY <1>1, LeftActive DEF Tends, PlainNow

\* A turn of a slot parked on a receive or a select.
LEMMA WaitRecvOutcome == ASSUME MInv, IInv', WaitRecvTurn PROVE Outcome
<1>0. PICK j : j = i
  OBVIOUS
<1>1. /\ SlotTurn("WaitRecv")
      /\ \/ \E c \in first_message(erased, slots[j].chs) :
               /\ Take(erased, c) /\ Hand(Head(erased[c]))
               /\ SetSlot(Active)
               /\ EndTurn(TRUE)
         \/ /\ first_message(erased, slots[j].chs) = {}
            /\ EndTurn(FALSE)
            /\ UNCHANGED <<slots, erased, taken, seen>>
      /\ UNCHANGED <<liveVars, frameVars, typed, typed_live, cap, chan_count, issued, dropped>>
  BY <1>0 DEF WaitRecvTurn
<1>2. PlainNow(j) /\ AtTurn(j) /\ slots[j].tag = "WaitRecv"
  BY <1>0, <1>1, PlainTurnFacts DEF AtTurn, PlainNow
<1>3. Outgoing(j) = NoMsg /\ Incoming(j) = NoMsg
  BY <1>2, PlainHolds
<1>4. ASSUME NEW c \in first_message(erased, slots[j].chs), Take(erased, c), Hand(Head(erased[c])),
             SetSlot(Active), EndTurn(TRUE)
      PROVE  Outcome
  <2>1. materialize_typed_i64_channel({}) /\ Materialized({}) = erased
    BY <1>1, NothingMaterialized DEF MInv
  <2>2. c \in OpenChan /\ ~typed_live[c] /\ erased[c] # <<>>
    BY <1>2, FirstArm, ParkedArms
  <2>3. Tends(j) /\ HoldsNext(j, NoMsg, NoMsg)
    BY <1>1, <1>2, <1>4, PlainRuns
  <2>4. pc' = pc /\ prog' = TRUE
    BY <1>4 DEF EndTurn
  <2>5. QED
    BY <1>1, <1>2, <1>3, <1>4, <2>1, <2>2, <2>3, <2>4, ReceiveOutcome
<1>5. CASE /\ first_message(erased, slots[j].chs) = {}
           /\ EndTurn(FALSE)
           /\ UNCHANGED <<slots, erased, taken, seen>>
  <2>1. \A c \in Elements(slots[j].chs) : Contents(c) = <<>>
    BY <1>2, <1>5, NoArm, ParkedArms DEF PlainNow
  <2>2. Waits(j) /\ frame_kinds[j] \notin ReceiveKinds
    BY <1>2, <2>1, KindFacts DEF Waits, PlainNow
  <2>3. UNCHANGED <<slots, liveVars, frameVars, chanVars, histVars>>
    BY <1>1, <1>5 DEF chanVars, histVars
  <2>4. QED
    BY <1>2, <1>5, <2>2, <2>3, StillTurn DEF AtTurn
<1>6. QED
  BY <1>1, <1>4, <1>5

\* A turn of a slot parked on a send.
LEMMA WaitSendOutcome == ASSUME MInv, IInv', WaitSendTurn PROVE Outcome
<1>0. PICK j, c, m : j = i /\ c = slots[j].chs[1] /\ m = slots[j].msg
  OBVIOUS
<1>1. /\ SlotTurn("WaitSend")
      /\ \/ HasRoom(erased, c) /\ Put(erased, c, m) /\ SetSlot(Active) /\ EndTurn(TRUE)
         \/ ~HasRoom(erased, c) /\ EndTurn(FALSE) /\ UNCHANGED <<slots, erased>>
      /\ UNCHANGED <<liveVars, frameVars, typed, typed_live, cap, chan_count, histVars>>
  BY <1>0 DEF WaitSendTurn
<1>2. PlainNow(j) /\ AtTurn(j) /\ slots[j].tag = "WaitSend"
  BY <1>0, <1>1, PlainTurnFacts DEF AtTurn, PlainNow
<1>3. Outgoing(j) = m /\ Incoming(j) = NoMsg
  BY <1>0, <1>2, PlainHolds
<1>4. c \in OpenChan /\ c \in Chan /\ ~typed_live[c]
  <2>1. slots[j].chs \in Seq(Chan) /\ slots[j].chs # <<>>
    BY <1>2 DEF PlainNow, SlotInv, Moored
  <2>2. c \in Elements(slots[j].chs)
    BY <1>0, <2>1 DEF Elements
  <2>3. QED
    BY <1>2, <2>2, ParkedArms
<1>5. IssuedFor(m, c) /\ m \in Nat /\ m # NoMsg
  BY <1>0, <1>2 DEF PlainNow, SlotInv, Addressed, IssuedFor, NoMsg
<1>6. CASE HasRoom(erased, c) /\ Put(erased, c, m) /\ SetSlot(Active) /\ EndTurn(TRUE)
  <2>1. materialize_typed_i64_channel({}) /\ Materialized({}) = erased
    BY <1>1, NothingMaterialized DEF MInv
  <2>2. Tends(j) /\ HoldsNext(j, NoMsg, NoMsg)
    BY <1>1, <1>2, <1>6, PlainRuns
  <2>3. pc' = pc /\ prog' = TRUE
    BY <1>6 DEF EndTurn
  <2>4. QED
    BY <1>1, <1>2, <1>3, <1>4, <1>5, <1>6, <2>1, <2>2, <2>3, ReleaseOutcome
<1>7. CASE ~HasRoom(erased, c) /\ EndTurn(FALSE) /\ UNCHANGED <<slots, erased>>
  <2>1. Waits(j) /\ frame_kinds[j] \notin ReceiveKinds
    BY <1>0, <1>2, <1>7, KindFacts DEF Waits, PlainNow, ReceiveTags
  <2>2. UNCHANGED <<slots, liveVars, frameVars, chanVars, histVars>>
    BY <1>1, <1>7 DEF chanVars
  <2>3. QED
    BY <1>2, <1>7, <2>1, <2>2, StillTurn DEF AtTurn
<1>8. QED
  BY <1>1, <1>6, <1>7

\* A plain slot that is left as it is.
LEMMA PlainWaitsOn ==
  ASSUME MInv, NEW j, PlainNow(j), NEW C \in SUBSET Chan, materialize_typed_i64_channel(C),
         UNCHANGED <<slots, frameVars, liveVars, cap, chan_count, issued>>
  PROVE  Tends(j) /\ HoldsNext(j, Outgoing(j), Incoming(j))
<1>1. OthersStay(j) /\ Stays(j) /\ HoldsNext(j, Outgoing(j), Incoming(j)) /\ j \in Slot
  BY PlainStays DEF PlainNow
<1>2. \A c \in OpenChan : typed_live'[c] => typed_live[c]
  BY MaterializeEffect, OpenChanIsChan, IInvTypes DEF MInv
<1>3. chan_count' >= chan_count /\ chan_count' \in Nat
  BY DEF MInv, IInv, ChanTypes
<1>4. SlotInv(j)'
  BY <1>1, <1>2, <1>3, SlotInvElsewhere
<1>5. QED
  BY <1>1, <1>4 DEF Tends

\* A turn of a frame loop.
LEMMA FrameLoopOutcome == ASSUME MInv, IInv', FrameLoopTurn PROVE Outcome
<1>0. PICK j : j = i
  OBVIOUS
<1>1. /\ SlotTurn("WaitFrameLoop") \/ SlotTurn("Wait2Frame")
      /\ \/ \E c \in first_message(erased, slots[j].chs) :
               /\ Take(erased, c) /\ Hand(Head(erased[c]))
               /\ SetSlot(Active) \/ UNCHANGED slots
               /\ pc' = pc /\ prog' = TRUE
         \/ /\ first_message(erased, slots[j].chs) = {}
            /\ EndTurn(FALSE)
            /\ UNCHANGED <<slots, erased, taken, seen>>
      /\ UNCHANGED <<liveVars, frameVars, typed, typed_live, cap, chan_count, issued, dropped>>
  <2>1. EndTurn(TRUE) => pc' = pc /\ prog' = TRUE
    BY DEF EndTurn
  <2>2. QED
    BY <1>0, <2>1 DEF FrameLoopTurn
<1>2. PlainNow(j) /\ AtTurn(j) /\ slots[j].tag \in {"WaitFrameLoop", "Wait2Frame"}
  BY <1>0, <1>1, PlainTurnFacts DEF AtTurn, PlainNow
<1>3. Outgoing(j) = NoMsg /\ Incoming(j) = NoMsg
  BY <1>2, PlainHolds
<1>4. ASSUME NEW c \in first_message(erased, slots[j].chs), Take(erased, c), Hand(Head(erased[c])),
             SetSlot(Active) \/ UNCHANGED slots, pc' = pc, prog' = TRUE
      PROVE  Outcome
  <2>1. materialize_typed_i64_channel({}) /\ Materialized({}) = erased
    BY <1>1, NothingMaterialized DEF MInv
  <2>2. c \in OpenChan /\ ~typed_live[c] /\ erased[c] # <<>>
    BY <1>2, FirstArm, ParkedArms
  <2>3. Tends(j) /\ HoldsNext(j, NoMsg, NoMsg)
    <3>1. CASE SetSlot(Active)
      BY <1>1, <1>2, <3>1, PlainRuns
    <3>2. CASE UNCHANGED slots
      BY <1>1, <1>2, <1>3, <2>1, <3>2, PlainWaitsOn
    <3>3. QED
      BY <1>4, <3>1, <3>2
  <2>4. QED
    BY <1>1, <1>2, <1>3, <1>4, <2>1, <2>2, <2>3, ReceiveOutcome
<1>5. CASE /\ first_message(erased, slots[j].chs) = {}
           /\ EndTurn(FALSE)
           /\ UNCHANGED <<slots, erased, taken, seen>>
  <2>1. \A c \in Elements(slots[j].chs) : Contents(c) = <<>>
    BY <1>2, <1>5, NoArm, ParkedArms DEF PlainNow
  <2>2. Waits(j) /\ frame_kinds[j] \notin ReceiveKinds
    BY <1>2, <2>1, KindFacts DEF Waits, PlainNow
  <2>3. UNCHANGED <<slots, liveVars, frameVars, chanVars, histVars>>
    BY <1>1, <1>5 DEF chanVars, histVars
  <2>4. QED
    BY <1>2, <1>5, <2>2, <2>3, StillTurn DEF AtTurn
<1>6. QED
  BY <1>1, <1>4, <1>5

\* A plain slot that keeps a receive.
LEMMA PlainReceiving ==
  ASSUME MInv, IInv', NEW j, PlainNow(j), NEW c \in OpenChan, NEW m, NEW p,
         SetSlot(ReceiveFrameSlot(c, m, p)), p # 1 => m = NoMsg, ~typed_live'[c],
         UNCHANGED <<frameVars, liveVars, cap, chan_count>>
  PROVE  /\ Tends(j) /\ HoldsNext(j, NoMsg, m)
         /\ p # 1 /\ Contents(c)' = <<>> => Rests(j)'
<1>1. OthersStay(j) /\ Plainly(j, ReceiveFrameSlot(c, m, p))
  BY PlainReplaced
<1>2. c \in OpenChan' /\ j \in Slot
  BY DEF OpenChan, PlainNow
<1>3. QED
  BY <1>1, <1>2, LeftReceiveFrameSlot DEF Tends

\* A turn of a receive frame kept in its slot.
LEMMA ReceiveFrameSlotOutcome == ASSUME MInv, IInv', ReceiveFrameSlotTurn PROVE Outcome
<1>0. PICK j, c, m : j = i /\ c = slots[j].chs[1] /\ m = slots[j].msg
  OBVIOUS
<1>1. /\ SlotTurn("ReceiveFrameSlot")
      /\ \/ /\ slots[j].arg = 1 /\ Hand(m)
            /\ SetSlot(Active) \/ SetSlot(ReceiveFrameSlot(c, NoMsg, 2))
            /\ EndTurn(TRUE)
            /\ UNCHANGED <<erased, taken>>
         \/ /\ slots[j].arg # 1 /\ erased[c] # <<>>
            /\ Take(erased, c)
            /\ SetSlot(ReceiveFrameSlot(c, Head(erased[c]), 1))
            /\ EndTurn(TRUE)
            /\ UNCHANGED seen
         \/ /\ slots[j].arg # 1 /\ erased[c] = <<>>
            /\ SetSlot(ReceiveFrameSlot(c, NoMsg, 0))
            /\ EndTurn(FALSE)
            /\ UNCHANGED <<seen, erased, taken>>
      /\ UNCHANGED <<liveVars, frameVars, typed, typed_live, cap, chan_count, issued, dropped>>
  BY <1>0 DEF ReceiveFrameSlotTurn
<1>2. PlainNow(j) /\ AtTurn(j) /\ slots[j].tag = "ReceiveFrameSlot"
  BY <1>0, <1>1, PlainTurnFacts DEF AtTurn, PlainNow
<1>3. Outgoing(j) = NoMsg /\ Incoming(j) = m
  BY <1>0, <1>2, PlainHolds
<1>4. c \in OpenChan /\ c \in Chan /\ ~typed_live[c]
  <2>1. slots[j].chs \in Seq(Chan) /\ slots[j].chs # <<>>
    BY <1>2 DEF PlainNow, SlotInv, Moored
  <2>2. c \in Elements(slots[j].chs)
    BY <1>0, <2>1 DEF Elements
  <2>3. QED
    BY <1>2, <2>2, ParkedArms
<1>5. slots[j].arg # 1 => m = NoMsg
  BY <1>0, <1>2 DEF PlainNow, SlotInv, Carried
<1>6. materialize_typed_i64_channel({}) /\ Materialized({}) = erased /\ ~typed_live'[c]
  BY <1>1, <1>4, NothingMaterialized DEF MInv
<1>7. CASE /\ slots[j].arg = 1 /\ Hand(m)
           /\ SetSlot(Active) \/ SetSlot(ReceiveFrameSlot(c, NoMsg, 2))
           /\ EndTurn(TRUE)
           /\ UNCHANGED <<erased, taken>>
  <2>1. Tends(j) /\ HoldsNext(j, NoMsg, NoMsg)
    <3>1. CASE SetSlot(Active)
      BY <1>1, <1>2, <3>1, PlainRuns
    <3>2. CASE SetSlot(ReceiveFrameSlot(c, NoMsg, 2))
      BY <1>1, <1>2, <1>4, <1>6, <3>2, PlainReceiving
    <3>3. QED
      BY <1>7, <3>1, <3>2
  <2>2. pc' = pc /\ prog' = TRUE /\ UNCHANGED chanVars
    BY <1>1, <1>7 DEF EndTurn, chanVars
  <2>3. QED
    BY <1>1, <1>2, <1>3, <1>7, <2>1, <2>2, HandOverOutcome
<1>8. CASE /\ slots[j].arg # 1 /\ erased[c] # <<>>
           /\ Take(erased, c)
           /\ SetSlot(ReceiveFrameSlot(c, Head(erased[c]), 1))
           /\ EndTurn(TRUE)
           /\ UNCHANGED seen
  <2>0. PICK h : h = Head(erased[c])
    OBVIOUS
  <2>1. Tends(j) /\ HoldsNext(j, NoMsg, h)
    BY <1>1, <1>2, <1>4, <1>6, <1>8, <2>0, PlainReceiving
  <2>2. pc' = pc /\ prog' = TRUE
    BY <1>8 DEF EndTurn
  <2>3. QED
    BY <1>1, <1>2, <1>3, <1>4, <1>5, <1>6, <1>8, <2>0, <2>1, <2>2, FetchOutcome
<1>9. CASE /\ slots[j].arg # 1 /\ erased[c] = <<>>
           /\ SetSlot(ReceiveFrameSlot(c, NoMsg, 0))
           /\ EndTurn(FALSE)
           /\ UNCHANGED <<seen, erased, taken>>
  <2>1. Contents(c)' = <<>>
    BY <1>6, <1>9 DEF Contents
  <2>2. Tends(j) /\ HoldsNext(j, NoMsg, NoMsg) /\ Rests(j)'
    BY <1>1, <1>2, <1>4, <1>6, <1>9, <2>1, PlainReceiving
  <2>3. UNCHANGED histVars /\ erased' = Materialized({})
    BY <1>1, <1>6, <1>9 DEF histVars
  <2>4. QED
    BY <1>2, <1>3, <1>5, <1>6, <1>9, <2>2, <2>3, ParkOutcome
<1>10. QED
  BY <1>1, <1>7, <1>8, <1>9

----------------------------------------------------------------------------
(* Operations of slots without a frame. *)

\* What a polled slot may rely on.
LEMMA Polled ==
  ASSUME MInv, NEW op, Poll(op), NEW j, j = i
  PROVE  PlainNow(j) /\ AtTurn(j) /\ Outgoing(j) = NoMsg /\ Incoming(j) = NoMsg
<1>1. SlotTurn("Active")
  BY DEF Poll
<1>2. PlainNow(j) /\ AtTurn(j) /\ slots[j].tag = "Active"
  BY <1>1, PlainTurnFacts DEF AtTurn, PlainNow
<1>3. QED
  BY <1>2, PlainHolds

\* Giving way.
LEMMA YieldOutcome == ASSUME MInv, IInv', PollYield PROVE Outcome
<1>0. PICK j : j = i
  OBVIOUS
<1>1. /\ Poll("Yield") /\ SetSlot(Active) /\ EndTurn(TRUE)
      /\ UNCHANGED <<liveVars, frameVars, chanVars, histVars>>
  BY DEF PollYield
<1>2. PlainNow(j) /\ AtTurn(j) /\ Outgoing(j) = NoMsg /\ Incoming(j) = NoMsg
  BY <1>0, <1>1, Polled
<1>3. UNCHANGED <<erased, typed, typed_live, cap, chan_count>>
  BY <1>1 DEF chanVars
<1>4. materialize_typed_i64_channel({}) /\ erased' = Materialized({})
  BY <1>3, NothingMaterialized DEF MInv
<1>5. Tends(j) /\ HoldsNext(j, NoMsg, NoMsg)
  BY <1>1, <1>2, <1>3, PlainRuns
<1>6. pc' = pc /\ prog' = TRUE
  BY <1>1 DEF EndTurn
<1>7. QED
  BY <1>1, <1>2, <1>4, <1>5, <1>6, QuietOutcome

\* A message just issued is the last one.
LEMMA IssuedNow ==
  ASSUME MInv, NEW c \in OpenChan, Turn, Issue(c), NEW m, m = NextMsg
  PROVE  IssuedFor(m, c)' /\ m \in Nat /\ m # NoMsg
<1>1. issued \in Seq([from : Slot, ch : Chan]) /\ i \in Slot /\ c \in Chan
  BY CurrentSlot, OpenChanIsChan, IInvTypes DEF MInv, IInv, HistoryTypes
<1>2. PICK r \in [from : Slot, ch : Chan] : r = [from |-> i, ch |-> c]
  BY <1>1
<1>3. issued' = Append(issued, r) /\ r.ch = c
  BY <1>2 DEF Issue
<1>4. m \in 1..Len(issued') /\ issued'[m] = r /\ m \in Nat /\ m # 0
  BY <1>1, <1>3 DEF NextMsg
<1>5. QED
  BY <1>3, <1>4 DEF IssuedFor, NoMsg

\* A plain slot whose send finds no room.
LEMMA PlainHeld ==
  ASSUME MInv, IInv', NEW j, PlainNow(j), AtTurn(j), Outgoing(j) = NoMsg, Incoming(j) = NoMsg,
         NEW c \in OpenChan, NEW C \in SUBSET Chan, materialize_typed_i64_channel(C),
         c \in C \/ ~typed_live[c], erased' = Materialized(C), ~HasRoom(Materialized(C), c),
         Issue(c), SetSlot(WaitSend(c, NextMsg)), EndTurn(FALSE),
         UNCHANGED <<liveVars, frameVars, cap, chan_count, taken, seen, dropped>>
  PROVE  Outcome
<1>1. PICK m : m = NextMsg
  OBVIOUS
<1>2. OthersStay(j) /\ Plainly(j, WaitSend(c, m))
  BY <1>1, PlainReplaced
<1>3. c \in OpenChan' /\ ~typed_live'[c] /\ j \in Slot
  BY Retired, OpenChanIsChan, IInvTypes DEF MInv, PlainNow
<1>4. IssuedFor(m, c)'
  BY <1>1, IssuedNow DEF AtTurn
<1>5. ~HasRoom(erased, c)'
  BY DEF HasRoom
<1>6. Tends(j) /\ HoldsNext(j, m, NoMsg) /\ Rests(j)'
  BY <1>2, <1>3, <1>4, <1>5, LeftSender DEF Tends
<1>7. QED
  BY <1>1, <1>6, HoldOutcome

\* A plain slot whose send finds room.
LEMMA PlainSent ==
  ASSUME MInv, IInv', NEW j, PlainNow(j), AtTurn(j), Outgoing(j) = NoMsg, Incoming(j) = NoMsg,
         NEW c \in OpenChan, NEW C \in SUBSET Chan, materialize_typed_i64_channel(C),
         c \in C \/ ~typed_live[c], HasRoom(Materialized(C), c), Put(Materialized(C), c, NextMsg),
         Issue(c), SetSlot(Active), EndTurn(TRUE),
         UNCHANGED <<liveVars, frameVars, cap, chan_count, taken, seen, dropped>>
  PROVE  Outcome
<1>1. Tends(j) /\ HoldsNext(j, NoMsg, NoMsg)
  BY PlainRuns
<1>2. pc' = pc /\ prog' = TRUE
  BY DEF EndTurn
<1>3. QED
  BY <1>1, <1>2, SendOutcome

\* A send on an erased ring.
LEMMA PushOutcome == ASSUME MInv, IInv', PollPush PROVE Outcome
<1>0. PICK j : j = i
  OBVIOUS
<1>1. PICK c \in OpenChan :
        /\ Poll("Push") /\ materialize_typed_i64_channel({c}) /\ Issue(c)
        /\ \/ /\ HasRoom(Materialized({c}), c) /\ Put(Materialized({c}), c, NextMsg)
              /\ SetSlot(Active) /\ EndTurn(TRUE)
           \/ /\ ~HasRoom(Materialized({c}), c) /\ erased' = Materialized({c})
              /\ SetSlot(WaitSend(c, NextMsg)) /\ EndTurn(FALSE)
        /\ UNCHANGED <<liveVars, frameVars, cap, chan_count, taken, seen, dropped>>
  BY DEF PollPush
<1>2. PlainNow(j) /\ AtTurn(j) /\ Outgoing(j) = NoMsg /\ Incoming(j) = NoMsg
  BY <1>0, <1>1, Polled
<1>3. {c} \in SUBSET Chan /\ c \in {c}
  BY OpenChanIsChan, IInvTypes DEF MInv
<1>4. QED
  BY <1>1, <1>2, <1>3, PlainSent, PlainHeld

\* A plain slot that takes a message and runs on, or waits on.
LEMMA PlainTook ==
  ASSUME MInv, IInv', NEW j, PlainNow(j), AtTurn(j), Outgoing(j) = NoMsg, Incoming(j) = NoMsg,
         NEW C \in SUBSET Chan, materialize_typed_i64_channel(C),
         NEW c \in OpenChan, c \in C \/ ~typed_live[c], Materialized(C)[c] # <<>>,
         Take(Materialized(C), c), Hand(Head(Materialized(C)[c])), SetSlot(Active), EndTurn(TRUE),
         UNCHANGED <<liveVars, frameVars, cap, chan_count, issued, dropped>>
  PROVE  Outcome
<1>1. Tends(j) /\ HoldsNext(j, NoMsg, NoMsg)
  BY PlainRuns
<1>2. pc' = pc /\ prog' = TRUE
  BY DEF EndTurn
<1>3. QED
  BY <1>1, <1>2, ReceiveOutcome

\* A plain slot left waiting for messages.
LEMMA PlainListens ==
  ASSUME MInv, IInv', NEW j, PlainNow(j), NEW C \in SUBSET Chan,
         materialize_typed_i64_channel(C), NEW chs, NEW v,
         v \in {WaitRecv(chs), WaitFrameLoop(chs), Wait2Frame(chs)}, SetSlot(v),
         \A c \in Elements(chs) : c \in OpenChan /\ (c \in C \/ ~typed_live[c]),
         UNCHANGED <<liveVars, frameVars, cap, chan_count>>
  PROVE  /\ Tends(j) /\ HoldsNext(j, NoMsg, NoMsg)
         /\ (\A c \in Elements(chs) : Contents(c)' = <<>>) => Rests(j)'
<1>1. OthersStay(j) /\ Plainly(j, v) /\ j \in Slot
  BY PlainReplaced DEF PlainNow
<1>2. \A c \in Elements(chs) : c \in OpenChan' /\ ~typed_live'[c]
  BY Retired, OpenChanIsChan, IInvTypes DEF MInv
<1>3. QED
  BY <1>1, <1>2, LeftReceiver DEF Tends

\* A plain slot whose receive finds nothing.
LEMMA PlainParked ==
  ASSUME MInv, IInv', NEW j, PlainNow(j), AtTurn(j), Outgoing(j) = NoMsg, Incoming(j) = NoMsg,
         NEW C \in SUBSET Chan, materialize_typed_i64_channel(C), erased' = Materialized(C),
         NEW chs, \A c \in Elements(chs) : /\ c \in OpenChan /\ (c \in C \/ ~typed_live[c])
                                           /\ Materialized(C)[c] = <<>>,
         SetSlot(WaitRecv(chs)), EndTurn(FALSE),
         UNCHANGED <<liveVars, frameVars, cap, chan_count, histVars>>
  PROVE  Outcome
<1>1. \A c \in Elements(chs) : Contents(c)' = <<>>
  BY Retired, OpenChanIsChan, IInvTypes DEF MInv, Contents
<1>2. Tends(j) /\ HoldsNext(j, NoMsg, NoMsg) /\ Rests(j)'
  BY <1>1, PlainListens
<1>3. QED
  BY <1>2, ParkOutcome

\* The channels of a list of arms.
LEMMA ArmsFacts ==
  ASSUME MInv, NEW chs \in Arms \cup EmptyList
  PROVE  /\ chs \in Seq(Chan) /\ Elements(chs) \subseteq OpenChan /\ Elements(chs) \in SUBSET Chan
<1>1. OpenChan \subseteq Chan
  BY OpenChanIsChan, IInvTypes DEF MInv
<1>2. CASE chs \in Arms
  <2>1. PICK k \in 1..MaxArms : chs \in [1..k -> OpenChan]
    BY <1>2 DEF Arms
  <2>2. chs \in Seq(Chan)
    BY <1>2, ArmsAreSeqs, IInvTypes DEF MInv
  <2>3. QED
    BY <1>1, <2>1, <2>2 DEF Elements
<1>3. CASE chs = <<>>
  BY <1>3, ElementsOf
<1>4. QED
  BY <1>2, <1>3 DEF EmptyList

\* A receive or a select.
LEMMA PullOutcome == ASSUME MInv, IInv', PollPull PROVE Outcome
<1>0. PICK j : j = i
  OBVIOUS
<1>1. PICK chs \in Arms \cup EmptyList :
        /\ Poll("Pull") /\ materialize_typed_i64_channel(Elements(chs))
        /\ \/ \E c \in first_message(Materialized(Elements(chs)), chs) :
                 /\ Take(Materialized(Elements(chs)), c)
                 /\ Hand(Head(Materialized(Elements(chs))[c]))
                 /\ SetSlot(Active) /\ EndTurn(TRUE)
           \/ /\ first_message(Materialized(Elements(chs)), chs) = {}
              /\ erased' = Materialized(Elements(chs))
              /\ SetSlot(WaitRecv(chs)) /\ EndTurn(FALSE)
              /\ UNCHANGED <<taken, seen>>
        /\ UNCHANGED <<liveVars, frameVars, cap, chan_count, issued, dropped>>
  BY DEF PollPull, Elements
<1>2. PlainNow(j) /\ AtTurn(j) /\ Outgoing(j) = NoMsg /\ Incoming(j) = NoMsg
  BY <1>0, <1>1, Polled
<1>3. chs \in Seq(Chan) /\ Elements(chs) \subseteq OpenChan /\ Elements(chs) \in SUBSET Chan
  BY ArmsFacts
<1>4. ASSUME NEW c \in first_message(Materialized(Elements(chs)), chs),
             Take(Materialized(Elements(chs)), c), Hand(Head(Materialized(Elements(chs))[c])),
             SetSlot(Active), EndTurn(TRUE)
      PROVE  Outcome
  <2>1. c \in Elements(chs) /\ c \in OpenChan /\ Materialized(Elements(chs))[c] # <<>>
    BY <1>3, FirstArm
  <2>2. QED
    BY <1>1, <1>2, <1>3, <1>4, <2>1, PlainTook
<1>5. CASE /\ first_message(Materialized(Elements(chs)), chs) = {}
           /\ erased' = Materialized(Elements(chs))
           /\ SetSlot(WaitRecv(chs)) /\ EndTurn(FALSE)
           /\ UNCHANGED <<taken, seen>>
  <2>1. \A c \in Elements(chs) : Materialized(Elements(chs))[c] = <<>>
    BY <1>3, <1>5, NoArm
  <2>2. UNCHANGED histVars
    BY <1>1, <1>5 DEF histVars
  <2>3. QED
    BY <1>1, <1>2, <1>3, <1>5, <2>1, <2>2, PlainParked
<1>6. QED
  BY <1>1, <1>4, <1>5

\* A send on a typed ring appends to the contents.
LEMMA TypedPutEffect ==
  ASSUME IInv, RingsInv, NEW c \in OpenChan, typed_live[c], NEW m \in Nat,
         typed' = [typed EXCEPT ![c] = Append(@, m)], UNCHANGED <<erased, typed_live, chan_count>>
  PROVE  RingsInv' /\ Settles({}) /\ ContentsGain(c, m)
<1>1. c \in Chan /\ typed \in [Chan -> Seq(Nat)]
  BY OpenChanIsChan, IInvTypes DEF IInv, ChanTypes
<1>2. \A d \in Chan : typed'[d] = IF d = c THEN Append(typed[c], m) ELSE typed[d]
  BY <1>1
<1>3. chan_count \in Nat /\ (\A d \in Chan : d \in Nat) /\ c < chan_count
  BY DEF IInv, ChanTypes, Chan, OpenChan
<1>4. RingsInv'
  BY <1>2, <1>3 DEF RingsInv
<1>5. ContentsGain(c, m)
  BY <1>1, <1>2 DEF ContentsGain, Contents
<1>6. QED
  BY <1>4, <1>5 DEF Settles

\* A receive from a typed ring takes the head of the contents.
LEMMA TypedTakeEffect ==
  ASSUME IInv, RingsInv, NEW c \in OpenChan, typed_live[c], typed[c] # <<>>,
         typed' = [typed EXCEPT ![c] = Tail(@)],
         taken' = [taken EXCEPT ![c] = Append(@, Head(typed[c]))],
         UNCHANGED <<erased, typed_live, chan_count>>
  PROVE  RingsInv' /\ Settles({}) /\ ContentsLose(c)
<1>1. c \in Chan /\ typed \in [Chan -> Seq(Nat)]
  BY OpenChanIsChan, IInvTypes DEF IInv, ChanTypes
<1>2. \A d \in Chan : typed'[d] = IF d = c THEN Tail(typed[c]) ELSE typed[d]
  BY <1>1
<1>3. chan_count \in Nat /\ (\A d \in Chan : d \in Nat) /\ c < chan_count
  BY DEF IInv, ChanTypes, Chan, OpenChan
<1>4. RingsInv'
  BY <1>2, <1>3 DEF RingsInv
<1>5. ContentsLose(c)
  BY <1>1, <1>2 DEF ContentsLose, Contents
<1>6. QED
  BY <1>4, <1>5 DEF Settles

\* A send of an integer.
LEMMA PushI64Outcome == ASSUME MInv, IInv', PollPushI64 PROVE Outcome
<1>0. PICK j : j = i
  OBVIOUS
<1>1. PICK c \in OpenChan :
        /\ Poll("PushI64") /\ Issue(c)
        /\ \/ /\ typed_live[c] /\ HasRoom(typed, c)
              /\ typed' = [typed EXCEPT ![c] = Append(@, NextMsg)]
              /\ SetSlot(Active) /\ EndTurn(TRUE)
              /\ UNCHANGED <<erased, typed_live>>
           \/ /\ typed_live[c] /\ ~HasRoom(typed, c)
              /\ erased' = Materialized({c}) /\ materialize_typed_i64_channel({c})
              /\ SetSlot(WaitSend(c, NextMsg)) /\ EndTurn(FALSE)
           \/ /\ ~typed_live[c] /\ HasRoom(erased, c)
              /\ Put(erased, c, NextMsg)
              /\ SetSlot(Active) /\ EndTurn(TRUE)
              /\ UNCHANGED <<typed, typed_live>>
           \/ /\ ~typed_live[c] /\ ~HasRoom(erased, c)
              /\ SetSlot(WaitSend(c, NextMsg)) /\ EndTurn(FALSE)
              /\ UNCHANGED <<erased, typed, typed_live>>
        /\ UNCHANGED <<liveVars, frameVars, cap, chan_count, taken, seen, dropped>>
  BY DEF PollPushI64
<1>2. PlainNow(j) /\ AtTurn(j) /\ Outgoing(j) = NoMsg /\ Incoming(j) = NoMsg
  BY <1>0, <1>1, Polled
<1>3. {c} \in SUBSET Chan /\ c \in {c} /\ c \in Chan
  BY OpenChanIsChan, IInvTypes DEF MInv
<1>4. CASE /\ typed_live[c] /\ HasRoom(typed, c)
           /\ typed' = [typed EXCEPT ![c] = Append(@, NextMsg)]
           /\ SetSlot(Active) /\ EndTurn(TRUE)
           /\ UNCHANGED <<erased, typed_live>>
  <2>1. NextMsg \in Nat
    BY <1>1, <1>2, IssueType, IInvTypes DEF MInv, AtTurn
  <2>2. RingsInv' /\ Settles({}) /\ ContentsGain(c, NextMsg)
    BY <1>1, <1>4, <2>1, TypedPutEffect DEF MInv
  <2>3. Tends(j) /\ HoldsNext(j, NoMsg, NoMsg)
    BY <1>1, <1>2, <1>4, PlainRuns
  <2>4. LedgerMove
    BY <1>1, <1>2, <1>3, <2>2, <2>3, MoveSend DEF AtTurn, Tends
  <2>5. Touches(j)
    BY <1>1, <1>2, <1>3, <2>2, <2>3, <2>4, TendsTouches
  <2>6. CapacityStep
    <3>1. cap[c] = 0 \/ Len(Contents(c)) < cap[c]
      BY <1>4 DEF HasRoom, Contents
    <3>2. QED
      BY <1>3, <2>1, <2>2, <3>1, CapacityGain DEF MInv
  <2>7. QED
    BY <1>2, <1>4, <2>5, <2>6, BusyTurn DEF AtTurn, EndTurn
<1>5. CASE /\ typed_live[c] /\ ~HasRoom(typed, c)
           /\ erased' = Materialized({c}) /\ materialize_typed_i64_channel({c})
           /\ SetSlot(WaitSend(c, NextMsg)) /\ EndTurn(FALSE)
  <2>1. ~HasRoom(Materialized({c}), c)
    BY <1>3, <1>5, Retired, <1>1 DEF HasRoom, Contents
  <2>2. QED
    BY <1>1, <1>2, <1>3, <1>5, <2>1, PlainHeld
<1>6. CASE ~typed_live[c] /\ UNCHANGED <<typed, typed_live>>
  <2>1. materialize_typed_i64_channel({}) /\ Materialized({}) = erased
    BY <1>6, NothingMaterialized DEF MInv
  <2>2. CASE HasRoom(erased, c) /\ Put(erased, c, NextMsg) /\ SetSlot(Active) /\ EndTurn(TRUE)
    BY <1>1, <1>2, <1>6, <2>1, <2>2, PlainSent
  <2>3. CASE ~HasRoom(erased, c) /\ SetSlot(WaitSend(c, NextMsg)) /\ EndTurn(FALSE)
             /\ UNCHANGED erased
    BY <1>1, <1>2, <1>6, <2>1, <2>3, PlainHeld
  <2>4. QED
    BY <1>1, <1>6, <2>2, <2>3
<1>7. QED
  BY <1>1, <1>4, <1>5, <1>6

\* A receive of an integer.
LEMMA PullI64Outcome == ASSUME MInv, IInv', PollPullI64 PROVE Outcome
<1>0. PICK j : j = i
  OBVIOUS
<1>1. PICK c \in OpenChan :
        /\ Poll("PullI64")
        /\ \/ /\ typed_live[c] /\ typed[c] # <<>>
              /\ typed' = [typed EXCEPT ![c] = Tail(@)]
              /\ taken' = [taken EXCEPT ![c] = Append(@, Head(typed[c]))]
              /\ Hand(Head(typed[c]))
              /\ SetSlot(Active) /\ EndTurn(TRUE)
              /\ UNCHANGED <<erased, typed_live>>
           \/ /\ typed_live[c] /\ typed[c] = <<>>
              /\ erased' = Materialized({c}) /\ materialize_typed_i64_channel({c})
              /\ SetSlot(WaitRecv(<<c>>)) /\ EndTurn(FALSE)
              /\ UNCHANGED <<taken, seen>>
           \/ /\ ~typed_live[c] /\ erased[c] # <<>>
              /\ Take(erased, c) /\ Hand(Head(erased[c]))
              /\ SetSlot(Active) /\ EndTurn(TRUE)
              /\ UNCHANGED <<typed, typed_live>>
           \/ /\ ~typed_live[c] /\ erased[c] = <<>>
              /\ SetSlot(WaitRecv(<<c>>)) /\ EndTurn(FALSE)
              /\ UNCHANGED <<erased, typed, typed_live, taken, seen>>
        /\ UNCHANGED <<liveVars, frameVars, cap, chan_count, issued, dropped>>
  BY DEF PollPullI64
<1>2. PlainNow(j) /\ AtTurn(j) /\ Outgoing(j) = NoMsg /\ Incoming(j) = NoMsg
  BY <1>0, <1>1, Polled
<1>3. {c} \in SUBSET Chan /\ c \in {c} /\ c \in Chan /\ Elements(<<c>>) = {c}
  BY OpenChanIsChan, IInvTypes, ElementsOf DEF MInv
<1>4. CASE /\ typed_live[c] /\ typed[c] # <<>>
           /\ typed' = [typed EXCEPT ![c] = Tail(@)]
           /\ taken' = [taken EXCEPT ![c] = Append(@, Head(typed[c]))]
           /\ Hand(Head(typed[c]))
           /\ SetSlot(Active) /\ EndTurn(TRUE)
           /\ UNCHANGED <<erased, typed_live>>
  <2>1. RingsInv' /\ Settles({}) /\ ContentsLose(c) /\ Contents(c) = typed[c]
    BY <1>1, <1>4, TypedTakeEffect DEF MInv, Contents
  <2>2. Tends(j) /\ HoldsNext(j, NoMsg, NoMsg)
    BY <1>1, <1>2, <1>4, PlainRuns
  <2>3. seen' = seen \cup {Head(Contents(c))}
    BY <1>3, <1>4, <2>1, HandHead
  <2>4. LedgerMove
    BY <1>1, <1>2, <1>3, <2>1, <2>2, <2>3, MoveReceive DEF AtTurn, Tends
  <2>5. Touches(j)
    BY <1>1, <1>2, <2>1, <2>2, <2>4, TendsTouches
  <2>6. CapacityStep
    BY <1>3, <2>1, CapacityLose DEF MInv
  <2>7. QED
    BY <1>2, <1>4, <2>5, <2>6, BusyTurn DEF AtTurn, EndTurn
<1>5. CASE /\ typed_live[c] /\ typed[c] = <<>>
           /\ erased' = Materialized({c}) /\ materialize_typed_i64_channel({c})
           /\ SetSlot(WaitRecv(<<c>>)) /\ EndTurn(FALSE)
           /\ UNCHANGED <<taken, seen>>
  <2>1. \A d \in Elements(<<c>>) : d \in OpenChan /\ d \in {c} /\ Materialized({c})[d] = <<>>
    BY <1>1, <1>3, <1>5, Retired DEF Contents
  <2>2. UNCHANGED histVars
    BY <1>1, <1>5 DEF histVars
  <2>3. QED
    BY <1>1, <1>2, <1>3, <1>5, <2>1, <2>2, PlainParked
<1>6. CASE ~typed_live[c] /\ UNCHANGED <<typed, typed_live>>
  <2>1. materialize_typed_i64_channel({}) /\ Materialized({}) = erased
    BY <1>6, NothingMaterialized DEF MInv
  <2>2. CASE /\ erased[c] # <<>> /\ Take(erased, c) /\ Hand(Head(erased[c]))
             /\ SetSlot(Active) /\ EndTurn(TRUE)
    BY <1>1, <1>2, <1>6, <2>1, <2>2, PlainTook
  <2>3. CASE /\ erased[c] = <<>> /\ SetSlot(WaitRecv(<<c>>)) /\ EndTurn(FALSE)
             /\ UNCHANGED <<erased, taken, seen>>
    <3>1. \A d \in Elements(<<c>>) : d \in OpenChan /\ ~typed_live[d] /\ Materialized({})[d] = <<>>
      BY <1>3, <1>6, <2>1, <2>3
    <3>2. UNCHANGED histVars /\ erased' = Materialized({})
      BY <1>1, <2>1, <2>3 DEF histVars
    <3>3. QED
      BY <1>1, <1>2, <2>1, <2>3, <3>1, <3>2, PlainParked
  <2>4. QED
    BY <1>1, <1>6, <2>2, <2>3
<1>7. QED
  BY <1>1, <1>4, <1>5, <1>6

\* A frame loop is installed.
LEMMA PlainLooped ==
  ASSUME MInv, IInv', NEW j, PlainNow(j), AtTurn(j), Outgoing(j) = NoMsg, Incoming(j) = NoMsg,
         NEW chs \in Arms, materialize_typed_i64_channel(Elements(chs)),
         erased' = Materialized(Elements(chs)),
         SetSlot(WaitFrameLoop(chs)) \/ SetSlot(Wait2Frame(chs)), pc' = pc, prog' = TRUE,
         UNCHANGED <<liveVars, frameVars, cap, chan_count, histVars>>
  PROVE  Outcome
<1>1. chs \in Seq(Chan) /\ Elements(chs) \subseteq OpenChan /\ Elements(chs) \in SUBSET Chan
  BY ArmsFacts
<1>2. PICK v : v \in {WaitFrameLoop(chs), Wait2Frame(chs)} /\ SetSlot(v)
  OBVIOUS
<1>3. Tends(j) /\ HoldsNext(j, NoMsg, NoMsg)
  BY <1>1, <1>2, PlainListens
<1>4. QED
  BY <1>1, <1>3, QuietOutcome

\* Installing a frame loop.
LEMMA InstallLoopOutcome == ASSUME MInv, IInv', PollFrameLoop \/ PollReadyFrameLoop PROVE Outcome
<1>0. PICK j : j = i
  OBVIOUS
<1>1. PICK chs \in Arms :
        /\ Poll("FrameLoop") \/ Poll("ReadyFrameLoop")
        /\ materialize_typed_i64_channel(Elements(chs))
        /\ erased' = Materialized(Elements(chs))
        /\ SetSlot(WaitFrameLoop(chs)) \/ SetSlot(Wait2Frame(chs))
        /\ pc' = pc /\ prog' = TRUE
        /\ UNCHANGED <<liveVars, frameVars, cap, chan_count, histVars>>
  <2>1. EndTurn(TRUE) => pc' = pc /\ prog' = TRUE
    BY DEF EndTurn
  <2>2. CASE PollFrameLoop
    BY <2>1, <2>2 DEF PollFrameLoop, Elements
  <2>3. CASE PollReadyFrameLoop
    BY <2>1, <2>3 DEF PollReadyFrameLoop, Elements
  <2>4. QED
    BY <2>2, <2>3
<1>2. PlainNow(j) /\ AtTurn(j) /\ Outgoing(j) = NoMsg /\ Incoming(j) = NoMsg
  BY <1>0, <1>1, Polled
<1>3. QED
  BY <1>1, <1>2, PlainLooped

\* Installing a frame loop that handles a ready message.
LEMMA Ready2LoopOutcome == ASSUME MInv, IInv', PollReady2FrameLoop PROVE Outcome
<1>0. PICK j : j = i
  OBVIOUS
<1>1. PICK chs \in Arms :
        /\ Poll("ReadyFrameLoop")
        /\ materialize_typed_i64_channel(Elements(chs))
        /\ \/ \E c \in first_message(Materialized(Elements(chs)), chs) :
                 /\ Take(Materialized(Elements(chs)), c)
                 /\ Hand(Head(Materialized(Elements(chs))[c]))
                 /\ SetSlot(Active) \/ SetSlot(WaitFrameLoop(chs))
           \/ /\ erased' = Materialized(Elements(chs))
              /\ SetSlot(WaitFrameLoop(chs))
              /\ UNCHANGED <<taken, seen>>
        /\ pc' = pc /\ prog' = TRUE
        /\ UNCHANGED <<liveVars, frameVars, cap, chan_count, issued, dropped>>
  BY DEF PollReady2FrameLoop, Elements, EndTurn
<1>2. PlainNow(j) /\ AtTurn(j) /\ Outgoing(j) = NoMsg /\ Incoming(j) = NoMsg
  BY <1>0, <1>1, Polled
<1>3. chs \in Seq(Chan) /\ Elements(chs) \subseteq OpenChan /\ Elements(chs) \in SUBSET Chan
  BY ArmsFacts
<1>4. ASSUME NEW c \in first_message(Materialized(Elements(chs)), chs),
             Take(Materialized(Elements(chs)), c), Hand(Head(Materialized(Elements(chs))[c])),
             SetSlot(Active) \/ SetSlot(WaitFrameLoop(chs))
      PROVE  Outcome
  <2>1. c \in Elements(chs) /\ c \in OpenChan /\ Materialized(Elements(chs))[c] # <<>>
    BY <1>3, FirstArm
  <2>2. Tends(j) /\ HoldsNext(j, NoMsg, NoMsg)
    <3>1. CASE SetSlot(Active)
      BY <1>1, <1>2, <3>1, PlainRuns
    <3>2. CASE SetSlot(WaitFrameLoop(chs))
      BY <1>1, <1>2, <1>3, <3>2, PlainListens
    <3>3. QED
      BY <1>4, <3>1, <3>2
  <2>3. QED
    BY <1>1, <1>2, <1>3, <1>4, <2>1, <2>2, ReceiveOutcome
<1>5. CASE /\ erased' = Materialized(Elements(chs))
           /\ SetSlot(WaitFrameLoop(chs))
           /\ UNCHANGED <<taken, seen>>
  <2>1. UNCHANGED histVars
    BY <1>1, <1>5 DEF histVars
  <2>2. QED
    BY <1>1, <1>2, <1>5, <2>1, PlainLooped
<1>6. QED
  BY <1>1, <1>4, <1>5

\* Installing a receive frame that is kept in its slot.
LEMMA ReceiveFrameOutcome == ASSUME MInv, IInv', PollReceiveFrame PROVE Outcome
<1>0. PICK j : j = i
  OBVIOUS
<1>1. PICK c \in OpenChan :
        /\ Poll("ReceiveFrame") /\ materialize_typed_i64_channel({c})
        /\ \/ /\ Materialized({c})[c] # <<>>
              /\ Take(Materialized({c}), c)
              /\ SetSlot(ReceiveFrameSlot(c, Head(Materialized({c})[c]), 1))
              /\ EndTurn(TRUE)
           \/ /\ Materialized({c})[c] = <<>>
              /\ erased' = Materialized({c})
              /\ SetSlot(ReceiveFrameSlot(c, NoMsg, 0))
              /\ EndTurn(FALSE)
              /\ UNCHANGED taken
        /\ UNCHANGED <<liveVars, frameVars, cap, chan_count, issued, seen, dropped>>
  BY DEF PollReceiveFrame
<1>2. PlainNow(j) /\ AtTurn(j) /\ Outgoing(j) = NoMsg /\ Incoming(j) = NoMsg
  BY <1>0, <1>1, Polled
<1>3. {c} \in SUBSET Chan /\ c \in {c} /\ c \in Chan
  BY OpenChanIsChan, IInvTypes DEF MInv
<1>4. ~typed_live'[c]
  BY <1>1, <1>3, Retired
<1>5. CASE /\ Materialized({c})[c] # <<>>
           /\ Take(Materialized({c}), c)
           /\ SetSlot(ReceiveFrameSlot(c, Head(Materialized({c})[c]), 1))
           /\ EndTurn(TRUE)
  <2>0. PICK h : h = Head(Materialized({c})[c])
    OBVIOUS
  <2>1. Tends(j) /\ HoldsNext(j, NoMsg, h)
    BY <1>1, <1>2, <1>4, <1>5, <2>0, PlainReceiving
  <2>2. pc' = pc /\ prog' = TRUE
    BY <1>5 DEF EndTurn
  <2>3. QED
    BY <1>1, <1>2, <1>3, <1>5, <2>0, <2>1, <2>2, FetchOutcome
<1>6. CASE /\ Materialized({c})[c] = <<>>
           /\ erased' = Materialized({c})
           /\ SetSlot(ReceiveFrameSlot(c, NoMsg, 0))
           /\ EndTurn(FALSE)
           /\ UNCHANGED taken
  <2>1. Contents(c)' = <<>>
    BY <1>4, <1>6 DEF Contents
  <2>2. Tends(j) /\ HoldsNext(j, NoMsg, NoMsg) /\ Rests(j)'
    BY <1>1, <1>2, <1>4, <1>6, <2>1, PlainReceiving
  <2>3. UNCHANGED histVars
    BY <1>1, <1>6 DEF histVars
  <2>4. QED
    BY <1>1, <1>2, <1>3, <1>6, <2>2, <2>3, ParkOutcome
<1>7. QED
  BY <1>1, <1>5, <1>6

----------------------------------------------------------------------------
(* Turns of frames. *)

\* A frame of this kind in slot j, at its turn or when the close pass gets to it.
FrameNow(j, kind) ==
  /\ j \in Slot /\ j = i /\ is_live(slots[j]) /\ SlotInv(j)
  /\ slots[j] = FrameSlot(kind) /\ frame_kinds[j] = kind /\ kind # 0
  /\ frame_channels[j] \in Seq(Nat) /\ frame_pending[j] \in Nat

\* What a frame may rely on at its turn.
LEMMA FrameTurnFacts ==
  ASSUME MInv, NEW kind \in 1..7, LiveTurn(kind), NEW j, j = i
  PROVE  FrameNow(j, kind) /\ AtTurn(j)
<1>1. Turn /\ i \in Slot /\ frame_kinds[i] = kind /\ frame_channels[i] \in Seq(Nat)
      /\ frame_pending[i] \in Nat
  BY LiveTurnFacts DEF MInv
<1>2. SlotInv(j) /\ Aligned(j)
  BY <1>1 DEF MInv, IInv, TableInv
<1>3. slots[j].tag = "FrameSlot" /\ kind # 0
  BY <1>1, <1>2 DEF Aligned, Dispatchable
<1>4. slots[j] = FrameSlot(kind)
  BY <1>1, <1>2, <1>3 DEF SlotInv, Carried
<1>5. QED
  BY <1>1, <1>2, <1>3, <1>4 DEF FrameNow, AtTurn, is_live

\* What a frame holds.
LEMMA FrameHolds ==
  ASSUME NEW j, NEW kind, FrameNow(j, kind)
  PROVE  /\ Outgoing(j) = IF kind \in ProduceKinds THEN frame_pending[j] ELSE NoMsg
         /\ Incoming(j) = IF kind \in ReceiveKinds THEN frame_pending[j] ELSE NoMsg
BY FrameSlotIs DEF FrameNow, Outgoing, Incoming, ReceiveKinds, ProduceKinds

\* The channels of a frame that sends or receives.
LEMMA FrameChans ==
  ASSUME MInv, NEW j, NEW kind \in ReceiveKinds \cup ProduceKinds, FrameNow(j, kind)
  PROVE  /\ frame_channels[j] # <<>> /\ Elements(frame_channels[j]) \subseteq OpenChan
         /\ Elements(frame_channels[j]) \in SUBSET Chan /\ frame_channels[j] \in Seq(Chan)
         /\ frame_channels[j][1] \in Elements(frame_channels[j])
         /\ kind = ReceiveLane => \A c \in Elements(frame_channels[j]) : ~typed_live[c]
<1>1. /\ frame_channels[j] # <<>> /\ Elements(frame_channels[j]) \subseteq OpenChan
      /\ kind = ReceiveLane => \A c \in Elements(frame_channels[j]) : ~typed_live[c]
  BY DEF FrameNow, SlotInv, Moored
<1>2. Elements(frame_channels[j]) \in SUBSET Chan
  BY <1>1, OpenChanIsChan, IInvTypes DEF MInv
<1>3. frame_channels[j] \in Seq(Nat)
  BY DEF FrameNow
<1>4. frame_channels[j][1] \in Elements(frame_channels[j])
  BY <1>1, <1>3 DEF Elements
<1>5. frame_channels[j] \in Seq(Chan)
  <2>1. \A k \in 1..Len(frame_channels[j]) : frame_channels[j][k] \in Chan
    BY <1>2, <1>3 DEF Elements
  <2>2. ASSUME NEW q \in Seq(Nat), \A k \in 1..Len(q) : q[k] \in Chan PROVE q \in Seq(Chan)
    BY <2>2
  <2>3. QED
    BY <1>3, <2>1, <2>2
<1>6. QED
  BY <1>1, <1>2, <1>4, <1>5

\* A frame goes on, in another phase.
LEMMA FrameGoesOn ==
  ASSUME MInv, NEW j, NEW kind, FrameNow(j, kind), NEW phase, SetPhase(phase),
         NEW m, SetPending(m) \/ (UNCHANGED frame_pending /\ m = frame_pending[j]),
         NEW chs, \/ frame_channels' = [frame_channels EXCEPT ![i] = chs]
                  \/ UNCHANGED frame_channels /\ chs = frame_channels[j],
         UNCHANGED <<slots, frame_kinds>>
  PROVE  OthersStay(j) /\ Framed(j, kind, phase, chs, m)
BY DEF MInv, IInv, TableInv, FrameTypes, FrameNow, SetPhase, SetPending, OthersStay, Framed

\* A frame finishes.
LEMMA FrameFinishes ==
  ASSUME MInv, NEW j, j \in Slot, j = i, FinishFrame,
         SetPending(NoMsg) \/ (UNCHANGED frame_pending /\ frame_pending[j] = NoMsg),
         UNCHANGED <<liveVars, cap, chan_count>>
  PROVE  Tends(j) /\ HoldsNext(j, NoMsg, NoMsg)
<1>1. OthersStay(j) /\ Plainly(j, Active)
  BY DEF MInv, IInv, TableInv, FrameTypes, SlotTypes, FinishFrame, SetSlot, SetKind, SetPending,
     OthersStay, Plainly
<1>2. QED
  BY <1>1, LeftActive DEF Tends

\* A receive frame goes on.
LEMMA ReceiverGoesOn ==
  ASSUME MInv, IInv', NEW j \in Slot, NEW kind \in ReceiveKinds, NEW phase, NEW m, NEW chs,
         OthersStay(j), Framed(j, kind, phase, chs, m), phase # 1 => m = NoMsg,
         chs # <<>>, Elements(chs) \subseteq OpenChan,
         kind = ReceiveLane => \A c \in Elements(chs) : ~typed_live'[c],
         UNCHANGED <<liveVars, cap, chan_count>>
  PROVE  /\ Tends(j) /\ HoldsNext(j, NoMsg, m)
         /\ phase # 1 /\ (\A c \in Elements(chs) : Contents(c)' = <<>>) => Rests(j)'
<1>1. \A c \in Elements(chs) : c \in OpenChan'
  BY DEF OpenChan
<1>2. QED
  BY <1>1, LeftReceiveFrame DEF Tends

\* A receive frame is activated.
LEMMA ActivateOutcome ==
  ASSUME MInv, IInv', NEW kind \in ReceiveKinds, LiveTurn(kind), NEW next_channels,
         Activate(next_channels),
         \A chs \in next_channels :
            /\ chs # <<>> /\ Elements(chs) \subseteq OpenChan
            /\ kind = ReceiveLane => \A c \in Elements(chs) : ~typed_live[c]
  PROVE  Outcome
<1>0. PICK j : j = i
  OBVIOUS
<1>1. /\ Hand(frame_pending[j]) /\ SetPending(NoMsg)
      /\ \/ FinishFrame
         \/ /\ SetPhase(2)
            /\ \E chs \in next_channels :
                  frame_channels' = [frame_channels EXCEPT ![i] = chs]
            /\ UNCHANGED <<slots, frame_kinds>>
      /\ EndTurn(TRUE)
      /\ UNCHANGED <<liveVars, chanVars, issued, taken, dropped>>
  BY <1>0 DEF Activate
<1>2. FrameNow(j, kind) /\ AtTurn(j) /\ j \in Slot
  BY <1>0, FrameTurnFacts DEF ReceiveKinds, ReceiveLane, ReceiveState, SelectLane, FrameNow
<1>3. Outgoing(j) = NoMsg /\ Incoming(j) = frame_pending[j]
  BY <1>2, FrameHolds, KindFacts
<1>4. UNCHANGED <<cap, chan_count, typed_live>>
  BY <1>1 DEF chanVars
<1>5. Tends(j) /\ HoldsNext(j, NoMsg, NoMsg)
  <2>1. CASE FinishFrame
    BY <1>0, <1>1, <1>2, <1>4, <2>1, FrameFinishes
  <2>2. ASSUME NEW chs \in next_channels, SetPhase(2),
               frame_channels' = [frame_channels EXCEPT ![i] = chs],
               UNCHANGED <<slots, frame_kinds>>
        PROVE  Tends(j) /\ HoldsNext(j, NoMsg, NoMsg)
    <3>1. OthersStay(j) /\ Framed(j, kind, 2, chs, NoMsg)
      BY <1>1, <1>2, <2>2, FrameGoesOn
    <3>2. QED
      BY <1>1, <1>2, <1>4, <2>2, <3>1, ReceiverGoesOn
  <2>3. QED
    BY <1>1, <2>1, <2>2
<1>6. pc' = pc /\ prog' = TRUE
  BY <1>1 DEF EndTurn
<1>7. QED
  BY <1>1, <1>2, <1>3, <1>5, <1>6, HandOverOutcome

\* A receive frame probes its channels.
LEMMA ProbeOutcome ==
  ASSUME MInv, IInv', NEW kind \in ReceiveKinds, LiveTurn(kind), NEW C \in SUBSET Chan,
         materialize_typed_i64_channel(C), Probe(Materialized(C)),
         \A c \in Elements(frame_channels[i]) : c \in C \/ ~typed_live[c]
  PROVE  Outcome
<1>0. PICK j, chs : j = i /\ chs = frame_channels[j]
  OBVIOUS
<1>1. /\ frame_phases[j] # 1
      /\ \/ \E c \in first_message(Materialized(C), chs) :
               /\ Take(Materialized(C), c)
               /\ SetPending(Head(Materialized(C)[c])) /\ SetPhase(1)
               /\ EndTurn(TRUE)
         \/ /\ first_message(Materialized(C), chs) = {}
            /\ erased' = Materialized(C)
            /\ SetPhase(0)
            /\ EndTurn(FALSE)
            /\ UNCHANGED <<taken, frame_pending>>
      /\ UNCHANGED <<slots, liveVars, frame_kinds, frame_channels, cap, chan_count,
                     issued, seen, dropped>>
  BY <1>0 DEF Probe, tableVars
<1>2. FrameNow(j, kind) /\ AtTurn(j) /\ j \in Slot
  BY <1>0, FrameTurnFacts DEF ReceiveKinds, ReceiveLane, ReceiveState, SelectLane, FrameNow
<1>3. Outgoing(j) = NoMsg /\ Incoming(j) = NoMsg /\ frame_pending[j] = NoMsg
  BY <1>1, <1>2, FrameHolds, KindFacts DEF FrameNow, SlotInv, Carried
<1>4. /\ chs # <<>> /\ Elements(chs) \subseteq OpenChan /\ chs \in Seq(Chan)
      /\ Elements(chs) \in SUBSET Chan
  BY <1>0, <1>2, FrameChans
<1>5. \A c \in Elements(chs) : (c \in C \/ ~typed_live[c]) /\ ~typed_live'[c]
  BY <1>0, <1>1, <1>4, Retired
<1>6. ASSUME NEW c \in first_message(Materialized(C), chs), Take(Materialized(C), c),
             SetPending(Head(Materialized(C)[c])), SetPhase(1), EndTurn(TRUE)
      PROVE  Outcome
  <2>0. PICK h : h = Head(Materialized(C)[c])
    OBVIOUS
  <2>1. c \in Elements(chs) /\ Materialized(C)[c] # <<>>
    BY FirstArm
  <2>2. OthersStay(j) /\ Framed(j, kind, 1, chs, h)
    BY <1>0, <1>1, <1>2, <1>6, <2>0, FrameGoesOn
  <2>3. Tends(j) /\ HoldsNext(j, NoMsg, h)
    BY <1>1, <1>2, <1>4, <1>5, <2>2, ReceiverGoesOn
  <2>4. pc' = pc /\ prog' = TRUE
    BY <1>6 DEF EndTurn
  <2>5. QED
    BY <1>1, <1>2, <1>3, <1>4, <1>5, <1>6, <2>0, <2>1, <2>3, <2>4, FetchOutcome
<1>7. CASE /\ first_message(Materialized(C), chs) = {}
           /\ erased' = Materialized(C)
           /\ SetPhase(0)
           /\ EndTurn(FALSE)
           /\ UNCHANGED <<taken, frame_pending>>
  <2>1. \A c \in Elements(chs) : Contents(c)' = <<>>
    BY <1>4, <1>5, <1>7, NoArm DEF Contents
  <2>2. OthersStay(j) /\ Framed(j, kind, 0, chs, NoMsg)
    BY <1>0, <1>1, <1>2, <1>3, <1>7, FrameGoesOn
  <2>3. Tends(j) /\ HoldsNext(j, NoMsg, NoMsg) /\ Rests(j)'
    BY <1>1, <1>2, <1>4, <1>5, <2>1, <2>2, ReceiverGoesOn
  <2>4. UNCHANGED histVars
    BY <1>1, <1>7 DEF histVars
  <2>5. QED
    BY <1>2, <1>3, <1>7, <2>3, <2>4, ParkOutcome
<1>8. QED
  BY <1>1, <1>6, <1>7

\* A turn of a lane frame.
LEMMA ReceiveLaneOutcome == ASSUME MInv, IInv', ReceiveLaneTurn PROVE Outcome
<1>1. LiveTurn(ReceiveLane) /\ ReceiveLane \in ReceiveKinds
  BY KindFacts DEF ReceiveLaneTurn
<1>2. FrameNow(i, ReceiveLane)
  BY <1>1, FrameTurnFacts DEF ReceiveLane
<1>3. /\ frame_channels[i] # <<>> /\ Elements(frame_channels[i]) \subseteq OpenChan
      /\ \A c \in Elements(frame_channels[i]) : ~typed_live[c]
  BY <1>1, <1>2, FrameChans
<1>4. CASE Activate({frame_channels[i]})
  BY <1>1, <1>3, <1>4, ActivateOutcome
<1>5. CASE Probe(erased) /\ UNCHANGED <<typed, typed_live>>
  <2>1. materialize_typed_i64_channel({}) /\ Materialized({}) = erased
    BY <1>5, NothingMaterialized DEF MInv
  <2>2. QED
    BY <1>1, <1>3, <1>5, <2>1, ProbeOutcome
<1>6. QED
  BY <1>4, <1>5 DEF ReceiveLaneTurn

\* A frame that materializes its channels probes them.
LEMMA MaterializingProbeOutcome ==
  ASSUME MInv, IInv', NEW kind \in ReceiveKinds, LiveTurn(kind),
         Probe(Materialized(FrameChannels)), materialize_typed_i64_channel(FrameChannels)
  PROVE  Outcome
<1>1. FrameNow(i, kind)
  BY FrameTurnFacts DEF ReceiveKinds, ReceiveLane, ReceiveState, SelectLane
<1>2. Elements(frame_channels[i]) \in SUBSET Chan /\ FrameChannels = Elements(frame_channels[i])
  BY <1>1, FrameChans DEF FrameChannels, Elements
<1>3. QED
  BY <1>2, ProbeOutcome

\* A turn of a state frame.
LEMMA ReceiveStateOutcome == ASSUME MInv, IInv', ReceiveStateTurn PROVE Outcome
<1>1. LiveTurn(ReceiveState) /\ ReceiveState \in ReceiveKinds /\ ReceiveState # ReceiveLane
  BY KindFacts DEF ReceiveStateTurn
<1>2. CASE Activate({<<c>> : c \in OpenChan})
  <2>1. \A chs \in {<<c>> : c \in OpenChan} : chs # <<>> /\ Elements(chs) \subseteq OpenChan
    BY ElementsOf
  <2>2. QED
    BY <1>1, <1>2, <2>1, ActivateOutcome
<1>3. CASE Probe(Materialized(FrameChannels)) /\ materialize_typed_i64_channel(FrameChannels)
  BY <1>1, <1>3, MaterializingProbeOutcome
<1>4. QED
  BY <1>2, <1>3 DEF ReceiveStateTurn

\* The arms of a pair.
LEMMA ElementsOfPair ==
  ASSUME NEW S, NEW chs \in S \X S PROVE chs # <<>> /\ Elements(chs) \subseteq S
<1>1. PICK a \in S, b \in S : chs = <<a, b>>
  OBVIOUS
<1>2. QED
  BY <1>1 DEF Elements

\* A turn of a select frame.
LEMMA SelectLaneOutcome == ASSUME MInv, IInv', SelectLaneTurn PROVE Outcome
<1>1. LiveTurn(SelectLane) /\ SelectLane \in ReceiveKinds /\ SelectLane # ReceiveLane
  BY KindFacts DEF SelectLaneTurn
<1>2. CASE Activate(OpenChan \X OpenChan)
  <2>1. \A chs \in OpenChan \X OpenChan : chs # <<>> /\ Elements(chs) \subseteq OpenChan
    BY ElementsOfPair
  <2>2. QED
    BY <1>1, <1>2, <2>1, ActivateOutcome
<1>3. CASE Probe(Materialized(FrameChannels)) /\ materialize_typed_i64_channel(FrameChannels)
  BY <1>1, <1>3, MaterializingProbeOutcome
<1>4. QED
  BY <1>2, <1>3 DEF SelectLaneTurn

\* A frame issues a message that it will try to send at its next turn.
LEMMA PrepareOutcome ==
  ASSUME MInv, IInv', NEW j, AtTurn(j), Tends(j), pc' = pc, prog' = TRUE, UNCHANGED chanVars,
         NEW c \in OpenChan, Issue(c), Outgoing(j) = NoMsg, HoldsNext(j, NextMsg, Incoming(j)),
         UNCHANGED <<taken, seen, dropped>>
  PROVE  Outcome
<1>1. UNCHANGED <<erased, typed, typed_live, chan_count>> /\ c \in Chan
  BY OpenChanIsChan, IInvTypes DEF chanVars, MInv
<1>2. materialize_typed_i64_channel({}) /\ Materialized({}) = erased
  BY <1>1, NothingMaterialized DEF MInv
<1>3. RingsInv' /\ Settles({}) /\ ContentsStay
  BY <1>1, <1>2, StillEffect DEF MInv
<1>4. LedgerMove
  BY <1>1, <1>3, MoveHold DEF AtTurn, Tends
<1>5. Touches(j)
  BY <1>1, <1>3, <1>4, TendsTouches
<1>6. CapacityStep
  BY <1>3, CapacityStays DEF MInv
<1>7. QED
  BY <1>5, <1>6, BusyTurn DEF AtTurn

\* A producer frame goes on.
LEMMA ProducerGoesOn ==
  ASSUME MInv, IInv', NEW j \in Slot, NEW kind \in ProduceKinds, NEW phase, NEW m, NEW c, NEW chs,
         OthersStay(j), Framed(j, kind, phase, chs, m), chs # <<>>, c = chs[1],
         Elements(chs) \subseteq OpenChan, m # NoMsg => IssuedFor(m, c)',
         kind # TerminalProduceState /\ phase = 1 => m = NoMsg,
         UNCHANGED <<liveVars, cap, chan_count>>
  PROVE  /\ Tends(j) /\ HoldsNext(j, m, NoMsg)
         /\ ~HasRoom(erased, c)' => Rests(j)'
<1>1. \A d \in Elements(chs) : d \in OpenChan'
  BY DEF OpenChan
<1>2. QED
  BY <1>1, LeftProducer DEF Tends

\* The kinds of producer frames are kinds.
LEMMA ProduceKindRange == ProduceKinds \subseteq 1..7
BY DEF ProduceKinds, Produce, ProduceState, TerminalProduceState

\* What a producer frame with a message to send may rely on.
LEMMA PendingSend ==
  ASSUME MInv, NEW j, NEW kind \in ProduceKinds, FrameNow(j, kind), frame_pending[j] # NoMsg,
         NEW c, c = frame_channels[j][1], NEW m, m = frame_pending[j]
  PROVE  /\ c \in OpenChan /\ c \in Chan /\ IssuedFor(m, c) /\ m \in Nat /\ m # NoMsg
         /\ Outgoing(j) = m /\ Incoming(j) = NoMsg
<1>1. c \in OpenChan /\ c \in Chan
  BY FrameChans
<1>2. Outgoing(j) = m /\ Incoming(j) = NoMsg
  BY FrameHolds, KindFacts
<1>3. IssuedFor(m, c) /\ m \in Nat
  BY DEF FrameNow, SlotInv, Addressed
<1>4. QED
  BY <1>1, <1>2, <1>3

\* A producer frame whose send finds no room.
LEMMA ProducerParks ==
  ASSUME MInv, IInv', NEW j, NEW kind \in ProduceKinds, FrameNow(j, kind), AtTurn(j),
         frame_pending[j] # NoMsg, NEW c, c = frame_channels[j][1],
         materialize_typed_i64_channel({c}), ~HasRoom(Materialized({c}), c),
         erased' = Materialized({c}), SetPhase(3), EndTurn(FALSE),
         UNCHANGED <<slots, liveVars, frame_kinds, frame_pending, frame_channels, cap, chan_count,
                     histVars>>
  PROVE  Outcome
<1>0. PICK chs, m : chs = frame_channels[j] /\ m = frame_pending[j]
  OBVIOUS
<1>1. /\ c \in OpenChan /\ c \in Chan /\ IssuedFor(m, c) /\ m # NoMsg
      /\ Outgoing(j) = m /\ Incoming(j) = NoMsg
  BY <1>0, PendingSend
<1>2. OthersStay(j) /\ Framed(j, kind, 3, chs, m)
  BY <1>0, FrameGoesOn
<1>3. IssuedFor(m, c)' /\ ~HasRoom(erased, c)'
  BY <1>1 DEF IssuedFor, histVars, HasRoom
<1>4. chs # <<>> /\ Elements(chs) \subseteq OpenChan /\ j \in Slot
  BY <1>0, FrameChans DEF FrameNow
<1>5. Tends(j) /\ HoldsNext(j, m, NoMsg) /\ Rests(j)'
  <2>1. c = chs[1] /\ 3 # 1
    BY <1>0
  <2>2. Tends(j) /\ HoldsNext(j, m, NoMsg) /\ (~HasRoom(erased, c)' => Rests(j)')
    BY <1>2, <1>3, <1>4, <2>1, ProducerGoesOn
  <2>3. QED
    BY <1>3, <2>2
<1>6. QED
  BY <1>1, <1>5, ParkOutcome

\* A turn of a producer frame.
LEMMA ProducerOutcome ==
  ASSUME MInv, IInv', NEW kind \in {Produce, ProduceState}, LiveTurn(kind), NEW left,
         ProducerTurn(left), left = NoMsg \/ left = frame_pending[i]
  PROVE  Outcome
<1>0. PICK j, c, m : j = i /\ c = frame_channels[j][1] /\ m = frame_pending[j]
  OBVIOUS
<1>1. kind \in ProduceKinds /\ kind # TerminalProduceState /\ kind \notin ReceiveKinds
  BY KindFacts
<1>2. FrameNow(j, kind) /\ AtTurn(j) /\ j \in Slot
  BY <1>0, <1>1, FrameTurnFacts, ProduceKindRange DEF FrameNow
<1>3. Outgoing(j) = m /\ Incoming(j) = NoMsg
  BY <1>0, <1>1, <1>2, FrameHolds
<1>4. CASE /\ frame_phases[i] = 1 /\ HasRecipe(i)
           /\ \/ FinishFrame /\ SetPending(left) /\ UNCHANGED <<polls, issued>>
              \/ /\ Spend
                 /\ \E d \in OpenChan :
                       /\ Issue(d)
                       /\ frame_channels' = [frame_channels EXCEPT ![i] = <<d>>]
                 /\ SetPending(NextMsg) /\ SetPhase(2)
                 /\ UNCHANGED <<slots, frame_kinds, frame_recipes, recipes>>
           /\ EndTurn(TRUE)
           /\ UNCHANGED <<liveVars, chanVars, taken, seen, dropped>>
  <2>1. m = NoMsg /\ left = NoMsg
    BY <1>0, <1>2, <1>4 DEF FrameNow, SlotInv, Carried
  <2>2. UNCHANGED <<erased, typed, typed_live, cap, chan_count>> /\ pc' = pc /\ prog' = TRUE
    BY <1>4 DEF chanVars, EndTurn
  <2>3. CASE FinishFrame /\ SetPending(left) /\ UNCHANGED issued
    <3>1. materialize_typed_i64_channel({}) /\ erased' = Materialized({})
      BY <2>2, NothingMaterialized DEF MInv
    <3>2. Tends(j) /\ HoldsNext(j, NoMsg, NoMsg)
      BY <1>0, <1>2, <1>4, <2>1, <2>2, <2>3, FrameFinishes
    <3>3. UNCHANGED histVars
      BY <1>4, <2>3 DEF histVars
    <3>4. QED
      BY <1>2, <1>3, <2>1, <2>2, <3>1, <3>2, <3>3, QuietOutcome
  <2>4. ASSUME NEW d \in OpenChan, Issue(d),
               frame_channels' = [frame_channels EXCEPT ![i] = <<d>>],
               SetPending(NextMsg), SetPhase(2), UNCHANGED <<slots, frame_kinds>>
        PROVE  Outcome
    <3>0. PICK x : x = NextMsg
      OBVIOUS
    <3>1. OthersStay(j) /\ Framed(j, kind, 2, <<d>>, x)
      BY <1>2, <2>4, <3>0, FrameGoesOn
    <3>2. IssuedFor(x, d)'
      BY <1>2, <2>4, <3>0, IssuedNow DEF AtTurn
    <3>3. <<d>> # <<>> /\ <<d>>[1] = d /\ Elements(<<d>>) \subseteq OpenChan
      BY ElementsOf
    <3>4. Tends(j) /\ HoldsNext(j, x, NoMsg)
      BY <1>1, <1>2, <1>4, <2>2, <3>1, <3>2, <3>3, ProducerGoesOn
    <3>5. QED
      BY <1>2, <1>3, <1>4, <2>1, <2>2, <2>4, <3>0, <3>4, PrepareOutcome
  <2>5. QED
    BY <1>4, <2>3, <2>4
<1>5. CASE /\ frame_phases[i] # 1 /\ m # NoMsg
           /\ materialize_typed_i64_channel({c})
           /\ \/ /\ HasRoom(Materialized({c}), c)
                 /\ Put(Materialized({c}), c, m)
                 /\ SetPending(NoMsg) /\ SetPhase(1)
                 /\ EndTurn(TRUE)
              \/ /\ ~HasRoom(Materialized({c}), c)
                 /\ erased' = Materialized({c})
                 /\ SetPhase(3)
                 /\ EndTurn(FALSE)
                 /\ UNCHANGED frame_pending
           /\ UNCHANGED <<slots, liveVars, frame_kinds, tableVars, cap, chan_count,
                          polls, histVars>>
  <2>0. UNCHANGED frame_channels
    BY <1>5 DEF tableVars
  <2>1. /\ c \in OpenChan /\ c \in Chan /\ IssuedFor(m, c) /\ m \in Nat /\ m # NoMsg
        /\ Outgoing(j) = m /\ Incoming(j) = NoMsg
    BY <1>0, <1>1, <1>2, <1>5, PendingSend
  <2>2. CASE /\ HasRoom(Materialized({c}), c)
             /\ Put(Materialized({c}), c, m)
             /\ SetPending(NoMsg) /\ SetPhase(1)
             /\ EndTurn(TRUE)
    <3>0. PICK chs : chs = frame_channels[j]
      OBVIOUS
    <3>1. OthersStay(j) /\ Framed(j, kind, 1, chs, NoMsg)
      BY <1>2, <1>5, <2>0, <2>2, <3>0, FrameGoesOn
    <3>2. chs # <<>> /\ Elements(chs) \subseteq OpenChan /\ c = chs[1]
      BY <1>0, <1>1, <1>2, <3>0, FrameChans
    <3>3. Tends(j) /\ HoldsNext(j, NoMsg, NoMsg)
      BY <1>1, <1>2, <1>5, <3>1, <3>2, ProducerGoesOn
    <3>4. pc' = pc /\ prog' = TRUE /\ {c} \in SUBSET Chan /\ c \in {c}
      BY <2>1, <2>2 DEF EndTurn
    <3>5. QED
      BY <1>2, <1>5, <2>1, <2>2, <3>3, <3>4, ReleaseOutcome
  <2>3. CASE /\ ~HasRoom(Materialized({c}), c)
             /\ erased' = Materialized({c})
             /\ SetPhase(3)
             /\ EndTurn(FALSE)
             /\ UNCHANGED frame_pending
    BY <1>0, <1>1, <1>2, <1>5, <2>0, <2>3, ProducerParks
  <2>4. QED
    BY <1>5, <2>2, <2>3
<1>6. QED
  BY <1>0, <1>4, <1>5 DEF ProducerTurn

\* A turn of a producer frame, of either kind that goes on.
LEMMA ProduceOutcome == ASSUME MInv, IInv', ProduceFrameTurn \/ ProduceStateTurn PROVE Outcome
<1>1. CASE ProduceFrameTurn
  BY <1>1, ProducerOutcome DEF ProduceFrameTurn
<1>2. CASE ProduceStateTurn
  BY <1>2, ProducerOutcome DEF ProduceStateTurn
<1>3. QED
  BY <1>1, <1>2

\* A turn of a terminal producer.
LEMMA TerminalOutcome == ASSUME MInv, IInv', TerminalProduceTurn PROVE Outcome
<1>0. PICK j, c, m : j = i /\ c = frame_channels[j][1] /\ m = frame_pending[j]
  OBVIOUS
<1>1. /\ LiveTurn(TerminalProduceState) /\ m # NoMsg
      /\ materialize_typed_i64_channel({c})
      /\ \/ /\ HasRoom(Materialized({c}), c)
            /\ Put(Materialized({c}), c, m)
            /\ SetPending(NoMsg) /\ FinishFrame /\ EndTurn(TRUE)
         \/ /\ ~HasRoom(Materialized({c}), c)
            /\ erased' = Materialized({c})
            /\ SetPhase(3) /\ EndTurn(FALSE)
            /\ UNCHANGED <<slots, frame_kinds, frame_pending, frame_channels>>
      /\ UNCHANGED <<liveVars, cap, chan_count, histVars>>
  BY <1>0 DEF TerminalProduceTurn, tableVars
<1>2. TerminalProduceState \in ProduceKinds
  BY KindFacts
<1>3. FrameNow(j, TerminalProduceState) /\ AtTurn(j) /\ j \in Slot
  BY <1>0, <1>1, <1>2, FrameTurnFacts, ProduceKindRange DEF FrameNow
<1>4. /\ c \in OpenChan /\ c \in Chan /\ IssuedFor(m, c) /\ m \in Nat
      /\ Outgoing(j) = m /\ Incoming(j) = NoMsg
  BY <1>0, <1>1, <1>2, <1>3, PendingSend
<1>5. CASE /\ HasRoom(Materialized({c}), c)
           /\ Put(Materialized({c}), c, m)
           /\ SetPending(NoMsg) /\ FinishFrame /\ EndTurn(TRUE)
  <2>1. Tends(j) /\ HoldsNext(j, NoMsg, NoMsg)
    BY <1>0, <1>1, <1>3, <1>5, FrameFinishes
  <2>2. pc' = pc /\ prog' = TRUE /\ {c} \in SUBSET Chan /\ c \in {c}
    BY <1>4, <1>5 DEF EndTurn
  <2>3. QED
    BY <1>1, <1>3, <1>4, <1>5, <2>1, <2>2, ReleaseOutcome
<1>6. CASE /\ ~HasRoom(Materialized({c}), c)
           /\ erased' = Materialized({c})
           /\ SetPhase(3) /\ EndTurn(FALSE)
           /\ UNCHANGED <<slots, frame_kinds, frame_pending, frame_channels>>
  BY <1>0, <1>1, <1>2, <1>3, <1>6, ProducerParks
<1>7. QED
  BY <1>1, <1>5, <1>6

\* A turn of a join.
LEMMA JoinOutcome == ASSUME MInv, IInv', JoinTurn PROVE Outcome
<1>0. PICK j : j = i
  OBVIOUS
<1>1. /\ LiveTurn(Join)
      /\ \/ FinishFrame /\ EndTurn(TRUE)
         \/ /\ slot_live[frame_channels[j][1]]
            /\ EndTurn(FALSE)
            /\ UNCHANGED <<slots, frame_kinds, frame_phases, tableVars>>
      /\ UNCHANGED <<liveVars, frame_pending, chanVars, histVars>>
  BY <1>0 DEF JoinTurn
<1>2. FrameNow(j, Join) /\ AtTurn(j) /\ j \in Slot
  BY <1>0, <1>1, FrameTurnFacts DEF FrameNow, Join
<1>3. Outgoing(j) = NoMsg /\ Incoming(j) = NoMsg /\ frame_pending[j] = NoMsg
  BY <1>2, FrameHolds, KindFacts DEF FrameNow, SlotInv, Carried
<1>4. UNCHANGED <<erased, typed, typed_live, cap, chan_count>>
  BY <1>1 DEF chanVars
<1>5. CASE FinishFrame /\ EndTurn(TRUE)
  <2>1. materialize_typed_i64_channel({}) /\ erased' = Materialized({})
    BY <1>4, NothingMaterialized DEF MInv
  <2>2. Tends(j) /\ HoldsNext(j, NoMsg, NoMsg)
    BY <1>0, <1>1, <1>2, <1>3, <1>4, <1>5, FrameFinishes
  <2>3. QED
    BY <1>1, <1>2, <1>3, <1>5, <2>1, <2>2, QuietOutcome DEF EndTurn
<1>6. CASE /\ slot_live[frame_channels[j][1]]
           /\ EndTurn(FALSE)
           /\ UNCHANGED <<slots, frame_kinds, frame_phases, tableVars>>
  <2>1. Waits(j) /\ slots[j].tag = "FrameSlot" /\ frame_kinds[j] \notin ReceiveKinds
    BY <1>2, <1>6, FrameSlotIs, KindFacts DEF FrameNow, Waits, ReceiveTags
  <2>2. UNCHANGED <<slots, liveVars, frameVars, chanVars, histVars>>
    BY <1>1, <1>6 DEF frameVars
  <2>3. QED
    BY <1>2, <1>6, <2>1, <2>2, StillTurn DEF AtTurn
<1>7. QED
  BY <1>1, <1>5, <1>6

----------------------------------------------------------------------------
(* Operations that install a frame. *)

\* A plain slot starts to execute a frame.
LEMMA FrameInstalled ==
  ASSUME MInv, NEW j, PlainNow(j), NEW kind, NEW chs, NEW held, StoreFrame(kind, chs, held),
         SetSlot(FrameSlot(kind)), SetKind(kind),
         NEW phase, SetPhase(phase) \/ (UNCHANGED frame_phases /\ phase = frame_phases[j]),
         NEW m, SetPending(m) \/ (UNCHANGED frame_pending /\ m = NoMsg)
  PROVE  OthersStay(j) /\ Framed(j, kind, phase, chs, m)
BY DEF MInv, IInv, TableInv, SlotTypes, FrameTypes, PlainNow, StoreFrame, SetSlot, SetKind, SetPhase,
   SetPending, OthersStay, Framed

\* A receive frame is installed and probes its channels.
LEMMA InstallReceiveOutcome ==
  ASSUME MInv, IInv', NEW op, Poll(op), NEW kind \in ReceiveKinds, NEW chs \in Seq(Chan),
         chs # <<>>, Elements(chs) \subseteq OpenChan, InstallReceive(kind, chs)
  PROVE  Outcome
<1>0. PICK j, C : j = i /\ C = Elements(chs)
  OBVIOUS
<1>1. /\ StoreFrame(kind, chs, kind) /\ SetSlot(FrameSlot(kind)) /\ SetKind(kind)
      /\ materialize_typed_i64_channel(C)
      /\ \/ \E c \in first_message(Materialized(C), chs) :
               /\ Take(Materialized(C), c)
               /\ SetPending(Head(Materialized(C)[c])) /\ SetPhase(1)
               /\ EndTurn(TRUE)
         \/ /\ first_message(Materialized(C), chs) = {}
            /\ erased' = Materialized(C)
            /\ SetPhase(0)
            /\ EndTurn(FALSE)
            /\ UNCHANGED <<taken, frame_pending>>
      /\ UNCHANGED <<liveVars, cap, chan_count, issued, seen, dropped>>
  BY <1>0 DEF InstallReceive, Elements
<1>2. PlainNow(j) /\ AtTurn(j) /\ Outgoing(j) = NoMsg /\ Incoming(j) = NoMsg /\ j \in Slot
  BY <1>0, Polled DEF PlainNow
<1>3. C \in SUBSET Chan /\ C \subseteq OpenChan
  BY <1>0, OpenChanIsChan, IInvTypes DEF MInv
<1>4. \A c \in C : ~typed_live'[c]
  BY <1>1, <1>3, Retired
<1>5. ASSUME NEW c \in first_message(Materialized(C), chs), Take(Materialized(C), c),
             SetPending(Head(Materialized(C)[c])), SetPhase(1), EndTurn(TRUE)
      PROVE  Outcome
  <2>0. PICK h : h = Head(Materialized(C)[c])
    OBVIOUS
  <2>1. c \in C /\ Materialized(C)[c] # <<>>
    BY <1>0, FirstArm
  <2>2. OthersStay(j) /\ Framed(j, kind, 1, chs, h)
    BY <1>1, <1>2, <1>5, <2>0, FrameInstalled
  <2>3. Tends(j) /\ HoldsNext(j, NoMsg, h)
    BY <1>0, <1>1, <1>2, <1>4, <2>2, ReceiverGoesOn
  <2>4. pc' = pc /\ prog' = TRUE
    BY <1>5 DEF EndTurn
  <2>5. QED
    BY <1>1, <1>2, <1>3, <1>5, <2>0, <2>1, <2>3, <2>4, FetchOutcome
<1>6. CASE /\ first_message(Materialized(C), chs) = {}
           /\ erased' = Materialized(C)
           /\ SetPhase(0)
           /\ EndTurn(FALSE)
           /\ UNCHANGED <<taken, frame_pending>>
  <2>1. \A c \in Elements(chs) : Contents(c)' = <<>>
    BY <1>0, <1>4, <1>6, NoArm DEF Contents
  <2>2. OthersStay(j) /\ Framed(j, kind, 0, chs, NoMsg)
    BY <1>1, <1>2, <1>6, FrameInstalled
  <2>3. Tends(j) /\ HoldsNext(j, NoMsg, NoMsg) /\ Rests(j)'
    BY <1>0, <1>1, <1>2, <1>4, <2>1, <2>2, ReceiverGoesOn
  <2>4. UNCHANGED histVars
    BY <1>1, <1>6 DEF histVars
  <2>5. QED
    BY <1>1, <1>2, <1>3, <1>6, <2>3, <2>4, ParkOutcome
<1>7. QED
  BY <1>1, <1>5, <1>6

\* Installing a receive frame, of any kind.
LEMMA InstallReceiveFrameOutcome ==
  ASSUME MInv, IInv', PollReceiveLaneFrame \/ PollReceiveStateFrame \/ PollSelectLaneFrame
  PROVE  Outcome
<1>1. ASSUME NEW c \in OpenChan
      PROVE  <<c>> \in Seq(Chan) /\ <<c>> # <<>> /\ Elements(<<c>>) \subseteq OpenChan
  BY SingletonIsSeq, IInvTypes, ElementsOf DEF MInv
<1>2. CASE PollReceiveLaneFrame
  BY <1>1, <1>2, KindFacts, InstallReceiveOutcome DEF PollReceiveLaneFrame
<1>3. CASE PollReceiveStateFrame
  BY <1>1, <1>3, KindFacts, InstallReceiveOutcome DEF PollReceiveStateFrame
<1>4. CASE PollSelectLaneFrame
  <2>1. PICK chs \in OpenChan \X OpenChan :
           Poll("SelectLaneFrame") /\ InstallReceive(SelectLane, chs)
    BY <1>4 DEF PollSelectLaneFrame
  <2>2. chs \in Seq(Chan) /\ chs # <<>> /\ Elements(chs) \subseteq OpenChan
    BY PairIsSeq, IInvTypes, ElementsOfPair DEF MInv
  <2>3. QED
    BY <2>1, <2>2, KindFacts, InstallReceiveOutcome
<1>5. QED
  BY <1>2, <1>3, <1>4

\* A producer frame is installed whose first send finds no room.
LEMMA InstallHeld ==
  ASSUME MInv, IInv', NEW op, Poll(op), NEW kind \in ProduceKinds, NEW c \in OpenChan,
         StoreFrame(kind, <<c>>, kind), SetSlot(FrameSlot(kind)), SetKind(kind),
         materialize_typed_i64_channel({c}), Issue(c), ~HasRoom(Materialized({c}), c),
         erased' = Materialized({c}), SetPending(NextMsg), SetPhase(3), EndTurn(FALSE),
         UNCHANGED <<liveVars, cap, chan_count, taken, seen, dropped>>
  PROVE  Outcome
<1>0. PICK j, m : j = i /\ m = NextMsg
  OBVIOUS
<1>1. PlainNow(j) /\ AtTurn(j) /\ Outgoing(j) = NoMsg /\ Incoming(j) = NoMsg /\ j \in Slot
  BY <1>0, Polled DEF PlainNow
<1>2. OthersStay(j) /\ Framed(j, kind, 3, <<c>>, m)
  BY <1>0, <1>1, FrameInstalled
<1>3. IssuedFor(m, c)'
  BY <1>0, <1>1, IssuedNow DEF AtTurn
<1>4. ~HasRoom(erased, c)'
  BY DEF HasRoom
<1>5. <<c>> # <<>> /\ c = <<c>>[1] /\ Elements(<<c>>) \subseteq OpenChan /\ 3 # 1
  BY ElementsOf
<1>6. Tends(j) /\ HoldsNext(j, m, NoMsg) /\ (~HasRoom(erased, c)' => Rests(j)')
  BY <1>1, <1>2, <1>3, <1>5, ProducerGoesOn
<1>7. {c} \in SUBSET Chan
  BY OpenChanIsChan, IInvTypes DEF MInv
<1>8. QED
  BY <1>0, <1>1, <1>4, <1>6, <1>7, HoldOutcome

\* Installing a producer frame.
LEMMA InstallProduceOutcome ==
  ASSUME MInv, IInv', NEW op, Poll(op), NEW kind \in {Produce, ProduceState}, InstallProduce(kind)
  PROVE  Outcome
<1>0. PICK j : j = i
  OBVIOUS
<1>1. PICK c \in OpenChan :
        /\ StoreFrame(kind, <<c>>, kind) /\ SetSlot(FrameSlot(kind)) /\ SetKind(kind)
        /\ materialize_typed_i64_channel({c}) /\ Issue(c)
        /\ \/ /\ HasRoom(Materialized({c}), c) /\ Put(Materialized({c}), c, NextMsg)
              /\ SetPhase(1) /\ EndTurn(TRUE) /\ UNCHANGED frame_pending
           \/ /\ ~HasRoom(Materialized({c}), c) /\ erased' = Materialized({c})
              /\ SetPending(NextMsg) /\ SetPhase(3) /\ EndTurn(FALSE)
        /\ UNCHANGED <<liveVars, cap, chan_count, taken, seen, dropped>>
  BY DEF InstallProduce
<1>2. kind \in ProduceKinds
  BY KindFacts
<1>3. CASE /\ HasRoom(Materialized({c}), c) /\ Put(Materialized({c}), c, NextMsg)
           /\ SetPhase(1) /\ EndTurn(TRUE) /\ UNCHANGED frame_pending
  <2>1. PlainNow(j) /\ AtTurn(j) /\ Outgoing(j) = NoMsg /\ Incoming(j) = NoMsg /\ j \in Slot
    BY <1>0, Polled DEF PlainNow
  <2>2. OthersStay(j) /\ Framed(j, kind, 1, <<c>>, NoMsg)
    BY <1>1, <1>3, <2>1, FrameInstalled
  <2>3. <<c>> # <<>> /\ c = <<c>>[1] /\ Elements(<<c>>) \subseteq OpenChan
    BY ElementsOf
  <2>4. Tends(j) /\ HoldsNext(j, NoMsg, NoMsg)
    BY <1>1, <1>2, <2>1, <2>2, <2>3, ProducerGoesOn
  <2>5. {c} \in SUBSET Chan /\ c \in {c} /\ pc' = pc /\ prog' = TRUE
    BY <1>3, OpenChanIsChan, IInvTypes DEF MInv, EndTurn
  <2>6. QED
    BY <1>1, <1>3, <2>1, <2>4, <2>5, SendOutcome
<1>4. CASE /\ ~HasRoom(Materialized({c}), c) /\ erased' = Materialized({c})
           /\ SetPending(NextMsg) /\ SetPhase(3) /\ EndTurn(FALSE)
  BY <1>1, <1>2, <1>4, InstallHeld
<1>5. QED
  BY <1>1, <1>3, <1>4

\* Installing a producer frame, of either kind that goes on.
LEMMA InstallProducerOutcome ==
  ASSUME MInv, IInv', PollProduceFrame \/ PollProduceStateFrame PROVE Outcome
<1>1. CASE PollProduceFrame
  BY <1>1, InstallProduceOutcome DEF PollProduceFrame
<1>2. CASE PollProduceStateFrame
  BY <1>2, InstallProduceOutcome DEF PollProduceStateFrame
<1>3. QED
  BY <1>1, <1>2

\* Installing a terminal producer.
LEMMA InstallTerminalOutcome == ASSUME MInv, IInv', PollTerminalProduceStateFrame PROVE Outcome
<1>0. PICK j : j = i
  OBVIOUS
<1>1. PICK c \in OpenChan :
        /\ Poll("TerminalProduceStateFrame")
        /\ materialize_typed_i64_channel({c}) /\ Issue(c)
        /\ \/ /\ HasRoom(Materialized({c}), c)
              /\ StoreFrame(TerminalProduceState, <<c>>, 0)
              /\ Put(Materialized({c}), c, NextMsg)
              /\ SetSlot(Active) /\ SetKind(0) /\ EndTurn(TRUE)
              /\ UNCHANGED <<frame_pending, frame_phases>>
           \/ /\ ~HasRoom(Materialized({c}), c)
              /\ StoreFrame(TerminalProduceState, <<c>>, TerminalProduceState)
              /\ erased' = Materialized({c})
              /\ SetSlot(FrameSlot(TerminalProduceState)) /\ SetKind(TerminalProduceState)
              /\ SetPending(NextMsg) /\ SetPhase(3) /\ EndTurn(FALSE)
        /\ UNCHANGED <<liveVars, cap, chan_count, taken, seen, dropped>>
  BY DEF PollTerminalProduceStateFrame
<1>2. CASE /\ HasRoom(Materialized({c}), c)
           /\ StoreFrame(TerminalProduceState, <<c>>, 0)
           /\ Put(Materialized({c}), c, NextMsg)
           /\ SetSlot(Active) /\ SetKind(0) /\ EndTurn(TRUE)
           /\ UNCHANGED <<frame_pending, frame_phases>>
  <2>1. PlainNow(j) /\ AtTurn(j) /\ Outgoing(j) = NoMsg /\ Incoming(j) = NoMsg /\ j \in Slot
    BY <1>0, <1>1, Polled DEF PlainNow
  <2>2. OthersStay(j) /\ Plainly(j, Active)
    BY <1>2, <2>1 DEF MInv, IInv, TableInv, SlotTypes, FrameTypes, PlainNow, StoreFrame, SetSlot,
       SetKind, OthersStay, Plainly
  <2>3. Tends(j) /\ HoldsNext(j, NoMsg, NoMsg)
    BY <1>1, <2>1, <2>2, LeftActive DEF Tends
  <2>4. {c} \in SUBSET Chan /\ c \in {c} /\ pc' = pc /\ prog' = TRUE
    BY <1>2, OpenChanIsChan, IInvTypes DEF MInv, EndTurn
  <2>5. QED
    BY <1>1, <1>2, <2>1, <2>3, <2>4, SendOutcome
<1>3. CASE /\ ~HasRoom(Materialized({c}), c)
           /\ StoreFrame(TerminalProduceState, <<c>>, TerminalProduceState)
           /\ erased' = Materialized({c})
           /\ SetSlot(FrameSlot(TerminalProduceState)) /\ SetKind(TerminalProduceState)
           /\ SetPending(NextMsg) /\ SetPhase(3) /\ EndTurn(FALSE)
  BY <1>1, <1>3, KindFacts, InstallHeld
<1>4. QED
  BY <1>1, <1>2, <1>3

\* A join.
LEMMA WaitOutcome == ASSUME MInv, IInv', PollWait PROVE Outcome
<1>0. PICK j : j = i
  OBVIOUS
<1>1. PICK t \in 0..(slot_count - 1) :
        /\ Poll("Wait")
        /\ \/ SetSlot(Active) /\ EndTurn(TRUE) /\ UNCHANGED <<frame_kinds, tableVars>>
           \/ /\ is_live(slots[t])
              /\ StoreFrame(Join, <<t>>, Join)
              /\ SetSlot(FrameSlot(Join)) /\ SetKind(Join)
              /\ EndTurn(FALSE)
        /\ UNCHANGED <<liveVars, frame_phases, frame_pending, chanVars, histVars>>
  BY DEF PollWait
<1>2. PlainNow(j) /\ AtTurn(j) /\ Outgoing(j) = NoMsg /\ Incoming(j) = NoMsg /\ j \in Slot
  BY <1>0, <1>1, Polled DEF PlainNow
<1>3. UNCHANGED <<erased, typed, typed_live, cap, chan_count>>
  BY <1>1 DEF chanVars
<1>4. materialize_typed_i64_channel({}) /\ erased' = Materialized({})
  BY <1>3, NothingMaterialized DEF MInv
<1>5. CASE SetSlot(Active) /\ EndTurn(TRUE) /\ UNCHANGED <<frame_kinds, tableVars>>
  <2>1. UNCHANGED frameVars
    BY <1>1, <1>5 DEF frameVars
  <2>2. Tends(j) /\ HoldsNext(j, NoMsg, NoMsg)
    BY <1>1, <1>2, <1>3, <1>5, <2>1, PlainRuns
  <2>3. QED
    BY <1>1, <1>2, <1>4, <1>5, <2>2, QuietOutcome DEF EndTurn
<1>6. CASE /\ is_live(slots[t])
           /\ StoreFrame(Join, <<t>>, Join)
           /\ SetSlot(FrameSlot(Join)) /\ SetKind(Join)
           /\ EndTurn(FALSE)
  <2>0. PICK p : p = frame_phases[j]
    OBVIOUS
  <2>1. OthersStay(j) /\ Framed(j, Join, p, <<t>>, NoMsg)
    BY <1>1, <1>2, <1>6, <2>0, FrameInstalled
  <2>2. t \in Slot
    BY DEF MInv, IInv, TableInv, SlotTypes, Slot
  <2>3. slot_live'[t] /\ <<t>>[1] = t
    BY <1>1, <1>6, <2>2 DEF MInv, IInv, TableInv, LiveTablesAgree, liveVars
  <2>4. SlotInv(j)' /\ HoldsNext(j, NoMsg, NoMsg) /\ Rests(j)'
    BY <1>2, <2>1, <2>3, LeftJoin
  <2>5. Tends(j)
    BY <1>1, <1>3, <2>1, <2>4 DEF Tends
  <2>6. QED
    BY <1>1, <1>2, <1>4, <1>6, <2>4, <2>5, ParkOutcome
<1>7. QED
  BY <1>1, <1>5, <1>6

----------------------------------------------------------------------------
(* Operations that create or end tasks, and that open channels. *)

\* A turn with progress, whatever it is about.
LEMMA BusyParts ==
  ASSUME MInv, IInv', Turn, EndTurn(TRUE), RingsInv', \A s \in Slot : SlotInv(s)', LedgerMove,
         CapacityStep, EndedStep
  PROVE  Outcome
<1>1. IdleInv'
  BY DEF IdleInv, Turn, EndTurn
<1>2. QED
  BY LedgerInvNext, <1>1 DEF MInv, Outcome

\* No message moves.
LEMMA MoveNone ==
  ASSUME \A s \in Slot : Outgoing(s)' = Outgoing(s) /\ Incoming(s)' = Incoming(s),
         ContentsStay, UNCHANGED histVars
  PROVE  LedgerMove
<1>1. /\ [s \in Slot |-> Outgoing(s)]' = [s \in Slot |-> Outgoing(s)]
      /\ [s \in Slot |-> Incoming(s)]' = [s \in Slot |-> Incoming(s)]
  OBVIOUS
<1>2. [c \in Chan |-> Contents(c)]' = [c \in Chan |-> Contents(c)]
  BY DEF ContentsStay
<1>3. QED
  BY <1>1, <1>2 DEF LedgerMove, LP!ledgerVars, histVars

\* Untouched channels.
LEMMA ChansUntouched ==
  ASSUME MInv, UNCHANGED chanVars
  PROVE  /\ RingsInv' /\ ContentsStay /\ CapacityStep
         /\ chan_count' >= chan_count /\ chan_count' \in Nat
         /\ \A c \in OpenChan : typed_live'[c] => typed_live[c]
<1>1. UNCHANGED <<erased, typed, typed_live, cap, chan_count>>
  BY DEF chanVars
<1>2. RingsInv' /\ ContentsStay
  BY <1>1 DEF MInv, RingsInv, ContentsStay, Contents
<1>3. CapacityStep
  BY <1>2, CapacityStays DEF MInv
<1>4. QED
  BY <1>1, <1>2, <1>3 DEF MInv, IInv, ChanTypes

\* A slot that stays holds the same messages.
LEMMA StaysHolds ==
  ASSUME NEW s \in Slot, Stays(s) PROVE Outgoing(s)' = Outgoing(s) /\ Incoming(s)' = Incoming(s)
BY DEF Stays, Outgoing, Incoming

\* The live slots are the ones that have not ended.
LEMMA LiveIs == ASSUME MInv, NEW s \in Slot PROVE slot_live[s] <=> is_live(slots[s])
BY DEF MInv, IInv, TableInv, LiveTablesAgree

\* A task ends.
LEMMA DoneOutcome == ASSUME MInv, IInv', PollDone PROVE Outcome
<1>0. PICK j : j = i
  OBVIOUS
<1>1. /\ SlotTurn("Active") /\ SetSlot(Ended) /\ slot_live' = [slot_live EXCEPT ![j] = FALSE]
      /\ EndTurn(TRUE) /\ UNCHANGED <<slot_count, frameVars, chanVars, histVars>>
  BY <1>0 DEF PollDone
<1>2. PlainNow(j) /\ Turn /\ slots[j].tag = "Active" /\ j \in Slot
  BY <1>0, <1>1, PlainTurnFacts DEF PlainNow
<1>3. Outgoing(j) = NoMsg /\ Incoming(j) = NoMsg
  BY <1>2, PlainHolds
<1>4. OthersStay(j) /\ Plainly(j, Ended)
  BY <1>1, <1>2, PlainReplaced
<1>5. SlotInv(j)' /\ HoldsNext(j, NoMsg, NoMsg)
  BY <1>2, <1>4, LeftEnded
<1>6. \A s \in Slot : s # j => Stays(s)
  BY <1>4 DEF OthersStay, Stays
<1>7. /\ RingsInv' /\ ContentsStay /\ CapacityStep
      /\ chan_count' >= chan_count /\ chan_count' \in Nat
      /\ \A c \in OpenChan : typed_live'[c] => typed_live[c]
  BY <1>1, ChansUntouched
<1>8. ASSUME NEW s \in Slot PROVE SlotInv(s)'
  <2>1. CASE s = j
    BY <1>5, <2>1
  <2>2. CASE s # j
    BY <1>1, <1>6, <1>7, <2>2, SlotInvElsewhere DEF histVars
  <2>3. QED
    BY <2>1, <2>2
<1>9. LedgerMove
  BY <1>1, <1>2, <1>3, <1>4, <1>5, <1>7, MoveStill
<1>10. EndedStep
  <2>1. ASSUME NEW s \in Slot, ~slot_live[s] PROVE ~slot_live'[s] /\ slots'[s] = slots[s]
    <3>1. s # j
      BY <1>2, <2>1, LiveIs DEF PlainNow
    <3>2. slot_live \in [Slot -> BOOLEAN]
      BY DEF MInv, IInv, TableInv, SlotTypes
    <3>3. QED
      BY <1>1, <1>6, <2>1, <3>1, <3>2 DEF Stays
  <2>2. QED
    BY <2>1 DEF EndedStep
<1>11. QED
  BY <1>1, <1>2, <1>7, <1>8, <1>9, <1>10, BusyParts

\* A task is created.
LEMMA ForkOutcome == ASSUME MInv, IInv', PollFork PROVE Outcome
<1>0. PICK j, k : j = i /\ k = slot_count
  OBVIOUS
<1>1. /\ SlotTurn("Active") /\ k < MaxSlots
      /\ slots' = [slots EXCEPT ![k] = Active, ![j] = Active]
      /\ frame_kinds' = [frame_kinds EXCEPT ![k] = 0]
      /\ frame_phases' = [frame_phases EXCEPT ![k] = 0]
      /\ frame_pending' = [frame_pending EXCEPT ![k] = NoMsg]
      /\ slot_live' = [slot_live EXCEPT ![k] = TRUE]
      /\ EndTurn(TRUE)
      /\ UNCHANGED <<tableVars, chanVars, histVars>>
  BY <1>0 DEF PollFork
<1>2. PlainNow(j) /\ Turn /\ slots[j].tag = "Active" /\ j \in Slot
  BY <1>0, <1>1, PlainTurnFacts DEF PlainNow
<1>3. /\ slots \in [Slot -> SlotRec] /\ frame_kinds \in [Slot -> 0..7]
      /\ frame_phases \in [Slot -> 0..3] /\ frame_pending \in [Slot -> Nat]
      /\ slot_live \in [Slot -> BOOLEAN] /\ k \in Slot
  <2>1. slot_count \in 1..MaxSlots
    BY DEF MInv, IInv, TableInv, SlotTypes
  <2>2. k \in Slot
    BY <1>0, <1>1, <2>1 DEF Slot
  <2>3. QED
    BY <2>2 DEF MInv, IInv, TableInv, SlotTypes, FrameTypes
<1>4. /\ ~slot_live[k] /\ slots[k].tag = "Ended" /\ frame_kinds[k] = 0 /\ frame_pending[k] = NoMsg
  <2>1. ~slot_live[k]
    BY <1>0, <1>3 DEF MInv, IInv, TableInv, LiveTablesAgree, SlotTypes
  <2>2. slots[k].tag = "Ended"
    BY <1>3, <2>1, LiveIs DEF is_live
  <2>3. frame_kinds[k] = 0
    BY <1>3, <2>2 DEF MInv, IInv, TableInv, Aligned, Dispatchable
  <2>4. SlotInv(k)
    BY <1>3 DEF MInv
  <2>5. QED
    BY <2>1, <2>2, <2>3, <2>4 DEF SlotInv, Carried
<1>5. k # j
  BY <1>2, <1>4
<1>6. Plainly(j, Active) /\ Plainly(k, Active) /\ \A s \in Slot : s \notin {j, k} => Stays(s)
  <2>1. Plainly(j, Active)
    BY <1>1, <1>2, <1>3, <1>5 DEF Plainly, PlainNow
  <2>2. Plainly(k, Active)
    BY <1>1, <1>2, <1>3, <1>5 DEF Plainly
  <2>3. \A s \in Slot : s \notin {j, k} => Stays(s)
    BY <1>1, <1>2, <1>3 DEF Stays, tableVars
  <2>4. QED
    BY <2>1, <2>2, <2>3
<1>7. /\ SlotInv(j)' /\ HoldsNext(j, NoMsg, NoMsg) /\ SlotInv(k)' /\ HoldsNext(k, NoMsg, NoMsg)
  BY <1>2, <1>3, <1>6, LeftActive
<1>8. /\ RingsInv' /\ ContentsStay /\ CapacityStep
      /\ chan_count' >= chan_count /\ chan_count' \in Nat
      /\ \A c \in OpenChan : typed_live'[c] => typed_live[c]
  BY <1>1, ChansUntouched
<1>9. ASSUME NEW s \in Slot PROVE SlotInv(s)'
  <2>1. CASE s \in {j, k}
    BY <1>7, <2>1
  <2>2. CASE s \notin {j, k}
    BY <1>1, <1>6, <1>8, <2>2, SlotInvElsewhere DEF histVars
  <2>3. QED
    BY <2>1, <2>2
<1>10. LedgerMove
  <2>1. Outgoing(j) = NoMsg /\ Incoming(j) = NoMsg
    BY <1>2, PlainHolds
  <2>2. Outgoing(k) = NoMsg /\ Incoming(k) = NoMsg
    BY <1>4, KindFacts DEF Outgoing, Incoming, ReceiveKinds, ProduceKinds
  <2>3. ASSUME NEW s \in Slot PROVE Outgoing(s)' = Outgoing(s) /\ Incoming(s)' = Incoming(s)
    <3>1. CASE s = j
      BY <1>7, <2>1, <3>1 DEF HoldsNext
    <3>2. CASE s = k
      BY <1>7, <2>2, <3>2 DEF HoldsNext
    <3>3. CASE s \notin {j, k}
      BY <1>6, <3>3, StaysHolds
    <3>4. QED
      BY <3>1, <3>2, <3>3
  <2>4. QED
    BY <1>1, <1>8, <2>3, MoveNone
<1>11. EndedStep
  <2>1. ASSUME NEW s \in Slot, s < slot_count, ~slot_live[s]
        PROVE  ~slot_live'[s] /\ slots'[s] = slots[s]
    <3>1. s # j
      BY <1>2, <2>1, LiveIs DEF PlainNow
    <3>2. s # k
      BY <1>0, <2>1 DEF Slot
    <3>3. QED
      BY <1>1, <1>3, <1>6, <2>1, <3>1, <3>2 DEF Stays
  <2>2. QED
    BY <2>1 DEF EndedStep
<1>12. QED
  BY <1>1, <1>2, <1>8, <1>9, <1>10, <1>11, BusyParts

\* A channel is opened.
LEMMA OpenOutcome == ASSUME MInv, IInv', PollOpen PROVE Outcome
<1>0. PICK j, k : j = i /\ k = chan_count
  OBVIOUS
<1>1. /\ SlotTurn("Active") /\ k < MaxChans /\ SetSlot(Active) /\ chan_count' = k + 1
      /\ \E t \in BOOLEAN : typed_live' = [typed_live EXCEPT ![k] = t]
      /\ EndTurn(TRUE)
      /\ UNCHANGED <<erased, typed, liveVars, frameVars, histVars>>
  <2>1. (IF "OpenI64" \in Ops THEN BOOLEAN ELSE {FALSE}) \subseteq BOOLEAN
    OBVIOUS
  <2>2. QED
    BY <1>0, <2>1 DEF PollOpen
<1>2. PlainNow(j) /\ Turn /\ slots[j].tag = "Active" /\ j \in Slot
  BY <1>0, <1>1, PlainTurnFacts DEF PlainNow
<1>3. Outgoing(j) = NoMsg /\ Incoming(j) = NoMsg
  BY <1>2, PlainHolds
<1>4. OthersStay(j) /\ Plainly(j, Active)
  BY <1>1, <1>2, PlainReplaced
<1>5. SlotInv(j)' /\ HoldsNext(j, NoMsg, NoMsg)
  BY <1>2, <1>4, LeftActive
<1>6. \A s \in Slot : s # j => Stays(s)
  BY <1>4 DEF OthersStay, Stays
<1>7. /\ k \in Nat /\ k \in Chan /\ typed_live \in [Chan -> BOOLEAN] /\ \A c \in Chan : c \in Nat
  BY <1>0, <1>1 DEF MInv, IInv, ChanTypes, Chan
<1>8. \A c \in Chan : c # k => (typed_live'[c] <=> typed_live[c])
  BY <1>1, <1>7
<1>9. erased[k] = <<>> /\ typed[k] = <<>>
  BY <1>0, <1>7 DEF MInv, RingsInv
<1>10. RingsInv'
  <2> SUFFICES ASSUME NEW c \in Chan
               PROVE  /\ typed_live'[c] => c < chan_count' /\ erased'[c] = <<>>
                      /\ c >= chan_count' => erased'[c] = <<>> /\ typed'[c] = <<>>
    BY DEF RingsInv
  <2>1. CASE c = k
    BY <1>1, <1>7, <1>9, <2>1
  <2>2. CASE c # k
    <3>1. /\ typed_live[c] => c < k /\ erased[c] = <<>>
          /\ c >= k => erased[c] = <<>> /\ typed[c] = <<>>
      BY <1>0 DEF MInv, RingsInv
    <3>2. QED
      BY <1>1, <1>7, <1>8, <2>2, <3>1
  <2>3. QED
    BY <2>1, <2>2
<1>11. ContentsStay
  BY <1>1, <1>8, <1>9 DEF ContentsStay, Contents
<1>12. CapacityStep
  BY <1>11, CapacityStays DEF MInv
<1>13. \A c \in OpenChan : typed_live'[c] => typed_live[c]
  BY <1>0, <1>7, <1>8, OpenChanIsChan, IInvTypes DEF MInv, OpenChan
<1>14. chan_count' >= chan_count /\ chan_count' \in Nat /\ issued' = issued
  BY <1>0, <1>1, <1>7 DEF histVars
<1>15. ASSUME NEW s \in Slot PROVE SlotInv(s)'
  <2>1. CASE s = j
    BY <1>5, <2>1
  <2>2. CASE s # j
    BY <1>6, <1>13, <1>14, <2>2, SlotInvElsewhere
  <2>3. QED
    BY <2>1, <2>2
<1>16. LedgerMove
  BY <1>1, <1>2, <1>3, <1>4, <1>5, <1>11, MoveStill
<1>17. EndedStep
  <2>1. ASSUME NEW s \in Slot, ~slot_live[s] PROVE ~slot_live'[s] /\ slots'[s] = slots[s]
    <3>1. s # j
      BY <1>2, <2>1, LiveIs DEF PlainNow
    <3>2. QED
      BY <1>1, <1>6, <2>1, <3>1 DEF Stays, liveVars
  <2>2. QED
    BY <2>1 DEF EndedStep
<1>18. QED
  BY <1>1, <1>2, <1>10, <1>12, <1>15, <1>16, <1>17, BusyParts

\* What a task holds is where a cancellation looks for it.
LEMMA HeldByTask ==
  ASSUME MInv, NEW t \in Slot
  PROVE  {slots[t].msg, frame_pending[t]} \ {NoMsg} = {Outgoing(t), Incoming(t)} \ {NoMsg}
<1>1. SlotInv(t) /\ Aligned(t) /\ frame_kinds[t] \in 0..7
  BY DEF MInv, IInv, TableInv, FrameTypes
<1>2. slots[t].tag = "FrameSlot" <=> frame_kinds[t] # 0
  BY <1>1 DEF Aligned, Dispatchable
<1>3. /\ slots[t].tag \notin {"WaitSend", "ReceiveFrameSlot"} => slots[t].msg = NoMsg
      /\ frame_kinds[t] \in {0, Join} => frame_pending[t] = NoMsg
  BY <1>1 DEF SlotInv, Carried
<1>4. CASE slots[t].tag = "WaitSend"
  BY <1>2, <1>3, <1>4, KindFacts DEF Outgoing, Incoming, ReceiveKinds, ProduceKinds
<1>5. CASE slots[t].tag = "ReceiveFrameSlot"
  BY <1>2, <1>3, <1>5, KindFacts DEF Outgoing, Incoming, ReceiveKinds, ProduceKinds
<1>6. CASE slots[t].tag \notin {"WaitSend", "ReceiveFrameSlot"}
  <2>1. CASE frame_kinds[t] \in {0, Join}
    BY <1>3, <1>6, <2>1, KindFacts DEF Outgoing, Incoming, ReceiveKinds, ProduceKinds
  <2>2. CASE frame_kinds[t] \in ReceiveKinds
    BY <1>3, <1>6, <2>2, KindFacts DEF Outgoing, Incoming, ReceiveKinds, ProduceKinds
  <2>3. CASE frame_kinds[t] \in ProduceKinds
    BY <1>3, <1>6, <2>3, KindFacts DEF Outgoing, Incoming, ReceiveKinds, ProduceKinds
  <2>4. QED
    BY <1>1, <2>1, <2>2, <2>3 DEF ReceiveKinds, ProduceKinds, Join, ReceiveLane, ReceiveState,
       SelectLane, Produce, ProduceState, TerminalProduceState
<1>7. QED
  BY <1>4, <1>5, <1>6

\* A task is cancelled.
LEMMA CancelOutcome == ASSUME MInv, IInv', PollCancel PROVE Outcome
<1>0. PICK j : j = i
  OBVIOUS
<1>1. PICK t \in 0..(slot_count - 1) :
        /\ Poll("Cancel") /\ CountOut(t)
        /\ frame_kinds' = [frame_kinds EXCEPT ![t] = 0]
        /\ frame_pending' = [frame_pending EXCEPT ![t] = NoMsg]
        /\ slots' = [slots EXCEPT ![t] = Ended, ![j] = Active]
        /\ dropped' = dropped \cup ({slots[t].msg, frame_pending[t]} \ {NoMsg})
        /\ EndTurn(TRUE)
        /\ UNCHANGED <<slot_count, frame_phases, frame_channels, chanVars, issued, taken, seen>>
  BY <1>0 DEF PollCancel
<1>2. PlainNow(j) /\ Turn /\ Outgoing(j) = NoMsg /\ Incoming(j) = NoMsg /\ j \in Slot
  BY <1>0, <1>1, Polled DEF PlainNow, AtTurn
<1>3. /\ slots \in [Slot -> SlotRec] /\ frame_kinds \in [Slot -> 0..7]
      /\ frame_pending \in [Slot -> Nat] /\ slot_live \in [Slot -> BOOLEAN] /\ t \in Slot
  <2>1. slot_count \in 1..MaxSlots
    BY DEF MInv, IInv, TableInv, SlotTypes
  <2>2. t \in Slot
    BY <2>1 DEF Slot
  <2>3. QED
    BY <2>2 DEF MInv, IInv, TableInv, SlotTypes, FrameTypes
<1>4. /\ Plainly(j, Active) /\ (t # j => Plainly(t, Ended))
      /\ \A s \in Slot : s \notin {j, t} => Stays(s)
  <2>1. Plainly(j, Active)
    BY <1>1, <1>2, <1>3 DEF Plainly, PlainNow
  <2>2. t # j => Plainly(t, Ended)
    BY <1>1, <1>2, <1>3 DEF Plainly
  <2>3. \A s \in Slot : s \notin {j, t} => Stays(s)
    BY <1>1, <1>2, <1>3 DEF Stays
  <2>4. QED
    BY <2>1, <2>2, <2>3
<1>5. /\ SlotInv(j)' /\ HoldsNext(j, NoMsg, NoMsg)
      /\ SlotInv(t)' /\ HoldsNext(t, NoMsg, NoMsg)
  BY <1>2, <1>3, <1>4, LeftActive, LeftEnded
<1>6. /\ RingsInv' /\ ContentsStay /\ CapacityStep
      /\ chan_count' >= chan_count /\ chan_count' \in Nat
      /\ \A c \in OpenChan : typed_live'[c] => typed_live[c]
  BY <1>1, ChansUntouched
<1>7. ASSUME NEW s \in Slot PROVE SlotInv(s)'
  <2>1. CASE s \in {j, t}
    BY <1>5, <2>1
  <2>2. CASE s \notin {j, t}
    BY <1>1, <1>4, <1>6, <2>2, SlotInvElsewhere
  <2>3. QED
    BY <2>1, <2>2
<1>8. LedgerMove
  <2>1. ASSUME NEW s \in Slot, s # t PROVE Outgoing(s)' = Outgoing(s) /\ Incoming(s)' = Incoming(s)
    <3>1. CASE s = j
      BY <1>2, <1>5, <3>1 DEF HoldsNext
    <3>2. CASE s # j
      BY <1>4, <2>1, <3>2, StaysHolds
    <3>3. QED
      BY <3>1, <3>2
  <2>2. /\ [s \in Slot |-> Outgoing(s)]' = [[s \in Slot |-> Outgoing(s)] EXCEPT ![t] = 0]
        /\ [s \in Slot |-> Incoming(s)]' = [[s \in Slot |-> Incoming(s)] EXCEPT ![t] = 0]
    BY <1>3, <1>5, <2>1 DEF HoldsNext, NoMsg
  <2>3. [c \in Chan |-> Contents(c)]' = [c \in Chan |-> Contents(c)]
    BY <1>6 DEF ContentsStay
  <2>4. dropped' = dropped \cup ({Outgoing(t), Incoming(t)} \ {0})
    BY <1>1, <1>3, HeldByTask DEF NoMsg
  <2>5. [s \in Slot |-> Outgoing(s)][t] = Outgoing(t) /\ [s \in Slot |-> Incoming(s)][t] = Incoming(t)
    BY <1>3
  <2>6. LP!Cancel(t)
    BY <1>1, <2>2, <2>3, <2>4, <2>5 DEF LP!Cancel
  <2>7. QED
    BY <1>3, <2>6 DEF LedgerMove, LP!LedgerNext
<1>9. EndedStep
  <2>1. ASSUME NEW s \in Slot, ~slot_live[s]
        PROVE  ~slot_live'[s] /\ slots'[s] = slots[s]
    <3>1. s # j
      BY <1>2, <2>1, LiveIs DEF PlainNow
    <3>2. ~slot_live'[s]
      BY <1>0, <1>1, <1>3, <2>1 DEF CountOut
    <3>3. CASE s # t
      BY <1>4, <3>1, <3>2, <3>3 DEF Stays
    <3>4. CASE s = t
      <4>1. SlotInv(s) /\ slots[s].tag = "Ended"
        BY <2>1, LiveIs DEF MInv, is_live
      <4>2. slots[s] = Ended
        BY <4>1 DEF SlotInv, Carried
      <4>3. QED
        BY <1>4, <3>1, <3>2, <3>4, <4>2 DEF Plainly
    <3>5. QED
      BY <3>3, <3>4
  <2>2. QED
    BY <2>1 DEF EndedStep
<1>10. QED
  BY <1>1, <1>2, <1>6, <1>7, <1>8, <1>9, BusyParts

----------------------------------------------------------------------------
(* The end of a round and the close pass. *)

\* A slot that the close pass reaches is at rest.
LEMMA CloseNow ==
  ASSUME MInv, Closing, NEW j, j = i
  PROVE  j \in Slot /\ Rests(j) /\ Waits(j) /\ SlotInv(j)
<1>1. j \in Slot /\ j \in i..(n - 1) /\ pc = "close"
  BY CurrentSlot, IInvTypes DEF MInv, IInv, ControlTypes, Closing
<1>2. Rests(j) /\ SlotInv(j)
  BY <1>1 DEF MInv, IdleInv
<1>3. Waits(j)
  BY <1>1, <1>2, StuckForm DEF MInv, Rests
<1>4. QED
  BY <1>1, <1>2, <1>3

\* A plain slot that the close pass reaches.
LEMMA ClosePlainNow ==
  ASSUME MInv, Closing, NEW j, j = i, slots[j].tag \notin {"FrameSlot", "Ended"}
  PROVE  PlainNow(j)
<1>1. j \in Slot /\ SlotInv(j)
  BY CloseNow
<1>2. Aligned(j) /\ slots[j] \in SlotRec
  BY <1>1 DEF MInv, IInv, TableInv, SlotTypes
<1>3. frame_kinds[j] = 0 /\ is_live(slots[j]) /\ slots[j].chs \in Seq(Chan)
  BY <1>2 DEF Aligned, Dispatchable, is_live, SlotRec
<1>4. QED
  BY <1>1, <1>3 DEF PlainNow, SlotInv, Carried

\* A frame that the close pass reaches.
LEMMA CloseFrameNow ==
  ASSUME MInv, NEW kinds, ClosingFrame(kinds), NEW j, j = i, NEW kind, kind = frame_kinds[j]
  PROVE  FrameNow(j, kind) /\ kind \in kinds
<1>1. j \in Slot /\ SlotInv(j) /\ slots[j].tag = "FrameSlot" /\ slots[j].arg \in kinds
  BY CloseNow DEF ClosingFrame
<1>2. Aligned(j) /\ frame_channels[j] \in Seq(Nat) /\ frame_pending[j] \in Nat
  BY <1>1 DEF MInv, IInv, TableInv, FrameTypes
<1>3. kind # 0 /\ slots[j].arg = kind
  BY <1>1, <1>2 DEF Aligned, Dispatchable
<1>4. slots[j] = FrameSlot(kind) /\ is_live(slots[j])
  BY <1>1 DEF SlotInv, Carried, is_live
<1>5. QED
  BY <1>1, <1>2, <1>3, <1>4 DEF FrameNow

\* A close step that moves no message.
LEMMA CloseQuiet ==
  ASSUME MInv, IInv', NEW j \in Slot, j = i, is_live(slots[j]), Closing, CloseOnward, Tends(j),
         HoldsNext(j, Outgoing(j), Incoming(j)), UNCHANGED <<chanVars, histVars>>
  PROVE  Outcome
<1>1. RingsInv' /\ ContentsStay
  BY ChansUntouched
<1>2. Fuller
  BY <1>1, ContentsType DEF ContentsStay, Fuller, MInv
<1>3. LedgerMove
  BY <1>1, MoveStill DEF Tends
<1>4. Settles({}) /\ issued' = issued
  BY DEF Settles, chanVars, histVars
<1>5. Touches(j)
  BY <1>1, <1>3, <1>4 DEF Touches, Tends
<1>6. QED
  BY <1>2, <1>5, ClosingStep

\* A close step that stores a waiting message past the capacity.
LEMMA CloseRelease ==
  ASSUME MInv, IInv', NEW j \in Slot, j = i, is_live(slots[j]), Closing, CloseOnward, Tends(j),
         NEW c \in OpenChan, NEW m \in Nat, ~HasRoom(erased, c), Put(erased, c, m),
         m = Outgoing(j), m # NoMsg, IssuedFor(m, c), HoldsNext(j, NoMsg, Incoming(j)),
         UNCHANGED <<typed, typed_live, histVars>>
  PROVE  Outcome
<1>1. c \in Chan /\ chan_count' = chan_count /\ issued' = issued
  BY OpenChanIsChan, IInvTypes DEF MInv, Tends, histVars
<1>2. erased[c] # <<>> /\ ~typed_live[c]
  <2>1. erased[c] \in Seq(Nat) /\ cap[c] \in Nat
    BY <1>1 DEF MInv, IInv, ChanTypes
  <2>2. erased[c] # <<>>
    BY <2>1 DEF HasRoom
  <2>3. QED
    BY <1>1, <2>2 DEF MInv, RingsInv
<1>3. materialize_typed_i64_channel({}) /\ Materialized({}) = erased
  BY NothingMaterialized DEF MInv
<1>4. /\ RingsInv' /\ Settles({}) /\ ContentsGain(c, m)
      /\ Contents(c) = erased[c]
  BY <1>1, <1>2, <1>3, PutEffect DEF MInv
<1>5. Fuller
  <2> SUFFICES ASSUME NEW d \in Chan
               PROVE  /\ Contents(d) = <<>> => Contents(d)' = <<>>
                      /\ Len(Contents(d)') >= Len(Contents(d))
    BY DEF Fuller
  <2>1. Contents(d) \in Seq(Nat)
    BY ContentsType DEF MInv
  <2>2. CASE d = c
    <3>1. Contents(d)' = Append(Contents(d), m) /\ Contents(d) # <<>>
      BY <1>2, <1>4, <2>2 DEF ContentsGain
    <3>2. QED
      BY <2>1, <3>1
  <2>3. CASE d # c
    BY <1>4, <2>1, <2>3 DEF ContentsGain
  <2>4. QED
    BY <2>2, <2>3
<1>6. LedgerMove
  BY <1>1, <1>4, MoveRelease DEF Tends, IssuedFor
<1>7. Touches(j)
  BY <1>1, <1>4, <1>6 DEF Touches, Tends
<1>8. QED
  BY <1>5, <1>7, ClosingStep

\* The close pass releases a receive.
LEMMA CloseRecvOutcome == ASSUME MInv, IInv', CloseRecv PROVE Outcome
<1>0. PICK j : j = i
  OBVIOUS
<1>1. /\ Closing /\ slots[j].tag = "WaitRecv" /\ SetSlot(Active) /\ CloseOnward
      /\ UNCHANGED <<liveVars, frameVars, chanVars, histVars>>
  BY <1>0 DEF CloseRecv
<1>2. PlainNow(j) /\ is_live(slots[j]) /\ j \in Slot
  BY <1>0, <1>1, ClosePlainNow DEF PlainNow
<1>3. Outgoing(j) = NoMsg /\ Incoming(j) = NoMsg
  BY <1>1, <1>2, PlainHolds
<1>4. Tends(j) /\ HoldsNext(j, NoMsg, NoMsg)
  BY <1>1, <1>2, PlainRuns DEF chanVars
<1>5. QED
  BY <1>0, <1>1, <1>2, <1>3, <1>4, CloseQuiet

\* The close pass releases a send.
LEMMA CloseSendOutcome == ASSUME MInv, IInv', CloseSend PROVE Outcome
<1>0. PICK j, c, m : j = i /\ c = slots[j].chs[1] /\ m = slots[j].msg
  OBVIOUS
<1>1. /\ Closing /\ slots[j].tag = "WaitSend" /\ SetSlot(Active) /\ Put(erased, c, m) /\ CloseOnward
      /\ UNCHANGED <<liveVars, frameVars, typed, typed_live, cap, chan_count, histVars>>
  BY <1>0 DEF CloseSend
<1>2. PlainNow(j) /\ is_live(slots[j]) /\ j \in Slot /\ Waits(j)
  BY <1>0, <1>1, ClosePlainNow, CloseNow DEF PlainNow
<1>3. Outgoing(j) = m /\ Incoming(j) = NoMsg
  BY <1>0, <1>1, <1>2, PlainHolds
<1>4. Tends(j) /\ HoldsNext(j, NoMsg, NoMsg)
  BY <1>1, <1>2, PlainRuns
<1>5. c \in OpenChan
  <2>1. slots[j].chs \in Seq(Chan) /\ slots[j].chs # <<>>
    BY <1>1, <1>2 DEF PlainNow, SlotInv, Moored
  <2>2. c \in Elements(slots[j].chs)
    BY <1>0, <2>1 DEF Elements
  <2>3. QED
    BY <1>2, <2>2, ParkedArms
<1>6. IssuedFor(m, c) /\ m \in Nat /\ m # NoMsg
  BY <1>0, <1>1, <1>2 DEF PlainNow, SlotInv, Addressed, IssuedFor, NoMsg
<1>7. ~HasRoom(erased, c)
  BY <1>0, <1>1, <1>2 DEF Waits
<1>8. QED
  BY <1>0, <1>1, <1>2, <1>3, <1>4, <1>5, <1>6, <1>7, CloseRelease

\* The close pass offers None to a frame loop.
LEMMA CloseFrameLoopOutcome == ASSUME MInv, IInv', CloseFrameLoop PROVE Outcome
<1>0. PICK j : j = i
  OBVIOUS
<1>1. /\ Closing /\ slots[j].tag \in {"WaitFrameLoop", "Wait2Frame"}
      /\ SetSlot(Active) \/ UNCHANGED slots
      /\ CloseOnward
      /\ UNCHANGED <<liveVars, frameVars, chanVars, histVars>>
  BY <1>0 DEF CloseFrameLoop
<1>2. PlainNow(j) /\ is_live(slots[j]) /\ j \in Slot
  BY <1>0, <1>1, ClosePlainNow DEF PlainNow
<1>3. CASE SetSlot(Active)
  <2>1. Outgoing(j) = NoMsg /\ Incoming(j) = NoMsg
    BY <1>1, <1>2, PlainHolds
  <2>2. Tends(j) /\ HoldsNext(j, NoMsg, NoMsg)
    BY <1>1, <1>2, <1>3, PlainRuns DEF chanVars
  <2>3. QED
    BY <1>0, <1>1, <1>2, <2>1, <2>2, CloseQuiet
<1>4. CASE UNCHANGED slots
  <2>1. Touches(j) /\ Fuller
    BY <1>1, <1>2, <1>4, NothingTouched
  <2>2. QED
    BY <1>0, <1>1, <1>2, <2>1, ClosingStep
<1>5. QED
  BY <1>1, <1>3, <1>4

\* The close pass activates a receive frame kept in its slot.
LEMMA CloseReceiveFrameSlotOutcome == ASSUME MInv, IInv', CloseReceiveFrameSlot PROVE Outcome
<1>0. PICK j, c : j = i /\ c = slots[j].chs[1]
  OBVIOUS
<1>1. /\ Closing /\ slots[j].tag = "ReceiveFrameSlot"
      /\ SetSlot(ReceiveFrameSlot(c, NoMsg, 1))
      /\ CloseOnward
      /\ UNCHANGED <<liveVars, frameVars, chanVars, histVars>>
  BY <1>0 DEF CloseReceiveFrameSlot
<1>2. PlainNow(j) /\ is_live(slots[j]) /\ j \in Slot /\ Rests(j)
  BY <1>0, <1>1, ClosePlainNow, CloseNow DEF PlainNow
<1>3. Outgoing(j) = NoMsg /\ Incoming(j) = NoMsg
  <2>1. slots[j].msg = NoMsg
    BY <1>1, <1>2 DEF Rests, PlainNow, SlotInv, Carried
  <2>2. QED
    BY <1>1, <1>2, <2>1, PlainHolds
<1>4. c \in OpenChan /\ ~typed_live'[c]
  <2>1. slots[j].chs \in Seq(Chan) /\ slots[j].chs # <<>>
    BY <1>1, <1>2 DEF PlainNow, SlotInv, Moored
  <2>2. c \in Elements(slots[j].chs)
    BY <1>0, <2>1 DEF Elements
  <2>3. QED
    BY <1>1, <1>2, <2>2, ParkedArms DEF chanVars
<1>5. UNCHANGED <<cap, chan_count>>
  BY <1>1 DEF chanVars
<1>6. Tends(j) /\ HoldsNext(j, NoMsg, NoMsg)
  BY <1>1, <1>2, <1>4, <1>5, PlainReceiving
<1>7. QED
  BY <1>0, <1>1, <1>2, <1>3, <1>6, CloseQuiet

\* The close pass cuts a join.
LEMMA CloseJoinOutcome == ASSUME MInv, IInv', CloseJoin PROVE Outcome
<1>0. PICK j : j = i
  OBVIOUS
<1>1. /\ ClosingFrame({Join}) /\ Closing /\ FinishFrame /\ CloseOnward
      /\ UNCHANGED <<liveVars, frame_pending, chanVars, histVars>>
  BY DEF CloseJoin, ClosingFrame
<1>2. FrameNow(j, Join) /\ j \in Slot /\ is_live(slots[j])
  BY <1>0, <1>1, CloseFrameNow DEF FrameNow
<1>3. Outgoing(j) = NoMsg /\ Incoming(j) = NoMsg /\ frame_pending[j] = NoMsg
  BY <1>2, FrameHolds, KindFacts DEF FrameNow, SlotInv, Carried
<1>4. Tends(j) /\ HoldsNext(j, NoMsg, NoMsg)
  BY <1>0, <1>1, <1>2, <1>3, FrameFinishes DEF chanVars
<1>5. QED
  BY <1>0, <1>1, <1>2, <1>3, <1>4, CloseQuiet

\* The close pass activates a receive frame.
LEMMA CloseReceiveFrameOutcome == ASSUME MInv, IInv', CloseReceiveFrame PROVE Outcome
<1>0. PICK j, kind, chs : j = i /\ kind = frame_kinds[j] /\ chs = frame_channels[j]
  OBVIOUS
<1>1. /\ ClosingFrame(ReceiveKinds) /\ Closing /\ SetPending(NoMsg) /\ SetPhase(1) /\ CloseOnward
      /\ UNCHANGED <<slots, liveVars, frame_kinds, frame_channels, chanVars, histVars>>
  BY DEF CloseReceiveFrame, ClosingFrame, ReceiveKinds, tableVars
<1>2. FrameNow(j, kind) /\ kind \in ReceiveKinds /\ j \in Slot /\ is_live(slots[j]) /\ Rests(j)
  BY <1>0, <1>1, CloseFrameNow, CloseNow DEF FrameNow
<1>3. Outgoing(j) = NoMsg /\ Incoming(j) = NoMsg
  BY <1>2, FrameHolds, KindFacts DEF FrameNow, SlotInv, Carried, Rests
<1>4. OthersStay(j) /\ Framed(j, kind, 1, chs, NoMsg)
  BY <1>0, <1>1, <1>2, FrameGoesOn
<1>5. /\ chs # <<>> /\ Elements(chs) \subseteq OpenChan
      /\ kind = ReceiveLane => \A c \in Elements(chs) : ~typed_live'[c]
  BY <1>0, <1>1, <1>2, FrameChans DEF chanVars
<1>6. UNCHANGED <<cap, chan_count>>
  BY <1>1 DEF chanVars
<1>7. Tends(j) /\ HoldsNext(j, NoMsg, NoMsg)
  BY <1>1, <1>2, <1>4, <1>5, <1>6, ReceiverGoesOn
<1>8. QED
  BY <1>0, <1>1, <1>2, <1>3, <1>7, CloseQuiet

\* The close pass sends the message of a producer frame.
LEMMA CloseProduceFrameOutcome == ASSUME MInv, IInv', CloseProduceFrame PROVE Outcome
<1>0. PICK j, kind, chs, c, m : /\ j = i /\ kind = frame_kinds[j] /\ chs = frame_channels[j]
                                /\ c = chs[1] /\ m = frame_pending[j]
  OBVIOUS
<1>1. /\ ClosingFrame({Produce, ProduceState}) /\ Closing /\ m # NoMsg /\ Put(erased, c, m)
      /\ SetPending(NoMsg) /\ SetPhase(1) /\ CloseOnward
      /\ UNCHANGED <<slots, liveVars, frame_kinds, frame_channels, typed, typed_live, cap,
                     chan_count, histVars>>
  BY <1>0 DEF CloseProduceFrame, ClosingFrame, tableVars
<1>2. FrameNow(j, kind) /\ kind \in ProduceKinds /\ j \in Slot /\ is_live(slots[j]) /\ Waits(j)
  BY <1>0, <1>1, CloseFrameNow, CloseNow, KindFacts DEF FrameNow
<1>3. /\ c \in OpenChan /\ IssuedFor(m, c) /\ m \in Nat
      /\ Outgoing(j) = m /\ Incoming(j) = NoMsg
  BY <1>0, <1>1, <1>2, PendingSend
<1>4. OthersStay(j) /\ Framed(j, kind, 1, chs, NoMsg)
  BY <1>0, <1>1, <1>2, FrameGoesOn
<1>5. chs # <<>> /\ Elements(chs) \subseteq OpenChan
  BY <1>0, <1>2, FrameChans
<1>6. Tends(j) /\ HoldsNext(j, NoMsg, NoMsg)
  BY <1>0, <1>1, <1>2, <1>4, <1>5, ProducerGoesOn
<1>7. ~HasRoom(erased, c)
  BY <1>0, <1>2 DEF Waits, FrameNow
<1>8. QED
  BY <1>0, <1>1, <1>2, <1>3, <1>6, <1>7, CloseRelease

\* The close pass sends the message of a terminal producer, which finishes.
LEMMA CloseTerminalOutcome == ASSUME MInv, IInv', CloseTerminalProduce PROVE Outcome
<1>0. PICK j, kind, c, m : /\ j = i /\ kind = frame_kinds[j] /\ c = frame_channels[j][1]
                           /\ m = frame_pending[j]
  OBVIOUS
<1>1. /\ ClosingFrame({TerminalProduceState}) /\ Closing /\ m # NoMsg /\ Put(erased, c, m)
      /\ SetPending(NoMsg) /\ FinishFrame /\ CloseOnward
      /\ UNCHANGED <<liveVars, typed, typed_live, cap, chan_count, histVars>>
  BY <1>0 DEF CloseTerminalProduce, ClosingFrame
<1>2. FrameNow(j, kind) /\ kind \in ProduceKinds /\ j \in Slot /\ is_live(slots[j]) /\ Waits(j)
  BY <1>0, <1>1, CloseFrameNow, CloseNow, KindFacts DEF FrameNow
<1>3. /\ c \in OpenChan /\ IssuedFor(m, c) /\ m \in Nat
      /\ Outgoing(j) = m /\ Incoming(j) = NoMsg
  BY <1>0, <1>1, <1>2, PendingSend
<1>4. Tends(j) /\ HoldsNext(j, NoMsg, NoMsg)
  BY <1>0, <1>1, <1>2, FrameFinishes
<1>5. ~HasRoom(erased, c)
  BY <1>0, <1>2 DEF Waits, FrameNow
<1>6. QED
  BY <1>0, <1>1, <1>2, <1>3, <1>4, <1>5, CloseRelease

\* The close pass leaves the other slots alone.
LEMMA CloseOtherOutcome == ASSUME MInv, IInv', CloseOther PROVE Outcome
<1>0. PICK j : j = i
  OBVIOUS
<1>1. /\ Closing /\ CloseOnward
      /\ UNCHANGED <<slots, liveVars, frameVars, chanVars, histVars>>
  BY DEF CloseOther
<1>2. j \in Slot
  BY <1>0, <1>1, CloseNow
<1>3. Touches(j) /\ Fuller
  BY <1>1, <1>2, NothingTouched
<1>4. QED
  BY <1>0, <1>1, <1>2, <1>3, ClosingStep

\* A step that changes only the control state.
LEMMA ControlOutcome ==
  ASSUME MInv, IInv', UNCHANGED <<slots, liveVars, frameVars, chanVars, histVars>>,
         (\A s \in Slot : Rests(s) => Rests(s)') => IdleInv'
  PROVE  Outcome
<1>1. 0 \in Slot
  BY DEF Slot
<1>2. Touches(0) /\ ContentsStay /\ Fuller
  BY <1>1, NothingTouched
<1>3. RingsInv' /\ (\A s \in Slot : SlotInv(s)') /\ EndedStep
  BY <1>1, <1>2, TouchKeeps
<1>4. CapacityStep /\ LedgerMove
  BY <1>2, CapacityStays DEF MInv, Touches
<1>5. UNCHANGED <<slot_live, cap>> /\ Settles({})
  BY <1>2 DEF Touches, liveVars
<1>6. ASSUME NEW s \in Slot, Rests(s) PROVE Rests(s)'
  <2>1. Stays(s)
    BY NothingTouched
  <2>2. QED
    BY <1>2, <1>5, <1>6, <2>1, RestsStays
<1>7. IdleInv'
  BY <1>6
<1>8. QED
  BY LedgerInvNext, <1>3, <1>4, <1>7 DEF MInv, Outcome

\* The end of a round, and of the close pass.
LEMMA RoundOutcome == ASSUME MInv, IInv', EndRound \/ EndClose PROVE Outcome
<1>1. UNCHANGED <<slots, liveVars, frameVars, chanVars, histVars>>
  BY DEF EndRound, EndClose
<1>2. slot_count \in 1..MaxSlots /\ slot_count' = slot_count
  BY <1>1 DEF MInv, IInv, TableInv, SlotTypes, liveVars
<1>3. CASE StartRound(slot_count)
  <2>1. IdleInv'
    BY <1>2, <1>3 DEF StartRound, IdleInv
  <2>2. QED
    BY <1>1, <2>1, ControlOutcome
<1>4. CASE pc' = "done"
  <2>1. IdleInv'
    BY <1>4 DEF IdleInv
  <2>2. QED
    BY <1>1, <2>1, ControlOutcome
<1>5. CASE pc = "round" /\ i = n /\ ~prog /\ pc' = "close" /\ i' = 0 /\ n' = slot_count
  <2>1. \A s \in 0..(slot_count - 1) : s \in Slot /\ Rests(s)
    <3>1. n = slot_count /\ \A s \in 0..(i - 1) : Rests(s)
      BY <1>5 DEF MInv, IdleInv
    <3>2. \A s \in 0..(slot_count - 1) : s \in Slot
      BY <1>2 DEF Slot
    <3>3. QED
      BY <1>5, <3>1, <3>2
  <2>2. (\A s \in Slot : Rests(s) => Rests(s)') => IdleInv'
    BY <1>5, <2>1 DEF IdleInv
  <2>3. QED
    BY <1>1, <2>2, ControlOutcome
<1>6. QED
  BY <1>3, <1>4, <1>5 DEF EndRound, EndClose

\* A step that changes nothing.
LEMMA StutterOutcome == ASSUME MInv, IInv', UNCHANGED vars PROVE Outcome
<1>1. /\ UNCHANGED <<slots, liveVars, frameVars, chanVars, histVars>>
      /\ UNCHANGED <<pc, i, n, prog, slot_count>>
  BY DEF vars, liveVars
<1>2. /\ i \in Nat /\ n \in Nat
      /\ (\A s \in 0..(i - 1) : s \in Slot) /\ (\A s \in i..(n - 1) : s \in Slot)
  BY DEF MInv, IInv, ControlTypes, TableInv, SlotTypes, Slot
<1>3. (\A s \in Slot : Rests(s) => Rests(s)') => IdleInv'
  BY <1>1, <1>2 DEF MInv, IdleInv
<1>4. QED
  BY <1>1, <1>3, ControlOutcome

----------------------------------------------------------------------------
(* Every step, and the theorems. *)

\* Initially there is no message.
LEMMA InitLedger == Init => LP!LedgerInit
<1> SUFFICES ASSUME Init PROVE LP!LedgerInit
  OBVIOUS
<1>1. \A c \in Chan : Contents(c) = <<>>
  BY DEF Contents, Init
<1>2. ASSUME NEW s \in Slot PROVE Outgoing(s) = 0 /\ Incoming(s) = 0
  <2>1. slots[s].tag \in {"Active", "Ended"} /\ frame_kinds[s] = 0
    <3>1. (slots[s] = Active \/ slots[s] = Ended) /\ frame_kinds[s] = 0
      BY DEF Init
    <3>2. QED
      BY <3>1, SlotFields DEF Active, Ended
  <2>2. QED
    BY <2>1 DEF Outgoing, Incoming, NoMsg, Produce, ProduceState, TerminalProduceState,
                ReceiveLane, ReceiveState, SelectLane
<1>3. /\ issued = <<>> /\ taken = [c \in Chan |-> <<>>] /\ seen = {} /\ dropped = {}
  BY DEF Init
<1>4. QED
  BY <1>1, <1>2, <1>3 DEF LP!LedgerInit

\* The invariant holds initially.
LEMMA InitMInv == Init => MInv
<1> SUFFICES ASSUME Init PROVE MInv
  OBVIOUS
<1>1. IInv
  BY InitIInv
<1>2. /\ \A c \in Chan : erased[c] = <<>> /\ typed[c] = <<>> /\ ~typed_live[c]
      /\ \A s \in Slot : /\ slots[s] = Active \/ slots[s] = Ended
                         /\ frame_kinds[s] = 0 /\ frame_pending[s] = NoMsg
      /\ pc = "round" /\ i = 0 /\ n = slot_count
  BY DEF Init
<1>3. RingsInv
  BY <1>2 DEF RingsInv
<1>4. ASSUME NEW s \in Slot PROVE SlotInv(s)
  <2>1. /\ slots[s].tag \in {"Active", "Ended"} /\ slots[s].chs = <<>> /\ slots[s].msg = NoMsg
        /\ slots[s].tag = "Ended" => slots[s] = Ended
    BY <1>2, SlotFields DEF Active, Ended
  <2>2. Elements(slots[s].chs) = {}
    BY <2>1 DEF Elements
  <2>3. frame_kinds[s] = 0 /\ 0 \notin ReceiveKinds /\ 0 \notin ProduceKinds
    BY <1>2, KindFacts
  <2>4. Moored(s)
    BY <2>1, <2>2, <2>3 DEF Moored, ReceiveLane
  <2>5. Carried(s)
    BY <1>2, <2>1, <2>3 DEF Carried, Produce, ProduceState
  <2>6. Addressed(s)
    BY <2>1, <2>3 DEF Addressed
  <2>7. QED
    BY <2>4, <2>5, <2>6 DEF SlotInv
<1>5. IdleInv
  BY <1>2 DEF IdleInv
<1>6. LP!LedgerInit
  BY InitLedger
<1>7. LP!LedgerInv
  BY <1>6, LP!LedgerInitially
<1>8. QED
  BY <1>1, <1>3, <1>4, <1>5, <1>7 DEF MInv

\* Every turn of a frame.
LEMMA FrameTurnOutcome == ASSUME MInv, IInv', FrameTurn PROVE Outcome
BY ReceiveLaneOutcome, ReceiveStateOutcome, SelectLaneOutcome, ProduceOutcome, TerminalOutcome,
   JoinOutcome DEF FrameTurn

\* Every turn of a parked slot.
LEMMA ParkedTurnOutcome == ASSUME MInv, IInv', ParkedTurn PROVE Outcome
BY WaitRecvOutcome, WaitSendOutcome, FrameLoopOutcome, ReceiveFrameSlotOutcome DEF ParkedTurn

\* Every operation.
LEMMA PollTurnOutcome == ASSUME MInv, IInv', PollTurn PROVE Outcome
BY DoneOutcome, YieldOutcome, ForkOutcome, OpenOutcome, PushOutcome, PullOutcome, PushI64Outcome,
   PullI64Outcome, InstallLoopOutcome, Ready2LoopOutcome, WaitOutcome, CancelOutcome,
   ReceiveFrameOutcome, InstallReceiveFrameOutcome, InstallProducerOutcome, InstallTerminalOutcome
   DEF PollTurn

\* Every step of the close pass.
LEMMA CloseTurnOutcome == ASSUME MInv, IInv', CloseTurn PROVE Outcome
BY CloseRecvOutcome, CloseSendOutcome, CloseFrameLoopOutcome, CloseReceiveFrameSlotOutcome,
   CloseJoinOutcome, CloseReceiveFrameOutcome, CloseProduceFrameOutcome, CloseTerminalOutcome,
   CloseOtherOutcome DEF CloseTurn

\* Every step.
LEMMA NextOutcome == MInv /\ [Next]_vars => Outcome
<1> SUFFICES ASSUME MInv, [Next]_vars PROVE Outcome
  OBVIOUS
<1>1. IInv'
  BY NextIInv DEF MInv
<1>2. CASE Step
  BY <1>1, <1>2, DeadOutcome, FrameTurnOutcome, ParkedTurnOutcome, PollTurnOutcome, RoundOutcome,
     CloseTurnOutcome DEF Step
<1>3. CASE UNCHANGED vars
  BY <1>1, <1>3, StutterOutcome
<1>4. QED
  BY <1>2, <1>3 DEF Next, Returned

\* Every step keeps the invariant.
LEMMA NextMInv == MInv /\ [Next]_vars => MInv'
BY NextOutcome DEF Outcome

\* The invariant holds throughout.
LEMMA Accounted == Spec => []MInv
BY InitMInv, NextMInv, PTL DEF Spec

\* While a typed ring is active the channel's erased ring is empty and no slot
\* is parked on the channel: what the parked slots of `run` look at, the erased
\* ring, is all there is.
THEOREM TypedRingsAreExclusive == Spec => []TypedRingIsExclusive
<1>1. MInv => TypedRingIsExclusive
  <2>1. SUFFICES ASSUME MInv, NEW c \in Chan, typed_live[c]
                 PROVE  /\ erased[c] = <<>>
                        /\ \A s \in Slot : /\ c \notin Elements(slots[s].chs)
                                           /\ frame_kinds[s] = ReceiveLane =>
                                                 frame_channels[s] # <<c>>
    BY DEF TypedRingIsExclusive
  <2>2. erased[c] = <<>>
    BY <2>1 DEF MInv, RingsInv
  <2>3. ASSUME NEW s \in Slot PROVE c \notin Elements(slots[s].chs)
    BY <2>1 DEF MInv, SlotInv, Moored
  <2>4. ASSUME NEW s \in Slot, frame_kinds[s] = ReceiveLane PROVE frame_channels[s] # <<c>>
    <3>1. c \notin Elements(frame_channels[s])
      BY <2>1, <2>4 DEF MInv, SlotInv, Moored
    <3>2. c \in Elements(<<c>>)
      BY DEF Elements
    <3>3. QED
      BY <3>1, <3>2
  <2>5. QED
    BY <2>2, <2>3, <2>4
<1>2. QED
  BY <1>1, Accounted, PTL

\* The messages a task sends to a channel are received in the order it sent
\* them, whatever mix of typed and erased operations, frames and close passes
\* carried them.
THEOREM SendersKeepTheirOrder == Spec => []PerSenderOrder
<1>1. MInv => PerSenderOrder
  <2>1. SUFFICES ASSUME MInv, NEW c \in Chan, NEW h, h = taken[c] \o Contents(c),
                        NEW k1 \in DOMAIN h, NEW k2 \in DOMAIN h, k1 < k2,
                        issued[h[k1]].from = issued[h[k2]].from
                 PROVE  h[k1] < h[k2]
    BY DEF PerSenderOrder
  <2>2. h = LP!History(c)
    BY <2>1 DEF LP!History
  <2>3. LP!InOrder(c)
    BY <2>1 DEF MInv, LP!LedgerInv
  <2>4. taken[c] \in Seq(Nat) /\ Contents(c) \in Seq(Nat)
    BY <2>1, ContentsType DEF MInv, IInv, HistoryTypes
  <2>5. DOMAIN h = 1..Len(h)
    BY <2>1, <2>4
  <2>6. QED
    BY <2>1, <2>2, <2>3, <2>5 DEF LP!InOrder
<1>2. QED
  BY <1>1, Accounted, PTL

\* The close pass of `run` reaches a slot only when nothing the slot waits for
\* can happen.
THEOREM CloseIsQuiescent == Spec => []QuiescentClose
<1>1. MInv => QuiescentClose
  BY DEF MInv, IdleInv, Rests, QuiescentClose
<1>2. QED
  BY <1>1, Accounted, PTL

\* A channel grows past its capacity only in the close pass.
THEOREM CapacitiesHold == Spec => CapacityHolds
<1>1. MInv /\ [Next]_vars => [CapacityStep]_vars
  BY NextOutcome DEF Outcome
<1>2. Spec => [][CapacityStep]_vars
  BY <1>1, Accounted, PTL DEF Spec
<1>3. QED
  BY <1>2 DEF CapacityHolds, CapacityStep

\* A task that ended, by itself or cancelled, never runs again.
THEOREM EndedStayEnded == Spec => EndedForGood
<1>1. MInv /\ [Next]_vars => [EndedStep]_vars
  BY NextOutcome DEF Outcome
<1>2. Spec => [][EndedStep]_vars
  BY <1>1, Accounted, PTL DEF Spec
<1>3. QED
  BY <1>2 DEF EndedForGood, EndedStep

\* At most one position of a sequence without repetitions holds m.
LEMMA AtMostOnePosition ==
  ASSUME NEW q \in Seq(Nat), NEW m, \A j, k \in 1..Len(q) : j < k => q[j] # q[k]
  PROVE  Cardinality({k \in DOMAIN q : q[k] = m}) <= 1
<1> DEFINE P == {k \in DOMAIN q : q[k] = m}
<1>1. ASSUME NEW a \in P PROVE P = {a}
  BY <1>1
<1> HIDE DEF P
<1>2. Cardinality(P) = 0 \/ Cardinality(P) = 1
  <2>1. CASE P = {}
    BY <2>1, FS_EmptySet
  <2>2. CASE P # {}
    <3>1. PICK a : P = {a}
      BY <1>1, <2>2
    <3>2. QED
      BY <3>1, FS_Singleton
  <2>3. QED
    BY <2>1, <2>2
<1>3. Cardinality(P) <= 1
  BY <1>2
<1>4. QED
  BY <1>3 DEF P

\* A message has one of five places exactly when the set of the places it is in
\* is a singleton.
LEMMA OneOfFive ==
  ASSUME NEW a \in BOOLEAN, NEW b \in BOOLEAN, NEW c \in BOOLEAN, NEW d \in BOOLEAN,
         NEW e \in BOOLEAN, a \/ b \/ c \/ d \/ e,
         a => ~b /\ ~c /\ ~d /\ ~e, b => ~c /\ ~d /\ ~e, c => ~d /\ ~e, d => ~e,
         NEW places, places = [sender |-> a, channel |-> b, receiver |-> c, program |-> d, gone |-> e]
  PROVE  Cardinality({p \in DOMAIN places : places[p]}) = 1
<1>1. DOMAIN places = {"sender", "channel", "receiver", "program", "gone"}
  OBVIOUS
<1>2. /\ places["sender"] = a /\ places["channel"] = b /\ places["receiver"] = c
      /\ places["program"] = d /\ places["gone"] = e
  OBVIOUS
<1>3. PICK x : {p \in DOMAIN places : places[p]} = {x}
  <2>1. CASE a
    <3>1. {p \in DOMAIN places : places[p]} = {"sender"}
      BY <1>1, <1>2, <2>1
    <3>2. QED
      BY <3>1
  <2>2. CASE b
    <3>1. {p \in DOMAIN places : places[p]} = {"channel"}
      BY <1>1, <1>2, <2>2
    <3>2. QED
      BY <3>1
  <2>3. CASE c
    <3>1. {p \in DOMAIN places : places[p]} = {"receiver"}
      BY <1>1, <1>2, <2>3
    <3>2. QED
      BY <3>1
  <2>4. CASE d
    <3>1. {p \in DOMAIN places : places[p]} = {"program"}
      BY <1>1, <1>2, <2>4
    <3>2. QED
      BY <3>1
  <2>5. CASE e
    <3>1. {p \in DOMAIN places : places[p]} = {"gone"}
      BY <1>1, <1>2, <2>5
    <3>2. QED
      BY <3>1
  <2>6. QED
    BY <2>1, <2>2, <2>3, <2>4, <2>5
<1>4. QED
  BY <1>3, FS_Singleton

\* No message is lost or duplicated: each is, after every step, in exactly one
\* place and at most once in its channel and in what was taken from it.
THEOREM MessagesAreExact == Spec => []NothingLostOrDuplicated
<1>1. MInv => NothingLostOrDuplicated
  <2>1. SUFFICES ASSUME MInv, NEW m \in 1..Len(issued), NEW c, c = issued[m].ch,
                        NEW places,
                        places = [sender |-> m \in HeldToSend(issued[m].from),
                                  channel |-> m \in Elements(Contents(c)),
                                  receiver |-> \E s \in Slot : m \in HeldToReceive(s),
                                  program |-> m \in seen,
                                  gone |-> m \in dropped]
                 PROVE  /\ Cardinality({p \in DOMAIN places : places[p]}) = 1
                        /\ Cardinality({k \in DOMAIN Contents(c) : Contents(c)[k] = m}) <= 1
                        /\ Cardinality({k \in DOMAIN taken[c] : taken[c][k] = m}) <= 1
    BY ZenonT(40) DEF NothingLostOrDuplicated
  <2>2. /\ issued \in Seq([from : Slot, ch : Chan]) /\ taken \in [Chan -> Seq(Nat)]
    BY <2>1 DEF MInv, IInv, HistoryTypes
  <2>3. issued[m] \in [from : Slot, ch : Chan] /\ m # NoMsg
    <3>1. m \in DOMAIN issued /\ Len(issued) \in Nat
      BY <2>1, <2>2
    <3>2. PICK R : R = [from : Slot, ch : Chan]
      OBVIOUS
    <3>3. issued \in Seq(R)
      BY <2>2, <3>2
    <3>4. issued[m] \in R
      BY <2>1, <3>3
    <3>5. QED
      BY <2>1, <3>1, <3>2, <3>4 DEF NoMsg
  <2>4. issued[m].from \in Slot /\ c \in Chan
    BY <2>1, <2>3
  <2>5. taken[c] \in Seq(Nat) /\ Contents(c) \in Seq(Nat)
    BY <2>1, <2>2, <2>4, ContentsType DEF MInv
  <2>6. LP!OnePlace(m) /\ LP!InOrder(c)
    BY <2>1, <2>4 DEF MInv, LP!LedgerInv, LP!Issued
  <2>7. /\ (m \in HeldToSend(issued[m].from)) <=> LP!AtSender(m)
        /\ (m \in Elements(Contents(c))) <=> LP!InChannel(m)
        /\ (\E s \in Slot : m \in HeldToReceive(s)) <=> LP!AtReceiver(m)
        /\ (m \in seen) <=> LP!Handed(m)
        /\ (m \in dropped) <=> LP!Gone(m)
    BY <2>1, <2>3, <2>4 DEF HeldToSend, HeldToReceive, Elements, LP!AtSender, LP!InChannel,
       LP!AtReceiver, LP!Handed, LP!Gone, LP!Queued
  <2>8. Cardinality({p \in DOMAIN places : places[p]}) = 1
    <3>1. PICK a, b, x, d, e : /\ a = (m \in HeldToSend(issued[m].from))
                               /\ b = (m \in Elements(Contents(c)))
                               /\ x = (\E s \in Slot : m \in HeldToReceive(s))
                               /\ d = (m \in seen) /\ e = (m \in dropped)
      OBVIOUS
    <3>2. /\ a \in BOOLEAN /\ b \in BOOLEAN /\ x \in BOOLEAN /\ d \in BOOLEAN /\ e \in BOOLEAN
      BY <3>1
    <3>3. /\ (a <=> LP!AtSender(m)) /\ (b <=> LP!InChannel(m)) /\ (x <=> LP!AtReceiver(m))
          /\ (d <=> LP!Handed(m)) /\ (e <=> LP!Gone(m))
      BY <2>7, <3>1
    <3>4. /\ a \/ b \/ x \/ d \/ e
          /\ (a => ~b /\ ~x /\ ~d /\ ~e) /\ (b => ~x /\ ~d /\ ~e)
          /\ (x => ~d /\ ~e) /\ (d => ~e)
      BY <2>6, <3>3 DEF LP!OnePlace
    <3>5. places = [sender |-> a, channel |-> b, receiver |-> x, program |-> d, gone |-> e]
      BY <2>1, <3>1
    <3>6. QED
      BY <3>2, <3>4, <3>5, OneOfFive
  <2>9. PICK h : h = taken[c] \o Contents(c)
    OBVIOUS
  <2>10. \A j, k \in 1..Len(h) : j < k => h[j] # h[k]
    BY <2>4, <2>6, <2>9 DEF LP!InOrder, LP!History
  <2>11. \A j, k \in 1..Len(taken[c]) : j < k => taken[c][j] # taken[c][k]
    <3>1. \A j \in 1..Len(taken[c]) : j \in 1..Len(h) /\ h[j] = taken[c][j]
      BY <2>5, <2>9
    <3>2. QED
      BY <2>10, <3>1
  <2>12. \A j, k \in 1..Len(Contents(c)) : j < k => Contents(c)[j] # Contents(c)[k]
    <3>1. \A j \in 1..Len(Contents(c)) : /\ j + Len(taken[c]) \in 1..Len(h)
                                         /\ h[j + Len(taken[c])] = Contents(c)[j]
      <4>1. ASSUME NEW p \in Seq(Nat), NEW q \in Seq(Nat), NEW j \in 1..Len(q)
            PROVE  j + Len(p) \in 1..Len(p \o q) /\ (p \o q)[j + Len(p)] = q[j]
        BY <4>1
      <4>2. QED
        BY <2>5, <2>9, <4>1
    <3>2. Len(taken[c]) \in Nat /\ Len(Contents(c)) \in Nat
      BY <2>5
    <3>3. ASSUME NEW j \in 1..Len(Contents(c)), NEW k \in 1..Len(Contents(c)), j < k
          PROVE  Contents(c)[j] # Contents(c)[k]
      <4>1. j + Len(taken[c]) < k + Len(taken[c])
        BY <3>2, <3>3
      <4>2. QED
        BY <2>10, <3>1, <3>3, <4>1
    <3>4. QED
      BY <3>3
  <2>13. /\ Cardinality({k \in DOMAIN Contents(c) : Contents(c)[k] = m}) <= 1
         /\ Cardinality({k \in DOMAIN taken[c] : taken[c][k] = m}) <= 1
    BY <2>5, <2>11, <2>12, AtMostOnePosition
  <2>14. QED
    BY <2>8, <2>13
<1>2. QED
  BY <1>1, Accounted, PTL

\* The executor implements the ledger of messages: every operation, frame turn,
\* cancellation and step of the close pass is one move of the ledger or none.
THEOREM ExecutorKeepsTheLedger == Spec => MovesAreAccounted
<1>1. Init => Ledger!LedgerInit
  BY InitLedger DEF LP!LedgerInit, Ledger!LedgerInit
<1>2. MInv /\ [Next]_vars => [Ledger!LedgerNext]_(Ledger!ledgerVars)
  <2>1. MInv /\ [Next]_vars => [LP!LedgerNext]_(LP!ledgerVars)
    BY NextOutcome DEF Outcome, LedgerMove
  <2>2. LP!LedgerNext => Ledger!LedgerNext
    BY DEF LP!LedgerNext, LP!Send, LP!Hold, LP!Release, LP!Receive, LP!Fetch, LP!HandOver,
       LP!Cancel, LP!Enqueue, LP!Dequeue, LP!NewMessage,
       Ledger!LedgerNext, Ledger!Send, Ledger!Hold, Ledger!Release, Ledger!Receive, Ledger!Fetch,
       Ledger!HandOver, Ledger!Cancel, Ledger!Enqueue, Ledger!Dequeue, Ledger!NewMessage
  <2>3. UNCHANGED LP!ledgerVars => UNCHANGED Ledger!ledgerVars
    BY DEF LP!ledgerVars, Ledger!ledgerVars
  <2>4. QED
    BY <2>1, <2>2, <2>3
<1>3. QED
  BY <1>1, <1>2, Accounted, PTL DEF Spec, MovesAreAccounted, Ledger!LedgerSpec

=============================================================================
