------------------------ MODULE TaskExecutor_proofs ------------------------
(***************************************************************************)
(* The executor of std/task keeps its parallel tables aligned, for every   *)
(* number of slots and channels, every capacity and every program.         *)
(***************************************************************************)
EXTENDS TaskExecutor, FiniteSetTheorems, TLAPS

USE BoundsAreNatural, CapsAreNatural

----------------------------------------------------------------------------
(* Facts about the current slot and the slot constructors. *)

\* A slot whose task runs, or is parked without a frame.
PlainRec == {r \in SlotRec : /\ r.tag \notin {"FrameSlot", "Ended"}
                            /\ (r.tag = "ReceiveFrameSlot" => r.chs # <<>>)}

\* The slot a turn or a close step works on exists.
LEMMA CurrentSlot ==
  ASSUME TypeOK, Turn \/ Closing
  PROVE  i \in Slot /\ i \in 0..(slot_count - 1) /\ i + 1 \in 0..n
BY DEF TypeOK, ControlTypes, SlotTypes, Turn, Closing, Slot

\* Every opened channel is one of the bounded set of channels.
LEMMA OpenChanIsChan == ASSUME TypeOK PROVE OpenChan \subseteq Chan
BY DEF TypeOK, ChanTypes, OpenChan, Chan

\* The arms of a select are a sequence of channels.
LEMMA ArmsAreSeqs == ASSUME TypeOK, NEW chs \in Arms PROVE chs \in Seq(Chan)
<1>1. PICK k \in 1..MaxArms : chs \in [1..k -> OpenChan]
  BY DEF Arms
<1>2. chs \in [1..k -> Chan]
  BY <1>1, OpenChanIsChan
<1>3. QED
  BY <1>1, <1>2

\* One opened channel as a list of arms.
LEMMA SingletonIsSeq == ASSUME TypeOK, NEW c \in OpenChan PROVE <<c>> \in Seq(Chan)
BY OpenChanIsChan

\* Two opened channels as a list of arms.
LEMMA PairIsSeq == ASSUME TypeOK, NEW p \in OpenChan \X OpenChan PROVE p \in Seq(Chan)
<1>1. PICK a \in OpenChan, b \in OpenChan : p = <<a, b>>
  OBVIOUS
<1>2. a \in Chan /\ b \in Chan
  BY OpenChanIsChan
<1>3. QED
  BY <1>1, <1>2

\* A running slot has no frame.
LEMMA ActiveIsPlain == Active \in PlainRec
BY DEF Active, SlotRecord, PlainRec, SlotRec, SlotTags, NoMsg

\* Slots parked on receives have no frame.
LEMMA WaitIsPlain ==
  ASSUME NEW chs \in Seq(Chan)
  PROVE  WaitRecv(chs) \in PlainRec /\ Wait2Frame(chs) \in PlainRec
         /\ WaitFrameLoop(chs) \in PlainRec
BY DEF WaitRecv, Wait2Frame, WaitFrameLoop, SlotRecord, PlainRec, SlotRec, SlotTags, NoMsg

\* Slots that carry a message themselves have no frame.
LEMMA HolderIsPlain ==
  ASSUME NEW c \in Chan, NEW m \in Nat, NEW p \in 0..2
  PROVE  WaitSend(c, m) \in PlainRec /\ ReceiveFrameSlot(c, m, p) \in PlainRec
<1>1. <<c>> \in Seq(Chan) /\ <<c>> # <<>>
  OBVIOUS
<1>2. WaitSend(c, m) \in SlotRec /\ ReceiveFrameSlot(c, m, p) \in SlotRec
  BY <1>1 DEF WaitSend, ReceiveFrameSlot, SlotRecord, SlotRec, SlotTags
<1>3. /\ WaitSend(c, m).tag = "WaitSend"
      /\ ReceiveFrameSlot(c, m, p).tag = "ReceiveFrameSlot"
      /\ ReceiveFrameSlot(c, m, p).chs = <<c>>
  BY DEF WaitSend, ReceiveFrameSlot, SlotRecord
<1>4. QED
  BY <1>1, <1>2, <1>3 DEF PlainRec

\* The fields of a slot without a frame.
LEMMA PlainFields ==
  ASSUME NEW v \in PlainRec
  PROVE  /\ v \in SlotRec /\ v.tag # "FrameSlot" /\ v.tag # "Ended"
         /\ v.tag = "ReceiveFrameSlot" => v.chs # <<>>
<1>1. /\ v \in SlotRec
      /\ v.tag \notin {"FrameSlot", "Ended"}
      /\ v.tag = "ReceiveFrameSlot" => v.chs # <<>>
  BY Zenon DEF PlainRec
<1>2. QED
  BY <1>1

----------------------------------------------------------------------------
(* Facts about the channel operations. *)

\* Materializing typed rings yields erased rings.
LEMMA MaterializedType ==
  ASSUME TypeOK, NEW C
  PROVE  Materialized(C) \in [Chan -> Seq(Nat)]
BY DEF TypeOK, ChanTypes, Materialized

\* Retiring typed rings keeps the typed tables well-typed.
LEMMA MaterializeType ==
  ASSUME TypeOK, NEW C, materialize_typed_i64_channel(C)
  PROVE  typed' \in [Chan -> Seq(Nat)] /\ typed_live' \in [Chan -> BOOLEAN]
<1>1. typed' \in [Chan -> Seq(Nat)]
  BY DEF TypeOK, ChanTypes, materialize_typed_i64_channel
<1>2. typed_live' \in [Chan -> BOOLEAN]
  BY DEF materialize_typed_i64_channel
<1>3. QED
  BY <1>1, <1>2

\* The arm first_message chooses holds a message.
LEMMA FirstMessageReady ==
  ASSUME NEW e, NEW chs \in Seq(Chan), NEW c \in first_message(e, chs)
  PROVE  c \in Chan /\ e[c] # <<>>
BY DEF first_message

\* A receive keeps the rings and the record of receives well-typed.
LEMMA TakeType ==
  ASSUME TypeOK, NEW e \in [Chan -> Seq(Nat)], NEW c \in Chan, e[c] # <<>>, Take(e, c)
  PROVE  /\ erased' \in [Chan -> Seq(Nat)] /\ taken' \in [Chan -> Seq(Nat)]
<1>1. Head(e[c]) \in Nat /\ Tail(e[c]) \in Seq(Nat)
  OBVIOUS
<1>2. Append(taken[c], Head(e[c])) \in Seq(Nat)
  BY <1>1 DEF TypeOK, HistoryTypes
<1>3. QED
  BY <1>1, <1>2 DEF Take, TypeOK, HistoryTypes

\* A send keeps the rings well-typed.
LEMMA PutType ==
  ASSUME NEW e \in [Chan -> Seq(Nat)], NEW c, NEW m \in Nat, Put(e, c, m)
  PROVE  erased' \in [Chan -> Seq(Nat)]
<1>1. CASE c \in Chan
  <2>1. Append(e[c], m) \in Seq(Nat)
    BY <1>1
  <2>2. QED
    BY <2>1, <1>1 DEF Put
<1>2. CASE c \notin Chan
  BY <1>2 DEF Put
<1>3. QED
  BY <1>1, <1>2

\* Handing a message over keeps the record of messages seen well-typed.
LEMMA HandType ==
  ASSUME TypeOK, NEW m \in Nat, Hand(m)
  PROVE  seen' \subseteq Nat
BY DEF TypeOK, HistoryTypes, Hand

\* Issuing a message keeps the record of sends well-typed.
LEMMA IssueType ==
  ASSUME TypeOK, Turn, NEW c \in OpenChan, Issue(c)
  PROVE  issued' \in Seq([from : Slot, ch : Chan]) /\ NextMsg \in Nat \ {0}
<1>1. [from |-> i, ch |-> c] \in [from : Slot, ch : Chan]
  BY CurrentSlot, OpenChanIsChan
<1>2. issued \in Seq([from : Slot, ch : Chan])
  BY DEF TypeOK, HistoryTypes
<1>3. QED
  BY <1>1, <1>2 DEF Issue, NextMsg

\* The head of a channel is a message.
LEMMA HeadIsNat ==
  ASSUME NEW e \in [Chan -> Seq(Nat)], NEW c \in Chan, e[c] # <<>>
  PROVE  Head(e[c]) \in Nat
OBVIOUS

----------------------------------------------------------------------------
(* The inductive invariant: the tables are aligned for every slot, dead or  *)
(* alive, and no two frames share a table entry.                            *)

\* Slot s is dispatchable, and what its frame waits on are channels.
Aligned(s) ==
  /\ Dispatchable(s)
  /\ frame_kinds[s] \notin {0, Join} => frame_channels[s] \in Seq(Chan)
  /\ slots[s].tag = "ReceiveFrameSlot" => slots[s].chs # <<>>

\* Two frames never share a table entry.
OwnRecipe(s, t) ==
  frame_kinds[s] # 0 /\ frame_kinds[t] # 0 /\ Table(frame_kinds[s]) = Table(frame_kinds[t])
    => frame_recipes[s] # frame_recipes[t]

RecipesAreOwned == \A s, t \in Slot : s # t => OwnRecipe(s, t)

TableInv == /\ SlotTypes /\ FrameTypes
            /\ \A s \in Slot : Aligned(s)
            /\ RecipesAreOwned
            /\ LiveTablesAgree

----------------------------------------------------------------------------
(* What a step may do to the slots and the frame tables. *)

\* A producer that is not being resumed has a message to send.
Pending(kind, phase, m) ==
  /\ kind = TerminalProduceState => m # NoMsg
  /\ kind \in {Produce, ProduceState} /\ phase # 1 => m # NoMsg

Replace(v) == /\ frame_kinds[i] = 0 /\ is_live(slots[i]) /\ SetSlot(v)
              /\ UNCHANGED <<liveVars, frameVars>>

Install(kind, chs, phase, m) ==
  /\ frame_kinds[i] = 0 /\ is_live(slots[i]) /\ StoreFrame(kind, chs, kind)
  /\ SetSlot(FrameSlot(kind)) /\ SetKind(kind) /\ SetPhase(phase) /\ SetPending(m)
  /\ UNCHANGED liveVars

Rephase(chs, phase, m) ==
  /\ frame_kinds[i] # 0
  /\ frame_channels' = [frame_channels EXCEPT ![i] = chs]
  /\ SetPhase(phase) /\ SetPending(m)
  /\ UNCHANGED <<slots, liveVars, frame_kinds, frame_recipes, recipes>>

Finish(m) == /\ frame_kinds[i] # 0 /\ FinishFrame /\ SetPending(m)
             /\ UNCHANGED liveVars

\* Writing one entry of a table.
LEMMA EntrySet ==
  ASSUME NEW S, NEW f \in [Slot -> S], NEW s \in Slot, NEW v \in S
  PROVE  /\ [f EXCEPT ![s] = v] \in [Slot -> S]
         /\ [f EXCEPT ![s] = v][s] = v
         /\ \A t \in Slot : t # s => [f EXCEPT ![s] = v][t] = f[t]
OBVIOUS

\* Every frame kind has a table of callbacks.
LEMMA TableRange == ASSUME NEW k \in 1..7 PROVE Table(k) \in 1..6
BY DEF Table, TerminalProduceState, ProduceState

\* Replacing a live slot by a live slot keeps the three accounts in step.
LEMMA LiveElsewhere ==
  ASSUME TableInv, i \in Slot, is_live(slots[i]), NEW v, is_live(v), SetSlot(v),
         UNCHANGED liveVars
  PROVE  LiveTablesAgree'
<1>1. \A s \in Slot : is_live(slots[s])' <=> is_live(slots[s])
  BY DEF TableInv, SlotTypes, SetSlot, is_live
<1>2. QED
  BY <1>1 DEF TableInv, LiveTablesAgree, liveVars

\* A slot none of whose entries changed stays aligned.
LEMMA AlignedElsewhere ==
  ASSUME NEW s \in Slot, Aligned(s),
         slots'[s] = slots[s], frame_kinds'[s] = frame_kinds[s],
         frame_phases'[s] = frame_phases[s], frame_channels'[s] = frame_channels[s],
         frame_pending'[s] = frame_pending[s],
         frame_kinds[s] # 0 => HasRecipe(s)'
  PROVE  Aligned(s)'
BY DEF Aligned, Dispatchable

\* Shape 1: a slot without a frame is replaced by another.
LEMMA ReplaceKeeps ==
  ASSUME TableInv, i \in Slot, NEW v \in PlainRec, Replace(v)
  PROVE  TableInv'
<1>1. SlotTypes'
  BY DEF TableInv, SlotTypes, Replace, SetSlot, PlainRec, liveVars
<1>2. FrameTypes'
  BY DEF TableInv, FrameTypes, Replace, frameVars, tableVars
<1>3. ASSUME NEW s \in Slot PROVE Aligned(s)'
  <2>1. UNCHANGED <<frame_kinds, frame_phases, frame_channels, frame_recipes, frame_pending, recipes>>
    BY DEF Replace, frameVars, tableVars
  <2>2. CASE s = i
    <3>1. slots'[s] = v /\ frame_kinds[s] = 0
      BY <2>2 DEF TableInv, SlotTypes, Replace, SetSlot
    <3>2. v.tag # "FrameSlot" /\ (v.tag = "ReceiveFrameSlot" => v.chs # <<>>)
      BY PlainFields, Zenon
    <3>3. QED
      BY <2>1, <3>1, <3>2 DEF Aligned, Dispatchable, TerminalProduceState, Produce, ProduceState
  <2>3. CASE s # i
    <3>1. slots'[s] = slots[s]
      BY <2>3 DEF TableInv, SlotTypes, Replace, SetSlot
    <3>2. HasRecipe(s)' <=> HasRecipe(s)
      BY <2>1 DEF HasRecipe
    <3>3. Aligned(s)
      BY DEF TableInv
    <3>4. frame_kinds[s] # 0 => HasRecipe(s)
      BY <3>3 DEF Aligned, Dispatchable
    <3>5. QED
      BY <2>1, <3>1, <3>2, <3>3, <3>4, AlignedElsewhere
  <2>4. QED
    BY <2>2, <2>3
<1>4. RecipesAreOwned'
  BY DEF TableInv, RecipesAreOwned, OwnRecipe, Replace, frameVars, tableVars
<1>5. LiveTablesAgree'
  BY PlainFields, LiveElsewhere DEF Replace, is_live
<1>6. QED
  BY <1>1, <1>2, <1>3, <1>4, <1>5 DEF TableInv

\* Shape 2: a frame changes its phase, channels or pending message.
LEMMA RephaseKeeps ==
  ASSUME TableInv, i \in Slot, NEW chs \in Seq(Nat), NEW phase \in 0..3, NEW m \in Nat,
         frame_kinds[i] # Join => chs \in Seq(Chan),
         Pending(frame_kinds[i], phase, m), Rephase(chs, phase, m)
  PROVE  TableInv'
<1>0. UNCHANGED <<slots, frame_kinds, frame_recipes, recipes>>
  BY DEF Rephase
<1>1. SlotTypes'
  BY DEF TableInv, SlotTypes, Rephase, liveVars
<1>2. FrameTypes'
  BY DEF TableInv, FrameTypes, Rephase, SetPhase, SetPending
<1>3. ASSUME NEW s \in Slot PROVE Aligned(s)'
  <2>1. HasRecipe(s)' <=> HasRecipe(s)
    BY <1>0 DEF HasRecipe
  <2>2. Aligned(s)
    BY DEF TableInv
  <2>3. CASE s = i
    <3>1. /\ frame_channels'[s] = chs
          /\ frame_phases'[s] = phase /\ frame_pending'[s] = m
      BY <2>3 DEF TableInv, FrameTypes, Rephase, SetPhase, SetPending
    <3>2. QED
      BY <1>0, <2>1, <2>2, <2>3, <3>1 DEF Aligned, Dispatchable, Pending
  <2>4. CASE s # i
    <3>1. /\ frame_channels'[s] = frame_channels[s]
          /\ frame_phases'[s] = frame_phases[s] /\ frame_pending'[s] = frame_pending[s]
      BY <2>4 DEF TableInv, FrameTypes, Rephase, SetPhase, SetPending
    <3>2. frame_kinds[s] # 0 => HasRecipe(s)
      BY <2>2 DEF Aligned, Dispatchable
    <3>3. QED
      BY <1>0, <2>1, <2>2, <3>1, <3>2, AlignedElsewhere
  <2>5. QED
    BY <2>3, <2>4
<1>4. RecipesAreOwned'
  BY <1>0 DEF TableInv, RecipesAreOwned, OwnRecipe
<1>5. LiveTablesAgree'
  BY <1>0 DEF TableInv, LiveTablesAgree, Rephase, liveVars
<1>6. QED
  BY <1>1, <1>2, <1>3, <1>4, <1>5 DEF TableInv

\* What storing a frame does to the tables.
LEMMA StoreFrameFacts ==
  ASSUME TableInv, i \in Slot, NEW kind \in 1..7, NEW chs \in Seq(Nat), NEW held \in 0..7,
         StoreFrame(kind, chs, held)
  PROVE  /\ frame_channels' \in [Slot -> Seq(Nat)] /\ frame_recipes' \in [Slot -> Nat]
         /\ recipes' \in [1..6 -> Seq(0..7)]
         /\ frame_channels'[i] = chs
         /\ frame_recipes'[i] = Len(recipes[Table(kind)]) + 1
         /\ frame_recipes'[i] \in DOMAIN recipes'[Table(kind)]
         /\ recipes'[Table(kind)][frame_recipes'[i]] = held
         /\ \A s \in Slot : s # i => /\ frame_channels'[s] = frame_channels[s]
                                    /\ frame_recipes'[s] = frame_recipes[s]
         /\ \A k \in 1..6 : \A r \in DOMAIN recipes[k] :
               r \in DOMAIN recipes'[k] /\ recipes'[k][r] = recipes[k][r]
<1> DEFINE T == Table(kind)
           q == recipes[T]
<1>1. T \in 1..6
  BY TableRange
<1>2. recipes \in [1..6 -> Seq(0..7)] /\ frame_channels \in [Slot -> Seq(Nat)]
      /\ frame_recipes \in [Slot -> Nat]
  BY DEF TableInv, FrameTypes
<1>3. q \in Seq(0..7)
  BY <1>1, <1>2
<1>4. /\ frame_channels' = [frame_channels EXCEPT ![i] = chs]
      /\ recipes' = [recipes EXCEPT ![T] = Append(q, held)]
      /\ frame_recipes' = [frame_recipes EXCEPT ![i] = Len(q) + 1]
  BY DEF StoreFrame
<1> HIDE DEF T
<1>5. /\ Append(q, held) \in Seq(0..7) /\ Len(q) + 1 \in Nat
      /\ Len(q) + 1 \in DOMAIN Append(q, held) /\ Append(q, held)[Len(q) + 1] = held
      /\ \A r \in DOMAIN q : r \in DOMAIN Append(q, held) /\ Append(q, held)[r] = q[r]
  BY <1>3
<1>6. recipes'[T] = Append(q, held) /\ recipes' \in [1..6 -> Seq(0..7)]
      /\ \A k \in 1..6 : k # T => recipes'[k] = recipes[k]
  BY <1>1, <1>2, <1>4, <1>5
<1>7. frame_recipes'[i] = Len(q) + 1 /\ frame_channels'[i] = chs
      /\ frame_channels' \in [Slot -> Seq(Nat)] /\ frame_recipes' \in [Slot -> Nat]
      /\ \A s \in Slot : s # i => /\ frame_channels'[s] = frame_channels[s]
                                 /\ frame_recipes'[s] = frame_recipes[s]
  BY <1>2, <1>4, <1>5
<1>8. \A k \in 1..6 : \A r \in DOMAIN recipes[k] :
         r \in DOMAIN recipes'[k] /\ recipes'[k][r] = recipes[k][r]
  <2>1. ASSUME NEW k \in 1..6, NEW r \in DOMAIN recipes[k]
        PROVE  r \in DOMAIN recipes'[k] /\ recipes'[k][r] = recipes[k][r]
    BY <1>5, <1>6, <2>1
  <2>2. QED
    BY <2>1
<1>9. QED
  BY <1>5, <1>6, <1>7, <1>8 DEF T

\* The fields of a frame slot.
LEMMA FrameSlotFields ==
  ASSUME NEW kind \in 1..7
  PROVE  /\ FrameSlot(kind) \in SlotRec
         /\ FrameSlot(kind).tag = "FrameSlot" /\ FrameSlot(kind).arg = kind
BY DEF FrameSlot, SlotRecord, SlotRec, SlotTags, NoMsg

\* A slot that keeps its frame and its table entry keeps its callbacks.
LEMMA RecipeSurvives ==
  ASSUME TableInv, NEW s \in Slot, frame_kinds[s] # 0,
         frame_kinds'[s] = frame_kinds[s], frame_recipes'[s] = frame_recipes[s],
         \A k \in 1..6 : \A r \in DOMAIN recipes[k] :
            r \in DOMAIN recipes'[k] /\ recipes'[k][r] = recipes[k][r]
  PROVE  HasRecipe(s)'
<1>1. HasRecipe(s)
  BY DEF TableInv, Aligned, Dispatchable
<1>2. frame_kinds[s] \in 1..7
  BY DEF TableInv, FrameTypes
<1>3. Table(frame_kinds[s]) \in 1..6
  BY <1>2, TableRange
<1>4. QED
  BY <1>1, <1>3 DEF HasRecipe

\* Shape 3: a frame is installed under a fresh table entry.
LEMMA InstallKeeps ==
  ASSUME TableInv, i \in Slot, NEW kind \in 1..7, NEW chs \in Seq(Nat),
         NEW phase \in 0..3, NEW m \in Nat,
         kind # Join => chs \in Seq(Chan), Pending(kind, phase, m),
         Install(kind, chs, phase, m)
  PROVE  TableInv'
<1>0. /\ frame_kinds[i] = 0 /\ StoreFrame(kind, chs, kind)
      /\ SetSlot(FrameSlot(kind)) /\ SetKind(kind) /\ SetPhase(phase) /\ SetPending(m)
      /\ UNCHANGED liveVars /\ kind \in 0..7
  BY DEF Install
<1>1. /\ frame_channels' \in [Slot -> Seq(Nat)] /\ frame_recipes' \in [Slot -> Nat]
      /\ recipes' \in [1..6 -> Seq(0..7)]
  BY <1>0, StoreFrameFacts, ZenonT(40)
<1>2a. frame_channels'[i] = chs
  BY <1>0, StoreFrameFacts, ZenonT(40)
<1>2b. frame_recipes'[i] = Len(recipes[Table(kind)]) + 1
  BY <1>0, StoreFrameFacts, ZenonT(40)
<1>2c. frame_recipes'[i] \in DOMAIN recipes'[Table(kind)]
  BY <1>0, StoreFrameFacts, ZenonT(40)
<1>2d. recipes'[Table(kind)][frame_recipes'[i]] = kind
  <2>1. \A held \in 0..7 : StoreFrame(kind, chs, held)
                           => recipes'[Table(kind)][frame_recipes'[i]] = held
    BY StoreFrameFacts, ZenonT(40)
  <2>2. QED
    BY <1>0, <2>1, Zenon
<1>2. /\ frame_channels'[i] = chs
      /\ frame_recipes'[i] = Len(recipes[Table(kind)]) + 1
      /\ frame_recipes'[i] \in DOMAIN recipes'[Table(kind)]
      /\ recipes'[Table(kind)][frame_recipes'[i]] = kind
  BY <1>2a, <1>2b, <1>2c, <1>2d
<1>3. \A s \in Slot : s # i => /\ frame_channels'[s] = frame_channels[s]
                             /\ frame_recipes'[s] = frame_recipes[s]
  BY <1>0, StoreFrameFacts, Zenon
<1>4. \A k \in 1..6 : \A r \in DOMAIN recipes[k] :
         r \in DOMAIN recipes'[k] /\ recipes'[k][r] = recipes[k][r]
  BY <1>0, StoreFrameFacts, Zenon
<1>5. /\ slots' \in [Slot -> SlotRec] /\ slots'[i] = FrameSlot(kind)
      /\ \A s \in Slot : s # i => slots'[s] = slots[s]
  BY <1>0, FrameSlotFields DEF TableInv, SlotTypes, SetSlot
<1>6. /\ frame_kinds' \in [Slot -> 0..7] /\ frame_kinds'[i] = kind
      /\ frame_phases' \in [Slot -> 0..3] /\ frame_phases'[i] = phase
      /\ frame_pending' \in [Slot -> Nat] /\ frame_pending'[i] = m
      /\ \A s \in Slot : s # i => /\ frame_kinds'[s] = frame_kinds[s]
                                 /\ frame_phases'[s] = frame_phases[s]
                                 /\ frame_pending'[s] = frame_pending[s]
  BY <1>0 DEF TableInv, FrameTypes, SetKind, SetPhase, SetPending
<1>7. ASSUME NEW s \in Slot PROVE Aligned(s)'
  <2>1. CASE s = i
    <3>1. HasRecipe(s)'
      BY <1>2, <1>6, <2>1 DEF HasRecipe
    <3>2. slots'[s].tag = "FrameSlot" /\ slots'[s].arg = kind
      BY <1>5, <2>1, FrameSlotFields
    <3>3. QED
      BY <1>2, <1>6, <2>1, <3>1, <3>2 DEF Aligned, Dispatchable, Pending, Join
  <2>2. CASE s # i
    <3>1. Aligned(s)
      BY DEF TableInv
    <3>2. frame_kinds[s] # 0 => HasRecipe(s)'
      BY <1>3, <1>4, <1>6, <2>2, RecipeSurvives
    <3>3. QED
      BY <1>3, <1>5, <1>6, <2>2, <3>1, <3>2, AlignedElsewhere
  <2>3. QED
    BY <2>1, <2>2
<1>8. RecipesAreOwned'
  <2>1. ASSUME NEW s \in Slot, s # i, frame_kinds[s] # 0, Table(frame_kinds[s]) = Table(kind)
        PROVE  frame_recipes[s] # Len(recipes[Table(kind)]) + 1
    <3>1. frame_recipes[s] \in DOMAIN recipes[Table(kind)]
      BY <2>1 DEF TableInv, Aligned, Dispatchable, HasRecipe
    <3>2. recipes[Table(kind)] \in Seq(0..7)
      BY TableRange DEF TableInv, FrameTypes
    <3>3. QED
      BY <3>1, <3>2
  <2>2. ASSUME NEW s \in Slot, NEW t \in Slot, s # t PROVE OwnRecipe(s, t)'
    <3>1. CASE s # i /\ t # i
      BY <1>3, <1>6, <2>2, <3>1 DEF TableInv, RecipesAreOwned, OwnRecipe
    <3>2. CASE s = i
      BY <1>2, <1>3, <1>6, <2>1, <2>2, <3>2 DEF OwnRecipe
    <3>3. CASE t = i
      BY <1>2, <1>3, <1>6, <2>1, <2>2, <3>3 DEF OwnRecipe
    <3>4. QED
      BY <3>1, <3>2, <3>3
  <2>3. QED
    BY <2>2 DEF RecipesAreOwned
<1>9. SlotTypes'
  BY <1>0, <1>5 DEF TableInv, SlotTypes, liveVars
<1>10. FrameTypes'
  BY <1>1, <1>6 DEF FrameTypes
<1>11. LiveTablesAgree'
  <2>1. is_live(FrameSlot(kind))
    BY FrameSlotFields DEF is_live
  <2>2. is_live(slots[i])
    BY DEF Install
  <2>3. QED
    BY <1>0, <2>1, <2>2, LiveElsewhere
<1>12. QED
  BY <1>7, <1>8, <1>9, <1>10, <1>11 DEF TableInv

\* Clearing the table entry of one slot leaves the callbacks of the others.
LEMMA ClearRecipeFacts ==
  ASSUME TableInv, NEW t \in Slot, frame_kinds[t] # 0, ClearRecipe(t)
  PROVE  /\ recipes' \in [1..6 -> Seq(0..7)]
         /\ \A s \in Slot : s # t /\ frame_kinds[s] # 0 =>
              /\ frame_recipes[s] \in DOMAIN recipes'[Table(frame_kinds[s])]
              /\ recipes'[Table(frame_kinds[s])][frame_recipes[s]] = frame_kinds[s]
<1> DEFINE T == Table(frame_kinds[t])
           q == recipes[T]
           r == frame_recipes[t]
           q0 == [q EXCEPT ![r] = 0]
<1>1. frame_kinds[t] \in 1..7
  BY DEF TableInv, FrameTypes
<1>2. T \in 1..6
  BY <1>1, TableRange
<1>3. recipes \in [1..6 -> Seq(0..7)]
  BY DEF TableInv, FrameTypes
<1>4. q \in Seq(0..7)
  BY <1>2, <1>3
<1>5. recipes' = [recipes EXCEPT ![T] = q0]
  BY DEF ClearRecipe
<1>6. r \in DOMAIN q
  BY DEF TableInv, Aligned, Dispatchable, HasRecipe
<1> HIDE DEF T, q, r
<1>7. /\ q0 \in Seq(0..7) /\ DOMAIN q0 = DOMAIN q
      /\ \A x \in DOMAIN q : x # r => q0[x] = q[x]
  BY <1>4, <1>6
<1> HIDE DEF q0
<1>8. /\ recipes' \in [1..6 -> Seq(0..7)] /\ recipes'[T] = q0
      /\ \A k \in 1..6 : k # T => recipes'[k] = recipes[k]
  BY <1>2, <1>3, <1>5, <1>7
<1>9. ASSUME NEW s \in Slot, s # t, frame_kinds[s] # 0
      PROVE  /\ frame_recipes[s] \in DOMAIN recipes'[Table(frame_kinds[s])]
             /\ recipes'[Table(frame_kinds[s])][frame_recipes[s]] = frame_kinds[s]
  <2>1. HasRecipe(s)
    BY <1>9 DEF TableInv, Aligned, Dispatchable
  <2>2. frame_kinds[s] \in 1..7
    BY <1>9 DEF TableInv, FrameTypes
  <2>3. Table(frame_kinds[s]) \in 1..6
    BY <2>2, TableRange
  <2>4. Table(frame_kinds[s]) = T => frame_recipes[s] # r
    BY <1>9 DEF TableInv, RecipesAreOwned, OwnRecipe, T, r
  <2>5. CASE Table(frame_kinds[s]) = T
    BY <2>1, <2>4, <2>5, <1>7, <1>8 DEF HasRecipe, q
  <2>6. CASE Table(frame_kinds[s]) # T
    BY <2>1, <2>3, <2>6, <1>8 DEF HasRecipe
  <2>7. QED
    BY <2>5, <2>6
<1>10. QED
  BY <1>8, <1>9

\* Shape 4: a frame finishes and its callbacks are cleared.
LEMMA FinishKeeps ==
  ASSUME TableInv, i \in Slot, NEW m \in Nat, Finish(m)
  PROVE  TableInv'
<1>0. /\ frame_kinds[i] # 0 /\ SetSlot(Active) /\ SetKind(0) /\ ClearRecipe(i)
      /\ SetPending(m)
      /\ UNCHANGED <<liveVars, frame_phases, frame_channels, frame_recipes>>
  BY DEF Finish, FinishFrame
<1>1. recipes' \in [1..6 -> Seq(0..7)]
  BY <1>0, ClearRecipeFacts, Zenon
<1>2. \A s \in Slot : s # i /\ frame_kinds[s] # 0 =>
         /\ frame_recipes[s] \in DOMAIN recipes'[Table(frame_kinds[s])]
         /\ recipes'[Table(frame_kinds[s])][frame_recipes[s]] = frame_kinds[s]
  BY <1>0, ClearRecipeFacts, Zenon
<1>3. Active \in SlotRec /\ Active.tag = "Active"
  BY ActiveIsPlain, PlainFields DEF Active, SlotRecord
<1>4. /\ slots' \in [Slot -> SlotRec] /\ slots'[i] = Active
      /\ \A s \in Slot : s # i => slots'[s] = slots[s]
  BY <1>0, <1>3 DEF TableInv, SlotTypes, SetSlot
<1>5. /\ frame_kinds' \in [Slot -> 0..7] /\ frame_kinds'[i] = 0
      /\ frame_pending' \in [Slot -> Nat]
      /\ \A s \in Slot : s # i => /\ frame_kinds'[s] = frame_kinds[s]
                                 /\ frame_pending'[s] = frame_pending[s]
  BY <1>0 DEF TableInv, FrameTypes, SetKind, SetPending
<1>6. ASSUME NEW s \in Slot PROVE Aligned(s)'
  <2>1. CASE s = i
    BY <1>3, <1>4, <1>5, <2>1
       DEF Aligned, Dispatchable, TerminalProduceState, Produce, ProduceState
  <2>2. CASE s # i
    <3>1. Aligned(s)
      BY DEF TableInv
    <3>2. frame_kinds[s] # 0 => HasRecipe(s)'
      BY <1>0, <1>2, <1>5, <2>2 DEF HasRecipe
    <3>3. QED
      BY <1>0, <1>4, <1>5, <2>2, <3>1, <3>2, AlignedElsewhere
  <2>3. QED
    BY <2>1, <2>2
<1>7. RecipesAreOwned'
  BY <1>0, <1>5 DEF TableInv, RecipesAreOwned, OwnRecipe
<1>8. SlotTypes'
  BY <1>0, <1>4 DEF TableInv, SlotTypes, liveVars
<1>9. FrameTypes'
  BY <1>0, <1>1, <1>5 DEF TableInv, FrameTypes
<1>10. LiveTablesAgree'
  <2>1. is_live(slots[i])
    BY <1>0 DEF TableInv, Aligned, Dispatchable, is_live
  <2>2. is_live(Active)
    BY <1>3 DEF is_live
  <2>3. QED
    BY <1>0, <2>1, <2>2, LiveElsewhere
<1>11. QED
  BY <1>6, <1>7, <1>8, <1>9, <1>10 DEF TableInv

\* A frame stored and cleared in one turn: the slot never becomes a frame slot.
LEMMA StoreClearedKeeps ==
  ASSUME TableInv, i \in Slot, frame_kinds[i] = 0, is_live(slots[i]),
         NEW kind \in 1..7, NEW chs \in Seq(Nat),
         StoreFrame(kind, chs, 0), SetSlot(Active), SetKind(0),
         UNCHANGED <<liveVars, frame_phases, frame_pending>>
  PROVE  TableInv'
<1>0. 0 \in 0..7
  OBVIOUS
<1>1. /\ frame_channels' \in [Slot -> Seq(Nat)] /\ frame_recipes' \in [Slot -> Nat]
      /\ recipes' \in [1..6 -> Seq(0..7)]
  BY <1>0, StoreFrameFacts, ZenonT(40)
<1>2. \A s \in Slot : s # i => /\ frame_channels'[s] = frame_channels[s]
                             /\ frame_recipes'[s] = frame_recipes[s]
  BY <1>0, StoreFrameFacts, Zenon
<1>3. \A k \in 1..6 : \A r \in DOMAIN recipes[k] :
         r \in DOMAIN recipes'[k] /\ recipes'[k][r] = recipes[k][r]
  BY <1>0, StoreFrameFacts, Zenon
<1>4. Active \in SlotRec /\ Active.tag = "Active"
  BY ActiveIsPlain, PlainFields DEF Active, SlotRecord
<1>5. /\ slots' \in [Slot -> SlotRec] /\ slots'[i] = Active
      /\ \A s \in Slot : s # i => slots'[s] = slots[s]
  BY <1>4 DEF TableInv, SlotTypes, SetSlot
<1>6. frame_kinds' = frame_kinds
  BY DEF TableInv, FrameTypes, SetKind
<1>7. ASSUME NEW s \in Slot PROVE Aligned(s)'
  <2>1. CASE s = i
    BY <1>4, <1>5, <1>6, <2>1
       DEF Aligned, Dispatchable, TerminalProduceState, Produce, ProduceState
  <2>2. CASE s # i
    <3>1. Aligned(s)
      BY DEF TableInv
    <3>2. frame_kinds[s] # 0 => HasRecipe(s)'
      BY <1>2, <1>3, <1>6, <2>2, RecipeSurvives
    <3>3. QED
      BY <1>2, <1>5, <1>6, <2>2, <3>1, <3>2, AlignedElsewhere
  <2>3. QED
    BY <2>1, <2>2
<1>8. RecipesAreOwned'
  BY <1>2, <1>6 DEF TableInv, RecipesAreOwned, OwnRecipe
<1>9. SlotTypes'
  BY <1>5 DEF TableInv, SlotTypes, liveVars
<1>10. FrameTypes'
  BY <1>1, <1>6 DEF TableInv, FrameTypes
<1>11. LiveTablesAgree'
  <2>1. is_live(Active)
    BY <1>4 DEF is_live
  <2>2. QED
    BY <2>1, LiveElsewhere
<1>12. QED
  BY <1>7, <1>8, <1>9, <1>10, <1>11 DEF TableInv

----------------------------------------------------------------------------
(* The three operations that start and end tasks. *)

LiveSet == {s \in Slot : slot_live[s]}

\* The set of live slots is finite.
LEMMA LiveSetFinite == IsFiniteSet(LiveSet) /\ Cardinality(LiveSet) \in Nat
<1>1. 0 \in Int /\ MaxSlots - 1 \in Int
  OBVIOUS
<1>2. IsFiniteSet(Slot)
  BY <1>1, FS_Interval DEF Slot
<1>3. IsFiniteSet(LiveSet)
  BY <1>2, FS_Subset DEF LiveSet
<1>4. QED
  BY <1>3, FS_CardinalityType

\* The fields of an ended slot.
LEMMA EndedFields == Ended \in SlotRec /\ Ended.tag = "Ended"
BY DEF Ended, SlotRecord, SlotRec, SlotTags, NoMsg

\* The fields of a running slot.
LEMMA ActiveFields == Active \in SlotRec /\ Active.tag = "Active"
BY ActiveIsPlain, PlainFields DEF Active, SlotRecord

\* A task that ends leaves all three accounts of live tasks.
LEMMA DoneKeeps ==
  ASSUME TableInv, i \in Slot, PollDone
  PROVE  TableInv'
<1>0. /\ slot_live[i] /\ frame_kinds[i] = 0 /\ slots[i].tag = "Active"
      /\ slots' = [slots EXCEPT ![i] = Ended]
      /\ slot_live' = [slot_live EXCEPT ![i] = FALSE]
      /\ live_count' = live_count - 1
      /\ UNCHANGED <<slot_count, frame_kinds, frame_phases, frame_pending, frame_channels,
                     frame_recipes, recipes>>
  BY DEF PollDone, SlotTurn, LiveTurn, SetSlot, frameVars, tableVars
<1>1. /\ slots' \in [Slot -> SlotRec] /\ slots'[i] = Ended
      /\ \A s \in Slot : s # i => slots'[s] = slots[s]
  BY <1>0, EndedFields DEF TableInv, SlotTypes
<1>2. SlotTypes'
  BY <1>0, <1>1 DEF TableInv, SlotTypes
<1>3. FrameTypes'
  BY <1>0 DEF TableInv, FrameTypes
<1>4. ASSUME NEW s \in Slot PROVE Aligned(s)'
  <2>1. Aligned(s)
    BY DEF TableInv
  <2>2. HasRecipe(s)' <=> HasRecipe(s)
    BY <1>0 DEF HasRecipe
  <2>3. CASE s = i
    BY <1>0, <1>1, <2>3, EndedFields
       DEF Aligned, Dispatchable, TerminalProduceState, Produce, ProduceState
  <2>4. CASE s # i
    <3>1. frame_kinds[s] # 0 => HasRecipe(s)
      BY <2>1 DEF Aligned, Dispatchable
    <3>2. QED
      BY <1>0, <1>1, <2>1, <2>2, <2>4, <3>1, AlignedElsewhere
  <2>5. QED
    BY <2>3, <2>4
<1>5. RecipesAreOwned'
  BY <1>0 DEF TableInv, RecipesAreOwned, OwnRecipe
<1>6. LiveTablesAgree'
  <2>1. \A s \in Slot : slot_live'[s] <=> slot_live[s] /\ s # i
    BY <1>0 DEF TableInv, SlotTypes
  <2>2. LiveSet' = LiveSet \ {i} /\ i \in LiveSet
    BY <2>1, <1>0 DEF LiveSet
  <2>3. Cardinality(LiveSet') = Cardinality(LiveSet) - 1
    BY <2>2, LiveSetFinite, FS_RemoveElement
  <2>4. live_count = Cardinality(LiveSet)
    BY DEF TableInv, LiveTablesAgree, LiveSet
  <2>5. live_count' = Cardinality({s \in Slot : slot_live[s]})'
    BY <1>0, <2>3, <2>4 DEF LiveSet
  <2>6. \A s \in Slot : slot_live'[s] <=> is_live(slots'[s])
    BY <1>1, <2>1, EndedFields DEF TableInv, LiveTablesAgree, is_live
  <2>7. QED
    BY <1>0, <2>1, <2>5, <2>6 DEF TableInv, LiveTablesAgree, is_live
<1>7. QED
  BY <1>2, <1>3, <1>4, <1>5, <1>6 DEF TableInv

\* A forked task enters all three accounts of live tasks.
LEMMA ForkKeeps ==
  ASSUME TableInv, i \in Slot, i < slot_count, PollFork
  PROVE  TableInv'
<1> DEFINE c == slot_count
<1>0. /\ slot_live[i] /\ frame_kinds[i] = 0 /\ slots[i].tag = "Active"
      /\ slots' = [slots EXCEPT ![c] = Active, ![i] = Active]
      /\ frame_kinds' = [frame_kinds EXCEPT ![c] = 0]
      /\ frame_phases' = [frame_phases EXCEPT ![c] = 0]
      /\ frame_pending' = [frame_pending EXCEPT ![c] = NoMsg]
      /\ slot_live' = [slot_live EXCEPT ![c] = TRUE]
      /\ live_count' = live_count + 1
      /\ slot_count' = slot_count + 1
      /\ UNCHANGED <<frame_channels, frame_recipes, recipes>>
  BY DEF PollFork, SlotTurn, LiveTurn, tableVars
<1>1. c \in Slot /\ c # i /\ slot_count + 1 \in 1..MaxSlots
  BY DEF TableInv, SlotTypes, Slot, PollFork
<1>1a. ~slot_live[c]
  BY <1>1 DEF TableInv, LiveTablesAgree, SlotTypes
<1> HIDE DEF c
<1>2. /\ slots' \in [Slot -> SlotRec] /\ slots'[i] = Active /\ slots'[c] = Active
      /\ \A s \in Slot : s # i /\ s # c => slots'[s] = slots[s]
  BY <1>0, <1>1, ActiveFields DEF TableInv, SlotTypes
<1>3. /\ frame_kinds' \in [Slot -> 0..7] /\ frame_kinds'[c] = 0
      /\ frame_phases' \in [Slot -> 0..3] /\ frame_pending' \in [Slot -> Nat]
      /\ \A s \in Slot : s # c => /\ frame_kinds'[s] = frame_kinds[s]
                                 /\ frame_phases'[s] = frame_phases[s]
                                 /\ frame_pending'[s] = frame_pending[s]
  <2>1. /\ frame_kinds \in [Slot -> 0..7] /\ frame_phases \in [Slot -> 0..3]
        /\ frame_pending \in [Slot -> Nat]
    BY DEF TableInv, FrameTypes
  <2>2. 0 \in 0..7 /\ 0 \in 0..3 /\ NoMsg \in Nat
    BY DEF NoMsg
  <2>3. /\ frame_kinds' \in [Slot -> 0..7] /\ frame_kinds'[c] = 0
        /\ \A s \in Slot : s # c => frame_kinds'[s] = frame_kinds[s]
    BY <1>0, <1>1, <2>1, <2>2, EntrySet, Zenon
  <2>4. /\ frame_phases' \in [Slot -> 0..3]
        /\ \A s \in Slot : s # c => frame_phases'[s] = frame_phases[s]
    BY <1>0, <1>1, <2>1, <2>2, EntrySet, Zenon
  <2>5. /\ frame_pending' \in [Slot -> Nat]
        /\ \A s \in Slot : s # c => frame_pending'[s] = frame_pending[s]
    BY <1>0, <1>1, <2>1, <2>2, EntrySet, Zenon
  <2>6. QED
    BY <2>3, <2>4, <2>5, Zenon
<1>4. SlotTypes'
  BY <1>0, <1>1, <1>2 DEF TableInv, SlotTypes
<1>5. FrameTypes'
  BY <1>0, <1>3 DEF TableInv, FrameTypes
<1>6. ASSUME NEW s \in Slot PROVE Aligned(s)'
  <2>1. Aligned(s)
    BY DEF TableInv
  <2>2. CASE s = i \/ s = c
    <3>1. slots'[s] = Active /\ frame_kinds'[s] = 0
      BY <1>0, <1>1, <1>2, <1>3, <2>2
    <3>2. QED
      BY <3>1, ActiveFields
         DEF Aligned, Dispatchable, TerminalProduceState, Produce, ProduceState
  <2>3. CASE s # i /\ s # c
    <3>1. HasRecipe(s)' <=> HasRecipe(s)
      BY <1>0, <1>3, <2>3 DEF HasRecipe
    <3>2. frame_kinds[s] # 0 => HasRecipe(s)
      BY <2>1 DEF Aligned, Dispatchable
    <3>3. QED
      BY <1>0, <1>2, <1>3, <2>1, <2>3, <3>1, <3>2, AlignedElsewhere
  <2>4. QED
    BY <2>2, <2>3
<1>7. RecipesAreOwned'
  BY <1>0, <1>3 DEF TableInv, RecipesAreOwned, OwnRecipe
<1>8. LiveTablesAgree'
  <2>1. \A s \in Slot : slot_live'[s] <=> slot_live[s] \/ s = c
    BY <1>0, <1>1 DEF TableInv, SlotTypes
  <2>2. LiveSet' = LiveSet \cup {c} /\ c \notin LiveSet
    BY <2>1, <1>1, <1>1a DEF LiveSet
  <2>3. Cardinality(LiveSet') = Cardinality(LiveSet) + 1
    BY <2>2, LiveSetFinite, FS_AddElement
  <2>4. live_count = Cardinality(LiveSet)
    BY DEF TableInv, LiveTablesAgree, LiveSet
  <2>5. live_count' = Cardinality({s \in Slot : slot_live[s]})'
    BY <1>0, <2>3, <2>4 DEF LiveSet
  <2>6. \A s \in Slot : slot_live'[s] <=> is_live(slots'[s])
    BY <1>0, <1>1, <1>2, <2>1, ActiveFields DEF TableInv, LiveTablesAgree, is_live
  <2>7. \A s \in Slot : slot_live'[s] => s < slot_count'
    BY <1>0, <2>1 DEF TableInv, LiveTablesAgree, SlotTypes, Slot, c
  <2>8. QED
    BY <2>5, <2>6, <2>7 DEF LiveTablesAgree, is_live
<1>9. QED
  BY <1>4, <1>5, <1>6, <1>7, <1>8 DEF TableInv

\* Cancelling clears the target in every table, whether it was alive, parked
\* in a frame, dead or the caller.
LEMMA CancelKeeps ==
  ASSUME TableInv, i \in Slot, PollCancel
  PROVE  TableInv'
<1>0. /\ slot_live[i] /\ frame_kinds[i] = 0 /\ slots[i].tag = "Active"
      /\ UNCHANGED <<slot_count, frame_phases, frame_channels, frame_recipes>>
  BY DEF PollCancel, Poll, SlotTurn, LiveTurn
<1>1. PICK t \in 0..(slot_count - 1) :
        /\ IF t # i /\ slot_live[t]
           THEN /\ live_count' = live_count - 1
                /\ slot_live' = [slot_live EXCEPT ![t] = FALSE]
           ELSE UNCHANGED <<live_count, slot_live>>
        /\ IF frame_kinds[t] = 0 THEN UNCHANGED recipes ELSE ClearRecipe(t)
        /\ frame_kinds' = [frame_kinds EXCEPT ![t] = 0]
        /\ frame_pending' = [frame_pending EXCEPT ![t] = NoMsg]
        /\ slots' = [slots EXCEPT ![t] = Ended, ![i] = Active]
  BY DEF PollCancel, CountOut
<1>2. t \in Slot
  BY DEF TableInv, SlotTypes, Slot
<1>3. /\ slots' \in [Slot -> SlotRec] /\ slots'[i] = Active /\ (t # i => slots'[t] = Ended)
      /\ \A s \in Slot : s # i /\ s # t => slots'[s] = slots[s]
  BY <1>1, <1>2, ActiveFields, EndedFields DEF TableInv, SlotTypes
<1>4. /\ frame_kinds' \in [Slot -> 0..7] /\ frame_kinds'[t] = 0
      /\ frame_pending' \in [Slot -> Nat]
      /\ \A s \in Slot : s # t => /\ frame_kinds'[s] = frame_kinds[s]
                                 /\ frame_pending'[s] = frame_pending[s]
  <2>1. frame_kinds \in [Slot -> 0..7] /\ frame_pending \in [Slot -> Nat]
    BY DEF TableInv, FrameTypes
  <2>2. 0 \in 0..7 /\ NoMsg \in Nat
    BY DEF NoMsg
  <2>3. /\ frame_kinds' \in [Slot -> 0..7] /\ frame_kinds'[t] = 0
        /\ \A s \in Slot : s # t => frame_kinds'[s] = frame_kinds[s]
    BY <1>1, <1>2, <2>1, <2>2, EntrySet, Zenon
  <2>4. /\ frame_pending' \in [Slot -> Nat]
        /\ \A s \in Slot : s # t => frame_pending'[s] = frame_pending[s]
    BY <1>1, <1>2, <2>1, <2>2, EntrySet, Zenon
  <2>5. QED
    BY <2>3, <2>4, Zenon
<1>5. recipes' \in [1..6 -> Seq(0..7)]
  <2>1. CASE frame_kinds[t] = 0
    BY <1>1, <2>1 DEF TableInv, FrameTypes
  <2>2. CASE frame_kinds[t] # 0
    BY <1>1, <1>2, <2>2, ClearRecipeFacts, Zenon
  <2>3. QED
    BY <2>1, <2>2
<1>6. ASSUME NEW s \in Slot, s # t, frame_kinds[s] # 0 PROVE HasRecipe(s)'
  <2>1. CASE frame_kinds[t] = 0
    <3>1. HasRecipe(s)
      BY <1>6 DEF TableInv, Aligned, Dispatchable
    <3>2. QED
      BY <1>0, <1>1, <1>4, <1>6, <2>1, <3>1 DEF HasRecipe
  <2>2. CASE frame_kinds[t] # 0
    <3>1. /\ frame_recipes[s] \in DOMAIN recipes'[Table(frame_kinds[s])]
          /\ recipes'[Table(frame_kinds[s])][frame_recipes[s]] = frame_kinds[s]
      BY <1>1, <1>2, <1>6, <2>2, ClearRecipeFacts, Zenon
    <3>2. QED
      BY <1>0, <1>4, <1>6, <3>1 DEF HasRecipe
  <2>3. QED
    BY <2>1, <2>2
<1>7. SlotTypes'
  <2>1. slot_live' \in [Slot -> BOOLEAN] /\ live_count' \in Int
    <3>1. CASE t # i /\ slot_live[t]
      <4>1. live_count' = live_count - 1 /\ slot_live' = [slot_live EXCEPT ![t] = FALSE]
        BY <1>1, <3>1
      <4>2. live_count \in Int /\ slot_live \in [Slot -> BOOLEAN]
        BY DEF TableInv, SlotTypes
      <4>3. live_count' \in Int
        BY <4>1, <4>2
      <4>4. slot_live' \in [Slot -> BOOLEAN]
        BY <4>1, <4>2, Zenon
      <4>5. QED
        BY <4>3, <4>4
    <3>2. CASE ~(t # i /\ slot_live[t])
      BY <1>1, <3>2 DEF TableInv, SlotTypes
    <3>3. QED
      BY <3>1, <3>2
  <2>2. QED
    BY <1>0, <1>3, <2>1 DEF TableInv, SlotTypes
<1>8. FrameTypes'
  BY <1>0, <1>4, <1>5 DEF TableInv, FrameTypes
<1>9. ASSUME NEW s \in Slot PROVE Aligned(s)'
  <2>1. CASE s = i \/ s = t
    <3>1. slots'[s] \in {Active, Ended} /\ frame_kinds'[s] = 0
      BY <1>0, <1>2, <1>3, <1>4, <2>1
    <3>2. slots'[s].tag \in {"Active", "Ended"}
      BY <3>1, ActiveFields, EndedFields
    <3>3. QED
      BY <3>1, <3>2
         DEF Aligned, Dispatchable, TerminalProduceState, Produce, ProduceState
  <2>2. CASE s # i /\ s # t
    <3>1. Aligned(s)
      BY DEF TableInv
    <3>2. frame_kinds[s] # 0 => HasRecipe(s)'
      BY <1>6, <2>2
    <3>3. QED
      BY <1>0, <1>3, <1>4, <2>2, <3>1, <3>2, AlignedElsewhere
  <2>3. QED
    BY <2>1, <2>2
<1>10. RecipesAreOwned'
  BY <1>0, <1>2, <1>4 DEF TableInv, RecipesAreOwned, OwnRecipe
<1>11. LiveTablesAgree'
  <2>1. CASE t # i /\ slot_live[t]
    <3>1. \A s \in Slot : slot_live'[s] <=> slot_live[s] /\ s # t
      BY <1>1, <1>2, <2>1 DEF TableInv, SlotTypes
    <3>2. LiveSet' = LiveSet \ {t} /\ t \in LiveSet
      BY <1>2, <2>1, <3>1 DEF LiveSet
    <3>3. Cardinality(LiveSet') = Cardinality(LiveSet) - 1
      BY <3>2, LiveSetFinite, FS_RemoveElement
    <3>4. live_count = Cardinality(LiveSet)
      BY DEF TableInv, LiveTablesAgree, LiveSet
    <3>5. live_count' = Cardinality({s \in Slot : slot_live[s]})'
      BY <1>1, <2>1, <3>3, <3>4 DEF LiveSet
    <3>6. \A s \in Slot : slot_live'[s] <=> is_live(slots'[s])
      BY <1>0, <1>3, <2>1, <3>1, ActiveFields, EndedFields
         DEF TableInv, LiveTablesAgree, is_live
    <3>7. QED
      BY <1>0, <3>1, <3>5, <3>6 DEF TableInv, LiveTablesAgree, is_live
  <2>2. CASE ~(t # i /\ slot_live[t])
    <3>1. UNCHANGED <<live_count, slot_live>>
      BY <1>1, <2>2
    <3>2. \A s \in Slot : slot_live[s] <=> is_live(slots'[s])
      BY <1>0, <1>2, <1>3, <2>2, ActiveFields, EndedFields
         DEF TableInv, LiveTablesAgree, is_live
    <3>3. QED
      BY <1>0, <3>1, <3>2 DEF TableInv, LiveTablesAgree, is_live
  <2>3. QED
    BY <2>1, <2>2
<1>12. QED
  BY <1>7, <1>8, <1>9, <1>10, <1>11 DEF TableInv

----------------------------------------------------------------------------
(* The whole invariant, and the facts every turn starts from. *)

IInv == TableInv /\ ChanTypes /\ ControlTypes /\ HistoryTypes

\* The inductive invariant contains the type invariant.
LEMMA IInvTypes == IInv => TypeOK
BY DEF IInv, TableInv, TypeOK

\* What a frame of a given kind may rely on at its turn.
LEMMA LiveTurnFacts ==
  ASSUME IInv, NEW kind \in 1..7, LiveTurn(kind)
  PROVE  /\ Turn /\ i \in Slot /\ frame_kinds[i] = kind
         /\ kind # Join => frame_channels[i] \in Seq(Chan)
         /\ frame_channels[i] \in Seq(Nat)
         /\ frame_pending[i] \in Nat /\ frame_phases[i] \in 0..3
<1>1. Turn /\ frame_kinds[i] = kind
  BY DEF LiveTurn
<1>2. i \in Slot
  BY <1>1, IInvTypes, CurrentSlot
<1>3. Aligned(i)
  BY <1>2 DEF IInv, TableInv
<1>4. QED
  BY <1>1, <1>2, <1>3, SMTT(30) DEF Aligned, IInv, TableInv, FrameTypes

\* What a slot without a frame may rely on at its turn.
LEMMA SlotTurnFacts ==
  ASSUME IInv, NEW tag, tag # "Ended", SlotTurn(tag)
  PROVE  /\ Turn /\ i \in Slot /\ frame_kinds[i] = 0 /\ is_live(slots[i])
         /\ slots[i].tag = tag /\ slots[i] \in SlotRec
         /\ slots[i].chs \in Seq(Chan) /\ slots[i].msg \in Nat
<1>1. Turn /\ frame_kinds[i] = 0 /\ slots[i].tag = tag
  BY DEF SlotTurn, LiveTurn
<1>2. i \in Slot
  BY <1>1, IInvTypes, CurrentSlot
<1>3. slots[i] \in SlotRec
  BY <1>2 DEF IInv, TableInv, SlotTypes
<1>4. QED
  BY <1>1, <1>2, <1>3 DEF is_live, SlotRec

\* The operation counter stays within its bound.
LEMMA SpendType == ASSUME ControlTypes, Spend PROVE polls' \in 0..MaxPolls
BY DEF ControlTypes, Spend

\* What an operation may rely on when its task is polled.
LEMMA PollFacts ==
  ASSUME IInv, NEW op, Poll(op)
  PROVE  /\ Turn /\ i \in Slot /\ frame_kinds[i] = 0 /\ is_live(slots[i])
         /\ polls' \in 0..MaxPolls
<1>1. SlotTurn("Active") /\ Spend
  BY DEF Poll
<1>2. Turn /\ i \in Slot /\ frame_kinds[i] = 0 /\ is_live(slots[i])
  BY <1>1, SlotTurnFacts
<1>3. QED
  BY <1>1, <1>2, SpendType DEF IInv

\* Ending a turn keeps the control variables well-typed.
LEMMA EndTurnControl ==
  ASSUME IInv, Turn, NEW p \in BOOLEAN, EndTurn(p), polls' \in 0..MaxPolls,
         slot_count' \in {slot_count, slot_count + 1}
  PROVE  ControlTypes'
<1>1. prog' \in BOOLEAN
  BY Zenon DEF EndTurn, IInv, ControlTypes
<1>2. pc' = pc /\ n' = n /\ i' = i + 1 /\ i < n
  BY DEF EndTurn, Turn
<1>3. n \in 1..slot_count /\ i \in 0..n /\ pc \in {"round", "close", "done"}
      /\ slot_count \in Nat
  BY DEF IInv, ControlTypes, TableInv, SlotTypes
<1>4. n \in 1..slot_count' /\ i + 1 \in 0..n
  BY <1>2, <1>3
<1>5. QED
  BY <1>1, <1>2, <1>3, <1>4 DEF ControlTypes

\* A turn that does not end.
LEMMA SameTurnControl ==
  ASSUME IInv, prog' = TRUE, UNCHANGED <<pc, i, n, slot_count>>, polls' \in 0..MaxPolls
  PROVE  ControlTypes'
BY DEF IInv, ControlTypes

\* Going on to the next slot of the close pass keeps the control variables
\* well-typed.
LEMMA OnwardControl ==
  ASSUME IInv, Closing, CloseOnward, polls' \in 0..MaxPolls, slot_count' = slot_count
  PROVE  ControlTypes'
BY DEF IInv, ControlTypes, TableInv, SlotTypes, Closing, CloseOnward

\* An unchanged operation counter stays within its bound.
LEMMA PollsType == IInv /\ polls' = polls => polls' \in 0..MaxPolls
BY DEF IInv, ControlTypes

\* A step that leaves slots and tables alone keeps them aligned.
LEMMA StillKeeps ==
  ASSUME TableInv, UNCHANGED <<slots, liveVars, frameVars>>
  PROVE  TableInv'
<1>0. UNCHANGED <<slots, slot_live, live_count, slot_count, frame_kinds, frame_phases,
                 frame_pending, frame_channels, frame_recipes, recipes>>
  BY DEF liveVars, frameVars, tableVars
<1>1. SlotTypes' /\ FrameTypes'
  BY <1>0 DEF TableInv, SlotTypes, FrameTypes
<1>2. \A s \in Slot : Aligned(s)'
  BY <1>0 DEF TableInv, Aligned, Dispatchable, HasRecipe
<1>3. RecipesAreOwned' /\ LiveTablesAgree'
  BY <1>0 DEF TableInv, RecipesAreOwned, OwnRecipe, LiveTablesAgree, is_live
<1>4. QED
  BY <1>1, <1>2, <1>3 DEF TableInv

\* A step that leaves the channels alone keeps them well-typed.
LEMMA ChansStill == ASSUME ChanTypes, UNCHANGED chanVars PROVE ChanTypes'
BY DEF ChanTypes, chanVars

\* A step that leaves the histories alone keeps them well-typed.
LEMMA HistoryStill == ASSUME HistoryTypes, UNCHANGED histVars PROVE HistoryTypes'
BY DEF HistoryTypes, histVars

\* A step on the erased rings that may retire typed rings.
LEMMA ChansMoved ==
  ASSUME ChanTypes, erased' \in [Chan -> Seq(Nat)], typed' \in [Chan -> Seq(Nat)],
         typed_live' \in [Chan -> BOOLEAN], UNCHANGED <<cap, chan_count>>
  PROVE  ChanTypes'
BY DEF ChanTypes

----------------------------------------------------------------------------
(* The turns of frames. *)

\* Writing back the value an entry has changes nothing.
LEMMA SameEntry ==
  ASSUME NEW S, NEW f \in [Slot -> S], NEW s \in Slot
  PROVE  f = [f EXCEPT ![s] = f[s]]
OBVIOUS

\* Activating a receive frame keeps the invariant.
LEMMA ActivateKeeps ==
  ASSUME IInv, Turn, i \in Slot, frame_kinds[i] \in {ReceiveLane, ReceiveState, SelectLane},
         NEW next_channels \in SUBSET Seq(Chan), Activate(next_channels)
  PROVE  IInv'
<1>0. /\ Hand(frame_pending[i]) /\ SetPending(NoMsg) /\ EndTurn(TRUE)
      /\ UNCHANGED <<liveVars, chanVars, issued, taken, dropped>>
  BY DEF Activate
<1>1. frame_kinds[i] \notin {0, Join, Produce, ProduceState, TerminalProduceState}
  BY DEF ReceiveLane, ReceiveState, SelectLane, Join, Produce, ProduceState,
         TerminalProduceState
<1>2. TableInv /\ ControlTypes /\ 0 \in Nat /\ NoMsg \in Nat
  BY DEF IInv, NoMsg
<1>3. TableInv' /\ polls' \in 0..MaxPolls
  <2>1. CASE FinishFrame /\ UNCHANGED polls
    <3>1. Finish(NoMsg)
      BY <1>0, <1>1, <2>1 DEF Finish
    <3>2. QED
      BY <1>2, <2>1, <3>1, FinishKeeps, PollsType
  <2>2. CASE /\ Spend /\ SetPhase(2)
             /\ \E chs \in next_channels :
                   frame_channels' = [frame_channels EXCEPT ![i] = chs]
             /\ UNCHANGED <<slots, frame_kinds, frame_recipes, recipes>>
    <3>1. PICK chs \in next_channels : frame_channels' = [frame_channels EXCEPT ![i] = chs]
      BY <2>2
    <3>2. Rephase(chs, 2, NoMsg)
      BY <1>0, <1>1, <2>2, <3>1 DEF Rephase
    <3>3. chs \in Seq(Chan)
      BY <3>1
    <3>4. chs \in Seq(Nat) /\ 2 \in 0..3
      BY <3>3 DEF Chan
    <3>5. Pending(frame_kinds[i], 2, NoMsg)
      BY <1>1 DEF Pending
    <3>6. TableInv'
      BY <1>2, <3>2, <3>3, <3>4, <3>5, RephaseKeeps
    <3>7. QED
      BY <1>2, <2>2, <3>6, SpendType
  <2>3. QED
    BY <2>1, <2>2 DEF Activate
<1>4. ChanTypes'
  BY <1>0, ChansStill DEF IInv
<1>5. ControlTypes'
  <2>1. slot_count' = slot_count /\ TRUE \in BOOLEAN
    BY <1>0 DEF liveVars
  <2>2. QED
    BY <1>0, <1>3, <2>1, EndTurnControl
<1>6. HistoryTypes'
  <2>1. frame_pending[i] \in Nat
    BY DEF IInv, TableInv, FrameTypes
  <2>2. seen' \subseteq Nat
    BY <1>0, <2>1, HandType, IInvTypes
  <2>3. QED
    BY <1>0, <2>2 DEF IInv, HistoryTypes
<1>7. QED
  BY <1>3, <1>4, <1>5, <1>6 DEF IInv

\* Probing the channels of a receive frame keeps the invariant.
LEMMA ProbeKeeps ==
  ASSUME IInv, Turn, i \in Slot, frame_kinds[i] \in {ReceiveLane, ReceiveState, SelectLane},
         NEW e \in [Chan -> Seq(Nat)], Probe(e),
         typed' \in [Chan -> Seq(Nat)], typed_live' \in [Chan -> BOOLEAN]
  PROVE  IInv'
<1>0. UNCHANGED <<slots, liveVars, frame_kinds, tableVars, cap, chan_count,
                 polls, issued, seen, dropped>>
  BY DEF Probe
<1>1. frame_kinds[i] \notin {0, Join, Produce, ProduceState, TerminalProduceState}
  BY DEF ReceiveLane, ReceiveState, SelectLane, Join, Produce, ProduceState,
         TerminalProduceState
<1>2. /\ TableInv /\ frame_channels[i] \in Seq(Chan) /\ frame_channels[i] \in Seq(Nat)
      /\ frame_channels = [frame_channels EXCEPT ![i] = frame_channels[i]]
      /\ frame_pending[i] \in Nat
      /\ frame_pending = [frame_pending EXCEPT ![i] = frame_pending[i]]
  BY <1>1, SameEntry DEF IInv, TableInv, Aligned, FrameTypes
<1>3. ASSUME NEW phase \in 0..3, NEW m \in Nat, SetPhase(phase), SetPending(m)
      PROVE  TableInv'
  <2>1. Rephase(frame_channels[i], phase, m)
    BY <1>0, <1>1, <1>2, <1>3 DEF Rephase, tableVars
  <2>2. Pending(frame_kinds[i], phase, m)
    BY <1>1 DEF Pending
  <2>3. QED
    BY <1>2, <2>1, <2>2, RephaseKeeps
<1>4. polls' \in 0..MaxPolls /\ slot_count' = slot_count /\ TRUE \in BOOLEAN
      /\ FALSE \in BOOLEAN /\ 0 \in 0..3 /\ 1 \in 0..3
  BY <1>0, PollsType DEF liveVars
<1>5. CASE \E c \in first_message(e, frame_channels[i]) :
             /\ Take(e, c)
             /\ SetPending(Head(e[c])) /\ SetPhase(1)
             /\ EndTurn(TRUE)
  <2>1. PICK c \in first_message(e, frame_channels[i]) :
             /\ Take(e, c)
             /\ SetPending(Head(e[c])) /\ SetPhase(1)
             /\ EndTurn(TRUE)
    BY <1>5
  <2>2. c \in Chan /\ e[c] # <<>>
    BY <1>2, FirstMessageReady
  <2>3. Head(e[c]) \in Nat
    BY <2>2, HeadIsNat
  <2>4. erased' \in [Chan -> Seq(Nat)] /\ taken' \in [Chan -> Seq(Nat)]
    BY <2>1, <2>2, TakeType, IInvTypes
  <2>5. TableInv'
    BY <1>3, <1>4, <2>1, <2>3
  <2>6. ControlTypes'
    BY <1>4, <2>1, EndTurnControl
  <2>7. ChanTypes'
    BY <1>0, <2>4, ChansMoved DEF IInv
  <2>8. HistoryTypes'
    BY <1>0, <2>4 DEF IInv, HistoryTypes
  <2>9. QED
    BY <2>5, <2>6, <2>7, <2>8 DEF IInv
<1>6. CASE /\ first_message(e, frame_channels[i]) = {}
           /\ erased' = e
           /\ SetPhase(0)
           /\ EndTurn(FALSE)
           /\ UNCHANGED <<taken, frame_pending>>
  <2>1. SetPending(frame_pending[i])
    BY <1>2, <1>6 DEF SetPending
  <2>2. TableInv'
    BY <1>2, <1>3, <1>4, <1>6, <2>1
  <2>3. ControlTypes'
    BY <1>4, <1>6, EndTurnControl
  <2>4. ChanTypes'
    BY <1>0, <1>6, ChansMoved DEF IInv
  <2>5. HistoryTypes'
    BY <1>0, <1>6 DEF IInv, HistoryTypes
  <2>6. QED
    BY <2>2, <2>3, <2>4, <2>5 DEF IInv
<1>7. QED
  BY <1>5, <1>6 DEF Probe

\* ReceiveLaneTurn keeps the invariant.
LEMMA ReceiveLaneKeeps == ASSUME IInv, ReceiveLaneTurn PROVE IInv'
<1>1. LiveTurn(ReceiveLane) /\ ReceiveLane \in 1..7 /\ ReceiveLane # Join
  BY DEF ReceiveLaneTurn, ReceiveLane, Join
<1>2. /\ Turn /\ i \in Slot /\ frame_kinds[i] = ReceiveLane
      /\ frame_channels[i] \in Seq(Chan)
  BY <1>1, LiveTurnFacts
<1>3. CASE Activate({frame_channels[i]})
  BY <1>2, <1>3, ActivateKeeps
<1>4. CASE Probe(erased) /\ UNCHANGED <<typed, typed_live>>
  <2>1. erased \in [Chan -> Seq(Nat)] /\ typed' \in [Chan -> Seq(Nat)]
        /\ typed_live' \in [Chan -> BOOLEAN]
    BY <1>4 DEF IInv, ChanTypes
  <2>2. QED
    BY <1>2, <1>4, <2>1, ProbeKeeps
<1>5. QED
  BY <1>3, <1>4 DEF ReceiveLaneTurn

\* The probing half of the two frames that materialize first.
LEMMA MaterializingProbeKeeps ==
  ASSUME IInv, Turn, i \in Slot, frame_kinds[i] \in {ReceiveLane, ReceiveState, SelectLane},
         Probe(Materialized(FrameChannels)), materialize_typed_i64_channel(FrameChannels)
  PROVE  IInv'
<1>1. Materialized(FrameChannels) \in [Chan -> Seq(Nat)]
  BY IInvTypes, MaterializedType
<1>2. typed' \in [Chan -> Seq(Nat)] /\ typed_live' \in [Chan -> BOOLEAN]
  BY IInvTypes, MaterializeType
<1>3. QED
  BY <1>1, <1>2, ProbeKeeps

\* ReceiveStateTurn keeps the invariant.
LEMMA ReceiveStateKeeps == ASSUME IInv, ReceiveStateTurn PROVE IInv'
<1>1. LiveTurn(ReceiveState) /\ ReceiveState \in 1..7
  BY DEF ReceiveStateTurn, ReceiveState
<1>2. Turn /\ i \in Slot /\ frame_kinds[i] = ReceiveState
  BY <1>1, LiveTurnFacts
<1>3. CASE Activate({<<c>> : c \in OpenChan})
  <2>1. {<<c>> : c \in OpenChan} \in SUBSET Seq(Chan)
    BY IInvTypes, SingletonIsSeq, Zenon
  <2>2. QED
    BY <1>2, <1>3, <2>1, ActivateKeeps
<1>4. CASE /\ Probe(Materialized(FrameChannels))
           /\ materialize_typed_i64_channel(FrameChannels)
  BY <1>2, <1>4, MaterializingProbeKeeps
<1>5. QED
  BY <1>3, <1>4 DEF ReceiveStateTurn

\* SelectLaneTurn keeps the invariant.
LEMMA SelectLaneKeeps == ASSUME IInv, SelectLaneTurn PROVE IInv'
<1>1. LiveTurn(SelectLane) /\ SelectLane \in 1..7
  BY DEF SelectLaneTurn, SelectLane
<1>2. Turn /\ i \in Slot /\ frame_kinds[i] = SelectLane
  BY <1>1, LiveTurnFacts
<1>3. CASE Activate(OpenChan \X OpenChan)
  <2>1. OpenChan \X OpenChan \in SUBSET Seq(Chan)
    BY IInvTypes, PairIsSeq, Zenon
  <2>2. QED
    BY <1>2, <1>3, <2>1, ActivateKeeps
<1>4. CASE /\ Probe(Materialized(FrameChannels))
           /\ materialize_typed_i64_channel(FrameChannels)
  BY <1>2, <1>4, MaterializingProbeKeeps
<1>5. QED
  BY <1>3, <1>4 DEF SelectLaneTurn

\* A turn of a producer frame keeps the invariant.
LEMMA ProducerKeeps ==
  ASSUME IInv, Turn, i \in Slot, frame_kinds[i] \in {Produce, ProduceState},
         NEW left \in Nat, ProducerTurn(left)
  PROVE  IInv'
<1>0. frame_kinds[i] \notin {0, Join, TerminalProduceState}
  BY DEF Join, Produce, ProduceState, TerminalProduceState
<1>1. /\ TableInv /\ frame_channels[i] \in Seq(Chan) /\ frame_channels[i] \in Seq(Nat)
      /\ frame_channels = [frame_channels EXCEPT ![i] = frame_channels[i]]
      /\ frame_pending[i] \in Nat
      /\ frame_pending = [frame_pending EXCEPT ![i] = frame_pending[i]]
  BY <1>0, SameEntry DEF IInv, TableInv, Aligned, FrameTypes
<1>2. TRUE \in BOOLEAN /\ FALSE \in BOOLEAN /\ NoMsg \in Nat /\ 1 \in 0..3 /\ 2 \in 0..3
      /\ 3 \in 0..3
  BY DEF NoMsg
<1>3. CASE /\ frame_phases[i] = 1 /\ HasRecipe(i)
           /\ \/ FinishFrame /\ SetPending(left) /\ UNCHANGED <<polls, issued>>
              \/ /\ Spend
                 /\ \E c \in OpenChan :
                       /\ Issue(c)
                       /\ frame_channels' = [frame_channels EXCEPT ![i] = <<c>>]
                 /\ SetPending(NextMsg) /\ SetPhase(2)
                 /\ UNCHANGED <<slots, frame_kinds, frame_recipes, recipes>>
           /\ EndTurn(TRUE)
           /\ UNCHANGED <<liveVars, chanVars, taken, seen, dropped>>
  <2>1. ChanTypes'
    BY <1>3, ChansStill DEF IInv
  <2>2. slot_count' = slot_count
    BY <1>3 DEF liveVars
  <2>3. TableInv' /\ polls' \in 0..MaxPolls /\ HistoryTypes'
    <3>1. CASE FinishFrame /\ SetPending(left) /\ UNCHANGED <<polls, issued>>
      <4>1. Finish(left)
        BY <1>0, <1>3, <3>1 DEF Finish
      <4>2. TableInv'
        BY <1>1, <4>1, FinishKeeps
      <4>3. HistoryTypes'
        BY <1>3, <3>1 DEF IInv, HistoryTypes
      <4>4. QED
        BY <3>1, <4>2, <4>3, PollsType
    <3>2. CASE /\ Spend
               /\ \E c \in OpenChan :
                     /\ Issue(c)
                     /\ frame_channels' = [frame_channels EXCEPT ![i] = <<c>>]
               /\ SetPending(NextMsg) /\ SetPhase(2)
               /\ UNCHANGED <<slots, frame_kinds, frame_recipes, recipes>>
      <4>1. PICK c \in OpenChan : /\ Issue(c)
                                  /\ frame_channels' = [frame_channels EXCEPT ![i] = <<c>>]
        BY <3>2
      <4>2. issued' \in Seq([from : Slot, ch : Chan]) /\ NextMsg \in Nat \ {0}
        BY <4>1, IssueType, IInvTypes
      <4>3. <<c>> \in Seq(Chan)
        BY IInvTypes, OpenChanIsChan
      <4>4. <<c>> \in Seq(Nat)
        BY <4>3 DEF Chan
      <4>5. Rephase(<<c>>, 2, NextMsg)
        BY <1>0, <1>3, <3>2, <4>1 DEF Rephase
      <4>6. Pending(frame_kinds[i], 2, NextMsg) /\ NextMsg \in Nat
        BY <1>0, <4>2 DEF Pending, NoMsg
      <4>7. TableInv'
        BY <1>1, <1>2, <4>3, <4>4, <4>5, <4>6, RephaseKeeps
      <4>8. HistoryTypes'
        BY <1>3, <4>2 DEF IInv, HistoryTypes
      <4>9. QED
        BY <3>2, <4>7, <4>8, SpendType DEF IInv
    <3>3. QED
      BY <1>3, <3>1, <3>2
  <2>4. ControlTypes'
    BY <1>2, <1>3, <2>2, <2>3, EndTurnControl
  <2>5. QED
    BY <2>1, <2>3, <2>4 DEF IInv
<1>4. CASE /\ frame_phases[i] # 1 /\ frame_pending[i] # NoMsg
           /\ LET c == frame_channels[i][1]
                  e == Materialized({c})
              IN  /\ materialize_typed_i64_channel({c})
                  /\ \/ /\ HasRoom(e, c)
                        /\ Put(e, c, frame_pending[i])
                        /\ SetPending(NoMsg) /\ SetPhase(1)
                        /\ EndTurn(TRUE)
                     \/ /\ ~HasRoom(e, c)
                        /\ erased' = e
                        /\ SetPhase(3)
                        /\ EndTurn(FALSE)
                        /\ UNCHANGED frame_pending
           /\ UNCHANGED <<slots, liveVars, frame_kinds, tableVars, cap, chan_count,
                          polls, histVars>>
  <2> DEFINE c == frame_channels[i][1]
             e == Materialized({c})
  <2>1. e \in [Chan -> Seq(Nat)]
    BY IInvTypes, MaterializedType
  <2>2. typed' \in [Chan -> Seq(Nat)] /\ typed_live' \in [Chan -> BOOLEAN]
    BY <1>4, IInvTypes, MaterializeType
  <2>3. polls' \in 0..MaxPolls /\ slot_count' = slot_count
    BY <1>4, PollsType DEF liveVars
  <2>4. HistoryTypes'
    BY <1>4, HistoryStill DEF IInv
  <2>5. ASSUME NEW phase \in 0..3, NEW m \in Nat, SetPhase(phase), SetPending(m),
               phase # 1 => m # NoMsg
        PROVE  TableInv'
    <3>1. Rephase(frame_channels[i], phase, m)
      BY <1>0, <1>1, <1>4, <2>5 DEF Rephase, tableVars
    <3>2. Pending(frame_kinds[i], phase, m)
      BY <1>0, <2>5 DEF Pending
    <3>3. QED
      BY <1>1, <3>1, <3>2, RephaseKeeps
  <2>6. CASE Put(e, c, frame_pending[i]) /\ SetPending(NoMsg) /\ SetPhase(1) /\ EndTurn(TRUE)
    <3>1. erased' \in [Chan -> Seq(Nat)]
      BY <1>1, <2>1, <2>6, PutType
    <3>2. ChanTypes'
      BY <1>4, <2>2, <3>1, ChansMoved DEF IInv
    <3>3. TableInv'
      BY <1>2, <2>5, <2>6
    <3>4. ControlTypes'
      BY <1>2, <2>3, <2>6, EndTurnControl
    <3>5. QED
      BY <2>4, <3>2, <3>3, <3>4 DEF IInv
  <2>7. CASE erased' = e /\ SetPhase(3) /\ EndTurn(FALSE) /\ UNCHANGED frame_pending
    <3>1. ChanTypes'
      BY <1>4, <2>1, <2>2, <2>7, ChansMoved DEF IInv
    <3>2. SetPending(frame_pending[i])
      BY <1>1, <2>7 DEF SetPending
    <3>3. TableInv'
      BY <1>1, <1>2, <1>4, <2>5, <2>7, <3>2
    <3>4. ControlTypes'
      BY <1>2, <2>3, <2>7, EndTurnControl
    <3>5. QED
      BY <2>4, <3>1, <3>3, <3>4 DEF IInv
  <2>8. QED
    BY <1>4, <2>6, <2>7
<1>5. QED
  BY <1>3, <1>4 DEF ProducerTurn

\* ProduceFrameTurn and ProduceStateTurn keep the invariant.
LEMMA ProduceKeeps == ASSUME IInv, ProduceFrameTurn \/ ProduceStateTurn PROVE IInv'
<1>1. Produce \in 1..7 /\ ProduceState \in 1..7
  BY DEF Produce, ProduceState
<1>2. /\ Turn /\ i \in Slot /\ frame_kinds[i] \in {Produce, ProduceState}
      /\ frame_pending[i] \in Nat /\ NoMsg \in Nat
      /\ ProducerTurn(NoMsg) \/ ProducerTurn(frame_pending[i])
  BY <1>1, LiveTurnFacts DEF ProduceFrameTurn, ProduceStateTurn, NoMsg
<1>3. QED
  BY <1>2, ProducerKeeps

\* TerminalProduceTurn keeps the invariant.
LEMMA TerminalKeeps == ASSUME IInv, TerminalProduceTurn PROVE IInv'
<1> DEFINE c == frame_channels[i][1]
           e == Materialized({c})
<1>0. /\ LiveTurn(TerminalProduceState) /\ frame_pending[i] # NoMsg
      /\ materialize_typed_i64_channel({c})
      /\ UNCHANGED <<liveVars, cap, chan_count, polls, histVars>>
  BY DEF TerminalProduceTurn
<1>1. /\ Turn /\ i \in Slot /\ frame_kinds[i] = TerminalProduceState
      /\ frame_channels[i] \in Seq(Chan) /\ frame_channels[i] \in Seq(Nat)
      /\ frame_pending[i] \in Nat
  <2>1. TerminalProduceState \in 1..7 /\ TerminalProduceState # Join
    BY DEF TerminalProduceState, Join
  <2>2. QED
    BY <1>0, <2>1, LiveTurnFacts
<1>2. TableInv /\ TRUE \in BOOLEAN /\ FALSE \in BOOLEAN /\ NoMsg \in Nat /\ 3 \in 0..3
      /\ frame_kinds[i] # 0
  BY <1>1 DEF IInv, NoMsg, TerminalProduceState
<1>3. polls' \in 0..MaxPolls /\ slot_count' = slot_count
  BY <1>0, PollsType DEF liveVars
<1>4. e \in [Chan -> Seq(Nat)]
  BY IInvTypes, MaterializedType
<1>5. typed' \in [Chan -> Seq(Nat)] /\ typed_live' \in [Chan -> BOOLEAN]
  BY <1>0, IInvTypes, MaterializeType
<1>6. HistoryTypes'
  BY <1>0, HistoryStill DEF IInv
<1>7. CASE Put(e, c, frame_pending[i]) /\ SetPending(NoMsg) /\ FinishFrame /\ EndTurn(TRUE)
  <2>1. erased' \in [Chan -> Seq(Nat)]
    BY <1>1, <1>4, <1>7, PutType
  <2>2. ChanTypes'
    BY <1>0, <1>5, <2>1, ChansMoved DEF IInv
  <2>3. Finish(NoMsg)
    BY <1>0, <1>2, <1>7 DEF Finish
  <2>4. TableInv'
    BY <1>1, <1>2, <2>3, FinishKeeps
  <2>5. ControlTypes'
    BY <1>1, <1>2, <1>3, <1>7, EndTurnControl
  <2>6. QED
    BY <1>6, <2>2, <2>4, <2>5 DEF IInv
<1>8. CASE /\ erased' = e /\ SetPhase(3) /\ EndTurn(FALSE)
           /\ UNCHANGED <<slots, frame_kinds, frame_pending, tableVars>>
  <2>1. ChanTypes'
    BY <1>0, <1>4, <1>5, <1>8, ChansMoved DEF IInv
  <2>2. /\ frame_channels = [frame_channels EXCEPT ![i] = frame_channels[i]]
        /\ frame_pending = [frame_pending EXCEPT ![i] = frame_pending[i]]
    BY <1>1, SameEntry DEF IInv, TableInv, FrameTypes
  <2>3. Rephase(frame_channels[i], 3, frame_pending[i])
    BY <1>0, <1>2, <1>8, <2>2 DEF Rephase, SetPending, tableVars
  <2>4. Pending(frame_kinds[i], 3, frame_pending[i])
    BY <1>0 DEF Pending
  <2>5. TableInv'
    BY <1>1, <1>2, <2>3, <2>4, RephaseKeeps
  <2>6. ControlTypes'
    BY <1>1, <1>2, <1>3, <1>8, EndTurnControl
  <2>7. QED
    BY <1>6, <2>1, <2>5, <2>6 DEF IInv
<1>9. QED
  BY <1>7, <1>8 DEF TerminalProduceTurn

\* JoinTurn keeps the invariant.
LEMMA JoinKeeps == ASSUME IInv, JoinTurn PROVE IInv'
<1>0. LiveTurn(Join) /\ UNCHANGED <<liveVars, frame_pending, chanVars, polls, histVars>>
  BY DEF JoinTurn
<1>1. Turn /\ i \in Slot /\ frame_kinds[i] # 0 /\ frame_pending[i] \in Nat
  <2>1. Join \in 1..7
    BY DEF Join
  <2>2. QED
    BY <1>0, <2>1, LiveTurnFacts DEF Join
<1>2. TableInv /\ TRUE \in BOOLEAN /\ FALSE \in BOOLEAN /\ polls' \in 0..MaxPolls
      /\ slot_count' = slot_count
  BY <1>0, PollsType DEF IInv, liveVars
<1>3. ChanTypes' /\ HistoryTypes'
  BY <1>0, ChansStill, HistoryStill DEF IInv
<1>4. CASE FinishFrame /\ EndTurn(TRUE)
  <2>1. frame_pending = [frame_pending EXCEPT ![i] = frame_pending[i]]
    BY <1>1, SameEntry DEF IInv, TableInv, FrameTypes
  <2>2. Finish(frame_pending[i])
    BY <1>0, <1>1, <1>4, <2>1 DEF Finish, SetPending
  <2>3. TableInv'
    BY <1>1, <1>2, <2>2, FinishKeeps
  <2>4. QED
    BY <1>1, <1>2, <1>3, <1>4, <2>3, EndTurnControl DEF IInv
<1>5. CASE EndTurn(FALSE) /\ UNCHANGED <<slots, frame_kinds, frame_phases, tableVars>>
  <2>1. TableInv'
    BY <1>0, <1>2, <1>5, StillKeeps DEF frameVars
  <2>2. QED
    BY <1>1, <1>2, <1>3, <1>5, <2>1, EndTurnControl DEF IInv
<1>6. QED
  BY <1>4, <1>5 DEF JoinTurn

----------------------------------------------------------------------------
(* The turns of parked slots. *)

\* DeadTurn keeps the invariant.
LEMMA DeadKeeps == ASSUME IInv, DeadTurn PROVE IInv'
<1>1. Turn /\ EndTurn(FALSE) /\ UNCHANGED <<slots, liveVars, frameVars, chanVars, polls, histVars>>
  BY DEF DeadTurn
<1>2. TableInv' /\ ChanTypes' /\ HistoryTypes'
  BY <1>1, StillKeeps, ChansStill, HistoryStill DEF IInv
<1>3. FALSE \in BOOLEAN /\ polls' \in 0..MaxPolls /\ slot_count' = slot_count
  BY <1>1, PollsType DEF liveVars
<1>4. QED
  BY <1>1, <1>2, <1>3, EndTurnControl DEF IInv

\* A slot without a frame handles one message of its channels.
LEMMA HandOneKeeps ==
  ASSUME IInv, i \in Slot, frame_kinds[i] = 0, is_live(slots[i]),
         NEW e \in [Chan -> Seq(Nat)], NEW chs \in Seq(Chan), NEW c \in first_message(e, chs),
         Take(e, c), Hand(Head(e[c])), NEW v \in PlainRec, SetSlot(v),
         typed' \in [Chan -> Seq(Nat)], typed_live' \in [Chan -> BOOLEAN],
         UNCHANGED <<liveVars, frameVars, cap, chan_count, issued, dropped>>
  PROVE  TableInv' /\ ChanTypes' /\ HistoryTypes'
<1>1. c \in Chan /\ e[c] # <<>>
  BY FirstMessageReady
<1>2. Head(e[c]) \in Nat
  BY <1>1, HeadIsNat
<1>3. erased' \in [Chan -> Seq(Nat)] /\ taken' \in [Chan -> Seq(Nat)]
  BY <1>1, TakeType, IInvTypes
<1>4. seen' \subseteq Nat
  BY <1>2, HandType, IInvTypes
<1>5. Replace(v)
  BY DEF Replace
<1>6. TableInv'
  BY <1>5, ReplaceKeeps DEF IInv
<1>7. ChanTypes'
  BY <1>3, ChansMoved DEF IInv
<1>8. HistoryTypes'
  BY <1>3, <1>4 DEF IInv, HistoryTypes
<1>9. QED
  BY <1>6, <1>7, <1>8

\* A live slot with frame kind 0 is a slot without a frame.
LEMMA SlotIsPlain ==
  ASSUME IInv, i \in Slot, frame_kinds[i] = 0, is_live(slots[i])
  PROVE  slots[i] \in PlainRec /\ slots = [slots EXCEPT ![i] = slots[i]]
<1>1. slots[i] \in SlotRec /\ slots = [slots EXCEPT ![i] = slots[i]]
  BY SameEntry DEF IInv, TableInv, SlotTypes
<1>2. slots[i].tag \notin {"FrameSlot", "Ended"}
      /\ (slots[i].tag = "ReceiveFrameSlot" => slots[i].chs # <<>>)
  BY DEF IInv, TableInv, Aligned, Dispatchable, is_live
<1>3. QED
  BY <1>1, <1>2 DEF PlainRec

\* A turn that replaces a slot without a frame is of shape 1.
LEMMA PlainTurnKeeps ==
  ASSUME IInv, i \in Slot, frame_kinds[i] = 0, is_live(slots[i]), NEW v \in PlainRec, SetSlot(v),
         UNCHANGED <<liveVars, frameVars>>
  PROVE  TableInv'
<1>1. Replace(v)
  BY DEF Replace
<1>2. QED
  BY <1>1, ReplaceKeeps DEF IInv

\* WaitRecvTurn keeps the invariant.
LEMMA WaitRecvKeeps == ASSUME IInv, WaitRecvTurn PROVE IInv'
<1>0. SlotTurn("WaitRecv")
      /\ UNCHANGED <<liveVars, frameVars, typed, typed_live, cap, chan_count,
                     polls, issued, dropped>>
  BY DEF WaitRecvTurn
<1>1. Turn /\ i \in Slot /\ frame_kinds[i] = 0 /\ is_live(slots[i]) /\ slots[i].chs \in Seq(Chan)
  <2>1. "WaitRecv" # "Ended"
    OBVIOUS
  <2>2. QED
    BY <1>0, <2>1, SlotTurnFacts
<1>2. TRUE \in BOOLEAN /\ FALSE \in BOOLEAN /\ polls' \in 0..MaxPolls /\ slot_count' = slot_count
  BY <1>0, PollsType DEF liveVars
<1>3. erased \in [Chan -> Seq(Nat)] /\ typed' \in [Chan -> Seq(Nat)]
      /\ typed_live' \in [Chan -> BOOLEAN]
  BY <1>0 DEF IInv, ChanTypes
<1>4. CASE \E c \in first_message(erased, slots[i].chs) :
             /\ Take(erased, c) /\ Hand(Head(erased[c]))
             /\ SetSlot(Active)
             /\ EndTurn(TRUE)
  <2>1. PICK c \in first_message(erased, slots[i].chs) :
             /\ Take(erased, c) /\ Hand(Head(erased[c]))
             /\ SetSlot(Active)
             /\ EndTurn(TRUE)
    BY <1>4
  <2>2. TableInv' /\ ChanTypes' /\ HistoryTypes'
    BY <1>0, <1>1, <1>3, <2>1, ActiveIsPlain, HandOneKeeps
  <2>3. QED
    BY <1>1, <1>2, <2>1, <2>2, EndTurnControl DEF IInv
<1>5. CASE EndTurn(FALSE) /\ UNCHANGED <<slots, erased, taken, seen>>
  <2>1. TableInv' /\ ChanTypes' /\ HistoryTypes'
    BY <1>0, <1>5, StillKeeps, ChansStill, HistoryStill DEF IInv, chanVars, histVars
  <2>2. QED
    BY <1>1, <1>2, <1>5, <2>1, EndTurnControl DEF IInv
<1>6. QED
  BY <1>4, <1>5 DEF WaitRecvTurn

\* WaitSendTurn keeps the invariant.
LEMMA WaitSendKeeps == ASSUME IInv, WaitSendTurn PROVE IInv'
<1> DEFINE c == slots[i].chs[1]
<1>0. SlotTurn("WaitSend")
      /\ UNCHANGED <<liveVars, frameVars, typed, typed_live, cap, chan_count, polls, histVars>>
  BY DEF WaitSendTurn
<1>1. Turn /\ i \in Slot /\ frame_kinds[i] = 0 /\ is_live(slots[i]) /\ slots[i].msg \in Nat
  <2>1. "WaitSend" # "Ended"
    OBVIOUS
  <2>2. QED
    BY <1>0, <2>1, SlotTurnFacts
<1>2. TRUE \in BOOLEAN /\ FALSE \in BOOLEAN /\ polls' \in 0..MaxPolls /\ slot_count' = slot_count
  BY <1>0, PollsType DEF liveVars
<1>3. HistoryTypes' /\ erased \in [Chan -> Seq(Nat)]
  BY <1>0, HistoryStill DEF IInv, ChanTypes
<1>4. CASE Put(erased, c, slots[i].msg) /\ SetSlot(Active) /\ EndTurn(TRUE)
  <2>1. erased' \in [Chan -> Seq(Nat)]
    BY <1>1, <1>3, <1>4, PutType
  <2>2. ChanTypes'
    BY <1>0, <2>1 DEF IInv, ChanTypes
  <2>3. TableInv'
    BY <1>0, <1>1, <1>4, ActiveIsPlain, PlainTurnKeeps
  <2>4. QED
    BY <1>1, <1>2, <1>3, <1>4, <2>2, <2>3, EndTurnControl DEF IInv
<1>5. CASE EndTurn(FALSE) /\ UNCHANGED <<slots, erased>>
  <2>1. TableInv' /\ ChanTypes'
    BY <1>0, <1>5, StillKeeps, ChansStill DEF IInv, chanVars
  <2>2. QED
    BY <1>1, <1>2, <1>3, <1>5, <2>1, EndTurnControl DEF IInv
<1>6. QED
  BY <1>4, <1>5 DEF WaitSendTurn

\* FrameLoopTurn keeps the invariant.
LEMMA FrameLoopKeeps == ASSUME IInv, FrameLoopTurn PROVE IInv'
<1>0. (SlotTurn("WaitFrameLoop") \/ SlotTurn("Wait2Frame"))
      /\ UNCHANGED <<liveVars, frameVars, typed, typed_live, cap, chan_count,
                     polls, issued, dropped>>
  BY DEF FrameLoopTurn
<1>1. Turn /\ i \in Slot /\ frame_kinds[i] = 0 /\ is_live(slots[i]) /\ slots[i].chs \in Seq(Chan)
  <2>1. "WaitFrameLoop" # "Ended" /\ "Wait2Frame" # "Ended"
    OBVIOUS
  <2>2. QED
    BY <1>0, <2>1, SlotTurnFacts
<1>2. TRUE \in BOOLEAN /\ FALSE \in BOOLEAN /\ polls' \in 0..MaxPolls /\ slot_count' = slot_count
  BY <1>0, PollsType DEF liveVars
<1>3. erased \in [Chan -> Seq(Nat)] /\ typed' \in [Chan -> Seq(Nat)]
      /\ typed_live' \in [Chan -> BOOLEAN]
  BY <1>0 DEF IInv, ChanTypes
<1>4. CASE \E c \in first_message(erased, slots[i].chs) :
             /\ Take(erased, c) /\ Hand(Head(erased[c]))
             /\ \/ SetSlot(Active) /\ EndTurn(TRUE)
                \/ /\ UNCHANGED slots
                   /\ IF slots[i].tag = "WaitFrameLoop" /\ is_only_live_slot
                      THEN prog' = TRUE /\ UNCHANGED <<pc, i, n>>
                      ELSE EndTurn(TRUE)
  <2>1. PICK c \in first_message(erased, slots[i].chs) :
             /\ Take(erased, c) /\ Hand(Head(erased[c]))
             /\ \/ SetSlot(Active) /\ EndTurn(TRUE)
                \/ /\ UNCHANGED slots
                   /\ IF slots[i].tag = "WaitFrameLoop" /\ is_only_live_slot
                      THEN prog' = TRUE /\ UNCHANGED <<pc, i, n>>
                      ELSE EndTurn(TRUE)
    BY <1>4
  <2>2. \E v \in PlainRec : SetSlot(v)
    <3>1. CASE SetSlot(Active)
      BY <3>1, ActiveIsPlain
    <3>2. CASE UNCHANGED slots
      BY <1>1, <3>2, SlotIsPlain DEF SetSlot
    <3>3. QED
      BY <2>1, <3>1, <3>2
  <2>3. TableInv' /\ ChanTypes' /\ HistoryTypes'
    BY <1>0, <1>1, <1>3, <2>1, <2>2, HandOneKeeps
  <2>4. EndTurn(TRUE) \/ (prog' = TRUE /\ UNCHANGED <<pc, i, n>>)
    <3>1. CASE slots[i].tag = "WaitFrameLoop" /\ is_only_live_slot
      BY <2>1, <3>1, Zenon
    <3>2. CASE ~(slots[i].tag = "WaitFrameLoop" /\ is_only_live_slot)
      BY <2>1, <3>2, Zenon
    <3>3. QED
      BY <3>1, <3>2
  <2>5. ControlTypes'
    BY <1>1, <1>2, <2>4, EndTurnControl, SameTurnControl
  <2>6. QED
    BY <2>3, <2>5 DEF IInv
<1>5. CASE EndTurn(FALSE) /\ UNCHANGED <<slots, erased, taken, seen>>
  <2>1. TableInv' /\ ChanTypes' /\ HistoryTypes'
    BY <1>0, <1>5, StillKeeps, ChansStill, HistoryStill DEF IInv, chanVars, histVars
  <2>2. QED
    BY <1>1, <1>2, <1>5, <2>1, EndTurnControl DEF IInv
<1>6. QED
  BY <1>4, <1>5 DEF FrameLoopTurn

\* ReceiveFrameSlotTurn keeps the invariant.
LEMMA ReceiveFrameSlotKeeps == ASSUME IInv, ReceiveFrameSlotTurn PROVE IInv'
<1> DEFINE c == slots[i].chs[1]
<1>0. SlotTurn("ReceiveFrameSlot")
      /\ UNCHANGED <<liveVars, frameVars, typed, typed_live, cap, chan_count, issued, dropped>>
  BY DEF ReceiveFrameSlotTurn
<1>1. /\ Turn /\ i \in Slot /\ frame_kinds[i] = 0 /\ is_live(slots[i])
      /\ slots[i].msg \in Nat /\ slots[i].tag = "ReceiveFrameSlot" /\ slots[i].chs \in Seq(Chan)
  <2>1. "ReceiveFrameSlot" # "Ended"
    OBVIOUS
  <2>2. QED
    BY <1>0, <2>1, SlotTurnFacts
<1>2. c \in Chan
  <2>1. slots[i].chs # <<>>
    BY <1>1 DEF IInv, TableInv, Aligned
  <2>2. QED
    BY <1>1, <2>1
<1> HIDE DEF c
<1>3. /\ TRUE \in BOOLEAN /\ FALSE \in BOOLEAN /\ slot_count' = slot_count
      /\ 0 \in 0..2 /\ 1 \in 0..2 /\ 2 \in 0..2 /\ NoMsg \in Nat
      /\ erased \in [Chan -> Seq(Nat)]
  BY <1>0 DEF liveVars, NoMsg, IInv, ChanTypes
<1>4. CASE /\ Hand(slots[i].msg)
           /\ \/ SetSlot(Active) /\ UNCHANGED polls
              \/ Spend /\ SetSlot(ReceiveFrameSlot(c, NoMsg, 2))
           /\ EndTurn(TRUE)
           /\ UNCHANGED <<erased, taken>>
  <2>1. polls' \in 0..MaxPolls
    BY <1>4, PollsType, SpendType DEF IInv
  <2>2. \E v \in PlainRec : SetSlot(v)
    BY <1>2, <1>3, <1>4, ActiveIsPlain, HolderIsPlain
  <2>3. TableInv'
    BY <1>0, <1>1, <2>2, PlainTurnKeeps
  <2>4. ChanTypes'
    BY <1>0, <1>4 DEF IInv, ChanTypes
  <2>5. seen' \subseteq Nat
    BY <1>1, <1>4, HandType, IInvTypes
  <2>6. HistoryTypes'
    BY <1>0, <1>4, <2>5 DEF IInv, HistoryTypes
  <2>7. QED
    BY <1>1, <1>3, <1>4, <2>1, <2>3, <2>4, <2>6, EndTurnControl DEF IInv
<1>5. CASE /\ erased[c] # <<>>
           /\ Take(erased, c)
           /\ SetSlot(ReceiveFrameSlot(c, Head(erased[c]), 1))
           /\ EndTurn(TRUE)
           /\ UNCHANGED <<polls, seen>>
  <2>1. Head(erased[c]) \in Nat
    BY <1>2, <1>3, <1>5, HeadIsNat
  <2>2. erased' \in [Chan -> Seq(Nat)] /\ taken' \in [Chan -> Seq(Nat)]
    BY <1>2, <1>3, <1>5, TakeType, IInvTypes
  <2>3. ReceiveFrameSlot(c, Head(erased[c]), 1) \in PlainRec
    BY <1>2, <1>3, <2>1, HolderIsPlain
  <2>4. TableInv'
    BY <1>0, <1>1, <1>5, <2>3, PlainTurnKeeps
  <2>5. ChanTypes' /\ HistoryTypes' /\ polls' \in 0..MaxPolls
    BY <1>0, <1>5, <2>2, PollsType DEF IInv, ChanTypes, HistoryTypes
  <2>6. QED
    BY <1>1, <1>3, <1>5, <2>4, <2>5, EndTurnControl DEF IInv
<1>6. CASE /\ SetSlot(ReceiveFrameSlot(c, NoMsg, 0))
           /\ EndTurn(FALSE)
           /\ UNCHANGED <<polls, seen, erased, taken>>
  <2>1. ReceiveFrameSlot(c, NoMsg, 0) \in PlainRec
    BY <1>2, <1>3, HolderIsPlain
  <2>2. TableInv'
    BY <1>0, <1>1, <1>6, <2>1, PlainTurnKeeps
  <2>3. ChanTypes' /\ HistoryTypes' /\ polls' \in 0..MaxPolls
    BY <1>0, <1>6, PollsType DEF IInv, ChanTypes, HistoryTypes
  <2>4. QED
    BY <1>1, <1>3, <1>6, <2>2, <2>3, EndTurnControl DEF IInv
<1>7. QED
  BY <1>4, <1>5, <1>6 DEF ReceiveFrameSlotTurn, c

----------------------------------------------------------------------------
(* The operations a polled task asks for. *)

\* PollDone keeps the invariant.
LEMMA DoneStep == ASSUME IInv, PollDone PROVE IInv'
<1>1. SlotTurn("Active") /\ EndTurn(TRUE) /\ UNCHANGED <<slot_count, chanVars, polls, histVars>>
  BY DEF PollDone
<1>2. Turn /\ i \in Slot
  BY <1>1, SlotTurnFacts
<1>3. TableInv' /\ ChanTypes' /\ HistoryTypes' /\ polls' \in 0..MaxPolls /\ TRUE \in BOOLEAN
  BY <1>1, <1>2, DoneKeeps, ChansStill, HistoryStill, PollsType DEF IInv
<1>4. QED
  BY <1>1, <1>2, <1>3, EndTurnControl DEF IInv

\* PollFork keeps the invariant.
LEMMA ForkStep == ASSUME IInv, PollFork PROVE IInv'
<1>1. SlotTurn("Active") /\ EndTurn(TRUE) /\ slot_count' = slot_count + 1
      /\ UNCHANGED <<chanVars, polls, histVars>>
  BY DEF PollFork
<1>2. Turn /\ i \in Slot
  BY <1>1, SlotTurnFacts
<1>3. i < slot_count
  BY <1>2 DEF IInv, ControlTypes, TableInv, SlotTypes, Turn
<1>4. TableInv' /\ ChanTypes' /\ HistoryTypes' /\ polls' \in 0..MaxPolls /\ TRUE \in BOOLEAN
  BY <1>1, <1>2, <1>3, ForkKeeps, ChansStill, HistoryStill, PollsType DEF IInv
<1>5. QED
  BY <1>1, <1>2, <1>4, EndTurnControl DEF IInv

\* PollCancel keeps the invariant.
LEMMA CancelStep == ASSUME IInv, PollCancel PROVE IInv'
<1>1. Poll("Cancel") /\ EndTurn(TRUE) /\ UNCHANGED <<slot_count, chanVars, issued, taken, seen>>
  BY DEF PollCancel
<1>2. Turn /\ i \in Slot /\ polls' \in 0..MaxPolls
  BY <1>1, PollFacts
<1>3. TableInv' /\ ChanTypes' /\ TRUE \in BOOLEAN
  BY <1>1, <1>2, CancelKeeps, ChansStill DEF IInv
<1>4. dropped' \subseteq Nat
  <2>1. PICK t \in 0..(slot_count - 1) :
           dropped' = dropped \cup ({slots[t].msg, frame_pending[t]} \ {NoMsg})
    BY DEF PollCancel
  <2>2. t \in Slot
    BY DEF IInv, TableInv, SlotTypes, Slot
  <2>3. slots[t] \in SlotRec /\ frame_pending[t] \in Nat
    BY <2>2 DEF IInv, TableInv, SlotTypes, FrameTypes
  <2>4. slots[t].msg \in Nat
    BY <2>3 DEF SlotRec
  <2>5. QED
    BY <2>1, <2>3, <2>4 DEF IInv, HistoryTypes
<1>5. HistoryTypes'
  BY <1>1, <1>4 DEF IInv, HistoryTypes
<1>6. QED
  BY <1>1, <1>2, <1>3, <1>5, EndTurnControl DEF IInv

\* PollYield keeps the invariant.
LEMMA YieldStep == ASSUME IInv, PollYield PROVE IInv'
<1>1. /\ Poll("Yield") /\ SetSlot(Active) /\ EndTurn(TRUE)
      /\ UNCHANGED <<liveVars, frameVars, chanVars, histVars>>
  BY DEF PollYield
<1>2. /\ Turn /\ i \in Slot /\ frame_kinds[i] = 0 /\ is_live(slots[i])
      /\ polls' \in 0..MaxPolls
  BY <1>1, PollFacts
<1>3. TableInv' /\ ChanTypes' /\ HistoryTypes'
  BY <1>1, <1>2, ActiveIsPlain, PlainTurnKeeps, ChansStill, HistoryStill DEF IInv
<1>4. TRUE \in BOOLEAN /\ slot_count' = slot_count
  BY <1>1 DEF liveVars
<1>5. QED
  BY <1>1, <1>2, <1>3, <1>4, EndTurnControl DEF IInv

\* PollOpen keeps the invariant.
LEMMA OpenStep == ASSUME IInv, PollOpen PROVE IInv'
<1>1. /\ SlotTurn("Active") /\ SetSlot(Active) /\ EndTurn(TRUE)
      /\ chan_count < MaxChans /\ chan_count' = chan_count + 1
      /\ UNCHANGED <<erased, typed, liveVars, frameVars, polls, histVars>>
  BY DEF PollOpen
<1>2. Turn /\ i \in Slot /\ frame_kinds[i] = 0 /\ is_live(slots[i])
  BY <1>1, SlotTurnFacts
<1>3. cap' \in [Chan -> Nat]
  <2>1. PICK c \in Caps : cap' = [cap EXCEPT ![chan_count] = c]
    BY DEF PollOpen
  <2>2. c \in Nat
    BY CapsAreNatural, Zenon
  <2>3. QED
    BY <2>1, <2>2 DEF IInv, ChanTypes
<1>4. typed_live' \in [Chan -> BOOLEAN]
  <2>1. PICK t \in (IF "OpenI64" \in Ops THEN BOOLEAN ELSE {FALSE}) :
           typed_live' = [typed_live EXCEPT ![chan_count] = t]
    BY DEF PollOpen
  <2>2. t \in BOOLEAN /\ typed_live \in [Chan -> BOOLEAN]
    BY DEF IInv, ChanTypes
  <2>3. QED
    BY <2>1, <2>2, Zenon
<1>5. ChanTypes'
  BY <1>1, <1>3, <1>4 DEF IInv, ChanTypes
<1>6. TableInv' /\ HistoryTypes' /\ polls' \in 0..MaxPolls
  BY <1>1, <1>2, ActiveIsPlain, PlainTurnKeeps, HistoryStill, PollsType DEF IInv
<1>7. TRUE \in BOOLEAN /\ slot_count' = slot_count
  BY <1>1 DEF liveVars
<1>8. QED
  BY <1>1, <1>2, <1>5, <1>6, <1>7, EndTurnControl DEF IInv

\* The end of every operation that replaces the slot and moves messages.
LEMMA PlainOpStep ==
  ASSUME IInv, NEW op, Poll(op), NEW v \in PlainRec, SetSlot(v), UNCHANGED <<liveVars, frameVars>>,
         NEW p \in BOOLEAN, EndTurn(p), ChanTypes', HistoryTypes'
  PROVE  IInv'
<1>1. /\ Turn /\ i \in Slot /\ frame_kinds[i] = 0 /\ is_live(slots[i])
      /\ polls' \in 0..MaxPolls
  BY PollFacts
<1>2. TableInv'
  BY <1>1, PlainTurnKeeps
<1>3. slot_count' = slot_count
  BY DEF liveVars
<1>4. QED
  BY <1>1, <1>2, <1>3, EndTurnControl DEF IInv

\* PollPush keeps the invariant.
LEMMA PushStep == ASSUME IInv, PollPush PROVE IInv'
<1>0. Poll("Push") /\ UNCHANGED <<liveVars, frameVars, cap, chan_count, taken, seen, dropped>>
      /\ TRUE \in BOOLEAN /\ FALSE \in BOOLEAN
  BY DEF PollPush
<1>1. PICK c \in OpenChan :
       LET e == Materialized({c})
       IN  /\ materialize_typed_i64_channel({c})
           /\ Issue(c)
           /\ \/ /\ HasRoom(e, c)
                 /\ Put(e, c, NextMsg)
                 /\ SetSlot(Active)
                 /\ EndTurn(TRUE)
              \/ /\ ~HasRoom(e, c)
                 /\ erased' = e
                 /\ SetSlot(WaitSend(c, NextMsg))
                 /\ EndTurn(FALSE)
  BY DEF PollPush
<1> DEFINE e == Materialized({c})
<1>2. Turn
  BY <1>0, PollFacts
<1>3. issued' \in Seq([from : Slot, ch : Chan]) /\ NextMsg \in Nat \ {0}
  BY <1>1, <1>2, IssueType, IInvTypes
<1>4. HistoryTypes' /\ NextMsg \in Nat
  BY <1>0, <1>3 DEF IInv, HistoryTypes
<1>5. e \in [Chan -> Seq(Nat)]
  BY IInvTypes, MaterializedType
<1>6. typed' \in [Chan -> Seq(Nat)] /\ typed_live' \in [Chan -> BOOLEAN]
  BY <1>1, IInvTypes, MaterializeType
<1>7. c \in Chan /\ 0 \in 0..2
  BY IInvTypes, OpenChanIsChan
<1>8. CASE Put(e, c, NextMsg) /\ SetSlot(Active) /\ EndTurn(TRUE)
  <2>1. erased' \in [Chan -> Seq(Nat)]
    BY <1>4, <1>5, <1>8, PutType
  <2>2. ChanTypes'
    BY <1>0, <1>6, <2>1, ChansMoved DEF IInv
  <2>3. QED
    BY <1>0, <1>4, <1>8, <2>2, ActiveIsPlain, PlainOpStep
<1>9. CASE erased' = e /\ SetSlot(WaitSend(c, NextMsg)) /\ EndTurn(FALSE)
  <2>1. WaitSend(c, NextMsg) \in PlainRec
    BY <1>4, <1>7, HolderIsPlain
  <2>2. ChanTypes'
    BY <1>0, <1>5, <1>6, <1>9, ChansMoved DEF IInv
  <2>3. QED
    BY <1>0, <1>4, <1>9, <2>1, <2>2, PlainOpStep
<1>10. QED
  BY <1>1, <1>8, <1>9

\* PollPull keeps the invariant.
LEMMA PullStep == ASSUME IInv, PollPull PROVE IInv'
<1>0. Poll("Pull") /\ UNCHANGED <<liveVars, frameVars, cap, chan_count, issued, dropped>>
      /\ TRUE \in BOOLEAN /\ FALSE \in BOOLEAN
  BY DEF PollPull
<1>1. PICK chs \in Arms \cup EmptyList :
       LET C == {chs[k] : k \in DOMAIN chs}
           e == Materialized(C)
       IN  /\ materialize_typed_i64_channel(C)
           /\ \/ \E c \in first_message(e, chs) :
                    /\ Take(e, c) /\ Hand(Head(e[c]))
                    /\ SetSlot(Active)
                    /\ EndTurn(TRUE)
              \/ /\ first_message(e, chs) = {}
                 /\ erased' = e
                 /\ SetSlot(WaitRecv(chs))
                 /\ EndTurn(FALSE)
                 /\ UNCHANGED <<taken, seen>>
  BY DEF PollPull
<1> DEFINE C == {chs[k] : k \in DOMAIN chs}
           e == Materialized(C)
<1>2. chs \in Seq(Chan)
  <2>1. CASE chs \in Arms
    BY <2>1, IInvTypes, ArmsAreSeqs
  <2>2. CASE chs = <<>>
    BY <2>2
  <2>3. QED
    BY <1>1, <2>1, <2>2 DEF EmptyList
<1> HIDE DEF C
<1>3. e \in [Chan -> Seq(Nat)]
  BY IInvTypes, MaterializedType
<1>4. materialize_typed_i64_channel(C)
  BY <1>1 DEF C
<1>5. typed' \in [Chan -> Seq(Nat)] /\ typed_live' \in [Chan -> BOOLEAN]
  BY <1>4, IInvTypes, MaterializeType
<1>6. /\ Turn /\ i \in Slot /\ frame_kinds[i] = 0 /\ is_live(slots[i])
  BY <1>0, PollFacts
<1>7. CASE \E c \in first_message(e, chs) :
              /\ Take(e, c) /\ Hand(Head(e[c])) /\ SetSlot(Active) /\ EndTurn(TRUE)
  <2>1. PICK c \in first_message(e, chs) :
              /\ Take(e, c) /\ Hand(Head(e[c])) /\ SetSlot(Active) /\ EndTurn(TRUE)
    BY <1>7
  <2> HIDE DEF e
  <2>2. ChanTypes' /\ HistoryTypes'
    BY <1>0, <1>2, <1>3, <1>5, <1>6, <2>1, ActiveIsPlain, HandOneKeeps
  <2>3. QED
    BY <1>0, <2>1, <2>2, ActiveIsPlain, PlainOpStep
<1>8. CASE /\ erased' = e /\ SetSlot(WaitRecv(chs)) /\ EndTurn(FALSE)
           /\ UNCHANGED <<taken, seen>>
  <2>1. ChanTypes' /\ HistoryTypes'
    BY <1>0, <1>3, <1>5, <1>8, ChansMoved DEF IInv, HistoryTypes
  <2>2. WaitRecv(chs) \in PlainRec
    BY <1>2, WaitIsPlain
  <2>3. QED
    BY <1>0, <1>8, <2>1, <2>2, PlainOpStep
<1>9. QED
  BY <1>1, <1>7, <1>8, Zenon DEF C

\* PollPushI64 keeps the invariant.
LEMMA PushI64Step == ASSUME IInv, PollPushI64 PROVE IInv'
<1>0. Poll("PushI64") /\ UNCHANGED <<liveVars, frameVars, cap, chan_count, taken, seen, dropped>>
      /\ TRUE \in BOOLEAN /\ FALSE \in BOOLEAN
  BY DEF PollPushI64
<1>1. PICK c \in OpenChan :
       /\ Issue(c)
       /\ \/ /\ typed_live[c] /\ HasRoom(typed, c)
             /\ typed' = [typed EXCEPT ![c] = Append(@, NextMsg)]
             /\ SetSlot(Active)
             /\ EndTurn(TRUE)
             /\ UNCHANGED <<erased, typed_live>>
          \/ /\ typed_live[c] /\ ~HasRoom(typed, c)
             /\ erased' = Materialized({c})
             /\ materialize_typed_i64_channel({c})
             /\ SetSlot(WaitSend(c, NextMsg))
             /\ EndTurn(FALSE)
          \/ /\ ~typed_live[c] /\ HasRoom(erased, c)
             /\ Put(erased, c, NextMsg)
             /\ SetSlot(Active)
             /\ EndTurn(TRUE)
             /\ UNCHANGED <<typed, typed_live>>
          \/ /\ ~typed_live[c] /\ ~HasRoom(erased, c)
             /\ SetSlot(WaitSend(c, NextMsg))
             /\ EndTurn(FALSE)
             /\ UNCHANGED <<erased, typed, typed_live>>
  BY DEF PollPushI64
<1>2. Turn
  BY <1>0, PollFacts
<1>3. issued' \in Seq([from : Slot, ch : Chan]) /\ NextMsg \in Nat \ {0}
  BY <1>1, <1>2, IssueType, IInvTypes
<1>4. HistoryTypes' /\ NextMsg \in Nat
  BY <1>0, <1>3 DEF IInv, HistoryTypes
<1>5. c \in Chan /\ 0 \in 0..2
  BY IInvTypes, OpenChanIsChan
<1>6. WaitSend(c, NextMsg) \in PlainRec
  BY <1>4, <1>5, HolderIsPlain
<1>7. erased \in [Chan -> Seq(Nat)] /\ typed \in [Chan -> Seq(Nat)]
      /\ typed_live \in [Chan -> BOOLEAN]
  BY DEF IInv, ChanTypes
<1>8. CASE /\ typed' = [typed EXCEPT ![c] = Append(@, NextMsg)]
           /\ SetSlot(Active) /\ EndTurn(TRUE) /\ UNCHANGED <<erased, typed_live>>
  <2>1. Append(typed[c], NextMsg) \in Seq(Nat)
    BY <1>4, <1>5, <1>7
  <2>2. typed' \in [Chan -> Seq(Nat)]
    BY <1>7, <1>8, <2>1
  <2>3. ChanTypes'
    BY <1>0, <1>7, <1>8, <2>2, ChansMoved DEF IInv
  <2>4. QED
    BY <1>0, <1>4, <1>8, <2>3, ActiveIsPlain, PlainOpStep
<1>9. CASE /\ erased' = Materialized({c}) /\ materialize_typed_i64_channel({c})
           /\ SetSlot(WaitSend(c, NextMsg)) /\ EndTurn(FALSE)
  <2>1. erased' \in [Chan -> Seq(Nat)]
    BY <1>9, IInvTypes, MaterializedType
  <2>2. typed' \in [Chan -> Seq(Nat)] /\ typed_live' \in [Chan -> BOOLEAN]
    BY <1>9, IInvTypes, MaterializeType
  <2>3. ChanTypes'
    BY <1>0, <2>1, <2>2, ChansMoved DEF IInv
  <2>4. QED
    BY <1>0, <1>4, <1>6, <1>9, <2>3, PlainOpStep
<1>10. CASE /\ Put(erased, c, NextMsg) /\ SetSlot(Active) /\ EndTurn(TRUE)
            /\ UNCHANGED <<typed, typed_live>>
  <2>1. erased' \in [Chan -> Seq(Nat)]
    BY <1>4, <1>7, <1>10, PutType
  <2>2. ChanTypes'
    BY <1>0, <1>7, <1>10, <2>1, ChansMoved DEF IInv
  <2>3. QED
    BY <1>0, <1>4, <1>10, <2>2, ActiveIsPlain, PlainOpStep
<1>11. CASE /\ SetSlot(WaitSend(c, NextMsg)) /\ EndTurn(FALSE)
            /\ UNCHANGED <<erased, typed, typed_live>>
  <2>1. ChanTypes'
    BY <1>0, <1>11, ChansStill DEF IInv, chanVars
  <2>2. QED
    BY <1>0, <1>4, <1>6, <1>11, <2>1, PlainOpStep
<1>12. QED
  BY <1>1, <1>8, <1>9, <1>10, <1>11

\* PollPullI64 keeps the invariant.
LEMMA PullI64Step == ASSUME IInv, PollPullI64 PROVE IInv'
<1>0. Poll("PullI64") /\ UNCHANGED <<liveVars, frameVars, cap, chan_count, issued, dropped>>
      /\ TRUE \in BOOLEAN /\ FALSE \in BOOLEAN
  BY DEF PollPullI64
<1>1. PICK c \in OpenChan :
       \/ /\ typed_live[c] /\ typed[c] # <<>>
          /\ typed' = [typed EXCEPT ![c] = Tail(@)]
          /\ taken' = [taken EXCEPT ![c] = Append(@, Head(typed[c]))]
          /\ Hand(Head(typed[c]))
          /\ SetSlot(Active)
          /\ EndTurn(TRUE)
          /\ UNCHANGED <<erased, typed_live>>
       \/ /\ typed_live[c] /\ typed[c] = <<>>
          /\ erased' = Materialized({c})
          /\ materialize_typed_i64_channel({c})
          /\ SetSlot(WaitRecv(<<c>>))
          /\ EndTurn(FALSE)
          /\ UNCHANGED <<taken, seen>>
       \/ /\ ~typed_live[c] /\ erased[c] # <<>>
          /\ Take(erased, c) /\ Hand(Head(erased[c]))
          /\ SetSlot(Active)
          /\ EndTurn(TRUE)
          /\ UNCHANGED <<typed, typed_live>>
       \/ /\ ~typed_live[c] /\ erased[c] = <<>>
          /\ SetSlot(WaitRecv(<<c>>))
          /\ EndTurn(FALSE)
          /\ UNCHANGED <<erased, typed, typed_live, taken, seen>>
  BY DEF PollPullI64
<1>2. c \in Chan /\ <<c>> \in Seq(Chan)
  BY IInvTypes, OpenChanIsChan
<1>3. WaitRecv(<<c>>) \in PlainRec
  BY <1>2, WaitIsPlain
<1>4. erased \in [Chan -> Seq(Nat)] /\ typed \in [Chan -> Seq(Nat)]
      /\ typed_live \in [Chan -> BOOLEAN] /\ taken \in [Chan -> Seq(Nat)]
  BY DEF IInv, ChanTypes, HistoryTypes
<1>5. CASE /\ typed[c] # <<>>
           /\ typed' = [typed EXCEPT ![c] = Tail(@)]
           /\ taken' = [taken EXCEPT ![c] = Append(@, Head(typed[c]))]
           /\ Hand(Head(typed[c]))
           /\ SetSlot(Active) /\ EndTurn(TRUE) /\ UNCHANGED <<erased, typed_live>>
  <2>1. Head(typed[c]) \in Nat /\ Tail(typed[c]) \in Seq(Nat)
    BY <1>2, <1>4, <1>5
  <2>2. Append(taken[c], Head(typed[c])) \in Seq(Nat)
    BY <1>2, <1>4, <2>1
  <2>3. typed' \in [Chan -> Seq(Nat)] /\ taken' \in [Chan -> Seq(Nat)]
    BY <1>4, <1>5, <2>1, <2>2
  <2>4. seen' \subseteq Nat
    BY <1>5, <2>1, HandType, IInvTypes
  <2>5. ChanTypes'
    BY <1>0, <1>4, <1>5, <2>3, ChansMoved DEF IInv
  <2>6. HistoryTypes'
    BY <1>0, <2>3, <2>4 DEF IInv, HistoryTypes
  <2>7. QED
    BY <1>0, <1>5, <2>5, <2>6, ActiveIsPlain, PlainOpStep
<1>6. CASE /\ erased' = Materialized({c}) /\ materialize_typed_i64_channel({c})
           /\ SetSlot(WaitRecv(<<c>>)) /\ EndTurn(FALSE) /\ UNCHANGED <<taken, seen>>
  <2>1. erased' \in [Chan -> Seq(Nat)]
    BY <1>6, IInvTypes, MaterializedType
  <2>2. typed' \in [Chan -> Seq(Nat)] /\ typed_live' \in [Chan -> BOOLEAN]
    BY <1>6, IInvTypes, MaterializeType
  <2>3. ChanTypes'
    BY <1>0, <2>1, <2>2, ChansMoved DEF IInv
  <2>4. HistoryTypes'
    BY <1>0, <1>6 DEF IInv, HistoryTypes
  <2>5. QED
    BY <1>0, <1>3, <1>6, <2>3, <2>4, PlainOpStep
<1>7. CASE /\ erased[c] # <<>> /\ Take(erased, c) /\ Hand(Head(erased[c]))
           /\ SetSlot(Active) /\ EndTurn(TRUE) /\ UNCHANGED <<typed, typed_live>>
  <2>1. Head(erased[c]) \in Nat
    BY <1>2, <1>4, <1>7, HeadIsNat
  <2>2. erased' \in [Chan -> Seq(Nat)] /\ taken' \in [Chan -> Seq(Nat)]
    BY <1>2, <1>4, <1>7, TakeType, IInvTypes
  <2>3. seen' \subseteq Nat
    BY <1>7, <2>1, HandType, IInvTypes
  <2>4. ChanTypes'
    BY <1>0, <1>4, <1>7, <2>2, ChansMoved DEF IInv
  <2>5. HistoryTypes'
    BY <1>0, <2>2, <2>3 DEF IInv, HistoryTypes
  <2>6. QED
    BY <1>0, <1>7, <2>4, <2>5, ActiveIsPlain, PlainOpStep
<1>8. CASE /\ SetSlot(WaitRecv(<<c>>)) /\ EndTurn(FALSE)
           /\ UNCHANGED <<erased, typed, typed_live, taken, seen>>
  <2>1. ChanTypes' /\ HistoryTypes'
    BY <1>0, <1>8, ChansStill, HistoryStill DEF IInv, chanVars, histVars
  <2>2. QED
    BY <1>0, <1>3, <1>8, <2>1, PlainOpStep
<1>9. QED
  BY <1>1, <1>5, <1>6, <1>7, <1>8

\* PollFrameLoop keeps the invariant.
LEMMA FrameLoopStep == ASSUME IInv, PollFrameLoop PROVE IInv'
<1>0. Poll("FrameLoop") /\ EndTurn(TRUE) /\ TRUE \in BOOLEAN
      /\ UNCHANGED <<liveVars, frameVars, cap, chan_count, histVars>>
  BY DEF PollFrameLoop
<1>1. PICK chs \in Arms :
        /\ materialize_typed_i64_channel({chs[k] : k \in DOMAIN chs})
        /\ erased' = Materialized({chs[k] : k \in DOMAIN chs})
        /\ SetSlot(WaitFrameLoop(chs)) \/ SetSlot(Wait2Frame(chs))
  BY DEF PollFrameLoop
<1>2. chs \in Seq(Chan)
  BY IInvTypes, ArmsAreSeqs
<1>3. \E v \in PlainRec : SetSlot(v)
  BY <1>1, <1>2, WaitIsPlain
<1>4. erased' \in [Chan -> Seq(Nat)]
  BY <1>1, IInvTypes, MaterializedType
<1>5. typed' \in [Chan -> Seq(Nat)] /\ typed_live' \in [Chan -> BOOLEAN]
  BY <1>1, IInvTypes, MaterializeType
<1>6. ChanTypes' /\ HistoryTypes'
  BY <1>0, <1>4, <1>5, ChansMoved, HistoryStill DEF IInv
<1>7. QED
  BY <1>0, <1>3, <1>6, PlainOpStep

\* PollReadyFrameLoop keeps the invariant.
LEMMA ReadyFrameLoopStep == ASSUME IInv, PollReadyFrameLoop PROVE IInv'
<1>0. Poll("ReadyFrameLoop") /\ UNCHANGED <<liveVars, frameVars, cap, chan_count, histVars>>
  BY DEF PollReadyFrameLoop
<1>1. PICK chs \in Arms :
        /\ materialize_typed_i64_channel({chs[k] : k \in DOMAIN chs})
        /\ erased' = Materialized({chs[k] : k \in DOMAIN chs})
        /\ SetSlot(WaitFrameLoop(chs))
  BY DEF PollReadyFrameLoop
<1>2. chs \in Seq(Chan)
  BY IInvTypes, ArmsAreSeqs
<1>3. WaitFrameLoop(chs) \in PlainRec
  BY <1>2, WaitIsPlain
<1>4. erased' \in [Chan -> Seq(Nat)]
  BY <1>1, IInvTypes, MaterializedType
<1>5. typed' \in [Chan -> Seq(Nat)] /\ typed_live' \in [Chan -> BOOLEAN]
  BY <1>1, IInvTypes, MaterializeType
<1>6. ChanTypes' /\ HistoryTypes'
  BY <1>0, <1>4, <1>5, ChansMoved, HistoryStill DEF IInv
<1>7. /\ Turn /\ i \in Slot /\ frame_kinds[i] = 0 /\ is_live(slots[i])
      /\ polls' \in 0..MaxPolls
  BY <1>0, PollFacts
<1>8. TableInv'
  BY <1>0, <1>1, <1>3, <1>7, PlainTurnKeeps
<1>9. TRUE \in BOOLEAN /\ slot_count' = slot_count
  BY <1>0 DEF liveVars
<1>10. EndTurn(TRUE) \/ (prog' = TRUE /\ UNCHANGED <<pc, i, n>>)
  BY DEF PollReadyFrameLoop
<1>11. ControlTypes'
  BY <1>7, <1>9, <1>10, EndTurnControl, SameTurnControl
<1>12. QED
  BY <1>6, <1>8, <1>11 DEF IInv

\* PollReady2FrameLoop keeps the invariant.
LEMMA Ready2FrameLoopStep == ASSUME IInv, PollReady2FrameLoop PROVE IInv'
<1>0. Poll("ReadyFrameLoop") /\ EndTurn(TRUE) /\ TRUE \in BOOLEAN
      /\ UNCHANGED <<liveVars, frameVars, cap, chan_count, issued, dropped>>
  BY DEF PollReady2FrameLoop
<1>1. PICK chs \in Arms :
       LET C == {chs[k] : k \in DOMAIN chs}
           e == Materialized(C)
           ready == IF is_only_live_slot THEN first_message(e, chs) ELSE {}
       IN  /\ Len(chs) = 2
           /\ materialize_typed_i64_channel(C)
           /\ \/ \E c \in ready :
                    /\ Take(e, c) /\ Hand(Head(e[c]))
                    /\ SetSlot(Active) \/ SetSlot(WaitFrameLoop(chs))
              \/ /\ ready = {}
                 /\ erased' = e
                 /\ SetSlot(WaitFrameLoop(chs))
                 /\ UNCHANGED <<taken, seen>>
  BY DEF PollReady2FrameLoop
<1> DEFINE C == {chs[k] : k \in DOMAIN chs}
           e == Materialized(C)
<1>2. chs \in Seq(Chan)
  BY IInvTypes, ArmsAreSeqs
<1>3. WaitFrameLoop(chs) \in PlainRec /\ Active \in PlainRec
  BY <1>2, WaitIsPlain, ActiveIsPlain
<1>4. materialize_typed_i64_channel(C)
  BY <1>1
<1>5. \/ \E c \in first_message(e, chs) :
            /\ Take(e, c) /\ Hand(Head(e[c]))
            /\ SetSlot(Active) \/ SetSlot(WaitFrameLoop(chs))
      \/ /\ erased' = e
         /\ SetSlot(WaitFrameLoop(chs))
         /\ UNCHANGED <<taken, seen>>
  <2>1. CASE is_only_live_slot
    BY <1>1, <2>1
  <2>2. CASE ~is_only_live_slot
    BY <1>1, <2>2
  <2>3. QED
    BY <2>1, <2>2
<1> HIDE DEF C
<1>6. e \in [Chan -> Seq(Nat)]
  BY IInvTypes, MaterializedType
<1> HIDE DEF e
<1>7. typed' \in [Chan -> Seq(Nat)] /\ typed_live' \in [Chan -> BOOLEAN]
  BY <1>4, IInvTypes, MaterializeType
<1>8. /\ Turn /\ i \in Slot /\ frame_kinds[i] = 0 /\ is_live(slots[i])
  BY <1>0, PollFacts
<1>9. CASE \E c \in first_message(e, chs) :
             /\ Take(e, c) /\ Hand(Head(e[c]))
             /\ SetSlot(Active) \/ SetSlot(WaitFrameLoop(chs))
  <2>1. PICK c \in first_message(e, chs) :
             /\ Take(e, c) /\ Hand(Head(e[c]))
             /\ SetSlot(Active) \/ SetSlot(WaitFrameLoop(chs))
    BY <1>9
  <2>2. PICK v \in PlainRec : SetSlot(v)
    BY <1>3, <2>1
  <2>3. ChanTypes' /\ HistoryTypes'
    BY <1>0, <1>2, <1>6, <1>7, <1>8, <2>1, <2>2, HandOneKeeps
  <2>4. QED
    BY <1>0, <2>2, <2>3, PlainOpStep
<1>10. CASE erased' = e /\ SetSlot(WaitFrameLoop(chs)) /\ UNCHANGED <<taken, seen>>
  <2>1. ChanTypes' /\ HistoryTypes'
    BY <1>0, <1>6, <1>7, <1>10, ChansMoved DEF IInv, HistoryTypes
  <2>2. QED
    BY <1>0, <1>3, <1>10, <2>1, PlainOpStep
<1>11. QED
  BY <1>5, <1>9, <1>10

\* PollWait keeps the invariant.
LEMMA WaitStep == ASSUME IInv, PollWait PROVE IInv'
<1>0. Poll("Wait") /\ UNCHANGED <<liveVars, frame_phases, frame_pending, chanVars, histVars>>
  BY DEF PollWait
<1>1. PICK t \in 0..(slot_count - 1) :
       \/ /\ ~is_live(slots[t])
          /\ SetSlot(Active)
          /\ EndTurn(TRUE)
          /\ UNCHANGED <<frame_kinds, tableVars>>
       \/ /\ is_live(slots[t])
          /\ StoreFrame(Join, <<t>>, Join)
          /\ SetSlot(FrameSlot(Join)) /\ SetKind(Join)
          /\ EndTurn(FALSE)
  BY DEF PollWait
<1>2. /\ Turn /\ i \in Slot /\ frame_kinds[i] = 0 /\ is_live(slots[i])
      /\ polls' \in 0..MaxPolls
  BY <1>0, PollFacts
<1>3. ChanTypes' /\ HistoryTypes'
  BY <1>0, ChansStill, HistoryStill DEF IInv
<1>4. TRUE \in BOOLEAN /\ FALSE \in BOOLEAN /\ slot_count' = slot_count
  BY <1>0 DEF liveVars
<1>5. CASE SetSlot(Active) /\ EndTurn(TRUE) /\ UNCHANGED <<frame_kinds, tableVars>>
  <2>1. TableInv'
    BY <1>0, <1>2, <1>5, ActiveIsPlain, PlainTurnKeeps DEF frameVars
  <2>2. QED
    BY <1>2, <1>3, <1>4, <1>5, <2>1, EndTurnControl DEF IInv
<1>6. CASE /\ StoreFrame(Join, <<t>>, Join)
           /\ SetSlot(FrameSlot(Join)) /\ SetKind(Join)
           /\ EndTurn(FALSE)
  <2>1. /\ frame_phases = [frame_phases EXCEPT ![i] = frame_phases[i]]
        /\ frame_pending = [frame_pending EXCEPT ![i] = frame_pending[i]]
        /\ frame_phases[i] \in 0..3 /\ frame_pending[i] \in Nat
    BY <1>2, SameEntry DEF IInv, TableInv, FrameTypes
  <2>2. <<t>> \in Seq(Nat)
    BY DEF IInv, TableInv, SlotTypes
  <2>3. Install(Join, <<t>>, frame_phases[i], frame_pending[i])
    BY <1>0, <1>2, <1>6, <2>1 DEF Install, SetPhase, SetPending
  <2>4. Join \in 1..7 /\ Pending(Join, frame_phases[i], frame_pending[i])
    BY DEF Pending, Join, TerminalProduceState, Produce, ProduceState
  <2>5. TableInv'
    BY <1>2, <2>1, <2>2, <2>3, <2>4, InstallKeeps DEF IInv
  <2>6. QED
    BY <1>2, <1>3, <1>4, <1>6, <2>5, EndTurnControl DEF IInv
<1>7. QED
  BY <1>1, <1>5, <1>6

\* PollReceiveFrame keeps the invariant.
LEMMA ReceiveFrameStep == ASSUME IInv, PollReceiveFrame PROVE IInv'
<1>0. Poll("ReceiveFrame") /\ TRUE \in BOOLEAN /\ FALSE \in BOOLEAN
      /\ UNCHANGED <<liveVars, frameVars, cap, chan_count, issued, seen, dropped>>
  BY DEF PollReceiveFrame
<1>1. PICK c \in OpenChan :
       LET e == Materialized({c})
       IN  /\ materialize_typed_i64_channel({c})
           /\ \/ /\ e[c] # <<>>
                 /\ Take(e, c)
                 /\ SetSlot(ReceiveFrameSlot(c, Head(e[c]), 1))
                 /\ EndTurn(TRUE)
              \/ /\ e[c] = <<>>
                 /\ erased' = e
                 /\ SetSlot(ReceiveFrameSlot(c, NoMsg, 0))
                 /\ EndTurn(FALSE)
                 /\ UNCHANGED taken
  BY DEF PollReceiveFrame
<1> DEFINE e == Materialized({c})
<1>2. c \in Chan /\ 0 \in 0..2 /\ 1 \in 0..2 /\ NoMsg \in Nat
  BY IInvTypes, OpenChanIsChan DEF NoMsg
<1>3. e \in [Chan -> Seq(Nat)]
  BY IInvTypes, MaterializedType
<1>4. typed' \in [Chan -> Seq(Nat)] /\ typed_live' \in [Chan -> BOOLEAN]
  BY <1>1, IInvTypes, MaterializeType
<1>5. CASE /\ e[c] # <<>> /\ Take(e, c)
           /\ SetSlot(ReceiveFrameSlot(c, Head(e[c]), 1)) /\ EndTurn(TRUE)
  <2> HIDE DEF e
  <2>1. Head(e[c]) \in Nat
    BY <1>2, <1>3, <1>5, HeadIsNat
  <2>2. erased' \in [Chan -> Seq(Nat)] /\ taken' \in [Chan -> Seq(Nat)]
    BY <1>2, <1>3, <1>5, TakeType, IInvTypes
  <2>3. ReceiveFrameSlot(c, Head(e[c]), 1) \in PlainRec
    BY <1>2, <2>1, HolderIsPlain
  <2>4. ChanTypes' /\ HistoryTypes'
    BY <1>0, <1>4, <2>2, ChansMoved DEF IInv, HistoryTypes
  <2>5. QED
    BY <1>0, <1>5, <2>3, <2>4, PlainOpStep
<1>6. CASE /\ erased' = e /\ SetSlot(ReceiveFrameSlot(c, NoMsg, 0)) /\ EndTurn(FALSE)
           /\ UNCHANGED taken
  <2>1. ReceiveFrameSlot(c, NoMsg, 0) \in PlainRec
    BY <1>2, HolderIsPlain
  <2>2. ChanTypes' /\ HistoryTypes'
    BY <1>0, <1>3, <1>4, <1>6, ChansMoved DEF IInv, HistoryTypes
  <2>3. QED
    BY <1>0, <1>6, <2>1, <2>2, PlainOpStep
<1>7. QED
  BY <1>1, <1>5, <1>6

\* Installing a receive frame and probing at once keeps the invariant.
LEMMA InstallReceiveStep ==
  ASSUME IInv, NEW op, Poll(op), NEW kind \in {ReceiveLane, ReceiveState, SelectLane},
         NEW chs \in Seq(Chan), InstallReceive(kind, chs)
  PROVE  IInv'
<1> DEFINE C == {chs[k] : k \in DOMAIN chs}
           e == Materialized(C)
<1>0. /\ StoreFrame(kind, chs, kind) /\ SetSlot(FrameSlot(kind)) /\ SetKind(kind)
      /\ materialize_typed_i64_channel(C)
      /\ UNCHANGED <<liveVars, cap, chan_count, issued, seen, dropped>>
  BY DEF InstallReceive
<1>1. \/ \E c \in first_message(e, chs) :
            /\ Take(e, c) /\ SetPending(Head(e[c])) /\ SetPhase(1) /\ EndTurn(TRUE)
      \/ /\ erased' = e /\ SetPhase(0) /\ EndTurn(FALSE)
         /\ UNCHANGED <<taken, frame_pending>>
  BY DEF InstallReceive
<1> HIDE DEF C
<1>2. /\ Turn /\ i \in Slot /\ frame_kinds[i] = 0 /\ is_live(slots[i])
      /\ polls' \in 0..MaxPolls
  BY PollFacts
<1>3. e \in [Chan -> Seq(Nat)]
  BY IInvTypes, MaterializedType
<1> HIDE DEF e
<1>4. typed' \in [Chan -> Seq(Nat)] /\ typed_live' \in [Chan -> BOOLEAN]
  BY <1>0, IInvTypes, MaterializeType
<1>5. /\ kind \in 1..7 /\ kind \notin {Join, Produce, ProduceState, TerminalProduceState}
      /\ chs \in Seq(Nat)
  BY DEF ReceiveLane, ReceiveState, SelectLane, Join, Produce, ProduceState,
         TerminalProduceState, Chan
<1>6. ASSUME NEW phase \in 0..3, NEW m \in Nat, SetPhase(phase), SetPending(m)
      PROVE  TableInv'
  <2>1. Install(kind, chs, phase, m)
    BY <1>0, <1>2, <1>6 DEF Install
  <2>2. Pending(kind, phase, m)
    BY <1>5 DEF Pending
  <2>3. QED
    BY <1>2, <1>5, <2>1, <2>2, InstallKeeps DEF IInv
<1>7. TRUE \in BOOLEAN /\ FALSE \in BOOLEAN /\ slot_count' = slot_count
      /\ 0 \in 0..3 /\ 1 \in 0..3
  BY <1>0 DEF liveVars
<1>8. CASE \E c \in first_message(e, chs) :
             /\ Take(e, c) /\ SetPending(Head(e[c])) /\ SetPhase(1) /\ EndTurn(TRUE)
  <2>1. PICK c \in first_message(e, chs) :
             /\ Take(e, c) /\ SetPending(Head(e[c])) /\ SetPhase(1) /\ EndTurn(TRUE)
    BY <1>8
  <2>2. c \in Chan /\ e[c] # <<>>
    BY FirstMessageReady
  <2>3. Head(e[c]) \in Nat
    BY <1>3, <2>2, HeadIsNat
  <2>4. erased' \in [Chan -> Seq(Nat)] /\ taken' \in [Chan -> Seq(Nat)]
    BY <1>3, <2>1, <2>2, TakeType, IInvTypes
  <2>5. TableInv'
    BY <1>6, <1>7, <2>1, <2>3
  <2>6. ChanTypes' /\ HistoryTypes'
    BY <1>0, <1>4, <2>4, ChansMoved DEF IInv, HistoryTypes
  <2>7. QED
    BY <1>2, <1>7, <2>1, <2>5, <2>6, EndTurnControl DEF IInv
<1>9. CASE /\ erased' = e /\ SetPhase(0) /\ EndTurn(FALSE)
           /\ UNCHANGED <<taken, frame_pending>>
  <2>1. frame_pending[i] \in Nat /\ SetPending(frame_pending[i])
    BY <1>2, <1>9, SameEntry DEF IInv, TableInv, FrameTypes, SetPending
  <2>2. TableInv'
    BY <1>6, <1>7, <1>9, <2>1
  <2>3. ChanTypes' /\ HistoryTypes'
    BY <1>0, <1>3, <1>4, <1>9, ChansMoved DEF IInv, HistoryTypes
  <2>4. QED
    BY <1>2, <1>7, <1>9, <2>2, <2>3, EndTurnControl DEF IInv
<1>10. QED
  BY <1>1, <1>8, <1>9

\* PollReceiveLaneFrame keeps the invariant.
LEMMA ReceiveLaneFrameStep == ASSUME IInv, PollReceiveLaneFrame PROVE IInv'
<1>1. PICK c \in OpenChan : Poll("ReceiveLaneFrame") /\ InstallReceive(ReceiveLane, <<c>>)
  BY DEF PollReceiveLaneFrame
<1>2. <<c>> \in Seq(Chan)
  BY IInvTypes, SingletonIsSeq
<1>3. QED
  BY <1>1, <1>2, InstallReceiveStep

\* PollReceiveStateFrame keeps the invariant.
LEMMA ReceiveStateFrameStep == ASSUME IInv, PollReceiveStateFrame PROVE IInv'
<1>1. PICK c \in OpenChan : Poll("ReceiveStateFrame") /\ InstallReceive(ReceiveState, <<c>>)
  BY DEF PollReceiveStateFrame
<1>2. <<c>> \in Seq(Chan)
  BY IInvTypes, SingletonIsSeq
<1>3. QED
  BY <1>1, <1>2, InstallReceiveStep

\* PollSelectLaneFrame keeps the invariant.
LEMMA SelectLaneFrameStep == ASSUME IInv, PollSelectLaneFrame PROVE IInv'
<1>1. PICK chs \in OpenChan \X OpenChan :
         Poll("SelectLaneFrame") /\ InstallReceive(SelectLane, chs)
  BY DEF PollSelectLaneFrame
<1>2. chs \in Seq(Chan)
  BY IInvTypes, PairIsSeq
<1>3. QED
  BY <1>1, <1>2, InstallReceiveStep

\* Installing a producer frame and trying its first send keeps the invariant.
LEMMA InstallProduceStep ==
  ASSUME IInv, NEW op, Poll(op), NEW kind \in {Produce, ProduceState}, InstallProduce(kind)
  PROVE  IInv'
<1>1. PICK c \in OpenChan :
        /\ StoreFrame(kind, <<c>>, kind)
        /\ SetSlot(FrameSlot(kind)) /\ SetKind(kind)
        /\ materialize_typed_i64_channel({c})
        /\ Issue(c)
        /\ \/ /\ Put(Materialized({c}), c, NextMsg)
              /\ SetPhase(1)
              /\ EndTurn(TRUE)
              /\ UNCHANGED frame_pending
           \/ /\ erased' = Materialized({c})
              /\ SetPending(NextMsg) /\ SetPhase(3)
              /\ EndTurn(FALSE)
        /\ UNCHANGED <<liveVars, cap, chan_count, taken, seen, dropped>>
  BY DEF InstallProduce
<1> DEFINE e == Materialized({c})
<1>2. /\ Turn /\ i \in Slot /\ frame_kinds[i] = 0 /\ is_live(slots[i])
      /\ polls' \in 0..MaxPolls
  BY PollFacts
<1>3. issued' \in Seq([from : Slot, ch : Chan]) /\ NextMsg \in Nat \ {0}
  BY <1>1, <1>2, IssueType, IInvTypes
<1>4. HistoryTypes' /\ NextMsg \in Nat /\ NextMsg # NoMsg
  BY <1>1, <1>3 DEF IInv, HistoryTypes, NoMsg
<1>5. e \in [Chan -> Seq(Nat)]
  BY IInvTypes, MaterializedType
<1>6. typed' \in [Chan -> Seq(Nat)] /\ typed_live' \in [Chan -> BOOLEAN]
  BY <1>1, IInvTypes, MaterializeType
<1>7. <<c>> \in Seq(Chan)
  BY IInvTypes, SingletonIsSeq
<1>8. <<c>> \in Seq(Nat) /\ kind \in 1..7 /\ kind # TerminalProduceState
  BY <1>7 DEF Chan, Produce, ProduceState, TerminalProduceState
<1>9. ASSUME NEW phase \in 0..3, NEW m \in Nat, SetPhase(phase), SetPending(m),
             phase # 1 => m # NoMsg
      PROVE  TableInv'
  <2>1. Install(kind, <<c>>, phase, m)
    BY <1>1, <1>2, <1>9 DEF Install
  <2>2. Pending(kind, phase, m)
    BY <1>8, <1>9 DEF Pending
  <2>3. QED
    BY <1>2, <1>7, <1>8, <2>1, <2>2, InstallKeeps DEF IInv
<1>10. TRUE \in BOOLEAN /\ FALSE \in BOOLEAN /\ slot_count' = slot_count
       /\ 1 \in 0..3 /\ 3 \in 0..3
  BY <1>1 DEF liveVars
<1>11. CASE Put(e, c, NextMsg) /\ SetPhase(1) /\ EndTurn(TRUE) /\ UNCHANGED frame_pending
  <2>1. erased' \in [Chan -> Seq(Nat)]
    BY <1>4, <1>5, <1>11, PutType
  <2>2. ChanTypes'
    BY <1>1, <1>6, <2>1, ChansMoved DEF IInv
  <2>3. frame_pending[i] \in Nat /\ SetPending(frame_pending[i])
    BY <1>2, <1>11, SameEntry DEF IInv, TableInv, FrameTypes, SetPending
  <2>4. TableInv'
    BY <1>9, <1>10, <1>11, <2>3
  <2>5. QED
    BY <1>2, <1>4, <1>10, <1>11, <2>2, <2>4, EndTurnControl DEF IInv
<1>12. CASE erased' = e /\ SetPending(NextMsg) /\ SetPhase(3) /\ EndTurn(FALSE)
  <2>1. ChanTypes'
    BY <1>1, <1>5, <1>6, <1>12, ChansMoved DEF IInv
  <2>2. TableInv'
    BY <1>4, <1>9, <1>10, <1>12
  <2>3. QED
    BY <1>2, <1>4, <1>10, <1>12, <2>1, <2>2, EndTurnControl DEF IInv
<1>13. QED
  BY <1>1, <1>11, <1>12

\* PollProduceFrame and PollProduceStateFrame keep the invariant.
LEMMA ProduceFrameStep == ASSUME IInv, PollProduceFrame \/ PollProduceStateFrame PROVE IInv'
BY InstallProduceStep DEF PollProduceFrame, PollProduceStateFrame

\* PollTerminalProduceStateFrame keeps the invariant.
LEMMA TerminalFrameStep == ASSUME IInv, PollTerminalProduceStateFrame PROVE IInv'
<1>0. /\ Poll("TerminalProduceStateFrame")
      /\ UNCHANGED <<liveVars, cap, chan_count, taken, seen, dropped>>
  BY DEF PollTerminalProduceStateFrame
<1>1. PICK c \in OpenChan :
        /\ materialize_typed_i64_channel({c})
        /\ Issue(c)
        /\ \/ /\ StoreFrame(TerminalProduceState, <<c>>, 0)
              /\ Put(Materialized({c}), c, NextMsg)
              /\ SetSlot(Active) /\ SetKind(0)
              /\ EndTurn(TRUE)
              /\ UNCHANGED <<frame_pending, frame_phases>>
           \/ /\ StoreFrame(TerminalProduceState, <<c>>, TerminalProduceState)
              /\ erased' = Materialized({c})
              /\ SetSlot(FrameSlot(TerminalProduceState))
              /\ SetKind(TerminalProduceState)
              /\ SetPending(NextMsg) /\ SetPhase(3)
              /\ EndTurn(FALSE)
  BY DEF PollTerminalProduceStateFrame
<1> DEFINE e == Materialized({c})
<1>2. /\ Turn /\ i \in Slot /\ frame_kinds[i] = 0 /\ is_live(slots[i])
      /\ polls' \in 0..MaxPolls
  BY <1>0, PollFacts
<1>3. issued' \in Seq([from : Slot, ch : Chan]) /\ NextMsg \in Nat \ {0}
  BY <1>1, <1>2, IssueType, IInvTypes
<1>4. HistoryTypes' /\ NextMsg \in Nat /\ NextMsg # NoMsg
  BY <1>0, <1>3 DEF IInv, HistoryTypes, NoMsg
<1>5. e \in [Chan -> Seq(Nat)]
  BY IInvTypes, MaterializedType
<1>6. typed' \in [Chan -> Seq(Nat)] /\ typed_live' \in [Chan -> BOOLEAN]
  BY <1>1, IInvTypes, MaterializeType
<1>7. <<c>> \in Seq(Chan)
  BY IInvTypes, SingletonIsSeq
<1>8. <<c>> \in Seq(Nat) /\ TerminalProduceState \in 1..7 /\ 3 \in 0..3
  BY <1>7 DEF Chan, TerminalProduceState
<1>9. TRUE \in BOOLEAN /\ FALSE \in BOOLEAN /\ slot_count' = slot_count /\ TableInv
  BY <1>0 DEF liveVars, IInv
<1>10. CASE /\ StoreFrame(TerminalProduceState, <<c>>, 0)
            /\ Put(e, c, NextMsg)
            /\ SetSlot(Active) /\ SetKind(0)
            /\ EndTurn(TRUE)
            /\ UNCHANGED <<frame_pending, frame_phases>>
  <2>1. erased' \in [Chan -> Seq(Nat)]
    BY <1>4, <1>5, <1>10, PutType
  <2>2. ChanTypes'
    BY <1>0, <1>6, <2>1, ChansMoved DEF IInv
  <2>3. UNCHANGED <<liveVars, frame_phases, frame_pending>>
    BY <1>0, <1>10
  <2>4. TableInv'
    BY <1>2, <1>8, <1>9, <1>10, <2>3, StoreClearedKeeps
  <2>5. QED
    BY <1>2, <1>4, <1>9, <1>10, <2>2, <2>4, EndTurnControl DEF IInv
<1>11. CASE /\ StoreFrame(TerminalProduceState, <<c>>, TerminalProduceState)
            /\ erased' = e
            /\ SetSlot(FrameSlot(TerminalProduceState))
            /\ SetKind(TerminalProduceState)
            /\ SetPending(NextMsg) /\ SetPhase(3)
            /\ EndTurn(FALSE)
  <2>1. ChanTypes'
    BY <1>0, <1>5, <1>6, <1>11, ChansMoved DEF IInv
  <2>2. Install(TerminalProduceState, <<c>>, 3, NextMsg)
    BY <1>0, <1>2, <1>11 DEF Install
  <2>3. Pending(TerminalProduceState, 3, NextMsg)
    BY <1>4 DEF Pending
  <2>4. TableInv'
    BY <1>2, <1>4, <1>7, <1>8, <1>9, <2>2, <2>3, InstallKeeps
  <2>5. QED
    BY <1>2, <1>4, <1>9, <1>11, <2>1, <2>4, EndTurnControl DEF IInv
<1>12. QED
  BY <1>1, <1>10, <1>11

----------------------------------------------------------------------------
(* The end of a round and the close pass. *)

\* Starting the next round, the close pass, or returning keeps the invariant.
LEMMA RoundStep == ASSUME IInv, EndRound \/ EndClose PROVE IInv'
<1>1. UNCHANGED <<slots, liveVars, frameVars, chanVars, polls, histVars>>
  BY DEF EndRound, EndClose
<1>2. TableInv' /\ ChanTypes' /\ HistoryTypes'
  BY <1>1, StillKeeps, ChansStill, HistoryStill DEF IInv
<1>3. polls' = polls /\ slot_count' = slot_count
  BY <1>1 DEF liveVars
<1>4. ControlTypes'
  <2>1. /\ slot_count \in Nat \ {0} /\ pc \in {"round", "close", "done"} /\ prog \in BOOLEAN
        /\ n \in 1..slot_count /\ i \in 0..n /\ polls \in 0..MaxPolls
    <3>1. slot_count \in 1..MaxSlots
      BY DEF IInv, TableInv, SlotTypes
    <3>2. /\ pc \in {"round", "close", "done"} /\ prog \in BOOLEAN
          /\ n \in 1..slot_count /\ i \in 0..n /\ polls \in 0..MaxPolls
      BY Zenon DEF IInv, ControlTypes
    <3>3. QED
      BY <3>1, <3>2
  <2>2. CASE StartRound(slot_count)
    <3>1. pc' \in {"round", "close", "done"} /\ prog' \in BOOLEAN
      BY <2>2, Zenon DEF StartRound
    <3>2. n' \in 1..slot_count' /\ i' \in 0..n' /\ polls' \in 0..MaxPolls
      BY <1>3, <2>1, <2>2 DEF StartRound
    <3>3. QED
      BY <3>1, <3>2 DEF ControlTypes
  <2>3. CASE pc' = "done" /\ UNCHANGED <<i, n, prog>>
    BY <1>3, <2>1, <2>3 DEF ControlTypes
  <2>4. CASE pc' = "close" /\ i' = 0 /\ n' = slot_count /\ UNCHANGED prog
    BY <1>3, <2>1, <2>4 DEF ControlTypes
  <2>5. QED
    BY <2>2, <2>3, <2>4 DEF EndRound, EndClose
<1>5. QED
  BY <1>2, <1>4 DEF IInv

\* What the close pass may rely on at a slot.
LEMMA ClosingFacts ==
  ASSUME IInv, Closing
  PROVE  /\ i \in Slot /\ Aligned(i) /\ slots[i] \in SlotRec
         /\ slots[i].msg \in Nat /\ slots[i].chs \in Seq(Chan)
         /\ frame_pending[i] \in Nat
         /\ slots[i].tag # "FrameSlot" => frame_kinds[i] = 0
<1>1. i \in Slot
  BY IInvTypes, CurrentSlot
<1>2. slots[i] \in SlotRec
  BY <1>1 DEF IInv, TableInv, SlotTypes
<1>3. Aligned(i) /\ frame_pending[i] \in Nat
  BY <1>1 DEF IInv, TableInv, FrameTypes
<1>4. QED
  BY <1>1, <1>2, <1>3 DEF SlotRec, Aligned, Dispatchable

\* A parked slot without a frame is released or left alone.
LEMMA ClosePlainStep ==
  ASSUME IInv, Closing, slots[i].tag \notin {"FrameSlot", "Ended"}, NEW v \in PlainRec,
         SetSlot(v), CloseOnward, UNCHANGED <<liveVars, frameVars, histVars>>,
         polls' \in 0..MaxPolls, ChanTypes'
  PROVE  IInv'
<1>1. i \in Slot /\ frame_kinds[i] = 0 /\ is_live(slots[i])
  BY ClosingFacts DEF is_live
<1>2. TableInv' /\ HistoryTypes'
  BY <1>1, PlainTurnKeeps, HistoryStill DEF IInv
<1>3. slot_count' = slot_count
  BY DEF liveVars
<1>4. QED
  BY <1>2, <1>3, OnwardControl DEF IInv

\* CloseRecv keeps the invariant.
LEMMA CloseRecvStep == ASSUME IInv, CloseRecv PROVE IInv'
<1>1. /\ Closing /\ slots[i].tag = "WaitRecv" /\ SetSlot(Active) /\ CloseOnward
      /\ UNCHANGED <<liveVars, frameVars, chanVars, polls, histVars>>
  BY DEF CloseRecv
<1>2. ChanTypes' /\ polls' \in 0..MaxPolls
  BY <1>1, ChansStill, PollsType DEF IInv
<1>3. QED
  BY <1>1, <1>2, ActiveIsPlain, ClosePlainStep

\* CloseSend keeps the invariant.
LEMMA CloseSendStep == ASSUME IInv, CloseSend PROVE IInv'
<1>1. /\ Closing /\ slots[i].tag = "WaitSend" /\ SetSlot(Active) /\ CloseOnward
      /\ Put(erased, slots[i].chs[1], slots[i].msg)
      /\ UNCHANGED <<liveVars, frameVars, typed, typed_live, cap, chan_count, polls, histVars>>
  BY DEF CloseSend
<1>2. slots[i].msg \in Nat /\ erased \in [Chan -> Seq(Nat)] /\ polls' \in 0..MaxPolls
  BY <1>1, ClosingFacts, PollsType DEF IInv, ChanTypes
<1>3. erased' \in [Chan -> Seq(Nat)]
  BY <1>1, <1>2, PutType
<1>4. ChanTypes'
  BY <1>1, <1>3 DEF IInv, ChanTypes
<1>5. QED
  BY <1>1, <1>2, <1>4, ActiveIsPlain, ClosePlainStep

\* CloseFrameLoop keeps the invariant.
LEMMA CloseFrameLoopStep == ASSUME IInv, CloseFrameLoop PROVE IInv'
<1>1. /\ Closing /\ slots[i].tag \in {"WaitFrameLoop", "Wait2Frame"} /\ CloseOnward
      /\ UNCHANGED <<liveVars, frameVars, chanVars, histVars>>
      /\ \/ SetSlot(Active) /\ UNCHANGED polls
         \/ Spend /\ UNCHANGED slots
  BY DEF CloseFrameLoop
<1>2. i \in Slot /\ frame_kinds[i] = 0 /\ is_live(slots[i])
  BY <1>1, ClosingFacts DEF is_live
<1>3. ChanTypes' /\ polls' \in 0..MaxPolls
  BY <1>1, ChansStill, PollsType, SpendType DEF IInv
<1>4. \E v \in PlainRec : SetSlot(v)
  <2>1. slots[i] \in PlainRec /\ slots = [slots EXCEPT ![i] = slots[i]]
    BY <1>2, SlotIsPlain
  <2>2. CASE SetSlot(Active)
    BY <2>2, ActiveIsPlain
  <2>3. CASE UNCHANGED slots
    BY <2>1, <2>3 DEF SetSlot
  <2>4. QED
    BY <1>1, <2>2, <2>3
<1>5. slots[i].tag \notin {"FrameSlot", "Ended"}
  BY <1>1
<1>6. QED
  BY <1>1, <1>3, <1>4, <1>5, ClosePlainStep

\* CloseReceiveFrameSlot keeps the invariant.
LEMMA CloseReceiveFrameSlotStep == ASSUME IInv, CloseReceiveFrameSlot PROVE IInv'
<1> DEFINE c == slots[i].chs[1]
<1>1. /\ Closing /\ slots[i].tag = "ReceiveFrameSlot" /\ CloseOnward
      /\ SetSlot(ReceiveFrameSlot(c, NoMsg, 1))
      /\ UNCHANGED <<liveVars, frameVars, chanVars, polls, histVars>>
  BY DEF CloseReceiveFrameSlot
<1>2. slots[i].chs # <<>> /\ slots[i].chs \in Seq(Chan)
  BY <1>1, ClosingFacts DEF Aligned
<1>3. c \in Chan /\ NoMsg \in Nat /\ 1 \in 0..2
  BY <1>2 DEF NoMsg
<1>4. ReceiveFrameSlot(c, NoMsg, 1) \in PlainRec
  BY <1>3, HolderIsPlain
<1>5. ChanTypes' /\ polls' \in 0..MaxPolls
  BY <1>1, ChansStill, PollsType DEF IInv
<1>6. QED
  BY <1>1, <1>4, <1>5, ClosePlainStep

\* CloseOther keeps the invariant.
LEMMA CloseOtherStep == ASSUME IInv, CloseOther PROVE IInv'
<1>1. /\ Closing /\ CloseOnward
      /\ UNCHANGED <<slots, liveVars, frameVars, chanVars, polls, histVars>>
  BY DEF CloseOther
<1>2. TableInv' /\ ChanTypes' /\ HistoryTypes' /\ polls' \in 0..MaxPolls
  BY <1>1, StillKeeps, ChansStill, HistoryStill, PollsType DEF IInv
<1>3. slot_count' = slot_count
  BY <1>1 DEF liveVars
<1>4. QED
  BY <1>1, <1>2, <1>3, OnwardControl DEF IInv

\* The frame a close pass reaches.
LEMMA ClosingFrameFacts ==
  ASSUME IInv, NEW kinds, ClosingFrame(kinds)
  PROVE  /\ Closing /\ i \in Slot /\ frame_kinds[i] \in kinds /\ frame_kinds[i] # 0
         /\ frame_kinds[i] # Join => frame_channels[i] \in Seq(Chan)
         /\ frame_channels[i] \in Seq(Nat) /\ frame_pending[i] \in Nat
         /\ frame_channels = [frame_channels EXCEPT ![i] = frame_channels[i]]
         /\ frame_pending = [frame_pending EXCEPT ![i] = frame_pending[i]]
<1>1. Closing /\ slots[i].tag = "FrameSlot" /\ slots[i].arg \in kinds
  BY DEF ClosingFrame
<1>2. i \in Slot /\ Aligned(i)
  BY <1>1, ClosingFacts
<1>3. frame_kinds[i] # 0 /\ slots[i].arg = frame_kinds[i]
  BY <1>1, <1>2 DEF Aligned, Dispatchable
<1>4. QED
  BY <1>1, <1>2, <1>3, SameEntry DEF Aligned, IInv, TableInv, FrameTypes

\* CloseJoin keeps the invariant.
LEMMA CloseJoinStep == ASSUME IInv, CloseJoin PROVE IInv'
<1>1. /\ ClosingFrame({Join}) /\ FinishFrame /\ CloseOnward
      /\ UNCHANGED <<liveVars, frame_pending, chanVars, polls, histVars>>
  BY DEF CloseJoin
<1>2. /\ Closing /\ i \in Slot /\ frame_kinds[i] # 0 /\ frame_pending[i] \in Nat
      /\ frame_pending = [frame_pending EXCEPT ![i] = frame_pending[i]]
  BY <1>1, ClosingFrameFacts
<1>3. Finish(frame_pending[i])
  BY <1>1, <1>2 DEF Finish, SetPending
<1>4. TableInv'
  BY <1>2, <1>3, FinishKeeps DEF IInv
<1>5. ChanTypes' /\ HistoryTypes' /\ polls' \in 0..MaxPolls
  BY <1>1, ChansStill, HistoryStill, PollsType DEF IInv
<1>6. slot_count' = slot_count
  BY <1>1 DEF liveVars
<1>7. QED
  BY <1>1, <1>2, <1>4, <1>5, <1>6, OnwardControl DEF IInv

\* CloseReceiveFrame keeps the invariant.
LEMMA CloseReceiveFrameStep == ASSUME IInv, CloseReceiveFrame PROVE IInv'
<1>1. /\ ClosingFrame({ReceiveLane, ReceiveState, SelectLane})
      /\ SetPending(NoMsg) /\ SetPhase(1) /\ CloseOnward
      /\ UNCHANGED <<slots, liveVars, frame_kinds, tableVars, chanVars, polls, histVars>>
  BY DEF CloseReceiveFrame
<1>2. /\ Closing /\ i \in Slot /\ frame_kinds[i] \in {ReceiveLane, ReceiveState, SelectLane}
      /\ frame_kinds[i] # 0 /\ frame_channels[i] \in Seq(Nat)
      /\ frame_kinds[i] # Join => frame_channels[i] \in Seq(Chan)
      /\ frame_channels = [frame_channels EXCEPT ![i] = frame_channels[i]]
  BY <1>1, ClosingFrameFacts
<1>3. Rephase(frame_channels[i], 1, NoMsg)
  BY <1>1, <1>2 DEF Rephase, tableVars
<1>4. Pending(frame_kinds[i], 1, NoMsg) /\ NoMsg \in Nat /\ 1 \in 0..3
  BY <1>2 DEF Pending, ReceiveLane, ReceiveState, SelectLane, TerminalProduceState, NoMsg
<1>5. TableInv'
  BY <1>2, <1>3, <1>4, RephaseKeeps DEF IInv
<1>6. ChanTypes' /\ HistoryTypes' /\ polls' \in 0..MaxPolls
  BY <1>1, ChansStill, HistoryStill, PollsType DEF IInv
<1>7. slot_count' = slot_count
  BY <1>1 DEF liveVars
<1>8. QED
  BY <1>1, <1>2, <1>5, <1>6, <1>7, OnwardControl DEF IInv

\* CloseProduceFrame keeps the invariant.
LEMMA CloseProduceFrameStep == ASSUME IInv, CloseProduceFrame PROVE IInv'
<1>1. /\ ClosingFrame({Produce, ProduceState})
      /\ Put(erased, frame_channels[i][1], frame_pending[i])
      /\ SetPending(NoMsg) /\ SetPhase(1) /\ CloseOnward
      /\ UNCHANGED <<slots, liveVars, frame_kinds, tableVars, typed, typed_live, cap,
                     chan_count, polls, histVars>>
  BY DEF CloseProduceFrame
<1>2. /\ Closing /\ i \in Slot /\ frame_kinds[i] \in {Produce, ProduceState}
      /\ frame_kinds[i] # 0 /\ frame_channels[i] \in Seq(Nat) /\ frame_pending[i] \in Nat
      /\ frame_kinds[i] # Join => frame_channels[i] \in Seq(Chan)
      /\ frame_channels = [frame_channels EXCEPT ![i] = frame_channels[i]]
  BY <1>1, ClosingFrameFacts
<1>3. Rephase(frame_channels[i], 1, NoMsg)
  BY <1>1, <1>2 DEF Rephase, tableVars
<1>4. Pending(frame_kinds[i], 1, NoMsg) /\ NoMsg \in Nat /\ 1 \in 0..3
  BY <1>2 DEF Pending, Produce, ProduceState, TerminalProduceState, NoMsg
<1>5. TableInv'
  BY <1>2, <1>3, <1>4, RephaseKeeps DEF IInv
<1>6. erased \in [Chan -> Seq(Nat)]
  BY DEF IInv, ChanTypes
<1>7. erased' \in [Chan -> Seq(Nat)]
  BY <1>1, <1>2, <1>6, PutType
<1>8. ChanTypes' /\ HistoryTypes' /\ polls' \in 0..MaxPolls
  BY <1>1, <1>7, HistoryStill, PollsType DEF IInv, ChanTypes
<1>9. slot_count' = slot_count
  BY <1>1 DEF liveVars
<1>10. QED
  BY <1>1, <1>2, <1>5, <1>8, <1>9, OnwardControl DEF IInv

\* CloseTerminalProduce keeps the invariant.
LEMMA CloseTerminalStep == ASSUME IInv, CloseTerminalProduce PROVE IInv'
<1>1. /\ ClosingFrame({TerminalProduceState})
      /\ Put(erased, frame_channels[i][1], frame_pending[i])
      /\ SetPending(NoMsg) /\ FinishFrame /\ CloseOnward
      /\ UNCHANGED <<liveVars, typed, typed_live, cap, chan_count, polls, histVars>>
  BY DEF CloseTerminalProduce
<1>2. Closing /\ i \in Slot /\ frame_kinds[i] # 0 /\ frame_pending[i] \in Nat
  BY <1>1, ClosingFrameFacts
<1>3. Finish(NoMsg) /\ NoMsg \in Nat
  BY <1>1, <1>2 DEF Finish, NoMsg
<1>4. TableInv'
  BY <1>2, <1>3, FinishKeeps DEF IInv
<1>5. erased \in [Chan -> Seq(Nat)]
  BY DEF IInv, ChanTypes
<1>6. erased' \in [Chan -> Seq(Nat)]
  BY <1>1, <1>2, <1>5, PutType
<1>7. ChanTypes' /\ HistoryTypes' /\ polls' \in 0..MaxPolls
  BY <1>1, <1>6, HistoryStill, PollsType DEF IInv, ChanTypes
<1>8. slot_count' = slot_count
  BY <1>1 DEF liveVars
<1>9. QED
  BY <1>1, <1>2, <1>4, <1>7, <1>8, OnwardControl DEF IInv

----------------------------------------------------------------------------
(* The invariant holds initially and every step keeps it. *)

\* The inductive invariant holds initially.
LEMMA InitIInv == Init => IInv
<1> SUFFICES ASSUME Init PROVE IInv
  OBVIOUS
<1>1. /\ Active \in SlotRec /\ Active.tag = "Active"
      /\ Ended \in SlotRec /\ Ended.tag = "Ended"
  BY ActiveFields, EndedFields
<1>2. 0 \in Slot /\ 1 \in 1..MaxSlots /\ NoMsg = 0
  BY DEF Slot, NoMsg
<1>3. SlotTypes
  BY <1>1, <1>2 DEF Init, SlotTypes
<1>4. FrameTypes
  BY <1>2 DEF Init, FrameTypes
<1>5. ASSUME NEW s \in Slot PROVE Aligned(s)
  <2>1. frame_kinds[s] = 0 /\ slots[s] \in {Active, Ended}
    BY <1>5 DEF Init
  <2>2. slots[s].tag \in {"Active", "Ended"}
    BY <1>1, <2>1
  <2>3. QED
    BY <2>1, <2>2 DEF Aligned, Dispatchable, TerminalProduceState, Produce, ProduceState
<1>6. RecipesAreOwned
  BY DEF Init, RecipesAreOwned, OwnRecipe
<1>7. LiveTablesAgree
  <2>1. {s \in Slot : slot_live[s]} = {0}
    BY <1>2 DEF Init
  <2>2. Cardinality({0}) = 1
    BY FS_Singleton
  <2>3. \A s \in Slot : slot_live[s] <=> s = 0
    BY DEF Init
  <2>4. \A s \in Slot : is_live(slots[s]) <=> s = 0
    BY <1>1 DEF Init, is_live
  <2>5. live_count = 1 /\ slot_count = 1
    BY DEF Init
  <2>6. QED
    BY <2>1, <2>2, <2>3, <2>4, <2>5 DEF LiveTablesAgree
<1>8. ChanTypes
  BY DEF Init, ChanTypes
<1>9. ControlTypes
  <2>1. pc \in {"round", "close", "done"} /\ prog \in BOOLEAN
    BY Zenon DEF Init
  <2>2. n \in 1..slot_count /\ i \in 0..n /\ polls \in 0..MaxPolls
    BY DEF Init
  <2>3. QED
    BY <2>1, <2>2 DEF ControlTypes
<1>10. HistoryTypes
  BY DEF Init, HistoryTypes
<1>11. QED
  BY <1>3, <1>4, <1>5, <1>6, <1>7, <1>8, <1>9, <1>10 DEF IInv, TableInv

\* Stuttering keeps the invariant.
LEMMA StutterKeeps == ASSUME IInv, UNCHANGED vars PROVE IInv'
<1>1. UNCHANGED <<slots, liveVars, frameVars, chanVars, pc, i, n, prog, polls, histVars>>
  BY DEF vars
<1>2. TableInv' /\ ChanTypes' /\ HistoryTypes'
  BY <1>1, StillKeeps, ChansStill, HistoryStill DEF IInv
<1>3. ControlTypes'
  BY <1>1 DEF IInv, ControlTypes, liveVars
<1>4. QED
  BY <1>2, <1>3 DEF IInv

\* Every frame turn keeps the invariant.
LEMMA FrameTurnStep == ASSUME IInv, FrameTurn PROVE IInv'
BY ReceiveLaneKeeps, ReceiveStateKeeps, SelectLaneKeeps, ProduceKeeps, TerminalKeeps, JoinKeeps
   DEF FrameTurn

\* Every turn of a parked slot keeps the invariant.
LEMMA ParkedTurnStep == ASSUME IInv, ParkedTurn PROVE IInv'
BY WaitRecvKeeps, WaitSendKeeps, FrameLoopKeeps, ReceiveFrameSlotKeeps DEF ParkedTurn

\* Every operation keeps the invariant.
LEMMA PollTurnStep == ASSUME IInv, PollTurn PROVE IInv'
BY DoneStep, YieldStep, ForkStep, OpenStep, PushStep, PullStep, PushI64Step, PullI64Step,
   FrameLoopStep, ReadyFrameLoopStep, Ready2FrameLoopStep, WaitStep, CancelStep,
   ReceiveFrameStep, ReceiveLaneFrameStep, ReceiveStateFrameStep, SelectLaneFrameStep,
   ProduceFrameStep, TerminalFrameStep
   DEF PollTurn

\* Every step of the close pass keeps the invariant.
LEMMA CloseTurnStep == ASSUME IInv, CloseTurn PROVE IInv'
BY CloseRecvStep, CloseSendStep, CloseFrameLoopStep, CloseReceiveFrameSlotStep, CloseJoinStep,
   CloseReceiveFrameStep, CloseProduceFrameStep, CloseTerminalStep, CloseOtherStep
   DEF CloseTurn

\* Every step keeps the inductive invariant.
LEMMA NextIInv == IInv /\ [Next]_vars => IInv'
BY DeadKeeps, FrameTurnStep, ParkedTurnStep, PollTurnStep, RoundStep, CloseTurnStep, StutterKeeps
   DEF Next, Step, Returned

\* The inductive invariant holds throughout.
LEMMA Inductive == Spec => []IInv
BY InitIInv, NextIInv, PTL DEF Spec

----------------------------------------------------------------------------
(* The theorems. *)

\* Every variable of `run` stays within its type, for every bound: in particular
\* the turn index stays inside the round and the round inside the slots.
THEOREM ExecutorTypes == Spec => []TypeOK
BY Inductive, IInvTypes, PTL

\* `run` never reaches one of its fail(...) branches: whenever it dispatches
\* or closes a slot, the frame tables hold what that slot's kind needs.
THEOREM NeverMissingRecipe == Spec => []NoMissingRecipe
<1>1. IInv => NoMissingRecipe
  <2>1. SUFFICES ASSUME IInv, pc \in {"round", "close"}, i < n PROVE Dispatchable(i)
    BY DEF NoMissingRecipe
  <2>2. Turn \/ Closing
    BY <2>1 DEF Turn, Closing
  <2>3. i \in Slot
    BY <2>1, <2>2, IInvTypes, CurrentSlot
  <2>4. QED
    BY <2>1, <2>3 DEF IInv, TableInv, Aligned
<1>2. QED
  BY <1>1, Inductive, PTL

\* The Ended constructor, slot_live and live_count agree after every step, so
\* the test live_count > 0 that ends `run` is exact.
THEOREM LiveTablesAlwaysAgree == Spec => []LiveTablesAgree
<1>1. IInv => LiveTablesAgree
  BY DEF IInv, TableInv
<1>2. QED
  BY <1>1, Inductive, PTL

=============================================================================
