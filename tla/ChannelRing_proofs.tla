------------------------- MODULE ChannelRing_proofs -------------------------
(***************************************************************************)
(* For every set of messages, every set of capacities and every bound, the *)
(* two ring buffers of std/task implement the FIFO queue of ChannelFifo.   *)
(***************************************************************************)
EXTENDS ChannelRing, Sequences, TLAPS

USE CapsAreNaturals, MaxLenIsNatural

----------------------------------------------------------------------------
(* Arithmetic of the physical index. *)

\* A physical index is inside the buffer.
LEMMA IndexInRange ==
  ASSUME NEW h \in Nat, NEW j \in Nat, NEW p \in Nat \ {0}
  PROVE  Index(h, j, p) \in 0..(p - 1)
BY DEF Index

\* head + j wraps around at most once.
LEMMA IndexWrap ==
  ASSUME NEW p \in Nat \ {0}, NEW h \in 0..(p - 1), NEW j \in 0..p
  PROVE  Index(h, j, p) = IF h + j < p THEN h + j ELSE h + j - p
BY DEF Index

----------------------------------------------------------------------------
(* What the ring operations do to the live messages. *)

\* A fresh ring is empty and well-formed.
LEMMA NewRing ==
  ASSUME NEW c \in Caps
  PROVE  /\ Ring(ring_new(c)) /\ ring_new(c).count = 0 /\ ring_new(c).cap = c
         /\ ring_new(c).phys = 1
         /\ Ring(typed_i64_ring_new(c)) /\ typed_i64_ring_new(c).count = 0
         /\ typed_i64_ring_new(c).cap = c
BY DEF Ring, ring_new, typed_i64_ring_new, Filled

\* r2 holds r's messages followed by m.
Extends(r2, r, m) == /\ Ring(r2)
                     /\ r2.count = r.count + 1
                     /\ r2.cap = r.cap
                     /\ \A j \in 0..(r.count - 1) : Live(r2, j) = Live(r, j)
                     /\ Live(r2, r.count) = m

\* Writing the tail slot of a ring with a free slot appends.
LEMMA TailWriteExtends ==
  ASSUME NEW r, Ring(r), NEW m \in Msg \cup {Sentinel}, r.count < r.phys
  PROVE  Extends([buf |-> [r.buf EXCEPT ![Index(r.head, r.count, r.phys)] = m],
                  phys |-> r.phys, head |-> r.head, count |-> r.count + 1,
                  cap |-> r.cap], r, m)
<1> DEFINE w == Index(r.head, r.count, r.phys)
           r2 == [buf |-> [r.buf EXCEPT ![w] = m],
                  phys |-> r.phys, head |-> r.head, count |-> r.count + 1,
                  cap |-> r.cap]
<1>1. w \in 0..(r.phys - 1)
  <2>1. r.head \in Nat /\ r.count \in Nat /\ r.phys \in Nat \ {0}
    BY DEF Ring
  <2>2. QED
    BY <2>1, IndexInRange, Zenon
<1>2. Ring(r2)
  BY <1>1 DEF Ring
<1>3. ASSUME NEW j \in 0..(r.count - 1)
      PROVE  Live(r2, j) = Live(r, j)
  <2>0. /\ r.phys \in Nat \ {0} /\ r.head \in 0..(r.phys - 1) /\ r.head \in Nat
        /\ j \in Nat /\ j \in 0..r.phys /\ r.count \in 0..r.phys
    BY DEF Ring
  <2>1. Index(r.head, j, r.phys) \in 0..(r.phys - 1)
    BY <2>0, IndexInRange, Zenon
  <2>a. Index(r.head, j, r.phys) = IF r.head + j < r.phys
                                   THEN r.head + j ELSE r.head + j - r.phys
    BY <2>0, IndexWrap, Zenon
  <2>b. w = IF r.head + r.count < r.phys
            THEN r.head + r.count ELSE r.head + r.count - r.phys
    BY <2>0, IndexWrap, Zenon
  <2>2. Index(r.head, j, r.phys) # w
    BY <2>0, <2>a, <2>b
  <2>3. QED
    BY <1>1, <2>1, <2>2 DEF Live, Ring
<1>4. Live(r2, r.count) = m
  BY <1>1 DEF Live, Ring
<1>5. QED
  BY <1>2, <1>3, <1>4 DEF Extends

\* ring_put appends, growing a full buffer.
LEMMA PutExtends ==
  ASSUME NEW r, Ring(r), NEW m \in Msg \cup {Sentinel}
  PROVE  Extends(ring_put(r, m), r, m)
<1>1. CASE r.count < r.phys
  BY <1>1, TailWriteExtends DEF ring_put
<1>2. CASE ~(r.count < r.phys)
  <2> DEFINE r2 == ring_grow(r, m)
  <2>1. r.count = r.phys
    BY <1>2 DEF Ring
  <2>2. ASSUME NEW j \in 0..(r.count - 1)
        PROVE  Index(r.head, j, r.phys) \in 0..(r.phys - 1)
    <3>1. j \in Nat /\ r.head \in Nat /\ r.phys \in Nat \ {0}
      BY DEF Ring
    <3>2. QED
      BY <3>1, IndexInRange, Zenon
  <2>3. r2.buf \in [0..(2 * r.phys - 1) -> Msg \cup {Sentinel}]
    BY <2>2 DEF ring_grow, Ring
  <2>4. Ring(r2)
    BY <2>1, <2>3 DEF ring_grow, Ring
  <2>5. ASSUME NEW j \in 0..(2 * r.phys - 1)
        PROVE  Index(0, j, 2 * r.phys) = j
    <3> DEFINE q == 2 * r.phys
    <3>1. q \in Nat \ {0} /\ 0 \in 0..(q - 1) /\ j \in 0..q /\ 0 + j < q /\ 0 + j = j
      BY DEF Ring
    <3> HIDE DEF q
    <3>2. Index(0, j, q) = j
      BY <3>1, IndexWrap, Zenon
    <3>3. QED
      BY <3>2 DEF q
  <2>6. \A j \in 0..r.count : Live(r2, j) = r2.buf[j]
    BY <2>1, <2>5 DEF ring_grow, Live, Ring
  <2>7. \A j \in 0..(r.count - 1) : r2.buf[j] = Live(r, j)
    BY <2>1 DEF ring_grow, Live, Ring
  <2>8. r2.buf[r.count] = m
    BY <2>1 DEF ring_grow, Ring
  <2>9. ring_put(r, m) = r2 /\ r2.count = r.count + 1 /\ r2.cap = r.cap
    BY <1>2 DEF ring_put, ring_grow
  <2>10. r.count \in Nat
    BY DEF Ring
  <2> HIDE DEF r2
  <2>11. QED
    BY <2>4, <2>6, <2>7, <2>8, <2>9, <2>10 DEF Extends
<1>3. QED
  BY <1>1, <1>2

\* typed_i64_ring_put appends too.
LEMMA TypedPutExtends ==
  ASSUME NEW r, Ring(r), NEW m \in Msg \cup {Sentinel}
  PROVE  Extends(typed_i64_ring_put(r, m), r, m)
<1>1. CASE r.count < r.phys
  BY <1>1, TailWriteExtends DEF typed_i64_ring_put
<1>2. CASE ~(r.count < r.phys)
  <2> DEFINE r2 == typed_i64_ring_grow(r, m)
  <2>1. r.count = r.phys
    BY <1>2 DEF Ring
  <2>2. ASSUME NEW j \in 0..(r.count - 1)
        PROVE  Index(r.head, j, r.phys) \in 0..(r.phys - 1)
    <3>1. j \in Nat /\ r.head \in Nat /\ r.phys \in Nat \ {0}
      BY DEF Ring
    <3>2. QED
      BY <3>1, IndexInRange, Zenon
  <2>3. r2.buf \in [0..(2 * r.phys - 1) -> Msg \cup {Sentinel}]
    <3>1. \A j \in 0..(r.count - 1) :
             r.buf[Index(r.head, j, r.phys)] \in Msg \cup {Sentinel}
      BY <2>2 DEF Ring
    <3>2. \A j \in 0..(2 * r.phys - 1) : j < r.count => j \in 0..(r.count - 1)
      BY <2>1 DEF Ring
    <3>3. QED
      BY <3>1, <3>2 DEF typed_i64_ring_grow
  <2>4. Ring(r2)
    BY <2>1, <2>3 DEF typed_i64_ring_grow, Ring
  <2>5. ASSUME NEW j \in 0..(2 * r.phys - 1)
        PROVE  Index(0, j, 2 * r.phys) = j
    <3> DEFINE q == 2 * r.phys
    <3>1. q \in Nat \ {0} /\ 0 \in 0..(q - 1) /\ j \in 0..q /\ 0 + j < q /\ 0 + j = j
      BY DEF Ring
    <3> HIDE DEF q
    <3>2. Index(0, j, q) = j
      BY <3>1, IndexWrap, Zenon
    <3>3. QED
      BY <3>2 DEF q
  <2>6. \A j \in 0..r.count : Live(r2, j) = r2.buf[j]
    BY <2>1, <2>5 DEF typed_i64_ring_grow, Live, Ring
  <2>7. \A j \in 0..(r.count - 1) : r2.buf[j] = Live(r, j)
    BY <2>1 DEF typed_i64_ring_grow, Live, Ring
  <2>8. r2.buf[r.count] = m
    BY <2>1 DEF typed_i64_ring_grow, Ring
  <2>9. typed_i64_ring_put(r, m) = r2 /\ r2.count = r.count + 1 /\ r2.cap = r.cap
    BY <1>2 DEF typed_i64_ring_put, typed_i64_ring_grow
  <2>10. r.count \in Nat
    BY DEF Ring
  <2> HIDE DEF r2
  <2>11. QED
    BY <2>4, <2>6, <2>7, <2>8, <2>9, <2>10 DEF Extends
<1>3. QED
  BY <1>1, <1>2

\* ring_take drops the oldest message and keeps the others in order.
LEMMA TakeDropsHead ==
  ASSUME NEW r, Ring(r), r.count > 0
  PROVE  /\ Ring(ring_take(r))
         /\ ring_take(r).count = r.count - 1
         /\ ring_take(r).cap = r.cap
         /\ \A j \in 0..(r.count - 2) : Live(ring_take(r), j) = Live(r, j + 1)
         /\ Live(r, 0) = r.buf[r.head]
<1> DEFINE h == Index(r.head, 1, r.phys)
<1>0. /\ r.phys \in Nat \ {0} /\ r.head \in 0..(r.phys - 1) /\ r.head \in Nat
      /\ 1 \in Nat /\ 1 \in 0..r.phys /\ 0 \in 0..r.phys
  BY DEF Ring
<1>1. h \in 0..(r.phys - 1)
  BY <1>0, IndexInRange, Zenon
<1>2. ASSUME NEW j \in 0..(r.count - 2)
      PROVE  Index(h, j, r.phys) = Index(r.head, j + 1, r.phys)
  <2>0. j \in 0..r.phys /\ j + 1 \in 0..r.phys
    BY DEF Ring
  <2>1. h = IF r.head + 1 < r.phys THEN r.head + 1 ELSE r.head + 1 - r.phys
    BY <1>0, IndexWrap, Zenon
  <2> HIDE DEF h
  <2>2. Index(h, j, r.phys) = IF h + j < r.phys THEN h + j ELSE h + j - r.phys
    BY <1>0, <1>1, <2>0, IndexWrap, Zenon
  <2>3. Index(r.head, j + 1, r.phys) = IF r.head + (j + 1) < r.phys
                                       THEN r.head + (j + 1)
                                       ELSE r.head + (j + 1) - r.phys
    BY <1>0, <2>0, IndexWrap, Zenon
  <2>4. QED
    BY <2>0, <2>1, <2>2, <2>3, <1>0, <1>1
<1>3. Index(r.head, 0, r.phys) = r.head
  <2>1. Index(r.head, 0, r.phys) = IF r.head + 0 < r.phys
                                   THEN r.head + 0 ELSE r.head + 0 - r.phys
    BY <1>0, IndexWrap, Zenon
  <2>2. QED
    BY <1>0, <2>1
<1>4. \A j \in 0..(r.count - 2) : Live(ring_take(r), j) = Live(r, j + 1)
  BY <1>2 DEF ring_take, Live
<1>5. Ring(ring_take(r))
  BY <1>1 DEF ring_take, Ring
<1>6. QED
  BY <1>3, <1>4, <1>5 DEF ring_take, Live

----------------------------------------------------------------------------
(* The same facts about the sequence of live messages. *)

\* The live messages form a sequence of length count.
LEMMA ContentsIsSeq ==
  ASSUME NEW r, Ring(r), NEW S, \A j \in 0..(r.count - 1) : Live(r, j) \in S
  PROVE  /\ Contents(r) \in Seq(S)
         /\ Len(Contents(r)) = r.count
         /\ \A i \in 1..r.count : Contents(r)[i] = Live(r, i - 1)
<1>1. r.count \in Nat
  BY DEF Ring
<1>2. \A i \in 1..r.count : Live(r, i - 1) \in S
  BY <1>1
<1>3. Contents(r) \in [1..r.count -> S]
  BY <1>2 DEF Contents
<1>4. Contents(r) \in Seq(S)
  BY <1>1, <1>3
<1>5. Len(Contents(r)) = r.count
  BY <1>1, <1>3
<1>6. QED
  BY <1>4, <1>5 DEF Contents

\* Every live slot of a well-formed ring holds something.
LEMMA LiveInBuffer ==
  ASSUME NEW r, Ring(r), NEW j \in 0..(r.count - 1)
  PROVE  Live(r, j) \in Msg \cup {Sentinel}
<1>1. j \in Nat /\ r.head \in Nat /\ r.phys \in Nat \ {0}
  BY DEF Ring
<1>2. Index(r.head, j, r.phys) \in 0..(r.phys - 1)
  BY <1>1, IndexInRange, Zenon
<1>3. QED
  BY <1>2 DEF Live, Ring

\* A put appends to the sequence of live messages.
LEMMA ContentsAppend ==
  ASSUME NEW r, Ring(r), NEW r2, NEW m \in Msg \cup {Sentinel}, Extends(r2, r, m)
  PROVE  Contents(r2) = Append(Contents(r), m)
<1> DEFINE S == Msg \cup {Sentinel}
<1>1. /\ Contents(r) \in Seq(S) /\ Len(Contents(r)) = r.count
      /\ \A i \in 1..r.count : Contents(r)[i] = Live(r, i - 1)
  BY ContentsIsSeq, LiveInBuffer
<1>2. /\ Contents(r2) \in Seq(S) /\ Len(Contents(r2)) = r.count + 1
      /\ \A i \in 1..(r.count + 1) : Contents(r2)[i] = Live(r2, i - 1)
  <2>1. Ring(r2) /\ r2.count = r.count + 1
    BY DEF Extends
  <2>2. QED
    BY <2>1, ContentsIsSeq, LiveInBuffer
<1>3. r.count \in Nat
  BY DEF Ring
<1>4. \A i \in 1..r.count : Contents(r2)[i] = Contents(r)[i]
  BY <1>1, <1>2, <1>3 DEF Extends
<1>5. Contents(r2)[r.count + 1] = m
  BY <1>2, <1>3 DEF Extends
<1> HIDE DEF S
<1>6. QED
  <2> DEFINE a == Contents(r)
             b == Contents(r2)
  <2>1. m \in S
    BY DEF S
  <2>2. /\ a \in Seq(S) /\ b \in Seq(S) /\ Len(b) = Len(a) + 1
        /\ \A i \in 1..Len(a) : b[i] = a[i]
        /\ b[Len(a) + 1] = m
    BY <1>1, <1>2, <1>4, <1>5
  <2> HIDE DEF a, b
  <2>3. b = Append(a, m)
    BY <2>1, <2>2
  <2>4. QED
    BY <2>3 DEF a, b

\* A take removes the head of the sequence of live messages.
LEMMA ContentsTail ==
  ASSUME NEW r, Ring(r), r.count > 0
  PROVE  /\ Contents(r) # <<>>
         /\ Head(Contents(r)) = r.buf[r.head]
         /\ Contents(ring_take(r)) = Tail(Contents(r))
<1> DEFINE S == Msg \cup {Sentinel}
           a == Contents(r)
           b == Contents(ring_take(r))
<1>1. /\ a \in Seq(S) /\ Len(a) = r.count
      /\ \A i \in 1..r.count : a[i] = Live(r, i - 1)
  BY ContentsIsSeq, LiveInBuffer
<1>2. /\ b \in Seq(S) /\ Len(b) = r.count - 1
      /\ \A i \in 1..(r.count - 1) : b[i] = Live(ring_take(r), i - 1)
  <2>1. Ring(ring_take(r)) /\ ring_take(r).count = r.count - 1
    BY TakeDropsHead
  <2>2. QED
    BY <2>1, ContentsIsSeq, LiveInBuffer
<1>3. r.count \in Nat \ {0}
  BY DEF Ring
<1>4. \A i \in 1..(r.count - 1) : b[i] = a[i + 1]
  <2> TAKE i \in 1..(r.count - 1)
  <2>1. i - 1 \in 0..(r.count - 2) /\ i + 1 \in 1..r.count /\ (i - 1) + 1 = (i + 1) - 1
    BY <1>3
  <2>2. Live(ring_take(r), i - 1) = Live(r, (i - 1) + 1)
    BY <2>1, TakeDropsHead
  <2>3. QED
    BY <1>1, <1>2, <2>1, <2>2
<1>5. a[1] = r.buf[r.head]
  BY <1>1, <1>3, TakeDropsHead
<1>6. /\ Len(b) = Len(a) - 1 /\ Len(a) \in Nat \ {0}
      /\ \A i \in 1..(Len(a) - 1) : b[i] = a[i + 1]
  BY <1>1, <1>2, <1>3, <1>4
<1> HIDE DEF a, b, S
<1>7. a # <<>> /\ Head(a) = a[1] /\ b = Tail(a)
  BY <1>1, <1>2, <1>6
<1>8. QED
  BY <1>5, <1>7 DEF a, b

----------------------------------------------------------------------------
(* The inductive invariant. *)

\* TypeOK alone is not inductive: the copying loop writes slot k of a ring of
\* ring.phys slots, which is in range only because k <= ring.phys.
IInv == TypeOK /\ LiveSlotsAreWritten /\ CopyInvariant

\* The inductive invariant holds initially.
LEMMA InitIInv == Init => IInv
<1> SUFFICES ASSUME Init PROVE IInv
  OBVIOUS
<1>1. PICK c \in Caps : ring = ring_new(c) /\ typed = typed_i64_ring_new(c)
  BY DEF Init
<1>2. Ring(ring) /\ Ring(typed) /\ ring.count = 0 /\ typed.count = 0
  BY <1>1, NewRing
<1>3. Current.count = 0
  BY <1>2 DEF Current
<1>4. QED
  BY <1>2, <1>3 DEF IInv, TypeOK, LiveSlotsAreWritten, CopyInvariant, Init

\* A put of a message keeps all live slots written.
LEMMA ExtendsWritten ==
  ASSUME NEW r, Ring(r), NEW r2, NEW m \in Msg, Extends(r2, r, m),
         \A j \in 0..(r.count - 1) : Live(r, j) \in Msg
  PROVE  \A j \in 0..(r2.count - 1) : Live(r2, j) \in Msg
BY DEF Extends, Ring

\* A take keeps all live slots written.
LEMMA TakeWritten ==
  ASSUME NEW r, Ring(r), r.count > 0,
         \A j \in 0..(r.count - 1) : Live(r, j) \in Msg
  PROVE  \A j \in 0..(ring_take(r).count - 1) : Live(ring_take(r), j) \in Msg
<1>1. r.count \in Nat
  BY DEF Ring
<1>2. ring_take(r).count = r.count - 1
  BY TakeDropsHead
<1>3. SUFFICES ASSUME NEW j \in 0..(r.count - 2)
               PROVE  Live(ring_take(r), j) \in Msg
  BY <1>1, <1>2
<1>4. Live(ring_take(r), j) = Live(r, j + 1) /\ j + 1 \in 0..(r.count - 1)
  BY <1>1, TakeDropsHead
<1>5. QED
  BY <1>4

\* Every step keeps the inductive invariant.
LEMMA NextIInv == IInv /\ [Next]_vars => IInv'
<1> SUFFICES ASSUME IInv, [Next]_vars PROVE IInv'
  OBVIOUS
<1> USE DEF IInv
<1>1. CASE Push \/ ClosePut
  <2>1. PICK m \in Msg : ring' = ring_put(ring, m)
    BY <1>1 DEF Push, ClosePut
  <2>2. Extends(ring', ring, m)
    BY <2>1, PutExtends DEF TypeOK
  <2>3. ~is_typed /\ pc = "ready" /\ UNCHANGED <<typed, is_typed, pc, k>>
    BY <1>1 DEF Push, ClosePut
  <2>4. Current = ring /\ Current' = ring'
    BY <2>3 DEF Current
  <2>5. LiveSlotsAreWritten'
    BY <2>2, <2>4, ExtendsWritten DEF TypeOK, LiveSlotsAreWritten
  <2>6. QED
    BY <2>2, <2>3, <2>5 DEF TypeOK, CopyInvariant, Extends
<1>2. CASE Pull
  <2>1. /\ ~is_typed /\ pc = "ready" /\ ring.count > 0 /\ ring' = ring_take(ring)
        /\ UNCHANGED <<typed, is_typed, pc, k>>
    BY <1>2 DEF Pull
  <2>2. Current = ring /\ Current' = ring'
    BY <2>1 DEF Current
  <2>3. LiveSlotsAreWritten'
    BY <2>1, <2>2, TakeWritten DEF TypeOK, LiveSlotsAreWritten
  <2>4. Ring(ring')
    BY <2>1, TakeDropsHead DEF TypeOK
  <2>5. QED
    BY <2>1, <2>3, <2>4 DEF TypeOK, CopyInvariant
<1>3. CASE PushI64
  <2>1. PICK m \in Msg : typed' = typed_i64_ring_put(typed, m)
    BY <1>3 DEF PushI64
  <2>2. Extends(typed', typed, m)
    BY <2>1, TypedPutExtends DEF TypeOK
  <2>3. is_typed /\ pc = "ready" /\ UNCHANGED <<ring, is_typed, pc, k>>
    BY <1>3 DEF PushI64
  <2>4. Current = typed /\ Current' = typed'
    BY <2>3 DEF Current
  <2>5. LiveSlotsAreWritten'
    BY <2>2, <2>4, ExtendsWritten DEF TypeOK, LiveSlotsAreWritten
  <2>6. QED
    BY <2>2, <2>3, <2>5 DEF TypeOK, CopyInvariant, Extends
<1>4. CASE PullI64
  <2>1. /\ is_typed /\ pc = "ready" /\ typed.count > 0 /\ typed' = ring_take(typed)
        /\ UNCHANGED <<ring, is_typed, pc, k>>
    BY <1>4 DEF PullI64
  <2>2. Current = typed /\ Current' = typed'
    BY <2>1 DEF Current
  <2>3. LiveSlotsAreWritten'
    BY <2>1, <2>2, TakeWritten DEF TypeOK, LiveSlotsAreWritten
  <2>4. Ring(typed')
    BY <2>1, TakeDropsHead DEF TypeOK
  <2>5. QED
    BY <2>1, <2>3, <2>4 DEF TypeOK, CopyInvariant
<1>5. CASE MaterializeStart
  <2>1. /\ is_typed /\ ring' = ring_new(typed.cap) /\ pc' = "copy" /\ k' = 0
        /\ UNCHANGED <<typed, is_typed>>
    BY <1>5 DEF MaterializeStart
  <2>2. typed.cap \in Caps /\ typed.count \in Nat
    BY DEF TypeOK, Ring
  <2>3. Ring(ring') /\ ring'.phys = 1
    BY <2>1, <2>2, NewRing
  <2>4. LiveSlotsAreWritten'
    BY <2>1 DEF LiveSlotsAreWritten, Current
  <2>5. QED
    BY <2>1, <2>2, <2>3, <2>4 DEF TypeOK, CopyInvariant
<1>6. CASE MaterializeCopy
  <2> DEFINE m == Live(typed, k)
             r == [buf |-> ring.buf, phys |-> ring.phys, head |-> 0,
                   count |-> k, cap |-> typed.cap]
  <2>1. /\ pc = "copy" /\ k < typed.count /\ ring' = ring_put(r, m) /\ k' = k + 1
        /\ UNCHANGED <<typed, is_typed, pc>>
    BY <1>6 DEF MaterializeCopy, Live
  <2>2. is_typed /\ k \in Nat /\ k <= ring.phys /\ Ring(typed) /\ Ring(ring)
    BY <2>1 DEF CopyInvariant, TypeOK
  <2>3. k \in 0..(typed.count - 1)
    BY <2>1, <2>2 DEF Ring
  <2>4. m \in Msg
    BY <2>2, <2>3 DEF LiveSlotsAreWritten, Current
  <2>5. Ring(r)
    BY <2>2 DEF Ring
  <2>6. Extends(ring', r, m)
    BY <2>1, <2>4, <2>5, PutExtends
  <2>7. LiveSlotsAreWritten'
    BY <2>1, <2>2 DEF LiveSlotsAreWritten, Current
  <2>8. TypeOK'
    BY <2>1, <2>2, <2>6 DEF TypeOK, Extends
  <2>9. ring'.head = 0
    BY <2>1 DEF ring_put, ring_grow
  <2>10. k' <= ring'.phys
    <3>1. ring'.count = k + 1 /\ Ring(ring')
      BY <2>6 DEF Extends
    <3>2. QED
      BY <2>1, <3>1 DEF Ring
  <2>11. ASSUME NEW j \in 0..k
         PROVE  ring'.buf[j] = Live(typed, j)
    <3>1. /\ j \in 0..ring'.phys /\ ring'.phys \in Nat \ {0}
          /\ 0 \in 0..(ring'.phys - 1) /\ 0 + j < ring'.phys /\ 0 + j = j
      <4>1. ring'.phys \in Nat \ {0}
        BY <2>6 DEF Extends, Ring
      <4>2. k' = k + 1 /\ k \in Nat
        BY <2>1, <2>2
      <4>3. QED
        BY <2>10, <4>1, <4>2
    <3>2. Index(0, j, ring'.phys) = j
      BY <3>1, IndexWrap, Zenon
    <3>3. Live(ring', j) = ring'.buf[j]
      BY <2>9, <3>2 DEF Live
    <3>4. CASE j = k
      BY <2>6, <3>3, <3>4 DEF Extends
    <3>5. CASE j \in 0..(k - 1)
      <4>1. Live(ring', j) = Live(r, j)
        BY <2>6, <3>5 DEF Extends
      <4>2. /\ j \in 0..ring.phys /\ ring.phys \in Nat \ {0}
            /\ 0 \in 0..(ring.phys - 1) /\ 0 + j < ring.phys /\ 0 + j = j
        BY <2>2, <3>5 DEF Ring
      <4>3. Index(0, j, ring.phys) = j
        BY <4>2, IndexWrap, Zenon
      <4>4. Live(r, j) = ring.buf[j]
        BY <4>3 DEF Live
      <4>5. ring.buf[j] = Live(typed, j)
        BY <2>1, <3>5 DEF CopyInvariant
      <4>6. QED
        BY <3>3, <4>1, <4>4, <4>5
    <3>6. QED
      BY <2>2, <3>4, <3>5
  <2>12. CopyInvariant'
    <3>1. typed' = typed /\ k' - 1 = k /\ k' <= typed'.count
      <4>1. typed' = typed /\ k' = k + 1 /\ k \in Nat /\ k < typed.count
        BY <2>1, <2>2
      <4>2. typed.count \in Nat
        BY <2>2 DEF Ring
      <4>3. QED
        BY <4>1, <4>2
    <3>2. \A j \in 0..(k' - 1) : ring'.buf[j] = Live(typed', j)
      BY <2>11, <3>1
    <3>3. is_typed'
      BY <2>1, <2>2
    <3>4. QED
      BY <2>10, <3>1, <3>2, <3>3 DEF CopyInvariant
  <2>13. QED
    BY <2>7, <2>8, <2>12
<1>7. CASE MaterializeEnd
  <2>1. /\ pc = "copy" /\ k = typed.count /\ is_typed' = FALSE /\ pc' = "ready" /\ k' = 0
        /\ ring' = [buf |-> ring.buf, phys |-> ring.phys, head |-> 0,
                    count |-> typed.count, cap |-> typed.cap]
        /\ typed' = typed_i64_ring_new(typed.cap)
    BY <1>7 DEF MaterializeEnd
  <2>2. is_typed /\ k <= ring.phys /\ Ring(typed) /\ Ring(ring)
    BY <2>1 DEF CopyInvariant, TypeOK
  <2>3. Ring(ring')
    BY <2>1, <2>2 DEF Ring
  <2>4. Ring(typed')
    BY <2>1, <2>2, NewRing DEF Ring
  <2>5. ASSUME NEW j \in 0..(typed.count - 1)
        PROVE  Live(ring', j) = Live(typed, j)
    <3>1. /\ j \in 0..ring.phys /\ ring.phys \in Nat \ {0}
          /\ 0 \in 0..(ring.phys - 1) /\ 0 + j < ring.phys /\ 0 + j = j
      BY <2>1, <2>2 DEF Ring
    <3>2. Index(0, j, ring.phys) = j
      BY <3>1, IndexWrap, Zenon
    <3>3. Live(ring', j) = ring.buf[j]
      BY <2>1, <3>2 DEF Live
    <3>4. QED
      BY <2>1, <3>3 DEF CopyInvariant
  <2>6. LiveSlotsAreWritten'
    <3>1. Current = typed /\ Current' = ring' /\ ring'.count = typed.count
      BY <2>1, <2>2 DEF Current
    <3>2. QED
      BY <2>5, <3>1 DEF LiveSlotsAreWritten
  <2>7. QED
    BY <2>1, <2>3, <2>4, <2>6 DEF TypeOK, CopyInvariant
<1>8. CASE UNCHANGED vars
  BY <1>8 DEF vars, TypeOK, LiveSlotsAreWritten, CopyInvariant, Current
<1>9. QED
  BY <1>1, <1>2, <1>3, <1>4, <1>5, <1>6, <1>7, <1>8 DEF Next

\* Both rings stay well-formed: head inside the buffer, never more messages
\* than physical slots, for every capacity and message set.
THEOREM TypeCorrect == Spec => []TypeOK
<1>1. IInv => TypeOK
  BY DEF IInv
<1>2. QED
  BY InitIInv, NextIInv, <1>1, PTL DEF Spec

\* No receive ever reads a pre-filled or stale slot.
THEOREM OnlyWrittenSlotsAreLive == Spec => []LiveSlotsAreWritten
<1>1. IInv => LiveSlotsAreWritten
  BY DEF IInv
<1>2. QED
  BY InitIInv, NextIInv, <1>1, PTL DEF Spec

\* typed_i64_materialize has copied exactly the k oldest messages, in order,
\* whatever the head of the typed ring and however often the erased one grew.
THEOREM CopyIsFaithful == Spec => []CopyInvariant
<1>1. IInv => CopyInvariant
  BY DEF IInv
<1>2. QED
  BY InitIInv, NextIInv, <1>1, PTL DEF Spec

----------------------------------------------------------------------------
(* The refinement. *)

\* An empty channel maps to an empty queue.
LEMMA FifoInitially == Init => Fifo!FifoInit
<1> SUFFICES ASSUME Init PROVE Fifo!FifoInit
  OBVIOUS
<1>1. PICK c \in Caps : ring = ring_new(c) /\ typed = typed_i64_ring_new(c)
  BY DEF Init
<1>2. Current.count = 0 /\ Current.cap = c
  BY <1>1, NewRing DEF Current
<1>3. Contents(Current) = <<>>
  BY <1>2 DEF Contents
<1>4. QED
  BY <1>2, <1>3 DEF Fifo!FifoInit, Init

\* A put on the ring in use is Accept while there is room, else Overflow.
LEMMA PutIsFifoStep ==
  ASSUME IInv, NEW m \in Msg, Extends(Current', Current, m), out' = out,
         Current.count < MaxLen
  PROVE  Fifo!FifoNext
<1>1. Ring(Current)
  BY DEF IInv, TypeOK, Current
<1>2. Contents(Current') = Append(Contents(Current), m)
  BY <1>1, ContentsAppend
<1>3. Len(Contents(Current)) = Current.count
  BY <1>1, ContentsIsSeq, LiveInBuffer
<1>4. Current'.cap = Current.cap
  BY DEF Extends
<1>5. Current.cap \in Nat /\ Current.count \in Nat
  <2>1. Current.cap \in Caps /\ Current.count \in 0..Current.phys
    BY <1>1 DEF Ring
  <2>2. Current.cap \in Nat
    BY <2>1, CapsAreNaturals, Zenon
  <2>3. QED
    BY <2>1, <2>2
<1>6. CASE HasRoom(Current)
  BY <1>2, <1>3, <1>4, <1>6 DEF HasRoom, Fifo!FifoNext, Fifo!Accept
<1>7. CASE ~HasRoom(Current)
  BY <1>2, <1>3, <1>4, <1>5, <1>7 DEF HasRoom, Fifo!FifoNext, Fifo!Overflow
<1>8. QED
  BY <1>6, <1>7

\* A take on the ring in use is Deliver.
LEMMA TakeIsFifoStep ==
  ASSUME IInv, Current.count > 0, Current' = ring_take(Current),
         out' = <<Current.buf[Current.head]>>
  PROVE  Fifo!FifoNext
<1>1. Ring(Current)
  BY DEF IInv, TypeOK, Current
<1>2. /\ Contents(Current) # <<>>
      /\ Head(Contents(Current)) = Current.buf[Current.head]
      /\ Contents(Current') = Tail(Contents(Current))
  BY <1>1, ContentsTail
<1>3. Current'.cap = Current.cap
  BY <1>1, TakeDropsHead
<1>4. QED
  BY <1>2, <1>3 DEF Fifo!FifoNext, Fifo!Deliver

\* Every step of the ring maps to a step of the queue or to a stutter.
LEMMA StepIsFifoStep == IInv /\ [Next]_vars => [Fifo!FifoNext]_(Fifo!fifoVars)
<1> SUFFICES ASSUME IInv, [Next]_vars
             PROVE  Fifo!FifoNext \/ UNCHANGED Fifo!fifoVars
  OBVIOUS
<1>1. CASE Push \/ ClosePut
  <2>1. PICK m \in Msg : ring' = ring_put(ring, m)
    BY <1>1 DEF Push, ClosePut
  <2>2. Current = ring /\ Current' = ring' /\ out' = out /\ Current.count < MaxLen
    BY <1>1 DEF Push, ClosePut, Current
  <2>3. Extends(Current', Current, m)
    BY <2>1, <2>2, PutExtends DEF IInv, TypeOK
  <2>4. QED
    BY <2>2, <2>3, PutIsFifoStep
<1>2. CASE PushI64
  <2>1. PICK m \in Msg : typed' = typed_i64_ring_put(typed, m)
    BY <1>2 DEF PushI64
  <2>2. Current = typed /\ Current' = typed' /\ out' = out /\ Current.count < MaxLen
    BY <1>2 DEF PushI64, Current
  <2>3. Extends(Current', Current, m)
    BY <2>1, <2>2, TypedPutExtends DEF IInv, TypeOK
  <2>4. QED
    BY <2>2, <2>3, PutIsFifoStep
<1>3. CASE Pull
  <2>1. Current = ring /\ Current' = ring'
    BY <1>3 DEF Pull, Current
  <2>2. QED
    BY <1>3, <2>1, TakeIsFifoStep DEF Pull
<1>4. CASE PullI64
  <2>1. Current = typed /\ Current' = typed'
    BY <1>4 DEF PullI64, Current
  <2>2. QED
    BY <1>4, <2>1, TakeIsFifoStep DEF PullI64
<1>5. CASE MaterializeStart \/ MaterializeCopy
  <2>1. is_typed /\ typed' = typed /\ is_typed' = is_typed /\ out' = out
    BY <1>5 DEF MaterializeStart, MaterializeCopy, IInv, CopyInvariant
  <2>2. Current' = Current
    BY <2>1 DEF Current
  <2>3. QED
    BY <2>1, <2>2 DEF Fifo!fifoVars, Contents
<1>6. CASE MaterializeEnd
  <2>1. /\ k = typed.count /\ out' = out /\ is_typed /\ ~is_typed' /\ pc = "copy"
        /\ ring' = [buf |-> ring.buf, phys |-> ring.phys, head |-> 0,
                    count |-> typed.count, cap |-> typed.cap]
    BY <1>6 DEF MaterializeEnd, IInv, CopyInvariant
  <2>2. Current = typed /\ Current' = ring'
    BY <2>1 DEF Current
  <2>3. k <= ring.phys /\ Ring(typed) /\ Ring(ring)
    BY <2>1 DEF CopyInvariant, IInv, TypeOK
  <2>4. ASSUME NEW i \in 1..typed.count
        PROVE  Live(ring', i - 1) = Live(typed, i - 1)
    <3> DEFINE j == i - 1
    <3>1. /\ j \in 0..ring.phys /\ ring.phys \in Nat \ {0} /\ j \in 0..(k - 1)
          /\ 0 \in 0..(ring.phys - 1) /\ 0 + j < ring.phys /\ 0 + j = j
      BY <2>1, <2>3 DEF Ring
    <3> HIDE DEF j
    <3>2. Index(0, j, ring.phys) = j
      BY <3>1, IndexWrap, Zenon
    <3>3. Live(ring', j) = ring.buf[j]
      BY <2>1, <3>2 DEF Live
    <3>4. Live(ring', j) = Live(typed, j)
      BY <2>1, <3>1, <3>3 DEF CopyInvariant, IInv
    <3>5. QED
      BY <3>4 DEF j
  <2>5. ring'.count = typed.count /\ ring'.cap = typed.cap
    BY <2>1
  <2>6. Contents(ring') = Contents(typed)
    BY <2>4, <2>5 DEF Contents
  <2>7. QED
    BY <2>1, <2>2, <2>5, <2>6 DEF Fifo!fifoVars
<1>7. CASE UNCHANGED vars
  BY <1>7 DEF vars, Fifo!fifoVars, Current, Contents
<1>8. QED
  BY <1>1, <1>2, <1>3, <1>4, <1>5, <1>6, <1>7 DEF Next

\* The two rings together implement one FIFO queue: every send appends, every
\* receive delivers the oldest message, and switching from the typed to the
\* erased ring loses, duplicates and reorders nothing.
THEOREM RingImplementsFifo == Spec => FifoSpec
<1>1. Spec => []IInv
  BY InitIInv, NextIInv, PTL DEF Spec
<1>2. QED
  BY <1>1, FifoInitially, StepIsFifoStep, PTL DEF Spec, FifoSpec, Fifo!FifoSpec

=============================================================================
