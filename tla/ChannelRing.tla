---------------------------- MODULE ChannelRing ----------------------------
(***************************************************************************)
(* One channel of std/task as the executor stores it: the erased ring of   *)
(* `channels` and, for a channel opened with OpenI64, the parallel         *)
(* compiler-owned Int ring of `typed_i64_channels`, until the first        *)
(* blocking or ordinary operation copies ("materializes") the typed ring   *)
(* into the erased one for good.                                           *)
(*                                                                         *)
(* A ring is the source's tuple (buf, head, count, cap).  A list is a      *)
(* function on 0..phys-1, with phys = list.length(buf).  The copying loop  *)
(* of typed_i64_materialize is a sequence of steps here (pc = "copy").     *)
(***************************************************************************)
EXTENDS Naturals

CONSTANTS Msg,       \* the messages
          Caps,      \* logical capacities
          MaxLen,    \* bound: messages queued at once
          Sentinel   \* __erase(0), the filler of a fresh ring

ASSUME CapsAreNaturals == Caps \subseteq Nat
ASSUME MaxLenIsNatural == MaxLen \in Nat

VARIABLES ring,      \* channels[ch]
          typed,     \* the payload of typed_i64_channels[ch]
          is_typed,  \* typed_i64_channels[ch] is Some
          pc,        \* "ready", or "copy" inside typed_i64_materialize
          k,         \* the copying loop's index
          out        \* the message the latest receive delivered

vars == <<ring, typed, is_typed, pc, k, out>>

----------------------------------------------------------------------------
(* The ring operations, as pure functions on rings. *)

\* The physical index of the j-th slot after head h in a buffer of p slots.
Index(h, j, p) == (h + j) % p

Filled(x, n) == [j \in 0..(n - 1) |-> x]

\* list.repeat(__erase(0), 1): one physical slot whatever the capacity.
ring_new(c) == [buf |-> Filled(Sentinel, 1), phys |-> 1,
                head |-> 0, count |-> 0, cap |-> c]

\* The typed ring starts with all its slots.
typed_i64_ring_new(c) ==
  LET p == IF c > 0 THEN c ELSE 1
  IN  [buf |-> Filled(Sentinel, p), phys |-> p,
       head |-> 0, count |-> 0, cap |-> c]

\* Mutant: the buffer is copied as it lies, not from head.
ring_grow_AsItLies(r, m) ==
  [buf |-> [j \in 0..(2 * r.phys - 1) |-> IF j < r.count THEN r.buf[j] ELSE m],
   phys |-> 2 * r.phys, head |-> 0, count |-> r.count + 1, cap |-> r.cap]

\* Relayout to the front of a doubled buffer, then append.
ring_grow(r, m) ==
  [buf |-> [j \in 0..(2 * r.phys - 1) |->
              IF j < r.count THEN r.buf[Index(r.head, j, r.phys)] ELSE m],
   phys |-> 2 * r.phys, head |-> 0, count |-> r.count + 1, cap |-> r.cap]

ring_put(r, m) ==
  IF r.count < r.phys
  THEN [buf |-> [r.buf EXCEPT ![Index(r.head, r.count, r.phys)] = m],
        phys |-> r.phys, head |-> r.head, count |-> r.count + 1, cap |-> r.cap]
  ELSE ring_grow(r, m)

\* Mutant: head does not wrap.
ring_take_NoWrap(r) == [buf |-> r.buf, phys |-> r.phys, head |-> r.head + 1,
                        count |-> r.count - 1, cap |-> r.cap]

\* A receive only advances head.
ring_take(r) == [buf |-> r.buf, phys |-> r.phys, head |-> Index(r.head, 1, r.phys),
                 count |-> r.count - 1, cap |-> r.cap]

\* Mutant: the message is written one slot too far.
typed_i64_ring_grow_OneMore(r, m) ==
  [buf |-> [j \in 0..(2 * r.phys - 1) |->
              IF j < r.count THEN r.buf[Index(r.head, j, r.phys)]
              ELSE IF j = r.count + 1 THEN m ELSE Sentinel],
   phys |-> 2 * r.phys, head |-> 0, count |-> r.count + 1, cap |-> r.cap]

\* typed_i64_ring_grow fills the fresh tail with 0, not with the message.
typed_i64_ring_grow(r, m) ==
  [buf |-> [j \in 0..(2 * r.phys - 1) |->
              IF j < r.count THEN r.buf[Index(r.head, j, r.phys)]
              ELSE IF j = r.count THEN m ELSE Sentinel],
   phys |-> 2 * r.phys, head |-> 0, count |-> r.count + 1, cap |-> r.cap]

typed_i64_ring_put(r, m) ==
  IF r.count < r.phys
  THEN [buf |-> [r.buf EXCEPT ![Index(r.head, r.count, r.phys)] = m],
        phys |-> r.phys, head |-> r.head, count |-> r.count + 1, cap |-> r.cap]
  ELSE typed_i64_ring_grow(r, m)

HasRoom(r) == r.cap = 0 \/ r.count < r.cap

\* The ring that holds the channel's messages now.
Current == IF is_typed THEN typed ELSE ring

----------------------------------------------------------------------------
(* Operations on the channel. *)

\* Open and OpenI64.
Init == /\ \E c \in Caps : ring = ring_new(c) /\ typed = typed_i64_ring_new(c)
        /\ is_typed \in BOOLEAN
        /\ pc = "ready" /\ k = 0
        /\ out = <<>>

\* Push, WaitSend and try_producer_send on the erased ring.
Push == /\ pc = "ready" /\ ~is_typed
        /\ HasRoom(ring) /\ ring.count < MaxLen
        /\ \E m \in Msg : ring' = ring_put(ring, m)
        /\ UNCHANGED <<typed, is_typed, pc, k, out>>

\* The close pass stores a blocked sender's message past the capacity.
ClosePut == /\ pc = "ready" /\ ~is_typed
            /\ ~HasRoom(ring) /\ ring.count < MaxLen
            /\ \E m \in Msg : ring' = ring_put(ring, m)
            /\ UNCHANGED <<typed, is_typed, pc, k, out>>

\* Pull, WaitRecv, first_message and WaitAny on the erased ring.
Pull == /\ pc = "ready" /\ ~is_typed
        /\ ring.count > 0
        /\ out' = <<ring.buf[ring.head]>>
        /\ ring' = ring_take(ring)
        /\ UNCHANGED <<typed, is_typed, pc, k>>

\* PushI64 while the typed ring is active.
PushI64 == /\ pc = "ready" /\ is_typed
           /\ HasRoom(typed) /\ typed.count < MaxLen
           /\ \E m \in Msg : typed' = typed_i64_ring_put(typed, m)
           /\ UNCHANGED <<ring, is_typed, pc, k, out>>

\* PullI64 while the typed ring is active.
PullI64 == /\ pc = "ready" /\ is_typed
           /\ typed.count > 0
           /\ out' = <<typed.buf[typed.head]>>
           /\ typed' = ring_take(typed)
           /\ UNCHANGED <<ring, is_typed, pc, k>>

\* typed_i64_materialize: start from a fresh erased ring ...
MaterializeStart == /\ pc = "ready" /\ is_typed
                    /\ ring' = ring_new(typed.cap)
                    /\ pc' = "copy" /\ k' = 0
                    /\ UNCHANGED <<typed, is_typed, out>>

\* Mutant: the copy starts at slot 0, not at head.
MaterializeCopy_FromZero ==
  /\ pc = "copy" /\ k < typed.count
  /\ ring' = ring_put([buf |-> ring.buf, phys |-> ring.phys, head |-> 0,
                       count |-> k, cap |-> typed.cap], typed.buf[k])
  /\ k' = k + 1
  /\ UNCHANGED <<typed, is_typed, pc, out>>

\* ... put one message after the other, always at head 0 with count k (the
\* head, count and cap that ring_put returns are not used) ...
MaterializeCopy ==
  /\ pc = "copy" /\ k < typed.count
  /\ LET m == typed.buf[Index(typed.head, k, typed.phys)]
     IN  ring' = ring_put([buf |-> ring.buf, phys |-> ring.phys, head |-> 0,
                           count |-> k, cap |-> typed.cap], m)
  /\ k' = k + 1
  /\ UNCHANGED <<typed, is_typed, pc, out>>

\* ... and retire the typed ring: the entry becomes None.
MaterializeEnd ==
  /\ pc = "copy" /\ k = typed.count
  /\ ring' = [buf |-> ring.buf, phys |-> ring.phys, head |-> 0,
              count |-> typed.count, cap |-> typed.cap]
  /\ typed' = typed_i64_ring_new(typed.cap)
  /\ is_typed' = FALSE
  /\ pc' = "ready" /\ k' = 0
  /\ UNCHANGED out

Next == \/ Push \/ ClosePut \/ Pull \/ PushI64 \/ PullI64
        \/ MaterializeStart \/ MaterializeCopy \/ MaterializeEnd

Spec == Init /\ [][Next]_vars

----------------------------------------------------------------------------
(* Properties. *)

\* A well-formed ring: head inside the buffer, never more messages than
\* physical slots.
Ring(r) == /\ r.phys \in Nat \ {0}
           /\ r.head \in 0..(r.phys - 1)
           /\ r.count \in 0..r.phys
           /\ r.cap \in Caps
           /\ r.buf \in [0..(r.phys - 1) -> Msg \cup {Sentinel}]

\* Type invariant: both rings are well-formed.
TypeOK == /\ Ring(ring) /\ Ring(typed)
          /\ is_typed \in BOOLEAN
          /\ pc \in {"ready", "copy"}
          /\ k \in Nat

\* The j-th live message of a ring: buf[(head + j) % physcap].
Live(r, j) == r.buf[Index(r.head, j, r.phys)]

\* The live messages, oldest first.
Contents(r) == [j \in 1..r.count |-> Live(r, j - 1)]

\* Only slots that a send wrote are ever read ("the pre-filled slots are ...
\* never delivered"): every live slot of the ring in use holds a message.
LiveSlotsAreWritten ==
  \A j \in 0..(Current.count - 1) : Live(Current, j) \in Msg

\* The copying loop has moved exactly the k oldest typed messages, in order,
\* to the front of the erased buffer.
CopyInvariant ==
  pc = "copy" => /\ is_typed
                 /\ k <= typed.count
                 /\ k <= ring.phys
                 /\ \A j \in 0..(k - 1) : ring.buf[j] = Live(typed, j)

\* The channel implements the FIFO queue: the materialization is invisible.
Fifo == INSTANCE ChannelFifo WITH queue <- Contents(Current), cap <- Current.cap

FifoSpec == Fifo!FifoSpec
=============================================================================
