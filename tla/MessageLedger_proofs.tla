------------------------ MODULE MessageLedger_proofs ------------------------
(***************************************************************************)
(* In every behaviour of the ledger, for any tasks and channels, each      *)
(* message is in exactly one place and a channel keeps the order of each   *)
(* sender's messages.                                                      *)
(***************************************************************************)
EXTENDS MessageLedger, TLAPS

Message == [from : Tasks, ch : Channels]

LedgerTypes == /\ contents \in [Channels -> Seq(Nat)]
               /\ sending \in [Tasks -> Nat]
               /\ receiving \in [Tasks -> Nat]
               /\ issued \in Seq(Message)
               /\ taken \in [Channels -> Seq(Nat)]
               /\ seen \subseteq Nat /\ dropped \subseteq Nat

Issued == 1..Len(issued)

\* Everything a channel ever carried, in order.
History(c) == taken[c] \o contents[c]

Queued(q) == {q[k] : k \in DOMAIN q}

\* The five places of message m.
AtSender(m) == sending[issued[m].from] = m
InChannel(m) == m \in Queued(contents[issued[m].ch])
AtReceiver(m) == \E t \in Tasks : receiving[t] = m
Handed(m) == m \in seen
Gone(m) == m \in dropped

\* Message m is in exactly one of them.
OnePlace(m) ==
  /\ AtSender(m) \/ InChannel(m) \/ AtReceiver(m) \/ Handed(m) \/ Gone(m)
  /\ AtSender(m) => ~InChannel(m) /\ ~AtReceiver(m) /\ ~Handed(m) /\ ~Gone(m)
  /\ InChannel(m) => ~AtReceiver(m) /\ ~Handed(m) /\ ~Gone(m)
  /\ AtReceiver(m) => ~Handed(m) /\ ~Gone(m)
  /\ Handed(m) => ~Gone(m)

\* What a task still has to send is its latest message, and no channel has
\* carried it.
Unsent(t) ==
  sending[t] # 0 =>
    /\ sending[t] \in Issued /\ issued[sending[t]].from = t
    /\ \A m \in Issued : issued[m].from = t => m <= sending[t]
    /\ LET h == History(issued[sending[t]].ch) IN \A k \in 1..Len(h) : h[k] # sending[t]

\* A channel carried messages issued for it, each once, and those of one sender
\* in the order they were issued.
InOrder(c) ==
  LET h == History(c)
  IN  /\ \A k \in 1..Len(h) : h[k] \in Issued /\ issued[h[k]].ch = c
      /\ \A j, k \in 1..Len(h) : j < k =>
            /\ h[j] # h[k]
            /\ issued[h[j]].from = issued[h[k]].from => h[j] < h[k]

\* Two frames never hold the same message.
HeldOnce == /\ \A t \in Tasks : receiving[t] # 0 => receiving[t] \in Issued
            /\ \A t, u \in Tasks : receiving[t] # 0 /\ receiving[t] = receiving[u] => t = u

LedgerInv == /\ LedgerTypes
             /\ \A t \in Tasks : Unsent(t)
             /\ \A c \in Channels : InOrder(c)
             /\ HeldOnce
             /\ seen \cup dropped \subseteq Issued
             /\ \A m \in Issued : OnePlace(m)

----------------------------------------------------------------------------
(* Sequences. *)

\* Appending to a history.
LEMMA AppendHistory ==
  ASSUME NEW p \in Seq(Nat), NEW q \in Seq(Nat), NEW m \in Nat
  PROVE  p \o Append(q, m) = Append(p \o q, m)
OBVIOUS

\* Taking the head leaves the history as it is.
LEMMA TakeHistory ==
  ASSUME NEW p \in Seq(Nat), NEW q \in Seq(Nat), q # <<>>
  PROVE  Append(p, Head(q)) \o Tail(q) = p \o q
BY SMTT(40)

\* What a queue holds after a message is appended.
LEMMA QueuedAppend ==
  ASSUME NEW q \in Seq(Nat), NEW m \in Nat
  PROVE  Queued(Append(q, m)) = Queued(q) \cup {m}
<1>1. ASSUME NEW k \in DOMAIN Append(q, m) PROVE Append(q, m)[k] \in Queued(q) \cup {m}
  BY DEF Queued
<1>2. ASSUME NEW k \in DOMAIN q PROVE q[k] \in Queued(Append(q, m))
  <2>1. k \in DOMAIN Append(q, m) /\ Append(q, m)[k] = q[k]
    OBVIOUS
  <2>2. QED
    BY <2>1 DEF Queued
<1>3. m \in Queued(Append(q, m))
  <2>1. Len(q) + 1 \in DOMAIN Append(q, m) /\ Append(q, m)[Len(q) + 1] = m
    OBVIOUS
  <2>2. QED
    BY <2>1 DEF Queued
<1>4. QED
  BY <1>1, <1>2, <1>3 DEF Queued

\* What a queue without repetitions holds after its head is taken.
LEMMA QueuedTail ==
  ASSUME NEW q \in Seq(Nat), q # <<>>,
         \A j, k \in 1..Len(q) : j < k => q[j] # q[k]
  PROVE  /\ Queued(Tail(q)) = Queued(q) \ {Head(q)}
         /\ Head(q) \in Queued(q)
<1>1. Len(q) \in Nat \ {0} /\ Head(q) = q[1] /\ DOMAIN q = 1..Len(q)
      /\ DOMAIN Tail(q) = 1..(Len(q) - 1) /\ \A k \in 1..(Len(q) - 1) : Tail(q)[k] = q[k + 1]
  OBVIOUS
<1>2. ASSUME NEW k \in 1..(Len(q) - 1) PROVE Tail(q)[k] \in Queued(q) \ {Head(q)}
  <2>1. k + 1 \in 1..Len(q) /\ 1 \in 1..Len(q) /\ 1 < k + 1
    BY <1>1
  <2>2. q[1] # q[k + 1]
    BY <2>1
  <2>3. QED
    BY <1>1, <2>1, <2>2 DEF Queued
<1>3. ASSUME NEW k \in 1..Len(q), q[k] # q[1] PROVE q[k] \in Queued(Tail(q))
  <2>1. k - 1 \in 1..(Len(q) - 1) /\ k - 1 + 1 = k
    BY <1>1, <1>3
  <2>2. Tail(q)[k - 1] = q[k]
    BY <1>1, <2>1
  <2>3. QED
    BY <1>1, <2>1, <2>2 DEF Queued
<1>4. Queued(Tail(q)) \subseteq Queued(q) \ {Head(q)}
  BY <1>1, <1>2 DEF Queued
<1>5. Queued(q) \ {Head(q)} \subseteq Queued(Tail(q))
  <2> SUFFICES ASSUME NEW m \in Queued(q), m # Head(q) PROVE m \in Queued(Tail(q))
    OBVIOUS
  <2>1. PICK k \in 1..Len(q) : m = q[k]
    BY <1>1 DEF Queued
  <2>2. QED
    BY <1>1, <1>3, <2>1
<1>6. Head(q) \in Queued(q)
  BY <1>1 DEF Queued
<1>7. QED
  BY <1>4, <1>5, <1>6

\* A queued message is part of its channel's history.
LEMMA ContentsInHistory ==
  ASSUME NEW p \in Seq(Nat), NEW q \in Seq(Nat), NEW k \in 1..Len(q)
  PROVE  Len(p) + k \in 1..Len(p \o q) /\ (p \o q)[Len(p) + k] = q[k]
OBVIOUS

\* The messages queued in a channel were issued for it, and none twice.
LEMMA ContentsFacts ==
  ASSUME LedgerInv, NEW c \in Channels
  PROVE  /\ contents[c] \in Seq(Nat) /\ taken[c] \in Seq(Nat) /\ History(c) \in Seq(Nat)
         /\ \A j, k \in 1..Len(contents[c]) : j < k => contents[c][j] # contents[c][k]
         /\ \A m \in Queued(contents[c]) : m \in Issued /\ issued[m].ch = c
<1>1. contents[c] \in Seq(Nat) /\ taken[c] \in Seq(Nat)
  BY DEF LedgerInv, LedgerTypes
<1>2. History(c) \in Seq(Nat) /\ InOrder(c)
  BY <1>1 DEF LedgerInv, History
<1>3. \A k \in 1..Len(contents[c]) :
        /\ Len(taken[c]) + k \in 1..Len(History(c))
        /\ History(c)[Len(taken[c]) + k] = contents[c][k]
  BY <1>1, ContentsInHistory DEF History
<1>4. \A j, k \in 1..Len(contents[c]) : j < k => contents[c][j] # contents[c][k]
  <2> SUFFICES ASSUME NEW j \in 1..Len(contents[c]), NEW k \in 1..Len(contents[c]), j < k
               PROVE  contents[c][j] # contents[c][k]
    OBVIOUS
  <2> DEFINE h == History(c)
             a == Len(taken[c]) + j
             b == Len(taken[c]) + k
  <2>1. a < b
    BY <1>1
  <2>2. a \in 1..Len(h) /\ b \in 1..Len(h) /\ h[a] = contents[c][j] /\ h[b] = contents[c][k]
    BY <1>3
  <2>3. \A x, y \in 1..Len(h) : x < y => h[x] # h[y]
    BY <1>2 DEF InOrder
  <2> HIDE DEF a, b, h
  <2>4. h[a] # h[b]
    BY <2>1, <2>2, <2>3
  <2>5. QED
    BY <2>2, <2>4
<1>5. ASSUME NEW m \in Queued(contents[c]) PROVE m \in Issued /\ issued[m].ch = c
  <2>1. PICK k \in 1..Len(contents[c]) : contents[c][k] = m
    BY <1>1 DEF Queued
  <2>2. QED
    BY <1>2, <1>3, <2>1, ZenonT(60) DEF InOrder
<1>6. QED
  BY <1>1, <1>2, <1>4, <1>5

----------------------------------------------------------------------------
(* Every step keeps the invariant. *)

\* Issuing a message leaves the earlier ones as they are.
LEMMA IssuedGrows ==
  ASSUME LedgerInv, NEW t \in Tasks, NEW c \in Channels,
         issued' = Append(issued, [from |-> t, ch |-> c])
  PROVE  /\ NewMessage \in Nat \ {0} /\ NewMessage \notin Issued
         /\ \A m \in Issued : m < NewMessage /\ issued'[m] = issued[m]
         /\ issued'[NewMessage].from = t /\ issued'[NewMessage].ch = c
         /\ Issued' = Issued \cup {NewMessage}
         /\ issued' \in Seq(Message)
<1> DEFINE r == [from |-> t, ch |-> c]
<1>1. r \in Message /\ r.from = t /\ r.ch = c
  BY DEF Message
<1>2. issued \in Seq(Message)
  BY DEF LedgerInv, LedgerTypes
<1> HIDE DEF r
<1>3. /\ issued' \in Seq(Message) /\ Len(issued') = Len(issued) + 1
      /\ issued'[Len(issued) + 1] = r /\ Len(issued) \in Nat
      /\ \A m \in 1..Len(issued) : issued'[m] = issued[m]
  BY <1>1, <1>2 DEF r
<1>4. QED
  BY <1>1, <1>3 DEF NewMessage, Issued

\* A channel's history with one message more stays in order.
LEMMA HistoryGrows ==
  ASSUME LedgerInv, LedgerTypes', NEW c \in Channels, NEW m \in Issued',
         \A k \in Issued : k \in Issued' /\ issued'[k] = issued[k],
         issued'[m].ch = c,
         \A k \in 1..Len(History(c)) : History(c)[k] # m,
         \A k \in Issued : issued[k].from = issued'[m].from => k <= m,
         History(c)' = Append(History(c), m)
  PROVE  InOrder(c)'
<1> DEFINE h == History(c)
           g == History(c)'
<1>1. h \in Seq(Nat) /\ m \in Nat
  BY ContentsFacts DEF Issued, LedgerTypes
<1>2. /\ \A k \in 1..Len(h) : h[k] \in Issued /\ issued[h[k]].ch = c
      /\ \A j, k \in 1..Len(h) : j < k =>
            /\ h[j] # h[k]
            /\ issued[h[j]].from = issued[h[k]].from => h[j] < h[k]
  BY DEF LedgerInv, InOrder
<1>3. /\ Len(g) = Len(h) + 1 /\ g[Len(h) + 1] = m /\ Len(h) \in Nat
      /\ \A k \in 1..Len(h) : g[k] = h[k]
  BY <1>1
<1>4. \A k \in 1..Len(h) : h[k] # m
  OBVIOUS
<1> HIDE DEF h
<1>5. \A k \in 1..Len(g) : g[k] \in Issued' /\ issued'[g[k]].ch = c
  BY <1>2, <1>3
<1>6. ASSUME NEW j \in 1..Len(g), NEW k \in 1..Len(g), j < k
      PROVE  g[j] # g[k] /\ (issued'[g[j]].from = issued'[g[k]].from => g[j] < g[k])
  <2>1. j \in 1..Len(h) /\ g[j] = h[j] /\ h[j] \in Issued /\ issued'[h[j]] = issued[h[j]]
    BY <1>2, <1>3, <1>6
  <2>2. CASE k \in 1..Len(h)
    <3>1. g[k] = h[k] /\ h[k] \in Issued /\ issued'[h[k]] = issued[h[k]]
      BY <1>2, <1>3, <2>2
    <3>2. QED
      BY <1>2, <1>6, <2>1, <2>2, <3>1
  <2>3. CASE k = Len(h) + 1
    <3>1. g[k] = m /\ h[j] # m
      BY <1>3, <1>4, <2>1, <2>3
    <3>2. issued[h[j]].from = issued'[m].from => h[j] <= m
      BY <2>1
    <3>3. h[j] \in Nat
      BY <2>1 DEF Issued
    <3>4. QED
      BY <1>1, <2>1, <3>1, <3>2, <3>3
  <2>4. QED
    BY <1>3, <2>2, <2>3
<1>7. QED
  BY <1>5, <1>6 DEF InOrder

\* A channel whose history did not change stays in order.
LEMMA HistoryStays ==
  ASSUME LedgerInv, NEW c \in Channels, History(c)' = History(c),
         \A k \in Issued : k \in Issued' /\ issued'[k] = issued[k]
  PROVE  InOrder(c)'
<1> DEFINE h == History(c)
<1>1. /\ \A k \in 1..Len(h) : h[k] \in Issued /\ issued[h[k]].ch = c
      /\ \A j, k \in 1..Len(h) : j < k =>
            /\ h[j] # h[k]
            /\ issued[h[j]].from = issued[h[k]].from => h[j] < h[k]
  BY DEF LedgerInv, InOrder
<1>2. \A k \in 1..Len(h) : h[k] \in Issued' /\ issued'[h[k]] = issued[h[k]]
  BY <1>1
<1>3. QED
  BY <1>1, <1>2 DEF InOrder

\* A new message that goes straight into its channel.
LEMMA SendKeeps ==
  ASSUME LedgerInv, NEW t \in Tasks, NEW c \in Channels, Send(t, c)
  PROVE  LedgerInv'
<1>0. PICK m : m = NewMessage
  OBVIOUS
<1>1. /\ sending[t] = 0 /\ issued' = Append(issued, [from |-> t, ch |-> c])
      /\ contents' = [contents EXCEPT ![c] = Append(@, m)]
      /\ UNCHANGED <<sending, receiving, taken, seen, dropped>>
  BY <1>0 DEF Send, Enqueue
<1>2. /\ m \in Nat \ {0} /\ m \notin Issued
      /\ \A k \in Issued : k < m /\ issued'[k] = issued[k]
      /\ issued'[m].from = t /\ issued'[m].ch = c
      /\ Issued' = Issued \cup {m} /\ issued' \in Seq(Message)
  BY <1>0, <1>1, IssuedGrows
<1>3. \A d \in Channels : /\ contents[d] \in Seq(Nat) /\ taken[d] \in Seq(Nat)
                          /\ contents'[d] = IF d = c THEN Append(contents[c], m) ELSE contents[d]
  BY <1>1 DEF LedgerInv, LedgerTypes
<1>4. LedgerTypes'
  <2>1. contents' \in [Channels -> Seq(Nat)]
    BY <1>1, <1>2 DEF LedgerInv, LedgerTypes
  <2>2. QED
    BY <1>1, <1>2, <2>1 DEF LedgerInv, LedgerTypes
<1>5. \A d \in Channels : History(d)' = IF d = c THEN Append(History(c), m) ELSE History(d)
  <2> SUFFICES ASSUME NEW d \in Channels
               PROVE  History(d)' = IF d = c THEN Append(History(c), m) ELSE History(d)
    OBVIOUS
  <2>1. taken'[d] = taken[d]
    BY <1>1
  <2>2. CASE d = c
    <3>1. taken[c] \o Append(contents[c], m) = Append(taken[c] \o contents[c], m)
      <4>1. taken[c] \in Seq(Nat) /\ contents[c] \in Seq(Nat) /\ m \in Nat
        BY <1>2, <1>3
      <4>2. QED
        BY <4>1, AppendHistory, Zenon
    <3>2. QED
      BY <1>3, <2>1, <2>2, <3>1 DEF History
  <2>3. CASE d # c
    BY <1>3, <2>1, <2>3 DEF History
  <2>4. QED
    BY <2>2, <2>3
<1>6. \A d \in Channels : \A k \in 1..Len(History(d)) : History(d)[k] \in Issued
  BY DEF LedgerInv, InOrder
<1>7. ASSUME NEW u \in Tasks, sending'[u] # 0 PROVE Unsent(u)'
  <2>0. PICK x, d : x = sending[u] /\ d = issued[x].ch
    OBVIOUS
  <2>1. /\ x # 0 /\ sending'[u] = x /\ u # t
    BY <1>1, <1>7, <2>0
  <2>2. /\ x \in Issued /\ issued[x].from = u
        /\ \A k \in Issued : issued[k].from = u => k <= x
        /\ \A k \in 1..Len(History(d)) : History(d)[k] # x
    BY <2>0, <2>1 DEF LedgerInv, Unsent
  <2>3. d \in Channels
    <3>1. issued[x] \in Message
      BY <2>2 DEF LedgerInv, LedgerTypes, Issued
    <3>2. QED
      BY <2>0, <3>1 DEF Message
  <2>4. issued'[x] = issued[x] /\ x \in Issued' /\ x # m
    BY <1>2, <2>2
  <2>5. \A k \in Issued' : issued'[k].from = u => k <= x
    BY <1>2, <2>1, <2>2
  <2>6. History(d) \in Seq(Nat)
    BY <2>3, ContentsFacts
  <2>7. \A k \in 1..Len(History(d)') : History(d)'[k] # x
    <3>1. CASE d # c
      BY <1>5, <2>2, <2>3, <3>1
    <3>2. CASE d = c
      <4>1. PICK h \in Seq(Nat) : h = History(d)
        BY <2>6
      <4>2. \A k \in 1..Len(Append(h, m)) : Append(h, m)[k] # x
        BY <1>2, <2>2, <2>4, <4>1
      <4>3. QED
        BY <1>5, <2>3, <3>2, <4>1, <4>2
    <3>3. QED
      BY <3>1, <3>2
  <2>8. QED
    BY <2>0, <2>1, <2>2, <2>4, <2>5, <2>7 DEF Unsent
<1>8. ASSUME NEW d \in Channels PROVE InOrder(d)'
  <2>1. CASE d = c
    <3>1. \A k \in 1..Len(History(c)) : History(c)[k] # m
      BY <1>2, <1>6
    <3>2. \A k \in Issued : k <= m /\ k \in Issued' /\ issued'[k] = issued[k]
      BY <1>2 DEF Issued
    <3>3. History(c)' = Append(History(c), m) /\ m \in Issued'
      BY <1>2, <1>5
    <3>4. QED
      BY <1>2, <1>4, <2>1, <3>1, <3>2, <3>3, HistoryGrows
  <2>2. CASE d # c
    <3>1. History(d)' = History(d)
      BY <1>5, <2>2
    <3>2. \A k \in Issued : k \in Issued' /\ issued'[k] = issued[k]
      BY <1>2
    <3>3. QED
      BY <3>1, <3>2, HistoryStays
  <2>3. QED
    BY <2>1, <2>2
<1>9. HeldOnce' /\ (seen \cup dropped \subseteq Issued)'
  BY <1>1, <1>2 DEF LedgerInv, HeldOnce
<1>10. ASSUME NEW k \in Issued' PROVE OnePlace(k)'
  <2>1. CASE k \in Issued
    <3>1. OnePlace(k) /\ issued'[k] = issued[k] /\ k # m /\ issued[k] \in Message
      BY <1>2, <2>1 DEF LedgerInv, LedgerTypes, Issued
    <3>2. issued[k].ch \in Channels
      BY <3>1 DEF Message
    <3>3. Queued(Append(contents[c], m)) = Queued(contents[c]) \cup {m}
      BY <1>2, <1>3, QueuedAppend
    <3>4. InChannel(k)' <=> InChannel(k)
      BY <1>3, <3>1, <3>2, <3>3 DEF InChannel
    <3>5. /\ AtSender(k)' <=> AtSender(k)
          /\ AtReceiver(k)' <=> AtReceiver(k)
          /\ Handed(k)' <=> Handed(k)
          /\ Gone(k)' <=> Gone(k)
      BY <1>1, <3>1 DEF AtSender, AtReceiver, Handed, Gone
    <3>6. QED
      BY <3>1, <3>4, <3>5 DEF OnePlace
  <2>2. CASE k = m
    <3>1. InChannel(m)'
      BY <1>2, <1>3, QueuedAppend DEF InChannel
    <3>2. ~AtSender(m)'
      BY <1>1, <1>2 DEF AtSender
    <3>3. ~AtReceiver(m)' /\ ~Handed(m)' /\ ~Gone(m)'
      BY <1>1, <1>2 DEF AtReceiver, Handed, Gone, LedgerInv, HeldOnce
    <3>4. QED
      BY <2>2, <3>1, <3>2, <3>3 DEF OnePlace
  <2>3. QED
    BY <1>2, <2>1, <2>2
<1>11. \A u \in Tasks : Unsent(u)'
  BY <1>7 DEF Unsent
<1>12. QED
  BY <1>4, <1>8, <1>9, <1>10, <1>11 DEF LedgerInv

\* A new message its task has to wait with.
LEMMA HoldKeeps ==
  ASSUME LedgerInv, NEW t \in Tasks, NEW c \in Channels, Hold(t, c)
  PROVE  LedgerInv'
<1>0. PICK m : m = NewMessage
  OBVIOUS
<1>1. /\ sending[t] = 0 /\ issued' = Append(issued, [from |-> t, ch |-> c])
      /\ sending' = [sending EXCEPT ![t] = m]
      /\ UNCHANGED <<contents, receiving, taken, seen, dropped>>
  BY <1>0 DEF Hold
<1>2. /\ m \in Nat \ {0} /\ m \notin Issued
      /\ \A k \in Issued : k < m /\ issued'[k] = issued[k]
      /\ issued'[m].from = t /\ issued'[m].ch = c
      /\ Issued' = Issued \cup {m} /\ issued' \in Seq(Message)
  BY <1>0, <1>1, IssuedGrows
<1>3. /\ sending'[t] = m
      /\ \A u \in Tasks : u # t => sending'[u] = sending[u]
      /\ LedgerTypes'
  BY <1>1, <1>2 DEF LedgerInv, LedgerTypes
<1>4. \A d \in Channels : History(d)' = History(d)
  BY <1>1 DEF History
<1>5. \A d \in Channels : \A k \in 1..Len(History(d)) : History(d)[k] \in Issued
  BY DEF LedgerInv, InOrder
<1>6. \A k \in Issued : k \in Issued' /\ issued'[k] = issued[k]
  BY <1>2
<1>7. ASSUME NEW u \in Tasks, sending'[u] # 0 PROVE Unsent(u)'
  <2>0. PICK x, d : x = sending'[u] /\ d = issued'[x].ch
    OBVIOUS
  <2>1. CASE u = t
    <3>1. /\ x = m /\ m \in Issued' /\ issued'[m].from = t
          /\ \A k \in Issued' : k <= m
      BY <1>2, <1>3, <2>0, <2>1 DEF Issued
    <3>2. \A k \in 1..Len(History(c)') : History(c)'[k] # m
      BY <1>2, <1>4, <1>5
    <3>3. QED
      BY <1>2, <2>0, <2>1, <3>1, <3>2 DEF Unsent
  <2>2. CASE u # t
    <3>1. x = sending[u] /\ x # 0
      BY <1>3, <1>7, <2>0, <2>2
    <3>2. /\ x \in Issued /\ issued[x].from = u
          /\ \A k \in Issued : issued[k].from = u => k <= x
          /\ \A k \in 1..Len(History(issued[x].ch)) : History(issued[x].ch)[k] # x
      BY <3>1 DEF LedgerInv, Unsent
    <3>3. issued[x] \in Message
      BY <3>2 DEF LedgerInv, LedgerTypes, Issued
    <3>4. issued'[x] = issued[x] /\ d \in Channels
      BY <1>2, <2>0, <3>2, <3>3 DEF Message
    <3>5. \A k \in Issued' : issued'[k].from = u => k <= x
      BY <1>2, <2>2, <3>2
    <3>6. \A k \in 1..Len(History(d)') : History(d)'[k] # x
      BY <1>4, <2>0, <3>2, <3>4
    <3>7. QED
      BY <1>6, <2>0, <3>2, <3>4, <3>5, <3>6 DEF Unsent
  <2>3. QED
    BY <2>1, <2>2
<1>8. \A d \in Channels : InOrder(d)'
  BY <1>4, <1>6, HistoryStays
<1>9. HeldOnce' /\ (seen \cup dropped \subseteq Issued)'
  BY <1>1, <1>2 DEF LedgerInv, HeldOnce
<1>10. ASSUME NEW k \in Issued' PROVE OnePlace(k)'
  <2>1. CASE k \in Issued
    <3>1. OnePlace(k) /\ issued'[k] = issued[k] /\ k # m /\ k # 0 /\ issued[k] \in Message
      BY <1>2, <2>1 DEF LedgerInv, LedgerTypes, Issued
    <3>2. issued[k].from \in Tasks
      BY <3>1 DEF Message
    <3>3. /\ AtSender(k)' <=> AtSender(k)
          /\ InChannel(k)' <=> InChannel(k)
          /\ AtReceiver(k)' <=> AtReceiver(k)
          /\ Handed(k)' <=> Handed(k)
          /\ Gone(k)' <=> Gone(k)
      BY <1>1, <1>3, <3>1, <3>2 DEF AtSender, InChannel, AtReceiver, Handed, Gone
    <3>4. QED
      BY <3>1, <3>3 DEF OnePlace
  <2>2. CASE k = m
    <3>1. AtSender(m)'
      BY <1>2, <1>3 DEF AtSender
    <3>2. ~InChannel(m)'
      <4>1. m \notin Queued(contents[c])
        BY <1>2, ContentsFacts
      <4>2. QED
        BY <1>1, <1>2, <4>1 DEF InChannel
    <3>3. ~AtReceiver(m)' /\ ~Handed(m)' /\ ~Gone(m)'
      BY <1>1, <1>2 DEF AtReceiver, Handed, Gone, LedgerInv, HeldOnce
    <3>4. QED
      BY <2>2, <3>1, <3>2, <3>3 DEF OnePlace
  <2>3. QED
    BY <1>2, <2>1, <2>2
<1>11. \A u \in Tasks : Unsent(u)'
  BY <1>7 DEF Unsent
<1>12. QED
  BY <1>3, <1>8, <1>9, <1>10, <1>11 DEF LedgerInv

\* A waiting message goes into its channel.
LEMMA ReleaseKeeps == ASSUME LedgerInv, NEW t \in Tasks, Release(t) PROVE LedgerInv'
<1>0. PICK m, c : m = sending[t] /\ c = issued[m].ch
  OBVIOUS
<1>1. /\ m # 0 /\ contents' = [contents EXCEPT ![c] = Append(@, m)]
      /\ sending' = [sending EXCEPT ![t] = 0]
      /\ UNCHANGED <<receiving, issued, taken, seen, dropped>>
  BY <1>0 DEF Release, Enqueue
<1>2. /\ m \in Issued /\ m \in Nat /\ issued[m].from = t
      /\ \A k \in Issued : issued[k].from = t => k <= m
      /\ \A k \in 1..Len(History(c)) : History(c)[k] # m
  BY <1>0, <1>1 DEF LedgerInv, Unsent, Issued
<1>3. c \in Channels
  <2>1. issued[m] \in Message
    BY <1>2 DEF LedgerInv, LedgerTypes, Issued
  <2>2. QED
    BY <1>0, <2>1 DEF Message
<1>4. /\ \A d \in Channels : /\ contents[d] \in Seq(Nat) /\ taken[d] \in Seq(Nat)
                             /\ contents'[d] = IF d = c THEN Append(contents[c], m) ELSE contents[d]
      /\ sending'[t] = 0 /\ \A u \in Tasks : u # t => sending'[u] = sending[u]
  BY <1>1, <1>3 DEF LedgerInv, LedgerTypes
<1>5. LedgerTypes'
  <2>1. contents' \in [Channels -> Seq(Nat)]
    <3>1. Append(contents[c], m) \in Seq(Nat)
      BY <1>2, <1>3, <1>4
    <3>2. QED
      BY <1>1, <3>1 DEF LedgerInv, LedgerTypes
  <2>2. QED
    BY <1>1, <2>1 DEF LedgerInv, LedgerTypes
<1>6. History(c)' = Append(History(c), m) /\ \A d \in Channels : d # c => History(d)' = History(d)
  <2>1. taken[c] \in Seq(Nat) /\ contents[c] \in Seq(Nat)
    BY <1>3, <1>4
  <2>2. taken[c] \o Append(contents[c], m) = Append(taken[c] \o contents[c], m)
    BY <1>2, <2>1, AppendHistory, Zenon
  <2>3. QED
    BY <1>1, <1>3, <1>4, <2>2 DEF History
<1>7. Issued' = Issued /\ \A k \in Issued : k \in Issued' /\ issued'[k] = issued[k]
  BY <1>1 DEF Issued
<1>8. ASSUME NEW u \in Tasks, sending'[u] # 0 PROVE Unsent(u)'
  <2>0. PICK x, d : x = sending[u] /\ d = issued[x].ch
    OBVIOUS
  <2>1. x # 0 /\ sending'[u] = x /\ u # t
    BY <1>4, <1>8, <2>0
  <2>2. /\ x \in Issued /\ issued[x].from = u
        /\ \A k \in Issued : issued[k].from = u => k <= x
        /\ \A k \in 1..Len(History(d)) : History(d)[k] # x
    BY <2>0, <2>1 DEF LedgerInv, Unsent
  <2>3. issued[x] \in Message
    BY <2>2 DEF LedgerInv, LedgerTypes, Issued
  <2>4. d \in Channels /\ x # m
    BY <1>2, <2>0, <2>1, <2>2, <2>3 DEF Message
  <2>5. PICK h \in Seq(Nat) : h = History(d)
    BY <2>4, ContentsFacts
  <2>6. \A k \in 1..Len(Append(h, m)) : Append(h, m)[k] # x
    BY <1>2, <2>2, <2>4, <2>5
  <2>7. \A k \in 1..Len(History(d)') : History(d)'[k] # x
    <3>1. CASE d = c
      BY <1>6, <2>5, <2>6, <3>1
    <3>2. CASE d # c
      BY <1>6, <2>2, <2>4, <3>2
    <3>3. QED
      BY <3>1, <3>2
  <2>8. QED
    BY <1>1, <1>7, <2>0, <2>1, <2>2, <2>7 DEF Unsent
<1>9. ASSUME NEW d \in Channels PROVE InOrder(d)'
  <2>1. CASE d = c
    <3>1. issued'[m].ch = c /\ issued'[m].from = t
      BY <1>0, <1>1, <1>2
    <3>2. m \in Issued' /\ \A k \in Issued : issued[k].from = issued'[m].from => k <= m
      BY <1>2, <1>7, <3>1
    <3>3. QED
      BY <1>2, <1>3, <1>5, <1>6, <1>7, <2>1, <3>1, <3>2, HistoryGrows
  <2>2. CASE d # c
    BY <1>6, <1>7, <2>2, HistoryStays
  <2>3. QED
    BY <2>1, <2>2
<1>10. HeldOnce' /\ (seen \cup dropped \subseteq Issued)'
  BY <1>1, <1>7 DEF LedgerInv, HeldOnce
<1>11. ASSUME NEW k \in Issued' PROVE OnePlace(k)'
  <2>1. OnePlace(k) /\ issued'[k] = issued[k] /\ k # 0 /\ issued[k] \in Message
    BY <1>7 DEF LedgerInv, LedgerTypes, Issued
  <2>2. issued[k].ch \in Channels /\ issued[k].from \in Tasks
    BY <2>1 DEF Message
  <2>3. Queued(Append(contents[c], m)) = Queued(contents[c]) \cup {m}
    BY <1>2, <1>3, <1>4, QueuedAppend
  <2>4. /\ AtReceiver(k)' <=> AtReceiver(k)
        /\ Handed(k)' <=> Handed(k)
        /\ Gone(k)' <=> Gone(k)
    BY <1>1 DEF AtReceiver, Handed, Gone
  <2>5. CASE k = m
    <3>1. AtSender(k) /\ InChannel(k)' /\ ~AtSender(k)'
      BY <1>0, <1>2, <1>4, <2>1, <2>2, <2>3, <2>5 DEF AtSender, InChannel
    <3>2. QED
      BY <2>1, <2>4, <3>1 DEF OnePlace
  <2>6. CASE k # m
    <3>1. InChannel(k)' <=> InChannel(k)
      BY <1>4, <2>1, <2>2, <2>3, <2>6 DEF InChannel
    <3>2. AtSender(k)' <=> AtSender(k)
      BY <1>0, <1>4, <2>1, <2>2, <2>6 DEF AtSender
    <3>3. QED
      BY <2>1, <2>4, <3>1, <3>2 DEF OnePlace
  <2>7. QED
    BY <2>5, <2>6
<1>12. \A u \in Tasks : Unsent(u)'
  BY <1>8 DEF Unsent
<1>13. QED
  BY <1>5, <1>9, <1>10, <1>11, <1>12 DEF LedgerInv

\* A step that issues nothing and leaves every history and every unsent message
\* as it is.
LEMMA SameHistory ==
  ASSUME LedgerInv, UNCHANGED issued, \A d \in Channels : History(d)' = History(d),
         \A u \in Tasks : sending'[u] \in {sending[u], 0}
  PROVE  /\ \A u \in Tasks : Unsent(u)'
         /\ \A d \in Channels : InOrder(d)'
<1>1. Issued' = Issued /\ \A k \in Issued : k \in Issued' /\ issued'[k] = issued[k]
  BY DEF Issued
<1>2. \A d \in Channels : InOrder(d)'
  BY <1>1, HistoryStays
<1>3. ASSUME NEW u \in Tasks, sending'[u] # 0 PROVE Unsent(u)'
  <2>0. PICK x, d : x = sending[u] /\ d = issued[x].ch
    OBVIOUS
  <2>1. sending'[u] = x /\ x # 0
    BY <1>3, <2>0
  <2>2. /\ x \in Issued /\ issued[x].from = u
        /\ \A k \in Issued : issued[k].from = u => k <= x
        /\ \A k \in 1..Len(History(d)) : History(d)[k] # x
    BY <2>0, <2>1 DEF LedgerInv, Unsent
  <2>3. issued[x] \in Message
    BY <2>2 DEF LedgerInv, LedgerTypes, Issued
  <2>4. d \in Channels
    BY <2>0, <2>3 DEF Message
  <2>5. QED
    BY <1>1, <2>0, <2>1, <2>2, <2>4 DEF Unsent
<1>4. QED
  BY <1>2, <1>3 DEF Unsent

\* What taking the head of a channel does.
LEMMA DequeueFacts ==
  ASSUME LedgerInv, NEW c \in Channels, Dequeue(c), NEW m, m = Head(contents[c])
  PROVE  /\ contents' \in [Channels -> Seq(Nat)] /\ taken' \in [Channels -> Seq(Nat)]
         /\ m \in Issued /\ issued[m].ch = c /\ m \in Queued(contents[c])
         /\ \A d \in Channels : /\ History(d)' = History(d)
                                /\ Queued(contents'[d]) = IF d = c THEN Queued(contents[c]) \ {m}
                                                          ELSE Queued(contents[d])
<1>1. /\ contents[c] # <<>>
      /\ contents' = [contents EXCEPT ![c] = Tail(@)]
      /\ taken' = [taken EXCEPT ![c] = Append(@, m)]
  BY DEF Dequeue
<1>2. /\ \A d \in Channels : contents[d] \in Seq(Nat) /\ taken[d] \in Seq(Nat)
      /\ contents'[c] = Tail(contents[c]) /\ taken'[c] = Append(taken[c], m)
      /\ \A d \in Channels : d # c => contents'[d] = contents[d] /\ taken'[d] = taken[d]
  BY <1>1 DEF LedgerInv, LedgerTypes
<1>3. m \in Nat
  BY <1>1, <1>2
<1>4. contents' \in [Channels -> Seq(Nat)] /\ taken' \in [Channels -> Seq(Nat)]
  BY <1>1, <1>3 DEF LedgerInv, LedgerTypes
<1>5. Queued(Tail(contents[c])) = Queued(contents[c]) \ {m} /\ m \in Queued(contents[c])
  BY <1>1, ContentsFacts, QueuedTail
<1>6. Append(taken[c], m) \o Tail(contents[c]) = taken[c] \o contents[c]
  BY <1>1, <1>2, TakeHistory
<1>7. QED
  BY <1>2, <1>4, <1>5, <1>6, ContentsFacts DEF History

\* The head of a channel is handed to the program.
LEMMA ReceiveKeeps == ASSUME LedgerInv, NEW c \in Channels, Receive(c) PROVE LedgerInv'
<1>0. PICK m : m = Head(contents[c])
  OBVIOUS
<1>1. /\ Dequeue(c) /\ seen' = seen \cup {m}
      /\ UNCHANGED <<sending, receiving, issued, dropped>>
  BY <1>0 DEF Receive
<1>2. /\ contents' \in [Channels -> Seq(Nat)] /\ taken' \in [Channels -> Seq(Nat)]
      /\ m \in Issued /\ issued[m].ch = c /\ m \in Queued(contents[c])
      /\ \A d \in Channels : /\ History(d)' = History(d)
                             /\ Queued(contents'[d]) = IF d = c THEN Queued(contents[c]) \ {m}
                                                       ELSE Queued(contents[d])
  BY <1>0, <1>1, DequeueFacts
<1>3. Issued' = Issued /\ m \in Nat
  BY <1>1, <1>2 DEF Issued
<1>4. LedgerTypes' /\ HeldOnce' /\ (seen \cup dropped \subseteq Issued)'
  BY <1>1, <1>2, <1>3 DEF LedgerInv, LedgerTypes, HeldOnce
<1>5. /\ \A u \in Tasks : Unsent(u)'
      /\ \A d \in Channels : InOrder(d)'
  BY <1>1, <1>2, SameHistory
<1>6. ASSUME NEW k \in Issued' PROVE OnePlace(k)'
  <2>1. OnePlace(k) /\ issued'[k] = issued[k] /\ issued[k] \in Message
    BY <1>1, <1>3 DEF LedgerInv, LedgerTypes, Issued
  <2>2. issued[k].ch \in Channels
    BY <2>1 DEF Message
  <2>3. /\ AtSender(k)' <=> AtSender(k)
        /\ AtReceiver(k)' <=> AtReceiver(k)
        /\ Gone(k)' <=> Gone(k)
        /\ Handed(k)' <=> Handed(k) \/ k = m
    BY <1>1 DEF AtSender, AtReceiver, Gone, Handed
  <2>4. /\ InChannel(k)' <=> InChannel(k) /\ k # m
        /\ k = m => InChannel(k)
    BY <1>2, <2>1, <2>2 DEF InChannel
  <2>5. QED
    BY <2>1, <2>3, <2>4 DEF OnePlace
<1>7. QED
  BY <1>4, <1>5, <1>6 DEF LedgerInv

\* The head of a channel is kept for a frame.
LEMMA FetchKeeps ==
  ASSUME LedgerInv, NEW t \in Tasks, NEW c \in Channels, Fetch(t, c)
  PROVE  LedgerInv'
<1>0. PICK m : m = Head(contents[c])
  OBVIOUS
<1>1. /\ Dequeue(c) /\ receiving[t] = 0 /\ receiving' = [receiving EXCEPT ![t] = m]
      /\ UNCHANGED <<sending, issued, seen, dropped>>
  BY <1>0 DEF Fetch
<1>2. /\ contents' \in [Channels -> Seq(Nat)] /\ taken' \in [Channels -> Seq(Nat)]
      /\ m \in Issued /\ issued[m].ch = c /\ m \in Queued(contents[c])
      /\ \A d \in Channels : /\ History(d)' = History(d)
                             /\ Queued(contents'[d]) = IF d = c THEN Queued(contents[c]) \ {m}
                                                       ELSE Queued(contents[d])
  BY <1>0, <1>1, DequeueFacts
<1>3. Issued' = Issued /\ m \in Nat /\ m # 0
  BY <1>1, <1>2 DEF Issued
<1>4. /\ receiving'[t] = m /\ receiving' \in [Tasks -> Nat]
      /\ \A u \in Tasks : u # t => receiving'[u] = receiving[u]
  BY <1>1, <1>3 DEF LedgerInv, LedgerTypes
<1>5. LedgerTypes' /\ (seen \cup dropped \subseteq Issued)'
  BY <1>1, <1>2, <1>3, <1>4 DEF LedgerInv, LedgerTypes
<1>6. /\ \A u \in Tasks : Unsent(u)'
      /\ \A d \in Channels : InOrder(d)'
  BY <1>1, <1>2, SameHistory
<1>7. InChannel(m) /\ ~AtReceiver(m)
  BY <1>2 DEF InChannel, LedgerInv, OnePlace
<1>8. HeldOnce'
  BY <1>2, <1>3, <1>4, <1>7 DEF LedgerInv, HeldOnce, AtReceiver
<1>9. ASSUME NEW k \in Issued' PROVE OnePlace(k)'
  <2>1. OnePlace(k) /\ issued'[k] = issued[k] /\ issued[k] \in Message /\ k # 0
    BY <1>1, <1>3 DEF LedgerInv, LedgerTypes, Issued
  <2>2. issued[k].ch \in Channels
    BY <2>1 DEF Message
  <2>3. /\ AtSender(k)' <=> AtSender(k)
        /\ Gone(k)' <=> Gone(k)
        /\ Handed(k)' <=> Handed(k)
    BY <1>1 DEF AtSender, Gone, Handed
  <2>4. AtReceiver(k)' <=> AtReceiver(k) \/ k = m
    BY <1>1, <1>4, <2>1 DEF AtReceiver
  <2>5. /\ InChannel(k)' <=> InChannel(k) /\ k # m
        /\ k = m => InChannel(k)
    BY <1>2, <2>1, <2>2 DEF InChannel
  <2>6. QED
    BY <2>1, <2>3, <2>4, <2>5 DEF OnePlace
<1>10. QED
  BY <1>5, <1>6, <1>8, <1>9 DEF LedgerInv

\* A frame hands its message over.
LEMMA HandOverKeeps == ASSUME LedgerInv, NEW t \in Tasks, HandOver(t) PROVE LedgerInv'
<1>0. PICK m : m = receiving[t]
  OBVIOUS
<1>1. /\ m # 0 /\ receiving' = [receiving EXCEPT ![t] = 0] /\ seen' = seen \cup {m}
      /\ UNCHANGED <<contents, sending, issued, taken, dropped>>
  BY <1>0 DEF HandOver
<1>2. m \in Issued /\ Issued' = Issued /\ m \in Nat
  BY <1>0, <1>1 DEF LedgerInv, HeldOnce, Issued
<1>3. /\ receiving'[t] = 0 /\ receiving' \in [Tasks -> Nat]
      /\ \A u \in Tasks : u # t => receiving'[u] = receiving[u]
  BY <1>1 DEF LedgerInv, LedgerTypes
<1>4. LedgerTypes' /\ (seen \cup dropped \subseteq Issued)'
  BY <1>1, <1>2, <1>3 DEF LedgerInv, LedgerTypes
<1>5. \A d \in Channels : History(d)' = History(d)
  BY <1>1 DEF History
<1>6. /\ \A u \in Tasks : Unsent(u)'
      /\ \A d \in Channels : InOrder(d)'
  BY <1>1, <1>5, SameHistory
<1>7. HeldOnce'
  BY <1>2, <1>3 DEF LedgerInv, HeldOnce
<1>8. ASSUME NEW k \in Issued' PROVE OnePlace(k)'
  <2>1. OnePlace(k) /\ k # 0
    BY <1>2 DEF LedgerInv, Issued
  <2>2. /\ AtSender(k)' <=> AtSender(k)
        /\ InChannel(k)' <=> InChannel(k)
        /\ Gone(k)' <=> Gone(k)
        /\ Handed(k)' <=> Handed(k) \/ k = m
    BY <1>1 DEF AtSender, InChannel, Gone, Handed
  <2>3. /\ AtReceiver(k)' <=> AtReceiver(k) /\ k # m
        /\ k = m => AtReceiver(k)
    BY <1>0, <1>3, <2>1 DEF AtReceiver, LedgerInv, HeldOnce
  <2>4. QED
    BY <2>1, <2>2, <2>3 DEF OnePlace
<1>9. QED
  BY <1>4, <1>6, <1>7, <1>8 DEF LedgerInv

\* A cancelled task drops what it holds.
LEMMA CancelKeeps == ASSUME LedgerInv, NEW t \in Tasks, Cancel(t) PROVE LedgerInv'
<1>0. PICK m, x : m = receiving[t] /\ x = sending[t]
  OBVIOUS
<1>1. /\ receiving' = [receiving EXCEPT ![t] = 0] /\ sending' = [sending EXCEPT ![t] = 0]
      /\ dropped' = dropped \cup ({x, m} \ {0})
      /\ UNCHANGED <<contents, issued, taken, seen>>
  BY <1>0 DEF Cancel
<1>2. /\ m # 0 => m \in Issued
      /\ x # 0 => x \in Issued /\ issued[x].from = t
      /\ Issued' = Issued /\ Issued \subseteq Nat
  BY <1>0, <1>1 DEF LedgerInv, HeldOnce, Unsent, Issued
<1>3. /\ receiving'[t] = 0 /\ receiving' \in [Tasks -> Nat]
      /\ \A u \in Tasks : u # t => receiving'[u] = receiving[u]
      /\ sending'[t] = 0 /\ sending' \in [Tasks -> Nat]
      /\ \A u \in Tasks : u # t => sending'[u] = sending[u]
  BY <1>1 DEF LedgerInv, LedgerTypes
<1>4. (seen \cup dropped \subseteq Issued)'
  BY <1>1, <1>2 DEF LedgerInv
<1>5. LedgerTypes'
  BY <1>1, <1>2, <1>3, <1>4 DEF LedgerInv, LedgerTypes
<1>6. \A d \in Channels : History(d)' = History(d)
  BY <1>1 DEF History
<1>7. /\ \A u \in Tasks : Unsent(u)'
      /\ \A d \in Channels : InOrder(d)'
  <2>1. \A u \in Tasks : sending'[u] \in {sending[u], 0}
    BY <1>3
  <2>2. QED
    BY <1>1, <1>6, <2>1, SameHistory
<1>8. HeldOnce'
  BY <1>2, <1>3 DEF LedgerInv, HeldOnce
<1>9. ASSUME NEW k \in Issued' PROVE OnePlace(k)'
  <2>1. OnePlace(k) /\ k # 0 /\ issued[k] \in Message
    BY <1>2 DEF LedgerInv, LedgerTypes, Issued
  <2>2. issued[k].from \in Tasks
    BY <2>1 DEF Message
  <2>3. /\ InChannel(k)' <=> InChannel(k)
        /\ Handed(k)' <=> Handed(k)
        /\ Gone(k)' <=> Gone(k) \/ k = m \/ k = x
    BY <1>1, <2>1 DEF InChannel, Gone, Handed
  <2>4. /\ AtReceiver(k)' <=> AtReceiver(k) /\ k # m
        /\ k = m => AtReceiver(k)
    BY <1>0, <1>3, <2>1 DEF AtReceiver, LedgerInv, HeldOnce
  <2>5. /\ AtSender(k)' <=> AtSender(k) /\ k # x
        /\ k = x => AtSender(k)
    BY <1>0, <1>1, <1>2, <1>3, <2>1, <2>2 DEF AtSender
  <2>6. QED
    BY <2>1, <2>3, <2>4, <2>5 DEF OnePlace
<1>10. QED
  BY <1>4, <1>5, <1>7, <1>8, <1>9 DEF LedgerInv

\* The empty ledger.
LEMMA LedgerInitially == LedgerInit => LedgerInv
<1> SUFFICES ASSUME LedgerInit PROVE LedgerInv
  OBVIOUS
<1>1. LedgerTypes /\ Issued = {}
  BY DEF LedgerInit, LedgerTypes, Issued
<1>2. \A c \in Channels : History(c) = <<>>
  BY DEF LedgerInit, History
<1>3. QED
  BY <1>1, <1>2 DEF LedgerInit, LedgerInv, Unsent, InOrder, HeldOnce

\* Every step keeps the invariant of the ledger.
LEMMA LedgerSteps == LedgerInv /\ [LedgerNext]_ledgerVars => LedgerInv'
<1> SUFFICES ASSUME LedgerInv, [LedgerNext]_ledgerVars PROVE LedgerInv'
  OBVIOUS
<1>1. CASE LedgerNext
  BY <1>1, SendKeeps, HoldKeeps, ReleaseKeeps, ReceiveKeeps, FetchKeeps, HandOverKeeps, CancelKeeps
     DEF LedgerNext
<1>2. CASE UNCHANGED ledgerVars
  <2>1. UNCHANGED <<contents, sending, receiving, issued, taken, seen, dropped>>
    BY <1>2 DEF ledgerVars
  <2>2. Issued' = Issued /\ LedgerTypes' /\ HeldOnce' /\ (seen \cup dropped \subseteq Issued)'
    BY <2>1 DEF LedgerInv, LedgerTypes, Issued, HeldOnce
  <2>3. /\ \A u \in Tasks : Unsent(u)'
        /\ \A d \in Channels : InOrder(d)'
    BY <2>1, SameHistory DEF History
  <2>4. \A m \in Issued' : OnePlace(m)'
    BY <2>1, <2>2 DEF LedgerInv, OnePlace, AtSender, InChannel, AtReceiver, Handed, Gone
  <2>5. QED
    BY <2>2, <2>3, <2>4 DEF LedgerInv
<1>3. QED
  BY <1>1, <1>2

\* In every ledger each message is in exactly one place, and every channel
\* carries the messages of one sender in the order they were issued.
THEOREM LedgerIsExact == LedgerSpec => []LedgerInv
BY LedgerInitially, LedgerSteps, PTL DEF LedgerSpec

=============================================================================
