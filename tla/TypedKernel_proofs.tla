------------------------- MODULE TypedKernel_proofs -------------------------
(***************************************************************************)
(* The typed execution kernel, for any executions, shapes, queues,         *)
(* capacities and host tokens, the calls that fail included.               *)
(***************************************************************************)
EXTENDS TypedKernel, FiniteSetTheorems, WellFoundedInduction, TLAPS

----------------------------------------------------------------------------
(* Retain.  Induction is by the least counterexample. *)

\* A set of naturals has a least element.
LEMMA LeastNumber ==
  ASSUME NEW N \in SUBSET Nat, N # {}
  PROVE  \E n \in N : \A m \in N : n <= m
<1>1. PICK n \in N : \A m \in N : ~(<<m, n>> \in OpToRel(<, Nat))
  BY WFMin, NatLessThanWellFounded
<1>2. \A m \in N : ~(m < n)
  BY <1>1 DEF OpToRel
<1>3. QED
  BY <1>2

\* f lists what Retain keeps of every prefix of s, up to the k-th.
Keeps(f, s, S, k) ==
  f = [i \in 0..k |-> IF i = 0 THEN <<>>
                      ELSE IF s[i] \in S THEN Append(f[i - 1], s[i]) ELSE f[i - 1]]

\* There is such a list for every prefix.
LEMMA KeepsExists ==
  ASSUME NEW s, NEW S, NEW k \in Nat
  PROVE  \E f : Keeps(f, s, S, k)
<1> DEFINE Bad == {n \in Nat : ~\E f : Keeps(f, s, S, n)}
<1>1. SUFFICES ASSUME Bad # {} PROVE FALSE
  BY <1>1
<1>2. PICK n \in Bad : \A m \in Bad : n <= m
  BY <1>1, LeastNumber
<1>3. n # 0
  <2>1. PICK f : f = [i \in 0..0 |-> <<>>]
    OBVIOUS
  <2>2. Keeps(f, s, S, 0)
    BY <2>1 DEF Keeps
  <2>3. QED
    BY <2>2
<1>4. n - 1 \in Nat /\ n - 1 \notin Bad
  BY <1>2, <1>3
<1>5. PICK g : Keeps(g, s, S, n - 1)
  BY <1>4
<1>6. PICK f : f = [i \in 0..n |-> IF i = n THEN IF s[n] \in S THEN Append(g[n - 1], s[n]) ELSE g[n - 1]
                                   ELSE g[i]]
  OBVIOUS
<1>7. Keeps(f, s, S, n)
  <2>1. \A i \in 0..(n - 1) : g[i] = IF i = 0 THEN <<>>
                                    ELSE IF s[i] \in S THEN Append(g[i - 1], s[i]) ELSE g[i - 1]
    BY <1>5 DEF Keeps
  <2>2. n \in Nat
    BY <1>2
  <2>3. \A i \in 0..n : f[i] = IF i = 0 THEN <<>>
                              ELSE IF s[i] \in S THEN Append(f[i - 1], s[i]) ELSE f[i - 1]
    <3>1. ASSUME NEW i \in 0..n, i = n
          PROVE  f[i] = IF i = 0 THEN <<>>
                        ELSE IF s[i] \in S THEN Append(f[i - 1], s[i]) ELSE f[i - 1]
      <4>1. i - 1 \in 0..n /\ i - 1 # n /\ i # 0
        BY <1>3, <2>2, <3>1
      <4>2. f[i - 1] = g[i - 1]
        BY <1>6, <4>1
      <4>3. QED
        BY <1>6, <3>1, <4>1, <4>2
    <3>2. ASSUME NEW i \in 0..n, i # n
          PROVE  f[i] = IF i = 0 THEN <<>>
                        ELSE IF s[i] \in S THEN Append(f[i - 1], s[i]) ELSE f[i - 1]
      <4>1. i \in 0..(n - 1) /\ f[i] = g[i]
        BY <1>6, <2>2, <3>2
      <4>2. i # 0 => f[i - 1] = g[i - 1]
        BY <1>6, <2>2, <3>2
      <4>3. QED
        BY <2>1, <4>1, <4>2
    <3>3. QED
      BY <3>1, <3>2
  <2>4. QED
    BY <1>6, <2>3 DEF Keeps
<1>8. QED
  BY <1>2, <1>7

\* Retain reads its result from such a list.
LEMMA RetainKeeps ==
  ASSUME NEW s, NEW S, Len(s) \in Nat
  PROVE  \E f : Keeps(f, s, S, Len(s)) /\ Retain(s, S) = f[Len(s)]
<1>1. \E f : Keeps(f, s, S, Len(s))
  BY KeepsExists
<1>2. PICK g : g = CHOOSE f : Keeps(f, s, S, Len(s))
  OBVIOUS
<1>3. Keeps(g, s, S, Len(s))
  BY <1>1, <1>2
<1>4. Retain(s, S) = g[Len(s)]
  BY <1>2, Zenon DEF Retain, Keeps
<1>5. QED
  BY <1>3, <1>4

\* Lists of sequences that agree agree.
LEMMA KeepsAgree ==
  ASSUME NEW s, NEW t, NEW S, NEW f, NEW g, NEW k \in Nat, NEW l \in Nat, NEW m \in Nat,
         Keeps(f, s, S, k), Keeps(g, t, S, l), m <= k, m <= l, \A i \in 1..m : s[i] = t[i]
  PROVE  f[m] = g[m]
<1> DEFINE Bad == {n \in Nat : n <= m /\ f[n] # g[n]}
<1>1. SUFFICES ASSUME Bad # {} PROVE FALSE
  BY <1>1
<1>2. PICK n \in Bad : \A j \in Bad : n <= j
  BY <1>1, LeastNumber
<1>3. n \in 0..k /\ n \in 0..l
  BY <1>2
<1>6. f[n] = IF n = 0 THEN <<>> ELSE IF s[n] \in S THEN Append(f[n - 1], s[n]) ELSE f[n - 1]
  BY <1>3 DEF Keeps
<1>7. g[n] = IF n = 0 THEN <<>> ELSE IF t[n] \in S THEN Append(g[n - 1], t[n]) ELSE g[n - 1]
  BY <1>3 DEF Keeps
<1>4. n # 0 => f[n - 1] = g[n - 1] /\ s[n] = t[n]
  BY <1>2
<1>5. QED
  BY <1>2, <1>4, <1>6, <1>7

\* Retain of the empty sequence.
LEMMA RetainEmpty == ASSUME NEW S PROVE Retain(<<>>, S) = <<>>
<1>1. PICK f : Keeps(f, <<>>, S, Len(<<>>)) /\ Retain(<<>>, S) = f[Len(<<>>)]
  BY RetainKeeps
<1>2. Len(<<>>) = 0
  OBVIOUS
<1>3. f[0] = <<>>
  BY <1>1, <1>2 DEF Keeps
<1>4. QED
  BY <1>1, <1>2, <1>3

\* Retain of a longer sequence.
LEMMA RetainAppend ==
  ASSUME NEW T, NEW s \in Seq(T), NEW x \in T, NEW S
  PROVE  Retain(Append(s, x), S) = IF x \in S THEN Append(Retain(s, S), x) ELSE Retain(s, S)
<1>1. PICK k : k = Len(s) /\ k \in Nat
  OBVIOUS
<1>2. PICK t : t = Append(s, x)
  OBVIOUS
<1>8. Len(t) = k + 1 /\ t[k + 1] = x
  BY <1>1, <1>2
<1>9. \A i \in 1..k : s[i] = t[i]
  BY <1>1, <1>2
<1>10. k + 1 \in Nat /\ k + 1 \in 0..(k + 1) /\ k + 1 # 0 /\ (k + 1) - 1 = k /\ k <= k /\ k <= k + 1
  BY <1>1
<1>3. PICK f : Keeps(f, s, S, k) /\ Retain(s, S) = f[k]
  BY <1>1, RetainKeeps
<1>4. PICK g : Keeps(g, t, S, k + 1) /\ Retain(t, S) = g[k + 1]
  <2>1. Len(t) \in Nat
    BY <1>8, <1>10
  <2>2. \E g : Keeps(g, t, S, Len(t)) /\ Retain(t, S) = g[Len(t)]
    BY <2>1, RetainKeeps
  <2>3. QED
    BY <2>2, <1>8
<1>5. f[k] = g[k]
  <2>1. /\ k \in Nat /\ k + 1 \in Nat /\ k <= k /\ k <= k + 1
        /\ Keeps(f, s, S, k) /\ Keeps(g, t, S, k + 1)
        /\ \A i \in 1..k : s[i] = t[i]
    BY <1>1, <1>3, <1>4, <1>9, <1>10
  <2>2. QED
    BY <2>1, KeepsAgree
<1>6. g[k + 1] = IF t[k + 1] \in S THEN Append(g[k], t[k + 1]) ELSE g[k]
  <2>1. g[k + 1] = IF k + 1 = 0 THEN <<>>
                   ELSE IF t[k + 1] \in S THEN Append(g[(k + 1) - 1], t[k + 1]) ELSE g[(k + 1) - 1]
    BY <1>4, <1>10 DEF Keeps
  <2>2. QED
    BY <2>1, <1>10
<1>7. QED
  BY <1>2, <1>3, <1>4, <1>5, <1>6, <1>8

\* A nonempty sequence is a shorter one and its last element.
LEMMA SplitLast ==
  ASSUME NEW T, NEW s \in Seq(T), Len(s) # 0
  PROVE  \E t \in Seq(T), x \in T : s = Append(t, x) /\ Len(t) = Len(s) - 1
<1>1. PICK t : t = [i \in 1..(Len(s) - 1) |-> s[i]]
  OBVIOUS
<1>2. t \in Seq(T) /\ Len(t) = Len(s) - 1
  BY <1>1
<1>3. s[Len(s)] \in T
  OBVIOUS
<1>4. s = Append(t, s[Len(s)])
  BY <1>1, <1>2, <1>3
<1>5. QED
  BY <1>2, <1>3, <1>4

\* The elements of a longer sequence.
LEMMA RangeAppend ==
  ASSUME NEW T, NEW s \in Seq(T), NEW x \in T
  PROVE  Range(Append(s, x)) = Range(s) \cup {x}
<1>1. PICK k : k = Len(s) /\ k \in Nat
  OBVIOUS
<1>2. /\ DOMAIN Append(s, x) = 1..(k + 1) /\ Append(s, x)[k + 1] = x
      /\ \A i \in 1..k : Append(s, x)[i] = s[i]
      /\ DOMAIN s = 1..k
  BY <1>1
<1>3. QED
  BY <1>1, <1>2 DEF Range

\* A longer sequence without repetitions.
LEMMA InjectiveAppend ==
  ASSUME NEW T, NEW s \in Seq(T), NEW x \in T
  PROVE  IsInjective(Append(s, x)) <=> IsInjective(s) /\ x \notin Range(s)
<1>1. PICK k : k = Len(s) /\ k \in Nat
  OBVIOUS
<1>2. /\ DOMAIN Append(s, x) = 1..(k + 1) /\ Append(s, x)[k + 1] = x
      /\ \A i \in 1..k : Append(s, x)[i] = s[i]
      /\ DOMAIN s = 1..k
  BY <1>1
<1>3. ASSUME IsInjective(Append(s, x)) PROVE IsInjective(s) /\ x \notin Range(s)
  BY <1>1, <1>2, <1>3 DEF IsInjective, Range
<1>4. ASSUME IsInjective(s), x \notin Range(s) PROVE IsInjective(Append(s, x))
  <2>1. \A i \in 1..k : s[i] # x
    BY <1>2, <1>4 DEF Range
  <2>2. ASSUME NEW i \in 1..(k + 1), NEW j \in 1..(k + 1), Append(s, x)[i] = Append(s, x)[j]
        PROVE  i = j
    <3>1. CASE i = k + 1 /\ j = k + 1
      BY <3>1
    <3>2. CASE i = k + 1 /\ j # k + 1
      BY <1>1, <1>2, <2>1, <2>2, <3>2
    <3>3. CASE i # k + 1 /\ j = k + 1
      BY <1>1, <1>2, <2>1, <2>2, <3>3
    <3>4. CASE i # k + 1 /\ j # k + 1
      <4>1. i \in 1..k /\ j \in 1..k
        BY <1>1, <3>4
      <4>2. QED
        BY <1>2, <1>4, <2>2, <4>1 DEF IsInjective
    <3>5. QED
      BY <3>1, <3>2, <3>3, <3>4
  <2>3. QED
    BY <1>2, <2>2 DEF IsInjective
<1>5. QED
  BY <1>3, <1>4

\* What Retain returns.
LEMMA RetainFacts ==
  ASSUME NEW T, NEW s \in Seq(T), NEW S
  PROVE  /\ Retain(s, S) \in Seq(T)
         /\ Range(Retain(s, S)) = Range(s) \cap S
         /\ IsInjective(s) => IsInjective(Retain(s, S))
         /\ Range(s) \subseteq S => Retain(s, S) = s
<1> DEFINE Good(t) == /\ Retain(t, S) \in Seq(T)
                      /\ Range(Retain(t, S)) = Range(t) \cap S
                      /\ IsInjective(t) => IsInjective(Retain(t, S))
                      /\ Range(t) \subseteq S => Retain(t, S) = t
           Bad == {n \in Nat : \E t \in Seq(T) : Len(t) = n /\ ~Good(t)}
<1>1. Good(<<>>)
  <2>1. Retain(<<>>, S) = <<>>
    BY RetainEmpty
  <2>2. Range(<<>>) = {}
    BY DEF Range
  <2>3. <<>> \in Seq(T)
    OBVIOUS
  <2>4. IsInjective(<<>>)
    BY DEF IsInjective
  <2>5. Range(<<>>) = Range(<<>>) \cap S
    BY <2>2
  <2>6. QED
    BY <2>1, <2>3, <2>4, <2>5, Zenon
<1>2. ASSUME NEW t \in Seq(T), NEW x \in T, Good(t) PROVE Good(Append(t, x))
  <2>1. Range(Append(t, x)) = Range(t) \cup {x}
    BY RangeAppend
  <2>2. CASE x \in S
    <3>1. Retain(Append(t, x), S) = Append(Retain(t, S), x)
      BY <2>2, RetainAppend
    <3>2. Append(Retain(t, S), x) \in Seq(T)
      BY <1>2
    <3>3. Range(Append(Retain(t, S), x)) = Range(Retain(t, S)) \cup {x}
      BY <1>2, RangeAppend
    <3>4. Range(Append(Retain(t, S), x)) = Range(Append(t, x)) \cap S
      BY <1>2, <2>1, <2>2, <3>3
    <3>5. IsInjective(Append(t, x)) => IsInjective(Append(Retain(t, S), x))
      <4>1. IsInjective(Append(t, x)) <=> IsInjective(t) /\ x \notin Range(t)
        BY InjectiveAppend
      <4>2. IsInjective(Append(Retain(t, S), x)) <=>
              (IsInjective(Retain(t, S)) /\ x \notin Range(Retain(t, S)))
        BY <1>2, InjectiveAppend
      <4>3. QED
        BY <1>2, <4>1, <4>2
    <3>6. Range(Append(t, x)) \subseteq S => Append(Retain(t, S), x) = Append(t, x)
      BY <1>2, <2>1
    <3>7. QED
      BY <3>1, <3>2, <3>4, <3>5, <3>6
  <2>3. CASE x \notin S
    <3>1. Retain(Append(t, x), S) = Retain(t, S)
      BY <2>3, RetainAppend
    <3>2. IsInjective(Append(t, x)) => IsInjective(t)
      BY InjectiveAppend
    <3>3. ~(Range(Append(t, x)) \subseteq S)
      BY <2>1, <2>3
    <3>4. Range(t) \cap S = Range(Append(t, x)) \cap S
      BY <2>1, <2>3
    <3>5. QED
      BY <1>2, <3>1, <3>2, <3>3, <3>4
  <2>4. QED
    BY <2>2, <2>3
<1>3. SUFFICES Bad = {}
  <2> HIDE DEF Good
  <2>1. Len(s) \in Nat
    OBVIOUS
  <2>2. Good(s)
    BY <1>3, <2>1
  <2>3. QED
    BY <2>2 DEF Good
<1>4. SUFFICES ASSUME Bad # {} PROVE FALSE
  BY <1>4
<1>5. PICK n \in Bad : \A m \in Bad : n <= m
  <2> HIDE DEF Good
  <2>1. Bad \in SUBSET Nat
    OBVIOUS
  <2> HIDE DEF Bad
  <2>2. QED
    BY <1>4, <2>1, LeastNumber
<1>6. PICK t \in Seq(T) : Len(t) = n /\ ~Good(t)
  <2> HIDE DEF Good
  <2>1. QED
    BY <1>5
<1>7. CASE n = 0
  <2> HIDE DEF Good
  <2>1. t = <<>>
    BY <1>6, <1>7
  <2>2. QED
    BY <1>1, <1>6, <2>1
<1>8. CASE n # 0
  <2> HIDE DEF Good
  <2>1. PICK u \in Seq(T), x \in T : t = Append(u, x) /\ Len(u) = Len(t) - 1
    BY <1>6, <1>8, SplitLast
  <2>2. n \in Nat /\ n - 1 \in Nat /\ n - 1 < n
    BY <1>5, <1>8
  <2>3. n - 1 \notin Bad
    <3> HIDE DEF Bad
    <3>1. QED
      BY <1>5, <2>2
  <2>4. Good(u)
    BY <1>6, <2>1, <2>2, <2>3
  <2>5. QED
    BY <1>2, <1>6, <2>1, <2>4
<1>9. QED
  BY <1>7, <1>8

\* What Without returns.
LEMMA WithoutFacts ==
  ASSUME NEW T, NEW s \in Seq(T), NEW W
  PROVE  /\ Without(s, W) \in Seq(T)
         /\ Range(Without(s, W)) = Range(s) \ W
         /\ IsInjective(s) => IsInjective(Without(s, W))
         /\ Range(s) \cap W = {} => Without(s, W) = s
<1>1. Without(s, W) = Retain(s, Range(s) \ W)
  BY DEF Without
<1>2. /\ Retain(s, Range(s) \ W) \in Seq(T)
      /\ Range(Retain(s, Range(s) \ W)) = Range(s) \cap (Range(s) \ W)
      /\ IsInjective(s) => IsInjective(Retain(s, Range(s) \ W))
      /\ Range(s) \subseteq Range(s) \ W => Retain(s, Range(s) \ W) = s
  BY RetainFacts
<1>3. QED
  BY <1>1, <1>2

\* A sequence without elements.
LEMMA EmptyRange ==
  ASSUME NEW T, NEW s \in Seq(T)
  PROVE  (s = <<>>) <=> (Range(s) = {})
<1>1. s = <<>> => Range(s) = {}
  BY DEF Range
<1>2. ASSUME Range(s) = {} PROVE s = <<>>
  <2>1. Len(s) \in Nat /\ DOMAIN s = 1..Len(s)
    OBVIOUS
  <2>2. Len(s) # 0 => s[1] \in Range(s)
    BY <2>1 DEF Range
  <2>3. Len(s) = 0
    BY <1>2, <2>2
  <2>4. QED
    BY <2>3
<1>3. QED
  BY <1>1, <1>2

\* The elements of a sequence are of its element type.
LEMMA RangeType == ASSUME NEW T, NEW s \in Seq(T) PROVE Range(s) \subseteq T
  BY DEF Range

\* The head and the tail of a sequence.
LEMMA TailFacts ==
  ASSUME NEW T, NEW s \in Seq(T), s # <<>>
  PROVE  /\ Head(s) \in T /\ Head(s) \in Range(s) /\ Tail(s) \in Seq(T)
         /\ Len(Tail(s)) = Len(s) - 1
         /\ Range(s) = {Head(s)} \cup Range(Tail(s))
         /\ IsInjective(s) => (IsInjective(Tail(s)) /\ Head(s) \notin Range(Tail(s)))
<1>1. PICK k : k = Len(s) /\ k \in Nat /\ k # 0
  OBVIOUS
<1>2. /\ DOMAIN s = 1..k /\ Head(s) = s[1] /\ Tail(s) \in Seq(T) /\ Len(Tail(s)) = k - 1
      /\ DOMAIN Tail(s) = 1..(k - 1)
  BY <1>1
<1>3. \A i \in 1..(k - 1) : Tail(s)[i] = s[i + 1]
  BY <1>1
<1>4. Head(s) \in T /\ Head(s) \in Range(s)
  BY <1>1, <1>2 DEF Range
<1>5. Range(Tail(s)) \subseteq Range(s)
  BY <1>1, <1>2, <1>3 DEF Range
<1>6. Range(s) \subseteq {Head(s)} \cup Range(Tail(s))
  <2>1. ASSUME NEW i \in 1..k PROVE s[i] \in {Head(s)} \cup Range(Tail(s))
    <3>1. CASE i = 1
      BY <3>1, <1>2
    <3>2. CASE i # 1
      <4>1. i - 1 \in 1..(k - 1) /\ (i - 1) + 1 = i
        BY <1>1, <3>2
      <4>2. Tail(s)[i - 1] = s[i]
        BY <1>3, <4>1
      <4>3. QED
        BY <1>2, <4>1, <4>2 DEF Range
    <3>3. QED
      BY <3>1, <3>2
  <2>2. QED
    BY <1>2, <2>1 DEF Range
<1>7. ASSUME IsInjective(s) PROVE IsInjective(Tail(s)) /\ Head(s) \notin Range(Tail(s))
  <2>1. \A i, j \in 1..k : s[i] = s[j] => i = j
    BY <1>2, <1>7 DEF IsInjective
  <2>2. \A i \in 1..(k - 1) : i + 1 \in 1..k /\ i + 1 # 1
    BY <1>1
  <2>3. Head(s) \notin Range(Tail(s))
    <3>1. 1 \in 1..k
      BY <1>1
    <3>2. \A i \in 1..(k - 1) : Tail(s)[i] # Head(s)
      BY <1>2, <1>3, <2>1, <2>2, <3>1
    <3>3. QED
      BY <1>2, <3>2 DEF Range
  <2>4. \A i, j \in 1..(k - 1) : Tail(s)[i] = Tail(s)[j] => i = j
    BY <1>1, <1>3, <2>1, <2>2
  <2>5. QED
    BY <1>2, <2>3, <2>4 DEF IsInjective
<1>8. QED
  BY <1>1, <1>2, <1>4, <1>5, <1>6, <1>7

----------------------------------------------------------------------------
(* Executions. *)

Statuses == {"Ready", "Waiting"} \cup Terminal
ExecutionRecord == [state : Nat, status : Statuses, site : Nat, generation : Nat,
                    submitted : BOOLEAN]

\* Edge j of state n is the only one for outcome a, and it does not block.
CommitsBy(e, n, a, j) ==
  /\ Shape[e].states[n][j].arm = a
  /\ Shape[e].states[n][j].out # "Blocked"
  /\ \A i \in DOMAIN Shape[e].states[n] : Shape[e].states[n][i].arm = a => i = j

\* The outcomes of a site: its arms, or 0.
Outcome(e, k, a) ==
  /\ a \in {0} \cup DOMAIN Shape[e].sites[k].arms
  /\ (a = 0) = (Shape[e].sites[k].kind # "select")

\* An execution is in a state of its shape; while it waits on a site, its state
\* has the edge of every outcome of that site.
ExecOK(e, x) ==
  /\ x \in ExecutionRecord
  /\ x.state \in DOMAIN Shape[e].states
  /\ x.status = "Waiting" =>
       /\ x.site \in DOMAIN Shape[e].sites
       /\ \A a : Outcome(e, x.site, a) =>
            \E j \in DOMAIN Shape[e].states[x.state] : CommitsBy(e, x.state, a, j)

ExecsOK(x) == DOMAIN x = Executions /\ x = [e \in Executions |-> x[e]]
                /\ \A e \in Executions : ExecOK(e, x[e])

\* What the assumptions say of an edge.
LEMMA EdgeFacts ==
  ASSUME NEW e \in Executions, NEW n \in DOMAIN Shape[e].states,
         NEW i \in DOMAIN Shape[e].states[n]
  PROVE  LET edge == Shape[e].states[n][i] IN
         /\ edge.out \in {"Continue", "Blocked"} \cup Terminal
         /\ edge.next \in Nat /\ edge.site \in Nat
         /\ edge.out \in {"Continue", "Blocked"} => edge.next \in DOMAIN Shape[e].states
         /\ edge.out = "Blocked" =>
              /\ edge.site \in DOMAIN Shape[e].sites
              /\ \A a : Outcome(e, edge.site, a) =>
                   \E j \in DOMAIN Shape[e].states[edge.next] : CommitsBy(e, edge.next, a, j)
<1> DEFINE E == [arm : Nat, out : {"Continue", "Blocked"} \cup Terminal, next : Nat, site : Nat]
<1>1. PICK ss : ss = Shape[e].states
  OBVIOUS
<1>2. ss \in Seq(Seq(E))
  BY <1>1, VectorAssumption
<1>3. ss[n] \in Seq(E)
  BY <1>1, <1>2
<1>4. ss[n][i] \in E
  <2>1. PICK t : t = ss[n]
    OBVIOUS
  <2>2. t \in Seq(E) /\ i \in DOMAIN t
    BY <1>1, <1>3, <2>1
  <2> HIDE DEF E
  <2>3. t[i] \in E
    BY <2>2
  <2>4. QED
    BY <2>1, <2>3
<1>5. /\ ss[n][i].out \in {"Continue", "Blocked"} \cup Terminal
      /\ ss[n][i].next \in Nat /\ ss[n][i].site \in Nat
  BY <1>4
<1>6. /\ ss[n][i].out \in {"Continue", "Blocked"} => ss[n][i].next \in DOMAIN ss
      /\ ss[n][i].out = "Blocked" => ss[n][i].site \in DOMAIN Shape[e].sites
  BY <1>1, ShapeAssumption
<1>7. ASSUME ss[n][i].out = "Blocked", NEW a, Outcome(e, ss[n][i].site, a)
      PROVE  \E j \in DOMAIN ss[ss[n][i].next] : CommitsBy(e, ss[n][i].next, a, j)
  <2>3. Shape[e].states[n][i].out = "Blocked" =>
         (\A b \in {0} \cup DOMAIN Shape[e].sites[Shape[e].states[n][i].site].arms :
              ((b = 0) = (Shape[e].sites[Shape[e].states[n][i].site].kind # "select")) =>
                \E j \in DOMAIN Shape[e].states[Shape[e].states[n][i].next] :
                  /\ Shape[e].states[Shape[e].states[n][i].next][j].arm = b
                  /\ Shape[e].states[Shape[e].states[n][i].next][j].out # "Blocked"
                  /\ \A i2 \in DOMAIN Shape[e].states[Shape[e].states[n][i].next] :
                       Shape[e].states[Shape[e].states[n][i].next][i2].arm = b => i2 = j)
    BY LoweringAssumption, Zenon
  <2> DEFINE edge == Shape[e].states[n][i]
  <2>5. /\ edge.out = "Blocked"
        /\ a \in {0} \cup DOMAIN Shape[e].sites[edge.site].arms
        /\ (a = 0) = (Shape[e].sites[edge.site].kind # "select")
    BY <1>1, <1>7 DEF Outcome
  <2>6. \E j \in DOMAIN Shape[e].states[edge.next] :
              /\ Shape[e].states[edge.next][j].arm = a
              /\ Shape[e].states[edge.next][j].out # "Blocked"
              /\ \A i2 \in DOMAIN Shape[e].states[edge.next] :
                       Shape[e].states[edge.next][i2].arm = a => i2 = j
    BY <2>3, <2>5, Zenon
  <2>7. \E j \in DOMAIN Shape[e].states[edge.next] : CommitsBy(e, edge.next, a, j)
    BY <2>6, Zenon DEF CommitsBy
  <2>2. QED
    BY <1>1, <2>7
<1>8. QED
  BY <1>1, <1>5, <1>6, <1>7

\* turn_selected, for the three kinds of edges.
LEMMA FollowFacts ==
  ASSUME NEW e \in Executions, NEW x, ExecOK(e, x), NEW i \in DOMAIN Shape[e].states[x.state]
  PROVE  LET y == Follow(e, x, i) IN
         /\ ExecOK(e, y)
         /\ Shape[e].states[x.state][i].out # "Blocked" =>
              (y.status # "Waiting" /\ y.generation = x.generation)
         /\ y.status = "Waiting" =>
              (x.status = "Waiting" \/ (y.generation = x.generation + 1 /\ ~y.submitted))
         /\ y.generation = x.generation \/ y.generation = x.generation + 1
<1>1. PICK edge : edge = Shape[e].states[x.state][i]
  OBVIOUS
<1>2. x.state \in DOMAIN Shape[e].states /\ x \in ExecutionRecord
  BY DEF ExecOK
<1>3. /\ edge.out \in {"Continue", "Blocked"} \cup Terminal
      /\ edge.next \in Nat /\ edge.site \in Nat
      /\ edge.out \in {"Continue", "Blocked"} => edge.next \in DOMAIN Shape[e].states
      /\ edge.out = "Blocked" =>
           /\ edge.site \in DOMAIN Shape[e].sites
           /\ \A a : Outcome(e, edge.site, a) =>
                \E j \in DOMAIN Shape[e].states[edge.next] : CommitsBy(e, edge.next, a, j)
  BY <1>1, <1>2, EdgeFacts
<1>4. /\ x.state \in Nat /\ x.status \in Statuses /\ x.site \in Nat /\ x.generation \in Nat
      /\ x.submitted \in BOOLEAN
  BY <1>2 DEF ExecutionRecord
<1>5. x = [state |-> x.state, status |-> x.status, site |-> x.site,
           generation |-> x.generation, submitted |-> x.submitted]
  BY <1>2 DEF ExecutionRecord
<1>6. CASE edge.out = "Continue"
  <2>1. Follow(e, x, i) = [x EXCEPT !.state = edge.next, !.status = "Ready"]
    BY <1>1, <1>6 DEF Follow
  <2>2. Follow(e, x, i) = [state |-> edge.next, status |-> "Ready", site |-> x.site,
                           generation |-> x.generation, submitted |-> x.submitted]
    BY <1>5, <2>1
  <2>3. Follow(e, x, i) \in ExecutionRecord
    BY <1>3, <1>4, <2>2 DEF ExecutionRecord, Statuses
  <2>4. ExecOK(e, Follow(e, x, i))
    BY <1>3, <1>6, <2>2, <2>3 DEF ExecOK
  <2>5. QED
    BY <1>1, <1>4, <2>2, <2>4
<1>7. CASE edge.out = "Blocked"
  <2>1. Follow(e, x, i) = [x EXCEPT !.state = edge.next, !.status = "Waiting",
                                    !.site = edge.site, !.submitted = FALSE,
                                    !.generation = @ + 1]
    BY <1>1, <1>7 DEF Follow
  <2>2. Follow(e, x, i) = [state |-> edge.next, status |-> "Waiting", site |-> edge.site,
                           generation |-> x.generation + 1, submitted |-> FALSE]
    BY <1>5, <2>1
  <2>3. Follow(e, x, i) \in ExecutionRecord
    BY <1>3, <1>4, <2>2 DEF ExecutionRecord, Statuses
  <2>4. ExecOK(e, Follow(e, x, i))
    BY <1>3, <1>7, <2>2, <2>3 DEF ExecOK
  <2>5. QED
    BY <1>1, <1>4, <1>7, <2>2, <2>4
<1>8. CASE edge.out \in Terminal
  <2>1. Follow(e, x, i) = [x EXCEPT !.status = edge.out]
    BY <1>1, <1>8 DEF Follow, Terminal
  <2>2. Follow(e, x, i) = [state |-> x.state, status |-> edge.out, site |-> x.site,
                           generation |-> x.generation, submitted |-> x.submitted]
    BY <1>5, <2>1
  <2>3. Follow(e, x, i) \in ExecutionRecord
    BY <1>3, <1>4, <1>8, <2>2 DEF ExecutionRecord, Statuses
  <2>4. edge.out # "Waiting"
    BY <1>8 DEF Terminal
  <2>5. ExecOK(e, Follow(e, x, i))
    BY <1>2, <2>2, <2>3, <2>4 DEF ExecOK
  <2>6. QED
    BY <1>1, <1>4, <2>2, <2>4, <2>5
<1>9. QED
  BY <1>3, <1>6, <1>7, <1>8

\* commit_operation of a wait whose execution waits on a site with its outcome:
\* that execution leaves its wait, the others are not touched.
LEMMA CommitFacts ==
  ASSUME NEW x, ExecsOK(x), NEW w, w.execution \in Executions,
         x[w.execution].status = "Waiting",
         Outcome(w.execution, x[w.execution].site, w.arm)
  PROVE  LET y == commit_operation(x, w) IN
         /\ ExecsOK(y)
         /\ y[w.execution].status # "Waiting"
         /\ y[w.execution].generation = x[w.execution].generation
         /\ \A e \in Executions : e # w.execution => y[e] = x[e]
<1>1. PICK e : e = w.execution
  OBVIOUS
<1>2. PICK r : r = x[e]
  OBVIOUS
<1>3. ExecOK(e, r) /\ e \in Executions
  BY <1>1, <1>2 DEF ExecsOK
<1>4. PICK j \in DOMAIN Shape[e].states[r.state] : CommitsBy(e, r.state, w.arm, j)
  BY <1>1, <1>2, <1>3 DEF ExecOK
<1>5. matching_commit_transition(e, r, w.arm) = j
  BY <1>4 DEF CommitsBy, matching_commit_transition
<1>6. PICK f : f = Follow(e, r, j)
  OBVIOUS
<1>7. ExecOK(e, f) /\ f.status # "Waiting" /\ f.generation = r.generation
  BY <1>3, <1>4, <1>6, FollowFacts DEF CommitsBy
<1>8. commit_operation(x, w) = [x EXCEPT ![e] = f]
  BY <1>1, <1>2, <1>5, <1>6 DEF commit_operation
<1>9. /\ commit_operation(x, w) = [d \in Executions |-> IF d = e THEN f ELSE x[d]]
  BY <1>1, <1>8 DEF ExecsOK
<1>10. PICK y : y = commit_operation(x, w)
  OBVIOUS
<1>11. /\ DOMAIN y = Executions /\ y = [d \in Executions |-> y[d]] /\ y[e] = f
       /\ \A d \in Executions : d # e => y[d] = x[d]
  BY <1>3, <1>9, <1>10
<1>12. ExecsOK(y)
  BY <1>7, <1>11 DEF ExecsOK
<1>13. QED
  BY <1>1, <1>2, <1>7, <1>10, <1>11, <1>12

----------------------------------------------------------------------------
(* Queues. *)

QueueRecord == [payloads : Seq(Payload), send_waiters : Seq(Wait),
                receive_waiters : Seq(Wait), closed : BOOLEAN]

Record(p, s, t, c) == [payloads |-> p, send_waiters |-> s, receive_waiters |-> t, closed |-> c]

\* The conjunct of QueuesSettled for one queue.
Settled(q, r) ==
  /\ r.receive_waiters # <<>> => (r.payloads = <<>> /\ r.send_waiters = <<>>)
  /\ r.send_waiters # <<>> => ~has_buffer_capacity(q, r)
  /\ r.closed => (r.receive_waiters = <<>> /\ r.send_waiters = <<>>)

\* A registration on queue q in direction d names a site, or an arm, of that
\* queue and direction.
WaitOK(w, q, d) ==
  /\ w \in Wait
  /\ w.operation \in DOMAIN Shape[w.execution].sites
  /\ w.arm = 0 => /\ Shape[w.execution].sites[w.operation].kind = d
                  /\ Shape[w.execution].sites[w.operation].queue = q
  /\ w.arm # 0 => /\ Shape[w.execution].sites[w.operation].kind = "select"
                  /\ w.arm \in DOMAIN Shape[w.execution].sites[w.operation].arms
                  /\ Shape[w.execution].sites[w.operation].arms[w.arm]
                       = [direction |-> d, queue |-> q]

QueueOK(q, r) ==
  /\ r \in QueueRecord
  /\ Settled(q, r)
  /\ \A w \in Range(r.send_waiters) : WaitOK(w, q, "send")
  /\ \A w \in Range(r.receive_waiters) : WaitOK(w, q, "receive")

\* The fields of a queue.
LEMMA QueueFields ==
  ASSUME NEW r \in QueueRecord
  PROVE  /\ r = Record(r.payloads, r.send_waiters, r.receive_waiters, r.closed)
         /\ r.payloads \in Seq(Payload) /\ r.send_waiters \in Seq(Wait)
         /\ r.receive_waiters \in Seq(Wait) /\ r.closed \in BOOLEAN
  BY DEF QueueRecord, Record

\* A queue of given fields.
LEMMA RecordFields ==
  ASSUME NEW p \in Seq(Payload), NEW s \in Seq(Wait), NEW t \in Seq(Wait), NEW c \in BOOLEAN
  PROVE  LET r == Record(p, s, t, c) IN
         /\ r \in QueueRecord
         /\ r.payloads = p /\ r.send_waiters = s /\ r.receive_waiters = t /\ r.closed = c
  BY DEF QueueRecord, Record

\* What each call does to the fields.
LEMMA SendRecord ==
  ASSUME NEW r \in QueueRecord, NEW p
  PROVE  /\ r.receive_waiters # <<>> =>
              send(r, p) = Record(r.payloads, r.send_waiters, Tail(r.receive_waiters), r.closed)
         /\ r.receive_waiters = <<>> =>
              send(r, p) = Record(Append(r.payloads, p), r.send_waiters, r.receive_waiters, r.closed)
<1>1. r = Record(r.payloads, r.send_waiters, r.receive_waiters, r.closed)
  BY QueueFields
<1>2. QED
  BY <1>1 DEF send, Record

\* What receive makes of a queue record.
LEMMA ReceiveRecord ==
  ASSUME NEW q, NEW r \in QueueRecord
  PROVE  /\ (r.payloads # <<>> /\ promotes(q, r)) =>
              receive(q, r) = Record(Append(Tail(r.payloads), PayloadOf(Head(r.send_waiters))),
                                     Tail(r.send_waiters), r.receive_waiters, r.closed)
         /\ (r.payloads # <<>> /\ ~promotes(q, r)) =>
              receive(q, r) = Record(Tail(r.payloads), r.send_waiters, r.receive_waiters, r.closed)
         /\ r.payloads = <<>> =>
              receive(q, r) = Record(r.payloads, Tail(r.send_waiters), r.receive_waiters, r.closed)
<1>1. r = Record(r.payloads, r.send_waiters, r.receive_waiters, r.closed)
  BY QueueFields
<1>2. ASSUME r.payloads # <<>>, promotes(q, r)
      PROVE  receive(q, r) = Record(Append(Tail(r.payloads), PayloadOf(Head(r.send_waiters))),
                                    Tail(r.send_waiters), r.receive_waiters, r.closed)
  <2>1. receive(q, r) = [r EXCEPT !.payloads = Append(Tail(@), PayloadOf(Head(r.send_waiters))),
                                  !.send_waiters = Tail(@)]
    BY <1>2 DEF receive, promote_one_sender
  <2>2. QED
    BY <1>1, <2>1 DEF Record
<1>3. ASSUME r.payloads # <<>>, ~promotes(q, r)
      PROVE  receive(q, r) = Record(Tail(r.payloads), r.send_waiters, r.receive_waiters, r.closed)
  <2>1. receive(q, r) = [r EXCEPT !.payloads = Tail(@)]
    BY <1>3 DEF receive, promote_one_sender
  <2>2. QED
    BY <1>1, <2>1 DEF Record
<1>4. ASSUME r.payloads = <<>>
      PROVE  receive(q, r) = Record(r.payloads, Tail(r.send_waiters), r.receive_waiters, r.closed)
  <2>1. receive(q, r) = [r EXCEPT !.send_waiters = Tail(@)]
    BY <1>4 DEF receive
  <2>2. QED
    BY <1>1, <2>1 DEF Record
<1>5. QED
  BY <1>2, <1>3, <1>4

\* What the other calls make of a queue record.
LEMMA OtherRecords ==
  ASSUME NEW r \in QueueRecord, NEW w, NEW W
  PROVE  /\ register_send(r, w)
              = Record(r.payloads, Append(r.send_waiters, w), r.receive_waiters, r.closed)
         /\ register_receive(r, w)
              = Record(r.payloads, r.send_waiters, Append(r.receive_waiters, w), r.closed)
         /\ cancel(r, W)
              = Record(r.payloads, Without(r.send_waiters, W), Without(r.receive_waiters, W), r.closed)
         /\ close(r) = Record(r.payloads, <<>>, <<>>, TRUE)
<1>1. r = Record(r.payloads, r.send_waiters, r.receive_waiters, r.closed)
  BY QueueFields
<1>2. register_send(r, w)
        = Record(r.payloads, Append(r.send_waiters, w), r.receive_waiters, r.closed)
  BY <1>1, SMTT(20) DEF register_send, Record
<1>3. register_receive(r, w)
        = Record(r.payloads, r.send_waiters, Append(r.receive_waiters, w), r.closed)
  BY <1>1 DEF register_receive, Record
<1>4. cancel(r, W)
        = Record(r.payloads, Without(r.send_waiters, W), Without(r.receive_waiters, W), r.closed)
  <2>1. PICK a, b, c, d : r = [payloads |-> a, send_waiters |-> b, receive_waiters |-> c, closed |-> d]
    BY <1>1 DEF Record
  <2>2. cancel(r, W) = [payloads |-> a, send_waiters |-> Without(b, W),
                        receive_waiters |-> Without(c, W), closed |-> d]
    <3>1. PICK v : v = [r EXCEPT !.send_waiters = Without(@, W)]
      OBVIOUS
    <3>2. v = [payloads |-> a, send_waiters |-> Without(b, W), receive_waiters |-> c, closed |-> d]
      BY <2>1, <3>1
    <3>3. cancel(r, W) = [v EXCEPT !.receive_waiters = Without(@, W)]
      BY <2>1, <3>1, <3>2 DEF cancel
    <3>4. QED
      BY <3>2, <3>3
  <2>3. QED
    BY <2>1, <2>2 DEF Record
<1>5. close(r) = Record(r.payloads, <<>>, <<>>, TRUE)
  <2>1. PICK a, b, c, d : r = [payloads |-> a, send_waiters |-> b, receive_waiters |-> c, closed |-> d]
    BY <1>1 DEF Record
  <2>2. close(r) = [payloads |-> a, send_waiters |-> <<>>, receive_waiters |-> <<>>, closed |-> TRUE]
    <3>1. PICK v : v = [r EXCEPT !.closed = TRUE]
      OBVIOUS
    <3>2. v = [payloads |-> a, send_waiters |-> b, receive_waiters |-> c, closed |-> TRUE]
      BY <2>1, <3>1
    <3>3. close(r) = [v EXCEPT !.send_waiters = <<>>, !.receive_waiters = <<>>]
      BY <2>1, <3>1, <3>2 DEF close
    <3>4. QED
      BY <3>2, <3>3
  <2>3. QED
    BY <2>1, <2>2 DEF Record
<1>6. QED
  BY <1>2, <1>3, <1>4, <1>5

\* Capacity depends on the number of payloads only.
LEMMA CapacityFacts ==
  ASSUME NEW q \in Queues, NEW r \in QueueRecord
  PROVE  /\ Capacity[q] \in Nat \cup {Dynamic}
         /\ has_buffer_capacity(q, r) <=> (Capacity[q] = Dynamic \/ Len(r.payloads) < Capacity[q])
         /\ r.payloads # <<>> =>
              (promotes(q, r) <=> (/\ Capacity[q] = Dynamic \/ Len(r.payloads) - 1 < Capacity[q]
                                   /\ r.send_waiters # <<>>))
<1>1. Capacity[q] \in Nat \cup {Dynamic}
  BY ShapeAssumption
<1>2. has_buffer_capacity(q, r) <=> (Capacity[q] = Dynamic \/ Len(r.payloads) < Capacity[q])
  BY DEF has_buffer_capacity
<1>3. ASSUME r.payloads # <<>>
      PROVE  promotes(q, r) <=> (/\ Capacity[q] = Dynamic \/ Len(r.payloads) - 1 < Capacity[q]
                                 /\ r.send_waiters # <<>>)
  <2>1. Len(Tail(r.payloads)) = Len(r.payloads) - 1
    BY <1>3, QueueFields, TailFacts
  <2>2. [r EXCEPT !.payloads = Tail(@)].payloads = Tail(r.payloads)
    BY QueueFields DEF Record
  <2>3. QED
    BY <2>1, <2>2 DEF promotes, has_buffer_capacity
<1>4. QED
  BY <1>1, <1>2, <1>3

\* A queue is well formed when its fields are.
LEMMA BuildQueueOK ==
  ASSUME NEW q \in Queues,
         NEW p \in Seq(Payload), NEW s \in Seq(Wait), NEW t \in Seq(Wait), NEW c \in BOOLEAN,
         t # <<>> => (p = <<>> /\ s = <<>>),
         s # <<>> => ~(Capacity[q] = Dynamic \/ Len(p) < Capacity[q]),
         c => (t = <<>> /\ s = <<>>),
         \A w \in Range(s) : WaitOK(w, q, "send"),
         \A w \in Range(t) : WaitOK(w, q, "receive")
  PROVE  QueueOK(q, Record(p, s, t, c))
<1>1. PICK r : r = Record(p, s, t, c)
  OBVIOUS
<1>2. /\ r \in QueueRecord
      /\ r.payloads = p /\ r.send_waiters = s /\ r.receive_waiters = t /\ r.closed = c
  BY <1>1, RecordFields
<1>3. Settled(q, r)
  BY <1>2 DEF Settled, has_buffer_capacity
<1>4. QED
  BY <1>1, <1>2, <1>3 DEF QueueOK

\* What a well formed queue says of its fields.
LEMMA QueueOKFields ==
  ASSUME NEW q \in Queues, NEW r, QueueOK(q, r)
  PROVE  /\ r.payloads \in Seq(Payload) /\ r.send_waiters \in Seq(Wait)
         /\ r.receive_waiters \in Seq(Wait) /\ r.closed \in BOOLEAN
         /\ r.receive_waiters # <<>> => (r.payloads = <<>> /\ r.send_waiters = <<>>)
         /\ r.send_waiters # <<>> => ~(Capacity[q] = Dynamic \/ Len(r.payloads) < Capacity[q])
         /\ r.closed => (r.receive_waiters = <<>> /\ r.send_waiters = <<>>)
         /\ \A w \in Range(r.send_waiters) : WaitOK(w, q, "send")
         /\ \A w \in Range(r.receive_waiters) : WaitOK(w, q, "receive")
<1>1. r \in QueueRecord
  BY DEF QueueOK
<1>2. QED
  BY <1>1, QueueFields DEF QueueOK, Settled, has_buffer_capacity

\* PayloadOf names a payload.
LEMMA PayloadType == ASSUME NEW w \in Wait PROVE PayloadOf(w) \in Payload
<1>1. w.execution \in Executions /\ w.generation \in Nat /\ w.arm \in Nat
  BY DEF Wait
<1>2. QED
  BY <1>1 DEF PayloadOf, Payload

\* send on an open queue that does not block.
LEMMA SendOK ==
  ASSUME NEW q \in Queues, NEW r, QueueOK(q, r), NEW p \in Payload, ~r.closed, ~SendBlocks(q, r)
  PROVE  QueueOK(q, send(r, p))
<1>1. r \in QueueRecord
  BY DEF QueueOK
<1> DEFINE a == r.payloads  b == r.send_waiters  c == r.receive_waiters  d == r.closed
<1>2. /\ a \in Seq(Payload) /\ b \in Seq(Wait) /\ c \in Seq(Wait) /\ d \in BOOLEAN
      /\ c # <<>> => (a = <<>> /\ b = <<>>)
      /\ b # <<>> => ~(Capacity[q] = Dynamic \/ Len(a) < Capacity[q])
      /\ \A w \in Range(b) : WaitOK(w, q, "send")
      /\ \A w \in Range(c) : WaitOK(w, q, "receive")
  BY QueueOKFields
<1>3. CASE c # <<>>
  <2>1. send(r, p) = Record(a, b, Tail(c), d)
    BY <1>1, <1>3, SendRecord
  <2>2. Tail(c) \in Seq(Wait) /\ Range(Tail(c)) \subseteq Range(c)
    BY <1>2, <1>3, TailFacts
  <2>3. \A w \in Range(Tail(c)) : WaitOK(w, q, "receive")
    BY <1>2, <2>2
  <2>4. a = <<>> /\ b = <<>> /\ ~d
    BY <1>2, <1>3
  <2> HIDE DEF a, b, c, d
  <2>5. QueueOK(q, Record(a, b, Tail(c), d))
    BY <1>2, <2>2, <2>3, <2>4, BuildQueueOK
  <2>6. QED
    BY <2>1, <2>5
<1>4. CASE c = <<>>
  <2>1. send(r, p) = Record(Append(a, p), b, c, d)
    BY <1>1, <1>4, SendRecord
  <2>2. has_buffer_capacity(q, r)
    BY <1>4 DEF SendBlocks
  <2>3. b = <<>>
    BY <1>2, <2>2 DEF has_buffer_capacity
  <2>4. Append(a, p) \in Seq(Payload)
    BY <1>2
  <2> HIDE DEF a, b, c, d
  <2>5. QueueOK(q, Record(Append(a, p), b, c, d))
    BY <1>2, <1>4, <2>3, <2>4, BuildQueueOK
  <2>6. QED
    BY <2>1, <2>5
<1>5. QED
  BY <1>3, <1>4

\* register_send and register_receive of a wait that blocks.
LEMMA RegisterSendOK ==
  ASSUME NEW q \in Queues, NEW r, QueueOK(q, r), NEW w, WaitOK(w, q, "send"), SendBlocks(q, r)
  PROVE  QueueOK(q, register_send(r, w))
<1>1. r \in QueueRecord
  BY DEF QueueOK
<1> DEFINE a == r.payloads  b == r.send_waiters  c == r.receive_waiters  d == r.closed
<1>2. /\ a \in Seq(Payload) /\ b \in Seq(Wait) /\ c \in Seq(Wait) /\ d \in BOOLEAN
      /\ \A v \in Range(b) : WaitOK(v, q, "send")
      /\ \A v \in Range(c) : WaitOK(v, q, "receive")
  BY QueueOKFields
<1>3. register_send(r, w) = Record(a, Append(b, w), c, d)
  BY <1>1, OtherRecords
<1>4. w \in Wait
  BY DEF WaitOK
<1>5. Append(b, w) \in Seq(Wait) /\ Range(Append(b, w)) = Range(b) \cup {w}
  BY <1>2, <1>4, RangeAppend
<1>6. c = <<>> /\ ~d /\ ~(Capacity[q] = Dynamic \/ Len(a) < Capacity[q])
  BY DEF SendBlocks, has_buffer_capacity
<1>7. \A v \in Range(Append(b, w)) : WaitOK(v, q, "send")
  BY <1>2, <1>5
<1> HIDE DEF a, b, c, d
<1>8. QueueOK(q, Record(a, Append(b, w), c, d))
  BY <1>2, <1>5, <1>6, <1>7, BuildQueueOK
<1>9. QED
  BY <1>3, <1>8

\* register_receive, when the probe blocks.
LEMMA RegisterReceiveOK ==
  ASSUME NEW q \in Queues, NEW r, QueueOK(q, r), NEW w, WaitOK(w, q, "receive"), ReceiveBlocks(r)
  PROVE  QueueOK(q, register_receive(r, w))
<1>1. r \in QueueRecord
  BY DEF QueueOK
<1> DEFINE a == r.payloads  b == r.send_waiters  c == r.receive_waiters  d == r.closed
<1>2. /\ a \in Seq(Payload) /\ b \in Seq(Wait) /\ c \in Seq(Wait) /\ d \in BOOLEAN
      /\ \A v \in Range(b) : WaitOK(v, q, "send")
      /\ \A v \in Range(c) : WaitOK(v, q, "receive")
  BY QueueOKFields
<1>3. register_receive(r, w) = Record(a, b, Append(c, w), d)
  BY <1>1, OtherRecords
<1>4. w \in Wait
  BY DEF WaitOK
<1>5. Append(c, w) \in Seq(Wait) /\ Range(Append(c, w)) = Range(c) \cup {w}
  BY <1>2, <1>4, RangeAppend
<1>6. a = <<>> /\ b = <<>> /\ ~d
  BY DEF ReceiveBlocks
<1>7. \A v \in Range(Append(c, w)) : WaitOK(v, q, "receive")
  BY <1>2, <1>5
<1> HIDE DEF a, b, c, d
<1>8. QueueOK(q, Record(a, b, Append(c, w), d))
  BY <1>2, <1>5, <1>6, <1>7, BuildQueueOK
<1>9. QED
  BY <1>3, <1>8

\* receive of a payload.
LEMMA ReceiveOK ==
  ASSUME NEW q \in Queues, NEW r, QueueOK(q, r), r.payloads # <<>> \/ r.send_waiters # <<>>
  PROVE  QueueOK(q, receive(q, r))
<1>1. r \in QueueRecord
  BY DEF QueueOK
<1> DEFINE a == r.payloads  b == r.send_waiters  c == r.receive_waiters  d == r.closed
<1>2. /\ a \in Seq(Payload) /\ b \in Seq(Wait) /\ c \in Seq(Wait) /\ d \in BOOLEAN
      /\ c # <<>> => (a = <<>> /\ b = <<>>)
      /\ b # <<>> => ~(Capacity[q] = Dynamic \/ Len(a) < Capacity[q])
      /\ d => b = <<>>
      /\ \A v \in Range(b) : WaitOK(v, q, "send")
      /\ \A v \in Range(c) : WaitOK(v, q, "receive")
  BY QueueOKFields
<1>3. c = <<>>
  BY <1>2
<1>4. Capacity[q] \in Nat \cup {Dynamic} /\ Dynamic = -1
  BY ShapeAssumption DEF Dynamic
<1>5. b # <<>> => /\ Head(b) \in Wait /\ PayloadOf(Head(b)) \in Payload
                  /\ Tail(b) \in Seq(Wait) /\ Range(Tail(b)) \subseteq Range(b)
  BY <1>2, TailFacts, PayloadType
<1>6. a # <<>> => Tail(a) \in Seq(Payload) /\ Len(Tail(a)) = Len(a) - 1
  BY <1>2, TailFacts
<1>7. CASE a # <<>> /\ promotes(q, r)
  <2>1. receive(q, r) = Record(Append(Tail(a), PayloadOf(Head(b))), Tail(b), c, d)
    BY <1>1, <1>7, ReceiveRecord
  <2>2. b # <<>>
    BY <1>7 DEF promotes
  <2>3. PICK n : n = Append(Tail(a), PayloadOf(Head(b)))
    OBVIOUS
  <2>4. n \in Seq(Payload) /\ Len(n) = Len(a)
    <3>1. Len(n) = Len(Tail(a)) + 1 /\ n \in Seq(Payload)
      BY <1>5, <1>6, <1>7, <2>2, <2>3
    <3>2. Len(a) \in Nat
      BY <1>2
    <3>3. QED
      BY <1>6, <1>7, <3>1, <3>2
  <2>5. \A v \in Range(Tail(b)) : WaitOK(v, q, "send")
    BY <1>2, <1>5, <2>2
  <2>6. ~d /\ ~(Capacity[q] = Dynamic \/ Len(n) < Capacity[q])
    BY <1>2, <2>2, <2>4
  <2>7. Tail(b) \in Seq(Wait)
    BY <1>5, <2>2
  <2> HIDE DEF a, b, c, d
  <2>8. QueueOK(q, Record(n, Tail(b), c, d))
    BY <1>2, <1>3, <2>4, <2>5, <2>6, <2>7, BuildQueueOK
  <2>9. QED
    BY <2>1, <2>3, <2>8
<1>8. CASE a # <<>> /\ ~promotes(q, r)
  <2>1. receive(q, r) = Record(Tail(a), b, c, d)
    BY <1>1, <1>8, ReceiveRecord
  <2>2. b # <<>> => ~(Capacity[q] = Dynamic \/ Len(Tail(a)) < Capacity[q])
    BY <1>1, <1>6, <1>8, CapacityFacts
  <2> HIDE DEF a, b, c, d
  <2>3. QueueOK(q, Record(Tail(a), b, c, d))
    BY <1>2, <1>3, <1>6, <1>8, <2>2, BuildQueueOK
  <2>4. QED
    BY <2>1, <2>3
<1>9. CASE a = <<>>
  <2>1. receive(q, r) = Record(a, Tail(b), c, d)
    BY <1>1, <1>9, ReceiveRecord
  <2>2. b # <<>>
    BY <1>9
  <2>3. \A v \in Range(Tail(b)) : WaitOK(v, q, "send")
    BY <1>2, <1>5, <2>2
  <2>4. ~d /\ ~(Capacity[q] = Dynamic \/ Len(a) < Capacity[q])
    BY <1>2, <2>2
  <2>5. Tail(b) \in Seq(Wait)
    BY <1>5, <2>2
  <2> HIDE DEF a, b, c, d
  <2>6. QueueOK(q, Record(a, Tail(b), c, d))
    BY <1>2, <1>3, <2>3, <2>4, <2>5, BuildQueueOK
  <2>7. QED
    BY <2>1, <2>6
<1>10. QED
  BY <1>7, <1>8, <1>9

\* cancel and close.
LEMMA CancelOK ==
  ASSUME NEW q \in Queues, NEW r, QueueOK(q, r), NEW W
  PROVE  QueueOK(q, cancel(r, W))
<1>1. r \in QueueRecord
  BY DEF QueueOK
<1> DEFINE a == r.payloads  b == r.send_waiters  c == r.receive_waiters  d == r.closed
<1>2. /\ a \in Seq(Payload) /\ b \in Seq(Wait) /\ c \in Seq(Wait) /\ d \in BOOLEAN
      /\ c # <<>> => (a = <<>> /\ b = <<>>)
      /\ b # <<>> => ~(Capacity[q] = Dynamic \/ Len(a) < Capacity[q])
      /\ d => (c = <<>> /\ b = <<>>)
      /\ \A v \in Range(b) : WaitOK(v, q, "send")
      /\ \A v \in Range(c) : WaitOK(v, q, "receive")
  BY QueueOKFields
<1>3. cancel(r, W) = Record(a, Without(b, W), Without(c, W), d)
  BY <1>1, OtherRecords
<1>4. /\ Without(b, W) \in Seq(Wait) /\ Range(Without(b, W)) = Range(b) \ W
      /\ b = <<>> => Without(b, W) = <<>>
  BY <1>2, WithoutFacts, EmptyRange
<1>5. /\ Without(c, W) \in Seq(Wait) /\ Range(Without(c, W)) = Range(c) \ W
      /\ c = <<>> => Without(c, W) = <<>>
  BY <1>2, WithoutFacts, EmptyRange
<1> HIDE DEF a, b, c, d
<1>6. /\ \A v \in Range(Without(b, W)) : WaitOK(v, q, "send")
      /\ \A v \in Range(Without(c, W)) : WaitOK(v, q, "receive")
  BY <1>2, <1>4, <1>5
<1>7. QueueOK(q, Record(a, Without(b, W), Without(c, W), d))
  BY <1>2, <1>4, <1>5, <1>6, BuildQueueOK
<1>8. QED
  BY <1>3, <1>7

\* close.
LEMMA CloseOK ==
  ASSUME NEW q \in Queues, NEW r, QueueOK(q, r)
  PROVE  QueueOK(q, close(r))
<1>1. r \in QueueRecord
  BY DEF QueueOK
<1>2. close(r) = Record(r.payloads, <<>>, <<>>, TRUE)
  BY <1>1, OtherRecords
<1>3. r.payloads \in Seq(Payload)
  BY QueueOKFields
<1>4. <<>> \in Seq(Wait) /\ Range(<<>>) = {}
  BY DEF Range
<1>5. QueueOK(q, Record(r.payloads, <<>>, <<>>, TRUE))
  BY <1>3, <1>4, BuildQueueOK
<1>6. QED
  BY <1>2, <1>5

----------------------------------------------------------------------------
(* Induction over sequences and over numbers, for a set of good ones. *)

\* A set that has the empty sequence, and with every sequence the longer ones.
LEMMA SeqInduction ==
  ASSUME NEW T, NEW G, <<>> \in G, \A t \in Seq(T), x \in T : t \in G => Append(t, x) \in G
  PROVE  Seq(T) \subseteq G
<1> DEFINE Bad == {n \in Nat : \E t \in Seq(T) : Len(t) = n /\ t \notin G}
<1>1. ASSUME Bad # {} PROVE FALSE
  <2>1. PICK n \in Bad : \A m \in Bad : n <= m
    <3>1. Bad \in SUBSET Nat
      OBVIOUS
    <3> HIDE DEF Bad
    <3>2. QED
      BY <1>1, <3>1, LeastNumber
  <2>2. PICK t \in Seq(T) : Len(t) = n /\ t \notin G
    BY <2>1
  <2>3. CASE n = 0
    <3>1. t = <<>>
      BY <2>2, <2>3
    <3>2. QED
      BY <2>2, <3>1
  <2>4. CASE n # 0
    <3>1. PICK u \in Seq(T), x \in T : t = Append(u, x) /\ Len(u) = Len(t) - 1
      BY <2>2, <2>4, SplitLast
    <3>2. n \in Nat /\ n - 1 \in Nat /\ n - 1 < n
      BY <2>1, <2>4
    <3>3. n - 1 \notin Bad
      <4> HIDE DEF Bad
      <4>1. QED
        BY <2>1, <3>2
    <3>4. u \in G
      BY <2>2, <3>1, <3>2, <3>3
    <3>5. QED
      BY <2>2, <3>1, <3>4
  <2>5. QED
    BY <2>3, <2>4
<1>2. ASSUME NEW t \in Seq(T) PROVE t \in G
  <2>1. Len(t) \in Nat
    OBVIOUS
  <2>2. QED
    BY <1>1, <2>1
<1>3. QED
  BY <1>2

\* A set that has 0, and with every number below k the next one.
LEMMA NumberInduction ==
  ASSUME NEW k \in Nat, NEW G, 0 \in G, \A n \in 0..(k - 1) : n \in G => n + 1 \in G
  PROVE  0..k \subseteq G
<1> DEFINE Bad == {n \in Nat : n <= k /\ n \notin G}
<1>1. ASSUME Bad # {} PROVE FALSE
  <2>1. PICK n \in Bad : \A m \in Bad : n <= m
    BY <1>1, LeastNumber
  <2>2. n # 0
    BY <2>1
  <2>3. n - 1 \in 0..(k - 1) /\ n - 1 \in Nat /\ n - 1 < n /\ (n - 1) + 1 = n
    BY <2>1, <2>2
  <2>4. n - 1 \in G
    BY <2>1, <2>3
  <2>5. QED
    BY <2>1, <2>3, <2>4
<1>2. QED
  BY <1>1

\* Retain asks only about the elements of the sequence.
LEMMA RetainSame ==
  ASSUME NEW T, NEW S, NEW R, NEW s \in Seq(T), Range(s) \cap S = Range(s) \cap R
  PROVE  Retain(s, S) = Retain(s, R)
<1> DEFINE G == {t \in Seq(T) : (Range(t) \cap S = Range(t) \cap R) => Retain(t, S) = Retain(t, R)}
<1>1. <<>> \in G
  <2>1. Retain(<<>>, S) = Retain(<<>>, R)
    BY RetainEmpty
  <2>2. <<>> \in Seq(T)
    OBVIOUS
  <2>3. QED
    BY <2>1, <2>2
<1>2. ASSUME NEW t \in Seq(T), NEW x \in T, t \in G PROVE Append(t, x) \in G
  <2>1. Append(t, x) \in Seq(T)
    OBVIOUS
  <2>2. Range(Append(t, x)) = Range(t) \cup {x}
    BY RangeAppend
  <2>3. ASSUME Range(Append(t, x)) \cap S = Range(Append(t, x)) \cap R
        PROVE  Retain(Append(t, x), S) = Retain(Append(t, x), R)
    <3>1. Range(t) \cap S = Range(t) \cap R /\ (x \in S <=> x \in R)
      BY <2>2, <2>3
    <3>2. Retain(t, S) = Retain(t, R)
      BY <1>2, <3>1
    <3>3. Retain(Append(t, x), S) = IF x \in S THEN Append(Retain(t, S), x) ELSE Retain(t, S)
      BY RetainAppend
    <3>4. Retain(Append(t, x), R) = IF x \in R THEN Append(Retain(t, R), x) ELSE Retain(t, R)
      BY RetainAppend
    <3>5. QED
      BY <3>1, <3>2, <3>3, <3>4
  <2>4. QED
    BY <2>1, <2>3
<1> HIDE DEF G
<1>3. Seq(T) \subseteq G
  BY <1>1, <1>2, SeqInduction
<1>4. s \in G
  BY <1>3
<1>5. QED
  BY <1>4 DEF G

----------------------------------------------------------------------------
(* The registrations of a select. *)

\* The sites and arms of a waiting execution.
LEMMA SiteFacts ==
  ASSUME NEW e \in Executions, ExecsOK(exec), exec[e].status = "Waiting"
  PROVE  /\ exec[e].site \in DOMAIN Shape[e].sites
         /\ SiteOf(exec, e).kind \in Kinds
         /\ SiteOf(exec, e).kind \in {"send", "receive"} => SiteOf(exec, e).queue \in Queues
         /\ ArmsOf(e) \in Seq([direction : {"send", "receive"}, queue : Queues])
         /\ (SiteOf(exec, e).kind = "select") <=> (ArmsOf(e) # <<>>)
         /\ SiteOf(exec, e).kind # "select" => Outcome(e, exec[e].site, 0)
         /\ \A a \in DOMAIN ArmsOf(e) : a \in Nat \ {0} /\ Outcome(e, exec[e].site, a)
<1>1. exec[e].site \in DOMAIN Shape[e].sites
  BY DEF ExecsOK, ExecOK
<1>2. PICK k : k = exec[e].site
  OBVIOUS
<1>3. /\ Shape[e].sites[k].kind \in Kinds
      /\ Shape[e].sites[k].kind \in {"send", "receive"} => Shape[e].sites[k].queue \in Queues
      /\ (Shape[e].sites[k].kind = "select") = (Shape[e].sites[k].arms # <<>>)
  <2>1. ASSUME NEW n \in DOMAIN Shape[e].sites
        PROVE  Shape[e].sites[n].kind \in Kinds
    BY ShapeAssumption, Zenon
  <2>2. ASSUME NEW n \in DOMAIN Shape[e].sites, Shape[e].sites[n].kind \in {"send", "receive"}
        PROVE  Shape[e].sites[n].queue \in Queues
    BY <2>2, ShapeAssumption, Zenon
  <2>3. ASSUME NEW n \in DOMAIN Shape[e].sites
        PROVE  (Shape[e].sites[n].kind = "select") = (Shape[e].sites[n].arms # <<>>)
    BY ShapeAssumption, ZenonT(60)
  <2>4. QED
    BY <1>1, <1>2, <2>1, <2>2, <2>3
<1>4. Shape[e].sites[k].arms \in Seq([direction : {"send", "receive"}, queue : Queues])
  BY <1>1, <1>2, VectorAssumption
<1>5. SiteOf(exec, e) = Shape[e].sites[k] /\ ArmsOf(e) = Shape[e].sites[k].arms
  BY <1>2 DEF SiteOf, ArmsOf
<1>6. SiteOf(exec, e).kind # "select" => Outcome(e, exec[e].site, 0)
  BY <1>2, <1>5 DEF Outcome
<1>7. ASSUME NEW a \in DOMAIN ArmsOf(e) PROVE a \in Nat \ {0} /\ Outcome(e, exec[e].site, a)
  <2>1. PICK s : s = Shape[e].sites[k].arms
    OBVIOUS
  <2>2. a \in Nat \ {0} /\ s # <<>>
    BY <1>4, <1>5, <1>7, <2>1
  <2>3. Shape[e].sites[k].kind = "select"
    BY <1>3, <2>1, <2>2
  <2>4. QED
    BY <1>2, <1>5, <1>7, <2>2, <2>3 DEF Outcome
<1>8. QED
  BY <1>1, <1>2, <1>3, <1>4, <1>5, <1>6, <1>7

\* The registrations of an execution fit its site.
LEMMA WaitOfOK ==
  ASSUME NEW e \in Executions, ExecsOK(exec), exec[e].status = "Waiting"
  PROVE  /\ \A a \in Nat : WaitOf(e, a) \in Wait
         /\ \A d \in {"send", "receive"} :
              SiteOf(exec, e).kind = d => WaitOK(WaitOf(e, 0), SiteOf(exec, e).queue, d)
         /\ \A a \in DOMAIN ArmsOf(e) :
              WaitOK(WaitOf(e, a), ArmsOf(e)[a].queue, ArmsOf(e)[a].direction)
<1>1. exec[e].site \in DOMAIN Shape[e].sites /\ exec[e] \in ExecutionRecord
  BY DEF ExecsOK, ExecOK
<1>2. exec[e].site \in Nat /\ exec[e].generation \in Nat
  BY <1>1 DEF ExecutionRecord
<1>3. ASSUME NEW a \in Nat
      PROVE  /\ WaitOf(e, a) \in Wait /\ WaitOf(e, a).execution = e
             /\ WaitOf(e, a).operation = exec[e].site /\ WaitOf(e, a).arm = a
  BY <1>2 DEF WaitOf, Wait
<1>4. ASSUME NEW d \in {"send", "receive"}, SiteOf(exec, e).kind = d
      PROVE  WaitOK(WaitOf(e, 0), SiteOf(exec, e).queue, d)
  <2>1. PICK w : w = WaitOf(e, 0)
    OBVIOUS
  <2>2. w \in Wait /\ w.execution = e /\ w.operation = exec[e].site /\ w.arm = 0
    BY <1>3, <2>1
  <2>3. WaitOK(w, SiteOf(exec, e).queue, d)
    BY <1>1, <1>4, <2>2 DEF WaitOK, SiteOf
  <2>4. QED
    BY <2>1, <2>3
<1>5. ASSUME NEW a \in DOMAIN ArmsOf(e)
      PROVE  WaitOK(WaitOf(e, a), ArmsOf(e)[a].queue, ArmsOf(e)[a].direction)
  <2>1. PICK w : w = WaitOf(e, a)
    OBVIOUS
  <2>2. a \in Nat \ {0} /\ SiteOf(exec, e).kind = "select"
    BY SiteFacts DEF Outcome, SiteOf
  <2>3. w \in Wait /\ w.execution = e /\ w.operation = exec[e].site /\ w.arm = a
    BY <1>3, <2>1, <2>2
  <2>4. PICK r : r = ArmsOf(e)[a]
    OBVIOUS
  <2>5. r = [direction |-> r.direction, queue |-> r.queue]
    <3>1. r \in [direction : {"send", "receive"}, queue : Queues]
      <4>1. PICK s : s = ArmsOf(e)
        OBVIOUS
      <4>2. s \in Seq([direction : {"send", "receive"}, queue : Queues])
        BY <4>1, SiteFacts
      <4> DEFINE A == [direction : {"send", "receive"}, queue : Queues]
      <4>3. s \in Seq(A) /\ a \in DOMAIN s
        BY <4>1, <4>2
      <4> HIDE DEF A
      <4>4. s[a] \in A
        BY <4>3
      <4>5. QED
        BY <2>4, <4>1, <4>4 DEF A
    <3>2. QED
      BY <3>1
  <2>6. WaitOK(w, r.queue, r.direction)
    BY <1>1, <2>2, <2>3, <2>4, <2>5 DEF WaitOK, SiteOf, ArmsOf
  <2>7. QED
    BY <2>1, <2>4, <2>6
<1>6. QED
  BY <1>3, <1>4, <1>5

\* No arm is registered yet.
LEMMA ArmWaitsNone ==
  ASSUME NEW e, NEW q, NEW d
  PROVE  ArmWaits(e, 0, q, d) = <<>>
<1> DEFINE S == {WaitOf(e, i) : i \in {j \in 1..0 : ArmsOf(e)[j] = [direction |-> d, queue |-> q]}}
<1>1. ArmWaits(e, 0, q, d) = Retain([i \in 1..0 |-> WaitOf(e, i)], S)
  BY DEF ArmWaits
<1>2. [i \in 1..0 |-> WaitOf(e, i)] = <<>>
  OBVIOUS
<1> HIDE DEF S
<1>3. QED
  BY <1>1, <1>2, RetainEmpty

\* The registrations of the first n arms.
LEMMA ArmWaitsFacts ==
  ASSUME NEW e \in Executions, ExecsOK(exec), exec[e].status = "Waiting", NEW q, NEW d, NEW n \in Nat
  PROVE  /\ ArmWaits(e, n, q, d) \in Seq(Wait)
         /\ Range(ArmWaits(e, n, q, d))
              = {WaitOf(e, i) : i \in {j \in 1..n : ArmsOf(e)[j] = [direction |-> d, queue |-> q]}}
         /\ IsInjective(ArmWaits(e, n, q, d))
<1> DEFINE s(m) == [i \in 1..m |-> WaitOf(e, i)]
           here(i) == ArmsOf(e)[i] = [direction |-> d, queue |-> q]
           S(m) == {WaitOf(e, i) : i \in {j \in 1..m : here(j)}}
<1>1. \A m : ArmWaits(e, m, q, d) = Retain(s(m), S(m))
  BY DEF ArmWaits
<1>2. \A i \in Nat : WaitOf(e, i) \in Wait
  BY WaitOfOK
<1>3. \A i, j \in Nat : WaitOf(e, i) = WaitOf(e, j) => i = j
  <2>1. \A i : WaitOf(e, i).arm = i
    BY DEF WaitOf
  <2>2. QED
    BY <2>1
<1> HIDE DEF here
<1>4. \A m \in Nat : s(m) \in Seq(Wait) /\ Len(s(m)) = m /\ IsInjective(s(m))
  BY <1>2, <1>3 DEF IsInjective
<1>5. \A m \in Nat : Range(s(m)) = {WaitOf(e, i) : i \in 1..m}
  BY DEF Range
<1>7. /\ ArmWaits(e, n, q, d) \in Seq(Wait)
      /\ Range(ArmWaits(e, n, q, d)) = S(n)
      /\ IsInjective(ArmWaits(e, n, q, d))
  <2>1. S(n) \subseteq Range(s(n))
    BY <1>5
  <2>2. s(n) \in Seq(Wait) /\ IsInjective(s(n))
    BY <1>4
  <2> HIDE DEF s, S
  <2>3. PICK u, U : u = s(n) /\ U = S(n)
    OBVIOUS
  <2>4. u \in Seq(Wait) /\ IsInjective(u) /\ U \subseteq Range(u)
    BY <2>1, <2>2, <2>3
  <2>5. Retain(u, U) \in Seq(Wait) /\ Range(Retain(u, U)) = Range(u) \cap U /\ IsInjective(Retain(u, U))
    BY <2>4, RetainFacts
  <2>6. ArmWaits(e, n, q, d) = Retain(u, U)
    BY <1>1, <2>3
  <2>7. QED
    BY <2>3, <2>4, <2>5, <2>6
<1>9. QED
  BY <1>7 DEF here

\* Registering one arm more.
LEMMA ArmWaitsNext ==
  ASSUME NEW e \in Executions, ExecsOK(exec), exec[e].status = "Waiting", NEW q, NEW d, NEW n \in Nat
  PROVE  ArmWaits(e, n + 1, q, d)
           = IF ArmsOf(e)[n + 1] = [direction |-> d, queue |-> q]
             THEN Append(ArmWaits(e, n, q, d), WaitOf(e, n + 1))
             ELSE ArmWaits(e, n, q, d)
<1> DEFINE s(m) == [i \in 1..m |-> WaitOf(e, i)]
           here(i) == ArmsOf(e)[i] = [direction |-> d, queue |-> q]
           S(m) == {WaitOf(e, i) : i \in {j \in 1..m : here(j)}}
<1>1. \A m : ArmWaits(e, m, q, d) = Retain(s(m), S(m))
  BY DEF ArmWaits
<1>2. \A i \in Nat : WaitOf(e, i) \in Wait
  BY WaitOfOK
<1>3. \A i, j \in Nat : WaitOf(e, i) = WaitOf(e, j) => i = j
  <2>1. \A i : WaitOf(e, i).arm = i
    BY DEF WaitOf
  <2>2. QED
    BY <2>1
<1> HIDE DEF here
<1>4. \A m \in Nat : s(m) \in Seq(Wait) /\ Len(s(m)) = m /\ IsInjective(s(m))
  BY <1>2, <1>3 DEF IsInjective
<1>5. \A m \in Nat : Range(s(m)) = {WaitOf(e, i) : i \in 1..m}
  BY DEF Range
<1>8. ArmWaits(e, n + 1, q, d) = IF here(n + 1) THEN Append(ArmWaits(e, n, q, d), WaitOf(e, n + 1))
                                                ELSE ArmWaits(e, n, q, d)
  <2>1. s(n + 1) = Append(s(n), WaitOf(e, n + 1))
    <3>1. PICK a : a = s(n)
      OBVIOUS
    <3>2. PICK b : b = s(n + 1)
      OBVIOUS
    <3>3. a \in Seq(Wait) /\ Len(a) = n /\ b \in Seq(Wait) /\ Len(b) = n + 1
      BY <1>4, <3>1, <3>2
    <3>4. \A i \in 1..n : b[i] = a[i]
      BY <3>1, <3>2
    <3>5. b[n + 1] = WaitOf(e, n + 1)
      BY <3>2
    <3>6. b = Append(a, WaitOf(e, n + 1))
      BY <3>3, <3>4, <3>5, <1>2
    <3>7. QED
      BY <3>1, <3>2, <3>6
  <2>2. s(n) \in Seq(Wait) /\ WaitOf(e, n + 1) \in Wait
    BY <1>2, <1>4
  <2>3. WaitOf(e, n + 1) \in S(n + 1) <=> here(n + 1)
    BY <1>3
  <2>4. Range(s(n)) \cap S(n + 1) = Range(s(n)) \cap S(n)
    <3>1. ASSUME NEW v \in Range(s(n)), v \in S(n + 1) PROVE v \in S(n)
      <4>1. PICK i \in 1..n : v = WaitOf(e, i)
        BY <1>5, <3>1
      <4>2. PICK j \in 1..(n + 1) : v = WaitOf(e, j) /\ here(j)
        BY <3>1
      <4>3. i = j
        <5>1. i \in Nat /\ j \in Nat /\ WaitOf(e, i) = WaitOf(e, j)
          BY <4>1, <4>2
        <5>2. QED
          BY <1>3, <5>1
      <4>4. QED
        BY <4>1, <4>2, <4>3
    <3>2. S(n) \subseteq S(n + 1)
      OBVIOUS
    <3> HIDE DEF s, S
    <3>3. QED
      BY <3>1, <3>2
  <2> HIDE DEF s, S
  <2>5. Retain(s(n), S(n + 1)) = Retain(s(n), S(n))
    BY <2>2, <2>4, RetainSame
  <2>6. Retain(s(n + 1), S(n + 1))
          = IF here(n + 1) THEN Append(Retain(s(n), S(n)), WaitOf(e, n + 1)) ELSE Retain(s(n), S(n))
    <3>1. PICK u, v, U, V : u = s(n) /\ v = WaitOf(e, n + 1) /\ U = S(n + 1) /\ V = S(n)
      OBVIOUS
    <3>2. u \in Seq(Wait) /\ v \in Wait
      BY <2>2, <3>1
    <3>3. Retain(Append(u, v), U) = IF v \in U THEN Append(Retain(u, U), v) ELSE Retain(u, U)
      BY <3>2, RetainAppend
    <3>4. Retain(u, U) = Retain(u, V) /\ (v \in U <=> here(n + 1)) /\ s(n + 1) = Append(u, v)
      BY <2>1, <2>3, <2>5, <3>1
    <3>5. QED
      BY <3>1, <3>3, <3>4
  <2>7. QED
    BY <1>1, <2>6
<1>9. QED
  BY <1>8 DEF here

\* The queues while the arms of a select are registered one by one.
LEMMA RegisteredStep ==
  ASSUME NEW e \in Executions, ExecsOK(exec), exec[e].status = "Waiting",
         NEW q \in Queues, queues[q] \in QueueRecord, NEW n \in Nat
  PROVE  /\ Registered(e, 0)[q] = queues[q]
         /\ Registered(e, n)[q] = Record(queues[q].payloads,
                                         queues[q].send_waiters \o ArmWaits(e, n, q, "send"),
                                         queues[q].receive_waiters \o ArmWaits(e, n, q, "receive"),
                                         queues[q].closed)
         /\ Registered(e, n)[q] \in QueueRecord
         /\ Registered(e, n + 1)[q]
              = IF ArmsOf(e)[n + 1] = [direction |-> "send", queue |-> q]
                THEN register_send(Registered(e, n)[q], WaitOf(e, n + 1))
                ELSE IF ArmsOf(e)[n + 1] = [direction |-> "receive", queue |-> q]
                THEN register_receive(Registered(e, n)[q], WaitOf(e, n + 1))
                ELSE Registered(e, n)[q]
<1>1. PICK r : r = queues[q]
  OBVIOUS
<1>2. /\ r = Record(r.payloads, r.send_waiters, r.receive_waiters, r.closed)
      /\ r.payloads \in Seq(Payload) /\ r.send_waiters \in Seq(Wait)
      /\ r.receive_waiters \in Seq(Wait) /\ r.closed \in BOOLEAN
  BY <1>1, QueueFields
<1> DEFINE a == r.payloads  b == r.send_waiters  c == r.receive_waiters  f == r.closed
           S(m) == ArmWaits(e, m, q, "send")
           R(m) == ArmWaits(e, m, q, "receive")
<1>3. \A m : Registered(e, m)[q] = Record(a, b \o S(m), c \o R(m), f)
  <2>1. \A m : Registered(e, m)[q] = [r EXCEPT !.send_waiters = @ \o S(m), !.receive_waiters = @ \o R(m)]
    BY <1>1 DEF Registered
  <2>2. ASSUME NEW g2, NEW o
        PROVE  [r EXCEPT !.send_waiters = @ \o g2, !.receive_waiters = @ \o o]
                 = Record(a, b \o g2, c \o o, f)
    <3>1. PICK v : v = [r EXCEPT !.send_waiters = @ \o g2]
      OBVIOUS
    <3>2. v = Record(a, b \o g2, c, f)
      BY <1>2, <3>1 DEF Record
    <3>3. [r EXCEPT !.send_waiters = @ \o g2, !.receive_waiters = @ \o o]
            = [v EXCEPT !.receive_waiters = @ \o o]
      BY <1>2, <3>1 DEF Record
    <3>4. PICK g : g = b \o g2
      OBVIOUS
    <3>5. v = [payloads |-> a, send_waiters |-> g, receive_waiters |-> c, closed |-> f]
      BY <3>2, <3>4 DEF Record
    <3> HIDE DEF a, b, c, f
    <3>6. PICK h : h = c \o o
      OBVIOUS
    <3>7. v.receive_waiters = c
      BY <3>5
    <3>8. [v EXCEPT !.receive_waiters = @ \o o] = [v EXCEPT !.receive_waiters = h]
      BY <3>6, <3>7
    <3>9. [v EXCEPT !.receive_waiters = h]
            = [payloads |-> a, send_waiters |-> g, receive_waiters |-> h, closed |-> f]
      BY <3>5
    <3>10. QED
      BY <3>3, <3>4, <3>6, <3>8, <3>9 DEF Record
  <2>3. QED
    BY <2>1, <2>2
<1>9. ASSUME NEW d
      PROVE  /\ ArmWaits(e, 0, q, d) = <<>>
             /\ \A m \in Nat :
                  /\ ArmWaits(e, m, q, d) \in Seq(Wait)
                  /\ ArmWaits(e, m + 1, q, d)
                       = IF ArmsOf(e)[m + 1] = [direction |-> d, queue |-> q]
                         THEN Append(ArmWaits(e, m, q, d), WaitOf(e, m + 1))
                         ELSE ArmWaits(e, m, q, d)
  <2>1. ArmWaits(e, 0, q, d) = <<>>
    BY ArmWaitsNone
  <2>2. ASSUME NEW m \in Nat PROVE ArmWaits(e, m, q, d) \in Seq(Wait)
    BY ArmWaitsFacts
  <2>3. ASSUME NEW m \in Nat
        PROVE  ArmWaits(e, m + 1, q, d)
                       = IF ArmsOf(e)[m + 1] = [direction |-> d, queue |-> q]
                         THEN Append(ArmWaits(e, m, q, d), WaitOf(e, m + 1))
                         ELSE ArmWaits(e, m, q, d)
    BY ArmWaitsNext
  <2>4. QED
    BY <2>1, <2>2, <2>3
<1>4. /\ S(0) = <<>> /\ R(0) = <<>>
      /\ \A m \in Nat : S(m) \in Seq(Wait) /\ R(m) \in Seq(Wait)
  BY <1>9
<1>10. \A u, v \in Seq(Wait) : u \o v \in Seq(Wait)
  OBVIOUS
<1>11. \A u, v \in Seq(Wait) : \A w \in Wait : u \o Append(v, w) = Append(u \o v, w)
  OBVIOUS
<1> HIDE DEF S, R
<1>5. Registered(e, 0)[q] = queues[q]
  <2>1. b \o <<>> = b /\ c \o <<>> = c
    BY <1>2
  <2>2. QED
    BY <1>1, <1>2, <1>3, <1>4, <2>1
<1>6. Registered(e, n)[q] \in QueueRecord
  <2>1. b \o S(n) \in Seq(Wait) /\ c \o R(n) \in Seq(Wait)
    BY <1>2, <1>4, <1>10
  <2>2. PICK u, v : u = b \o S(n) /\ v = c \o R(n)
    OBVIOUS
  <2> HIDE DEF a, b, c, f
  <2>3. a \in Seq(Payload) /\ u \in Seq(Wait) /\ v \in Seq(Wait) /\ f \in BOOLEAN
    BY <1>2, <2>1, <2>2 DEF a, b, c, f
  <2>4. Record(a, u, v, f) \in QueueRecord
    BY <2>3, RecordFields
  <2>5. QED
    BY <1>3, <2>2, <2>4
<1>7. Registered(e, n + 1)[q]
                   = IF ArmsOf(e)[n + 1] = [direction |-> "send", queue |-> q]
                     THEN register_send(Registered(e, n)[q], WaitOf(e, n + 1))
                     ELSE IF ArmsOf(e)[n + 1] = [direction |-> "receive", queue |-> q]
                     THEN register_receive(Registered(e, n)[q], WaitOf(e, n + 1))
                     ELSE Registered(e, n)[q]
  <2>1. PICK w : w = WaitOf(e, n + 1)
    OBVIOUS
  <2>2. w \in Wait
    BY <2>1, WaitOfOK
  <2>3. /\ S(n + 1) = IF ArmsOf(e)[n + 1] = [direction |-> "send", queue |-> q]
                      THEN Append(S(n), w) ELSE S(n)
        /\ R(n + 1) = IF ArmsOf(e)[n + 1] = [direction |-> "receive", queue |-> q]
                      THEN Append(R(n), w) ELSE R(n)
    BY <1>9, <2>1 DEF S, R
  <2>4. b \o Append(S(n), w) = Append(b \o S(n), w) /\ c \o Append(R(n), w) = Append(c \o R(n), w)
    BY <1>2, <1>4, <1>11, <2>2
  <2>5. PICK v : v = Registered(e, n)[q]
    OBVIOUS
  <2>6. v \in QueueRecord /\ v = Record(a, b \o S(n), c \o R(n), f)
    BY <1>3, <1>6, <2>5
  <2>7. /\ v.payloads = a /\ v.send_waiters = b \o S(n) /\ v.receive_waiters = c \o R(n)
        /\ v.closed = f
    BY <2>6 DEF Record
  <2>8. /\ register_send(v, w) = Record(a, Append(b \o S(n), w), c \o R(n), f)
        /\ register_receive(v, w) = Record(a, b \o S(n), Append(c \o R(n), w), f)
    <3>1. /\ register_send(v, w) = Record(v.payloads, Append(v.send_waiters, w), v.receive_waiters, v.closed)
          /\ register_receive(v, w) = Record(v.payloads, v.send_waiters, Append(v.receive_waiters, w), v.closed)
      BY <2>6, OtherRecords, ZenonT(30)
    <3>2. QED
      BY <2>7, <3>1
  <2>9. CASE ArmsOf(e)[n + 1] = [direction |-> "send", queue |-> q]
    <3>1. ArmsOf(e)[n + 1] # [direction |-> "receive", queue |-> q]
      BY <2>9
    <3>2. Registered(e, n + 1)[q] = Record(a, Append(b \o S(n), w), c \o R(n), f)
      BY <1>3, <2>3, <2>4, <2>9, <3>1
    <3>3. QED
      BY <2>1, <2>5, <2>8, <2>9, <3>2
  <2>10. CASE ArmsOf(e)[n + 1] = [direction |-> "receive", queue |-> q]
    <3>1. ArmsOf(e)[n + 1] # [direction |-> "send", queue |-> q]
      BY <2>10
    <3>2. Registered(e, n + 1)[q] = Record(a, b \o S(n), Append(c \o R(n), w), f)
      BY <1>3, <2>3, <2>4, <2>10, <3>1
    <3>3. QED
      BY <2>1, <2>5, <2>8, <2>10, <3>1, <3>2
  <2>11. CASE /\ ArmsOf(e)[n + 1] # [direction |-> "receive", queue |-> q]
              /\ ArmsOf(e)[n + 1] # [direction |-> "send", queue |-> q]
    <3>1. Registered(e, n + 1)[q] = Record(a, b \o S(n), c \o R(n), f)
      BY <1>3, <2>3, <2>11
    <3>2. QED
      BY <2>5, <2>6, <2>11, <3>1
  <2>12. QED
    BY <2>9, <2>10, <2>11
<1>8. QED
  BY <1>1, <1>3, <1>5, <1>6, <1>7 DEF S, R

\* As long as the arms block, the queues stay well formed.
LEMMA RegisteredOK ==
  ASSUME NEW e \in Executions, ExecsOK(exec), exec[e].status = "Waiting",
         \A q \in Queues : QueueOK(q, queues[q]),
         NEW k \in 0..Len(ArmsOf(e)), \A i \in 1..k : ~ArmIsReady(e, i)
  PROVE  \A q \in Queues : QueueOK(q, Registered(e, k)[q])
<1> DEFINE G == {n \in Nat : \A q \in Queues : QueueOK(q, Registered(e, n)[q])}
<1>1. \A q \in Queues : queues[q] \in QueueRecord
  BY DEF QueueOK
<1>8. ArmsOf(e) \in Seq([direction : {"send", "receive"}, queue : Queues])
  BY SiteFacts
<1>2. Len(ArmsOf(e)) \in Nat /\ k \in Nat /\ DOMAIN ArmsOf(e) = 1..Len(ArmsOf(e))
  <2>1. PICK s : s = ArmsOf(e)
    OBVIOUS
  <2>2. s \in Seq([direction : {"send", "receive"}, queue : Queues])
    BY <1>8, <2>1
  <2>3. Len(s) \in Nat /\ DOMAIN s = 1..Len(s)
    BY <2>2
  <2>4. QED
    BY <2>1, <2>3
<1>3. 0 \in G
  BY <1>1, RegisteredStep
<1>4. ASSUME NEW n \in 0..(k - 1), n \in G PROVE n + 1 \in G
  <2>1. n \in Nat /\ n + 1 \in Nat /\ n + 1 \in 1..k /\ n + 1 \in DOMAIN ArmsOf(e) /\ (n + 1) - 1 = n
    BY <1>2
  <2>2. ~ArmIsReady(e, n + 1)
    BY <2>1
  <2>3. PICK m : m = ArmsOf(e)[n + 1]
    OBVIOUS
  <2>4. m.direction \in {"send", "receive"} /\ m.queue \in Queues
        /\ m = [direction |-> m.direction, queue |-> m.queue]
    <3> DEFINE A == [direction : {"send", "receive"}, queue : Queues]
    <3>1. m \in A
      <4>1. PICK s : s = ArmsOf(e)
        OBVIOUS
      <4>2. s \in Seq(A) /\ n + 1 \in DOMAIN s
        BY <1>8, <2>1, <4>1
      <4> HIDE DEF A
      <4>3. s[n + 1] \in A
        BY <4>2
      <4>4. QED
        BY <2>3, <4>1, <4>3
    <3>2. QED
      BY <3>1
  <2>5. WaitOK(WaitOf(e, n + 1), m.queue, m.direction)
    BY <2>1, <2>3, WaitOfOK
  <2>6. ASSUME NEW q \in Queues PROVE QueueOK(q, Registered(e, n + 1)[q])
    <3>1. PICK v : v = Registered(e, n)[q]
      OBVIOUS
    <3>2. QueueOK(q, v)
      BY <1>4, <3>1
    <3>3. Registered(e, n + 1)[q]
            = IF m = [direction |-> "send", queue |-> q]
              THEN register_send(v, WaitOf(e, n + 1))
              ELSE IF m = [direction |-> "receive", queue |-> q]
              THEN register_receive(v, WaitOf(e, n + 1))
              ELSE v
      <4>1. queues[q] \in QueueRecord
        BY <1>1
      <4>2. Registered(e, n + 1)[q]
            = IF ArmsOf(e)[n + 1] = [direction |-> "send", queue |-> q]
              THEN register_send(Registered(e, n)[q], WaitOf(e, n + 1))
              ELSE IF ArmsOf(e)[n + 1] = [direction |-> "receive", queue |-> q]
              THEN register_receive(Registered(e, n)[q], WaitOf(e, n + 1))
              ELSE Registered(e, n)[q]
        <5>1. n \in Nat
          BY <2>1
        <5>2. QED
          BY <4>1, <5>1, RegisteredStep, ZenonT(60)
      <4>3. QED
        BY <2>3, <3>1, <4>2
    <3>4. CASE m = [direction |-> "send", queue |-> q]
      <4>1. m.direction = "send" /\ m.queue = q
        BY <3>4
      <4>2. SendBlocks(q, v)
        BY <2>1, <2>2, <2>3, <3>1, <4>1 DEF ArmIsReady
      <4>3. WaitOK(WaitOf(e, n + 1), q, "send")
        BY <2>5, <4>1
      <4>4. QueueOK(q, register_send(v, WaitOf(e, n + 1)))
        BY <3>2, <4>2, <4>3, RegisterSendOK
      <4>5. QED
        BY <3>3, <3>4, <4>4
    <3>5. CASE m = [direction |-> "receive", queue |-> q]
      <4>1. m.direction = "receive" /\ m.queue = q /\ m # [direction |-> "send", queue |-> q]
        BY <3>5
      <4>2. ReceiveBlocks(v)
        BY <2>1, <2>2, <2>3, <3>1, <4>1 DEF ArmIsReady
      <4>3. WaitOK(WaitOf(e, n + 1), q, "receive")
        BY <2>5, <4>1
      <4>4. QueueOK(q, register_receive(v, WaitOf(e, n + 1)))
        BY <3>2, <4>2, <4>3, RegisterReceiveOK
      <4>5. QED
        BY <3>3, <3>5, <4>1, <4>4
    <3>6. CASE m # [direction |-> "receive", queue |-> q] /\ m # [direction |-> "send", queue |-> q]
      BY <3>2, <3>3, <3>6
    <3>7. QED
      BY <3>4, <3>5, <3>6
  <2>7. QED
    BY <2>1, <2>6
<1> HIDE DEF G
<1>5. 0..k \subseteq G
  BY <1>2, <1>3, <1>4, NumberInduction
<1>6. k \in G
  BY <1>2, <1>5
<1>7. QED
  BY <1>6 DEF G

----------------------------------------------------------------------------
(* Commits. *)

\* A wait that commit_wait accepts is one its execution waits on, with an
\* outcome of that site, which is not a host operation.
LEMMA OwnsFacts ==
  ASSUME NEW x, NEW c, NEW q, NEW d \in {"send", "receive"}, Owns(x, c, q, d)
  PROVE  /\ x[c.execution].status = "Waiting"
         /\ x[c.execution].site = c.operation
         /\ Outcome(c.execution, x[c.execution].site, c.arm)
         /\ SiteOf(x, c.execution).kind \in {"send", "receive", "select"}
<1>1. CASE c.arm = 0
  <2>1. ensure_wait(x, c, q, d)
    BY <1>1 DEF Owns
  <2>2. /\ x[c.execution].status = "Waiting" /\ SiteOf(x, c.execution).kind = d
        /\ x[c.execution].site = c.operation
    BY <2>1 DEF ensure_wait, WaitsOn
  <2>3. QED
    BY <1>1, <2>2 DEF Outcome, SiteOf
<1>2. CASE c.arm # 0
  <2>1. ensure_select_wait(x, c, q, d)
    BY <1>2 DEF Owns
  <2>2. /\ x[c.execution].status = "Waiting" /\ SiteOf(x, c.execution).kind = "select"
        /\ x[c.execution].site = c.operation
        /\ c.arm \in DOMAIN SiteOf(x, c.execution).arms
    BY <2>1 DEF ensure_select_wait, WaitsOn
  <2>3. QED
    BY <1>2, <2>2 DEF Outcome, SiteOf
<1>3. QED
  BY <1>1, <1>2

\* A registration that ensure_wait accepts is a direct one.
LEMMA EnsureOwns ==
  ASSUME NEW x, NEW c, NEW q, NEW p, NEW d \in {"send", "receive"}, WaitOK(c, p, d),
         ensure_wait(x, c, q, d)
  PROVE  c.arm = 0 /\ Owns(x, c, q, d)
<1>1. SiteOf(x, c.execution).kind = d /\ x[c.execution].site = c.operation
  BY DEF ensure_wait, WaitsOn
<1>2. c.arm = 0
  BY <1>1 DEF WaitOK, SiteOf
<1>3. QED
  BY <1>2 DEF Owns

\* Every execution outside C stays as it is; those in C leave a wait that is
\* not a host operation, in the same generation.
Leaves(x, y, C) ==
  /\ C \subseteq Executions
  /\ \A e \in Executions \ C : y[e] = x[e]
  /\ \A e \in C : /\ x[e].status = "Waiting" /\ SiteOf(x, e).kind \in {"send", "receive", "select"}
                  /\ y[e].status # "Waiting" /\ y[e].generation = x[e].generation

\* The caller's own wait is committed.
LEMMA CommitOne ==
  ASSUME ExecsOK(exec), NEW e \in Executions, exec[e].status = "Waiting",
         SiteOf(exec, e).kind \in {"send", "receive", "select"},
         NEW a \in Nat, Outcome(e, exec[e].site, a),
         NEW x, x = commit_operation(exec, WaitOf(e, a))
  PROVE  ExecsOK(x) /\ Leaves(exec, x, {e})
<1>1. PICK w : w = WaitOf(e, a)
  OBVIOUS
<1>2. w.execution = e /\ w.arm = a
  BY <1>1 DEF WaitOf
<1>3. PICK o : o = exec
  OBVIOUS
<1>4. x = commit_operation(o, w)
  BY <1>1, <1>3
<1>5. ExecsOK(o) /\ o[w.execution].status = "Waiting" /\ Outcome(w.execution, o[w.execution].site, w.arm)
  BY <1>2, <1>3
<1>6. /\ ExecsOK(x) /\ x[e].status # "Waiting" /\ x[e].generation = o[e].generation
      /\ \A d \in Executions : d # e => x[d] = o[d]
  BY <1>2, <1>4, <1>5, CommitFacts
<1>7. QED
  BY <1>3, <1>6 DEF Leaves

\* The caller's wait and the wait of its counterpart are committed.
LEMMA CommitTwo ==
  ASSUME ExecsOK(exec), NEW e \in Executions, exec[e].status = "Waiting",
         SiteOf(exec, e).kind \in {"send", "receive", "select"},
         NEW a \in Nat, Outcome(e, exec[e].site, a),
         NEW x, x = commit_operation(exec, WaitOf(e, a)),
         NEW c \in Wait, NEW q, NEW d \in {"send", "receive"}, Owns(x, c, q, d),
         NEW y, y = commit_operation(x, c)
  PROVE  /\ ExecsOK(y) /\ Leaves(exec, y, {e, c.execution}) /\ c.execution # e
         /\ exec[c.execution].site = c.operation
<1>1. ExecsOK(x) /\ Leaves(exec, x, {e})
  BY CommitOne
<1>2. /\ x[c.execution].status = "Waiting" /\ Outcome(c.execution, x[c.execution].site, c.arm)
      /\ SiteOf(x, c.execution).kind \in {"send", "receive", "select"}
      /\ x[c.execution].site = c.operation
  BY OwnsFacts
<1>3. c.execution \in Executions
  BY DEF Wait
<1>4. c.execution # e /\ exec[c.execution] = x[c.execution]
  BY <1>1, <1>2, <1>3 DEF Leaves
<1>5. /\ ExecsOK(y) /\ y[c.execution].status # "Waiting"
      /\ y[c.execution].generation = x[c.execution].generation
      /\ \A f \in Executions : f # c.execution => y[f] = x[f]
  BY <1>1, <1>2, <1>3, CommitFacts
<1>6. SiteOf(exec, c.execution).kind \in {"send", "receive", "select"}
  BY <1>2, <1>4 DEF SiteOf
<1>7. Leaves(exec, y, {e, c.execution})
  <2>1. \A f \in Executions \ {e, c.execution} : y[f] = exec[f]
    BY <1>1, <1>5 DEF Leaves
  <2>2. y[e].status # "Waiting" /\ y[e].generation = exec[e].generation
    BY <1>1, <1>4, <1>5 DEF Leaves
  <2>3. exec[c.execution].status = "Waiting"
    BY <1>2, <1>4
  <2>4. y[c.execution].generation = exec[c.execution].generation
    BY <1>4, <1>5
  <2>5. QED
    BY <1>3, <1>5, <1>6, <2>1, <2>2, <2>3, <2>4 DEF Leaves
<1>8. QED
  BY <1>2, <1>4, <1>5, <1>7

----------------------------------------------------------------------------
(* The scheduler and the host registrations. *)

\* Concatenation.
LEMMA RangeConcat ==
  ASSUME NEW T, NEW s \in Seq(T), NEW t \in Seq(T)
  PROVE  s \o t \in Seq(T) /\ Range(s \o t) = Range(s) \cup Range(t)
<1>1. PICK m, n : m = Len(s) /\ n = Len(t) /\ m \in Nat /\ n \in Nat
  OBVIOUS
<1>2. PICK u : u = s \o t
  OBVIOUS
<1>3. u \in Seq(T) /\ DOMAIN u = 1..(m + n) /\ DOMAIN s = 1..m /\ DOMAIN t = 1..n
  BY <1>1, <1>2
<1>4. \A i \in 1..m : u[i] = s[i]
  BY <1>1, <1>2
<1>5. \A i \in 1..n : u[m + i] = t[i]
  BY <1>1, <1>2
<1>6. Range(s) \subseteq Range(u)
  BY <1>1, <1>3, <1>4 DEF Range
<1>7. Range(t) \subseteq Range(u)
  <2>1. \A i \in 1..n : m + i \in 1..(m + n)
    BY <1>1
  <2>2. QED
    BY <1>3, <1>5, <2>1 DEF Range
<1>8. ASSUME NEW i \in 1..(m + n) PROVE u[i] \in Range(s) \cup Range(t)
  <2>1. CASE i <= m
    <3>1. i \in 1..m
      BY <1>1, <2>1
    <3>2. QED
      BY <1>3, <1>4, <3>1 DEF Range
  <2>2. CASE ~(i <= m)
    <3>1. i - m \in 1..n /\ m + (i - m) = i
      BY <1>1, <2>2
    <3>2. u[i] = t[i - m]
      BY <1>5, <3>1
    <3>3. QED
      BY <1>3, <3>1, <3>2 DEF Range
  <2>3. QED
    BY <2>1, <2>2
<1>9. Range(u) \subseteq Range(s) \cup Range(t)
  BY <1>3, <1>8 DEF Range
<1>10. QED
  BY <1>2, <1>3, <1>6, <1>7, <1>9

\* Two sequences without a common element, one after the other.
LEMMA InjectiveConcat ==
  ASSUME NEW T, NEW s \in Seq(T), NEW t \in Seq(T)
  PROVE  IsInjective(s \o t) <=> (IsInjective(s) /\ IsInjective(t) /\ Range(s) \cap Range(t) = {})
<1>1. PICK m, n : m = Len(s) /\ n = Len(t) /\ m \in Nat /\ n \in Nat
  OBVIOUS
<1>2. PICK u : u = s \o t
  OBVIOUS
<1>3. u \in Seq(T) /\ DOMAIN u = 1..(m + n) /\ DOMAIN s = 1..m /\ DOMAIN t = 1..n
  BY <1>1, <1>2
<1>4. \A i \in 1..m : u[i] = s[i] /\ i \in 1..(m + n)
  BY <1>1, <1>2
<1>5. \A i \in 1..n : u[m + i] = t[i] /\ m + i \in 1..(m + n)
  BY <1>1, <1>2
<1>6. ASSUME IsInjective(u) PROVE IsInjective(s) /\ IsInjective(t) /\ Range(s) \cap Range(t) = {}
  <2>1. \A i, j \in 1..(m + n) : u[i] = u[j] => i = j
    BY <1>3, <1>6 DEF IsInjective
  <2>2. \A i, j \in 1..m : s[i] = s[j] => i = j
    BY <1>4, <2>1
  <2>3. ASSUME NEW i \in 1..n, NEW j \in 1..n, t[i] = t[j] PROVE i = j
    <3>1. m + i = m + j
      BY <1>5, <2>1, <2>3
    <3>2. QED
      BY <1>1, <3>1
  <2>4. ASSUME NEW i \in 1..m, NEW j \in 1..n, s[i] = t[j] PROVE FALSE
    <3>1. i = m + j
      BY <1>4, <1>5, <2>1, <2>4
    <3>2. QED
      BY <1>1, <3>1
  <2>5. Range(s) \cap Range(t) = {}
    BY <1>3, <2>4 DEF Range
  <2>6. QED
    BY <1>3, <2>2, <2>3, <2>5 DEF IsInjective
<1>7. ASSUME IsInjective(s), IsInjective(t), Range(s) \cap Range(t) = {} PROVE IsInjective(u)
  <2>1. /\ \A i, j \in 1..m : s[i] = s[j] => i = j
        /\ \A i, j \in 1..n : t[i] = t[j] => i = j
    BY <1>3, <1>7 DEF IsInjective
  <2>2. \A i \in 1..m, j \in 1..n : s[i] # t[j]
    BY <1>3, <1>7 DEF Range
  <2>3. ASSUME NEW i \in 1..(m + n), NEW j \in 1..(m + n), u[i] = u[j] PROVE i = j
    <3>1. CASE i <= m /\ j <= m
      <4>1. i \in 1..m /\ j \in 1..m
        BY <1>1, <3>1
      <4>2. QED
        BY <1>4, <2>1, <2>3, <4>1
    <3>2. CASE i <= m /\ ~(j <= m)
      <4>1. i \in 1..m /\ j - m \in 1..n /\ m + (j - m) = j
        BY <1>1, <3>2
      <4>2. u[i] = s[i] /\ u[j] = t[j - m]
        BY <1>4, <1>5, <4>1
      <4>3. QED
        BY <2>2, <2>3, <4>1, <4>2
    <3>3. CASE ~(i <= m) /\ j <= m
      <4>1. j \in 1..m /\ i - m \in 1..n /\ m + (i - m) = i
        BY <1>1, <3>3
      <4>2. u[j] = s[j] /\ u[i] = t[i - m]
        BY <1>4, <1>5, <4>1
      <4>3. QED
        BY <2>2, <2>3, <4>1, <4>2
    <3>4. CASE ~(i <= m) /\ ~(j <= m)
      <4>1. i - m \in 1..n /\ m + (i - m) = i /\ j - m \in 1..n /\ m + (j - m) = j
        BY <1>1, <3>4
      <4>2. u[i] = t[i - m] /\ u[j] = t[j - m]
        BY <1>5, <4>1
      <4>3. i - m = j - m
        BY <2>1, <2>3, <4>1, <4>2
      <4>4. QED
        BY <1>1, <4>3
    <3>5. QED
      BY <3>1, <3>2, <3>3, <3>4
  <2>4. QED
    BY <1>3, <2>3 DEF IsInjective
<1>8. QED
  BY <1>2, <1>6, <1>7

SchedulerOK ==
  /\ ready \in Seq(Executions) /\ next_round \in Seq(Executions)
  /\ queued \subseteq Executions
  /\ erred \in BOOLEAN
  /\ RunnableIsQueued

\* A host registration names a host operation of its execution, which has one
\* registration at most; unless it was once woken from a registered wait, the
\* execution waits for that operation and has submitted it.
HostOK ==
  /\ \A h \in hostWaits :
       /\ h.token \in HostTokens /\ h.execution \in Executions
       /\ h.operation \in Nat /\ h.generation \in Nat
       /\ Shape[h.execution].sites[h.operation].kind = "host"
       /\ h.execution \notin woken =>
            /\ exec[h.execution].status = "Waiting"
            /\ exec[h.execution].submitted
            /\ exec[h.execution].site = h.operation
            /\ exec[h.execution].generation = h.generation
  /\ \A h, g \in hostWaits : h.execution = g.execution => h = g
  /\ woken \subseteq Executions
  /\ slips \in 0..MaxSlips

QueuesOK ==
  /\ DOMAIN queues = Queues
  /\ queues = [q \in Queues |-> queues[q]]
  /\ \A q \in Queues : QueueOK(q, queues[q])

GhostOK == order \in [Queues -> Seq(Payload)] /\ received \in [Queues -> Seq(Payload)]

\* The inductive invariant of the calls.
KernelInv == ExecsOK(exec) /\ QueuesOK /\ HostOK /\ SchedulerOK /\ GhostOK

\* A call that succeeds admits the executions it made ready.
LEMMA AdmitStep ==
  ASSUME SchedulerOK, NEW turns \in Seq(Executions), IsInjective(turns),
         NEW x, exec' = x, Succeed(x, turns),
         \A e \in Executions \ Range(turns) : x[e].status = exec[e].status,
         \A e \in queued : x[e].status = "Ready"
  PROVE  SchedulerOK'
<1> DEFINE S == {e \in Executions \ queued : x[e].status = "Ready"}
           new == Retain(turns, S)
<1>1. /\ next_round' = next_round \o new
      /\ queued' = queued \cup Range(new)
      /\ erred' = erred /\ ready' = ready
  BY DEF Succeed, admit_turns
<1>2. PICK N : N = new
  OBVIOUS
<1>3. N \in Seq(Executions) /\ Range(N) = Range(turns) \cap S /\ IsInjective(N)
  <2> HIDE DEF S
  <2>1. QED
    BY <1>2, RetainFacts
<1>4. /\ next_round \in Seq(Executions) /\ queued \subseteq Executions /\ erred \in BOOLEAN
      /\ ready \in Seq(Executions) /\ IsInjective(ready)
      /\ IsInjective(next_round) /\ Range(ready) \cap Range(next_round) = {}
      /\ queued = Range(ready) \cup Range(next_round)
      /\ ~erred => \A e \in Executions : exec[e].status = "Ready" => e \in queued
  BY DEF SchedulerOK, RunnableIsQueued
<1>5. /\ next_round' \in Seq(Executions) /\ Range(next_round') = Range(next_round) \cup Range(N)
      /\ queued' = Range(ready) \cup Range(next_round')
      /\ Range(ready) \cap Range(next_round') = {}
  <2>1. next_round \o N \in Seq(Executions) /\ Range(next_round \o N) = Range(next_round) \cup Range(N)
    BY <1>3, <1>4, RangeConcat
  <2>2. next_round' = next_round \o N /\ queued' = queued \cup Range(N)
    BY <1>1, <1>2
  <2>3. Range(ready) \cap Range(N) = {}
    BY <1>3, <1>4
  <2>4. PICK u : u = next_round \o N
    OBVIOUS
  <2>5. Range(u) = Range(next_round) \cup Range(N) /\ next_round' = u /\ u \in Seq(Executions)
    BY <2>1, <2>2, <2>4
  <2>6. queued' = Range(ready) \cup Range(u) /\ Range(ready) \cap Range(u) = {}
    BY <1>4, <2>2, <2>3, <2>5
  <2>7. QED
    BY <2>5, <2>6
<1>6. IsInjective(next_round')
  <2>1. Range(next_round) \cap Range(N) = {}
    BY <1>3, <1>4
  <2>2. IsInjective(next_round \o N)
    BY <1>3, <1>4, <2>1, InjectiveConcat
  <2>3. next_round' = next_round \o N
    BY <1>1, <1>2
  <2>4. QED
    BY <2>2, <2>3
<1>7. queued' = queued \cup (Range(turns) \cap S)
  BY <1>1, <1>2, <1>3
<1>8. queued' \subseteq Executions
  BY <1>4, <1>7
<1>9. \A e \in queued' : exec'[e].status = "Ready"
  BY <1>7
<1>10. ~erred' => \A e \in Executions : exec'[e].status = "Ready" => e \in queued'
  BY <1>1, <1>4, <1>7
<1>11. /\ ready' \in Seq(Executions) /\ erred' \in BOOLEAN
       /\ (IsInjective(ready))' /\ (IsInjective(next_round))'
       /\ (Range(ready) \cap Range(next_round) = {})'
       /\ (queued = Range(ready) \cup Range(next_round))'
  <2>1. ready' \in Seq(Executions) /\ erred' \in BOOLEAN
    BY <1>1, <1>4
  <2>2. (IsInjective(ready))'
    BY <1>1, <1>4 DEF IsInjective
  <2>3. (IsInjective(next_round))'
    BY <1>6 DEF IsInjective
  <2>4. (Range(ready) \cap Range(next_round) = {})'
    BY <1>1, <1>5
  <2>5. (queued = Range(ready) \cup Range(next_round))'
    BY <1>1, <1>5
  <2>6. QED
    BY <2>1, <2>2, <2>3, <2>4, <2>5
<1>12. QED
  BY <1>5, <1>8, <1>9, <1>10, <1>11 DEF SchedulerOK, RunnableIsQueued

\* A call that fails admits nothing.
LEMMA FailStep ==
  ASSUME SchedulerOK, Fail, \A e \in queued : exec'[e].status = "Ready"
  PROVE  SchedulerOK'
<1>1. ready' = ready /\ next_round' = next_round /\ queued' = queued /\ erred' = TRUE
  BY DEF Fail, scheduler
<1>2. QED
  BY <1>1 DEF SchedulerOK, RunnableIsQueued, IsInjective, Range

\* A call that only registers a wait leaves the scheduler alone.
LEMMA StayStep ==
  ASSUME SchedulerOK, UNCHANGED <<ready, next_round, queued, erred>>,
         \A e \in Executions : exec'[e].status = exec[e].status
  PROVE  SchedulerOK'
<1>1. ready' = ready /\ next_round' = next_round /\ queued' = queued /\ erred' = erred
  OBVIOUS
<1>2. \A e \in queued : e \in Executions
  BY DEF SchedulerOK
<1>3. QED
  BY <1>1, <1>2 DEF SchedulerOK, RunnableIsQueued, IsInjective, Range

\* Executions that are queued, or wait for the host, are not committed.
LEMMA LeavesOthers ==
  ASSUME SchedulerOK, HostOK, NEW x, exec' = x, NEW C, Leaves(exec, x, C)
  PROVE  /\ \A e \in queued : x[e].status = "Ready"
         /\ hostWaits' = hostWaits /\ mishaps' = mishaps => HostOK'
<1>1. \A e \in queued : e \in Executions /\ exec[e].status = "Ready"
  BY DEF SchedulerOK, RunnableIsQueued
<1>2. \A e \in queued : x[e].status = "Ready"
  BY <1>1 DEF Leaves
<1>3. ASSUME NEW h \in hostWaits, h.execution \notin woken PROVE exec'[h.execution] = exec[h.execution]
  BY <1>3 DEF HostOK, Leaves, SiteOf
<1>4. ASSUME hostWaits' = hostWaits /\ mishaps' = mishaps PROVE HostOK'
  BY <1>3, <1>4 DEF HostOK, mishaps
<1>5. QED
  BY <1>2, <1>4

\* The wait of an execution is marked as submitted.
LEMMA SubmittedStep ==
  ASSUME ExecsOK(exec), NEW e \in Executions, exec[e].status = "Waiting",
         exec' = Submitted(exec, e)
  PROVE  /\ ExecsOK(exec)'
         /\ \A d \in Executions : /\ exec'[d].status = exec[d].status
                                  /\ exec'[d].site = exec[d].site
                                  /\ exec'[d].generation = exec[d].generation
                                  /\ d # e => exec'[d] = exec[d]
         /\ exec'[e].submitted
<1>1. PICK r : r = exec[e]
  OBVIOUS
<1>2. ExecOK(e, r) /\ r \in ExecutionRecord
  BY <1>1 DEF ExecsOK, ExecOK
<1>3. r = [state |-> r.state, status |-> r.status, site |-> r.site,
           generation |-> r.generation, submitted |-> r.submitted]
  BY <1>2 DEF ExecutionRecord
<1>4. PICK f : f = [r EXCEPT !.submitted = TRUE]
  OBVIOUS
<1>5. f = [state |-> r.state, status |-> r.status, site |-> r.site,
           generation |-> r.generation, submitted |-> TRUE]
  BY <1>3, <1>4
<1>6. f \in ExecutionRecord
  BY <1>2, <1>5 DEF ExecutionRecord
<1>7. ExecOK(e, f)
  BY <1>2, <1>5, <1>6 DEF ExecOK
<1>8. exec' = [exec EXCEPT ![e] = f]
  BY <1>1, <1>4 DEF Submitted
<1>9. exec' = [d \in Executions |-> IF d = e THEN f ELSE exec[d]]
  BY <1>8 DEF ExecsOK
<1>10. PICK y : y = exec'
  OBVIOUS
<1>11. /\ DOMAIN y = Executions /\ y = [d \in Executions |-> y[d]] /\ y[e] = f
       /\ \A d \in Executions : d # e => y[d] = exec[d]
  BY <1>9, <1>10
<1>12. ExecsOK(y)
  BY <1>7, <1>11 DEF ExecsOK
<1>13. QED
  BY <1>1, <1>5, <1>10, <1>11, <1>12 DEF ExecsOK

\* Marking the wait of an execution without a host registration.
LEMMA SubmittedHost ==
  ASSUME HostOK, NEW e, \A d \in Executions : d # e => exec'[d] = exec[d],
         hostWaits' = hostWaits /\ mishaps' = mishaps,
         \A h \in hostWaits : h.execution = e => e \in woken
  PROVE  HostOK'
<1>1. ASSUME NEW h \in hostWaits, h.execution \notin woken PROVE exec'[h.execution] = exec[h.execution]
  BY <1>1 DEF HostOK
<1>2. QED
  BY <1>1 DEF HostOK, mishaps

\* The initial state.
LEMMA InitKernel == Init => KernelInv
<1> SUFFICES ASSUME Init PROVE KernelInv
  OBVIOUS
<1>1. ExecsOK(exec)
  <2>1. ASSUME NEW e \in Executions PROVE ExecOK(e, exec[e])
    <3>1. Shape[e].entry \in DOMAIN Shape[e].states
      BY ShapeAssumption, Zenon
    <3>2. Shape[e].entry \in Nat
      <4>1. PICK s : s = Shape[e].states
        OBVIOUS
      <4>2. s \in Seq(Seq([arm : Nat, out : {"Continue", "Blocked"} \cup Terminal,
                           next : Nat, site : Nat]))
        BY <4>1, VectorAssumption
      <4>3. DOMAIN s \subseteq Nat
        BY <4>2
      <4>4. QED
        BY <3>1, <4>1, <4>3
    <3>3. exec[e] = [state |-> Shape[e].entry, status |-> "Ready", site |-> 1,
                     generation |-> 0, submitted |-> FALSE]
      BY DEF Init
    <3>4. exec[e] \in ExecutionRecord
      BY <3>2, <3>3 DEF ExecutionRecord, Statuses
    <3>5. QED
      BY <3>1, <3>3, <3>4 DEF ExecOK
  <2>2. DOMAIN exec = Executions /\ exec = [e \in Executions |-> exec[e]]
    BY DEF Init
  <2>3. QED
    BY <2>1, <2>2 DEF ExecsOK
<1>2. QueuesOK
  <2>1. ASSUME NEW q \in Queues PROVE QueueOK(q, queues[q])
    <3>1. queues[q] = Record(<<>>, <<>>, <<>>, FALSE)
      BY DEF Init, Record
    <3>2. <<>> \in Seq(Wait) /\ <<>> \in Seq(Payload) /\ Range(<<>>) = {}
      BY DEF Range
    <3>3. QueueOK(q, Record(<<>>, <<>>, <<>>, FALSE))
      BY <3>2, BuildQueueOK
    <3>4. QED
      BY <3>1, <3>3
  <2>2. DOMAIN queues = Queues /\ queues = [q \in Queues |-> queues[q]]
    BY DEF Init
  <2>3. QED
    BY <2>1, <2>2 DEF QueuesOK
<1>3. HostOK
  BY BoundAssumption DEF Init, HostOK
<1>4. SchedulerOK
  <2>1. InstallOrder \in Seq(Executions) /\ IsInjective(InstallOrder) /\ Range(InstallOrder) = Executions
    BY InstallAssumption DEF IsInjective, Range
  <2>2. next_round = InstallOrder /\ queued = Executions /\ erred = FALSE /\ ready = <<>>
    BY DEF Init
  <2>3. \A e \in Executions : exec[e].status = "Ready"
    BY DEF Init
  <2>4. ready \in Seq(Executions) /\ IsInjective(ready) /\ Range(ready) = {}
    BY <2>2 DEF IsInjective, Range
  <2>5. QED
    BY <2>1, <2>2, <2>3, <2>4 DEF SchedulerOK, RunnableIsQueued
<1>5. GhostOK
  <2>1. <<>> \in Seq(Payload)
    OBVIOUS
  <2>2. QED
    BY <2>1 DEF Init, GhostOK
<1>6. QED
  BY <1>1, <1>2, <1>3, <1>4, <1>5 DEF KernelInv

----------------------------------------------------------------------------
(* Each call preserves the invariant. *)

\* What a round takes from its run queue s: the n turns before the first that is
\* refused, and what is left behind that one.
Parts(T, s, n, t, l) ==
  /\ t \in Seq(T) /\ IsInjective(t) /\ l \in Seq(T) /\ IsInjective(l)
  /\ Range(t) \subseteq Range(s) /\ Range(l) \subseteq Range(s)
  /\ Range(t) \cap Range(l) = {}
  /\ n = Len(s) => Range(t) = Range(s) /\ Range(l) = {}

LEMMA RoundSplits ==
  ASSUME NEW T, NEW s \in Seq(T), IsInjective(s), NEW n \in Nat, n <= Len(s)
  PROVE  Parts(T, s, n, SubSeq(s, 1, n), SubSeq(s, n + 2, Len(s)))
<1> PICK t, l : t = SubSeq(s, 1, n) /\ l = SubSeq(s, n + 2, Len(s))
  OBVIOUS
<1>1. PICK m : m = Len(s) /\ m \in Nat /\ DOMAIN s = 1..m
  OBVIOUS
<1>2. t \in Seq(T) /\ DOMAIN t = 1..n /\ \A i \in 1..n : i \in 1..m /\ t[i] = s[i]
  <2>1. \A i \in 1..n : s[i] \in T
    BY <1>1
  <2>2. SubSeq(s, 1, n) = [i \in 1..n |-> s[i]]
    BY <1>1
  <2>3. QED
    BY <1>1, <2>1, <2>2
<1>3. PICK k \in Nat : /\ l \in Seq(T) /\ DOMAIN l = 1..k
                       /\ \A i \in 1..k : n + 1 + i \in 1..m /\ l[i] = s[n + 1 + i]
                       /\ n = m => k = 0
  <2>1. CASE n + 2 <= m
    <3>1. \A i \in 1..(m - n - 1) : n + 1 + i \in 1..m /\ s[n + 1 + i] \in T
      BY <1>1, <2>1
    <3>2. l = [i \in 1..(m - n - 1) |-> s[n + 1 + i]]
      BY <1>1, <2>1
    <3>3. m - n - 1 \in Nat /\ l \in Seq(T)
      BY <1>1, <2>1, <3>1, <3>2
    <3>4. PICK c : c = m - n - 1
      OBVIOUS
    <3>5. /\ DOMAIN l = 1..c /\ c \in Nat
          /\ \A i \in 1..c : n + 1 + i \in 1..m /\ l[i] = s[n + 1 + i]
      BY <3>1, <3>2, <3>3, <3>4
    <3>6. n # m
      BY <1>1, <2>1
    <3>7. QED
      BY <3>3, <3>5, <3>6
  <2>2. CASE ~(n + 2 <= m)
    <3>1. l = <<>>
      BY <1>1, <2>2
    <3>2. l \in Seq(T) /\ DOMAIN l = 1..0 /\ 1..0 = {}
      BY <3>1
    <3>3. QED
      BY <3>2
  <2>3. QED
    BY <2>1, <2>2
<1>4. \A i, j \in 1..m : s[i] = s[j] => i = j
  BY <1>1 DEF IsInjective
<1>5. IsInjective(t)
  BY <1>2, <1>4 DEF IsInjective
<1>6. IsInjective(l)
  <2>1. ASSUME NEW i \in 1..k, NEW j \in 1..k, l[i] = l[j] PROVE i = j
    <3>1. n + 1 + i = n + 1 + j
      BY <1>3, <1>4, <2>1
    <3>2. QED
      BY <3>1
  <2>2. QED
    BY <1>3, <2>1 DEF IsInjective
<1>7. Range(t) \subseteq Range(s) /\ Range(l) \subseteq Range(s)
  BY <1>1, <1>2, <1>3 DEF Range
<1>8. Range(t) \cap Range(l) = {}
  <2>1. ASSUME NEW i \in 1..n, NEW j \in 1..k, t[i] = l[j] PROVE FALSE
    <3>1. i = n + 1 + j
      BY <1>2, <1>3, <1>4, <2>1
    <3>2. QED
      BY <3>1
  <2>2. Range(t) = {t[i] : i \in 1..n} /\ Range(l) = {l[j] : j \in 1..k}
    BY <1>2, <1>3 DEF Range
  <2>3. QED
    BY <2>1, <2>2
<1>9. n = Len(s) => Range(t) = Range(s) /\ Range(l) = {}
  BY <1>1, <1>2, <1>3 DEF Range
<1>10. QED
  BY <1>2, <1>3, <1>5, <1>6, <1>7, <1>8, <1>9 DEF Parts

\* What a round takes and what it leaves: t takes its turns, l stays ready, a
\* waits for the round after the next.
Splits(n, R, t, l, a) ==
  /\ R \in Seq(Executions) /\ t \in Seq(Executions) /\ l \in Seq(Executions) /\ a \in Seq(Executions)
  /\ IsInjective(t) /\ IsInjective(l) /\ IsInjective(a)
  /\ Range(t) \subseteq Range(R) /\ Range(l) \subseteq Range(R)
  /\ Range(t) \cap Range(l) = {} /\ Range(R) \cap Range(a) = {}
  /\ queued = Range(R) \cup Range(a)
  /\ n = Len(R) => Range(t) = Range(R) /\ Range(l) = {}

\* The executions x of a round are those that took their turns, and e is ready
\* again iff it is in S.
Turned(choice, t, x) ==
  /\ DOMAIN x = Executions /\ x = [e \in Executions |-> x[e]]
  /\ \A e \in Range(t) : /\ choice[e] \in DOMAIN Shape[e].states[exec[e].state]
                         /\ x[e] = Follow(e, exec[e], choice[e])
  /\ \A e \in Executions \ Range(t) : x[e] = exec[e]

LEMMA RoundFacts ==
  ASSUME SchedulerOK, NEW choice, NEW n \in Nat, RunRound(choice, n)
  PROVE  \E R, t, l, a, x :
           /\ Splits(n, R, t, l, a) /\ Turned(choice, t, x)
           /\ n <= Len(R)
           /\ exec' = x
           /\ ready' = l
           /\ next_round' = a \o Retain(t, {e \in Executions : x[e].status = "Ready"})
           /\ queued' = (queued \ (Range(R) \ Range(l)))
                          \cup Range(Retain(t, {e \in Executions : x[e].status = "Ready"}))
           /\ erred' = (erred \/ n < Len(R))
           /\ slips' = slips \/ (slips < MaxSlips /\ slips' = slips + 1)
           /\ UNCHANGED <<queues, hostWaits, woken, order, received>>
<1>1. PICK R, a : R = Round /\ a = AfterRound
  OBVIOUS
<1>2. PICK t, l : t = SubSeq(R, 1, n) /\ l = SubSeq(R, n + 2, Len(R))
  OBVIOUS
<1>3. PICK x : x = [e \in Executions |-> IF e \in Range(t) THEN Follow(e, exec[e], choice[e]) ELSE exec[e]]
  OBVIOUS
<1>4. /\ n <= Len(R)
      /\ \A e \in Range(t) : choice[e] \in DOMAIN Shape[e].states[exec[e].state]
      /\ exec' = x
      /\ ready' = l
      /\ next_round' = a \o Retain(t, {e \in Executions : x[e].status = "Ready"})
      /\ queued' = (queued \ (Range(R) \ Range(l)))
                     \cup Range(Retain(t, {e \in Executions : x[e].status = "Ready"}))
      /\ erred' = (erred \/ n < Len(R))
      /\ UNCHANGED <<queues, hostWaits, woken, order, received>>
      /\ n < Len(R) => slips < MaxSlips
      /\ slips' = IF n < Len(R) THEN slips + 1 ELSE slips
  BY <1>1, <1>2, <1>3, Zenon DEF RunRound, ghost
<1>5. /\ R \in Seq(Executions) /\ a \in Seq(Executions) /\ IsInjective(R) /\ IsInjective(a)
      /\ Range(R) \cap Range(a) = {} /\ queued = Range(R) \cup Range(a)
  <2>1. /\ ready \in Seq(Executions) /\ next_round \in Seq(Executions)
        /\ IsInjective(ready) /\ IsInjective(next_round) /\ Range(ready) \cap Range(next_round) = {}
        /\ queued = Range(ready) \cup Range(next_round)
    BY DEF SchedulerOK, RunnableIsQueued
  <2>2. <<>> \in Seq(Executions) /\ IsInjective(<<>>) /\ Range(<<>>) = {}
    BY DEF IsInjective, Range
  <2>3. CASE ready = <<>>
    BY <1>1, <2>1, <2>2, <2>3 DEF Round, AfterRound
  <2>4. CASE ready # <<>>
    BY <1>1, <2>1, <2>4 DEF Round, AfterRound
  <2>5. QED
    BY <2>3, <2>4
<1>6. /\ t \in Seq(Executions) /\ IsInjective(t) /\ l \in Seq(Executions) /\ IsInjective(l)
      /\ Range(t) \subseteq Range(R) /\ Range(l) \subseteq Range(R)
      /\ Range(t) \cap Range(l) = {}
      /\ n = Len(R) => Range(t) = Range(R) /\ Range(l) = {}
  <2>1. n <= Len(R)
    BY <1>4
  <2>2. QED
    <3>1. t = SubSeq(R, 1, n) /\ l = SubSeq(R, n + 2, Len(R)) /\ R \in Seq(Executions) /\ IsInjective(R)
      BY <1>2, <1>5
    <3>2. Parts(Executions, R, n, SubSeq(R, 1, n), SubSeq(R, n + 2, Len(R)))
      BY <2>1, <3>1, RoundSplits
    <3>3. QED
      BY <3>1, <3>2 DEF Parts
<1>7. Splits(n, R, t, l, a)
  BY <1>5, <1>6 DEF Splits
<1>8. Range(t) \subseteq Executions
  BY <1>6, RangeType
<1>9. Turned(choice, t, x)
  BY <1>3, <1>4, <1>8 DEF Turned
<1>10. slips' = slips \/ (slips < MaxSlips /\ slips' = slips + 1)
  BY <1>4
<1>11. QED
  BY <1>4, <1>7, <1>9, <1>10

\* run_round_selected.
LEMMA RunRoundKernel ==
  ASSUME KernelInv, NEW choice, NEW n \in Nat, RunRound(choice, n)
  PROVE  KernelInv'
<1>1. ExecsOK(exec) /\ QueuesOK /\ HostOK /\ SchedulerOK /\ GhostOK
  BY DEF KernelInv
<1>2. PICK R, t, l, a, x :
           /\ Splits(n, R, t, l, a) /\ Turned(choice, t, x)
           /\ n <= Len(R)
           /\ exec' = x
           /\ ready' = l
           /\ next_round' = a \o Retain(t, {e \in Executions : x[e].status = "Ready"})
           /\ queued' = (queued \ (Range(R) \ Range(l)))
                          \cup Range(Retain(t, {e \in Executions : x[e].status = "Ready"}))
           /\ erred' = (erred \/ n < Len(R))
           /\ slips' = slips \/ (slips < MaxSlips /\ slips' = slips + 1)
           /\ UNCHANGED <<queues, hostWaits, woken, order, received>>
  BY <1>1, RoundFacts
<1>3. PICK taken : taken = Range(t)
  OBVIOUS
<1>4. taken \subseteq queued /\ queued \subseteq Executions /\ \A e \in queued : exec[e].status = "Ready"
  BY <1>1, <1>2, <1>3 DEF SchedulerOK, RunnableIsQueued, Splits
<1>5. /\ \A e \in taken : x[e] = Follow(e, exec[e], choice[e])
      /\ \A e \in taken : choice[e] \in DOMAIN Shape[e].states[exec[e].state]
      /\ \A e \in Executions \ taken : x[e] = exec[e]
      /\ DOMAIN x = Executions /\ x = [e \in Executions |-> x[e]]
  BY <1>2, <1>3 DEF Turned
<1>6. ExecsOK(x)
  <2>1. ASSUME NEW e \in taken PROVE ExecOK(e, x[e])
    <3>1. ExecOK(e, exec[e]) /\ e \in Executions
      BY <1>1, <1>4 DEF ExecsOK
    <3>2. choice[e] \in DOMAIN Shape[e].states[exec[e].state]
      BY <1>5
    <3>3. PICK o, i : o = exec[e] /\ i = choice[e]
      OBVIOUS
    <3>4. ExecOK(e, o) /\ i \in DOMAIN Shape[e].states[o.state]
      BY <3>1, <3>2, <3>3
    <3>5. ExecOK(e, Follow(e, o, i))
      BY <3>1, <3>4, FollowFacts
    <3>6. QED
      BY <1>5, <3>3, <3>5
  <2>2. ASSUME NEW e \in Executions \ taken PROVE ExecOK(e, x[e])
    BY <1>1, <1>5 DEF ExecsOK
  <2>3. QED
    BY <1>5, <2>1, <2>2 DEF ExecsOK
<1>7. ExecsOK(exec)'
  BY <1>2, <1>6 DEF ExecsOK
<1>8. HostOK'
  <2>1. ASSUME NEW h \in hostWaits, h.execution \notin woken PROVE exec'[h.execution] = exec[h.execution]
    <3>1. h.execution \in Executions /\ exec[h.execution].status = "Waiting"
      BY <1>1, <2>1 DEF HostOK
    <3>2. h.execution \notin taken
      BY <1>4, <3>1
    <3>3. QED
      BY <1>2, <1>5, <3>1, <3>2
  <2>2. hostWaits' = hostWaits /\ woken' = woken
    BY <1>2
  <2>3. slips' \in 0..MaxSlips
    <3>1. slips \in 0..MaxSlips
      BY <1>1 DEF HostOK
    <3>2. QED
      BY <1>2, <3>1, BoundAssumption
  <2>4. QED
    BY <1>1, <2>1, <2>2, <2>3 DEF HostOK
<1>9. SchedulerOK'
  <2>1. PICK S : S = {e \in Executions : x[e].status = "Ready"}
    OBVIOUS
  <2>2. PICK b : b = Retain(t, S)
    OBVIOUS
  <2>3. b \in Seq(Executions) /\ Range(b) = taken \cap S /\ IsInjective(b)
    <3>1. t \in Seq(Executions) /\ IsInjective(t)
      BY <1>2 DEF Splits
    <3>2. QED
      BY <1>3, <2>2, <3>1, RetainFacts
  <2>4. PICK u : u = a \o b
    OBVIOUS
  <2>5. /\ a \in Seq(Executions) /\ IsInjective(a) /\ l \in Seq(Executions) /\ IsInjective(l)
        /\ taken \subseteq Range(R) /\ Range(l) \subseteq Range(R)
        /\ taken \cap Range(l) = {} /\ Range(R) \cap Range(a) = {}
        /\ queued = Range(R) \cup Range(a)
        /\ n = Len(R) => taken = Range(R)
    BY <1>2, <1>3 DEF Splits
  <2>6. u \in Seq(Executions) /\ Range(u) = Range(a) \cup Range(b)
    BY <2>3, <2>4, <2>5, RangeConcat
  <2>7. IsInjective(u)
    <3>1. Range(a) \cap Range(b) = {}
      BY <2>3, <2>5
    <3>2. QED
      BY <2>3, <2>4, <2>5, <3>1, InjectiveConcat
  <2>8. /\ ready' = l /\ next_round' = u
        /\ queued' = (queued \ (Range(R) \ Range(l))) \cup Range(b)
        /\ erred' = (erred \/ n < Len(R))
    BY <1>2, <2>1, <2>2, <2>4
  <2>9. queued' = Range(l) \cup Range(u)
    BY <2>5, <2>6, <2>8
  <2>10. Range(l) \cap Range(u) = {}
    BY <2>3, <2>5, <2>6
  <2>11. \A e \in queued' : exec'[e].status = "Ready"
    <3>1. ASSUME NEW e \in queued' PROVE x[e].status = "Ready"
      <4>1. CASE e \in Range(b)
        BY <2>1, <2>3, <4>1
      <4>2. CASE e \notin Range(b)
        <5>1. e \in queued /\ e \in Executions /\ e \notin taken
          BY <1>4, <2>5, <2>8, <3>1, <4>2
        <5>2. QED
          BY <1>4, <1>5, <5>1
      <4>3. QED
        BY <4>1, <4>2
    <3>2. QED
      BY <1>2, <3>1
  <2>12. ASSUME ~erred', NEW e \in Executions, exec'[e].status = "Ready" PROVE e \in queued'
    <3>1. ~erred /\ e \in S /\ ~(n < Len(R))
      BY <1>2, <2>1, <2>8, <2>12
    <3>2. n = Len(R)
      <4>1. Len(R) \in Nat
        BY <1>2 DEF Splits
      <4>2. QED
        BY <1>2, <3>1, <4>1
    <3>3. CASE e \in taken
      BY <2>3, <2>8, <3>1, <3>3
    <3>4. CASE e \notin taken
      <4>1. exec[e].status = "Ready"
        BY <1>2, <1>5, <2>12, <3>4
      <4>2. e \in queued
        BY <1>1, <3>1, <4>1 DEF SchedulerOK, RunnableIsQueued
      <4>3. QED
        BY <2>5, <2>8, <3>2, <3>4, <4>2
    <3>5. QED
      BY <3>3, <3>4
  <2>13. erred' \in BOOLEAN /\ queued' \subseteq Executions
    BY <1>4, <2>3, <2>8 DEF SchedulerOK
  <2>14. /\ ready' \in Seq(Executions) /\ next_round' \in Seq(Executions)
         /\ (IsInjective(ready))' /\ (IsInjective(next_round))'
         /\ (Range(ready) \cap Range(next_round) = {})'
         /\ (queued = Range(ready) \cup Range(next_round))'
    <3>1. ready' \in Seq(Executions) /\ next_round' \in Seq(Executions)
      BY <2>5, <2>6, <2>8
    <3>2. (IsInjective(ready))'
      BY <2>5, <2>8 DEF IsInjective
    <3>3. (IsInjective(next_round))'
      BY <2>7, <2>8 DEF IsInjective
    <3>4. (Range(ready) \cap Range(next_round) = {})'
      BY <2>8, <2>10
    <3>5. (queued = Range(ready) \cup Range(next_round))'
      BY <2>8, <2>9
    <3>6. QED
      BY <3>1, <3>2, <3>3, <3>4, <3>5
  <2>15. QED
    BY <2>11, <2>12, <2>13, <2>14 DEF SchedulerOK, RunnableIsQueued
<1>10. QueuesOK' /\ GhostOK'
  BY <1>1, <1>2 DEF QueuesOK, GhostOK
<1>11. QED
  BY <1>7, <1>8, <1>9, <1>10 DEF KernelInv

\* A call that changes one queue.
LEMMA OneQueue ==
  ASSUME QueuesOK, NEW q \in Queues, NEW v, QueueOK(q, v), queues' = [queues EXCEPT ![q] = v]
  PROVE  QueuesOK'
<1>1. queues' = [p \in Queues |-> IF p = q THEN v ELSE queues[p]]
  BY DEF QueuesOK
<1>2. \A p \in Queues : QueueOK(p, queues'[p])
  BY <1>1 DEF QueuesOK
<1>3. QED
  BY <1>1, <1>2 DEF QueuesOK

\* Every queue is replaced.
LEMMA AllQueues ==
  ASSUME NEW f, \A q \in Queues : QueueOK(q, f[q]), f = [q \in Queues |-> f[q]], queues' = f
  PROVE  QueuesOK'
<1>1. DOMAIN f = Queues
  OBVIOUS
<1>2. QED
  BY <1>1 DEF QueuesOK

\* A payload is added to the history of a queue.
LEMMA AppendHistory ==
  ASSUME NEW f \in [Queues -> Seq(Payload)], NEW q \in Queues, NEW p \in Payload
  PROVE  [f EXCEPT ![q] = Append(@, p)] \in [Queues -> Seq(Payload)]
<1>1. Append(f[q], p) \in Seq(Payload)
  OBVIOUS
<1>2. QED
  BY <1>1

\* What a call knows when it is accepted.
LEMMA SubmitsFacts ==
  ASSUME KernelInv, NEW e \in Executions, NEW kind \in {"send", "receive", "select"}, Submits(e, kind)
  PROVE  /\ ExecsOK(exec) /\ QueuesOK /\ HostOK /\ SchedulerOK /\ GhostOK
         /\ exec[e].status = "Waiting" /\ SiteOf(exec, e).kind = kind
         /\ ~exec[e].submitted
         /\ \A h \in hostWaits : h.execution = e => e \in woken
<1>1. ExecsOK(exec) /\ QueuesOK /\ HostOK /\ SchedulerOK /\ GhostOK
  BY DEF KernelInv
<1>2. exec[e].status = "Waiting" /\ SiteOf(exec, e).kind = kind /\ ~exec[e].submitted
  BY DEF Submits, WaitsOn
<1>3. \A h \in hostWaits : h.execution = e => e \in woken
  BY <1>1, <1>2 DEF HostOK
<1>4. QED
  BY <1>1, <1>2, <1>3

\* Two executions, or one, as a sequence of turns.
LEMMA Turns ==
  ASSUME NEW e \in Executions, NEW c \in Executions, c # e
  PROVE  /\ <<e>> \in Seq(Executions) /\ IsInjective(<<e>>) /\ Range(<<e>>) = {e}
         /\ <<e, c>> \in Seq(Executions) /\ IsInjective(<<e, c>>) /\ Range(<<e, c>>) = {e, c}
<1>1. /\ <<e>> \in Seq(Executions) /\ DOMAIN <<e>> = {1}
      /\ <<e, c>> \in Seq(Executions) /\ DOMAIN <<e, c>> = {1, 2}
  OBVIOUS
<1>2. IsInjective(<<e>>) /\ IsInjective(<<e, c>>)
  BY <1>1 DEF IsInjective
<1>3. Range(<<e>>) = {e} /\ Range(<<e, c>>) = {e, c}
  BY <1>1 DEF Range
<1>4. QED
  BY <1>1, <1>2, <1>3

\* The turns of a call that makes one execution ready.
LEMMA OneTurn ==
  ASSUME NEW e \in Executions
  PROVE  <<e>> \in Seq(Executions) /\ IsInjective(<<e>>) /\ Range(<<e>>) = {e}
<1>1. <<e>> \in Seq(Executions) /\ DOMAIN <<e>> = {1}
  OBVIOUS
<1>2. IsInjective(<<e>>)
  BY <1>1 DEF IsInjective
<1>3. Range(<<e>>) = {e}
  BY <1>1 DEF Range
<1>4. QED
  BY <1>1, <1>2, <1>3

\* The executions that leave their waits are admitted.
LEMMA LeavesAndAdmits ==
  ASSUME SchedulerOK, HostOK, hostWaits' = hostWaits /\ mishaps' = mishaps,
         NEW x, exec' = x, NEW C, Leaves(exec, x, C),
         NEW turns \in Seq(Executions), IsInjective(turns), Range(turns) = C, Succeed(x, turns)
  PROVE  SchedulerOK' /\ HostOK'
<1>1. HostOK' /\ \A e \in queued : x[e].status = "Ready"
  BY LeavesOthers
<1>2. \A e \in Executions \ Range(turns) : x[e].status = exec[e].status
  BY DEF Leaves
<1>3. SchedulerOK'
  BY <1>1, <1>2, AdmitStep
<1>4. QED
  BY <1>1, <1>3

\* They leave their waits and the call fails.
LEMMA LeavesAndFails ==
  ASSUME SchedulerOK, HostOK, hostWaits' = hostWaits /\ mishaps' = mishaps,
         NEW x, exec' = x, NEW C, Leaves(exec, x, C), Fail
  PROVE  SchedulerOK' /\ HostOK'
<1>1. HostOK' /\ \A e \in queued : x[e].status = "Ready"
  BY LeavesOthers
<1>2. SchedulerOK'
  BY <1>1, FailStep
<1>3. QED
  BY <1>1, <1>2

\* What remains of a call that commits the executions C, once its queues and
\* its histories are known.
LEMMA Committed ==
  ASSUME SchedulerOK, HostOK, hostWaits' = hostWaits /\ mishaps' = mishaps,
         NEW x, exec' = x, ExecsOK(x), NEW C, Leaves(exec, x, C),
         NEW turns \in Seq(Executions), IsInjective(turns), Range(turns) = C,
         Succeed(x, turns) \/ Fail, QueuesOK', GhostOK'
  PROVE  KernelInv'
<1>1. SchedulerOK' /\ HostOK'
  BY LeavesAndAdmits, LeavesAndFails
<1>2. ExecsOK(exec)'
  BY DEF ExecsOK
<1>3. QED
  BY <1>1, <1>2 DEF KernelInv

\* What remains of a call that registers the wait of e.
LEMMA Parked ==
  ASSUME ExecsOK(exec), SchedulerOK, HostOK, hostWaits' = hostWaits /\ mishaps' = mishaps,
         NEW e \in Executions, exec[e].status = "Waiting", \A h \in hostWaits : h.execution = e => e \in woken,
         exec' = Submitted(exec, e), UNCHANGED <<scheduler, erred>>, QueuesOK', GhostOK'
  PROVE  KernelInv'
<1>1. /\ ExecsOK(exec)'
      /\ \A d \in Executions : exec'[d].status = exec[d].status /\ (d # e => exec'[d] = exec[d])
  BY SubmittedStep
<1>2. SchedulerOK'
  BY <1>1, StayStep DEF scheduler
<1>3. HostOK'
  BY <1>1, SubmittedHost
<1>4. QED
  BY <1>1, <1>2, <1>3 DEF KernelInv

\* submit_send.
LEMMA SubmitSendKernel ==
  ASSUME KernelInv, NEW e \in Executions, SubmitSend(e)
  PROVE  KernelInv'
<1> DEFINE W == WaitOf(e, 0)  Q == SiteOf(exec, e).queue
<1>1. Submits(e, "send") /\ hostWaits' = hostWaits /\ mishaps' = mishaps
  BY DEF SubmitSend
<1>2. /\ ExecsOK(exec) /\ QueuesOK /\ HostOK /\ SchedulerOK /\ GhostOK
      /\ exec[e].status = "Waiting" /\ SiteOf(exec, e).kind = "send"
      /\ \A h \in hostWaits : h.execution = e => e \in woken
  BY <1>1, SubmitsFacts
<1>3. Q \in Queues /\ Outcome(e, exec[e].site, 0)
  BY <1>2, SiteFacts
<1>4. W \in Wait /\ WaitOK(W, Q, "send")
  BY <1>2, WaitOfOK
<1>5. PICK w, q, r, p, x : /\ w = W /\ q = Q /\ r = queues[q] /\ p = PayloadOf(w)
                           /\ x = commit_operation(exec, w)
  OBVIOUS
<1>6. q \in Queues /\ w \in Wait /\ WaitOK(w, q, "send") /\ QueueOK(q, r) /\ p \in Payload
  BY <1>2, <1>3, <1>4, <1>5, PayloadType DEF QueuesOK
<1>7. ExecsOK(x) /\ Leaves(exec, x, {e})
  <2>1. x = commit_operation(exec, WaitOf(e, 0))
    BY <1>5
  <2>2. QED
    BY <1>2, <1>3, <2>1, CommitOne
<1>8. order \in [Queues -> Seq(Payload)] /\ received \in [Queues -> Seq(Payload)]
  BY <1>2 DEF GhostOK
<1>9. /\ [order EXCEPT ![q] = Append(@, p)] \in [Queues -> Seq(Payload)]
      /\ [received EXCEPT ![q] = Append(@, p)] \in [Queues -> Seq(Payload)]
  BY <1>6, <1>8, AppendHistory
<1>10. CASE /\ SendBlocks(q, r)
            /\ queues' = [queues EXCEPT ![q] = register_send(r, w)]
            /\ exec' = Submitted(exec, e)
            /\ order' = [order EXCEPT ![q] = Append(@, p)]
            /\ UNCHANGED <<received, scheduler, erred>>
  <2>1. QueueOK(q, register_send(r, w))
    BY <1>6, <1>10, RegisterSendOK
  <2>2. PICK v : v = register_send(r, w)
    OBVIOUS
  <2>3. QueuesOK'
    BY <1>2, <1>6, <1>10, <2>1, <2>2, OneQueue
  <2>4. GhostOK'
    BY <1>8, <1>9, <1>10 DEF GhostOK
  <2>5. QED
    BY <1>1, <1>2, <1>10, <2>3, <2>4, Parked
<1>11. <<e>> \in Seq(Executions) /\ IsInjective(<<e>>) /\ Range(<<e>>) = {e}
  BY OneTurn
<1>12. CASE /\ r.closed
            /\ exec' = x
            /\ Succeed(x, <<e>>)
            /\ UNCHANGED <<queues, ghost>>
  <2>1. QueuesOK' /\ GhostOK'
    BY <1>2, <1>12 DEF QueuesOK, GhostOK, ghost
  <2>2. QED
    BY <1>1, <1>2, <1>7, <1>11, <1>12, <2>1, Committed
<1>13. CASE /\ ~r.closed /\ r.receive_waiters = <<>> /\ has_buffer_capacity(q, r)
            /\ queues' = [queues EXCEPT ![q] = send(r, p)]
            /\ exec' = x
            /\ Succeed(x, <<e>>)
            /\ order' = [order EXCEPT ![q] = Append(@, p)]
            /\ UNCHANGED received
  <2>1. QueueOK(q, send(r, p))
    BY <1>6, <1>13, SendOK DEF SendBlocks
  <2>2. PICK v : v = send(r, p)
    OBVIOUS
  <2>3. QueuesOK'
    BY <1>2, <1>6, <1>13, <2>1, <2>2, OneQueue
  <2>4. GhostOK'
    BY <1>8, <1>9, <1>13 DEF GhostOK
  <2>5. QED
    BY <1>1, <1>2, <1>7, <1>11, <1>13, <2>3, <2>4, Committed
<1>14. CASE /\ ~r.closed /\ r.receive_waiters # <<>>
            /\ queues' = [queues EXCEPT ![q] = send(r, p)]
            /\ LET c == Head(r.receive_waiters)
                   y == commit_operation(x, c)
               IN \/ /\ ensure_wait(x, c, q, "receive")
                     /\ exec' = y
                     /\ Succeed(y, <<e, c.execution>>)
                     /\ order' = [order EXCEPT ![q] = Append(@, p)]
                     /\ received' = [received EXCEPT ![q] = Append(@, p)]
                  \/ /\ ~ensure_wait(x, c, q, "receive")
                     /\ exec' = x
                     /\ Fail
                     /\ UNCHANGED ghost
  <2>1. QueueOK(q, send(r, p))
    BY <1>6, <1>14, SendOK DEF SendBlocks
  <2>2. PICK v : v = send(r, p)
    OBVIOUS
  <2>3. QueuesOK'
    BY <1>2, <1>6, <1>14, <2>1, <2>2, OneQueue
  <2>4. PICK c, y : c = Head(r.receive_waiters) /\ y = commit_operation(x, c)
    OBVIOUS
  <2>5. c \in Wait /\ c.execution \in Executions /\ WaitOK(c, q, "receive")
    <3>1. r.receive_waiters \in Seq(Wait) /\ \A u \in Range(r.receive_waiters) : WaitOK(u, q, "receive")
      BY <1>6, QueueOKFields
    <3>2. c \in Wait /\ c \in Range(r.receive_waiters)
      BY <1>14, <2>4, <3>1, TailFacts
    <3>3. QED
      BY <3>1, <3>2 DEF Wait
  <2>6. CASE /\ ensure_wait(x, c, q, "receive")
             /\ exec' = y
             /\ Succeed(y, <<e, c.execution>>)
             /\ order' = [order EXCEPT ![q] = Append(@, p)]
             /\ received' = [received EXCEPT ![q] = Append(@, p)]
    <3>1. Owns(x, c, q, "receive")
      BY <2>5, <2>6, EnsureOwns
    <3>2. x = commit_operation(exec, WaitOf(e, 0))
      BY <1>5
    <3>3. ExecsOK(y) /\ Leaves(exec, y, {e, c.execution}) /\ c.execution # e
      BY <1>2, <1>3, <2>4, <2>5, <3>1, <3>2, CommitTwo
    <3>4. GhostOK'
      BY <1>9, <2>6 DEF GhostOK
    <3>5. PICK t : t = <<e, c.execution>>
      OBVIOUS
    <3>6. t \in Seq(Executions) /\ IsInjective(t) /\ Range(t) = {e, c.execution}
      BY <2>5, <3>3, <3>5, Turns
    <3>7. exec' = y /\ Succeed(y, t)
      BY <2>6, <3>5
    <3>8. QED
      BY <1>1, <1>2, <2>3, <3>3, <3>4, <3>6, <3>7, Committed
  <2>7. CASE exec' = x /\ Fail /\ UNCHANGED ghost
    <3>1. GhostOK'
      BY <1>8, <2>7 DEF GhostOK, ghost
    <3>2. QED
      BY <1>1, <1>2, <1>7, <1>11, <2>3, <2>7, <3>1, Committed
  <2>8. QED
    BY <1>14, <2>4, <2>6, <2>7
<1>15. QED
  <2>1. \/ /\ SendBlocks(q, r)
           /\ queues' = [queues EXCEPT ![q] = register_send(r, w)]
           /\ exec' = Submitted(exec, e)
           /\ order' = [order EXCEPT ![q] = Append(@, p)]
           /\ UNCHANGED <<received, scheduler, erred>>
        \/ /\ r.closed
           /\ exec' = x
           /\ Succeed(x, <<e>>)
           /\ UNCHANGED <<queues, ghost>>
        \/ /\ ~r.closed /\ r.receive_waiters = <<>> /\ has_buffer_capacity(q, r)
           /\ queues' = [queues EXCEPT ![q] = send(r, p)]
           /\ exec' = x
           /\ Succeed(x, <<e>>)
           /\ order' = [order EXCEPT ![q] = Append(@, p)]
           /\ UNCHANGED received
        \/ /\ ~r.closed /\ r.receive_waiters # <<>>
           /\ queues' = [queues EXCEPT ![q] = send(r, p)]
           /\ LET c == Head(r.receive_waiters)
                  y == commit_operation(x, c)
              IN \/ /\ ensure_wait(x, c, q, "receive")
                    /\ exec' = y
                    /\ Succeed(y, <<e, c.execution>>)
                    /\ order' = [order EXCEPT ![q] = Append(@, p)]
                    /\ received' = [received EXCEPT ![q] = Append(@, p)]
                 \/ /\ ~ensure_wait(x, c, q, "receive")
                    /\ exec' = x
                    /\ Fail
                    /\ UNCHANGED ghost
    BY <1>5 DEF SubmitSend
  <2>2. QED
    BY <1>10, <1>12, <1>13, <1>14, <2>1

\* The payload that receive takes is one.
LEMMA TakenType ==
  ASSUME NEW q \in Queues, NEW r, QueueOK(q, r), r.payloads # <<>> \/ r.send_waiters # <<>>
  PROVE  TakenPayload(r) \in Payload
<1>1. r.payloads \in Seq(Payload) /\ r.send_waiters \in Seq(Wait)
  BY QueueOKFields
<1>2. r.payloads # <<>> => Head(r.payloads) \in Payload
  BY <1>1, TailFacts
<1>3. r.send_waiters # <<>> => PayloadOf(Head(r.send_waiters)) \in Payload
  BY <1>1, TailFacts, PayloadType
<1>4. QED
  BY <1>2, <1>3 DEF TakenPayload

\* The sender that receive wakes is registered.
LEMMA WakesFacts ==
  ASSUME NEW q \in Queues, NEW r, QueueOK(q, r), r.payloads # <<>> \/ r.send_waiters # <<>>,
         WakesSender(q, r), NEW c, c = Head(r.send_waiters)
  PROVE  /\ r.send_waiters # <<>> /\ c \in Wait /\ c.execution \in Executions
         /\ WaitOK(c, q, "send") /\ c \in Range(r.send_waiters)
<1>1. r.send_waiters # <<>>
  BY DEF WakesSender, promotes
<1>2. r.send_waiters \in Seq(Wait) /\ \A u \in Range(r.send_waiters) : WaitOK(u, q, "send")
  BY QueueOKFields
<1>3. c \in Wait /\ c \in Range(r.send_waiters)
  BY <1>1, <1>2, TailFacts
<1>4. QED
  BY <1>1, <1>2, <1>3 DEF Wait

\* submit_receive.
LEMMA SubmitReceiveKernel ==
  ASSUME KernelInv, NEW e \in Executions, SubmitReceive(e)
  PROVE  KernelInv'
<1> DEFINE W == WaitOf(e, 0)  Q == SiteOf(exec, e).queue
<1>1. Submits(e, "receive") /\ hostWaits' = hostWaits /\ mishaps' = mishaps /\ order' = order
  BY DEF SubmitReceive
<1>2. /\ ExecsOK(exec) /\ QueuesOK /\ HostOK /\ SchedulerOK /\ GhostOK
      /\ exec[e].status = "Waiting" /\ SiteOf(exec, e).kind = "receive"
      /\ \A h \in hostWaits : h.execution = e => e \in woken
  BY <1>1, SubmitsFacts
<1>3. Q \in Queues /\ Outcome(e, exec[e].site, 0)
  BY <1>2, SiteFacts
<1>4. W \in Wait /\ WaitOK(W, Q, "receive")
  BY <1>2, WaitOfOK
<1>5. PICK w, q, r, x : w = W /\ q = Q /\ r = queues[q] /\ x = commit_operation(exec, w)
  OBVIOUS
<1>6. q \in Queues /\ w \in Wait /\ WaitOK(w, q, "receive") /\ QueueOK(q, r)
  BY <1>2, <1>3, <1>4, <1>5 DEF QueuesOK
<1>7. ExecsOK(x) /\ Leaves(exec, x, {e})
  <2>1. x = commit_operation(exec, WaitOf(e, 0))
    BY <1>5
  <2>2. QED
    BY <1>2, <1>3, <2>1, CommitOne
<1>8. order \in [Queues -> Seq(Payload)] /\ received \in [Queues -> Seq(Payload)]
  BY <1>2 DEF GhostOK
<1>10. CASE /\ ReceiveBlocks(r)
            /\ queues' = [queues EXCEPT ![q] = register_receive(r, w)]
            /\ exec' = Submitted(exec, e)
            /\ UNCHANGED <<received, scheduler, erred>>
  <2>1. QueueOK(q, register_receive(r, w))
    BY <1>6, <1>10, RegisterReceiveOK
  <2>2. PICK v : v = register_receive(r, w)
    OBVIOUS
  <2>3. QueuesOK'
    BY <1>2, <1>6, <1>10, <2>1, <2>2, OneQueue
  <2>4. GhostOK'
    BY <1>1, <1>8, <1>10 DEF GhostOK
  <2>5. QED
    BY <1>1, <1>2, <1>10, <2>3, <2>4, Parked
<1>11. <<e>> \in Seq(Executions) /\ IsInjective(<<e>>) /\ Range(<<e>>) = {e}
  BY OneTurn
<1>12. CASE /\ exec' = x
            /\ Succeed(x, <<e>>)
            /\ UNCHANGED <<queues, received>>
  <2>1. QueuesOK' /\ GhostOK'
    BY <1>1, <1>2, <1>12 DEF QueuesOK, GhostOK
  <2>2. QED
    BY <1>1, <1>2, <1>7, <1>11, <1>12, <2>1, Committed
<1>13. ASSUME r.payloads # <<>> \/ r.send_waiters # <<>>,
              queues' = [queues EXCEPT ![q] = receive(q, r)],
              NEW c, c = Head(r.send_waiters), NEW y, y = commit_operation(x, c),
              \/ /\ ~WakesSender(q, r)
                 /\ exec' = x
                 /\ Succeed(x, <<e>>)
                 /\ received' = [received EXCEPT ![q] = Append(@, TakenPayload(r))]
              \/ /\ WakesSender(q, r) /\ ensure_wait(x, c, q, "send")
                 /\ exec' = y
                 /\ Succeed(y, <<e, c.execution>>)
                 /\ received' = [received EXCEPT ![q] = Append(@, TakenPayload(r))]
              \/ /\ WakesSender(q, r) /\ ~ensure_wait(x, c, q, "send")
                 /\ exec' = x
                 /\ Fail
                 /\ UNCHANGED received
      PROVE  KernelInv'
  <2>1. QueueOK(q, receive(q, r))
    BY <1>6, <1>13, ReceiveOK
  <2>2. PICK v, p : v = receive(q, r) /\ p = TakenPayload(r)
    OBVIOUS
  <2>3. QueuesOK'
    BY <1>2, <1>6, <1>13, <2>1, <2>2, OneQueue
  <2>4. p \in Payload
    BY <1>6, <1>13, <2>2, TakenType
  <2>5. [received EXCEPT ![q] = Append(@, p)] \in [Queues -> Seq(Payload)]
    BY <1>6, <1>8, <2>4, AppendHistory
  <2>6. GhostOK'
    BY <1>1, <1>8, <1>13, <2>2, <2>5 DEF GhostOK
  <2>7. CASE exec' = x /\ (Succeed(x, <<e>>) \/ Fail)
    BY <1>1, <1>2, <1>7, <1>11, <2>3, <2>6, <2>7, Committed
  <2>8. CASE /\ WakesSender(q, r) /\ ensure_wait(x, c, q, "send")
             /\ exec' = y
             /\ Succeed(y, <<e, c.execution>>)
    <3>1. c \in Wait /\ c.execution \in Executions /\ WaitOK(c, q, "send")
      BY <1>6, <1>13, <2>8, WakesFacts
    <3>2. Owns(x, c, q, "send")
      BY <2>8, <3>1, EnsureOwns
    <3>3. x = commit_operation(exec, WaitOf(e, 0))
      BY <1>5
    <3>4. ExecsOK(y) /\ Leaves(exec, y, {e, c.execution}) /\ c.execution # e
      BY <1>2, <1>3, <1>13, <3>1, <3>2, <3>3, CommitTwo
    <3>5. PICK t : t = <<e, c.execution>>
      OBVIOUS
    <3>6. t \in Seq(Executions) /\ IsInjective(t) /\ Range(t) = {e, c.execution}
      BY <3>1, <3>4, <3>5, Turns
    <3>7. exec' = y /\ Succeed(y, t)
      BY <2>8, <3>5
    <3>8. QED
      BY <1>1, <1>2, <2>3, <2>6, <3>4, <3>6, <3>7, Committed
  <2>9. QED
    BY <1>13, <2>7, <2>8
<1>14. QED
  <2>1. PICK c, y : c = Head(r.send_waiters) /\ y = commit_operation(x, c)
    OBVIOUS
  <2>2. \/ /\ ReceiveBlocks(r)
           /\ queues' = [queues EXCEPT ![q] = register_receive(r, w)]
           /\ exec' = Submitted(exec, e)
           /\ UNCHANGED <<received, scheduler, erred>>
        \/ /\ exec' = x
           /\ Succeed(x, <<e>>)
           /\ UNCHANGED <<queues, received>>
        \/ /\ r.payloads # <<>> \/ r.send_waiters # <<>>
           /\ queues' = [queues EXCEPT ![q] = receive(q, r)]
           /\ \/ /\ ~WakesSender(q, r)
                 /\ exec' = x
                 /\ Succeed(x, <<e>>)
                 /\ received' = [received EXCEPT ![q] = Append(@, TakenPayload(r))]
              \/ /\ WakesSender(q, r) /\ ensure_wait(x, c, q, "send")
                 /\ exec' = y
                 /\ Succeed(y, <<e, c.execution>>)
                 /\ received' = [received EXCEPT ![q] = Append(@, TakenPayload(r))]
              \/ /\ WakesSender(q, r) /\ ~ensure_wait(x, c, q, "send")
                 /\ exec' = x
                 /\ Fail
                 /\ UNCHANGED received
    BY <1>5, <2>1 DEF SubmitReceive
  <2>3. QED
    BY <1>10, <1>12, <1>13, <2>1, <2>2

\* The payloads that a sequence of waits offers.
LEMMA OffersType ==
  ASSUME NEW s \in Seq(Wait)
  PROVE  /\ [i \in DOMAIN s |-> PayloadOf(s[i])] \in Seq(Payload)
         /\ Len([i \in DOMAIN s |-> PayloadOf(s[i])]) = Len(s)
<1>1. Len(s) \in Nat /\ DOMAIN s = 1..Len(s)
  OBVIOUS
<1>2. \A i \in 1..Len(s) : PayloadOf(s[i]) \in Payload
  BY PayloadType
<1>3. QED
  BY <1>1, <1>2

\* What a select knows when its turn at arm k comes.
LEMMA SelectFacts ==
  ASSUME KernelInv, NEW e \in Executions, Submits(e, "select")
  PROVE  /\ ArmsOf(e) \in Seq([direction : {"send", "receive"}, queue : Queues])
         /\ \A k \in DOMAIN ArmsOf(e) :
              /\ k \in Nat \ {0} /\ k - 1 \in 0..Len(ArmsOf(e)) /\ k - 1 \in Nat
              /\ Outcome(e, exec[e].site, k)
              /\ ArmsOf(e)[k].queue \in Queues /\ ArmsOf(e)[k].direction \in {"send", "receive"}
              /\ WaitOf(e, k) \in Wait
<1>1. ExecsOK(exec) /\ exec[e].status = "Waiting"
  BY SubmitsFacts
<1>2. PICK s : s = ArmsOf(e)
  OBVIOUS
<1> DEFINE A == [direction : {"send", "receive"}, queue : Queues]
<1>3. s \in Seq(A)
  BY <1>1, <1>2, SiteFacts
<1>4. ASSUME NEW k \in DOMAIN s
      PROVE  /\ k \in Nat \ {0} /\ k - 1 \in 0..Len(s) /\ k - 1 \in Nat
             /\ s[k] \in A
  <2> HIDE DEF A
  <2>1. QED
    BY <1>3
<1>5. \A k \in DOMAIN s : s[k].queue \in Queues /\ s[k].direction \in {"send", "receive"}
  BY <1>4
<1>6. \A k \in DOMAIN ArmsOf(e) : Outcome(e, exec[e].site, k)
  BY <1>1, SiteFacts
<1>7. \A k \in Nat : WaitOf(e, k) \in Wait
  BY <1>1, WaitOfOK
<1>8. QED
  BY <1>2, <1>3, <1>4, <1>5, <1>6, <1>7

\* The arms that were registered leave their queues.
LEMMA UnregisterOK ==
  ASSUME NEW e, NEW k, NEW qs, \A q \in Queues : QueueOK(q, qs[q]), queues' = Unregister(qs, e, k)
  PROVE  QueuesOK'
<1>1. PICK W : W = {WaitOf(e, i) : i \in 1..(k - 1)}
  OBVIOUS
<1>2. PICK f : f = [q \in Queues |-> cancel(qs[q], W)]
  OBVIOUS
<1>3. queues' = f
  BY <1>1, <1>2 DEF Unregister
<1>4. f = [q \in Queues |-> f[q]] /\ \A q \in Queues : f[q] = cancel(qs[q], W)
  BY <1>2
<1>5. \A q \in Queues : QueueOK(q, f[q])
  BY <1>4, CancelOK
<1>6. QED
  BY <1>3, <1>4, <1>5, AllQueues

\* submit_select, every arm blocking.
LEMMA SelectBlockedKernel ==
  ASSUME KernelInv, NEW e \in Executions, Submits(e, "select"), hostWaits' = hostWaits /\ mishaps' = mishaps,
         SelectBlocked(e)
  PROVE  KernelInv'
<1>1. /\ ExecsOK(exec) /\ QueuesOK /\ HostOK /\ SchedulerOK /\ GhostOK
      /\ exec[e].status = "Waiting" /\ \A h \in hostWaits : h.execution = e => e \in woken
  BY SubmitsFacts
<1>2. PICK n : n = Len(ArmsOf(e))
  OBVIOUS
<1>3. n \in Nat /\ n \in 0..Len(ArmsOf(e))
  <2>1. PICK s : s = ArmsOf(e)
    OBVIOUS
  <2>2. s \in Seq([direction : {"send", "receive"}, queue : Queues])
    BY <2>1, SelectFacts
  <2>3. Len(s) \in Nat
    BY <2>2
  <2>4. QED
    BY <1>2, <2>1, <2>3
<1>4. /\ \A i \in 1..n : ~ArmIsReady(e, i)
      /\ queues' = Registered(e, n)
      /\ exec' = Submitted(exec, e)
      /\ order' = [q \in Queues |->
                     order[q] \o [i \in DOMAIN ArmWaits(e, n, q, "send") |->
                                    PayloadOf(ArmWaits(e, n, q, "send")[i])]]
      /\ UNCHANGED <<received, scheduler, erred>>
  BY <1>2 DEF SelectBlocked
<1>5. QueuesOK'
  <2>1. \A q \in Queues : QueueOK(q, queues[q])
    BY <1>1 DEF QueuesOK
  <2>2. \A q \in Queues : QueueOK(q, Registered(e, n)[q])
    BY <1>1, <1>3, <1>4, <2>1, RegisteredOK
  <2>3. PICK f : f = Registered(e, n)
    OBVIOUS
  <2>4. f = [q \in Queues |-> f[q]]
    BY <2>3 DEF Registered
  <2>5. QED
    BY <1>4, <2>2, <2>3, <2>4, AllQueues
<1>6. GhostOK'
  <2>1. ASSUME NEW q \in Queues PROVE order'[q] \in Seq(Payload)
    <3>1. PICK s : s = ArmWaits(e, n, q, "send")
      OBVIOUS
    <3>2. s \in Seq(Wait)
      BY <1>1, <1>3, <3>1, ArmWaitsFacts
    <3>3. [i \in DOMAIN s |-> PayloadOf(s[i])] \in Seq(Payload)
      BY <3>2, OffersType
    <3>4. order'[q] = order[q] \o [i \in DOMAIN s |-> PayloadOf(s[i])]
      BY <1>4, <3>1
    <3>5. order[q] \in Seq(Payload)
      BY <1>1 DEF GhostOK
    <3>6. QED
      BY <3>3, <3>4, <3>5
  <2>2. PICK o : o = order'
    OBVIOUS
  <2>3. DOMAIN o = Queues /\ o = [q \in Queues |-> o[q]]
    BY <1>4, <2>2
  <2>4. o \in [Queues -> Seq(Payload)]
    BY <2>1, <2>2, <2>3
  <2>5. QED
    BY <1>1, <1>4, <2>2, <2>4 DEF GhostOK
<1>7. QED
  BY <1>1, <1>4, <1>5, <1>6, Parked

\* submit_select, the first ready arm being k.
LEMMA SelectReadyKernel ==
  ASSUME KernelInv, NEW e \in Executions, Submits(e, "select"), hostWaits' = hostWaits /\ mishaps' = mishaps,
         NEW k \in DOMAIN ArmsOf(e), ArmIsReady(e, k), \A i \in 1..(k - 1) : ~ArmIsReady(e, i),
         NEW q, q = ArmsOf(e)[k].queue, NEW r, r = Registered(e, k - 1)[q],
         NEW x, x = commit_operation(exec, WaitOf(e, k)),
         SelectClosed(e, k, q, r, x) \/ SelectSend(e, k, q, r, x) \/ SelectReceive(e, k, q, r, x)
  PROVE  KernelInv'
<1>1. /\ ExecsOK(exec) /\ QueuesOK /\ HostOK /\ SchedulerOK /\ GhostOK
      /\ exec[e].status = "Waiting" /\ SiteOf(exec, e).kind = "select"
  BY SubmitsFacts
<1>2. /\ k \in Nat \ {0} /\ k - 1 \in 0..Len(ArmsOf(e)) /\ k - 1 \in Nat
      /\ Outcome(e, exec[e].site, k) /\ q \in Queues
      /\ ArmsOf(e)[k].direction \in {"send", "receive"} /\ WaitOf(e, k) \in Wait
  BY SelectFacts
<1>3. ExecsOK(x) /\ Leaves(exec, x, {e})
  BY <1>1, <1>2, CommitOne
<1>4. PICK R : R = Registered(e, k - 1)
  OBVIOUS
<1>5. DOMAIN R = Queues /\ \A p \in Queues : QueueOK(p, R[p])
  <2>1. \A p \in Queues : QueueOK(p, queues[p])
    BY <1>1 DEF QueuesOK
  <2>2. \A p \in Queues : QueueOK(p, Registered(e, k - 1)[p])
    BY <1>1, <1>2, <2>1, RegisteredOK
  <2>3. QED
    BY <1>4, <2>2 DEF Registered
<1>6. QueueOK(q, r) /\ r = R[q]
  BY <1>2, <1>4, <1>5
<1>7. <<e>> \in Seq(Executions) /\ IsInjective(<<e>>) /\ Range(<<e>>) = {e}
  BY OneTurn
<1>8. order \in [Queues -> Seq(Payload)] /\ received \in [Queues -> Seq(Payload)]
  BY <1>1 DEF GhostOK
<1>9. ASSUME NEW v, QueueOK(q, v), queues' = Unregister([R EXCEPT ![q] = v], e, k)
      PROVE  QueuesOK'
  <2>1. PICK S : S = [R EXCEPT ![q] = v]
    OBVIOUS
  <2>2. \A p \in Queues : QueueOK(p, S[p])
    BY <1>5, <1>9, <2>1
  <2>3. QED
    BY <1>9, <2>1, <2>2, UnregisterOK
<1>10. CASE SelectClosed(e, k, q, r, x)
  <2>1. queues' = Unregister(R, e, k) /\ exec' = x /\ Succeed(x, <<e>>) /\ UNCHANGED <<order, received>>
    BY <1>4, <1>10 DEF SelectClosed, ghost
  <2>2. QueuesOK'
    BY <1>5, <2>1, UnregisterOK
  <2>3. GhostOK'
    BY <1>8, <2>1 DEF GhostOK
  <2>4. QED
    BY <1>1, <1>3, <1>7, <2>1, <2>2, <2>3, Committed
<1>11. CASE SelectSend(e, k, q, r, x)
  <2>1. PICK p, c, y : p = PayloadOf(WaitOf(e, k)) /\ c = Head(r.receive_waiters) /\ y = commit_operation(x, c)
    OBVIOUS
  <2>2. /\ ArmsOf(e)[k].direction = "send" /\ ~r.closed
        /\ queues' = Unregister([R EXCEPT ![q] = send(r, p)], e, k)
        /\ \/ /\ exec' = x
              /\ Succeed(x, <<e>>)
              /\ order' = [order EXCEPT ![q] = Append(@, p)]
              /\ UNCHANGED received
           \/ /\ r.receive_waiters # <<>> /\ Owns(x, c, q, "receive")
              /\ exec' = y
              /\ Succeed(y, <<e, c.execution>>)
              /\ order' = [order EXCEPT ![q] = Append(@, p)]
              /\ received' = [received EXCEPT ![q] = Append(@, p)]
           \/ /\ exec' = x
              /\ Fail
              /\ UNCHANGED <<order, received>>
    BY <1>4, <1>11, <2>1 DEF SelectSend, ghost
  <2>3. ~SendBlocks(q, r)
    BY <2>2 DEF ArmIsReady
  <2>4. p \in Payload
    BY <1>2, <2>1, PayloadType
  <2>5. QueuesOK'
    <3>1. PICK v : v = send(r, p)
      OBVIOUS
    <3>2. QueueOK(q, v)
      BY <1>2, <1>6, <2>2, <2>3, <2>4, <3>1, SendOK
    <3>3. QED
      BY <1>9, <2>2, <3>1, <3>2
  <2>6. /\ [order EXCEPT ![q] = Append(@, p)] \in [Queues -> Seq(Payload)]
        /\ [received EXCEPT ![q] = Append(@, p)] \in [Queues -> Seq(Payload)]
    BY <1>2, <1>8, <2>4, AppendHistory
  <2>7. GhostOK'
    BY <1>8, <2>2, <2>6 DEF GhostOK
  <2>8. CASE exec' = x /\ (Succeed(x, <<e>>) \/ Fail)
    BY <1>1, <1>3, <1>7, <2>5, <2>7, <2>8, Committed
  <2>9. CASE /\ r.receive_waiters # <<>> /\ Owns(x, c, q, "receive")
             /\ exec' = y
             /\ Succeed(y, <<e, c.execution>>)
    <3>1. c \in Wait /\ c.execution \in Executions
      <4>1. r.receive_waiters \in Seq(Wait)
        BY <1>2, <1>6, QueueOKFields
      <4>2. c \in Wait
        BY <2>1, <2>9, <4>1, TailFacts
      <4>3. QED
        BY <4>2 DEF Wait
    <3>2. ExecsOK(y) /\ Leaves(exec, y, {e, c.execution}) /\ c.execution # e
      <4>1. k \in Nat
        BY <1>2
      <4>2. QED
        BY <1>1, <1>2, <2>1, <2>9, <3>1, <4>1, CommitTwo
    <3>3. PICK t : t = <<e, c.execution>>
      OBVIOUS
    <3>4. t \in Seq(Executions) /\ IsInjective(t) /\ Range(t) = {e, c.execution}
      BY <3>1, <3>2, <3>3, Turns
    <3>5. exec' = y /\ Succeed(y, t)
      BY <2>9, <3>3
    <3>6. QED
      BY <1>1, <2>5, <2>7, <3>2, <3>4, <3>5, Committed
  <2>10. QED
    BY <2>2, <2>8, <2>9
<1>12. CASE SelectReceive(e, k, q, r, x)
  <2>1. PICK p, c, y : p = TakenPayload(r) /\ c = Head(r.send_waiters) /\ y = commit_operation(x, c)
    OBVIOUS
  <2>2. /\ r.payloads # <<>> \/ r.send_waiters # <<>>
        /\ queues' = Unregister([R EXCEPT ![q] = receive(q, r)], e, k)
        /\ order' = order
        /\ \/ /\ exec' = x
              /\ Succeed(x, <<e>>)
              /\ received' = [received EXCEPT ![q] = Append(@, p)]
           \/ /\ WakesSender(q, r) /\ Owns(x, c, q, "send")
              /\ exec' = y
              /\ Succeed(y, <<e, c.execution>>)
              /\ received' = [received EXCEPT ![q] = Append(@, p)]
           \/ /\ exec' = x
              /\ Fail
              /\ UNCHANGED received
    BY <1>4, <1>12, <2>1 DEF SelectReceive
  <2>3. p \in Payload
    BY <1>2, <1>6, <2>1, <2>2, TakenType
  <2>4. QueuesOK'
    <3>1. PICK v : v = receive(q, r)
      OBVIOUS
    <3>2. QueueOK(q, v)
      BY <1>2, <1>6, <2>2, <3>1, ReceiveOK
    <3>3. QED
      BY <1>9, <2>2, <3>1, <3>2
  <2>5. [received EXCEPT ![q] = Append(@, p)] \in [Queues -> Seq(Payload)]
    BY <1>2, <1>8, <2>3, AppendHistory
  <2>6. GhostOK'
    BY <1>8, <2>2, <2>5 DEF GhostOK
  <2>7. CASE exec' = x /\ (Succeed(x, <<e>>) \/ Fail)
    BY <1>1, <1>3, <1>7, <2>4, <2>6, <2>7, Committed
  <2>8. CASE /\ WakesSender(q, r) /\ Owns(x, c, q, "send")
             /\ exec' = y
             /\ Succeed(y, <<e, c.execution>>)
    <3>1. c \in Wait /\ c.execution \in Executions
      BY <1>2, <1>6, <2>1, <2>2, <2>8, WakesFacts
    <3>2. ExecsOK(y) /\ Leaves(exec, y, {e, c.execution}) /\ c.execution # e
      <4>1. k \in Nat
        BY <1>2
      <4>2. QED
        BY <1>1, <1>2, <2>1, <2>8, <3>1, <4>1, CommitTwo
    <3>3. PICK t : t = <<e, c.execution>>
      OBVIOUS
    <3>4. t \in Seq(Executions) /\ IsInjective(t) /\ Range(t) = {e, c.execution}
      BY <3>1, <3>2, <3>3, Turns
    <3>5. exec' = y /\ Succeed(y, t)
      BY <2>8, <3>3
    <3>6. QED
      BY <1>1, <2>4, <2>6, <3>2, <3>4, <3>5, Committed
  <2>9. QED
    BY <2>2, <2>7, <2>8
<1>13. QED
  BY <1>10, <1>11, <1>12

\* submit_select.
LEMMA SubmitSelectKernel ==
  ASSUME KernelInv, NEW e \in Executions, SubmitSelect(e)
  PROVE  KernelInv'
<1>1. Submits(e, "select") /\ hostWaits' = hostWaits /\ mishaps' = mishaps
  BY DEF SubmitSelect
<1>2. CASE SelectBlocked(e)
  BY <1>1, <1>2, SelectBlockedKernel
<1>3. ASSUME NEW k \in DOMAIN ArmsOf(e), ArmIsReady(e, k), \A i \in 1..(k - 1) : ~ArmIsReady(e, i),
             NEW q, q = ArmsOf(e)[k].queue, NEW r, r = Registered(e, k - 1)[q],
             NEW x, x = commit_operation(exec, WaitOf(e, k)),
             SelectClosed(e, k, q, r, x) \/ SelectSend(e, k, q, r, x) \/ SelectReceive(e, k, q, r, x)
      PROVE  KernelInv'
  BY <1>1, <1>3, SelectReadyKernel
<1>4. CASE ~SelectBlocked(e)
  <2>1. PICK k \in DOMAIN ArmsOf(e) :
          LET q == ArmsOf(e)[k].queue
              r == Registered(e, k - 1)[q]
              x == commit_operation(exec, WaitOf(e, k))
          IN /\ ArmIsReady(e, k)
             /\ \A i \in 1..(k - 1) : ~ArmIsReady(e, i)
             /\ \/ SelectClosed(e, k, q, r, x)
                \/ SelectSend(e, k, q, r, x)
                \/ SelectReceive(e, k, q, r, x)
    BY <1>4 DEF SubmitSelect
  <2>2. PICK q, r, x : /\ q = ArmsOf(e)[k].queue /\ r = Registered(e, k - 1)[q]
                       /\ x = commit_operation(exec, WaitOf(e, k))
    OBVIOUS
  <2>3. /\ ArmIsReady(e, k) /\ \A i \in 1..(k - 1) : ~ArmIsReady(e, i)
        /\ SelectClosed(e, k, q, r, x) \/ SelectSend(e, k, q, r, x) \/ SelectReceive(e, k, q, r, x)
    BY <2>1, <2>2
  <2>4. QED
    BY <1>3, <2>2, <2>3
<1>5. QED
  BY <1>2, <1>4

\* Withdrawing payloads keeps the histories typed.
LEMMA WithdrawType ==
  ASSUME GhostOK, NEW W, Withdraw(W)
  PROVE  order' \in [Queues -> Seq(Payload)]
<1>1. ASSUME NEW q \in Queues PROVE order'[q] \in Seq(Payload)
  <2>1. PICK O : O = {PayloadOf(w) : w \in W \cap Range(queues[q].send_waiters)}
    OBVIOUS
  <2>2. order'[q] = Without(order[q], O)
    BY <2>1 DEF Withdraw
  <2>3. order[q] \in Seq(Payload)
    BY DEF GhostOK
  <2>4. QED
    BY <2>2, <2>3, WithoutFacts
<1>2. PICK o : o = order'
  OBVIOUS
<1>3. DOMAIN o = Queues /\ o = [q \in Queues |-> o[q]]
  BY <1>2 DEF Withdraw
<1>4. QED
  BY <1>1, <1>2, <1>3

\* What close_queue commits.  gone, done, losers and X are those of CloseQueue.
Gone(q, owners, i) ==
  \/ ~Owns(exec, owners[i], q, IF queues[q].send_waiters # <<>> THEN "send" ELSE "receive")
  \/ \E j \in 1..(i - 1) : owners[j].execution = owners[i].execution

Done(q, owners) == {i \in DOMAIN owners : \A j \in 1..i : ~Gone(q, owners, j)}

Losers(owners, done) ==
  {w \in UNION {{[owners[i] EXCEPT !.arm = a] : a \in DOMAIN ArmsOf(owners[i].execution)} :
                i \in {j \in done : owners[j].arm # 0}} :
     \A i \in done : w # owners[i]}

CloseExec(owners, done) ==
  [e \in Executions |->
     IF \E i \in done : owners[i].execution = e
     THEN commit_operation(exec, owners[CHOOSE i \in done : owners[i].execution = e])[e]
     ELSE exec[e]]

Owners(q) == CloseOwners(CloseWakes(queues[q]))

CloseTurns(owners) == [i \in DOMAIN owners |-> owners[i].execution]

CloseQueues(q, losers) ==
  [p \in Queues |-> IF p = q THEN close(queues[q]) ELSE cancel(queues[p], losers)]

\* CloseQueue in these terms.
LEMMA CloseQueueDef ==
  ASSUME NEW q, CloseQueue(q)
  PROVE  \E owners, done, losers, x :
         /\ owners = Owners(q) /\ done = Done(q, owners) /\ losers = Losers(owners, done)
         /\ x = CloseExec(owners, done)
         /\ ~queues[q].closed
         /\ queues' = CloseQueues(q, losers)
         /\ exec' = x
         /\ Withdraw(losers \cup Range(queues[q].send_waiters))
         /\ done = DOMAIN owners => Succeed(x, CloseTurns(owners))
         /\ done # DOMAIN owners => Fail
         /\ hostWaits' = hostWaits /\ mishaps' = mishaps /\ received' = received
<1> DEFINE O == Owners(q)
           D == Done(q, O)
           L == Losers(O, D)
           X == CloseExec(O, D)
<1>1. /\ ~queues[q].closed
      /\ queues' = CloseQueues(q, L)
      /\ exec' = X
      /\ Withdraw(L \cup Range(queues[q].send_waiters))
      /\ IF D = DOMAIN O THEN Succeed(X, CloseTurns(O)) ELSE Fail
      /\ hostWaits' = hostWaits /\ mishaps' = mishaps /\ received' = received
  BY DEF CloseQueue, Gone, Done, Losers, Owners, CloseExec, CloseTurns, CloseQueues
<1> HIDE DEF O, D, L, X
<1>2. O = Owners(q) /\ D = Done(q, O) /\ L = Losers(O, D) /\ X = CloseExec(O, D)
  BY DEF O, D, L, X
<1>3. QED
  BY <1>1, <1>2

\* The wakes of a queue, and the owners among them.
LEMMA OwnersFacts ==
  ASSUME NEW q \in Queues, QueueOK(q, queues[q]), NEW owners, owners = Owners(q)
  PROVE  /\ CloseWakes(queues[q]) \in Seq(Wait)
         /\ Range(CloseWakes(queues[q])) = Range(queues[q].send_waiters) \cup Range(queues[q].receive_waiters)
         /\ owners \in Seq(Wait)
         /\ Range(owners) \subseteq Range(CloseWakes(queues[q]))
         /\ \A w \in Range(CloseWakes(queues[q])) :
              w \in Range(owners) <=>
                (w.arm = 0 \/ \A i \in DOMAIN CloseWakes(queues[q]) :
                                 SameRecord(CloseWakes(queues[q])[i], w) =>
                                   w.arm <= CloseWakes(queues[q])[i].arm)
<1>1. PICK s, a, b : s = CloseWakes(queues[q]) /\ a = queues[q].send_waiters /\ b = queues[q].receive_waiters
  OBVIOUS
<1>2. a \in Seq(Wait) /\ b \in Seq(Wait)
  BY <1>1, QueueOKFields
<1>3. s = a \o b
  BY <1>1 DEF CloseWakes
<1>4. s \in Seq(Wait) /\ Range(s) = Range(a) \cup Range(b)
  BY <1>2, <1>3, RangeConcat
<1>5. PICK S : S = {w \in Range(s) : w.arm = 0 \/ \A i \in DOMAIN s : SameRecord(s[i], w) => w.arm <= s[i].arm}
  OBVIOUS
<1>6. owners = Retain(s, S)
  BY <1>1, <1>5 DEF CloseOwners, Owners
<1>7. owners \in Seq(Wait) /\ Range(owners) = Range(s) \cap S
  BY <1>4, <1>6, RetainFacts
<1>8. \A w \in Range(s) : w \in Range(owners) <=>
        (w.arm = 0 \/ \A i \in DOMAIN s : SameRecord(s[i], w) => w.arm <= s[i].arm)
  BY <1>5, <1>7
<1>9. QED
  BY <1>1, <1>4, <1>7, <1>8

\* close_queue commits the wakes in order, each of another execution.
LEMMA CloseCommits ==
  ASSUME ExecsOK(exec), NEW q \in Queues, NEW owners \in Seq(Wait), NEW done, done = Done(q, owners),
         NEW x, x = CloseExec(owners, done)
  PROVE  /\ ExecsOK(x)
         /\ Leaves(exec, x, {owners[i].execution : i \in done})
         /\ \A i, j \in done : owners[i].execution = owners[j].execution => i = j
<1>1. Len(owners) \in Nat /\ DOMAIN owners = 1..Len(owners)
  OBVIOUS
<1>2. done \subseteq DOMAIN owners
  BY DEF Done
<1>3. \A i \in DOMAIN owners : owners[i] \in Wait /\ owners[i].execution \in Executions
  <2>1. \A i \in DOMAIN owners : owners[i] \in Wait
    OBVIOUS
  <2>2. QED
    BY <2>1 DEF Wait
<1>4. \A i \in done : \A j \in 1..i : ~Gone(q, owners, j)
  BY DEF Done
<1>5. ASSUME NEW i \in done
      PROVE  /\ exec[owners[i].execution].status = "Waiting"
             /\ Outcome(owners[i].execution, exec[owners[i].execution].site, owners[i].arm)
             /\ SiteOf(exec, owners[i].execution).kind \in {"send", "receive", "select"}
  <2>1. i \in 1..i /\ i \in 1..Len(owners)
    BY <1>1, <1>2
  <2>2. PICK d : d = IF queues[q].send_waiters # <<>> THEN "send" ELSE "receive"
    OBVIOUS
  <2>3. d \in {"send", "receive"}
    BY <2>2
  <2>4. Owns(exec, owners[i], q, d)
    BY <1>4, <2>1, <2>2 DEF Gone
  <2>5. PICK o, w : o = exec /\ w = owners[i]
    OBVIOUS
  <2>6. Owns(o, w, q, d)
    BY <2>4, <2>5
  <2>7. /\ o[w.execution].status = "Waiting"
        /\ Outcome(w.execution, o[w.execution].site, w.arm)
        /\ SiteOf(o, w.execution).kind \in {"send", "receive", "select"}
    BY <2>3, <2>6, OwnsFacts
  <2>8. QED
    BY <2>5, <2>7
<1>6. \A i, j \in done : owners[i].execution = owners[j].execution => i = j
  <2>1. ASSUME NEW i \in done, NEW j \in done, owners[i].execution = owners[j].execution, i < j
        PROVE  FALSE
    <3>1. i \in 1..(j - 1) /\ j \in 1..j
      BY <1>1, <1>2, <2>1
    <3>2. Gone(q, owners, j)
      BY <2>1, <3>1 DEF Gone
    <3>3. QED
      BY <1>4, <3>1, <3>2
  <2>2. ASSUME NEW i \in done, NEW j \in done, owners[i].execution = owners[j].execution
        PROVE  i = j
    <3>1. i \in Nat /\ j \in Nat
      BY <1>1, <1>2
    <3>2. i < j \/ j < i \/ i = j
      BY <3>1
    <3>3. QED
      BY <2>1, <2>2, <3>2
  <2>3. QED
    BY <2>2
<1>7. ASSUME NEW i \in done
      PROVE  /\ ExecOK(owners[i].execution, x[owners[i].execution])
             /\ x[owners[i].execution].status # "Waiting"
             /\ x[owners[i].execution].generation = exec[owners[i].execution].generation
  <2>1. PICK o, w, e : o = exec /\ w = owners[i] /\ e = w.execution
    OBVIOUS
  <2>2. e \in Executions /\ i \in DOMAIN owners
    BY <1>2, <1>3, <2>1
  <2>3. (CHOOSE j \in done : owners[j].execution = e) = i
    BY <1>6, <2>1
  <2>4. x[e] = commit_operation(o, w)[e]
    <3>1. x[e] = commit_operation(exec, owners[CHOOSE j \in done : owners[j].execution = e])[e]
      BY <2>1, <2>2 DEF CloseExec
    <3>2. QED
      BY <2>1, <2>3, <3>1
  <2>5. /\ ExecsOK(o) /\ w.execution \in Executions /\ o[w.execution].status = "Waiting"
        /\ Outcome(w.execution, o[w.execution].site, w.arm)
    BY <1>5, <2>1, <2>2
  <2>6. PICK y : y = commit_operation(o, w)
    OBVIOUS
  <2>7. ExecsOK(y) /\ y[e].status # "Waiting" /\ y[e].generation = o[e].generation
    BY <2>1, <2>5, <2>6, CommitFacts
  <2>8. ExecOK(e, y[e])
    BY <2>2, <2>7 DEF ExecsOK
  <2>9. QED
    BY <2>1, <2>4, <2>6, <2>7, <2>8
<1>8. \A e \in Executions : (~\E i \in done : owners[i].execution = e) => x[e] = exec[e]
  BY DEF CloseExec
<1>9. DOMAIN x = Executions /\ x = [e \in Executions |-> x[e]]
  BY DEF CloseExec
<1>10. ExecsOK(x)
  <2>1. ASSUME NEW e \in Executions PROVE ExecOK(e, x[e])
    <3>1. CASE \E i \in done : owners[i].execution = e
      <4>1. PICK i \in done : owners[i].execution = e
        BY <3>1
      <4>2. ExecOK(owners[i].execution, x[owners[i].execution])
        BY <1>7
      <4>3. QED
        BY <4>1, <4>2
    <3>2. CASE ~\E i \in done : owners[i].execution = e
      BY <1>8, <3>2 DEF ExecsOK
    <3>3. QED
      BY <3>1, <3>2
  <2>2. QED
    BY <1>9, <2>1 DEF ExecsOK
<1>11. Leaves(exec, x, {owners[i].execution : i \in done})
  <2>1. {owners[i].execution : i \in done} \subseteq Executions
    BY <1>2, <1>3
  <2>2. \A e \in Executions \ {owners[i].execution : i \in done} : x[e] = exec[e]
    BY <1>8
  <2>3. \A e \in {owners[i].execution : i \in done} :
          /\ exec[e].status = "Waiting" /\ SiteOf(exec, e).kind \in {"send", "receive", "select"}
          /\ x[e].status # "Waiting" /\ x[e].generation = exec[e].generation
    <3>1. ASSUME NEW e, NEW i \in done, e = owners[i].execution
          PROVE  /\ exec[e].status = "Waiting" /\ SiteOf(exec, e).kind \in {"send", "receive", "select"}
                 /\ x[e].status # "Waiting" /\ x[e].generation = exec[e].generation
      BY <1>5, <1>7, <3>1
    <3>2. QED
      BY <3>1
  <2>4. QED
    BY <2>1, <2>2, <2>3 DEF Leaves
<1>12. QED
  BY <1>6, <1>10, <1>11

\* close_queue.
LEMMA CloseQueueKernel ==
  ASSUME KernelInv, NEW q \in Queues, CloseQueue(q)
  PROVE  KernelInv'
<1>1. ExecsOK(exec) /\ QueuesOK /\ HostOK /\ SchedulerOK /\ GhostOK /\ QueueOK(q, queues[q])
  BY DEF KernelInv, QueuesOK
<1>6. PICK owners, done, losers, x :
         /\ owners = Owners(q) /\ done = Done(q, owners) /\ losers = Losers(owners, done)
         /\ x = CloseExec(owners, done)
         /\ ~queues[q].closed
         /\ queues' = CloseQueues(q, losers)
         /\ exec' = x
         /\ Withdraw(losers \cup Range(queues[q].send_waiters))
         /\ done = DOMAIN owners => Succeed(x, CloseTurns(owners))
         /\ done # DOMAIN owners => Fail
         /\ hostWaits' = hostWaits /\ mishaps' = mishaps /\ received' = received
  BY CloseQueueDef
<1>7. owners \in Seq(Wait)
  BY <1>1, <1>6, OwnersFacts
<1>8. /\ ExecsOK(x) /\ Leaves(exec, x, {owners[i].execution : i \in done})
      /\ \A i, j \in done : owners[i].execution = owners[j].execution => i = j
  BY <1>1, <1>6, <1>7, CloseCommits
<1>9. QueuesOK'
  <2>1. PICK f : f = queues'
    OBVIOUS
  <2>2. f = [p \in Queues |-> f[p]]
    BY <1>6, <2>1 DEF CloseQueues
  <2>3. ASSUME NEW p \in Queues PROVE QueueOK(p, f[p])
    <3>1. QueueOK(p, queues[p])
      BY <1>1 DEF QueuesOK
    <3>2. CASE p = q
      <4>1. f[p] = close(queues[q])
        BY <1>6, <2>1, <3>2 DEF CloseQueues
      <4>2. QED
        BY <1>1, <3>2, <4>1, CloseOK
    <3>3. CASE p # q
      <4>1. f[p] = cancel(queues[p], losers)
        BY <1>6, <2>1, <3>3 DEF CloseQueues
      <4>2. QED
        BY <3>1, <4>1, CancelOK
    <3>4. QED
      BY <3>2, <3>3
  <2>4. QED
    BY <2>1, <2>2, <2>3, AllQueues
<1>10. GhostOK'
  <2>1. order' \in [Queues -> Seq(Payload)]
    BY <1>1, <1>6, WithdrawType
  <2>2. QED
    BY <1>1, <1>6, <2>1 DEF GhostOK
<1>11. CASE done = DOMAIN owners
  <2>1. PICK t : t = CloseTurns(owners)
    OBVIOUS
  <2>2. \A i \in DOMAIN owners : owners[i].execution \in Executions
    <3>1. \A i \in DOMAIN owners : owners[i] \in Wait
      BY <1>7
    <3>2. QED
      BY <3>1 DEF Wait
  <2>3. t \in Seq(Executions)
    BY <1>7, <2>1, <2>2 DEF CloseTurns
  <2>4. IsInjective(t) /\ Range(t) = {owners[i].execution : i \in done}
    BY <1>8, <1>11, <2>1 DEF IsInjective, Range, CloseTurns
  <2>5. Succeed(x, t)
    BY <1>6, <1>11, <2>1
  <2>6. QED
    BY <1>1, <1>6, <1>8, <1>9, <1>10, <2>3, <2>4, <2>5, Committed
<1>12. CASE done # DOMAIN owners
  <2>1. Fail
    BY <1>6, <1>12
  <2>2. PICK C : C = {owners[i].execution : i \in done}
    OBVIOUS
  <2>3. SchedulerOK' /\ HostOK'
    BY <1>1, <1>6, <1>8, <2>1, <2>2, LeavesAndFails
  <2>4. ExecsOK(exec)'
    BY <1>6, <1>8 DEF ExecsOK
  <2>5. QED
    BY <1>9, <1>10, <2>3, <2>4 DEF KernelInv
<1>13. QED
  BY <1>11, <1>12

\* submit_host.
LEMMA SubmitHostKernel ==
  ASSUME KernelInv, NEW e \in Executions, NEW token \in HostTokens, SubmitHost(e, token)
  PROVE  KernelInv'
<1>1. ExecsOK(exec) /\ QueuesOK /\ HostOK /\ SchedulerOK /\ GhostOK
  BY DEF KernelInv
<1>2. PICK h : h = [token |-> token, execution |-> e, operation |-> exec[e].site,
                    generation |-> exec[e].generation]
  OBVIOUS
<1>3. /\ exec[e].status = "Waiting" /\ SiteOf(exec, e).kind = "host"
      /\ \A g \in hostWaits : g.execution # e
      /\ hostWaits' = hostWaits \cup {h}
      /\ exec' = Submitted(exec, e)
      /\ UNCHANGED <<queues, ready, next_round, queued, erred, woken, slips, order, received>>
  BY <1>2 DEF SubmitHost, Submits, WaitsOn, HasHostWait, scheduler, mishaps, ghost
<1>4. /\ ExecsOK(exec)'
      /\ \A d \in Executions : /\ exec'[d].status = exec[d].status
                               /\ exec'[d].site = exec[d].site
                               /\ exec'[d].generation = exec[d].generation
                               /\ d # e => exec'[d] = exec[d]
      /\ exec'[e].submitted
  BY <1>1, <1>3, SubmittedStep
<1>5. SchedulerOK'
  BY <1>1, <1>3, <1>4, StayStep
<1>6. QueuesOK' /\ GhostOK'
  BY <1>1, <1>3 DEF QueuesOK, GhostOK
<1>7. h.token = token /\ h.execution = e /\ h.operation = exec[e].site /\ h.generation = exec[e].generation
  BY <1>2
<1>8. exec[e].site \in Nat /\ exec[e].generation \in Nat
  <2>1. exec[e] \in ExecutionRecord
    BY <1>1 DEF ExecsOK, ExecOK
  <2>2. QED
    BY <2>1 DEF ExecutionRecord
<1>9. ASSUME NEW g \in hostWaits'
      PROVE  /\ g.token \in HostTokens /\ g.execution \in Executions
             /\ g.operation \in Nat /\ g.generation \in Nat
             /\ Shape[g.execution].sites[g.operation].kind = "host"
             /\ g.execution \notin woken =>
                  /\ exec'[g.execution].status = "Waiting"
                  /\ exec'[g.execution].submitted
                  /\ exec'[g.execution].site = g.operation
                  /\ exec'[g.execution].generation = g.generation
  <2>1. CASE g = h
    BY <1>3, <1>4, <1>7, <1>8, <2>1 DEF SiteOf
  <2>2. CASE g \in hostWaits
    <3>1. /\ g.token \in HostTokens /\ g.execution \in Executions
          /\ g.operation \in Nat /\ g.generation \in Nat
          /\ Shape[g.execution].sites[g.operation].kind = "host"
          /\ g.execution \notin woken =>
               /\ exec[g.execution].status = "Waiting"
               /\ exec[g.execution].submitted
               /\ exec[g.execution].site = g.operation
               /\ exec[g.execution].generation = g.generation
      BY <1>1, <2>2 DEF HostOK
    <3>2. exec'[g.execution] = exec[g.execution]
      BY <1>3, <1>4, <2>2, <3>1
    <3>3. QED
      BY <3>1, <3>2
  <2>3. QED
    BY <1>3, <2>1, <2>2
<1>10. \A g, f \in hostWaits' : g.execution = f.execution => g = f
  BY <1>1, <1>3, <1>7 DEF HostOK
<1>11. HostOK'
  BY <1>1, <1>3, <1>9, <1>10 DEF HostOK
<1>12. QED
  BY <1>4, <1>5, <1>6, <1>11 DEF KernelInv

\* A host registration leaves together with the wait of its execution.
LEMMA HostLeaves ==
  ASSUME HostOK, NEW h \in hostWaits, hostWaits' = hostWaits \ {h}, mishaps' = mishaps,
         \A d \in Executions : d # h.execution => exec'[d] = exec[d]
  PROVE  HostOK'
<1>1. ASSUME NEW g \in hostWaits' PROVE g \in hostWaits /\ exec'[g.execution] = exec[g.execution]
  BY DEF HostOK
<1>2. QED
  BY <1>1 DEF HostOK, mishaps

\* complete_host.
LEMMA CompleteHostKernel ==
  ASSUME KernelInv, NEW h \in hostWaits, CompleteHost(h)
  PROVE  KernelInv'
<1>1. ExecsOK(exec) /\ QueuesOK /\ HostOK /\ SchedulerOK /\ GhostOK
  BY DEF KernelInv
<1>2. PICK w, x : /\ w = [execution |-> h.execution, operation |-> h.operation,
                          generation |-> h.generation, arm |-> 0]
                  /\ x = commit_operation(exec, w)
  OBVIOUS
<1> DEFINE Waits == exec[h.execution].status = "Waiting" /\ exec[h.execution].site = h.operation
<1>3. /\ hostWaits' = hostWaits \ {h} /\ mishaps' = mishaps
      /\ \/ Waits /\ exec' = x /\ Succeed(x, <<h.execution>>)
         \/ exec' = exec /\ Fail
      /\ UNCHANGED <<queues, order, received>>
  BY <1>2 DEF CompleteHost, ghost
<1>20. QueuesOK' /\ GhostOK'
  BY <1>1, <1>3 DEF QueuesOK, GhostOK
<1>21. CASE exec' = exec /\ Fail
  <2>1. \A d \in queued : exec'[d].status = "Ready"
    BY <1>1, <1>21 DEF SchedulerOK, RunnableIsQueued
  <2>2. SchedulerOK'
    BY <1>1, <1>21, <2>1, FailStep
  <2>3. HostOK'
    BY <1>1, <1>3, <1>21, HostLeaves
  <2>4. ExecsOK(exec)'
    BY <1>1, <1>21 DEF ExecsOK
  <2>5. QED
    BY <1>20, <2>2, <2>3, <2>4 DEF KernelInv
<1>22. SUFFICES ASSUME Waits, exec' = x, Succeed(x, <<h.execution>>) PROVE KernelInv'
  BY <1>3, <1>21
<1>4. PICK e : e = h.execution
  OBVIOUS
<1>5. w.execution = e /\ w.arm = 0
  BY <1>2, <1>4
<1>6. e \in Executions /\ exec[e].status = "Waiting" /\ SiteOf(exec, e).kind = "host"
  BY <1>1, <1>4, <1>22 DEF HostOK, SiteOf
<1>7. Outcome(e, exec[e].site, 0)
  BY <1>6 DEF Outcome, SiteOf
<1>8. PICK o : o = exec
  OBVIOUS
<1>9. /\ ExecsOK(x) /\ x[e].status # "Waiting"
      /\ \A d \in Executions : d # e => x[d] = o[d]
  <2>1. /\ ExecsOK(o) /\ w.execution \in Executions /\ o[w.execution].status = "Waiting"
        /\ Outcome(w.execution, o[w.execution].site, w.arm) /\ x = commit_operation(o, w)
    BY <1>1, <1>2, <1>5, <1>6, <1>7, <1>8
  <2>2. QED
    BY <1>5, <2>1, CommitFacts
<1>10. HostOK'
  BY <1>1, <1>3, <1>4, <1>8, <1>9, <1>22, HostLeaves
<1>11. SchedulerOK'
  <2>1. <<e>> \in Seq(Executions) /\ IsInjective(<<e>>) /\ Range(<<e>>) = {e}
    BY <1>6, OneTurn
  <2>2. \A d \in Executions \ Range(<<e>>) : x[d].status = exec[d].status
    BY <1>8, <1>9, <2>1
  <2>3. \A d \in queued : d \in Executions /\ exec[d].status = "Ready"
    BY <1>1 DEF SchedulerOK, RunnableIsQueued
  <2>4. \A d \in queued : x[d].status = "Ready"
    BY <1>6, <1>8, <1>9, <2>3
  <2>5. exec' = x /\ Succeed(x, <<e>>)
    BY <1>4, <1>22
  <2>6. QED
    BY <1>1, <2>1, <2>2, <2>4, <2>5, AdmitStep
<1>13. ExecsOK(exec)'
  BY <1>9, <1>22 DEF ExecsOK
<1>14. QED
  BY <1>10, <1>11, <1>13, <1>20 DEF KernelInv

\* An execution enters its cleanup state.
LEMMA CleanupFacts ==
  ASSUME ExecsOK(exec), NEW e \in Executions, Shape[e].cleanup # 0, NEW x, x = Cleanup(e)
  PROVE  /\ ExecsOK(x) /\ x[e].status = "Ready" /\ x[e].generation = exec[e].generation
         /\ \A d \in Executions : d # e => x[d] = exec[d]
<1>1. PICK r, n : r = exec[e] /\ n = Shape[e].cleanup
  OBVIOUS
<1>2. r \in ExecutionRecord
  BY <1>1 DEF ExecsOK, ExecOK
<1>3. r = [state |-> r.state, status |-> r.status, site |-> r.site,
           generation |-> r.generation, submitted |-> r.submitted]
  BY <1>2 DEF ExecutionRecord
<1>4. n \in DOMAIN Shape[e].states /\ n \in Nat
  <2>1. Shape[e].cleanup \in DOMAIN Shape[e].states \cup {0}
    BY ShapeAssumption, Zenon
  <2>2. PICK s : s = Shape[e].states
    OBVIOUS
  <2>3. s \in Seq(Seq([arm : Nat, out : {"Continue", "Blocked"} \cup Terminal, next : Nat, site : Nat]))
    BY <2>2, VectorAssumption
  <2>4. DOMAIN s \subseteq Nat
    BY <2>3
  <2>5. QED
    BY <1>1, <2>1, <2>2, <2>4
<1>5. PICK f : f = [state |-> n, status |-> "Ready", site |-> r.site,
                    generation |-> r.generation, submitted |-> r.submitted]
  OBVIOUS
<1>6. x = [d \in Executions |-> IF d = e THEN f ELSE exec[d]]
  <2>2. x = [exec EXCEPT ![e].state = n, ![e].status = "Ready"]
    BY <1>1 DEF Cleanup
  <2>3. PICK g : g = [r EXCEPT !.state = n]
    OBVIOUS
  <2>1. g = [state |-> n, status |-> r.status, site |-> r.site,
             generation |-> r.generation, submitted |-> r.submitted]
    BY <1>3, <2>3
  <2>4. [g EXCEPT !.status = "Ready"] = f
    BY <1>5, <2>1
  <2>5. DOMAIN exec = Executions /\ exec = [d \in Executions |-> exec[d]]
    BY DEF ExecsOK
  <2>6. QED
    BY <1>1, <2>2, <2>3, <2>4, <2>5
<1>7. f \in ExecutionRecord
  BY <1>2, <1>4, <1>5 DEF ExecutionRecord, Statuses
<1>8. ExecOK(e, f)
  BY <1>4, <1>5, <1>7 DEF ExecOK
<1>9. /\ DOMAIN x = Executions /\ x = [d \in Executions |-> x[d]] /\ x[e] = f
      /\ \A d \in Executions : d # e => x[d] = exec[d]
  BY <1>6
<1>10. ExecsOK(x)
  BY <1>8, <1>9 DEF ExecsOK
<1>11. QED
  BY <1>1, <1>5, <1>9, <1>10

\* An execution becomes ready and is admitted.
LEMMA ReadyAdmits ==
  ASSUME SchedulerOK, NEW e \in Executions, NEW x, exec' = x, x[e].status = "Ready",
         \A d \in Executions : d # e => x[d] = exec[d], Succeed(x, <<e>>)
  PROVE  SchedulerOK'
<1>1. <<e>> \in Seq(Executions) /\ IsInjective(<<e>>) /\ Range(<<e>>) = {e}
  BY OneTurn
<1>2. \A d \in Executions \ Range(<<e>>) : x[d].status = exec[d].status
  BY <1>1
<1>3. \A d \in queued : d \in Executions /\ exec[d].status = "Ready"
  BY DEF SchedulerOK, RunnableIsQueued
<1>4. \A d \in queued : x[d].status = "Ready"
  BY <1>3
<1>5. QED
  BY <1>1, <1>2, <1>4, AdmitStep

\* request_cancellation.
LEMMA CancellationKernel ==
  ASSUME KernelInv, NEW e \in Executions, NEW g, RequestCancellation(e, g)
  PROVE  KernelInv'
<1>1. ExecsOK(exec) /\ QueuesOK /\ HostOK /\ SchedulerOK /\ GhostOK
  BY DEF KernelInv
<1>2. Shape[e].cleanup # 0
  BY DEF RequestCancellation
<1>3. PICK x : x = Cleanup(e)
  OBVIOUS
<1>4. /\ ExecsOK(x) /\ x[e].status = "Ready"
      /\ \A d \in Executions : d # e => x[d] = exec[d]
  BY <1>1, <1>2, <1>3, CleanupFacts
<1>5. CASE CancelRunning(e)
  <2>1. /\ exec[e].status = "Ready" /\ exec' = x /\ Succeed(x, <<e>>)
        /\ UNCHANGED <<queues, order, received>> /\ hostWaits' = hostWaits /\ mishaps' = mishaps
    BY <1>3, <1>5 DEF CancelRunning, ghost
  <2>2. SchedulerOK'
    BY <1>1, <1>4, <2>1, ReadyAdmits
  <2>3. \A h \in hostWaits : h.execution = e => e \in woken
    BY <1>1, <2>1 DEF HostOK
  <2>4. HostOK'
    BY <1>1, <1>4, <2>1, <2>3, SubmittedHost
  <2>5. QueuesOK' /\ GhostOK'
    BY <1>1, <2>1 DEF QueuesOK, GhostOK
  <2>6. ExecsOK(exec)'
    BY <1>4, <2>1 DEF ExecsOK
  <2>7. QED
    BY <2>2, <2>4, <2>5, <2>6 DEF KernelInv
<1>7. CASE CancelQueueWait(e, g)
  <2>1. PICK W : W = Claimable(e, g) \cap UNION {Registrations(q) : q \in Queues}
    OBVIOUS
  <2>2. /\ \A h \in hostWaits : h.execution = e => e \in woken
        /\ queues' = [q \in Queues |-> cancel(queues[q], W)]
        /\ Withdraw(W)
        /\ \/ exec' = x /\ Succeed(x, <<e>>)
           \/ exec' = exec /\ Fail
        /\ hostWaits' = hostWaits /\ mishaps' = mishaps /\ received' = received
    BY <1>3, <1>7, <2>1 DEF CancelQueueWait, HasHostWait
  <2>3. QueuesOK'
    <3>1. PICK f : f = [q \in Queues |-> cancel(queues[q], W)]
      OBVIOUS
    <3>2. f = [q \in Queues |-> f[q]] /\ \A q \in Queues : f[q] = cancel(queues[q], W)
      BY <3>1
    <3>3. \A q \in Queues : QueueOK(q, queues[q])
      BY <1>1 DEF QueuesOK
    <3>4. \A q \in Queues : QueueOK(q, f[q])
      BY <3>2, <3>3, CancelOK
    <3>5. QED
      BY <2>2, <3>1, <3>2, <3>4, AllQueues
  <2>4. GhostOK'
    BY <1>1, <2>2, WithdrawType DEF GhostOK
  <2>5. CASE exec' = x /\ Succeed(x, <<e>>)
    <3>1. SchedulerOK'
      BY <1>1, <1>4, <2>5, ReadyAdmits
    <3>2. HostOK'
      BY <1>1, <1>4, <2>2, <2>5, SubmittedHost
    <3>3. ExecsOK(exec)'
      BY <1>4, <2>5 DEF ExecsOK
    <3>4. QED
      BY <2>3, <2>4, <3>1, <3>2, <3>3 DEF KernelInv
  <2>6. CASE exec' = exec /\ Fail
    <3>1. \A d \in queued : exec'[d].status = "Ready"
      BY <1>1, <2>6 DEF SchedulerOK, RunnableIsQueued
    <3>2. SchedulerOK'
      BY <1>1, <2>6, <3>1, FailStep
    <3>3. HostOK'
      BY <1>1, <2>2, <2>6, SubmittedHost
    <3>4. ExecsOK(exec)'
      BY <1>1, <2>6 DEF ExecsOK
    <3>5. QED
      BY <2>3, <2>4, <3>2, <3>3, <3>4 DEF KernelInv
  <2>7. QED
    BY <2>2, <2>5, <2>6
<1>8. QED
  BY <1>5, <1>7 DEF RequestCancellation

\* request_host_cancellation.
LEMMA CancelHostKernel ==
  ASSUME KernelInv, NEW e \in Executions, NEW g, CancelHost(e, g)
  PROVE  KernelInv'
<1>1. ExecsOK(exec) /\ QueuesOK /\ HostOK /\ SchedulerOK /\ GhostOK
  BY DEF KernelInv
<1>2. PICK x : x = Cleanup(e)
  OBVIOUS
<1>3. PICK h \in hostWaits : h.execution = e /\ hostWaits' = hostWaits \ {h}
  BY DEF CancelHost
<1>4. /\ mishaps' = mishaps /\ UNCHANGED <<queues, order, received>>
      /\ \/ Shape[e].cleanup # 0 /\ exec' = x /\ Succeed(x, <<e>>)
         \/ exec' = exec /\ UNCHANGED <<ready, next_round, queued, erred>>
         \/ exec' = exec /\ Fail
  BY <1>2 DEF CancelHost, scheduler, ghost
<1>5. QueuesOK' /\ GhostOK'
  BY <1>1, <1>4 DEF QueuesOK, GhostOK
<1>6. CASE Shape[e].cleanup # 0 /\ exec' = x /\ Succeed(x, <<e>>)
  <2>1. /\ ExecsOK(x) /\ x[e].status = "Ready"
        /\ \A d \in Executions : d # e => x[d] = exec[d]
    BY <1>1, <1>2, <1>6, CleanupFacts
  <2>2. SchedulerOK'
    BY <1>1, <1>6, <2>1, ReadyAdmits
  <2>3. HostOK'
    BY <1>1, <1>3, <1>4, <1>6, <2>1, HostLeaves
  <2>4. ExecsOK(exec)'
    BY <1>6, <2>1 DEF ExecsOK
  <2>5. QED
    BY <1>5, <2>2, <2>3, <2>4 DEF KernelInv
<1>7. ASSUME exec' = exec, UNCHANGED <<ready, next_round, queued, erred>> \/ Fail PROVE KernelInv'
  <2>1. \A d \in queued : exec'[d].status = "Ready"
    BY <1>1, <1>7 DEF SchedulerOK, RunnableIsQueued
  <2>2. SchedulerOK'
    BY <1>1, <1>7, <2>1, FailStep, StayStep
  <2>3. HostOK'
    BY <1>1, <1>3, <1>4, <1>7, HostLeaves
  <2>4. ExecsOK(exec)'
    BY <1>1, <1>7 DEF ExecsOK
  <2>5. QED
    BY <1>5, <2>2, <2>3, <2>4 DEF KernelInv
<1>8. QED
  BY <1>4, <1>6, <1>7

\* wake.
LEMMA WakeKernel ==
  ASSUME KernelInv, NEW e \in Executions, Wake(e)
  PROVE  KernelInv'
<1>1. ExecsOK(exec) /\ QueuesOK /\ HostOK /\ SchedulerOK /\ GhostOK
  BY DEF KernelInv
<1>2. PICK x : x = [exec EXCEPT ![e].status = "Ready"]
  OBVIOUS
<1>3. /\ exec[e].status = "Waiting"
      /\ exec' = x /\ Succeed(x, <<e>>)
      /\ slips' = slips \/ (slips < MaxSlips /\ slips' = slips + 1)
      /\ woken' = IF exec[e].submitted THEN woken \cup {e} ELSE woken
      /\ UNCHANGED <<queues, hostWaits, order, received>>
  BY <1>2 DEF Wake, ghost
<1>4. PICK r : r = exec[e]
  OBVIOUS
<1>5. ExecOK(e, r) /\ r \in ExecutionRecord
  BY <1>1, <1>4 DEF ExecsOK, ExecOK
<1>6. r = [state |-> r.state, status |-> r.status, site |-> r.site,
           generation |-> r.generation, submitted |-> r.submitted]
  BY <1>5 DEF ExecutionRecord
<1>7. PICK f : f = [r EXCEPT !.status = "Ready"]
  OBVIOUS
<1>8. f = [state |-> r.state, status |-> "Ready", site |-> r.site,
           generation |-> r.generation, submitted |-> r.submitted]
  BY <1>6, <1>7
<1>9. f \in ExecutionRecord
  BY <1>5, <1>8 DEF ExecutionRecord, Statuses
<1>10. ExecOK(e, f)
  BY <1>5, <1>8, <1>9 DEF ExecOK
<1>11. x = [d \in Executions |-> IF d = e THEN f ELSE exec[d]]
  BY <1>1, <1>2, <1>4, <1>7 DEF ExecsOK
<1>12. /\ DOMAIN x = Executions /\ x = [d \in Executions |-> x[d]] /\ x[e] = f
       /\ \A d \in Executions : d # e => x[d] = exec[d]
  BY <1>11
<1>13. ExecsOK(exec)'
  BY <1>1, <1>3, <1>10, <1>12 DEF ExecsOK
<1>14. x[e].status = "Ready"
  BY <1>8, <1>12
<1>15. SchedulerOK'
  BY <1>1, <1>3, <1>12, <1>14, ReadyAdmits
<1>16. woken \subseteq woken' /\ woken' \subseteq Executions /\ slips' \in 0..MaxSlips
  <2>1. woken \subseteq Executions /\ slips \in 0..MaxSlips
    BY <1>1 DEF HostOK
  <2>2. slips' \in 0..MaxSlips
    BY <1>3, <2>1, BoundAssumption
  <2>3. QED
    BY <1>3, <2>1, <2>2
<1>20. ASSUME NEW h \in hostWaits, h.execution \notin woken' PROVE exec'[h.execution] = exec[h.execution]
  <2>1. h.execution \in Executions /\ exec[h.execution].submitted
    BY <1>1, <1>16, <1>20 DEF HostOK
  <2>2. h.execution # e
    BY <1>3, <1>20, <2>1
  <2>3. QED
    BY <1>3, <1>12, <2>1, <2>2
<1>17. HostOK'
  BY <1>1, <1>3, <1>16, <1>20 DEF HostOK
<1>18. QueuesOK' /\ GhostOK'
  BY <1>1, <1>3 DEF QueuesOK, GhostOK
<1>19. QED
  BY <1>13, <1>15, <1>17, <1>18 DEF KernelInv

\* Every call preserves the invariant.
LEMMA NextKernel == ASSUME KernelInv, [Next]_vars PROVE KernelInv'
<1>1. ASSUME NEW choice \in [Executions -> 1..MaxEdges], NEW n \in 0..Cardinality(Executions),
             RunRound(choice, n)
      PROVE  KernelInv'
  <2>1. n \in Nat
    OBVIOUS
  <2>2. QED
    BY <1>1, <2>1, RunRoundKernel
<1>2. ASSUME NEW e \in Executions, SubmitSend(e) PROVE KernelInv'
  BY <1>2, SubmitSendKernel
<1>3. ASSUME NEW e \in Executions, SubmitReceive(e) PROVE KernelInv'
  BY <1>3, SubmitReceiveKernel
<1>4. ASSUME NEW e \in Executions, SubmitSelect(e) PROVE KernelInv'
  BY <1>4, SubmitSelectKernel
<1>5. ASSUME NEW e \in Executions, NEW token \in HostTokens, SubmitHost(e, token) PROVE KernelInv'
  BY <1>5, SubmitHostKernel
<1>6. ASSUME NEW e \in Executions, NEW g \in 0..MaxGeneration, RequestCancellation(e, g) PROVE KernelInv'
  BY <1>6, CancellationKernel
<1>7. ASSUME NEW e \in Executions, Wake(e) PROVE KernelInv'
  BY <1>7, WakeKernel
<1>12. ASSUME NEW e \in Executions, NEW g \in 0..MaxGeneration, CancelHost(e, g) PROVE KernelInv'
  BY <1>12, CancelHostKernel
<1>8. ASSUME NEW q \in Queues, CloseQueue(q) PROVE KernelInv'
  BY <1>8, CloseQueueKernel
<1>9. ASSUME NEW h \in hostWaits, CompleteHost(h) PROVE KernelInv'
  BY <1>9, CompleteHostKernel
<1>10. CASE UNCHANGED vars
  <2>1. /\ exec' = exec /\ queues' = queues /\ hostWaits' = hostWaits /\ ready' = ready
        /\ next_round' = next_round /\ queued' = queued /\ erred' = erred
        /\ slips' = slips /\ woken' = woken /\ order' = order /\ received' = received
    BY <1>10 DEF vars
  <2>2. ExecsOK(exec)'
    BY <2>1 DEF KernelInv, ExecsOK
  <2>3. QueuesOK' /\ GhostOK'
    BY <2>1 DEF KernelInv, QueuesOK, GhostOK
  <2>4. HostOK'
    BY <2>1 DEF KernelInv, HostOK
  <2>5. SchedulerOK'
    <3>1. SchedulerOK
      BY DEF KernelInv
    <3>2. QED
      BY <2>1, <3>1, StayStep
  <2>6. QED
    BY <2>2, <2>3, <2>4, <2>5 DEF KernelInv
<1>11. QED
  BY <1>1, <1>2, <1>3, <1>4, <1>5, <1>6, <1>7, <1>8, <1>9, <1>10, <1>12 DEF Next

\* What the invariant says of the types, the queues and the run queue.
LEMMA KernelParts == KernelInv => TypeOK /\ QueuesSettled /\ RunnableIsQueued
<1> SUFFICES ASSUME KernelInv PROVE TypeOK /\ QueuesSettled /\ RunnableIsQueued
  OBVIOUS
<1>1. ExecsOK(exec) /\ QueuesOK /\ HostOK /\ SchedulerOK /\ GhostOK
  BY DEF KernelInv
<1>2. exec \in [Executions -> ExecutionRecord] /\ \A e \in Executions : exec[e].state \in DOMAIN Shape[e].states
  BY <1>1 DEF ExecsOK, ExecOK
<1>3. queues \in [Queues -> QueueRecord] /\ \A q \in Queues : Settled(q, queues[q])
  BY <1>1 DEF QueuesOK, QueueOK
<1>4. QueuesSettled
  BY <1>3 DEF QueuesSettled, Settled
<1>5. TypeOK
  BY <1>1, <1>2, <1>3 DEF TypeOK, ExecutionRecord, Statuses, QueueRecord, HostOK, SchedulerOK, GhostOK
<1>6. QED
  BY <1>1, <1>4, <1>5 DEF SchedulerOK

\* The invariant holds in every state.
LEMMA KernelAlways == Spec => []KernelInv
<1>1. Init => KernelInv
  BY InitKernel
<1>2. KernelInv /\ [Next]_vars => KernelInv'
  BY NextKernel
<1>3. QED
  BY <1>1, <1>2, PTL DEF Spec

\* TypedExecution, TypedQueue and TypedScheduler keep their types, and no call
\* leaves an execution in a state that its shape does not declare: for shapes
\* that validate() accepts (ShapeAssumption) and that have the edge
\* matching_commit_transition looks for (LoweringAssumption).
THEOREM KernelTypes == Spec => []TypeOK
  BY KernelAlways, KernelParts, PTL

\* register_*, send, receive, promote_one_sender, cancel and close: no queue
\* keeps a wait that it could serve, after calls that fail too.
THEOREM QueuesAreSettled == Spec => []QueuesSettled
  BY KernelAlways, KernelParts, PTL

\* admit_turns and run_round: the run queue holds every ready execution once,
\* and only ready ones.
THEOREM ReadyExecutionsRun == Spec => []RunnableIsQueued
  BY KernelAlways, KernelParts, PTL

----------------------------------------------------------------------------
(* Payloads.  What happened in an earlier wait stays in the past. *)

\* Generation g of execution e has been submitted, in the executions x.
Past(x, e, g) ==
  /\ g <= x[e].generation
  /\ (x[e].status = "Waiting" /\ ~x[e].submitted) => g # x[e].generation

Ages(x, y) == \A e \in Executions : \A g \in Nat : Past(x, e, g) => Past(y, e, g)

\* Every payload that was delivered (R), is buffered (P) or is offered by a
\* waiting sender (s) is there once, and it is of a submitted wait, as are all
\* the registrations (s and t), which are there once too.
Once(x, R, P, s, t) ==
  /\ IsInjective(R) /\ IsInjective(P) /\ IsInjective(s) /\ IsInjective(t)
  /\ Range(R) \cap Range(P) = {}
  /\ \A w \in Range(s) : PayloadOf(w) \notin Range(R) \cup Range(P)
  /\ \A v, w \in Range(s) : PayloadOf(v) = PayloadOf(w) => v = w
  /\ \A p \in Range(R) \cup Range(P) : Past(x, p[1], p[2])
  /\ \A w \in Range(s) \cup Range(t) : Past(x, w.execution, w.generation)

\* The payload p is in none of the three places.
New(p, R, P, s) == p \notin Range(R) \cup Range(P) /\ \A w \in Range(s) : PayloadOf(w) # p

\* Time passes.
LEMMA OnceAges ==
  ASSUME NEW x, NEW y, Ages(x, y), NEW R \in Seq(Payload), NEW P \in Seq(Payload),
         NEW s \in Seq(Wait), NEW t \in Seq(Wait), Once(x, R, P, s, t)
  PROVE  Once(y, R, P, s, t)
<1>1. /\ Range(R) \subseteq Payload /\ Range(P) \subseteq Payload
      /\ Range(s) \subseteq Wait /\ Range(t) \subseteq Wait
  BY RangeType
<1>2. \A p \in Range(R) \cup Range(P) : p[1] \in Executions /\ p[2] \in Nat
  BY <1>1 DEF Payload
<1>3. \A w \in Range(s) \cup Range(t) : w.execution \in Executions /\ w.generation \in Nat
  BY <1>1 DEF Wait
<1>4. \A p \in Range(R) \cup Range(P) : Past(y, p[1], p[2])
  BY <1>2 DEF Once, Ages
<1>5. \A w \in Range(s) \cup Range(t) : Past(y, w.execution, w.generation)
  BY <1>3 DEF Once, Ages
<1>6. QED
  BY <1>4, <1>5 DEF Once

\* A new payload is buffered, or delivered at once.
LEMMA OnceNew ==
  ASSUME NEW x, NEW R \in Seq(Payload), NEW P \in Seq(Payload),
         NEW s \in Seq(Wait), NEW t \in Seq(Wait), Once(x, R, P, s, t),
         NEW p \in Payload, New(p, R, P, s), Past(x, p[1], p[2])
  PROVE  Once(x, R, Append(P, p), s, t) /\ Once(x, Append(R, p), P, s, t)
<1>1. /\ Range(Append(P, p)) = Range(P) \cup {p} /\ Range(Append(R, p)) = Range(R) \cup {p}
  BY RangeAppend
<1>2. IsInjective(Append(P, p)) /\ IsInjective(Append(R, p))
  BY InjectiveAppend DEF Once, New
<1>3. Once(x, R, Append(P, p), s, t)
  BY <1>1, <1>2 DEF Once, New
<1>4. Once(x, Append(R, p), P, s, t)
  BY <1>1, <1>2 DEF Once, New
<1>5. QED
  BY <1>3, <1>4

\* A sender or a receiver is registered.
LEMMA OnceRegisters ==
  ASSUME NEW x, NEW R \in Seq(Payload), NEW P \in Seq(Payload),
         NEW s \in Seq(Wait), NEW t \in Seq(Wait), Once(x, R, P, s, t),
         NEW w \in Wait, Past(x, w.execution, w.generation)
  PROVE  /\ New(PayloadOf(w), R, P, s) => Once(x, R, P, Append(s, w), t)
         /\ w \notin Range(t) => Once(x, R, P, s, Append(t, w))
<1>1. Range(Append(s, w)) = Range(s) \cup {w} /\ Range(Append(t, w)) = Range(t) \cup {w}
  BY RangeAppend
<1>2. w \notin Range(t) => Once(x, R, P, s, Append(t, w))
  <2>1. w \notin Range(t) => IsInjective(Append(t, w))
    BY InjectiveAppend DEF Once
  <2>2. QED
    BY <1>1, <2>1 DEF Once
<1>3. ASSUME New(PayloadOf(w), R, P, s) PROVE Once(x, R, P, Append(s, w), t)
  <2>1. w \notin Range(s)
    BY <1>3 DEF New
  <2>2. IsInjective(Append(s, w))
    BY <2>1, InjectiveAppend DEF Once
  <2>3. \A u, v \in Range(Append(s, w)) : PayloadOf(u) = PayloadOf(v) => u = v
    BY <1>1, <1>3 DEF Once, New
  <2>4. \A v \in Range(Append(s, w)) : PayloadOf(v) \notin Range(R) \cup Range(P)
    BY <1>1, <1>3 DEF Once, New
  <2>5. QED
    BY <1>1, <2>2, <2>3, <2>4 DEF Once
<1>4. QED
  BY <1>2, <1>3

\* The first buffered payload is lost, or delivered.
LEMMA OnceTakes ==
  ASSUME NEW x, NEW R \in Seq(Payload), NEW P \in Seq(Payload), P # <<>>,
         NEW s \in Seq(Wait), NEW t \in Seq(Wait), Once(x, R, P, s, t)
  PROVE  Once(x, R, Tail(P), s, t) /\ Once(x, Append(R, Head(P)), Tail(P), s, t)
<1>1. /\ Head(P) \in Payload /\ Tail(P) \in Seq(Payload)
      /\ Range(P) = {Head(P)} \cup Range(Tail(P))
      /\ IsInjective(Tail(P)) /\ Head(P) \notin Range(Tail(P))
  BY TailFacts DEF Once
<1>2. Once(x, R, Tail(P), s, t)
  BY <1>1 DEF Once
<1>3. New(Head(P), R, Tail(P), s) /\ Past(x, Head(P)[1], Head(P)[2])
  BY <1>1 DEF Once, New
<1>4. QED
  BY <1>1, <1>2, <1>3, OnceNew

\* The first waiting sender, or receiver, leaves.
LEMMA OnceLeaves ==
  ASSUME NEW x, NEW R \in Seq(Payload), NEW P \in Seq(Payload),
         NEW s \in Seq(Wait), NEW t \in Seq(Wait), Once(x, R, P, s, t)
  PROVE  /\ s # <<>> => /\ Once(x, R, P, Tail(s), t) /\ New(PayloadOf(Head(s)), R, P, Tail(s))
                        /\ Past(x, Head(s).execution, Head(s).generation)
         /\ t # <<>> => Once(x, R, P, s, Tail(t))
<1>1. ASSUME s # <<>>
      PROVE  /\ Once(x, R, P, Tail(s), t) /\ New(PayloadOf(Head(s)), R, P, Tail(s))
             /\ Past(x, Head(s).execution, Head(s).generation)
  <2>1. /\ Head(s) \in Range(s) /\ Range(s) = {Head(s)} \cup Range(Tail(s))
        /\ IsInjective(Tail(s)) /\ Head(s) \notin Range(Tail(s))
    BY <1>1, TailFacts DEF Once
  <2>2. Once(x, R, P, Tail(s), t)
    BY <2>1 DEF Once
  <2>3. New(PayloadOf(Head(s)), R, P, Tail(s))
    BY <2>1 DEF Once, New
  <2>4. QED
    BY <2>1, <2>2, <2>3 DEF Once
<1>2. ASSUME t # <<>> PROVE Once(x, R, P, s, Tail(t))
  <2>1. Range(t) = {Head(t)} \cup Range(Tail(t)) /\ IsInjective(Tail(t))
    BY <1>2, TailFacts DEF Once
  <2>2. QED
    BY <2>1 DEF Once
<1>3. QED
  BY <1>1, <1>2

\* Registrations are cancelled, or all of them are woken.
LEMMA OnceWithout ==
  ASSUME NEW x, NEW R \in Seq(Payload), NEW P \in Seq(Payload),
         NEW s \in Seq(Wait), NEW t \in Seq(Wait), Once(x, R, P, s, t), NEW W
  PROVE  Once(x, R, P, Without(s, W), Without(t, W)) /\ Once(x, R, P, <<>>, <<>>)
<1>1. /\ Range(Without(s, W)) = Range(s) \ W /\ IsInjective(Without(s, W))
      /\ Range(Without(t, W)) = Range(t) \ W /\ IsInjective(Without(t, W))
  BY WithoutFacts DEF Once
<1>2. Range(<<>>) = {} /\ IsInjective(<<>>)
  BY DEF Range, IsInjective
<1>3. QED
  BY <1>1, <1>2 DEF Once

OnceQ(x, r, R) == Once(x, R, r.payloads, r.send_waiters, r.receive_waiters)

\* send: handed over, lost when the call fails after it, or buffered.
LEMMA SendOnce ==
  ASSUME NEW x, NEW R \in Seq(Payload), NEW r \in QueueRecord, OnceQ(x, r, R),
         NEW p \in Payload, New(p, R, r.payloads, r.send_waiters), Past(x, p[1], p[2])
  PROVE  /\ OnceQ(x, send(r, p), R)
         /\ r.receive_waiters # <<>> => OnceQ(x, send(r, p), Append(R, p))
<1>1. /\ r.payloads \in Seq(Payload) /\ r.send_waiters \in Seq(Wait)
      /\ r.receive_waiters \in Seq(Wait) /\ r.closed \in BOOLEAN
  BY QueueFields
<1>2. Once(x, R, r.payloads, r.send_waiters, r.receive_waiters)
  BY DEF OnceQ
<1>3. /\ Once(x, R, Append(r.payloads, p), r.send_waiters, r.receive_waiters)
      /\ Once(x, Append(R, p), r.payloads, r.send_waiters, r.receive_waiters)
  BY <1>1, <1>2, OnceNew
<1>4. Append(R, p) \in Seq(Payload) /\ Append(r.payloads, p) \in Seq(Payload)
  BY <1>1
<1>5. CASE r.receive_waiters # <<>>
  <2>1. Once(x, R, r.payloads, r.send_waiters, Tail(r.receive_waiters))
    BY <1>1, <1>2, <1>5, OnceLeaves
  <2>2. Once(x, Append(R, p), r.payloads, r.send_waiters, Tail(r.receive_waiters))
    BY <1>1, <1>3, <1>4, <1>5, OnceLeaves
  <2>3. send(r, p) = Record(r.payloads, r.send_waiters, Tail(r.receive_waiters), r.closed)
    BY <1>5, SendRecord
  <2>4. Tail(r.receive_waiters) \in Seq(Wait)
    BY <1>1, <1>5, TailFacts
  <2>5. /\ send(r, p).payloads = r.payloads /\ send(r, p).send_waiters = r.send_waiters
        /\ send(r, p).receive_waiters = Tail(r.receive_waiters)
    BY <1>1, <2>3, <2>4 DEF Record
  <2>6. QED
    BY <2>1, <2>2, <2>5 DEF OnceQ
<1>6. CASE r.receive_waiters = <<>>
  <2>1. send(r, p) = Record(Append(r.payloads, p), r.send_waiters, r.receive_waiters, r.closed)
    BY <1>6, SendRecord
  <2>2. /\ send(r, p).payloads = Append(r.payloads, p) /\ send(r, p).send_waiters = r.send_waiters
        /\ send(r, p).receive_waiters = r.receive_waiters
    BY <1>1, <1>4, <2>1 DEF Record
  <2>3. QED
    BY <1>3, <1>6, <2>2 DEF OnceQ
<1>7. QED
  BY <1>5, <1>6

\* receive: what it takes is delivered, or lost when the call fails after it.
LEMMA ReceiveOnce ==
  ASSUME NEW x, NEW q \in Queues, NEW R \in Seq(Payload), NEW r \in QueueRecord, OnceQ(x, r, R),
         r.payloads # <<>> \/ r.send_waiters # <<>>
  PROVE  OnceQ(x, receive(q, r), R) /\ OnceQ(x, receive(q, r), Append(R, TakenPayload(r)))
<1> DEFINE P == r.payloads  s == r.send_waiters  t == r.receive_waiters
<1>1. P \in Seq(Payload) /\ s \in Seq(Wait) /\ t \in Seq(Wait) /\ r.closed \in BOOLEAN
  BY QueueFields
<1>2. Once(x, R, P, s, t)
  BY DEF OnceQ
<1>3. s # <<>> => /\ Head(s) \in Wait /\ Tail(s) \in Seq(Wait) /\ PayloadOf(Head(s)) \in Payload
                  /\ PayloadOf(Head(s))[1] = Head(s).execution
                  /\ PayloadOf(Head(s))[2] = Head(s).generation
  BY <1>1, TailFacts, PayloadType DEF PayloadOf
<1>4. CASE P # <<>> /\ promotes(q, r)
  <2>1. s # <<>>
    BY <1>4 DEF promotes
  <2>2. PICK o : o = PayloadOf(Head(s))
    OBVIOUS
  <2>3. Head(P) \in Payload /\ Tail(P) \in Seq(Payload)
    BY <1>1, <1>4, TailFacts
  <2>4. Append(R, Head(P)) \in Seq(Payload) /\ Append(Tail(P), o) \in Seq(Payload)
    BY <1>3, <2>1, <2>2, <2>3
  <2>5. Once(x, R, Tail(P), s, t) /\ Once(x, Append(R, Head(P)), Tail(P), s, t)
    BY <1>1, <1>2, <1>4, OnceTakes
  <2>6. /\ Once(x, R, Tail(P), Tail(s), t) /\ New(o, R, Tail(P), Tail(s))
        /\ Past(x, o[1], o[2])
    BY <1>1, <1>3, <2>1, <2>2, <2>3, <2>5, OnceLeaves
  <2>7. /\ Once(x, Append(R, Head(P)), Tail(P), Tail(s), t)
        /\ New(o, Append(R, Head(P)), Tail(P), Tail(s))
    BY <1>1, <1>3, <2>1, <2>2, <2>3, <2>4, <2>5, OnceLeaves
  <2>8. o \in Payload /\ Tail(s) \in Seq(Wait)
    BY <1>3, <2>1, <2>2
  <2>9. Once(x, R, Append(Tail(P), o), Tail(s), t)
    BY <1>1, <2>3, <2>6, <2>8, OnceNew
  <2>10. Once(x, Append(R, Head(P)), Append(Tail(P), o), Tail(s), t)
    BY <1>1, <2>3, <2>4, <2>6, <2>7, <2>8, OnceNew
  <2>11. receive(q, r) = Record(Append(Tail(P), o), Tail(s), t, r.closed)
    BY <1>4, <2>2, ReceiveRecord
  <2>12. /\ receive(q, r).payloads = Append(Tail(P), o) /\ receive(q, r).send_waiters = Tail(s)
         /\ receive(q, r).receive_waiters = t
    BY <1>1, <2>4, <2>8, <2>11 DEF Record
  <2>13. TakenPayload(r) = Head(P)
    BY <1>4 DEF TakenPayload
  <2>14. QED
    BY <2>9, <2>10, <2>12, <2>13 DEF OnceQ
<1>5. CASE P # <<>> /\ ~promotes(q, r)
  <2>1. Once(x, R, Tail(P), s, t) /\ Once(x, Append(R, Head(P)), Tail(P), s, t)
    BY <1>1, <1>2, <1>5, OnceTakes
  <2>2. receive(q, r) = Record(Tail(P), s, t, r.closed)
    BY <1>5, ReceiveRecord
  <2>3. Tail(P) \in Seq(Payload)
    BY <1>1, <1>5, TailFacts
  <2>4. /\ receive(q, r).payloads = Tail(P) /\ receive(q, r).send_waiters = s
        /\ receive(q, r).receive_waiters = t
    BY <1>1, <2>2, <2>3 DEF Record
  <2>5. TakenPayload(r) = Head(P)
    BY <1>5 DEF TakenPayload
  <2>6. QED
    BY <2>1, <2>4, <2>5 DEF OnceQ
<1>6. CASE P = <<>>
  <2>1. s # <<>>
    BY <1>6
  <2>2. PICK o : o = PayloadOf(Head(s))
    OBVIOUS
  <2>3. Once(x, R, P, Tail(s), t) /\ New(o, R, P, Tail(s)) /\ Past(x, o[1], o[2])
    BY <1>1, <1>2, <1>3, <2>1, <2>2, OnceLeaves
  <2>4. o \in Payload /\ Tail(s) \in Seq(Wait)
    BY <1>3, <2>1, <2>2
  <2>5. Once(x, Append(R, o), P, Tail(s), t)
    BY <1>1, <2>3, <2>4, OnceNew
  <2>6. receive(q, r) = Record(P, Tail(s), t, r.closed)
    BY <1>6, ReceiveRecord
  <2>7. /\ receive(q, r).payloads = P /\ receive(q, r).send_waiters = Tail(s)
        /\ receive(q, r).receive_waiters = t
    BY <1>1, <2>4, <2>6 DEF Record
  <2>8. TakenPayload(r) = o
    BY <1>6, <2>2 DEF TakenPayload
  <2>9. QED
    BY <2>3, <2>5, <2>7, <2>8 DEF OnceQ
<1>7. QED
  BY <1>4, <1>5, <1>6

\* register_send, register_receive.
LEMMA RegisterOnce ==
  ASSUME NEW x, NEW R \in Seq(Payload), NEW r \in QueueRecord, OnceQ(x, r, R),
         NEW w \in Wait, Past(x, w.execution, w.generation)
  PROVE  /\ New(PayloadOf(w), R, r.payloads, r.send_waiters) => OnceQ(x, register_send(r, w), R)
         /\ w \notin Range(r.receive_waiters) => OnceQ(x, register_receive(r, w), R)
<1>1. /\ r.payloads \in Seq(Payload) /\ r.send_waiters \in Seq(Wait)
      /\ r.receive_waiters \in Seq(Wait) /\ r.closed \in BOOLEAN
  BY QueueFields
<1>2. /\ New(PayloadOf(w), R, r.payloads, r.send_waiters) =>
           Once(x, R, r.payloads, Append(r.send_waiters, w), r.receive_waiters)
      /\ w \notin Range(r.receive_waiters) =>
           Once(x, R, r.payloads, r.send_waiters, Append(r.receive_waiters, w))
  BY <1>1, OnceRegisters DEF OnceQ
<1>3. Append(r.send_waiters, w) \in Seq(Wait) /\ Append(r.receive_waiters, w) \in Seq(Wait)
  BY <1>1
<1>4. register_send(r, w) = Record(r.payloads, Append(r.send_waiters, w), r.receive_waiters, r.closed)
  BY OtherRecords
<1>5. register_receive(r, w) = Record(r.payloads, r.send_waiters, Append(r.receive_waiters, w), r.closed)
  BY OtherRecords
<1>6. /\ register_send(r, w).payloads = r.payloads
      /\ register_send(r, w).send_waiters = Append(r.send_waiters, w)
      /\ register_send(r, w).receive_waiters = r.receive_waiters
  BY <1>1, <1>3, <1>4 DEF Record
<1>7. /\ register_receive(r, w).payloads = r.payloads
      /\ register_receive(r, w).send_waiters = r.send_waiters
      /\ register_receive(r, w).receive_waiters = Append(r.receive_waiters, w)
  BY <1>1, <1>3, <1>5 DEF Record
<1>8. QED
  BY <1>2, <1>6, <1>7 DEF OnceQ

\* cancel, close.
LEMMA CancelOnce ==
  ASSUME NEW x, NEW R \in Seq(Payload), NEW r \in QueueRecord, OnceQ(x, r, R), NEW W
  PROVE  OnceQ(x, cancel(r, W), R) /\ OnceQ(x, close(r), R)
<1>1. /\ r.payloads \in Seq(Payload) /\ r.send_waiters \in Seq(Wait)
      /\ r.receive_waiters \in Seq(Wait) /\ r.closed \in BOOLEAN
  BY QueueFields
<1>2. /\ Once(x, R, r.payloads, Without(r.send_waiters, W), Without(r.receive_waiters, W))
      /\ Once(x, R, r.payloads, <<>>, <<>>)
  BY <1>1, OnceWithout DEF OnceQ
<1>3. /\ cancel(r, W) = Record(r.payloads, Without(r.send_waiters, W), Without(r.receive_waiters, W), r.closed)
      /\ close(r) = Record(r.payloads, <<>>, <<>>, TRUE)
  BY OtherRecords
<1>4. Without(r.send_waiters, W) \in Seq(Wait) /\ Without(r.receive_waiters, W) \in Seq(Wait)
  BY <1>1, WithoutFacts
<1>5. /\ cancel(r, W).payloads = r.payloads
      /\ cancel(r, W).send_waiters = Without(r.send_waiters, W)
      /\ cancel(r, W).receive_waiters = Without(r.receive_waiters, W)
  BY <1>1, <1>3, <1>4 DEF Record
<1>6. /\ close(r).payloads = r.payloads
      /\ close(r).send_waiters = <<>> /\ close(r).receive_waiters = <<>>
  BY <1>1, <1>3 DEF Record
<1>7. QED
  BY <1>2, <1>5, <1>6 DEF OnceQ

\* Commits and submissions only age.
LEMMA LeavesAge ==
  ASSUME NEW x, NEW y, NEW C, Leaves(x, y, C)
  PROVE  Ages(x, y)
  BY DEF Leaves, Ages, Past

\* The driver submits a wait: its generation is past.
LEMMA SubmittedAges ==
  ASSUME ExecsOK(exec), NEW e \in Executions, exec[e].status = "Waiting", ~exec[e].submitted,
         exec' = Submitted(exec, e)
  PROVE  Ages(exec, exec') /\ Past(exec', e, exec[e].generation)
<1>1. /\ \A d \in Executions : /\ exec'[d].status = exec[d].status
                               /\ exec'[d].generation = exec[d].generation
                               /\ d # e => exec'[d] = exec[d]
      /\ exec'[e].submitted
  BY SubmittedStep
<1>2. exec[e].generation \in Nat
  BY DEF ExecsOK, ExecOK, ExecutionRecord
<1>3. QED
  BY <1>1, <1>2 DEF Ages, Past

\* A wait that is about to be submitted is new to every queue.
LEMMA FreshWait ==
  ASSUME NEW e \in Executions, exec[e].status = "Waiting", ~exec[e].submitted,
         NEW R, NEW P, NEW s, NEW t, Once(exec, R, P, s, t), NEW a, NEW w, w = WaitOf(e, a)
  PROVE  New(PayloadOf(w), R, P, s) /\ w \notin Range(s) \cup Range(t)
<1>1. w.execution = e /\ w.generation = exec[e].generation
  BY DEF WaitOf
<1>2. ~Past(exec, e, exec[e].generation)
  BY DEF Past
<1>3. PICK p : p = PayloadOf(w)
  OBVIOUS
<1>4. p[1] = e /\ p[2] = exec[e].generation
  BY <1>1, <1>3 DEF PayloadOf
<1>5. p \notin Range(R) \cup Range(P)
  BY <1>2, <1>4 DEF Once
<1>6. \A v \in Range(s) \cup Range(t) : ~(v.execution = e /\ v.generation = exec[e].generation)
  BY <1>2 DEF Once
<1>7. \A v \in Range(s) : PayloadOf(v) # p
  <2>1. SUFFICES ASSUME NEW v \in Range(s), PayloadOf(v) = p PROVE FALSE
    OBVIOUS
  <2>2. v.execution = p[1] /\ v.generation = p[2]
    BY <2>1 DEF PayloadOf
  <2>3. QED
    BY <1>4, <1>6, <2>2
<1>8. QED
  BY <1>1, <1>3, <1>5, <1>6, <1>7 DEF New

\* The first n arms of a select are registered: they are new, so nothing is there twice.
LEMMA RegisteredOnce ==
  ASSUME ExecsOK(exec), NEW e \in Executions, exec[e].status = "Waiting", ~exec[e].submitted,
         NEW q \in Queues, queues[q] \in QueueRecord, NEW R \in Seq(Payload),
         OnceQ(exec, queues[q], R), NEW n \in Nat,
         NEW y, Ages(exec, y), Past(y, e, exec[e].generation)
  PROVE  OnceQ(y, Registered(e, n)[q], R)
<1> DEFINE A == ArmWaits(e, n, q, "send")  B == ArmWaits(e, n, q, "receive")
           P == queues[q].payloads  s == queues[q].send_waiters  t == queues[q].receive_waiters
<1>1. P \in Seq(Payload) /\ s \in Seq(Wait) /\ t \in Seq(Wait)
  BY QueueFields
<1>2. /\ A \in Seq(Wait) /\ IsInjective(A) /\ B \in Seq(Wait) /\ IsInjective(B)
      /\ \A w \in Range(A) \cup Range(B) : \E i \in 1..n : w = WaitOf(e, i)
  <2>1. /\ A \in Seq(Wait) /\ IsInjective(A)
        /\ Range(A) = {WaitOf(e, i) : i \in {j \in 1..n : ArmsOf(e)[j] = [direction |-> "send", queue |-> q]}}
    BY ArmWaitsFacts
  <2>2. /\ B \in Seq(Wait) /\ IsInjective(B)
        /\ Range(B) = {WaitOf(e, i) : i \in {j \in 1..n : ArmsOf(e)[j] = [direction |-> "receive", queue |-> q]}}
    BY ArmWaitsFacts
  <2> HIDE DEF A, B
  <2>3. QED
    BY <2>1, <2>2
<1>3. Once(exec, R, P, s, t)
  BY DEF OnceQ
<1>4. Once(y, R, P, s, t)
  BY <1>1, <1>3, OnceAges
<1>5. \A w \in Range(A) \cup Range(B) :
        New(PayloadOf(w), R, P, s) /\ w \notin Range(s) \cup Range(t)
  BY <1>2, <1>3, FreshWait
<1>6. \A w \in Range(A) \cup Range(B) : w.execution = e /\ w.generation = exec[e].generation
  BY <1>2 DEF WaitOf
<1>7. \A v, w \in Range(A) : PayloadOf(v) = PayloadOf(w) => v = w
  <2>1. SUFFICES ASSUME NEW v \in Range(A), NEW w \in Range(A), PayloadOf(v) = PayloadOf(w)
                 PROVE  v = w
    OBVIOUS
  <2>2. PICK i \in 1..n : v = WaitOf(e, i)
    BY <1>2
  <2>3. PICK j \in 1..n : w = WaitOf(e, j)
    BY <1>2
  <2>4. v.arm = i /\ w.arm = j
    BY <2>2, <2>3 DEF WaitOf
  <2>5. v.arm = w.arm
    BY <2>1 DEF PayloadOf
  <2>6. QED
    BY <2>2, <2>3, <2>4, <2>5
<1>8. /\ s \o A \in Seq(Wait) /\ Range(s \o A) = Range(s) \cup Range(A)
      /\ t \o B \in Seq(Wait) /\ Range(t \o B) = Range(t) \cup Range(B)
  BY <1>1, <1>2, RangeConcat
<1>9. IsInjective(s \o A) /\ IsInjective(t \o B)
  <2>1. Range(s) \cap Range(A) = {} /\ Range(t) \cap Range(B) = {}
    BY <1>5
  <2>2. IsInjective(s) /\ IsInjective(t)
    BY <1>3 DEF Once
  <2>3. QED
    BY <1>1, <1>2, <2>1, <2>2, InjectiveConcat
<1>10. Once(y, R, P, s \o A, t \o B)
  <2>1. \A w \in Range(s \o A) : PayloadOf(w) \notin Range(R) \cup Range(P)
    BY <1>4, <1>5, <1>8 DEF Once, New
  <2>2. \A v, w \in Range(s \o A) : PayloadOf(v) = PayloadOf(w) => v = w
    BY <1>4, <1>5, <1>7, <1>8 DEF Once, New
  <2>3. \A w \in Range(s \o A) \cup Range(t \o B) : Past(y, w.execution, w.generation)
    BY <1>4, <1>6, <1>8 DEF Once
  <2>4. QED
    BY <1>4, <1>9, <2>1, <2>2, <2>3 DEF Once
<1>11. Registered(e, n)[q] = Record(P, s \o A, t \o B, queues[q].closed)
  BY RegisteredStep, ZenonT(30)
<1>12. QED
  BY <1>10, <1>11 DEF OnceQ, Record

----------------------------------------------------------------------------
(* The line of payloads: delivered, buffered, offered. *)

Offers(s) == [i \in DOMAIN s |-> PayloadOf(s[i])]

Line(R, P, s) == R \o P \o Offers(s)

\* Equality and concatenation of sequences.
LEMMA SeqEqual ==
  ASSUME NEW T, NEW s \in Seq(T), NEW t \in Seq(T), Len(s) = Len(t),
         \A i \in 1..Len(s) : s[i] = t[i]
  PROVE  s = t
  OBVIOUS

\* The elements of a concatenation.
LEMMA ConcatAt ==
  ASSUME NEW T, NEW s \in Seq(T), NEW t \in Seq(T)
  PROVE  /\ s \o t \in Seq(T) /\ Len(s \o t) = Len(s) + Len(t)
         /\ \A i \in 1..(Len(s) + Len(t)) : (s \o t)[i] = IF i <= Len(s) THEN s[i] ELSE t[i - Len(s)]
  OBVIOUS

\* The elements of a longer sequence.
LEMMA AppendAt ==
  ASSUME NEW T, NEW s \in Seq(T), NEW x \in T
  PROVE  /\ Append(s, x) \in Seq(T) /\ Len(Append(s, x)) = Len(s) + 1
         /\ \A i \in 1..(Len(s) + 1) : Append(s, x)[i] = IF i <= Len(s) THEN s[i] ELSE x
  OBVIOUS

\* The head of a sequence, and the elements of its tail.
LEMMA TailAt ==
  ASSUME NEW T, NEW s \in Seq(T), s # <<>>
  PROVE  /\ Tail(s) \in Seq(T) /\ Len(s) # 0 /\ Len(Tail(s)) = Len(s) - 1 /\ Head(s) = s[1] /\ Head(s) \in T
         /\ \A i \in 1..(Len(s) - 1) : Tail(s)[i] = s[i + 1]
  OBVIOUS

\* Concatenation is associative.
LEMMA ConcatAssoc ==
  ASSUME NEW T, NEW s \in Seq(T), NEW t \in Seq(T), NEW u \in Seq(T)
  PROVE  (s \o t) \o u = s \o (t \o u)
<1>1. s \o t \in Seq(T) /\ t \o u \in Seq(T) /\ Len(s \o t) = Len(s) + Len(t) /\ Len(t \o u) = Len(t) + Len(u)
  BY ConcatAt
<1>2. /\ (s \o t) \o u \in Seq(T) /\ s \o (t \o u) \in Seq(T)
      /\ Len((s \o t) \o u) = Len(s) + Len(t) + Len(u) /\ Len(s \o (t \o u)) = Len(s) + Len(t) + Len(u)
  BY <1>1, ConcatAt
<1>3. \A i \in 1..(Len(s) + Len(t) + Len(u)) : ((s \o t) \o u)[i] = (s \o (t \o u))[i]
  OBVIOUS
<1>4. QED
  BY <1>2, <1>3, SeqEqual

\* To append to the second part is to append to the concatenation.
LEMMA ConcatAppend ==
  ASSUME NEW T, NEW s \in Seq(T), NEW t \in Seq(T), NEW x \in T
  PROVE  s \o Append(t, x) = Append(s \o t, x)
<1>1. s \o t \in Seq(T) /\ Len(s \o t) = Len(s) + Len(t) /\ Append(t, x) \in Seq(T) /\ Len(Append(t, x)) = Len(t) + 1
  BY ConcatAt, AppendAt
<1>2. /\ s \o Append(t, x) \in Seq(T) /\ Append(s \o t, x) \in Seq(T)
      /\ Len(s \o Append(t, x)) = Len(s) + Len(t) + 1 /\ Len(Append(s \o t, x)) = Len(s) + Len(t) + 1
  BY <1>1, ConcatAt, AppendAt
<1>3. \A i \in 1..(Len(s) + Len(t) + 1) : (s \o Append(t, x))[i] = Append(s \o t, x)[i]
  OBVIOUS
<1>4. QED
  BY <1>2, <1>3, SeqEqual

\* The head of t may as well be the last element of s.
LEMMA ConcatShift ==
  ASSUME NEW T, NEW s \in Seq(T), NEW t \in Seq(T), t # <<>>
  PROVE  Append(s, Head(t)) \o Tail(t) = s \o t
<1>1. /\ Tail(t) \in Seq(T) /\ Head(t) \in T /\ Len(Tail(t)) = Len(t) - 1 /\ Head(t) = t[1] /\ Len(t) # 0
      /\ Append(s, Head(t)) \in Seq(T) /\ Len(Append(s, Head(t))) = Len(s) + 1
  BY TailAt, AppendAt
<1>2. /\ Append(s, Head(t)) \o Tail(t) \in Seq(T) /\ s \o t \in Seq(T)
      /\ Len(Append(s, Head(t)) \o Tail(t)) = Len(s) + Len(t) /\ Len(s \o t) = Len(s) + Len(t)
  BY <1>1, ConcatAt
<1>3. \A i \in 1..(Len(s) + Len(t)) : (Append(s, Head(t)) \o Tail(t))[i] = (s \o t)[i]
  <2>1. SUFFICES ASSUME NEW i \in 1..(Len(s) + Len(t))
                 PROVE  (Append(s, Head(t)) \o Tail(t))[i] = (s \o t)[i]
    OBVIOUS
  <2>2. (s \o t)[i] = IF i <= Len(s) THEN s[i] ELSE t[i - Len(s)]
    BY <2>1, ConcatAt
  <2>3. (Append(s, Head(t)) \o Tail(t))[i]
          = IF i <= Len(s) + 1 THEN Append(s, Head(t))[i] ELSE Tail(t)[i - (Len(s) + 1)]
    BY <1>1, <2>1, ConcatAt
  <2>4. i <= Len(s) + 1 => Append(s, Head(t))[i] = IF i <= Len(s) THEN s[i] ELSE t[1]
    BY <1>1, <2>1, AppendAt
  <2>5. i > Len(s) + 1 => Tail(t)[i - (Len(s) + 1)] = t[i - Len(s)]
    BY <1>1, <2>1, TailAt
  <2>6. QED
    BY <2>1, <2>2, <2>3, <2>4, <2>5
<1>4. QED
  BY <1>2, <1>3, SeqEqual

\* What the offers of longer and shorter lists of senders are.
LEMMA OffersFacts ==
  ASSUME NEW s \in Seq(Wait)
  PROVE  /\ Offers(s) \in Seq(Payload) /\ Len(Offers(s)) = Len(s)
         /\ \A i \in 1..Len(s) : Offers(s)[i] = PayloadOf(s[i])
<1>1. [i \in DOMAIN s |-> PayloadOf(s[i])] \in Seq(Payload) /\ Len([i \in DOMAIN s |-> PayloadOf(s[i])]) = Len(s)
  BY OffersType
<1>2. DOMAIN s = 1..Len(s)
  OBVIOUS
<1>3. QED
  BY <1>1, <1>2 DEF Offers

\* No sender, no offer.
LEMMA OffersEmpty == Offers(<<>>) = <<>>
<1>1. <<>> \in Seq(Wait)
  OBVIOUS
<1>2. Offers(<<>>) \in Seq(Payload) /\ Len(Offers(<<>>)) = 0
  BY <1>1, OffersFacts
<1>3. QED
  BY <1>2

\* One sender more offers one payload more.
LEMMA OffersAppend ==
  ASSUME NEW s \in Seq(Wait), NEW w \in Wait
  PROVE  Offers(Append(s, w)) = Append(Offers(s), PayloadOf(w))
<1>1. PayloadOf(w) \in Payload
  BY PayloadType
<1>2. Append(s, w) \in Seq(Wait) /\ Len(Append(s, w)) = Len(s) + 1
  BY AppendAt
<1>3. /\ Offers(s) \in Seq(Payload) /\ Len(Offers(s)) = Len(s)
      /\ Offers(Append(s, w)) \in Seq(Payload) /\ Len(Offers(Append(s, w))) = Len(s) + 1
  BY <1>2, OffersFacts
<1>4. /\ Append(Offers(s), PayloadOf(w)) \in Seq(Payload)
      /\ Len(Append(Offers(s), PayloadOf(w))) = Len(s) + 1
  BY <1>1, <1>3, AppendAt
<1>5. ASSUME NEW i \in 1..(Len(s) + 1)
      PROVE  Offers(Append(s, w))[i] = Append(Offers(s), PayloadOf(w))[i]
  <2>1. Offers(Append(s, w))[i] = PayloadOf(Append(s, w)[i])
    BY <1>2, <1>5, OffersFacts
  <2>2. Append(s, w)[i] = IF i <= Len(s) THEN s[i] ELSE w
    BY <1>5, AppendAt
  <2>3. Append(Offers(s), PayloadOf(w))[i] = IF i <= Len(s) THEN Offers(s)[i] ELSE PayloadOf(w)
    BY <1>1, <1>3, <1>5, AppendAt
  <2>4. i <= Len(s) => Offers(s)[i] = PayloadOf(s[i])
    BY <1>5, OffersFacts
  <2>5. QED
    BY <2>1, <2>2, <2>3, <2>4
<1>6. QED
  BY <1>3, <1>4, <1>5, SeqEqual

\* The first sender leaves with its offer.
LEMMA OffersTail ==
  ASSUME NEW s \in Seq(Wait), s # <<>>
  PROVE  /\ Offers(s) # <<>> /\ Head(Offers(s)) = PayloadOf(Head(s))
         /\ Offers(Tail(s)) = Tail(Offers(s))
<1>1. Tail(s) \in Seq(Wait) /\ Len(s) # 0 /\ Len(Tail(s)) = Len(s) - 1 /\ Head(s) = s[1]
  BY TailAt
<1>2. /\ Offers(s) \in Seq(Payload) /\ Len(Offers(s)) = Len(s)
      /\ Offers(Tail(s)) \in Seq(Payload) /\ Len(Offers(Tail(s))) = Len(s) - 1
  BY <1>1, OffersFacts
<1>3. Offers(s) # <<>>
  BY <1>1, <1>2
<1>4. /\ Tail(Offers(s)) \in Seq(Payload) /\ Len(Tail(Offers(s))) = Len(s) - 1
      /\ Head(Offers(s)) = Offers(s)[1]
  BY <1>2, <1>3, TailAt
<1>5. Offers(s)[1] = PayloadOf(s[1])
  BY <1>1, OffersFacts
<1>6. ASSUME NEW i \in 1..(Len(s) - 1)
      PROVE  Offers(Tail(s))[i] = Tail(Offers(s))[i]
  <2>1. Offers(Tail(s))[i] = PayloadOf(Tail(s)[i]) /\ Tail(s)[i] = s[i + 1]
    BY <1>1, <1>6, OffersFacts, TailAt
  <2>2. Tail(Offers(s))[i] = Offers(s)[i + 1]
    BY <1>2, <1>3, <1>6, TailAt
  <2>3. i + 1 \in 1..Len(s)
    BY <1>6
  <2>4. Offers(s)[i + 1] = PayloadOf(s[i + 1])
    BY <2>3, OffersFacts
  <2>5. QED
    BY <2>1, <2>2, <2>4
<1>7. Offers(Tail(s)) = Tail(Offers(s))
  BY <1>2, <1>4, <1>6, SeqEqual
<1>8. QED
  BY <1>1, <1>3, <1>4, <1>5, <1>7

\* The offers of two lists of senders, one after the other.
LEMMA OffersConcat ==
  ASSUME NEW s \in Seq(Wait), NEW t \in Seq(Wait)
  PROVE  Offers(s \o t) = Offers(s) \o Offers(t)
<1>1. s \o t \in Seq(Wait) /\ Len(s \o t) = Len(s) + Len(t)
  BY ConcatAt
<1>2. /\ Offers(s) \in Seq(Payload) /\ Len(Offers(s)) = Len(s)
      /\ Offers(t) \in Seq(Payload) /\ Len(Offers(t)) = Len(t)
      /\ Offers(s \o t) \in Seq(Payload) /\ Len(Offers(s \o t)) = Len(s) + Len(t)
  BY <1>1, OffersFacts
<1>3. Offers(s) \o Offers(t) \in Seq(Payload) /\ Len(Offers(s) \o Offers(t)) = Len(s) + Len(t)
  BY <1>2, ConcatAt
<1>4. ASSUME NEW i \in 1..(Len(s) + Len(t))
      PROVE  Offers(s \o t)[i] = (Offers(s) \o Offers(t))[i]
  <2>1. Offers(s \o t)[i] = PayloadOf((s \o t)[i])
    BY <1>1, <1>4, OffersFacts
  <2>2. (s \o t)[i] = IF i <= Len(s) THEN s[i] ELSE t[i - Len(s)]
    BY <1>4, ConcatAt
  <2>3. (Offers(s) \o Offers(t))[i] = IF i <= Len(s) THEN Offers(s)[i] ELSE Offers(t)[i - Len(s)]
    BY <1>2, <1>4, ConcatAt
  <2>4. i <= Len(s) => Offers(s)[i] = PayloadOf(s[i])
    BY <1>4, OffersFacts
  <2>5. i > Len(s) => i - Len(s) \in 1..Len(t)
    BY <1>4
  <2>6. i > Len(s) => Offers(t)[i - Len(s)] = PayloadOf(t[i - Len(s)])
    BY <2>5, OffersFacts
  <2>7. i <= Len(s) \/ i > Len(s)
    BY <1>4
  <2>8. QED
    BY <2>1, <2>2, <2>3, <2>4, <2>6, <2>7
<1>5. QED
  BY <1>2, <1>3, <1>4, SeqEqual

\* Retain and concatenation.
LEMMA RetainConcat ==
  ASSUME NEW T, NEW s \in Seq(T), NEW t \in Seq(T), NEW S
  PROVE  Retain(s \o t, S) = Retain(s, S) \o Retain(t, S)
<1> DEFINE G == {u \in Seq(T) : Retain(s \o u, S) = Retain(s, S) \o Retain(u, S)}
<1>1. Retain(s, S) \in Seq(T) /\ \A u \in Seq(T) : Retain(u, S) \in Seq(T)
  BY RetainFacts
<1>2. <<>> \in G
  <2>1. Retain(<<>>, S) = <<>>
    BY RetainEmpty
  <2>2. s \o <<>> = s /\ Retain(s, S) \o <<>> = Retain(s, S)
    BY <1>1
  <2>3. <<>> \in Seq(T)
    OBVIOUS
  <2>4. QED
    BY <2>1, <2>2, <2>3
<1>3. ASSUME NEW u \in Seq(T), NEW x \in T, u \in G PROVE Append(u, x) \in G
  <2>1. s \o Append(u, x) = Append(s \o u, x) /\ s \o u \in Seq(T) /\ Append(u, x) \in Seq(T)
    BY ConcatAppend, ConcatAt, AppendAt
  <2>2. Retain(Append(s \o u, x), S)
          = IF x \in S THEN Append(Retain(s \o u, S), x) ELSE Retain(s \o u, S)
    BY <2>1, RetainAppend
  <2>3. Retain(Append(u, x), S) = IF x \in S THEN Append(Retain(u, S), x) ELSE Retain(u, S)
    BY RetainAppend
  <2>4. Retain(s \o u, S) = Retain(s, S) \o Retain(u, S)
    BY <1>3
  <2>5. Retain(u, S) \in Seq(T)
    BY <1>1
  <2>6. Retain(s, S) \o Append(Retain(u, S), x) = Append(Retain(s, S) \o Retain(u, S), x)
    BY <1>1, <2>5, ConcatAppend
  <2>7. Retain(s \o Append(u, x), S) = Retain(s, S) \o Retain(Append(u, x), S)
    BY <2>1, <2>2, <2>3, <2>4, <2>6
  <2>8. QED
    BY <2>1, <2>7
<1> HIDE DEF G
<1>4. Seq(T) \subseteq G
  BY <1>2, <1>3, SeqInduction
<1>5. QED
  BY <1>4 DEF G

\* The sequence c is a followed by b.
Joins(T, a, b, c) == a \in Seq(T) /\ b \in Seq(T) /\ c = a \o b

\* To filter a concatenation is to filter its parts.
LEMMA RetainJoins ==
  ASSUME NEW T, NEW a, NEW b, NEW c, NEW S, Joins(T, a, b, c)
  PROVE  Retain(c, S) = Retain(a, S) \o Retain(b, S)
<1>1. a \in Seq(T) /\ b \in Seq(T) /\ c = a \o b
  BY DEF Joins
<1>2. QED
  BY <1>1, RetainConcat

\* To filter the waits is to filter what they offer.
LEMMA OffersRetain ==
  ASSUME NEW s \in Seq(Wait), NEW S, NEW X, \A w \in Range(s) : w \in S <=> PayloadOf(w) \in X
  PROVE  Offers(Retain(s, S)) = Retain(Offers(s), X)
<1> DEFINE Same(u) == (\A w \in Range(u) : w \in S <=> PayloadOf(w) \in X) =>
                        Offers(Retain(u, S)) = Retain(Offers(u), X)
           G == {u \in Seq(Wait) : Same(u)}
<1>1. <<>> \in G
  BY RetainEmpty, OffersEmpty
<1>2. ASSUME NEW u \in Seq(Wait), NEW x \in Wait, u \in G PROVE Append(u, x) \in G
  <2>1. SUFFICES ASSUME \A w \in Range(Append(u, x)) : w \in S <=> PayloadOf(w) \in X
                 PROVE  Offers(Retain(Append(u, x), S)) = Retain(Offers(Append(u, x)), X)
    BY AppendAt
  <2>2. Range(Append(u, x)) = Range(u) \cup {x}
    BY RangeAppend
  <2>3. Offers(Retain(u, S)) = Retain(Offers(u), X) /\ (x \in S <=> PayloadOf(x) \in X)
    BY <1>2, <2>1, <2>2
  <2>4. Retain(Append(u, x), S) = IF x \in S THEN Append(Retain(u, S), x) ELSE Retain(u, S)
    BY RetainAppend
  <2>5. Offers(Append(u, x)) = Append(Offers(u), PayloadOf(x)) /\ Offers(u) \in Seq(Payload)
    BY OffersAppend, OffersFacts
  <2>6. PayloadOf(x) \in Payload
    BY PayloadType
  <2>7. Retain(Append(Offers(u), PayloadOf(x)), X)
          = IF PayloadOf(x) \in X THEN Append(Retain(Offers(u), X), PayloadOf(x))
                                  ELSE Retain(Offers(u), X)
    BY <2>5, <2>6, RetainAppend
  <2>8. Retain(u, S) \in Seq(Wait)
    BY RetainFacts
  <2>9. Offers(Append(Retain(u, S), x)) = Append(Offers(Retain(u, S)), PayloadOf(x))
    BY <2>8, OffersAppend
  <2>10. QED
    BY <2>3, <2>4, <2>5, <2>7, <2>9
<1> HIDE DEF G
<1>3. Seq(Wait) \subseteq G
  BY <1>1, <1>2, SeqInduction
<1>4. QED
  BY <1>3 DEF G

\* The line.
LEMMA LineType ==
  ASSUME NEW R \in Seq(Payload), NEW P \in Seq(Payload), NEW s \in Seq(Wait)
  PROVE  Line(R, P, s) \in Seq(Payload) /\ R \o P \in Seq(Payload) /\ Offers(s) \in Seq(Payload)
<1>1. R \o P \in Seq(Payload) /\ Offers(s) \in Seq(Payload)
  BY ConcatAt, OffersFacts
<1>2. QED
  BY <1>1, ConcatAt DEF Line

\* A payload enters the line at its end: buffered or delivered if nothing is
\* before it, else offered.
LEMMA LineGrows ==
  ASSUME NEW R \in Seq(Payload), NEW P \in Seq(Payload), NEW s \in Seq(Wait),
         NEW p \in Payload, NEW w \in Wait
  PROVE  /\ s = <<>> => Line(R, Append(P, p), s) = Append(Line(R, P, s), p)
         /\ (P = <<>> /\ s = <<>>) => Line(Append(R, p), P, s) = Append(Line(R, P, s), p)
         /\ Line(R, P, Append(s, w)) = Append(Line(R, P, s), PayloadOf(w))
<1>1. R \o P \in Seq(Payload) /\ Offers(s) \in Seq(Payload)
  BY LineType
<1>2. \A u \in Seq(Payload) : u \o <<>> = u
  OBVIOUS
<1>3. R \o Append(P, p) = Append(R \o P, p) /\ Append(R \o P, p) \in Seq(Payload)
  BY <1>1, ConcatAppend, AppendAt
<1>4. s = <<>> => Line(R, Append(P, p), s) = Append(Line(R, P, s), p)
  BY <1>1, <1>2, <1>3, OffersEmpty DEF Line
<1>5. Append(R, p) \in Seq(Payload)
  OBVIOUS
<1>6. (P = <<>> /\ s = <<>>) => Line(Append(R, p), P, s) = Append(Line(R, P, s), p)
  BY <1>2, <1>5, OffersEmpty DEF Line
<1>7. PayloadOf(w) \in Payload /\ Offers(Append(s, w)) = Append(Offers(s), PayloadOf(w))
  BY PayloadType, OffersAppend
<1>8. (R \o P) \o Append(Offers(s), PayloadOf(w)) = Append((R \o P) \o Offers(s), PayloadOf(w))
  BY <1>1, <1>7, ConcatAppend
<1>9. QED
  BY <1>4, <1>6, <1>7, <1>8 DEF Line

\* A delivery and a promotion leave the line as it is.
LEMMA LineStays ==
  ASSUME NEW R \in Seq(Payload), NEW P \in Seq(Payload), NEW s \in Seq(Wait)
  PROVE  /\ P # <<>> => Line(Append(R, Head(P)), Tail(P), s) = Line(R, P, s)
         /\ (P = <<>> /\ s # <<>>) => Line(Append(R, PayloadOf(Head(s))), P, Tail(s)) = Line(R, P, s)
         /\ s # <<>> => Line(R, Append(P, PayloadOf(Head(s))), Tail(s)) = Line(R, P, s)
<1>1. R \o P \in Seq(Payload) /\ Offers(s) \in Seq(Payload)
  BY LineType
<1>2. P # <<>> => Line(Append(R, Head(P)), Tail(P), s) = Line(R, P, s)
  BY ConcatShift DEF Line
<1>3. s # <<>> => Append(R \o P, PayloadOf(Head(s))) \o Offers(Tail(s)) = (R \o P) \o Offers(s)
  <2>1. SUFFICES ASSUME s # <<>>
                 PROVE  Append(R \o P, PayloadOf(Head(s))) \o Offers(Tail(s)) = (R \o P) \o Offers(s)
    OBVIOUS
  <2>2. Offers(s) # <<>> /\ Head(Offers(s)) = PayloadOf(Head(s)) /\ Offers(Tail(s)) = Tail(Offers(s))
    BY <2>1, OffersTail
  <2>3. Append(R \o P, Head(Offers(s))) \o Tail(Offers(s)) = (R \o P) \o Offers(s)
    BY <1>1, <2>2, ConcatShift
  <2>4. QED
    BY <2>2, <2>3
<1>4. s # <<>> => PayloadOf(Head(s)) \in Payload
  BY TailAt, PayloadType
<1>5. s # <<>> => R \o Append(P, PayloadOf(Head(s))) = Append(R \o P, PayloadOf(Head(s)))
  BY <1>4, ConcatAppend
<1>6. s # <<>> => Line(R, Append(P, PayloadOf(Head(s))), Tail(s)) = Line(R, P, s)
  BY <1>3, <1>5 DEF Line
<1>7. \A u \in Seq(Payload) : u \o <<>> = u
  OBVIOUS
<1>8. (P = <<>> /\ s # <<>>) => Line(Append(R, PayloadOf(Head(s))), P, Tail(s)) = Line(R, P, s)
  <2>1. SUFFICES ASSUME P = <<>>, s # <<>>
                 PROVE  Line(Append(R, PayloadOf(Head(s))), P, Tail(s)) = Line(R, P, s)
    OBVIOUS
  <2>2. Append(R, PayloadOf(Head(s))) \in Seq(Payload)
    BY <1>4, <2>1
  <2>3. Append(R, PayloadOf(Head(s))) \o P = Append(R \o P, PayloadOf(Head(s)))
    BY <1>7, <2>1, <2>2
  <2>4. QED
    BY <1>3, <2>1, <2>3 DEF Line
<1>9. QED
  BY <1>2, <1>6, <1>8

\* To filter the line is to filter the offers, if what is delivered and
\* buffered stays.
LEMMA LineRetain ==
  ASSUME NEW R \in Seq(Payload), NEW P \in Seq(Payload), NEW s \in Seq(Wait),
         NEW S, NEW M, Range(R) \cup Range(P) \subseteq M,
         \A w \in Range(s) : w \in S <=> PayloadOf(w) \in M
  PROVE  Retain(Line(R, P, s), M) = Line(R, P, Retain(s, S))
<1>1. PICK A, B : A = R \o P /\ B = Offers(s)
  OBVIOUS
<1>2. A \in Seq(Payload) /\ B \in Seq(Payload)
  BY <1>1, LineType
<1>3. Range(A) = Range(R) \cup Range(P)
  BY <1>1, RangeConcat
<1>4. Retain(A \o B, M) = Retain(A, M) \o Retain(B, M)
  <2>1. Joins(Payload, A, B, A \o B)
    BY <1>2 DEF Joins
  <2>2. QED
    BY <2>1, RetainJoins
<1>5. Retain(A, M) = A
  BY <1>2, <1>3, RetainFacts
<1>6. Offers(Retain(s, S)) = Retain(B, M)
  BY <1>1, OffersRetain
<1>7. QED
  BY <1>1, <1>4, <1>5, <1>6 DEF Line

\* What is in the line.
LEMMA LineRange ==
  ASSUME NEW R \in Seq(Payload), NEW P \in Seq(Payload), NEW s \in Seq(Wait)
  PROVE  Range(Line(R, P, s)) = Range(R) \cup Range(P) \cup {PayloadOf(w) : w \in Range(s)}
<1>1. PICK A, B : A = R \o P /\ B = Offers(s)
  OBVIOUS
<1>2. A \in Seq(Payload) /\ B \in Seq(Payload)
  BY <1>1, LineType
<1>3. Range(A) = Range(R) \cup Range(P)
  BY <1>1, RangeConcat
<1>4. Range(A \o B) = Range(A) \cup Range(B)
  BY <1>2, RangeConcat
<1>5. Range(B) = {PayloadOf(w) : w \in Range(s)}
  BY <1>1 DEF Offers, Range
<1>6. QED
  BY <1>1, <1>3, <1>4, <1>5 DEF Line

\* What the waits of W among the senders s offer.
Offered(W, s) == {PayloadOf(w) : w \in W \cap Range(s)}

\* Withdrawn offers leave the line, and nothing else does.
LEMMA LineWithout ==
  ASSUME NEW x, NEW R \in Seq(Payload), NEW P \in Seq(Payload),
         NEW s \in Seq(Wait), NEW t \in Seq(Wait), Once(x, R, P, s, t), NEW W,
         NEW X, X = Offered(W, s)
  PROVE  Without(Line(R, P, s), X) = Line(R, P, Without(s, W))
<1>1. PICK S, M : S = Range(s) \ W /\ M = Range(Line(R, P, s)) \ X
  OBVIOUS
<1>2. Range(Line(R, P, s)) = Range(R) \cup Range(P) \cup {PayloadOf(w) : w \in Range(s)}
  BY LineRange
<1>3. Range(R) \cup Range(P) \subseteq M
  BY <1>1, <1>2 DEF Once, Offered
<1>4. \A w \in Range(s) : w \in S <=> PayloadOf(w) \in M
  <2>1. \A w \in Range(s) : PayloadOf(w) \in X <=> w \in W
    BY DEF Once, Offered
  <2>2. QED
    BY <1>1, <1>2, <2>1
<1>5. Retain(Line(R, P, s), M) = Line(R, P, Retain(s, S))
  BY <1>3, <1>4, LineRetain
<1>6. QED
  BY <1>1, <1>5 DEF Without

\* What is registered is taken out again.
LEMMA WithoutJoins ==
  ASSUME NEW T, NEW a \in Seq(T), NEW b \in Seq(T), NEW W,
         Range(a) \cap W = {}, Range(b) \subseteq W
  PROVE  Without(a \o b, W) = a
<1>1. PICK c, K : c = a \o b /\ K = Range(c) \ W
  OBVIOUS
<1>2. c \in Seq(T) /\ Range(c) = Range(a) \cup Range(b)
  BY <1>1, RangeConcat
<1>3. Joins(T, a, b, c)
  BY <1>1 DEF Joins
<1>4. Retain(c, K) = Retain(a, K) \o Retain(b, K)
  BY <1>3, RetainJoins
<1>5. Retain(a, K) = a
  <2>1. Range(a) \subseteq K
    BY <1>1, <1>2
  <2>2. QED
    BY <2>1, RetainFacts
<1>6. Retain(b, K) = <<>>
  <2>1. Range(b) \cap K = {}
    BY <1>1, <1>2
  <2>2. Retain(b, K) \in Seq(T) /\ Range(Retain(b, K)) = {}
    BY <2>1, RetainFacts
  <2>3. QED
    BY <2>2, EmptyRange
<1>7. a \o <<>> = a
  OBVIOUS
<1>8. QED
  BY <1>1, <1>4, <1>5, <1>6, <1>7 DEF Without

----------------------------------------------------------------------------
(* The accounts of waits and payloads. *)

Regs(r) == Range(r.send_waiters) \cup Range(r.receive_waiters)

IsParked(x, e) == x[e].status = "Waiting" /\ x[e].submitted

\* A direct registration of an execution that was never woken from one, where
\* W are those that were.
Bound(w, W) == w.arm = 0 /\ w.execution \notin W

\* It is that of a parked execution.
Direct(x, w, W) ==
  Bound(w, W) => /\ IsParked(x, w.execution) /\ x[w.execution].site = w.operation
                 /\ x[w.execution].generation = w.generation

\* The registrations that a parked execution needs.
Links(x, e) ==
  {[execution |-> e, operation |-> x[e].site, generation |-> x[e].generation, arm |-> a] :
     a \in IF SiteOf(x, e).kind = "select" THEN DOMAIN SiteOf(x, e).arms ELSE {0}}

Linked(x, H, U, e) ==
  IF SiteOf(x, e).kind = "host" THEN \E h \in H : h.execution = e ELSE Links(x, e) \subseteq U

AllRegs(v) == UNION {Regs(v[q]) : q \in Queues}

LineOf(v, Z, q) == Line(Z[q], v[q].payloads, v[q].send_waiters)

\* The invariant, for given values of the variables.
Accounts(x, v, H, bad, Z, O, W) ==
  /\ \A q \in Queues : OnceQ(x, v[q], Z[q])
  /\ \A q \in Queues : \A w \in Regs(v[q]) : Direct(x, w, W)
  /\ ~bad => /\ \A e \in Executions : IsParked(x, e) => Linked(x, H, AllRegs(v), e)
             /\ \A q \in Queues : LineOf(v, Z, q) = O[q]

AccountInv == Accounts(exec, queues, hostWaits, erred, received, order, woken)

\* The executions of C stop being parked, with all their direct registrations;
\* the others keep what they have.
Releases(C, x, v, H, bad, x2, v2, H2, bad2, Z2, O2, W) ==
  /\ \A q \in Queues : \A w \in Regs(v[q]) : w.execution \in Executions
  /\ \A e \in Executions \ C : x2[e] = x[e]
  /\ \A e \in C : ~IsParked(x2, e)
  /\ \A q \in Queues : OnceQ(x2, v2[q], Z2[q])
  /\ \A q \in Queues : \A w \in Regs(v2[q]) :
       w \in Regs(v[q]) /\ (Bound(w, W) => w.execution \notin C)
  /\ ~bad2 => /\ ~bad
              /\ \A q \in Queues : \A w \in Regs(v[q]) : w.execution \notin C => w \in Regs(v2[q])
              /\ \A h \in H : h.execution \notin C => h \in H2
              /\ \A q \in Queues : LineOf(v2, Z2, q) = O2[q]

\* A step that releases executions keeps the accounts.
LEMMA AccountStep ==
  ASSUME NEW x, NEW v, NEW H, NEW bad, NEW Z, NEW O, NEW W, Accounts(x, v, H, bad, Z, O, W),
         NEW x2, NEW v2, NEW H2, NEW bad2, NEW Z2, NEW O2, NEW C, NEW W2, W \subseteq W2,
         Releases(C, x, v, H, bad, x2, v2, H2, bad2, Z2, O2, W2)
  PROVE  Accounts(x2, v2, H2, bad2, Z2, O2, W2)
<1> USE DEF Releases
<1>1. ASSUME NEW q \in Queues, NEW w \in Regs(v2[q]) PROVE Direct(x2, w, W2)
  <2>1. w \in Regs(v[q]) /\ (Bound(w, W2) => w.execution \notin C)
    BY <1>1
  <2>2. Direct(x, w, W) /\ w.execution \in Executions
    BY <1>1, <2>1 DEF Accounts
  <2>3. Bound(w, W2) => x2[w.execution] = x[w.execution]
    BY <2>1, <2>2
  <2>4. Bound(w, W2) => Bound(w, W)
    BY DEF Bound
  <2>5. QED
    BY <2>2, <2>3, <2>4 DEF Direct, IsParked
<1>2. ASSUME ~bad2, NEW e \in Executions, IsParked(x2, e) PROVE Linked(x2, H2, AllRegs(v2), e)
  <2>1. e \notin C /\ x2[e] = x[e]
    BY <1>2
  <2>2. IsParked(x, e)
    BY <1>2, <2>1 DEF IsParked
  <2>3. Linked(x, H, AllRegs(v), e)
    BY <1>2, <2>2 DEF Accounts
  <2>4. SiteOf(x2, e) = SiteOf(x, e)
    BY <2>1 DEF SiteOf
  <2>5. CASE SiteOf(x, e).kind = "host"
    <3>1. PICK h \in H : h.execution = e
      BY <2>3, <2>5 DEF Linked
    <3>2. h \in H2
      BY <1>2, <2>1, <3>1
    <3>3. QED
      BY <2>4, <2>5, <3>1, <3>2 DEF Linked
  <2>6. CASE SiteOf(x, e).kind # "host"
    <3>1. Links(x, e) \subseteq AllRegs(v)
      BY <2>3, <2>6 DEF Linked
    <3>2. Links(x2, e) = Links(x, e)
      BY <2>1, <2>4 DEF Links
    <3>3. \A w \in Links(x, e) : w.execution = e
      BY DEF Links
    <3>4. \A w \in AllRegs(v) : w.execution \notin C => w \in AllRegs(v2)
      BY <1>2 DEF AllRegs
    <3>5. Links(x2, e) \subseteq AllRegs(v2)
      BY <2>1, <3>1, <3>2, <3>3, <3>4
    <3>6. QED
      BY <2>4, <2>6, <3>5 DEF Linked
  <2>7. QED
    BY <2>5, <2>6
<1>3. QED
  BY <1>1, <1>2 DEF Accounts

\* The execution e parks, its links are registered and all others stay.
LEMMA AccountParks ==
  ASSUME NEW x, NEW v, NEW H, NEW bad, NEW Z, NEW O, NEW W, Accounts(x, v, H, bad, Z, O, W),
         NEW x2, NEW v2, NEW H2, NEW Z2, NEW O2, NEW e \in Executions,
         \A q \in Queues : \A w \in Regs(v[q]) : w.execution \in Executions,
         \A d \in Executions : d # e => x2[d] = x[d],
         ~x[e].submitted, IsParked(x2, e),
         \A q \in Queues : OnceQ(x2, v2[q], Z2[q]),
         \A q \in Queues : Regs(v[q]) \subseteq Regs(v2[q]),
         \A q \in Queues : \A w \in Regs(v2[q]) \ Regs(v[q]) :
           /\ w.execution = e /\ w.operation = x2[e].site /\ w.generation = x2[e].generation,
         H \subseteq H2, Linked(x2, H2, AllRegs(v2), e),
         ~bad => \A q \in Queues : LineOf(v2, Z2, q) = O2[q]
  PROVE  Accounts(x2, v2, H2, bad, Z2, O2, W)
<1>1. ASSUME NEW q \in Queues, NEW w \in Regs(v2[q]) PROVE Direct(x2, w, W)
  <2>1. CASE w \in Regs(v[q])
    <3>1. Direct(x, w, W) /\ w.execution \in Executions
      BY <1>1, <2>1 DEF Accounts
    <3>2. Bound(w, W) => w.execution # e
      BY <3>1 DEF Direct, IsParked
    <3>3. Bound(w, W) => x2[w.execution] = x[w.execution]
      BY <3>1, <3>2
    <3>4. QED
      BY <3>1, <3>3 DEF Direct, IsParked
  <2>2. CASE w \notin Regs(v[q])
    <3>1. w.execution = e /\ w.operation = x2[e].site /\ w.generation = x2[e].generation
      BY <1>1, <2>2
    <3>2. QED
      BY <3>1 DEF Direct
  <2>3. QED
    BY <2>1, <2>2
<1>2. ASSUME ~bad, NEW d \in Executions, IsParked(x2, d), d # e PROVE Linked(x2, H2, AllRegs(v2), d)
  <2>1. x2[d] = x[d]
    BY <1>2
  <2>2. IsParked(x, d)
    BY <1>2, <2>1 DEF IsParked
  <2>3. Linked(x, H, AllRegs(v), d)
    BY <1>2, <2>2 DEF Accounts
  <2>4. SiteOf(x2, d) = SiteOf(x, d)
    BY <2>1 DEF SiteOf
  <2>5. Links(x2, d) = Links(x, d)
    BY <2>1, <2>4 DEF Links
  <2>6. AllRegs(v) \subseteq AllRegs(v2)
    BY DEF AllRegs
  <2>7. QED
    BY <2>3, <2>4, <2>5, <2>6 DEF Linked
<1>3. QED
  BY <1>1, <1>2 DEF Accounts

\* The accounts in terms of the properties.
LEMMA AccountParts ==
  ASSUME KernelInv, AccountInv
  PROVE  AtMostOnce /\ NothingLostInOrder /\ WaitsAreRegistered
<1>1. /\ \A q \in Queues : QueueOK(q, queues[q])
      /\ received \in [Queues -> Seq(Payload)]
  BY DEF KernelInv, QueuesOK, GhostOK
<1>2. AtMostOnce
  <2>1. SUFFICES ASSUME NEW q \in Queues
                 PROVE  IsInjective(received[q] \o queues[q].payloads \o Offers(queues[q].send_waiters))
    BY DEF AtMostOnce, Offers
  <2>2. PICK R, P, s, t : /\ R = received[q] /\ P = queues[q].payloads
                          /\ s = queues[q].send_waiters /\ t = queues[q].receive_waiters
    OBVIOUS
  <2>3. R \in Seq(Payload) /\ P \in Seq(Payload) /\ s \in Seq(Wait)
    BY <1>1, <2>2, QueueOKFields
  <2>4. Once(exec, R, P, s, t)
    BY <2>1, <2>2 DEF AccountInv, Accounts, OnceQ
  <2>5. PICK A, B : A = R \o P /\ B = Offers(s)
    OBVIOUS
  <2>6. A \in Seq(Payload) /\ Range(A) = Range(R) \cup Range(P) /\ B \in Seq(Payload)
    BY <2>3, <2>5, RangeConcat, OffersFacts
  <2>7. IsInjective(A)
    BY <2>3, <2>4, <2>5, InjectiveConcat DEF Once
  <2>8. Range(B) = {PayloadOf(w) : w \in Range(s)}
    BY <2>5 DEF Offers, Range
  <2>9. IsInjective(B)
    <3>1. \A i, j \in DOMAIN s : PayloadOf(s[i]) = PayloadOf(s[j]) => i = j
      BY <2>4 DEF Once, IsInjective, Range
    <3>2. QED
      BY <2>5, <3>1 DEF Offers, IsInjective
  <2>10. Range(A) \cap Range(B) = {}
    BY <2>4, <2>6, <2>8 DEF Once
  <2>11. IsInjective(A \o B)
    BY <2>6, <2>7, <2>9, <2>10, InjectiveConcat
  <2>12. QED
    BY <2>2, <2>5, <2>11
<1>3. NothingLostInOrder
  BY DEF AccountInv, Accounts, LineOf, Line, Offers, NothingLostInOrder
<1>4. WaitsAreRegistered
  <2>1. \A q \in Queues : Registrations(q) = Regs(queues[q])
    BY DEF Registrations, Regs
  <2>2. ASSUME NEW q \in Queues, NEW w \in Registrations(q), w.arm = 0, w.execution \notin woken
        PROVE  exec[w.execution].status = "Waiting" /\ exec[w.execution].submitted /\ w = WaitOf(w.execution, 0)
    <3>1. /\ exec[w.execution].status = "Waiting" /\ exec[w.execution].submitted
          /\ exec[w.execution].site = w.operation /\ exec[w.execution].generation = w.generation
      BY <2>1, <2>2 DEF AccountInv, Accounts, Direct, IsParked, Bound
    <3>2. w \in Wait
      <4>1. queues[q].send_waiters \in Seq(Wait) /\ queues[q].receive_waiters \in Seq(Wait)
        BY <1>1, <2>2, QueueOKFields
      <4>2. Range(queues[q].send_waiters) \subseteq Wait /\ Range(queues[q].receive_waiters) \subseteq Wait
        BY <4>1, RangeType
      <4>3. QED
        BY <2>2, <4>2 DEF Registrations
    <3>3. w = [execution |-> w.execution, operation |-> w.operation, generation |-> w.generation, arm |-> w.arm]
      BY <3>2 DEF Wait
    <3>4. QED
      BY <2>2, <3>1, <3>3 DEF WaitOf
  <2>3. \A h \in hostWaits : h.execution \notin woken =>
          /\ exec[h.execution].status = "Waiting"
          /\ exec[h.execution].site = h.operation
          /\ exec[h.execution].generation = h.generation
    BY DEF KernelInv, HostOK
  <2>4. ASSUME ~erred, NEW e \in Executions, exec[e].status = "Waiting", exec[e].submitted
        PROVE  IF SiteOf(exec, e).kind = "host" THEN HasHostWait(e)
               ELSE Claimable(e, exec[e].generation) \subseteq UNION {Registrations(q) : q \in Queues}
    <3>1. Linked(exec, hostWaits, AllRegs(queues), e)
      BY <2>4 DEF AccountInv, Accounts, IsParked
    <3>2. Claimable(e, exec[e].generation) = Links(exec, e)
      BY DEF Claimable, Links, ArmsOf
    <3>3. AllRegs(queues) = UNION {Registrations(q) : q \in Queues}
      BY <2>1 DEF AllRegs
    <3>4. QED
      BY <3>1, <3>2, <3>3 DEF Linked, HasHostWait
  <2>5. QED
    BY <2>2, <2>3, <2>4 DEF WaitsAreRegistered
<1>5. QED
  BY <1>2, <1>3, <1>4

\* Nothing is registered, offered or delivered at first.
LEMMA InitAccounts == Init => AccountInv
<1>1. SUFFICES ASSUME Init PROVE AccountInv
  OBVIOUS
<1>2. Range(<<>>) = {} /\ IsInjective(<<>>)
  BY DEF Range, IsInjective
<1>3. ASSUME NEW q \in Queues
      PROVE  /\ queues[q].payloads = <<>> /\ queues[q].send_waiters = <<>>
             /\ queues[q].receive_waiters = <<>> /\ received[q] = <<>> /\ order[q] = <<>>
  BY <1>1, <1>3 DEF Init
<1>4. \A q \in Queues : OnceQ(exec, queues[q], received[q]) /\ Regs(queues[q]) = {}
  BY <1>2, <1>3 DEF OnceQ, Once, Regs
<1>5. \A q \in Queues : LineOf(queues, received, q) = order[q]
  <2>1. Line(<<>>, <<>>, <<>>) = <<>>
    BY OffersEmpty DEF Line
  <2>2. QED
    BY <1>3, <2>1 DEF LineOf
<1>6. \A e \in Executions : ~IsParked(exec, e)
  BY <1>1 DEF Init, IsParked
<1>7. QED
  BY <1>4, <1>5, <1>6 DEF AccountInv, Accounts

\* What the registrations of a queue are.
LEMMA RegsFacts ==
  ASSUME KernelInv, NEW q \in Queues
  PROVE  /\ QueueOK(q, queues[q]) /\ queues[q] \in QueueRecord
         /\ received[q] \in Seq(Payload) /\ order[q] \in Seq(Payload)
         /\ \A w \in Regs(queues[q]) : w \in Wait /\ w.execution \in Executions
<1>1. QueueOK(q, queues[q]) /\ received[q] \in Seq(Payload) /\ order[q] \in Seq(Payload)
  BY DEF KernelInv, QueuesOK, GhostOK
<1>2. queues[q].send_waiters \in Seq(Wait) /\ queues[q].receive_waiters \in Seq(Wait)
  BY <1>1, QueueOKFields
<1>3. Range(queues[q].send_waiters) \subseteq Wait /\ Range(queues[q].receive_waiters) \subseteq Wait
  BY <1>2, RangeType
<1>4. queues[q] \in QueueRecord
  BY <1>1 DEF QueueOK
<1>5. QED
  BY <1>1, <1>3, <1>4 DEF Regs, Wait

\* A direct registration is on the queue, and in the direction, that its
\* execution waits for.
LEMMA DirectFacts ==
  ASSUME KernelInv, AccountInv, NEW q \in Queues, NEW w \in Regs(queues[q]), Bound(w, woken)
  PROVE  /\ w.execution \in Executions /\ IsParked(exec, w.execution)
         /\ SiteOf(exec, w.execution).kind \in {"send", "receive"}
         /\ SiteOf(exec, w.execution).queue = q
         /\ w \in Range(queues[q].send_waiters) => SiteOf(exec, w.execution).kind = "send"
         /\ w \in Range(queues[q].receive_waiters) => SiteOf(exec, w.execution).kind = "receive"
         /\ w = WaitOf(w.execution, 0)
<1>1. QueueOK(q, queues[q]) /\ w \in Wait /\ w.execution \in Executions
  BY RegsFacts
<1>2. /\ w \in Range(queues[q].send_waiters) => WaitOK(w, q, "send")
      /\ w \in Range(queues[q].receive_waiters) => WaitOK(w, q, "receive")
  BY <1>1, QueueOKFields
<1>3. /\ IsParked(exec, w.execution) /\ exec[w.execution].site = w.operation
      /\ exec[w.execution].generation = w.generation
  BY DEF AccountInv, Accounts, Direct
<1>4. w \in Range(queues[q].send_waiters) \/ w \in Range(queues[q].receive_waiters)
  BY DEF Regs
<1>5. /\ w \in Range(queues[q].send_waiters) =>
           SiteOf(exec, w.execution).kind = "send" /\ SiteOf(exec, w.execution).queue = q
      /\ w \in Range(queues[q].receive_waiters) =>
           SiteOf(exec, w.execution).kind = "receive" /\ SiteOf(exec, w.execution).queue = q
  BY <1>2, <1>3 DEF WaitOK, SiteOf, Bound
<1>6. w = [execution |-> w.execution, operation |-> w.operation, generation |-> w.generation, arm |-> w.arm]
  BY <1>1 DEF Wait
<1>7. w = WaitOf(w.execution, 0)
  BY <1>3, <1>6 DEF WaitOf, Bound
<1>8. QED
  BY <1>1, <1>3, <1>4, <1>5, <1>7

\* A step that leaves queues and payloads alone.
LEMMA QuietStep ==
  ASSUME KernelInv, AccountInv, UNCHANGED <<queues, order, received>>,
         NEW x, exec' = x, Ages(exec, x), ~erred' => ~erred, NEW C,
         NEW W2, woken' = W2, woken \subseteq W2,
         \A e \in Executions \ C : x[e] = exec[e],
         \A e \in C : ~IsParked(x, e),
         \A e \in C : ~IsParked(exec, e) \/ SiteOf(exec, e).kind \notin {"send", "receive"} \/ e \in W2,
         ~erred' => \A h \in hostWaits : h.execution \notin C => h \in hostWaits'
  PROVE  AccountInv'
<1>1. Accounts(exec, queues, hostWaits, erred, received, order, woken)
  BY DEF AccountInv
<1>2. \A q \in Queues : OnceQ(x, queues[q], received[q])
  <2>1. SUFFICES ASSUME NEW q \in Queues PROVE OnceQ(x, queues[q], received[q])
    OBVIOUS
  <2>2. received[q] \in Seq(Payload) /\ queues[q] \in QueueRecord
    BY RegsFacts
  <2>3. /\ queues[q].payloads \in Seq(Payload) /\ queues[q].send_waiters \in Seq(Wait)
        /\ queues[q].receive_waiters \in Seq(Wait)
    BY <2>2, QueueFields
  <2>4. QED
    BY <1>1, <2>2, <2>3, OnceAges DEF Accounts, OnceQ
<1>3. \A q \in Queues : \A w \in Regs(queues[q]) : w.execution \in Executions
  BY RegsFacts
<1>4. \A q \in Queues : \A w \in Regs(queues[q]) : Bound(w, W2) => w.execution \notin C
  BY DirectFacts DEF Bound
<1>5. ~erred' => \A q \in Queues : LineOf(queues, received, q) = order[q]
  BY <1>1 DEF Accounts
<1>6. PICK bad, H : bad = erred' /\ H = hostWaits'
  OBVIOUS
<1>7. Accounts(x, queues, H, bad, received, order, W2)
  <2>1. ~bad => ~erred
    BY <1>6
  <2>2. \A q \in Queues : \A w \in Regs(queues[q]) :
          w \in Regs(queues[q]) /\ (Bound(w, W2) => w.execution \notin C)
    BY <1>4
  <2>3. ~bad => /\ \A q \in Queues : \A w \in Regs(queues[q]) : w.execution \notin C => w \in Regs(queues[q])
                /\ \A h \in hostWaits : h.execution \notin C => h \in H
                /\ \A q \in Queues : LineOf(queues, received, q) = order[q]
    BY <1>5, <1>6
  <2>4. Releases(C, exec, queues, hostWaits, erred, x, queues, H, bad, received, order, W2)
    BY <1>2, <1>3, <2>1, <2>2, <2>3 DEF Releases
  <2>5. QED
    BY <1>1, <2>4, AccountStep
<1>8. QED
  BY <1>6, <1>7 DEF AccountInv

\* No call clears erred.
LEMMA ErredStays ==
  ASSUME SchedulerOK, NEW x, NEW turns, Succeed(x, turns) \/ Fail \/ UNCHANGED erred
  PROVE  ~erred' => ~erred
  BY DEF Succeed, Fail, SchedulerOK

\* run_round_selected.
LEMMA RunRoundAccounts ==
  ASSUME KernelInv, AccountInv, NEW choice, NEW n \in Nat, RunRound(choice, n)
  PROVE  AccountInv'
<1>1. ExecsOK(exec) /\ HostOK /\ SchedulerOK
  BY DEF KernelInv
<1>3. PICK R, t, l, b, x :
           /\ Splits(n, R, t, l, b) /\ Turned(choice, t, x)
           /\ exec' = x
           /\ erred' = (erred \/ n < Len(R))
           /\ UNCHANGED <<queues, hostWaits, woken, order, received>>
  BY <1>1, RoundFacts
<1>11. PICK taken : taken = Range(t)
  OBVIOUS
<1>4. taken \subseteq Executions /\ \A e \in taken : exec[e].status = "Ready"
  BY <1>1, <1>3, <1>11 DEF SchedulerOK, RunnableIsQueued, Splits
<1>5. /\ \A e \in taken : x[e] = Follow(e, exec[e], choice[e])
      /\ \A e \in Executions \ taken : x[e] = exec[e]
  BY <1>3, <1>11 DEF Turned
<1>2. \A e \in taken : choice[e] \in DOMAIN Shape[e].states[exec[e].state]
  BY <1>3, <1>11 DEF Turned
<1>6. ASSUME NEW e \in taken
      PROVE  /\ x[e].status = "Waiting" => (x[e].generation = exec[e].generation + 1 /\ ~x[e].submitted)
             /\ x[e].generation = exec[e].generation \/ x[e].generation = exec[e].generation + 1
             /\ exec[e].generation \in Nat
  <2>1. ExecOK(e, exec[e]) /\ e \in Executions
    BY <1>1, <1>4 DEF ExecsOK
  <2>2. PICK o, i : o = exec[e] /\ i = choice[e]
    OBVIOUS
  <2>3. ExecOK(e, o) /\ i \in DOMAIN Shape[e].states[o.state] /\ o.status = "Ready"
    BY <1>2, <1>4, <1>6, <2>1, <2>2
  <2>4. PICK y : y = Follow(e, o, i)
    OBVIOUS
  <2>5. /\ y.status = "Waiting" => (o.status = "Waiting" \/ (y.generation = o.generation + 1 /\ ~y.submitted))
        /\ y.generation = o.generation \/ y.generation = o.generation + 1
    BY <2>1, <2>3, <2>4, FollowFacts
  <2>6. o.generation \in Nat
    BY <2>3 DEF ExecOK, ExecutionRecord
  <2>7. x[e] = y
    BY <1>5, <1>6, <2>2, <2>4
  <2>8. QED
    BY <2>2, <2>3, <2>5, <2>6, <2>7
<1>7. Ages(exec, x)
  <2>1. ASSUME NEW e \in taken, NEW g \in Nat, Past(exec, e, g) PROVE Past(x, e, g)
    BY <1>6, <2>1 DEF Past
  <2>2. ASSUME NEW e \in Executions \ taken, NEW g \in Nat, Past(exec, e, g) PROVE Past(x, e, g)
    BY <1>5, <2>2 DEF Past
  <2>3. QED
    BY <2>1, <2>2 DEF Ages
<1>8. \A e \in taken : ~IsParked(x, e) /\ ~IsParked(exec, e)
  BY <1>4, <1>6 DEF IsParked
<1>9. /\ exec' = x /\ hostWaits' = hostWaits /\ woken' = woken /\ woken \subseteq woken
      /\ ~erred' => ~erred
  BY <1>3
<1>12. UNCHANGED <<queues, order, received>>
  BY <1>3
<1>10. QED
  BY <1>5, <1>7, <1>8, <1>9, <1>12, QuietStep

\* wake.
LEMMA WakeAccounts ==
  ASSUME KernelInv, AccountInv, NEW e \in Executions, Wake(e)
  PROVE  AccountInv'
<1>1. ExecsOK(exec) /\ HostOK /\ SchedulerOK
  BY DEF KernelInv
<1>2. PICK x : x = [exec EXCEPT ![e].status = "Ready"]
  OBVIOUS
<1>3. /\ exec[e].status = "Waiting"
      /\ exec' = x /\ Succeed(x, <<e>>)
      /\ woken' = IF exec[e].submitted THEN woken \cup {e} ELSE woken
      /\ UNCHANGED <<queues, hostWaits, order, received>>
  BY <1>2 DEF Wake, ghost
<1>4. PICK r : r = exec[e]
  OBVIOUS
<1>5. r \in ExecutionRecord /\ DOMAIN exec = Executions
  BY <1>1, <1>4 DEF ExecsOK, ExecOK
<1>6. x[e] = [r EXCEPT !.status = "Ready"] /\ \A d \in Executions : d # e => x[d] = exec[d]
  BY <1>2, <1>4, <1>5
<1>7. x[e].status = "Ready" /\ x[e].generation = r.generation
  BY <1>5, <1>6 DEF ExecutionRecord
<1>8. Ages(exec, x)
  BY <1>4, <1>6, <1>7 DEF Ages, Past
<1>9. ~erred' => ~erred
  BY <1>1, <1>3, ErredStays
<1>10. ~IsParked(x, e)
  BY <1>7 DEF IsParked
<1>11. PICK C : C = {e}
  OBVIOUS
<1>12. PICK W2 : W2 = woken'
  OBVIOUS
<1>13. /\ woken \subseteq W2
       /\ \A d \in C : ~IsParked(exec, d) \/ SiteOf(exec, d).kind \notin {"send", "receive"} \/ d \in W2
  BY <1>3, <1>11, <1>12 DEF IsParked
<1>14. /\ \A d \in Executions \ C : x[d] = exec[d]
       /\ \A d \in C : ~IsParked(x, d)
       /\ \A h \in hostWaits : h.execution \notin C => h \in hostWaits'
  BY <1>3, <1>6, <1>10, <1>11
<1>15. UNCHANGED <<queues, order, received>> /\ exec' = x /\ woken' = W2
  BY <1>3, <1>12
<1>16. QED
  BY <1>8, <1>9, <1>13, <1>14, <1>15, QuietStep

\* complete_host.
LEMMA CompleteHostAccounts ==
  ASSUME KernelInv, AccountInv, NEW h \in hostWaits, CompleteHost(h)
  PROVE  AccountInv'
<1>1. ExecsOK(exec) /\ HostOK /\ SchedulerOK
  BY DEF KernelInv
<1>2. PICK w, x : /\ w = [execution |-> h.execution, operation |-> h.operation,
                          generation |-> h.generation, arm |-> 0]
                  /\ x = commit_operation(exec, w)
  OBVIOUS
<1> DEFINE Waits == exec[h.execution].status = "Waiting" /\ exec[h.execution].site = h.operation
<1>3. /\ hostWaits' = hostWaits \ {h} /\ woken' = woken
      /\ \/ Waits /\ exec' = x /\ Succeed(x, <<h.execution>>)
         \/ exec' = exec /\ Fail
      /\ UNCHANGED <<queues, order, received>>
  BY <1>2 DEF CompleteHost, mishaps, ghost
<1>20. CASE exec' = exec /\ Fail
  <2>1. erred' /\ Ages(exec, exec)
    BY <1>20 DEF Fail, Ages
  <2>2. PICK C : C = {}
    OBVIOUS
  <2>3. woken \subseteq woken /\ woken' = woken /\ exec' = exec /\ UNCHANGED <<queues, order, received>>
    BY <1>3, <1>20
  <2>4. QED
    BY <2>1, <2>2, <2>3, QuietStep
<1>21. SUFFICES ASSUME Waits, exec' = x, Succeed(x, <<h.execution>>) PROVE AccountInv'
  BY <1>3, <1>20
<1>4. PICK e, o : e = h.execution /\ o = exec
  OBVIOUS
<1>5. w.execution = e /\ w.arm = 0
  BY <1>2, <1>4
<1>6. e \in Executions /\ exec[e].status = "Waiting" /\ SiteOf(exec, e).kind = "host"
  BY <1>1, <1>4, <1>21 DEF HostOK, SiteOf
<1>7. Outcome(e, exec[e].site, 0)
  BY <1>6 DEF Outcome, SiteOf
<1>8. /\ ExecsOK(o) /\ w.execution \in Executions /\ o[w.execution].status = "Waiting"
      /\ Outcome(w.execution, o[w.execution].site, w.arm) /\ x = commit_operation(o, w)
  BY <1>1, <1>2, <1>4, <1>5, <1>6, <1>7
<1>9. /\ x[e].status # "Waiting" /\ x[e].generation = o[e].generation
      /\ \A d \in Executions : d # e => x[d] = o[d]
  BY <1>5, <1>8, CommitFacts
<1>10. Ages(exec, x)
  BY <1>4, <1>9 DEF Ages, Past
<1>11. ~erred' => ~erred
  BY <1>1, <1>21, ErredStays
<1>12. PICK C : C = {e}
  OBVIOUS
<1>13. /\ \A d \in Executions \ C : x[d] = exec[d]
       /\ \A d \in C : ~IsParked(x, d) /\ SiteOf(exec, d).kind \notin {"send", "receive"}
       /\ \A g \in hostWaits : g.execution \notin C => g \in hostWaits'
  BY <1>3, <1>4, <1>6, <1>9, <1>12 DEF IsParked
<1>15. woken \subseteq woken /\ woken' = woken /\ exec' = x /\ UNCHANGED <<queues, order, received>>
  BY <1>3, <1>21
<1>14. QED
  BY <1>10, <1>11, <1>13, <1>15, QuietStep

\* submit_host.
LEMMA SubmitHostAccounts ==
  ASSUME KernelInv, AccountInv, NEW e \in Executions, NEW token \in HostTokens, SubmitHost(e, token)
  PROVE  AccountInv'
<1>1. ExecsOK(exec) /\ HostOK /\ SchedulerOK
  BY DEF KernelInv
<1>2. PICK h : h = [token |-> token, execution |-> e, operation |-> exec[e].site,
                    generation |-> exec[e].generation]
  OBVIOUS
<1>3. /\ exec[e].status = "Waiting" /\ ~exec[e].submitted /\ SiteOf(exec, e).kind = "host"
      /\ hostWaits' = hostWaits \cup {h}
      /\ exec' = Submitted(exec, e)
      /\ UNCHANGED <<queues, erred, woken, order, received>>
  BY <1>2 DEF SubmitHost, Submits, WaitsOn, mishaps, ghost
<1>4. /\ \A d \in Executions : /\ exec'[d].status = exec[d].status
                               /\ exec'[d].site = exec[d].site
                               /\ d # e => exec'[d] = exec[d]
      /\ exec'[e].submitted
  BY <1>1, <1>3, SubmittedStep
<1>5. Ages(exec, exec')
  BY <1>1, <1>3, SubmittedAges
<1>6. PICK x, H : x = exec' /\ H = hostWaits'
  OBVIOUS
<1>7. Accounts(exec, queues, hostWaits, erred, received, order, woken)
  BY DEF AccountInv
<1>8. \A q \in Queues : OnceQ(x, queues[q], received[q])
  <2>1. SUFFICES ASSUME NEW q \in Queues PROVE OnceQ(x, queues[q], received[q])
    OBVIOUS
  <2>2. received[q] \in Seq(Payload) /\ queues[q] \in QueueRecord
    BY RegsFacts
  <2>3. /\ queues[q].payloads \in Seq(Payload) /\ queues[q].send_waiters \in Seq(Wait)
        /\ queues[q].receive_waiters \in Seq(Wait)
    BY <2>2, QueueFields
  <2>4. QED
    BY <1>5, <1>6, <1>7, <2>2, <2>3, OnceAges DEF Accounts, OnceQ
<1>9. \A q \in Queues : \A w \in Regs(queues[q]) : w.execution \in Executions
  BY RegsFacts
<1>10. Linked(x, H, AllRegs(queues), e)
  <2>1. SiteOf(x, e).kind = "host"
    BY <1>3, <1>4, <1>6 DEF SiteOf
  <2>2. h \in H /\ h.execution = e
    BY <1>2, <1>3, <1>6
  <2>3. QED
    BY <2>1, <2>2 DEF Linked
<1>11. /\ \A d \in Executions : d # e => x[d] = exec[d]
       /\ IsParked(x, e) /\ hostWaits \subseteq H
  BY <1>3, <1>4, <1>6 DEF IsParked
<1>12. ~erred => \A q \in Queues : LineOf(queues, received, q) = order[q]
  BY <1>7 DEF Accounts
<1>13. Accounts(x, queues, H, erred, received, order, woken)
  BY <1>3, <1>7, <1>8, <1>9, <1>10, <1>11, <1>12, AccountParks
<1>14. QED
  BY <1>3, <1>6, <1>13 DEF AccountInv

\* A registration c is matched: its execution has no other direct one.
LEMMA MatchedAlone ==
  ASSUME KernelInv, AccountInv, NEW q \in Queues, NEW c \in Regs(queues[q]),
         Outcome(c.execution, exec[c.execution].site, c.arm)
  PROVE  /\ \/ SiteOf(exec, c.execution).kind = "select" \/ SiteOf(exec, c.execution).queue = q
            \/ c.execution \in woken
         /\ \A w \in Regs(queues[q]) : (Bound(w, woken) /\ w.execution = c.execution) => w = c
<1>1. CASE c.arm = 0
  <2>1. Bound(c, woken) => SiteOf(exec, c.execution).queue = q /\ c = WaitOf(c.execution, 0)
    BY DirectFacts
  <2>2. \A w \in Regs(queues[q]) : Bound(w, woken) => w = WaitOf(w.execution, 0)
    BY DirectFacts
  <2>3. c.execution \notin woken => Bound(c, woken)
    BY <1>1 DEF Bound
  <2>4. \A w : Bound(w, woken) => w.execution \notin woken
    BY DEF Bound
  <2>5. QED
    BY <2>1, <2>2, <2>3, <2>4
<1>2. CASE c.arm # 0
  <2>1. SiteOf(exec, c.execution).kind = "select"
    BY <1>2 DEF Outcome, SiteOf
  <2>2. \A w \in Regs(queues[q]) : Bound(w, woken) => SiteOf(exec, w.execution).kind \in {"send", "receive"}
    BY DirectFacts
  <2>3. QED
    BY <2>1, <2>2
<1>3. QED
  BY <1>1, <1>2

\* A call commits the waits of C, whose registrations are gone from queue q.
LEMMA CommitOneQueue ==
  ASSUME KernelInv, AccountInv, NEW q \in Queues, NEW r, r = queues[q],
         NEW x, exec' = x, NEW C, Leaves(exec, x, C), hostWaits' = hostWaits /\ mishaps' = mishaps, ~erred' => ~erred,
         NEW v, queues' = v, NEW Z, received' = Z, NEW O, order' = O,
         \A p \in Queues : p # q => (v[p] = queues[p] /\ Z[p] = received[p] /\ O[p] = order[p]),
         OnceQ(x, v[q], Z[q]),
         \A d \in C : ~IsParked(exec, d) \/ SiteOf(exec, d).kind = "select" \/ SiteOf(exec, d).queue = q \/ d \in woken,
         \A w \in Regs(v[q]) : w \in Regs(r) /\ (Bound(w, woken) => w.execution \notin C),
         ~erred' => (\A w \in Regs(r) : w.execution \notin C => w \in Regs(v[q])),
         ~erred' => LineOf(v, Z, q) = O[q]
  PROVE  AccountInv'
<1>1. Accounts(exec, queues, hostWaits, erred, received, order, woken)
  BY DEF AccountInv
<1>2. PICK bad : bad = erred'
  OBVIOUS
<1>3. Ages(exec, x)
  BY LeavesAge
<1>4. ASSUME NEW p \in Queues PROVE OnceQ(x, v[p], Z[p])
  <2>1. CASE p = q
    BY <2>1
  <2>2. CASE p # q
    <3>1. received[p] \in Seq(Payload) /\ queues[p] \in QueueRecord
      BY <1>4, RegsFacts
    <3>2. /\ queues[p].payloads \in Seq(Payload) /\ queues[p].send_waiters \in Seq(Wait)
          /\ queues[p].receive_waiters \in Seq(Wait)
      BY <3>1, QueueFields
    <3>3. Once(x, received[p], queues[p].payloads, queues[p].send_waiters, queues[p].receive_waiters)
      BY <1>1, <1>3, <1>4, <3>1, <3>2, OnceAges DEF Accounts, OnceQ
    <3>4. QED
      BY <1>4, <2>2, <3>3 DEF OnceQ
  <2>3. QED
    BY <2>1, <2>2
<1>5. \A p \in Queues : \A w \in Regs(queues[p]) : w.execution \in Executions
  BY RegsFacts
<1>6. ASSUME NEW p \in Queues, NEW w \in Regs(v[p])
      PROVE  w \in Regs(queues[p]) /\ (Bound(w, woken) => w.execution \notin C)
  <2>1. CASE p = q
    BY <1>6, <2>1
  <2>2. CASE p # q
    <3>1. w \in Regs(queues[p])
      BY <1>6, <2>2
    <3>2. Bound(w, woken) => /\ IsParked(exec, w.execution) /\ SiteOf(exec, w.execution).kind # "select"
                       /\ SiteOf(exec, w.execution).queue = p
      BY <1>6, <3>1, DirectFacts
    <3>3. Bound(w, woken) => w.execution \notin woken
      BY DEF Bound
    <3>4. QED
      BY <2>2, <3>1, <3>2, <3>3
  <2>3. QED
    BY <2>1, <2>2
<1>7. ASSUME ~bad
      PROVE  /\ ~erred
             /\ \A p \in Queues : \A w \in Regs(queues[p]) : w.execution \notin C => w \in Regs(v[p])
             /\ \A h \in hostWaits : h.execution \notin C => h \in hostWaits
             /\ \A p \in Queues : LineOf(v, Z, p) = O[p]
  <2>1. ~erred
    BY <1>2, <1>7
  <2>2. ASSUME NEW p \in Queues, NEW w \in Regs(queues[p]), w.execution \notin C PROVE w \in Regs(v[p])
    BY <1>2, <1>7, <2>2
  <2>3. ASSUME NEW p \in Queues PROVE LineOf(v, Z, p) = O[p]
    <3>1. CASE p = q
      BY <1>2, <1>7, <3>1
    <3>2. CASE p # q
      <4>1. LineOf(queues, received, p) = order[p]
        BY <1>1, <2>1, <2>3 DEF Accounts
      <4>2. QED
        BY <2>3, <3>2, <4>1 DEF LineOf
    <3>3. QED
      BY <3>1, <3>2
  <2>4. QED
    BY <2>1, <2>2, <2>3
<1>8. /\ \A e \in Executions \ C : x[e] = exec[e]
      /\ \A e \in C : ~IsParked(x, e)
  BY DEF Leaves, IsParked
<1>9. Releases(C, exec, queues, hostWaits, erred, x, v, hostWaits, bad, Z, O, woken)
  BY <1>4, <1>5, <1>6, <1>7, <1>8 DEF Releases
<1>10. Accounts(x, v, hostWaits, bad, Z, O, woken)
  BY <1>1, <1>9, AccountStep
<1>11. QED
  BY <1>2, <1>10 DEF AccountInv, mishaps

\* A call parks e.
LEMMA ParkStep ==
  ASSUME KernelInv, AccountInv, NEW e \in Executions, exec[e].status = "Waiting",
         ~exec[e].submitted, SiteOf(exec, e).kind # "host",
         exec' = Submitted(exec, e), hostWaits' = hostWaits /\ mishaps' = mishaps, erred' = erred, received' = received,
         NEW v, queues' = v, NEW O, order' = O,
         \A p \in Queues : OnceQ(exec', v[p], received[p]),
         \A p \in Queues : Regs(queues[p]) \subseteq Regs(v[p]),
         \A p \in Queues : \A w \in Regs(v[p]) \ Regs(queues[p]) : \E a \in Nat : w = WaitOf(e, a),
         Links(exec, e) \subseteq AllRegs(v),
         ~erred => \A p \in Queues : LineOf(v, received, p) = O[p]
  PROVE  AccountInv'
<1>1. Accounts(exec, queues, hostWaits, erred, received, order, woken)
  BY DEF AccountInv
<1>2. PICK x : x = exec'
  OBVIOUS
<1>3. /\ \A d \in Executions : /\ x[d].status = exec[d].status /\ x[d].site = exec[d].site
                               /\ x[d].generation = exec[d].generation
                               /\ d # e => x[d] = exec[d]
      /\ x[e].submitted
  <2>1. ExecsOK(exec)
    BY DEF KernelInv
  <2>2. QED
    BY <1>2, <2>1, SubmittedStep
<1>4. SiteOf(x, e) = SiteOf(exec, e)
  BY <1>3 DEF SiteOf
<1>5. Links(x, e) = Links(exec, e)
  BY <1>3, <1>4 DEF Links
<1>6. Linked(x, hostWaits, AllRegs(v), e)
  BY <1>4, <1>5 DEF Linked
<1>7. \A p \in Queues : \A w \in Regs(v[p]) \ Regs(queues[p]) :
        w.execution = e /\ w.operation = x[e].site /\ w.generation = x[e].generation
  BY <1>3 DEF WaitOf
<1>8. \A p \in Queues : \A w \in Regs(queues[p]) : w.execution \in Executions
  BY RegsFacts
<1>9. IsParked(x, e)
  BY <1>3 DEF IsParked
<1>10. \A p \in Queues : OnceQ(x, v[p], received[p])
  BY <1>2
<1>11. \A d \in Executions : d # e => x[d] = exec[d]
  BY <1>3
<1>12. Accounts(x, v, hostWaits, erred, received, O, woken)
  BY <1>1, <1>6, <1>7, <1>8, <1>9, <1>10, <1>11, AccountParks
<1>13. QED
  BY <1>2, <1>12 DEF AccountInv, mishaps

\* What Submits says.
LEMMA SubmitsAccount ==
  ASSUME KernelInv, AccountInv, NEW e \in Executions, NEW kind \in {"send", "receive", "select"},
         Submits(e, kind), NEW q \in Queues
  PROVE  /\ OnceQ(exec, queues[q], received[q])
         /\ ~IsParked(exec, e)
         /\ \A a : /\ New(PayloadOf(WaitOf(e, a)), received[q], queues[q].payloads, queues[q].send_waiters)
                   /\ WaitOf(e, a) \notin Regs(queues[q])
         /\ \A w \in Regs(queues[q]) : ~(w.execution = e /\ w.generation = exec[e].generation)
<1>1. exec[e].status = "Waiting" /\ ~exec[e].submitted
  BY SubmitsFacts
<1>2. OnceQ(exec, queues[q], received[q])
  BY DEF AccountInv, Accounts
<1>3. PICK R, P, s, t : /\ R = received[q] /\ P = queues[q].payloads
                        /\ s = queues[q].send_waiters /\ t = queues[q].receive_waiters
  OBVIOUS
<1>4. Once(exec, R, P, s, t) /\ Regs(queues[q]) = Range(s) \cup Range(t)
  BY <1>2, <1>3 DEF OnceQ, Regs
<1>5. ASSUME NEW a PROVE New(PayloadOf(WaitOf(e, a)), R, P, s) /\ WaitOf(e, a) \notin Range(s) \cup Range(t)
  BY <1>1, <1>4, FreshWait
<1>6. ~Past(exec, e, exec[e].generation)
  BY <1>1 DEF Past
<1>7. \A w \in Regs(queues[q]) : ~(w.execution = e /\ w.generation = exec[e].generation)
  BY <1>4, <1>6 DEF Once
<1>8. QED
  BY <1>1, <1>2, <1>3, <1>4, <1>5, <1>7 DEF IsParked

\* The committed wait is past.
LEMMA CommittedPast ==
  ASSUME ExecsOK(exec), NEW x, NEW C, Leaves(exec, x, C), NEW e \in C
  PROVE  Past(x, e, exec[e].generation)
<1>1. exec[e].generation \in Nat
  BY DEF ExecsOK, ExecOK, ExecutionRecord, Leaves
<1>2. QED
  BY <1>1 DEF Leaves, Past

\* A call of e that fails after it committed its own wait.
LEMMA CallFails ==
  ASSUME KernelInv, AccountInv, NEW e \in Executions, ~IsParked(exec, e),
         NEW x, exec' = x, Leaves(exec, x, {e}), hostWaits' = hostWaits /\ mishaps' = mishaps, erred',
         NEW v, queues' = v, NEW Z, received' = Z,
         \A p \in Queues : OnceQ(x, v[p], Z[p]) /\ Regs(v[p]) \subseteq Regs(queues[p])
  PROVE  AccountInv'
<1>1. Accounts(exec, queues, hostWaits, erred, received, order, woken)
  BY DEF AccountInv
<1>2. PICK bad, O : bad = erred' /\ O = order'
  OBVIOUS
<1>3. \A p \in Queues : \A w \in Regs(queues[p]) :
        w.execution \in Executions /\ (Bound(w, woken) => w.execution # e)
  BY RegsFacts, DirectFacts
<1>4. /\ \A d \in Executions \ {e} : x[d] = exec[d]
      /\ ~IsParked(x, e)
  BY DEF Leaves, IsParked
<1>5. Releases({e}, exec, queues, hostWaits, erred, x, v, hostWaits, bad, Z, O, woken)
  BY <1>2, <1>3, <1>4 DEF Releases
<1>6. Accounts(x, v, hostWaits, bad, Z, O, woken)
  BY <1>1, <1>5, AccountStep
<1>7. QED
  BY <1>2, <1>6 DEF AccountInv, mishaps

\* The first registration of a list leaves, and with it the only direct one of
\* its execution.
LEMMA HeadLeaves ==
  ASSUME KernelInv, AccountInv, NEW q \in Queues, NEW s, NEW t,
         Regs(queues[q]) = Range(s) \cup Range(t), s \in Seq(Wait), s # <<>>, IsInjective(s),
         \A w \in Range(s) \cap Range(t) : ~Bound(w, woken),
         NEW c, c = Head(s), Outcome(c.execution, exec[c.execution].site, c.arm)
  PROVE  /\ \A w \in Range(Tail(s)) \cup Range(t) :
              w \in Regs(queues[q]) /\ (Bound(w, woken) => w.execution # c.execution)
         /\ \A w \in Regs(queues[q]) : w # c => w \in Range(Tail(s)) \cup Range(t)
<1>1. c \in Range(s) /\ Range(s) = {c} \cup Range(Tail(s)) /\ c \notin Range(Tail(s))
  BY TailFacts
<1>2. \A w \in Regs(queues[q]) : (Bound(w, woken) /\ w.execution = c.execution) => w = c
  BY <1>1, MatchedAlone
<1>3. QED
  BY <1>1, <1>2

\* Senders and receivers of a queue.
LEMMA SidesDiffer ==
  ASSUME KernelInv, AccountInv, NEW q \in Queues,
         NEW w \in Range(queues[q].send_waiters) \cap Range(queues[q].receive_waiters)
  PROVE  ~Bound(w, woken)
<1>1. w \in Regs(queues[q])
  BY DEF Regs
<1>2. QED
  BY <1>1, DirectFacts

\* The wait of e, with its payload p, is about to be committed by arm a, and x
\* is what that makes of the executions.
Calls(e, a, x) ==
  /\ e \in Executions /\ exec[e].status = "Waiting" /\ ~exec[e].submitted
  /\ SiteOf(exec, e).kind \in {"send", "receive", "select"}
  /\ a \in Nat /\ Outcome(e, exec[e].site, a)
  /\ x = commit_operation(exec, WaitOf(e, a))

\* What is known when a call commits the wait of e: it is new to every queue.
LEMMA CallsFacts ==
  ASSUME KernelInv, AccountInv, NEW e, NEW a, NEW x, Calls(e, a, x), NEW q \in Queues
  PROVE  /\ e \in Executions /\ ~IsParked(exec, e) /\ Leaves(exec, x, {e}) /\ Ages(exec, x)
         /\ WaitOf(e, a) \in Wait /\ PayloadOf(WaitOf(e, a)) \in Payload
         /\ OnceQ(exec, queues[q], received[q])
         /\ New(PayloadOf(WaitOf(e, a)), received[q], queues[q].payloads, queues[q].send_waiters)
         /\ \A y, C : (Leaves(exec, y, C) /\ e \in C) =>
              LET p == PayloadOf(WaitOf(e, a)) IN Past(y, p[1], p[2])
<1>1. ExecsOK(exec)
  BY DEF KernelInv
<1>2. /\ e \in Executions /\ exec[e].status = "Waiting" /\ ~exec[e].submitted
      /\ SiteOf(exec, e).kind \in {"send", "receive", "select"}
      /\ a \in Nat /\ Outcome(e, exec[e].site, a)
      /\ x = commit_operation(exec, WaitOf(e, a))
  BY DEF Calls
<1>3. Leaves(exec, x, {e})
  BY <1>1, <1>2, CommitOne
<1>4. Ages(exec, x)
  BY <1>3, LeavesAge
<1>5. WaitOf(e, a) \in Wait
  BY <1>1, <1>2, WaitOfOK
<1>6. OnceQ(exec, queues[q], received[q])
  BY DEF AccountInv, Accounts
<1>7. New(PayloadOf(WaitOf(e, a)), received[q], queues[q].payloads, queues[q].send_waiters)
  <2>1. PICK R, P, s, t, w : /\ R = received[q] /\ P = queues[q].payloads /\ w = WaitOf(e, a)
                             /\ s = queues[q].send_waiters /\ t = queues[q].receive_waiters
    OBVIOUS
  <2>2. Once(exec, R, P, s, t)
    BY <1>6, <2>1 DEF OnceQ
  <2>3. New(PayloadOf(w), R, P, s)
    BY <1>2, <2>1, <2>2, FreshWait
  <2>4. QED
    BY <2>1, <2>3
<1>8. ASSUME NEW y, NEW C, Leaves(exec, y, C), e \in C, NEW p, p = PayloadOf(WaitOf(e, a))
      PROVE  Past(y, p[1], p[2])
  <2>1. Past(y, e, exec[e].generation)
    BY <1>1, <1>8, CommittedPast
  <2>2. p[1] = e /\ p[2] = exec[e].generation
    BY <1>8 DEF PayloadOf, WaitOf
  <2>3. QED
    BY <2>1, <2>2
<1>9. QED
  BY <1>2, <1>3, <1>4, <1>5, <1>6, <1>7, <1>8, PayloadType DEF IsParked

\* CommitOneQueue, its hypotheses under one name.
Commits(q, C, x, v, Z, O, bad) ==
  /\ q \in Queues /\ Leaves(exec, x, C) /\ (~bad => ~erred)
  /\ \A p \in Queues : p # q => (v[p] = queues[p] /\ Z[p] = received[p] /\ O[p] = order[p])
  /\ OnceQ(x, v[q], Z[q])
  /\ \A d \in C : ~IsParked(exec, d) \/ SiteOf(exec, d).kind = "select" \/ SiteOf(exec, d).queue = q \/ d \in woken
  /\ \A w \in Regs(v[q]) : w \in Regs(queues[q]) /\ (Bound(w, woken) => w.execution \notin C)
  /\ ~bad => (\A w \in Regs(queues[q]) : w.execution \notin C => w \in Regs(v[q]))
  /\ ~bad => LineOf(v, Z, q) = O[q]

\* Such a call keeps the accounts.
LEMMA CommitsAccount ==
  ASSUME KernelInv, AccountInv, NEW q, NEW C, NEW x, NEW v, NEW Z, NEW O,
         exec' = x, queues' = v, received' = Z, order' = O, hostWaits' = hostWaits /\ mishaps' = mishaps,
         Commits(q, C, x, v, Z, O, erred')
  PROVE  AccountInv'
<1>1. PICK bad, r : bad = erred' /\ r = queues[q]
  OBVIOUS
<1>2. /\ q \in Queues /\ Leaves(exec, x, C)
      /\ \A p \in Queues : p # q => (v[p] = queues[p] /\ Z[p] = received[p] /\ O[p] = order[p])
      /\ OnceQ(x, v[q], Z[q])
      /\ \A d \in C : ~IsParked(exec, d) \/ SiteOf(exec, d).kind = "select" \/ SiteOf(exec, d).queue = q \/ d \in woken
      /\ \A w \in Regs(v[q]) : w \in Regs(r) /\ (Bound(w, woken) => w.execution \notin C)
  BY <1>1 DEF Commits
<1>3. /\ ~erred' => ~erred
      /\ ~erred' => (\A w \in Regs(r) : w.execution \notin C => w \in Regs(v[q]))
      /\ ~erred' => LineOf(v, Z, q) = O[q]
  BY <1>1 DEF Commits
<1>4. QED
  BY <1>1, <1>2, <1>3, CommitOneQueue

\* What a call that commits e and the counterpart c knows of them.
LEMMA Counterpart ==
  ASSUME KernelInv, AccountInv, NEW e, NEW a, NEW x, Calls(e, a, x), NEW q \in Queues,
         NEW c \in Regs(queues[q]), NEW d \in {"send", "receive"}, Owns(x, c, q, d),
         NEW y, y = commit_operation(x, c)
  PROVE  /\ c \in Wait /\ Leaves(exec, y, {e, c.execution}) /\ c.execution # e
         /\ Outcome(c.execution, exec[c.execution].site, c.arm)
         /\ \/ SiteOf(exec, c.execution).kind = "select" \/ SiteOf(exec, c.execution).queue = q
            \/ c.execution \in woken
<1>1. ExecsOK(exec)
  BY DEF KernelInv
<1>2. /\ e \in Executions /\ exec[e].status = "Waiting" /\ ~exec[e].submitted
      /\ SiteOf(exec, e).kind \in {"send", "receive", "select"}
      /\ a \in Nat /\ Outcome(e, exec[e].site, a)
      /\ x = commit_operation(exec, WaitOf(e, a))
  BY DEF Calls
<1>3. c \in Wait /\ c.execution \in Executions
  BY RegsFacts
<1>4. Leaves(exec, y, {e, c.execution}) /\ c.execution # e
  BY <1>1, <1>2, <1>3, CommitTwo
<1>5. Leaves(exec, x, {e})
  BY <1>1, <1>2, CommitOne
<1>6. x[c.execution] = exec[c.execution]
  BY <1>3, <1>4, <1>5 DEF Leaves
<1>7. Outcome(c.execution, exec[c.execution].site, c.arm)
  BY <1>6, OwnsFacts
<1>8. QED
  BY <1>3, <1>4, <1>7, MatchedAlone

\* What the call does to queue q, and to what was admitted and delivered there.
OnlyAt(q, f, g, u) == f[q] = u /\ \A d \in Queues : d # q => f[d] = g[d]

\* The first waiter c of the list s in direction d is accepted and committed.
Matches(x, q, d, s, c, y) ==
  s # <<>> /\ c = Head(s) /\ Owns(x, c, q, d) /\ y = commit_operation(x, c)

\* The call sends into the buffer.
LEMMA SendBuffers ==
  ASSUME KernelInv, AccountInv, NEW e, NEW a, NEW x, Calls(e, a, x), NEW q \in Queues,
         queues[q].receive_waiters = <<>>, has_buffer_capacity(q, queues[q]),
         NEW p, p = PayloadOf(WaitOf(e, a)), NEW v, OnlyAt(q, v, queues, send(queues[q], p)),
         NEW O, OnlyAt(q, O, order, Append(order[q], p))
  PROVE  Commits(q, {e}, x, v, received, O, erred)
<1>1. /\ e \in Executions /\ ~IsParked(exec, e) /\ Leaves(exec, x, {e}) /\ Ages(exec, x)
      /\ p \in Payload /\ OnceQ(exec, queues[q], received[q])
      /\ New(p, received[q], queues[q].payloads, queues[q].send_waiters)
      /\ Past(x, p[1], p[2]) /\ WaitOf(e, a) \in Wait
  BY CallsFacts
<1>2. PICK r, R, P, s, t, b : /\ r = queues[q] /\ R = received[q] /\ P = r.payloads /\ s = r.send_waiters
                           /\ t = r.receive_waiters /\ b = r.closed
  OBVIOUS
<1>3. QueueOK(q, r) /\ r \in QueueRecord /\ R \in Seq(Payload)
  BY <1>2, RegsFacts
<1>4. P \in Seq(Payload) /\ s \in Seq(Wait) /\ t \in Seq(Wait) /\ b \in BOOLEAN
  BY <1>2, <1>3, QueueFields
<1>5. s = <<>> /\ t = <<>>
  BY <1>2, <1>3 DEF QueueOK, Settled
<1>6. OnceQ(x, r, R)
  <2>1. Once(x, R, P, s, t)
    BY <1>1, <1>2, <1>3, <1>4, OnceAges DEF OnceQ
  <2>2. QED
    BY <1>2, <2>1 DEF OnceQ
<1>7. OnceQ(x, v[q], received[q])
  <2>1. OnceQ(x, send(r, p), R)
    BY <1>1, <1>2, <1>3, <1>6, SendOnce
  <2>2. QED
    BY <1>2, <2>1 DEF OnlyAt
<1>8. v[q].payloads = Append(P, p) /\ v[q].send_waiters = s /\ v[q].receive_waiters = t
  <2>1. r.receive_waiters = <<>> =>
          send(r, p) = Record(Append(r.payloads, p), r.send_waiters, r.receive_waiters, r.closed)
    BY <1>3, SendRecord
  <2>2. v[q] = Record(Append(P, p), s, t, b)
    BY <1>2, <1>5, <2>1 DEF OnlyAt
  <2>3. QED
    BY <2>2 DEF Record
<1>9. Regs(v[q]) = Regs(queues[q])
  BY <1>2, <1>8 DEF Regs
<1>10. \A w \in Regs(v[q]) : w \in Regs(queues[q]) /\ (Bound(w, woken) => w.execution \notin {e})
  BY <1>1, <1>9, DirectFacts
<1>11. ASSUME ~erred PROVE LineOf(v, received, q) = O[q]
  <2>1. Line(R, P, s) = order[q]
    BY <1>2, <1>11 DEF AccountInv, Accounts, LineOf
  <2>2. s = <<>> => Line(R, Append(P, p), s) = Append(Line(R, P, s), p)
    <3>1. PICK w : w \in Wait
      BY <1>1
    <3>2. p \in Payload
      BY <1>1
    <3>3. QED
      BY <1>3, <1>4, <3>1, <3>2, LineGrows
  <2>3. QED
    BY <1>2, <1>5, <1>8, <2>1, <2>2 DEF LineOf, OnlyAt
<1>12. \A d \in Queues : d # q => (v[d] = queues[d] /\ received[d] = received[d] /\ O[d] = order[d])
  BY DEF OnlyAt
<1>13. QED
  BY <1>1, <1>7, <1>9, <1>10, <1>11, <1>12 DEF Commits

\* The waiters of queue q in direction d, and those in the other direction.
Sides(q, d, s, t) ==
  \/ d = "send" /\ s = queues[q].send_waiters /\ t = queues[q].receive_waiters
  \/ d = "receive" /\ s = queues[q].receive_waiters /\ t = queues[q].send_waiters

\* A call commits e and the first waiter c of the list s; t is the other list.
LEMMA PairFacts ==
  ASSUME KernelInv, AccountInv, NEW e, NEW a, NEW x, Calls(e, a, x), NEW q \in Queues,
         NEW d, NEW s, NEW t, Sides(q, d, s, t),
         NEW c, NEW y, Matches(x, q, d, s, c, y),
         NEW u, Regs(u) = Range(Tail(s)) \cup Range(t), NEW C, C = {e, c.execution}
  PROVE  /\ Leaves(exec, y, C) /\ c \in Wait
         /\ \A z \in C : ~IsParked(exec, z) \/ SiteOf(exec, z).kind = "select" \/ SiteOf(exec, z).queue = q \/ z \in woken
         /\ \A w \in Regs(u) : w \in Regs(queues[q]) /\ (Bound(w, woken) => w.execution \notin C)
         /\ \A w \in Regs(queues[q]) : w.execution \notin C => w \in Regs(u)
<1>1. s # <<>> /\ c = Head(s) /\ Owns(x, c, q, d) /\ y = commit_operation(x, c)
  BY DEF Matches
<1>2. queues[q].send_waiters \in Seq(Wait) /\ queues[q].receive_waiters \in Seq(Wait)
  BY RegsFacts, QueueFields
<1>3. s \in Seq(Wait) /\ t \in Seq(Wait) /\ Regs(queues[q]) = Range(s) \cup Range(t)
  BY <1>2 DEF Regs, Sides
<1>4. c \in Range(s)
  BY <1>1, <1>3, TailFacts
<1>5. c \in Regs(queues[q])
  BY <1>3, <1>4
<1>6. /\ c \in Wait /\ Leaves(exec, y, {e, c.execution}) /\ c.execution # e
      /\ Outcome(c.execution, exec[c.execution].site, c.arm)
      /\ \/ SiteOf(exec, c.execution).kind = "select" \/ SiteOf(exec, c.execution).queue = q
         \/ c.execution \in woken
  <2>1. d \in {"send", "receive"}
    BY DEF Sides
  <2>2. PICK o \in {"send", "receive"} : o = d
    BY <2>1
  <2>3. Owns(x, c, q, o) /\ y = commit_operation(x, c)
    BY <1>1, <2>2
  <2>4. QED
    BY <1>5, <2>3, Counterpart
<1>7. ~IsParked(exec, e)
  BY CallsFacts
<1>8. IsInjective(s) /\ \A w \in Range(s) \cap Range(t) : ~Bound(w, woken)
  <2>1. IsInjective(queues[q].send_waiters) /\ IsInjective(queues[q].receive_waiters)
    BY DEF AccountInv, Accounts, OnceQ, Once
  <2>2. \A w \in Range(queues[q].send_waiters) \cap Range(queues[q].receive_waiters) : ~Bound(w, woken)
    BY SidesDiffer
  <2>3. QED
    BY <2>1, <2>2 DEF Sides
<1>9. /\ \A w \in Range(Tail(s)) \cup Range(t) :
              w \in Regs(queues[q]) /\ (Bound(w, woken) => w.execution # c.execution)
      /\ \A w \in Regs(queues[q]) : w # c => w \in Range(Tail(s)) \cup Range(t)
  BY <1>1, <1>3, <1>6, <1>8, HeadLeaves
<1>10. \A w \in Regs(queues[q]) : Bound(w, woken) => w.execution # e
  BY <1>7, DirectFacts
<1>11. QED
  BY <1>6, <1>7, <1>9, <1>10

\* The call hands its payload to the first waiting receiver.
LEMMA SendHandsOver ==
  ASSUME KernelInv, AccountInv, NEW e, NEW a, NEW x, Calls(e, a, x), NEW q \in Queues,
         NEW c, NEW y, Matches(x, q, "receive", queues[q].receive_waiters, c, y),
         NEW p, p = PayloadOf(WaitOf(e, a)), NEW v, OnlyAt(q, v, queues, send(queues[q], p)),
         NEW O, OnlyAt(q, O, order, Append(order[q], p)),
         NEW Z, OnlyAt(q, Z, received, Append(received[q], p))
  PROVE  Commits(q, {e, c.execution}, y, v, Z, O, erred)
<1>1. /\ e \in Executions /\ p \in Payload /\ OnceQ(exec, queues[q], received[q])
      /\ New(p, received[q], queues[q].payloads, queues[q].send_waiters)
  BY CallsFacts
<1>2. PICK r, R, P, s, t, b : /\ r = queues[q] /\ R = received[q] /\ P = r.payloads /\ s = r.send_waiters
                              /\ t = r.receive_waiters /\ b = r.closed
  OBVIOUS
<1>3. QueueOK(q, r) /\ r \in QueueRecord /\ R \in Seq(Payload)
  BY <1>2, RegsFacts
<1>4. P \in Seq(Payload) /\ s \in Seq(Wait) /\ t \in Seq(Wait) /\ b \in BOOLEAN
  BY <1>2, <1>3, QueueFields
<1>5. P = <<>> /\ s = <<>> /\ t # <<>>
  BY <1>2, <1>3 DEF QueueOK, Settled, Matches
<1>6. v[q].payloads = P /\ v[q].send_waiters = s /\ v[q].receive_waiters = Tail(t)
  <2>1. r.receive_waiters # <<>> =>
          send(r, p) = Record(r.payloads, r.send_waiters, Tail(r.receive_waiters), r.closed)
    BY <1>3, SendRecord
  <2>2. v[q] = Record(P, s, Tail(t), b)
    BY <1>2, <1>5, <2>1 DEF OnlyAt
  <2>3. QED
    BY <2>2 DEF Record
<1>7. PICK C, u : C = {e, c.execution} /\ u = v[q]
  OBVIOUS
<1>8. /\ Leaves(exec, y, C) /\ c \in Wait
      /\ \A z \in C : ~IsParked(exec, z) \/ SiteOf(exec, z).kind = "select" \/ SiteOf(exec, z).queue = q \/ z \in woken
      /\ \A w \in Regs(u) : w \in Regs(queues[q]) /\ (Bound(w, woken) => w.execution \notin C)
      /\ \A w \in Regs(queues[q]) : w.execution \notin C => w \in Regs(u)
  <2>1. Regs(u) = Range(Tail(t)) \cup Range(s)
    BY <1>6, <1>7 DEF Regs
  <2>2. PICK d : d = "receive"
    OBVIOUS
  <2>3. Matches(x, q, d, t, c, y) /\ Sides(q, d, t, s)
    BY <1>2, <2>2 DEF Sides
  <2>4. QED
    BY <1>7, <2>1, <2>3, PairFacts
<1>9. Ages(exec, y) /\ Past(y, p[1], p[2])
  <2>1. Leaves(exec, y, C) /\ e \in C
    BY <1>7, <1>8
  <2>2. Past(y, p[1], p[2])
    BY <2>1, CallsFacts
  <2>3. QED
    BY <2>1, <2>2, LeavesAge
<1>10. OnceQ(y, v[q], Z[q])
  <2>1. Once(y, R, P, s, t)
    BY <1>1, <1>2, <1>3, <1>4, <1>9, OnceAges DEF OnceQ
  <2>2. OnceQ(y, r, R)
    BY <1>2, <2>1 DEF OnceQ
  <2>3. r.receive_waiters # <<>> => OnceQ(y, send(r, p), Append(R, p))
    BY <1>1, <1>2, <1>3, <1>9, <2>2, SendOnce
  <2>4. QED
    BY <1>2, <1>5, <2>3 DEF OnlyAt
<1>11. ASSUME ~erred PROVE LineOf(v, Z, q) = O[q]
  <2>1. Line(R, P, s) = order[q]
    BY <1>2, <1>11 DEF AccountInv, Accounts, LineOf
  <2>2. (P = <<>> /\ s = <<>>) => Line(Append(R, p), P, s) = Append(Line(R, P, s), p)
    <3>1. p \in Payload /\ c \in Wait
      BY <1>1, <1>8
    <3>2. QED
      BY <1>3, <1>4, <3>1, LineGrows
  <2>3. QED
    BY <1>2, <1>5, <1>6, <2>1, <2>2 DEF LineOf, OnlyAt
<1>12. \A d \in Queues : d # q => (v[d] = queues[d] /\ Z[d] = received[d] /\ O[d] = order[d])
  BY DEF OnlyAt
<1>13. QED
  BY <1>7, <1>8, <1>10, <1>11, <1>12 DEF Commits

\* The call takes the first buffered payload; no sender waits for the place.
LEMMA ReceiveTakes ==
  ASSUME KernelInv, AccountInv, NEW e, NEW a, NEW x, Calls(e, a, x), NEW q \in Queues,
         queues[q].payloads # <<>>, ~promotes(q, queues[q]),
         NEW v, OnlyAt(q, v, queues, receive(q, queues[q])),
         NEW Z, OnlyAt(q, Z, received, Append(received[q], TakenPayload(queues[q])))
  PROVE  Commits(q, {e}, x, v, Z, order, erred)
<1>1. /\ e \in Executions /\ ~IsParked(exec, e) /\ Leaves(exec, x, {e}) /\ Ages(exec, x)
      /\ OnceQ(exec, queues[q], received[q])
  BY CallsFacts
<1>2. PICK r, R, P, s, t, b : /\ r = queues[q] /\ R = received[q] /\ P = r.payloads /\ s = r.send_waiters
                              /\ t = r.receive_waiters /\ b = r.closed
  OBVIOUS
<1>3. QueueOK(q, r) /\ r \in QueueRecord /\ R \in Seq(Payload)
  BY <1>2, RegsFacts
<1>4. P \in Seq(Payload) /\ s \in Seq(Wait) /\ t \in Seq(Wait) /\ b \in BOOLEAN
  BY <1>2, <1>3, QueueFields
<1>5. OnceQ(x, r, R)
  <2>1. Once(x, R, P, s, t)
    BY <1>1, <1>2, <1>3, <1>4, OnceAges DEF OnceQ
  <2>2. QED
    BY <1>2, <2>1 DEF OnceQ
<1>6. OnceQ(x, v[q], Z[q])
  <2>1. r.payloads # <<>> \/ r.send_waiters # <<>>
    BY <1>2
  <2>2. OnceQ(x, receive(q, r), Append(R, TakenPayload(r)))
    BY <1>3, <1>5, <2>1, ReceiveOnce
  <2>3. QED
    BY <1>2, <2>2 DEF OnlyAt
<1>7. v[q].payloads = Tail(P) /\ v[q].send_waiters = s /\ v[q].receive_waiters = t
  <2>1. (r.payloads # <<>> /\ ~promotes(q, r)) =>
          receive(q, r) = Record(Tail(r.payloads), r.send_waiters, r.receive_waiters, r.closed)
    BY <1>3, ReceiveRecord
  <2>2. v[q] = Record(Tail(P), s, t, b)
    BY <1>2, <2>1 DEF OnlyAt
  <2>3. QED
    BY <2>2 DEF Record
<1>8. Regs(v[q]) = Regs(queues[q])
  BY <1>2, <1>7 DEF Regs
<1>9. \A w \in Regs(v[q]) : w \in Regs(queues[q]) /\ (Bound(w, woken) => w.execution \notin {e})
  BY <1>1, <1>8, DirectFacts
<1>10. Z[q] = Append(R, Head(P))
  BY <1>2 DEF OnlyAt, TakenPayload
<1>11. ASSUME ~erred PROVE LineOf(v, Z, q) = order[q]
  <2>1. Line(R, P, s) = order[q]
    BY <1>2, <1>11 DEF AccountInv, Accounts, LineOf
  <2>2. P # <<>> => Line(Append(R, Head(P)), Tail(P), s) = Line(R, P, s)
    BY <1>3, <1>4, LineStays
  <2>3. QED
    BY <1>2, <1>7, <1>10, <2>1, <2>2 DEF LineOf
<1>12. \A d \in Queues : d # q => (v[d] = queues[d] /\ Z[d] = received[d] /\ order[d] = order[d])
  BY DEF OnlyAt
<1>13. QED
  BY <1>1, <1>6, <1>8, <1>9, <1>11, <1>12 DEF Commits

\* The call takes a payload and wakes the first waiting sender.
LEMMA ReceivePairs ==
  ASSUME KernelInv, AccountInv, NEW e, NEW a, NEW x, Calls(e, a, x), NEW q \in Queues,
         WakesSender(q, queues[q]),
         NEW c, NEW y, Matches(x, q, "send", queues[q].send_waiters, c, y),
         NEW v, OnlyAt(q, v, queues, receive(q, queues[q])),
         NEW Z, OnlyAt(q, Z, received, Append(received[q], TakenPayload(queues[q])))
  PROVE  Commits(q, {e, c.execution}, y, v, Z, order, erred)
<1>1. /\ e \in Executions /\ OnceQ(exec, queues[q], received[q])
  BY CallsFacts
<1>2. PICK r, R, P, s, t, b : /\ r = queues[q] /\ R = received[q] /\ P = r.payloads /\ s = r.send_waiters
                              /\ t = r.receive_waiters /\ b = r.closed
  OBVIOUS
<1>3. QueueOK(q, r) /\ r \in QueueRecord /\ R \in Seq(Payload)
  BY <1>2, RegsFacts
<1>4. P \in Seq(Payload) /\ s \in Seq(Wait) /\ t \in Seq(Wait) /\ b \in BOOLEAN
  BY <1>2, <1>3, QueueFields
<1>5. s # <<>> /\ (P # <<>> => promotes(q, r))
  BY <1>2 DEF Matches, WakesSender
<1>6. PICK o : o = PayloadOf(Head(s))
  OBVIOUS
<1>7. /\ v[q].payloads = IF P # <<>> THEN Append(Tail(P), o) ELSE P
      /\ v[q].send_waiters = Tail(s) /\ v[q].receive_waiters = t
      /\ Z[q] = Append(R, IF P # <<>> THEN Head(P) ELSE o)
  <2>1. /\ (r.payloads # <<>> /\ promotes(q, r)) =>
             receive(q, r) = Record(Append(Tail(r.payloads), PayloadOf(Head(r.send_waiters))),
                                    Tail(r.send_waiters), r.receive_waiters, r.closed)
        /\ r.payloads = <<>> =>
             receive(q, r) = Record(r.payloads, Tail(r.send_waiters), r.receive_waiters, r.closed)
    BY <1>3, ReceiveRecord
  <2>2. /\ P # <<>> => v[q] = Record(Append(Tail(P), o), Tail(s), t, b)
        /\ P = <<>> => v[q] = Record(P, Tail(s), t, b)
    BY <1>2, <1>5, <1>6, <2>1 DEF OnlyAt
  <2>3. /\ v[q].payloads = IF P # <<>> THEN Append(Tail(P), o) ELSE P
        /\ v[q].send_waiters = Tail(s) /\ v[q].receive_waiters = t
    <3>1. PICK M : M = IF P # <<>> THEN Append(Tail(P), o) ELSE P
      OBVIOUS
    <3>2. v[q] = Record(M, Tail(s), t, b)
      BY <2>2, <3>1
    <3>3. v[q].payloads = M /\ v[q].send_waiters = Tail(s) /\ v[q].receive_waiters = t
      BY <3>2 DEF Record
    <3>4. QED
      BY <3>1, <3>3
  <2>4. Z[q] = Append(R, IF P # <<>> THEN Head(P) ELSE o)
    BY <1>2, <1>6 DEF OnlyAt, TakenPayload
  <2>5. QED
    BY <2>3, <2>4
<1>8. PICK C, u : C = {e, c.execution} /\ u = v[q]
  OBVIOUS
<1>9. /\ Leaves(exec, y, C) /\ c \in Wait
      /\ \A z \in C : ~IsParked(exec, z) \/ SiteOf(exec, z).kind = "select" \/ SiteOf(exec, z).queue = q \/ z \in woken
      /\ \A w \in Regs(u) : w \in Regs(queues[q]) /\ (Bound(w, woken) => w.execution \notin C)
      /\ \A w \in Regs(queues[q]) : w.execution \notin C => w \in Regs(u)
  <2>1. Regs(u) = Range(Tail(s)) \cup Range(t)
    BY <1>7, <1>8 DEF Regs
  <2>2. PICK d : d = "send"
    OBVIOUS
  <2>3. Matches(x, q, d, s, c, y) /\ Sides(q, d, s, t)
    BY <1>2, <2>2 DEF Sides
  <2>4. QED
    BY <1>8, <2>1, <2>3, PairFacts, SMTT(20)
<1>10. Ages(exec, y)
  BY <1>9, LeavesAge
<1>11. OnceQ(y, v[q], Z[q])
  <2>1. Once(y, R, P, s, t)
    BY <1>1, <1>2, <1>3, <1>4, <1>10, OnceAges DEF OnceQ
  <2>2. OnceQ(y, r, R) /\ (r.payloads # <<>> \/ r.send_waiters # <<>>)
    BY <1>2, <1>5, <2>1 DEF OnceQ
  <2>3. OnceQ(y, receive(q, r), Append(R, TakenPayload(r)))
    BY <1>3, <2>2, ReceiveOnce
  <2>4. QED
    BY <1>2, <2>3 DEF OnlyAt
<1>12. ASSUME ~erred PROVE LineOf(v, Z, q) = order[q]
  <2>1. Line(R, P, s) = order[q]
    BY <1>2, <1>12 DEF AccountInv, Accounts, LineOf
  <2>2. CASE P = <<>>
    <3>1. (P = <<>> /\ s # <<>>) => Line(Append(R, PayloadOf(Head(s))), P, Tail(s)) = Line(R, P, s)
      BY <1>3, <1>4, LineStays
    <3>2. Line(Append(R, o), P, Tail(s)) = order[q]
      BY <1>5, <1>6, <2>1, <2>2, <3>1
    <3>3. LineOf(v, Z, q) = Line(Append(R, o), P, Tail(s))
      BY <1>7, <2>2 DEF LineOf
    <3>4. QED
      BY <3>2, <3>3
  <2>3. CASE P # <<>>
    <3>1. P # <<>> => Line(Append(R, Head(P)), Tail(P), s) = Line(R, P, s)
      BY <1>3, <1>4, LineStays
    <3>2. PICK R2, P2 : R2 = Append(R, Head(P)) /\ P2 = Tail(P)
      OBVIOUS
    <3>3. R2 \in Seq(Payload) /\ P2 \in Seq(Payload)
      <4>1. Head(P) \in Payload /\ Tail(P) \in Seq(Payload)
        BY <1>4, <2>3, TailFacts
      <4>2. QED
        BY <1>3, <3>2, <4>1
    <3>4. s # <<>> => Line(R2, Append(P2, PayloadOf(Head(s))), Tail(s)) = Line(R2, P2, s)
      BY <1>4, <3>3, LineStays
    <3>5. Line(R2, Append(P2, o), Tail(s)) = order[q]
      BY <1>5, <1>6, <2>1, <2>3, <3>1, <3>2, <3>4
    <3>6. LineOf(v, Z, q) = Line(R2, Append(P2, o), Tail(s))
      BY <1>7, <2>3, <3>2 DEF LineOf
    <3>7. QED
      BY <3>5, <3>6
  <2>4. QED
    BY <2>2, <2>3
<1>13. \A d \in Queues : d # q => (v[d] = queues[d] /\ Z[d] = received[d] /\ order[d] = order[d])
  BY DEF OnlyAt
<1>14. QED
  BY <1>8, <1>9, <1>11, <1>12, <1>13 DEF Commits

\* A direct wait is registered on queue q.
LEMMA DirectParks ==
  ASSUME KernelInv, AccountInv, NEW e \in Executions, exec[e].status = "Waiting",
         ~exec[e].submitted, SiteOf(exec, e).kind \in {"send", "receive"},
         exec' = Submitted(exec, e), hostWaits' = hostWaits /\ mishaps' = mishaps, erred' = erred, received' = received,
         NEW q \in Queues, NEW u, NEW v, queues' = v, OnlyAt(q, v, queues, u),
         NEW O, order' = O, NEW n, OnlyAt(q, O, order, n),
         Regs(u) = Regs(queues[q]) \cup {WaitOf(e, 0)}, OnceQ(exec', u, received[q]),
         ~erred => Line(received[q], u.payloads, u.send_waiters) = n
  PROVE  AccountInv'
<1>1. ExecsOK(exec)
  BY DEF KernelInv
<1>2. PICK y : y = exec'
  OBVIOUS
<1>3. Ages(exec, y)
  BY <1>1, <1>2, SubmittedAges
<1>4. ASSUME NEW p \in Queues PROVE OnceQ(y, v[p], received[p])
  <2>1. CASE p = q
    BY <1>2, <2>1 DEF OnlyAt
  <2>2. CASE p # q
    <3>1. received[p] \in Seq(Payload) /\ queues[p] \in QueueRecord
      BY RegsFacts
    <3>2. /\ queues[p].payloads \in Seq(Payload) /\ queues[p].send_waiters \in Seq(Wait)
          /\ queues[p].receive_waiters \in Seq(Wait)
      BY <3>1, QueueFields
    <3>3. Once(exec, received[p], queues[p].payloads, queues[p].send_waiters, queues[p].receive_waiters)
      BY DEF AccountInv, Accounts, OnceQ
    <3>4. Once(y, received[p], queues[p].payloads, queues[p].send_waiters, queues[p].receive_waiters)
      BY <1>3, <3>1, <3>2, <3>3, OnceAges
    <3>5. QED
      BY <2>2, <3>4 DEF OnceQ, OnlyAt
  <2>3. QED
    BY <2>1, <2>2
<1>5. \A p \in Queues : Regs(v[p]) = IF p = q THEN Regs(queues[q]) \cup {WaitOf(e, 0)} ELSE Regs(queues[p])
  BY DEF OnlyAt
<1>6. \A p \in Queues : Regs(queues[p]) \subseteq Regs(v[p])
  BY <1>5
<1>7. \A p \in Queues : \A w \in Regs(v[p]) \ Regs(queues[p]) : \E a \in Nat : w = WaitOf(e, a)
  BY <1>5
<1>8. Links(exec, e) \subseteq AllRegs(v)
  <2>1. Links(exec, e) = {WaitOf(e, 0)}
    BY DEF Links, WaitOf
  <2>2. WaitOf(e, 0) \in Regs(v[q])
    BY <1>5
  <2>3. QED
    BY <2>1, <2>2 DEF AllRegs
<1>9. ASSUME ~erred PROVE \A p \in Queues : LineOf(v, received, p) = O[p]
  <2>1. \A p \in Queues : LineOf(queues, received, p) = order[p]
    BY <1>9 DEF AccountInv, Accounts
  <2>2. QED
    BY <1>9, <2>1 DEF LineOf, OnlyAt
<1>10. \A p \in Queues : OnceQ(exec', v[p], received[p])
  BY <1>2, <1>4
<1>11. SiteOf(exec, e).kind # "host"
  OBVIOUS
<1>12. QED
  BY <1>6, <1>7, <1>8, <1>9, <1>10, <1>11, ParkStep

\* The caller's wait is committed on a closed queue: nothing else happens.
LEMMA ClosedCall ==
  ASSUME KernelInv, AccountInv, NEW e, NEW a, NEW x, Calls(e, a, x), exec' = x,
         UNCHANGED <<queues, order, received>>, hostWaits' = hostWaits /\ mishaps' = mishaps, erred' = erred
  PROVE  AccountInv'
<1>1. e \in Executions /\ ~IsParked(exec, e) /\ Leaves(exec, x, {e})
  <2>1. /\ e \in Executions /\ exec[e].status = "Waiting" /\ ~exec[e].submitted
        /\ SiteOf(exec, e).kind \in {"send", "receive", "select"}
        /\ a \in Nat /\ Outcome(e, exec[e].site, a)
        /\ x = commit_operation(exec, WaitOf(e, a))
    BY DEF Calls
  <2>2. ExecsOK(exec)
    BY DEF KernelInv
  <2>3. QED
    BY <2>1, <2>2, CommitOne DEF IsParked
<1>2. PICK C : C = {e}
  OBVIOUS
<1>3. Ages(exec, x) /\ (\A d \in Executions \ C : x[d] = exec[d]) /\ (\A d \in C : ~IsParked(x, d))
  <2>1. Ages(exec, x)
    BY <1>1, LeavesAge
  <2>2. QED
    BY <1>1, <1>2, <2>1 DEF Leaves, IsParked
<1>4. \A d \in C : ~IsParked(exec, d) \/ SiteOf(exec, d).kind \notin {"send", "receive"}
  BY <1>1, <1>2
<1>5. \A h \in hostWaits : h.execution \notin C => h \in hostWaits'
  OBVIOUS
<1>6. woken' = woken /\ woken \subseteq woken
  BY DEF mishaps
<1>7. QED
  BY <1>3, <1>4, <1>5, <1>6, QuietStep

\* An update of one queue.
LEMMA UpdateOnly ==
  ASSUME NEW f, DOMAIN f = Queues, f = [p \in Queues |-> f[p]], NEW q \in Queues, NEW u,
         NEW g, g = [f EXCEPT ![q] = u]
  PROVE  OnlyAt(q, g, f, u)
  BY DEF OnlyAt

\* The functions of the state.
LEMMA StateFunctions ==
  ASSUME KernelInv
  PROVE  /\ DOMAIN queues = Queues /\ queues = [p \in Queues |-> queues[p]]
         /\ DOMAIN order = Queues /\ order = [p \in Queues |-> order[p]]
         /\ DOMAIN received = Queues /\ received = [p \in Queues |-> received[p]]
  BY DEF KernelInv, QueuesOK, GhostOK

\* What is there once is there once later.
LEMMA OnceLater ==
  ASSUME KernelInv, AccountInv, NEW x, Ages(exec, x), NEW q \in Queues
  PROVE  OnceQ(x, queues[q], received[q])
<1>1. received[q] \in Seq(Payload) /\ queues[q] \in QueueRecord
  BY RegsFacts
<1>2. /\ queues[q].payloads \in Seq(Payload) /\ queues[q].send_waiters \in Seq(Wait)
      /\ queues[q].receive_waiters \in Seq(Wait)
  BY <1>1, QueueFields
<1>3. Once(exec, received[q], queues[q].payloads, queues[q].send_waiters, queues[q].receive_waiters)
  BY DEF AccountInv, Accounts, OnceQ
<1>4. Once(x, received[q], queues[q].payloads, queues[q].send_waiters, queues[q].receive_waiters)
  BY <1>1, <1>2, <1>3, OnceAges
<1>5. QED
  BY <1>4 DEF OnceQ

\* A call that does not block registers nothing.
LEMMA NoNewRegs ==
  ASSUME NEW q, NEW r \in QueueRecord
  PROVE  /\ \A p : Regs(send(r, p)) \subseteq Regs(r)
         /\ (r.payloads # <<>> \/ r.send_waiters # <<>>) => Regs(receive(q, r)) \subseteq Regs(r)
<1>1. r.send_waiters \in Seq(Wait) /\ r.receive_waiters \in Seq(Wait)
  BY QueueFields
<1>2. /\ r.send_waiters # <<>> => Range(Tail(r.send_waiters)) \subseteq Range(r.send_waiters)
      /\ r.receive_waiters # <<>> => Range(Tail(r.receive_waiters)) \subseteq Range(r.receive_waiters)
  BY <1>1, TailFacts
<1>3. ASSUME NEW p PROVE Regs(send(r, p)) \subseteq Regs(r)
  <2>1. /\ r.receive_waiters # <<>> =>
             send(r, p) = Record(r.payloads, r.send_waiters, Tail(r.receive_waiters), r.closed)
        /\ r.receive_waiters = <<>> =>
             send(r, p) = Record(Append(r.payloads, p), r.send_waiters, r.receive_waiters, r.closed)
    BY SendRecord
  <2>2. PICK u : u = send(r, p)
    OBVIOUS
  <2>3. CASE r.receive_waiters # <<>>
    <3>1. u = Record(r.payloads, r.send_waiters, Tail(r.receive_waiters), r.closed)
      BY <2>1, <2>2, <2>3
    <3>2. u.send_waiters = r.send_waiters /\ u.receive_waiters = Tail(r.receive_waiters)
      BY <3>1 DEF Record
    <3>3. QED
      BY <1>2, <2>2, <2>3, <3>2 DEF Regs
  <2>4. CASE r.receive_waiters = <<>>
    <3>1. u = Record(Append(r.payloads, p), r.send_waiters, r.receive_waiters, r.closed)
      BY <2>1, <2>2, <2>4
    <3>2. u.send_waiters = r.send_waiters /\ u.receive_waiters = r.receive_waiters
      BY <3>1 DEF Record
    <3>3. QED
      BY <2>2, <3>2 DEF Regs
  <2>5. QED
    BY <2>3, <2>4
<1>4. ASSUME r.payloads # <<>> \/ r.send_waiters # <<>> PROVE Regs(receive(q, r)) \subseteq Regs(r)
  <2>1. PICK u : u = receive(q, r)
    OBVIOUS
  <2>2. /\ (r.payloads # <<>> /\ promotes(q, r)) =>
             u = Record(Append(Tail(r.payloads), PayloadOf(Head(r.send_waiters))),
                        Tail(r.send_waiters), r.receive_waiters, r.closed)
        /\ (r.payloads # <<>> /\ ~promotes(q, r)) =>
             u = Record(Tail(r.payloads), r.send_waiters, r.receive_waiters, r.closed)
        /\ r.payloads = <<>> =>
             u = Record(r.payloads, Tail(r.send_waiters), r.receive_waiters, r.closed)
    BY <2>1, ReceiveRecord
  <2>3. promotes(q, r) => r.send_waiters # <<>>
    BY DEF promotes
  <2>4. /\ u.receive_waiters = r.receive_waiters
        /\ \/ u.send_waiters = r.send_waiters
           \/ u.send_waiters = Tail(r.send_waiters) /\ r.send_waiters # <<>>
    <3>1. CASE r.payloads # <<>> /\ promotes(q, r)
      <4>1. u = Record(Append(Tail(r.payloads), PayloadOf(Head(r.send_waiters))),
                        Tail(r.send_waiters), r.receive_waiters, r.closed)
        BY <2>2, <3>1
      <4>2. u.send_waiters = Tail(r.send_waiters) /\ u.receive_waiters = r.receive_waiters
        BY <4>1 DEF Record
      <4>3. QED
        BY <2>3, <3>1, <4>2
    <3>2. CASE r.payloads # <<>> /\ ~promotes(q, r)
      <4>1. u = Record(Tail(r.payloads), r.send_waiters, r.receive_waiters, r.closed)
        BY <2>2, <3>2
      <4>2. u.send_waiters = r.send_waiters /\ u.receive_waiters = r.receive_waiters
        BY <4>1 DEF Record
      <4>3. QED
        BY <4>2
    <3>3. CASE r.payloads = <<>>
      <4>1. u = Record(r.payloads, Tail(r.send_waiters), r.receive_waiters, r.closed)
        BY <2>2, <3>3
      <4>2. u.send_waiters = Tail(r.send_waiters) /\ u.receive_waiters = r.receive_waiters
        BY <4>1 DEF Record
      <4>3. QED
        BY <1>4, <3>3, <4>2
    <3>4. QED
      BY <3>1, <3>2, <3>3
  <2>5. QED
    BY <1>2, <2>1, <2>4 DEF Regs
<1>5. QED
  BY <1>3, <1>4

\* submit_send.
LEMMA SubmitSendAccounts ==
  ASSUME KernelInv, AccountInv, NEW e \in Executions, SubmitSend(e)
  PROVE  AccountInv'
<1> DEFINE W == WaitOf(e, 0)  Q == SiteOf(exec, e).queue
<1>1. Submits(e, "send") /\ hostWaits' = hostWaits /\ mishaps' = mishaps
  BY DEF SubmitSend
<1>2. /\ ExecsOK(exec) /\ exec[e].status = "Waiting" /\ SiteOf(exec, e).kind = "send"
      /\ ~exec[e].submitted
  BY <1>1, SubmitsFacts
<1>3. Q \in Queues /\ Outcome(e, exec[e].site, 0)
  BY <1>2, SiteFacts
<1>4. W \in Wait
  BY <1>2, WaitOfOK
<1>5. PICK w, q, r, p, x : /\ w = W /\ q = Q /\ r = queues[q] /\ p = PayloadOf(w)
                           /\ x = commit_operation(exec, w)
  OBVIOUS
<1>6. q \in Queues /\ w \in Wait /\ p \in Payload /\ p = PayloadOf(WaitOf(e, 0))
  BY <1>3, <1>4, <1>5, PayloadType
<1>7. Calls(e, 0, x)
  BY <1>2, <1>3, <1>5 DEF Calls
<1>8. r \in QueueRecord /\ received[q] \in Seq(Payload) /\ order[q] \in Seq(Payload)
  BY <1>5, <1>6, RegsFacts
<1>9. PICK v, O, Z : v = queues' /\ O = order' /\ Z = received'
  OBVIOUS
<1>10. CASE /\ SendBlocks(q, r)
            /\ queues' = [queues EXCEPT ![q] = register_send(r, w)]
            /\ exec' = Submitted(exec, e)
            /\ order' = [order EXCEPT ![q] = Append(@, p)]
            /\ UNCHANGED <<received, scheduler, erred>>
  <2>1. PICK u, n : u = register_send(r, w) /\ n = Append(order[q], p)
    OBVIOUS
  <2>2. OnlyAt(q, v, queues, u) /\ OnlyAt(q, O, order, n)
    BY <1>6, <1>9, <1>10, <2>1, StateFunctions, UpdateOnly
  <2>3. PICK R, P, s, t, b : /\ R = received[q] /\ P = r.payloads /\ s = r.send_waiters
                             /\ t = r.receive_waiters /\ b = r.closed
    OBVIOUS
  <2>4. R \in Seq(Payload) /\ P \in Seq(Payload) /\ s \in Seq(Wait) /\ t \in Seq(Wait) /\ b \in BOOLEAN
    BY <1>8, <2>3, QueueFields
  <2>5. u.payloads = P /\ u.send_waiters = Append(s, w) /\ u.receive_waiters = t
    <3>1. u = Record(P, Append(s, w), t, b)
      BY <1>8, <2>1, <2>3, OtherRecords
    <3>2. QED
      BY <3>1 DEF Record
  <2>6. Regs(u) = Regs(queues[q]) \cup {WaitOf(e, 0)}
    <3>1. Range(Append(s, w)) = Range(s) \cup {w}
      BY <1>6, <2>4, RangeAppend
    <3>2. QED
      BY <1>5, <2>3, <2>5, <3>1 DEF Regs
  <2>7. Ages(exec, exec') /\ Past(exec', e, exec[e].generation)
    BY <1>2, <1>10, SubmittedAges
  <2>8. OnceQ(exec, queues[q], received[q]) /\ New(p, received[q], queues[q].payloads, queues[q].send_waiters)
    BY <1>6, <1>7, CallsFacts
  <2>9. OnceQ(exec', u, received[q])
    <3>1. PICK y : y = exec'
      OBVIOUS
    <3>2. Once(y, R, P, s, t)
      BY <1>5, <2>3, <2>4, <2>7, <2>8, <3>1, OnceAges DEF OnceQ
    <3>3. w.execution = e /\ w.generation = exec[e].generation
      BY <1>5 DEF WaitOf
    <3>4. Past(y, w.execution, w.generation) /\ New(PayloadOf(w), R, P, s)
      BY <1>5, <2>3, <2>7, <2>8, <3>1, <3>3
    <3>5. Once(y, R, P, Append(s, w), t)
      BY <1>6, <2>4, <3>2, <3>4, OnceRegisters
    <3>6. QED
      BY <2>3, <2>5, <3>1, <3>5 DEF OnceQ
  <2>10. ASSUME ~erred PROVE Line(received[q], u.payloads, u.send_waiters) = n
    <3>1. Line(R, P, s) = order[q]
      BY <1>5, <1>6, <2>3, <2>10 DEF AccountInv, Accounts, LineOf
    <3>2. Line(R, P, Append(s, w)) = Append(Line(R, P, s), PayloadOf(w))
      BY <1>6, <2>4, LineGrows
    <3>3. QED
      BY <1>5, <2>1, <2>3, <2>5, <3>1, <3>2
  <2>11. SiteOf(exec, e).kind \in {"send", "receive"} /\ erred' = erred /\ received' = received
    BY <1>2, <1>10
  <2>12. QED
    BY <1>1, <1>2, <1>6, <1>9, <1>10, <2>2, <2>6, <2>9, <2>10, <2>11, DirectParks
<1>12. CASE /\ r.closed
            /\ exec' = x
            /\ Succeed(x, <<e>>)
            /\ UNCHANGED <<queues, ghost>>
  <2>1. UNCHANGED <<queues, order, received>> /\ erred' = erred
    BY <1>12 DEF ghost, Succeed
  <2>2. QED
    BY <1>1, <1>7, <1>12, <2>1, ClosedCall
<1>13. CASE /\ ~r.closed /\ r.receive_waiters = <<>> /\ has_buffer_capacity(q, r)
            /\ queues' = [queues EXCEPT ![q] = send(r, p)]
            /\ exec' = x
            /\ Succeed(x, <<e>>)
            /\ order' = [order EXCEPT ![q] = Append(@, p)]
            /\ UNCHANGED received
  <2>1. PICK u, n : u = send(r, p) /\ n = Append(order[q], p)
    OBVIOUS
  <2>2. OnlyAt(q, v, queues, u) /\ OnlyAt(q, O, order, n)
    BY <1>6, <1>9, <1>13, <2>1, StateFunctions, UpdateOnly
  <2>3. Commits(q, {e}, x, v, received, O, erred)
    BY <1>5, <1>6, <1>7, <1>13, <2>1, <2>2, SendBuffers
  <2>4. erred' = erred
    BY <1>13 DEF Succeed
  <2>5. Commits(q, {e}, x, v, received, O, erred')
    BY <2>3, <2>4
  <2>6. QED
    BY <1>1, <1>9, <1>13, <2>5, CommitsAccount
<1>14. ASSUME ~r.closed /\ r.receive_waiters # <<>>,
              queues' = [queues EXCEPT ![q] = send(r, p)],
              NEW c, c = Head(r.receive_waiters), NEW y, y = commit_operation(x, c),
              \/ /\ ensure_wait(x, c, q, "receive")
                 /\ exec' = y
                 /\ Succeed(y, <<e, c.execution>>)
                 /\ order' = [order EXCEPT ![q] = Append(@, p)]
                 /\ received' = [received EXCEPT ![q] = Append(@, p)]
              \/ /\ ~ensure_wait(x, c, q, "receive")
                 /\ exec' = x
                 /\ Fail
                 /\ UNCHANGED ghost
       PROVE  AccountInv'
  <2>1. PICK u : u = send(r, p)
    OBVIOUS
  <2>2. OnlyAt(q, v, queues, u)
    BY <1>6, <1>9, <1>14, <2>1, StateFunctions, UpdateOnly
  <2>3. CASE /\ ensure_wait(x, c, q, "receive")
             /\ exec' = y
             /\ Succeed(y, <<e, c.execution>>)
             /\ order' = [order EXCEPT ![q] = Append(@, p)]
             /\ received' = [received EXCEPT ![q] = Append(@, p)]
    <3>1. WaitOK(c, q, "receive")
      <4>1. QueueOK(q, r)
        BY <1>5, <1>6, RegsFacts
      <4>2. r.receive_waiters \in Seq(Wait) /\ \A z \in Range(r.receive_waiters) : WaitOK(z, q, "receive")
        BY <1>6, <4>1, QueueOKFields
      <4>3. c \in Range(r.receive_waiters)
        BY <1>14, <4>2, TailFacts
      <4>4. QED
        BY <4>2, <4>3
    <3>2. Owns(x, c, q, "receive")
      BY <2>3, <3>1, EnsureOwns
    <3>3. Matches(x, q, "receive", queues[q].receive_waiters, c, y)
      BY <1>5, <1>14, <3>2 DEF Matches
    <3>4. PICK n, m : n = Append(order[q], p) /\ m = Append(received[q], p)
      OBVIOUS
    <3>5. OnlyAt(q, O, order, n) /\ OnlyAt(q, Z, received, m)
      BY <1>6, <1>9, <2>3, <3>4, StateFunctions, UpdateOnly
    <3>6. Commits(q, {e, c.execution}, y, v, Z, O, erred)
      BY <1>5, <1>6, <1>7, <2>1, <2>2, <3>3, <3>4, <3>5, SendHandsOver
    <3>7. Commits(q, {e, c.execution}, y, v, Z, O, erred')
      BY <2>3, <3>6 DEF Succeed
    <3>8. QED
      BY <1>1, <1>9, <2>3, <3>7, CommitsAccount
  <2>4. CASE exec' = x /\ Fail /\ UNCHANGED ghost
    <3>1. /\ ~IsParked(exec, e) /\ Leaves(exec, x, {e}) /\ Ages(exec, x) /\ Past(x, p[1], p[2])
          /\ OnceQ(exec, queues[q], received[q])
          /\ New(p, received[q], queues[q].payloads, queues[q].send_waiters)
      BY <1>6, <1>7, CallsFacts
    <3>2. \A d \in Queues : OnceQ(x, queues[d], received[d])
      BY <3>1, OnceLater
    <3>3. OnceQ(x, send(r, p), received[q])
      <4>1. OnceQ(x, r, received[q]) /\ New(p, received[q], r.payloads, r.send_waiters)
        BY <1>5, <1>6, <3>1, <3>2
      <4>2. QED
        BY <1>6, <1>8, <3>1, <4>1, SendOnce
    <3>4. Regs(send(r, p)) \subseteq Regs(r)
      BY <1>8, NoNewRegs
    <3>5. \A d \in Queues : OnceQ(x, v[d], received[d]) /\ Regs(v[d]) \subseteq Regs(queues[d])
      BY <1>5, <2>1, <2>2, <3>2, <3>3, <3>4 DEF OnlyAt
    <3>6. received' = received /\ erred'
      BY <2>4 DEF ghost, Fail
    <3>7. QED
      BY <1>1, <1>9, <2>4, <3>1, <3>5, <3>6, CallFails
  <2>5. QED
    BY <1>14, <2>3, <2>4
<1>15. QED
  <2>1. PICK c, y : c = Head(r.receive_waiters) /\ y = commit_operation(x, c)
    OBVIOUS
  <2>2. \/ /\ SendBlocks(q, r)
           /\ queues' = [queues EXCEPT ![q] = register_send(r, w)]
           /\ exec' = Submitted(exec, e)
           /\ order' = [order EXCEPT ![q] = Append(@, p)]
           /\ UNCHANGED <<received, scheduler, erred>>
        \/ /\ r.closed
           /\ exec' = x
           /\ Succeed(x, <<e>>)
           /\ UNCHANGED <<queues, ghost>>
        \/ /\ ~r.closed /\ r.receive_waiters = <<>> /\ has_buffer_capacity(q, r)
           /\ queues' = [queues EXCEPT ![q] = send(r, p)]
           /\ exec' = x
           /\ Succeed(x, <<e>>)
           /\ order' = [order EXCEPT ![q] = Append(@, p)]
           /\ UNCHANGED received
        \/ /\ ~r.closed /\ r.receive_waiters # <<>>
           /\ queues' = [queues EXCEPT ![q] = send(r, p)]
           /\ \/ /\ ensure_wait(x, c, q, "receive")
                 /\ exec' = y
                 /\ Succeed(y, <<e, c.execution>>)
                 /\ order' = [order EXCEPT ![q] = Append(@, p)]
                 /\ received' = [received EXCEPT ![q] = Append(@, p)]
              \/ /\ ~ensure_wait(x, c, q, "receive")
                 /\ exec' = x
                 /\ Fail
                 /\ UNCHANGED ghost
    BY <1>5, <2>1 DEF SubmitSend
  <2>3. QED
    BY <1>10, <1>12, <1>13, <1>14, <2>1, <2>2

\* submit_receive.
LEMMA SubmitReceiveAccounts ==
  ASSUME KernelInv, AccountInv, NEW e \in Executions, SubmitReceive(e)
  PROVE  AccountInv'
<1> DEFINE W == WaitOf(e, 0)  Q == SiteOf(exec, e).queue
<1>1. Submits(e, "receive") /\ hostWaits' = hostWaits /\ mishaps' = mishaps /\ order' = order
  BY DEF SubmitReceive
<1>2. /\ ExecsOK(exec) /\ exec[e].status = "Waiting" /\ SiteOf(exec, e).kind = "receive"
      /\ ~exec[e].submitted
  BY <1>1, SubmitsFacts
<1>3. Q \in Queues /\ Outcome(e, exec[e].site, 0)
  BY <1>2, SiteFacts
<1>4. W \in Wait
  BY <1>2, WaitOfOK
<1>5. PICK w, q, r, x : w = W /\ q = Q /\ r = queues[q] /\ x = commit_operation(exec, w)
  OBVIOUS
<1>6. q \in Queues /\ w \in Wait
  BY <1>3, <1>4, <1>5
<1>7. Calls(e, 0, x)
  BY <1>2, <1>3, <1>5 DEF Calls
<1>8. QueueOK(q, r) /\ r \in QueueRecord /\ received[q] \in Seq(Payload) /\ order[q] \in Seq(Payload)
  BY <1>5, <1>6, RegsFacts
<1>9. PICK v, Z : v = queues' /\ Z = received'
  OBVIOUS
<1>10. CASE /\ ReceiveBlocks(r)
            /\ queues' = [queues EXCEPT ![q] = register_receive(r, w)]
            /\ exec' = Submitted(exec, e)
            /\ UNCHANGED <<received, scheduler, erred>>
  <2>1. PICK u, n : u = register_receive(r, w) /\ n = order[q]
    OBVIOUS
  <2>2. OnlyAt(q, v, queues, u)
    BY <1>6, <1>9, <1>10, <2>1, StateFunctions, UpdateOnly
  <2>3. PICK R, P, s, t, b : /\ R = received[q] /\ P = r.payloads /\ s = r.send_waiters
                             /\ t = r.receive_waiters /\ b = r.closed
    OBVIOUS
  <2>4. R \in Seq(Payload) /\ P \in Seq(Payload) /\ s \in Seq(Wait) /\ t \in Seq(Wait) /\ b \in BOOLEAN
    BY <1>8, <2>3, QueueFields
  <2>5. u.payloads = P /\ u.send_waiters = s /\ u.receive_waiters = Append(t, w)
    <3>1. u = Record(P, s, Append(t, w), b)
      BY <1>8, <2>1, <2>3, OtherRecords
    <3>2. QED
      BY <3>1 DEF Record
  <2>6. Regs(u) = Regs(queues[q]) \cup {WaitOf(e, 0)}
    <3>1. Range(Append(t, w)) = Range(t) \cup {w}
      BY <1>6, <2>4, RangeAppend
    <3>2. QED
      BY <1>5, <2>3, <2>5, <3>1 DEF Regs
  <2>7. Ages(exec, exec') /\ Past(exec', e, exec[e].generation)
    BY <1>2, <1>10, SubmittedAges
  <2>8. WaitOf(e, 0) \notin Regs(queues[q])
    BY <1>1, <1>6, SubmitsAccount
  <2>9. OnceQ(exec', u, received[q])
    <3>1. PICK y : y = exec'
      OBVIOUS
    <3>2. Ages(exec, y)
      BY <2>7, <3>1
    <3>3. OnceQ(y, queues[q], received[q])
      BY <1>6, <3>2, OnceLater
    <3>4. Once(y, R, P, s, t)
      BY <1>5, <2>3, <3>3 DEF OnceQ
    <3>5. w.execution = e /\ w.generation = exec[e].generation
      BY <1>5 DEF WaitOf
    <3>6. Past(y, w.execution, w.generation) /\ w \notin Range(t)
      BY <1>5, <2>3, <2>7, <2>8, <3>1, <3>5 DEF Regs
    <3>7. Once(y, R, P, s, Append(t, w))
      BY <1>6, <2>4, <3>4, <3>6, OnceRegisters
    <3>8. QED
      BY <2>3, <2>5, <3>1, <3>7 DEF OnceQ
  <2>10. ASSUME ~erred PROVE Line(received[q], u.payloads, u.send_waiters) = n
    BY <1>5, <1>6, <2>1, <2>3, <2>5, <2>10 DEF AccountInv, Accounts, LineOf
  <2>11. SiteOf(exec, e).kind \in {"send", "receive"} /\ erred' = erred /\ received' = received
    BY <1>2, <1>10
  <2>12. OnlyAt(q, order, order, n)
    BY <2>1 DEF OnlyAt
  <2>13. QED
    BY <1>1, <1>2, <1>6, <1>9, <1>10, <2>2, <2>6, <2>9, <2>10, <2>11, <2>12, DirectParks
<1>12. CASE /\ exec' = x
            /\ Succeed(x, <<e>>)
            /\ UNCHANGED <<queues, received>>
  <2>1. UNCHANGED <<queues, order, received>> /\ erred' = erred
    BY <1>1, <1>12 DEF Succeed
  <2>2. QED
    BY <1>1, <1>7, <1>12, <2>1, ClosedCall
<1>13. ASSUME r.payloads # <<>> \/ r.send_waiters # <<>>,
              queues' = [queues EXCEPT ![q] = receive(q, r)],
              NEW c, c = Head(r.send_waiters), NEW y, y = commit_operation(x, c),
              \/ /\ ~WakesSender(q, r)
                 /\ exec' = x
                 /\ Succeed(x, <<e>>)
                 /\ received' = [received EXCEPT ![q] = Append(@, TakenPayload(r))]
              \/ /\ WakesSender(q, r) /\ ensure_wait(x, c, q, "send")
                 /\ exec' = y
                 /\ Succeed(y, <<e, c.execution>>)
                 /\ received' = [received EXCEPT ![q] = Append(@, TakenPayload(r))]
              \/ /\ WakesSender(q, r) /\ ~ensure_wait(x, c, q, "send")
                 /\ exec' = x
                 /\ Fail
                 /\ UNCHANGED received
       PROVE  AccountInv'
  <2>1. PICK u, m : u = receive(q, r) /\ m = Append(received[q], TakenPayload(r))
    OBVIOUS
  <2>2. OnlyAt(q, v, queues, u)
    BY <1>6, <1>9, <1>13, <2>1, StateFunctions, UpdateOnly
  <2>3. CASE /\ ~WakesSender(q, r)
             /\ exec' = x
             /\ Succeed(x, <<e>>)
             /\ received' = [received EXCEPT ![q] = Append(@, TakenPayload(r))]
    <3>1. OnlyAt(q, Z, received, m)
      BY <1>6, <1>9, <2>1, <2>3, StateFunctions, UpdateOnly
    <3>2. r.payloads # <<>> /\ ~promotes(q, r)
      BY <2>3 DEF WakesSender
    <3>3. Commits(q, {e}, x, v, Z, order, erred)
      BY <1>5, <1>6, <1>7, <2>1, <2>2, <3>1, <3>2, ReceiveTakes
    <3>4. Commits(q, {e}, x, v, Z, order, erred')
      BY <2>3, <3>3 DEF Succeed
    <3>5. QED
      BY <1>1, <1>9, <2>3, <3>4, CommitsAccount
  <2>4. CASE /\ WakesSender(q, r) /\ ensure_wait(x, c, q, "send")
             /\ exec' = y
             /\ Succeed(y, <<e, c.execution>>)
             /\ received' = [received EXCEPT ![q] = Append(@, TakenPayload(r))]
    <3>1. OnlyAt(q, Z, received, m)
      BY <1>6, <1>9, <2>1, <2>4, StateFunctions, UpdateOnly
    <3>2. WaitOK(c, q, "send") /\ r.send_waiters # <<>>
      BY <1>6, <1>8, <1>13, <2>4, WakesFacts
    <3>3. Owns(x, c, q, "send")
      BY <2>4, <3>2, EnsureOwns
    <3>4. Matches(x, q, "send", queues[q].send_waiters, c, y)
      BY <1>5, <1>13, <3>2, <3>3 DEF Matches
    <3>5. Commits(q, {e, c.execution}, y, v, Z, order, erred)
      BY <1>5, <1>6, <1>7, <2>1, <2>2, <2>4, <3>1, <3>4, ReceivePairs
    <3>6. Commits(q, {e, c.execution}, y, v, Z, order, erred')
      BY <2>4, <3>5 DEF Succeed
    <3>7. QED
      BY <1>1, <1>9, <2>4, <3>6, CommitsAccount
  <2>5. CASE exec' = x /\ Fail /\ UNCHANGED received
    <3>1. ~IsParked(exec, e) /\ Leaves(exec, x, {e}) /\ Ages(exec, x)
      BY <1>6, <1>7, CallsFacts
    <3>2. \A d \in Queues : OnceQ(x, queues[d], received[d])
      BY <3>1, OnceLater
    <3>3. OnceQ(x, receive(q, r), received[q])
      <4>1. OnceQ(x, r, received[q])
        BY <1>5, <1>6, <3>2
      <4>2. QED
        BY <1>6, <1>8, <1>13, <4>1, ReceiveOnce
    <3>4. Regs(receive(q, r)) \subseteq Regs(r)
      BY <1>8, <1>13, NoNewRegs
    <3>5. \A d \in Queues : OnceQ(x, v[d], received[d]) /\ Regs(v[d]) \subseteq Regs(queues[d])
      BY <1>5, <2>1, <2>2, <3>2, <3>3, <3>4 DEF OnlyAt
    <3>6. received' = received /\ erred'
      BY <2>5 DEF Fail
    <3>7. QED
      BY <1>1, <1>9, <2>5, <3>1, <3>5, <3>6, CallFails
  <2>6. QED
    BY <1>13, <2>3, <2>4, <2>5
<1>14. QED
  <2>1. PICK c, y : c = Head(r.send_waiters) /\ y = commit_operation(x, c)
    OBVIOUS
  <2>2. \/ /\ ReceiveBlocks(r)
           /\ queues' = [queues EXCEPT ![q] = register_receive(r, w)]
           /\ exec' = Submitted(exec, e)
           /\ UNCHANGED <<received, scheduler, erred>>
        \/ /\ exec' = x
           /\ Succeed(x, <<e>>)
           /\ UNCHANGED <<queues, received>>
        \/ /\ r.payloads # <<>> \/ r.send_waiters # <<>>
           /\ queues' = [queues EXCEPT ![q] = receive(q, r)]
           /\ \/ /\ ~WakesSender(q, r)
                 /\ exec' = x
                 /\ Succeed(x, <<e>>)
                 /\ received' = [received EXCEPT ![q] = Append(@, TakenPayload(r))]
              \/ /\ WakesSender(q, r) /\ ensure_wait(x, c, q, "send")
                 /\ exec' = y
                 /\ Succeed(y, <<e, c.execution>>)
                 /\ received' = [received EXCEPT ![q] = Append(@, TakenPayload(r))]
              \/ /\ WakesSender(q, r) /\ ~ensure_wait(x, c, q, "send")
                 /\ exec' = x
                 /\ Fail
                 /\ UNCHANGED received
    BY <1>5, <2>1 DEF SubmitReceive
  <2>3. QED
    BY <1>10, <1>12, <1>13, <2>1, <2>2

\* The head of a concatenation that is not in the second part.
Leads(T, a, b, c, W) ==
  /\ a \in Seq(T) /\ b \in Seq(T) /\ c = a \o b
  /\ Range(b) \subseteq W /\ c # <<>> /\ Head(c) \notin W

\* Such a head is that of the first part.
LEMMA HeadConcat ==
  ASSUME NEW T, NEW a, NEW b, NEW c, NEW W, Leads(T, a, b, c, W)
  PROVE  a # <<>> /\ Head(c) = Head(a) /\ Tail(c) = Tail(a) \o b
<1>0. /\ a \in Seq(T) /\ b \in Seq(T) /\ c = a \o b
      /\ Range(b) \subseteq W /\ c # <<>> /\ Head(c) \notin W
  BY DEF Leads
<1>1. a # <<>>
  <2>1. SUFFICES ASSUME a = <<>> PROVE FALSE
    OBVIOUS
  <2>2. c = b
    BY <1>0, <2>1
  <2>3. Head(b) \in Range(b)
    BY <1>0, <2>2, TailFacts
  <2>4. QED
    BY <1>0, <2>2, <2>3
<1>2. Head(c) = Head(a)
  BY <1>0, <1>1
<1>3. Tail(c) = Tail(a) \o b
  <2>1. Tail(a) \in Seq(T) /\ Len(Tail(a)) = Len(a) - 1 /\ Len(a) # 0
        /\ \A i \in 1..(Len(a) - 1) : Tail(a)[i] = a[i + 1]
    BY <1>0, <1>1, TailAt
  <2>2. PICK d, f : d = Tail(c) /\ f = Tail(a) \o b
    OBVIOUS
  <2>3. /\ c \in Seq(T) /\ Len(c) = Len(a) + Len(b)
        /\ \A i \in 1..(Len(a) + Len(b)) : c[i] = IF i <= Len(a) THEN a[i] ELSE b[i - Len(a)]
    BY <1>0, ConcatAt
  <2>4. /\ d \in Seq(T) /\ Len(d) = Len(c) - 1
        /\ \A i \in 1..(Len(c) - 1) : d[i] = c[i + 1]
    BY <1>0, <2>2, <2>3, TailAt
  <2>5. PICK g : g = Tail(a)
    OBVIOUS
  <2>6. /\ f \in Seq(T) /\ Len(f) = Len(g) + Len(b)
        /\ \A i \in 1..(Len(g) + Len(b)) : f[i] = IF i <= Len(g) THEN g[i] ELSE b[i - Len(g)]
    BY <1>0, <2>1, <2>2, <2>5, ConcatAt
  <2>7. Len(d) = Len(f)
    BY <1>0, <2>1, <2>3, <2>4, <2>5, <2>6
  <2>8. ASSUME NEW i \in 1..Len(d) PROVE d[i] = f[i]
    <3>1. Len(a) \in Nat /\ Len(b) \in Nat
      BY <1>0
    <3>2. d[i] = c[i + 1]
      BY <2>4, <2>8
    <3>3. CASE i + 1 <= Len(a)
      <4>1. c[i + 1] = a[i + 1]
        BY <2>3, <2>4, <2>8, <3>1, <3>3
      <4>2. f[i] = g[i] /\ g[i] = a[i + 1]
        BY <2>1, <2>3, <2>4, <2>5, <2>6, <2>8, <3>1, <3>3
      <4>3. QED
        BY <3>2, <4>1, <4>2
    <3>4. CASE ~(i + 1 <= Len(a))
      <4>1. c[i + 1] = b[(i + 1) - Len(a)]
        BY <2>3, <2>4, <2>8, <3>1, <3>4
      <4>2. f[i] = b[i - Len(g)]
        BY <2>1, <2>3, <2>4, <2>5, <2>6, <2>8, <3>1, <3>4
      <4>3. (i + 1) - Len(a) = i - Len(g)
        BY <2>1, <2>5, <2>8, <3>1
      <4>4. QED
        BY <3>2, <4>1, <4>2, <4>3
    <3>5. QED
      BY <3>3, <3>4
  <2>9. d = f
    BY <2>4, <2>6, <2>7, <2>8, SeqEqual
  <2>10. QED
    BY <2>2, <2>9
<1>4. QED
  BY <1>1, <1>2, <1>3

\* The queue r is the queue b with the waits A and B, of the set W, behind its own.
Extended(b, r, A, B, W) ==
  /\ b \in QueueRecord /\ A \in Seq(Wait) /\ B \in Seq(Wait)
  /\ r = Record(b.payloads, b.send_waiters \o A, b.receive_waiters \o B, b.closed)
  /\ Range(A) \subseteq W /\ Range(B) \subseteq W /\ Regs(b) \cap W = {}

\* The fields of the extended queue.
LEMMA ExtendedFacts ==
  ASSUME NEW b, NEW r, NEW A, NEW B, NEW W, Extended(b, r, A, B, W)
  PROVE  /\ r \in QueueRecord /\ r.payloads = b.payloads /\ r.closed = b.closed
         /\ r.send_waiters = b.send_waiters \o A /\ r.receive_waiters = b.receive_waiters \o B
         /\ \A q : has_buffer_capacity(q, r) <=> has_buffer_capacity(q, b)
         /\ Range(b.send_waiters) \cap W = {} /\ Range(b.receive_waiters) \cap W = {}
<1>1. /\ b.payloads \in Seq(Payload) /\ b.send_waiters \in Seq(Wait)
      /\ b.receive_waiters \in Seq(Wait) /\ b.closed \in BOOLEAN
  BY QueueFields DEF Extended
<1>2. PICK s, t : s = b.send_waiters \o A /\ t = b.receive_waiters \o B
  OBVIOUS
<1>3. s \in Seq(Wait) /\ t \in Seq(Wait)
  BY <1>1, <1>2 DEF Extended
<1>4. r = Record(b.payloads, s, t, b.closed)
  BY <1>2 DEF Extended
<1>5. r \in QueueRecord
  BY <1>1, <1>3, <1>4 DEF Record, QueueRecord
<1>6. r.payloads = b.payloads /\ r.closed = b.closed /\ r.send_waiters = s /\ r.receive_waiters = t
  BY <1>4 DEF Record
<1>7. QED
  BY <1>2, <1>5, <1>6 DEF has_buffer_capacity, Extended, Regs

\* What cancel makes of a queue whose lists end in waits of W.
Trails(P, s, t, o, A, B, W) ==
  /\ P \in Seq(Payload) /\ s \in Seq(Wait) /\ t \in Seq(Wait) /\ o \in BOOLEAN
  /\ A \in Seq(Wait) /\ B \in Seq(Wait) /\ Range(A) \subseteq W /\ Range(B) \subseteq W
  /\ Range(s) \cap W = {} /\ Range(t) \cap W = {}

\* These waits are cancelled, and no others.
LEMMA CancelExtended ==
  ASSUME NEW P, NEW s, NEW t, NEW o, NEW A, NEW B, NEW W, Trails(P, s, t, o, A, B, W),
         NEW u, u = Record(P, s \o A, t \o B, o)
  PROVE  cancel(u, W) = Record(P, s, t, o)
<1>0. /\ P \in Seq(Payload) /\ s \in Seq(Wait) /\ t \in Seq(Wait) /\ o \in BOOLEAN
      /\ A \in Seq(Wait) /\ B \in Seq(Wait) /\ Range(A) \subseteq W /\ Range(B) \subseteq W
      /\ Range(s) \cap W = {} /\ Range(t) \cap W = {}
  BY DEF Trails
<1>1. PICK s2, t2 : s2 = s \o A /\ t2 = t \o B
  OBVIOUS
<1>2. s2 \in Seq(Wait) /\ t2 \in Seq(Wait) /\ u = Record(P, s2, t2, o)
  BY <1>0, <1>1
<1>3. /\ u \in QueueRecord /\ u.payloads = P /\ u.send_waiters = s2 /\ u.receive_waiters = t2
      /\ u.closed = o
  <2>1. P \in Seq(Payload) /\ o \in BOOLEAN
    BY <1>0
  <2>2. PICK z : z = Record(P, s2, t2, o)
    OBVIOUS
  <2>3. z \in QueueRecord
    BY <1>2, <2>1, <2>2, RecordFields
  <2>4. u.payloads = P /\ u.send_waiters = s2 /\ u.receive_waiters = t2 /\ u.closed = o
    BY <1>2 DEF Record
  <2>5. QED
    BY <1>2, <2>2, <2>3, <2>4
<1>4. Without(s2, W) = s /\ Without(t2, W) = t
  BY <1>0, <1>1, WithoutJoins, ZenonT(30)
<1>5. cancel(u, W) = Record(u.payloads, Without(u.send_waiters, W), Without(u.receive_waiters, W), u.closed)
  BY <1>3, OtherRecords
<1>6. QED
  BY <1>3, <1>4, <1>5

\* Registering and cancelling restores the queue.
LEMMA Restored ==
  ASSUME NEW b, NEW r, NEW A, NEW B, NEW W, Extended(b, r, A, B, W)
  PROVE  cancel(r, W) = b
<1>1. /\ b.payloads \in Seq(Payload) /\ b.send_waiters \in Seq(Wait)
      /\ b.receive_waiters \in Seq(Wait) /\ b.closed \in BOOLEAN
      /\ b = Record(b.payloads, b.send_waiters, b.receive_waiters, b.closed)
  BY QueueFields DEF Extended
<1>2. Range(b.send_waiters) \cap W = {} /\ Range(b.receive_waiters) \cap W = {}
  BY ExtendedFacts
<1>3. /\ A \in Seq(Wait) /\ B \in Seq(Wait) /\ Range(A) \subseteq W /\ Range(B) \subseteq W
      /\ r = Record(b.payloads, b.send_waiters \o A, b.receive_waiters \o B, b.closed)
  BY DEF Extended
<1>4. PICK P, s, t, o : P = b.payloads /\ s = b.send_waiters /\ t = b.receive_waiters /\ o = b.closed
  OBVIOUS
<1>5. cancel(r, W) = Record(P, s, t, o)
  <2>1. Trails(P, s, t, o, A, B, W) /\ r = Record(P, s \o A, t \o B, o)
    BY <1>1, <1>2, <1>3, <1>4 DEF Trails
  <2>2. QED
    BY <2>1, CancelExtended
<1>6. QED
  BY <1>1, <1>4, <1>5

\* A concatenation is empty when both parts are.
LEMMA EmptyConcat ==
  ASSUME NEW T, NEW a \in Seq(T), NEW b \in Seq(T), a \o b = <<>>
  PROVE  a = <<>> /\ b = <<>>
<1>1. Len(a \o b) = Len(a) + Len(b) /\ Len(a \o b) = 0
  OBVIOUS
<1>2. Len(a) = 0 /\ Len(b) = 0
  BY <1>1
<1>3. QED
  BY <1>2

\* A send that does not reach the caller's own arms is one on the queue itself.
LEMMA SendExtended ==
  ASSUME NEW b, NEW r, NEW A, NEW B, NEW W, Extended(b, r, A, B, W), NEW p \in Payload,
         r.receive_waiters # <<>> => Head(r.receive_waiters) \notin W
  PROVE  /\ cancel(send(r, p), W) = send(b, p)
         /\ (r.receive_waiters = <<>>) <=> (b.receive_waiters = <<>>)
         /\ r.receive_waiters # <<>> => Head(r.receive_waiters) = Head(b.receive_waiters)
<1>1. PICK P, s, t, o, t2 : /\ P = b.payloads /\ s = b.send_waiters /\ t = b.receive_waiters
                            /\ o = b.closed /\ t2 = r.receive_waiters
  OBVIOUS
<1>2. P \in Seq(Payload) /\ s \in Seq(Wait) /\ t \in Seq(Wait) /\ o \in BOOLEAN /\ b \in QueueRecord
  BY <1>1, QueueFields DEF Extended
<1>3. /\ r \in QueueRecord /\ r.payloads = P /\ r.closed = o
      /\ r.send_waiters = s \o A /\ t2 = t \o B
      /\ Range(s) \cap W = {} /\ Range(t) \cap W = {}
  BY <1>1, ExtendedFacts
<1>4. A \in Seq(Wait) /\ B \in Seq(Wait) /\ Range(A) \subseteq W /\ Range(B) \subseteq W
  BY DEF Extended
<1>5. CASE t2 = <<>>
  <2>1. t = <<>> /\ B = <<>>
    BY <1>2, <1>3, <1>4, <1>5, EmptyConcat
  <2>2. PICK u : u = send(r, p)
    OBVIOUS
  <2>3. u = Record(Append(P, p), s \o A, t \o B, o)
    <3>1. r.receive_waiters = <<>> =>
            send(r, p) = Record(Append(r.payloads, p), r.send_waiters, r.receive_waiters, r.closed)
      BY <1>3, SendRecord
    <3>2. QED
      BY <1>1, <1>3, <1>5, <2>2, <3>1
  <2>4. PICK P2 : P2 = Append(P, p)
    OBVIOUS
  <2>5. P2 \in Seq(Payload) /\ u = Record(P2, s \o A, t \o B, o)
    BY <1>2, <2>3, <2>4
  <2>6. cancel(u, W) = Record(P2, s, t, o)
    <3>1. Trails(P2, s, t, o, A, B, W)
      BY <1>2, <1>3, <1>4, <2>5 DEF Trails
    <3>2. QED
      BY <2>5, <3>1, CancelExtended
  <2>7. send(b, p) = Record(P2, s, t, o)
    <3>1. b.receive_waiters = <<>> =>
            send(b, p) = Record(Append(b.payloads, p), b.send_waiters, b.receive_waiters, b.closed)
      BY <1>2, SendRecord
    <3>2. QED
      BY <1>1, <2>1, <2>4, <3>1
  <2>8. QED
    BY <1>1, <1>5, <2>1, <2>2, <2>6, <2>7
<1>6. CASE t2 # <<>>
  <2>1. t # <<>> /\ Head(t2) = Head(t) /\ Tail(t2) = Tail(t) \o B
    <3>1. Leads(Wait, t, B, t2, W)
      BY <1>1, <1>2, <1>3, <1>4, <1>6 DEF Leads
    <3>2. QED
      BY <3>1, HeadConcat
  <2>2. Tail(t) \in Seq(Wait) /\ Range(Tail(t)) \subseteq Range(t)
    BY <1>2, <2>1, TailFacts
  <2>3. PICK u, t3 : u = send(r, p) /\ t3 = Tail(t)
    OBVIOUS
  <2>4. u = Record(P, s \o A, t3 \o B, o)
    <3>1. r.receive_waiters # <<>> =>
            send(r, p) = Record(r.payloads, r.send_waiters, Tail(r.receive_waiters), r.closed)
      BY <1>3, SendRecord
    <3>2. QED
      BY <1>1, <1>3, <1>6, <2>1, <2>3, <3>1
  <2>5. t3 \in Seq(Wait) /\ Range(t3) \cap W = {}
    BY <1>3, <2>2, <2>3
  <2>6. cancel(u, W) = Record(P, s, t3, o)
    <3>1. Trails(P, s, t3, o, A, B, W)
      BY <1>2, <1>3, <1>4, <2>5 DEF Trails
    <3>2. QED
      BY <2>4, <3>1, CancelExtended
  <2>7. send(b, p) = Record(P, s, t3, o)
    <3>1. b.receive_waiters # <<>> =>
            send(b, p) = Record(b.payloads, b.send_waiters, Tail(b.receive_waiters), b.closed)
      BY <1>2, SendRecord
    <3>2. QED
      BY <1>1, <2>1, <2>3, <3>1
  <2>8. QED
    BY <1>1, <1>6, <2>1, <2>3, <2>6, <2>7
<1>7. QED
  BY <1>5, <1>6

\* A receive that does not wake an arm of the caller is one on the queue itself.
LEMMA ReceiveExtended ==
  ASSUME NEW q, NEW b, NEW r, NEW A, NEW B, NEW W, Extended(b, r, A, B, W),
         r.payloads # <<>> \/ r.send_waiters # <<>>,
         WakesSender(q, r) => Head(r.send_waiters) \notin W
  PROVE  /\ cancel(receive(q, r), W) = receive(q, b)
         /\ WakesSender(q, r) <=> WakesSender(q, b)
         /\ TakenPayload(r) = TakenPayload(b)
         /\ WakesSender(q, r) => b.send_waiters # <<>> /\ Head(r.send_waiters) = Head(b.send_waiters)
<1>1. PICK P, s, t, o, s2 : /\ P = b.payloads /\ s = b.send_waiters /\ t = b.receive_waiters
                            /\ o = b.closed /\ s2 = r.send_waiters
  OBVIOUS
<1>2. P \in Seq(Payload) /\ s \in Seq(Wait) /\ t \in Seq(Wait) /\ o \in BOOLEAN /\ b \in QueueRecord
  BY <1>1, QueueFields DEF Extended
<1>3. /\ r \in QueueRecord /\ r.payloads = P /\ r.closed = o
      /\ s2 = s \o A /\ r.receive_waiters = t \o B
      /\ Range(s) \cap W = {} /\ Range(t) \cap W = {}
  BY <1>1, ExtendedFacts
<1>4. A \in Seq(Wait) /\ B \in Seq(Wait) /\ Range(A) \subseteq W /\ Range(B) \subseteq W
  BY DEF Extended
<1>5. (promotes(q, r) => s2 # <<>>) /\ (promotes(q, b) => s # <<>>)
  BY <1>1 DEF promotes
<1>6. (s # <<>> /\ s2 # <<>>) => (promotes(q, r) <=> promotes(q, b))
  <2>1. PICK rt, bt : rt = [r EXCEPT !.payloads = Tail(@)] /\ bt = [b EXCEPT !.payloads = Tail(@)]
    OBVIOUS
  <2>2. rt.payloads = Tail(P) /\ bt.payloads = Tail(P)
    <3>1. b = Record(b.payloads, b.send_waiters, b.receive_waiters, b.closed)
          /\ r = Record(r.payloads, r.send_waiters, r.receive_waiters, r.closed)
      BY <1>2, <1>3, QueueFields
    <3>2. QED
      BY <1>1, <1>3, <2>1, <3>1 DEF Record
  <2>3. has_buffer_capacity(q, rt) <=> has_buffer_capacity(q, bt)
    BY <2>2 DEF has_buffer_capacity
  <2>4. QED
    BY <1>1, <2>1, <2>3 DEF promotes
<1>7. s2 = <<>> => s = <<>>
  BY <1>2, <1>3, <1>4, EmptyConcat
<1>8. CASE ~WakesSender(q, r)
  <2>1. P # <<>> /\ ~promotes(q, r)
    BY <1>3, <1>8 DEF WakesSender
  <2>2. ~promotes(q, b)
    BY <1>5, <1>6, <1>7, <2>1
  <2>3. PICK u, P2 : u = receive(q, r) /\ P2 = Tail(P)
    OBVIOUS
  <2>4. u = Record(P2, s \o A, t \o B, o)
    <3>1. (r.payloads # <<>> /\ ~promotes(q, r)) =>
            receive(q, r) = Record(Tail(r.payloads), r.send_waiters, r.receive_waiters, r.closed)
      BY <1>3, ReceiveRecord
    <3>2. QED
      BY <1>1, <1>3, <2>1, <2>3, <3>1
  <2>5. P2 \in Seq(Payload)
    BY <1>2, <2>1, <2>3, TailFacts
  <2>6. cancel(u, W) = Record(P2, s, t, o)
    <3>1. Trails(P2, s, t, o, A, B, W)
      BY <1>2, <1>3, <1>4, <2>5 DEF Trails
    <3>2. QED
      BY <2>4, <3>1, CancelExtended
  <2>7. receive(q, b) = Record(P2, s, t, o)
    <3>1. (b.payloads # <<>> /\ ~promotes(q, b)) =>
            receive(q, b) = Record(Tail(b.payloads), b.send_waiters, b.receive_waiters, b.closed)
      BY <1>2, ReceiveRecord
    <3>2. QED
      BY <1>1, <2>1, <2>2, <2>3, <3>1
  <2>8. cancel(receive(q, r), W) = receive(q, b)
    BY <2>3, <2>6, <2>7
  <2>9. ~WakesSender(q, b) /\ TakenPayload(r) = TakenPayload(b)
    BY <1>1, <1>3, <2>1, <2>2 DEF WakesSender, TakenPayload
  <2>10. QED
    BY <1>8, <2>8, <2>9
<1>9. CASE WakesSender(q, r)
  <2>1. s2 # <<>> /\ (P # <<>> => promotes(q, r))
    BY <1>1, <1>3, <1>5, <1>9 DEF WakesSender
  <2>2. s # <<>> /\ Head(s2) = Head(s) /\ Tail(s2) = Tail(s) \o A
    <3>1. Leads(Wait, s, A, s2, W)
      BY <1>1, <1>2, <1>3, <1>4, <1>9, <2>1 DEF Leads
    <3>2. QED
      BY <3>1, HeadConcat
  <2>3. PICK u, s3, w : u = receive(q, r) /\ s3 = Tail(s) /\ w = PayloadOf(Head(s))
    OBVIOUS
  <2>4. s3 \in Seq(Wait) /\ Range(s3) \subseteq Range(s) /\ w \in Payload
    BY <1>2, <2>2, <2>3, TailFacts, PayloadType
  <2>5. PICK P2 : P2 = IF P # <<>> THEN Append(Tail(P), w) ELSE P
    OBVIOUS
  <2>6. P2 \in Seq(Payload)
    <3>1. P # <<>> => Tail(P) \in Seq(Payload)
      BY <1>2, TailFacts
    <3>2. QED
      BY <1>2, <2>4, <2>5, <3>1
  <2>7. u = Record(P2, s3 \o A, t \o B, o)
    <3>1. /\ (r.payloads # <<>> /\ promotes(q, r)) =>
               receive(q, r) = Record(Append(Tail(r.payloads), PayloadOf(Head(r.send_waiters))),
                                      Tail(r.send_waiters), r.receive_waiters, r.closed)
          /\ r.payloads = <<>> =>
               receive(q, r) = Record(r.payloads, Tail(r.send_waiters), r.receive_waiters, r.closed)
      BY <1>3, ReceiveRecord
    <3>2. CASE P # <<>>
      BY <1>1, <1>3, <2>1, <2>2, <2>3, <2>5, <3>1, <3>2
    <3>3. CASE P = <<>>
      BY <1>1, <1>3, <2>1, <2>2, <2>3, <2>5, <3>1, <3>3
    <3>4. QED
      BY <3>2, <3>3
  <2>8. Range(s3) \cap W = {}
    BY <1>3, <2>4
  <2>9. cancel(u, W) = Record(P2, s3, t, o)
    <3>1. Trails(P2, s3, t, o, A, B, W)
      BY <1>2, <1>3, <1>4, <2>4, <2>6, <2>8 DEF Trails
    <3>2. QED
      BY <2>7, <3>1, CancelExtended
  <2>10. P # <<>> => promotes(q, b)
    BY <1>6, <2>1, <2>2
  <2>11. receive(q, b) = Record(P2, s3, t, o)
    <3>1. /\ (b.payloads # <<>> /\ promotes(q, b)) =>
               receive(q, b) = Record(Append(Tail(b.payloads), PayloadOf(Head(b.send_waiters))),
                                      Tail(b.send_waiters), b.receive_waiters, b.closed)
          /\ b.payloads = <<>> =>
               receive(q, b) = Record(b.payloads, Tail(b.send_waiters), b.receive_waiters, b.closed)
      BY <1>2, ReceiveRecord
    <3>2. CASE P # <<>>
      BY <1>1, <2>3, <2>5, <2>10, <3>1, <3>2
    <3>3. CASE P = <<>>
      BY <1>1, <2>3, <2>5, <3>1, <3>3
    <3>4. QED
      BY <3>2, <3>3
  <2>12. cancel(receive(q, r), W) = receive(q, b)
    BY <2>3, <2>9, <2>11
  <2>13. WakesSender(q, b) /\ TakenPayload(r) = TakenPayload(b)
    BY <1>1, <1>3, <2>2, <2>10 DEF WakesSender, TakenPayload
  <2>14. QED
    BY <1>1, <1>9, <2>2, <2>12, <2>13
<1>10. QED
  BY <1>8, <1>9

\* The queues with the first n arms of e registered.
LEMMA RegisteredExtends ==
  ASSUME KernelInv, AccountInv, NEW e \in Executions, Submits(e, "select"), NEW n \in Nat,
         NEW W, W = {WaitOf(e, i) : i \in 1..n}, NEW p \in Queues
  PROVE  Extended(queues[p], Registered(e, n)[p], ArmWaits(e, n, p, "send"), ArmWaits(e, n, p, "receive"), W)
<1>1. ExecsOK(exec) /\ exec[e].status = "Waiting"
  BY SubmitsFacts
<1>2. queues[p] \in QueueRecord
  BY RegsFacts
<1>3. PICK A, B : A = ArmWaits(e, n, p, "send") /\ B = ArmWaits(e, n, p, "receive")
  OBVIOUS
<1>4. A \in Seq(Wait) /\ Range(A) \subseteq W
  <2>1. /\ A \in Seq(Wait)
        /\ Range(A) = {WaitOf(e, i) : i \in {j \in 1..n : ArmsOf(e)[j] = [direction |-> "send", queue |-> p]}}
    BY <1>1, <1>3, ArmWaitsFacts
  <2>2. QED
    BY <2>1
<1>5. B \in Seq(Wait) /\ Range(B) \subseteq W
  <2>1. /\ B \in Seq(Wait)
        /\ Range(B) = {WaitOf(e, i) : i \in {j \in 1..n : ArmsOf(e)[j] = [direction |-> "receive", queue |-> p]}}
    BY <1>1, <1>3, ArmWaitsFacts
  <2>2. QED
    BY <2>1
<1>6. Registered(e, n)[p] = Record(queues[p].payloads, queues[p].send_waiters \o A,
                                   queues[p].receive_waiters \o B, queues[p].closed)
  BY <1>1, <1>2, <1>3, RegisteredStep, ZenonT(30)
<1>7. Regs(queues[p]) \cap W = {}
  <2>1. \A a : WaitOf(e, a) \notin Regs(queues[p])
    BY SubmitsAccount
  <2>2. QED
    BY <2>1
<1>8. QED
  BY <1>2, <1>3, <1>4, <1>5, <1>6, <1>7 DEF Extended

\* What Unregister leaves of the queues once queue q is u.
LEMMA UnregisterOnly ==
  ASSUME KernelInv, AccountInv, NEW e \in Executions, Submits(e, "select"), NEW k \in Nat \ {0},
         NEW q \in Queues, NEW R, R = Registered(e, k - 1), NEW u, NEW S,
         \/ S = [R EXCEPT ![q] = u]
         \/ S = R /\ u = R[q],
         NEW W, W = {WaitOf(e, i) : i \in 1..(k - 1)}, NEW v, v = Unregister(S, e, k)
  PROVE  OnlyAt(q, v, queues, cancel(u, W))
<1>1. \A p \in Queues : v[p] = cancel(S[p], W)
  BY DEF Unregister
<1>2. DOMAIN R = Queues
  BY DEF Registered
<1>3. \A p \in Queues : S[p] = IF p = q THEN u ELSE R[p]
  BY <1>2
<1>4. ASSUME NEW p \in Queues PROVE cancel(R[p], W) = queues[p]
  <2>1. PICK n : n = k - 1 /\ n \in Nat
    OBVIOUS
  <2>2. Extended(queues[p], Registered(e, n)[p], ArmWaits(e, n, p, "send"), ArmWaits(e, n, p, "receive"), W)
    BY <2>1, RegisteredExtends
  <2>3. QED
    BY <2>1, <2>2, Restored
<1>5. QED
  BY <1>1, <1>3, <1>4 DEF OnlyAt

\* The select call that commits its arm k.
LEMMA SelectCalls ==
  ASSUME KernelInv, NEW e \in Executions, Submits(e, "select"), NEW k \in DOMAIN ArmsOf(e),
         NEW x, x = commit_operation(exec, WaitOf(e, k))
  PROVE  Calls(e, k, x)
<1>1. exec[e].status = "Waiting" /\ SiteOf(exec, e).kind = "select" /\ ~exec[e].submitted
  BY SubmitsFacts
<1>2. k \in Nat /\ Outcome(e, exec[e].site, k)
  BY SelectFacts
<1>3. QED
  BY <1>1, <1>2 DEF Calls

\* The counterpart of a select is not one of its own arms.
LEMMA OwnArmsNeverMatch ==
  ASSUME KernelInv, AccountInv, NEW e, NEW a, NEW x, Calls(e, a, x), NEW c, NEW q, NEW d, Owns(x, c, q, d),
         NEW W, \A w \in W : w.execution = e
  PROVE  c \notin W
<1>1. x[e].status # "Waiting"
  <2>2. ExecsOK(exec)
    BY DEF KernelInv
  <2>3. /\ e \in Executions /\ exec[e].status = "Waiting"
        /\ SiteOf(exec, e).kind \in {"send", "receive", "select"}
        /\ a \in Nat /\ Outcome(e, exec[e].site, a)
        /\ x = commit_operation(exec, WaitOf(e, a))
    BY DEF Calls
  <2>4. Leaves(exec, x, {e})
    BY <2>2, <2>3, CommitOne
  <2>5. QED
    BY <2>4 DEF Leaves
<1>2. x[c.execution].status = "Waiting"
  BY DEF Owns, ensure_wait, ensure_select_wait, WaitsOn
<1>3. QED
  BY <1>1, <1>2

\* What is known at arm k of a select: its queue as it is (b) and with the arms
\* before k registered (r).
SelectAt(e, k, q, r, x, W) ==
  /\ e \in Executions /\ k \in Nat \ {0} /\ q \in Queues /\ Calls(e, k, x) /\ Submits(e, "select")
  /\ W = {WaitOf(e, i) : i \in 1..(k - 1)} /\ r = Registered(e, k - 1)[q]

\* The queue of arm k is extended by the arms before it, and Unregister takes them out.
LEMMA SelectAtFacts ==
  ASSUME KernelInv, AccountInv, NEW e, NEW k, NEW q, NEW r, NEW x, NEW W, SelectAt(e, k, q, r, x, W)
  PROVE  /\ \E A, B : Extended(queues[q], r, A, B, W)
         /\ \A w \in W : w.execution = e
         /\ \A u, v : v = Unregister([Registered(e, k - 1) EXCEPT ![q] = u], e, k)
                        => OnlyAt(q, v, queues, cancel(u, W))
         /\ OnceQ(x, r, received[q]) /\ r \in QueueRecord
<1>1. /\ e \in Executions /\ k \in Nat \ {0} /\ q \in Queues /\ Calls(e, k, x) /\ Submits(e, "select")
      /\ W = {WaitOf(e, i) : i \in 1..(k - 1)} /\ r = Registered(e, k - 1)[q]
  BY DEF SelectAt
<1>2. PICK n : n = k - 1 /\ n \in Nat
  BY <1>1
<1>3. Extended(queues[q], Registered(e, n)[q], ArmWaits(e, n, q, "send"), ArmWaits(e, n, q, "receive"), W)
  BY <1>1, <1>2, RegisteredExtends
<1>4. \E A, B : Extended(queues[q], r, A, B, W)
  BY <1>1, <1>2, <1>3
<1>5. \A w \in W : w.execution = e
  BY <1>1 DEF WaitOf
<1>6. ASSUME NEW u, NEW v, v = Unregister([Registered(e, k - 1) EXCEPT ![q] = u], e, k)
      PROVE  OnlyAt(q, v, queues, cancel(u, W))
  <2>1. PICK R, S : R = Registered(e, k - 1) /\ S = [R EXCEPT ![q] = u]
    OBVIOUS
  <2>2. v = Unregister(S, e, k)
    BY <1>6, <2>1
  <2>3. QED
    BY <1>1, <2>1, <2>2, UnregisterOnly
<1>7. OnceQ(x, r, received[q])
  <2>1. Ages(exec, x) /\ Leaves(exec, x, {e}) /\ OnceQ(exec, queues[q], received[q])
    BY <1>1, CallsFacts
  <2>2. ExecsOK(exec) /\ exec[e].status = "Waiting" /\ ~exec[e].submitted
    BY <1>1, SubmitsFacts
  <2>3. Past(x, e, exec[e].generation)
    <3>1. PICK C : C = {e}
      OBVIOUS
    <3>2. Leaves(exec, x, C) /\ e \in C
      BY <2>1, <3>1
    <3>3. QED
      BY <2>2, <3>2, CommittedPast
  <2>4. queues[q] \in QueueRecord /\ received[q] \in Seq(Payload)
    BY <1>1, RegsFacts
  <2>5. OnceQ(x, Registered(e, n)[q], received[q])
    BY <1>1, <1>2, <2>1, <2>2, <2>3, <2>4, RegisteredOnce
  <2>6. QED
    BY <1>1, <1>2, <2>5
<1>8. r \in QueueRecord
  BY <1>4, ExtendedFacts
<1>9. QED
  BY <1>4, <1>5, <1>6, <1>7, <1>8

\* A select call that fails: its arms are gone from the queues.
LEMMA SelectFails ==
  ASSUME KernelInv, AccountInv, NEW e, NEW k, NEW q, NEW r, NEW x, NEW W, SelectAt(e, k, q, r, x, W),
         NEW u \in QueueRecord, OnceQ(x, u, received[q]), Regs(u) \subseteq Regs(r),
         queues' = Unregister([Registered(e, k - 1) EXCEPT ![q] = u], e, k),
         exec' = x, erred', hostWaits' = hostWaits /\ mishaps' = mishaps, received' = received
  PROVE  AccountInv'
<1>1. e \in Executions /\ q \in Queues /\ Calls(e, k, x)
  BY DEF SelectAt
<1>2. ~IsParked(exec, e) /\ Leaves(exec, x, {e}) /\ Ages(exec, x)
  BY <1>1, CallsFacts
<1>3. PICK v, z : v = queues' /\ z = cancel(u, W)
  OBVIOUS
<1>4. OnlyAt(q, v, queues, z)
  BY <1>3, SelectAtFacts
<1>5. received[q] \in Seq(Payload)
  BY <1>1, RegsFacts
<1>6. OnceQ(x, z, received[q])
  BY <1>3, <1>5, CancelOnce
<1>7. Regs(z) \subseteq Regs(queues[q])
  <2>0. PICK b : b = queues[q]
    OBVIOUS
  <2>1. PICK A, B : Extended(b, r, A, B, W)
    BY <2>0, SelectAtFacts
  <2>2. r.send_waiters = b.send_waiters \o A /\ r.receive_waiters = b.receive_waiters \o B
    BY <2>1, ExtendedFacts
  <2>3. /\ b.send_waiters \in Seq(Wait) /\ b.receive_waiters \in Seq(Wait)
        /\ A \in Seq(Wait) /\ B \in Seq(Wait) /\ Range(A) \subseteq W /\ Range(B) \subseteq W
    BY <2>1, QueueFields DEF Extended
  <2>4. /\ Range(r.send_waiters) = Range(b.send_waiters) \cup Range(A)
        /\ Range(r.receive_waiters) = Range(b.receive_waiters) \cup Range(B)
    BY <2>2, <2>3, RangeConcat
  <2>5. Regs(z) = Regs(u) \ W
    <3>1. u.send_waiters \in Seq(Wait) /\ u.receive_waiters \in Seq(Wait)
      BY QueueFields
    <3>2. z = Record(u.payloads, Without(u.send_waiters, W), Without(u.receive_waiters, W), u.closed)
      BY <1>3, OtherRecords
    <3>3. /\ z.send_waiters = Without(u.send_waiters, W)
          /\ z.receive_waiters = Without(u.receive_waiters, W)
      BY <3>2 DEF Record
    <3>4. /\ Range(Without(u.send_waiters, W)) = Range(u.send_waiters) \ W
          /\ Range(Without(u.receive_waiters, W)) = Range(u.receive_waiters) \ W
      BY <3>1, WithoutFacts
    <3>5. QED
      BY <3>3, <3>4 DEF Regs
  <2>6. QED
    BY <2>0, <2>3, <2>4, <2>5 DEF Regs
<1>8. \A p \in Queues : OnceQ(x, queues[p], received[p])
  BY <1>2, OnceLater
<1>9. \A p \in Queues : OnceQ(x, v[p], received[p]) /\ Regs(v[p]) \subseteq Regs(queues[p])
  BY <1>4, <1>6, <1>7, <1>8 DEF OnlyAt
<1>10. QED
  BY <1>1, <1>2, <1>3, <1>9, CallFails

\* send gives a queue record.
LEMMA SendTypes ==
  ASSUME NEW r \in QueueRecord, NEW p \in Payload
  PROVE  send(r, p) \in QueueRecord
<1>1. /\ r.payloads \in Seq(Payload) /\ r.send_waiters \in Seq(Wait)
      /\ r.receive_waiters \in Seq(Wait) /\ r.closed \in BOOLEAN
  BY QueueFields
<1>2. CASE r.receive_waiters # <<>>
  <2>1. Tail(r.receive_waiters) \in Seq(Wait)
    BY <1>1, <1>2, TailAt
  <2>2. Record(r.payloads, r.send_waiters, Tail(r.receive_waiters), r.closed) \in QueueRecord
    BY <1>1, <2>1, RecordFields
  <2>3. QED
    BY <1>2, <2>2, SendRecord
<1>3. CASE r.receive_waiters = <<>>
  <2>1. Append(r.payloads, p) \in Seq(Payload)
    BY <1>1, AppendAt
  <2>2. Record(Append(r.payloads, p), r.send_waiters, r.receive_waiters, r.closed) \in QueueRecord
    BY <1>1, <2>1, RecordFields
  <2>3. QED
    BY <1>3, <2>2, SendRecord
<1>4. QED
  BY <1>2, <1>3

\* receive, when there is something to receive, gives a queue record.
LEMMA ReceiveTypes ==
  ASSUME NEW q, NEW r \in QueueRecord, r.payloads # <<>> \/ r.send_waiters # <<>>
  PROVE  receive(q, r) \in QueueRecord
<1>1. /\ r.payloads \in Seq(Payload) /\ r.send_waiters \in Seq(Wait)
      /\ r.receive_waiters \in Seq(Wait) /\ r.closed \in BOOLEAN
  BY QueueFields
<1>2. CASE r.payloads # <<>> /\ promotes(q, r)
  <2>1. PICK s : s = r.send_waiters /\ s # <<>>
    BY <1>2 DEF promotes
  <2>2. Tail(s) \in Seq(Wait) /\ Head(s) \in Wait /\ Tail(r.payloads) \in Seq(Payload)
    BY <1>1, <1>2, <2>1, TailAt
  <2>3. PayloadOf(Head(s)) \in Payload
    BY <2>2 DEF PayloadOf, Wait, Payload
  <2>4. Append(Tail(r.payloads), PayloadOf(Head(s))) \in Seq(Payload)
    BY <2>2, <2>3, AppendAt
  <2>5. Record(Append(Tail(r.payloads), PayloadOf(Head(s))), Tail(s), r.receive_waiters, r.closed) \in QueueRecord
    BY <1>1, <2>2, <2>4, RecordFields
  <2>6. QED
    BY <1>2, <2>1, <2>5, ReceiveRecord
<1>3. CASE r.payloads # <<>> /\ ~promotes(q, r)
  <2>1. Tail(r.payloads) \in Seq(Payload)
    BY <1>1, <1>3, TailAt
  <2>2. Record(Tail(r.payloads), r.send_waiters, r.receive_waiters, r.closed) \in QueueRecord
    BY <1>1, <2>1, RecordFields
  <2>3. QED
    BY <1>3, <2>2, ReceiveRecord
<1>4. CASE r.payloads = <<>>
  <2>1. Tail(r.send_waiters) \in Seq(Wait)
    BY <1>1, <1>4, TailAt
  <2>2. Record(r.payloads, Tail(r.send_waiters), r.receive_waiters, r.closed) \in QueueRecord
    BY <1>1, <2>1, RecordFields
  <2>3. QED
    BY <1>4, <2>2, ReceiveRecord
<1>5. QED
  BY <1>2, <1>3, <1>4

\* The payload of arm k is new to its queue, the arms before it registered or not.
LEMMA SelectNew ==
  ASSUME KernelInv, AccountInv, NEW e, NEW k, NEW q, NEW r, NEW x, NEW W, SelectAt(e, k, q, r, x, W),
         NEW p, p = PayloadOf(WaitOf(e, k))
  PROVE  /\ New(p, received[q], r.payloads, r.send_waiters)
         /\ p \in Payload /\ Past(x, p[1], p[2])
<1>1. /\ e \in Executions /\ k \in Nat \ {0} /\ q \in Queues /\ Calls(e, k, x)
      /\ W = {WaitOf(e, i) : i \in 1..(k - 1)}
  BY DEF SelectAt
<1>2. PICK b : b = queues[q]
  OBVIOUS
<1>3. /\ New(p, received[q], b.payloads, b.send_waiters) /\ p \in Payload
      /\ Leaves(exec, x, {e})
  BY <1>1, <1>2, CallsFacts
<1>4. Past(x, p[1], p[2])
  <2>1. PICK C : C = {e}
    OBVIOUS
  <2>2. Leaves(exec, x, C) /\ e \in C
    BY <1>3, <2>1
  <2>3. QED
    BY <1>1, <2>2, CallsFacts
<1>5. PICK A, B : Extended(b, r, A, B, W)
  BY <1>2, SelectAtFacts
<1>6. /\ r.payloads = b.payloads /\ r.send_waiters = b.send_waiters \o A
  BY <1>5, ExtendedFacts
<1>7. b.send_waiters \in Seq(Wait) /\ A \in Seq(Wait) /\ Range(A) \subseteq W
  BY <1>5, QueueFields DEF Extended
<1>8. Range(r.send_waiters) = Range(b.send_waiters) \cup Range(A)
  BY <1>6, <1>7, RangeConcat
<1>9. \A w \in W : PayloadOf(w) # p
  <2>1. SUFFICES ASSUME NEW i \in 1..(k - 1) PROVE PayloadOf(WaitOf(e, i)) # PayloadOf(WaitOf(e, k))
    BY <1>1
  <2>2. /\ PayloadOf(WaitOf(e, i)) = <<e, exec[e].generation, i>>
        /\ PayloadOf(WaitOf(e, k)) = <<e, exec[e].generation, k>>
    BY DEF PayloadOf, WaitOf
  <2>3. i # k
    BY <1>1
  <2>4. QED
    BY <2>2, <2>3
<1>10. New(p, received[q], r.payloads, r.send_waiters)
  BY <1>3, <1>6, <1>7, <1>8, <1>9 DEF New
<1>11. QED
  BY <1>3, <1>4, <1>10

\* The arm's queue is closed: the queues are as before.
LEMMA SelectClosedAccounts ==
  ASSUME KernelInv, AccountInv, NEW e, NEW k, NEW q, NEW r, NEW x, NEW W, SelectAt(e, k, q, r, x, W),
         SelectClosed(e, k, q, r, x), hostWaits' = hostWaits /\ mishaps' = mishaps
  PROVE  AccountInv'
<1>1. /\ e \in Executions /\ k \in Nat \ {0} /\ q \in Queues /\ Calls(e, k, x) /\ Submits(e, "select")
      /\ W = {WaitOf(e, i) : i \in 1..(k - 1)} /\ r = Registered(e, k - 1)[q]
  BY DEF SelectAt
<1>2. /\ queues' = Unregister(Registered(e, k - 1), e, k) /\ exec' = x
      /\ erred' = erred /\ order' = order /\ received' = received
  BY DEF SelectClosed, Succeed, ghost
<1>3. PICK R, v : R = Registered(e, k - 1) /\ v = Unregister(R, e, k)
  OBVIOUS
<1>4. OnlyAt(q, v, queues, cancel(r, W))
  BY <1>1, <1>3, UnregisterOnly
<1>5. cancel(r, W) = queues[q]
  <2>1. PICK b : b = queues[q]
    OBVIOUS
  <2>2. PICK A, B : Extended(b, r, A, B, W)
    BY <2>1, SelectAtFacts
  <2>3. QED
    BY <2>1, <2>2, Restored
<1>6. \A d \in Queues : v[d] = queues[d]
  BY <1>4, <1>5 DEF OnlyAt
<1>7. v = [d \in Queues |-> v[d]]
  BY <1>3 DEF Unregister
<1>8. v = queues
  BY <1>6, <1>7, StateFunctions
<1>9. UNCHANGED <<queues, order, received>>
  BY <1>2, <1>3, <1>8
<1>10. QED
  BY <1>1, <1>2, <1>9, ClosedCall

\* Arm k sends.
LEMMA SelectSendAccounts ==
  ASSUME KernelInv, AccountInv, NEW e, NEW k, NEW q, NEW r, NEW x, NEW W, SelectAt(e, k, q, r, x, W),
         ~SendBlocks(q, r), SelectSend(e, k, q, r, x), hostWaits' = hostWaits /\ mishaps' = mishaps
  PROVE  AccountInv'
<1>0. e \in Executions /\ q \in Queues /\ Calls(e, k, x)
  BY DEF SelectAt
<1>1. e \in Executions /\ q \in Queues /\ Calls(e, k, x) /\ \A w \in W : w.execution = e
  BY <1>0, SelectAtFacts
<1>2. PICK b, p, c, y : /\ b = queues[q] /\ p = PayloadOf(WaitOf(e, k)) /\ c = Head(r.receive_waiters)
                        /\ y = commit_operation(x, c)
  OBVIOUS
<1>3. PICK A, B : Extended(b, r, A, B, W)
  BY <1>2, SelectAtFacts
<1>4. /\ New(p, received[q], r.payloads, r.send_waiters) /\ p \in Payload /\ Past(x, p[1], p[2])
  BY <1>2, SelectNew
<1>5. PICK u, v, O, Z : u = send(r, p) /\ v = queues' /\ O = order' /\ Z = received'
  OBVIOUS
<1>6. /\ ~r.closed /\ queues' = Unregister([Registered(e, k - 1) EXCEPT ![q] = u], e, k)
      /\ \/ /\ r.receive_waiters = <<>>
            /\ exec' = x
            /\ Succeed(x, <<e>>)
            /\ order' = [order EXCEPT ![q] = Append(@, p)]
            /\ UNCHANGED received
         \/ /\ r.receive_waiters # <<>> /\ Owns(x, c, q, "receive")
            /\ exec' = y
            /\ Succeed(y, <<e, c.execution>>)
            /\ order' = [order EXCEPT ![q] = Append(@, p)]
            /\ received' = [received EXCEPT ![q] = Append(@, p)]
         \/ /\ r.receive_waiters # <<>> /\ ~Owns(x, c, q, "receive")
            /\ exec' = x
            /\ Fail
            /\ UNCHANGED ghost
  BY <1>2, <1>5 DEF SelectSend
<1>7. OnlyAt(q, v, queues, cancel(u, W))
  BY <1>5, <1>6, SelectAtFacts
<1>8. CASE /\ r.receive_waiters = <<>>
           /\ exec' = x
           /\ Succeed(x, <<e>>)
           /\ order' = [order EXCEPT ![q] = Append(@, p)]
           /\ UNCHANGED received
  <2>1. cancel(send(r, p), W) = send(b, p) /\ b.receive_waiters = <<>>
    BY <1>3, <1>4, <1>8, SendExtended
  <2>2. has_buffer_capacity(q, b)
    <3>1. has_buffer_capacity(q, r)
      BY <1>6, <1>8 DEF SendBlocks
    <3>2. QED
      BY <1>3, <3>1, ExtendedFacts
  <2>3. PICK n : n = Append(order[q], p)
    OBVIOUS
  <2>4. OnlyAt(q, v, queues, send(queues[q], p)) /\ OnlyAt(q, O, order, n)
    BY <1>1, <1>2, <1>5, <1>7, <1>8, <2>1, <2>3, StateFunctions, UpdateOnly
  <2>5. Commits(q, {e}, x, v, received, O, erred)
    BY <1>1, <1>2, <2>1, <2>2, <2>3, <2>4, SendBuffers
  <2>6. Commits(q, {e}, x, v, received, O, erred')
    BY <1>8, <2>5 DEF Succeed
  <2>7. QED
    BY <1>5, <1>8, <2>6, CommitsAccount
<1>9. CASE /\ r.receive_waiters # <<>> /\ Owns(x, c, q, "receive")
           /\ exec' = y
           /\ Succeed(y, <<e, c.execution>>)
           /\ order' = [order EXCEPT ![q] = Append(@, p)]
           /\ received' = [received EXCEPT ![q] = Append(@, p)]
  <2>1. c \notin W
    BY <1>1, <1>9, OwnArmsNeverMatch
  <2>2. /\ cancel(send(r, p), W) = send(b, p) /\ b.receive_waiters # <<>> /\ c = Head(b.receive_waiters)
    BY <1>2, <1>3, <1>4, <1>9, <2>1, SendExtended
  <2>3. PICK n, m : n = Append(order[q], p) /\ m = Append(received[q], p)
    OBVIOUS
  <2>4. OnlyAt(q, v, queues, send(queues[q], p))
    BY <1>2, <1>5, <1>7, <2>2
  <2>5. OnlyAt(q, O, order, n) /\ OnlyAt(q, Z, received, m)
    BY <1>1, <1>5, <1>9, <2>3, StateFunctions, UpdateOnly
  <2>6. Matches(x, q, "receive", queues[q].receive_waiters, c, y)
    BY <1>2, <1>9, <2>2 DEF Matches
  <2>7. Commits(q, {e, c.execution}, y, v, Z, O, erred)
    BY <1>1, <1>2, <2>3, <2>4, <2>5, <2>6, SendHandsOver
  <2>8. Commits(q, {e, c.execution}, y, v, Z, O, erred')
    BY <1>9, <2>7 DEF Succeed
  <2>9. QED
    BY <1>5, <1>9, <2>8, CommitsAccount
<1>10. CASE exec' = x /\ Fail /\ UNCHANGED ghost
  <2>1. received' = received /\ erred'
    BY <1>10 DEF Fail, ghost
  <2>2. r \in QueueRecord /\ OnceQ(x, r, received[q]) /\ received[q] \in Seq(Payload)
    BY <1>1, SelectAtFacts, RegsFacts
  <2>3. OnceQ(x, u, received[q])
    BY <1>4, <1>5, <2>2, SendOnce
  <2>4. Regs(u) \subseteq Regs(r) /\ u \in QueueRecord
    BY <1>4, <1>5, <2>2, NoNewRegs, SendTypes
  <2>5. QED
    BY <1>6, <1>10, <2>1, <2>3, <2>4, SelectFails
<1>11. QED
  BY <1>6, <1>8, <1>9, <1>10

\* Arm k receives.
LEMMA SelectReceiveAccounts ==
  ASSUME KernelInv, AccountInv, NEW e, NEW k, NEW q, NEW r, NEW x, NEW W, SelectAt(e, k, q, r, x, W),
         SelectReceive(e, k, q, r, x), hostWaits' = hostWaits /\ mishaps' = mishaps
  PROVE  AccountInv'
<1>0. e \in Executions /\ q \in Queues /\ Calls(e, k, x)
  BY DEF SelectAt
<1>1. \A w \in W : w.execution = e
  BY SelectAtFacts
<1>2. PICK b, c, y : /\ b = queues[q] /\ c = Head(r.send_waiters) /\ y = commit_operation(x, c)
  OBVIOUS
<1>3. PICK A, B : Extended(b, r, A, B, W)
  BY <1>2, SelectAtFacts
<1>5. PICK u, v, O, Z : u = receive(q, r) /\ v = queues' /\ O = order' /\ Z = received'
  OBVIOUS
<1>6. /\ r.payloads # <<>> \/ r.send_waiters # <<>>
      /\ queues' = Unregister([Registered(e, k - 1) EXCEPT ![q] = u], e, k)
      /\ order' = order
      /\ \/ /\ ~WakesSender(q, r)
            /\ exec' = x
            /\ Succeed(x, <<e>>)
            /\ received' = [received EXCEPT ![q] = Append(@, TakenPayload(r))]
         \/ /\ WakesSender(q, r) /\ Owns(x, c, q, "send")
            /\ exec' = y
            /\ Succeed(y, <<e, c.execution>>)
            /\ received' = [received EXCEPT ![q] = Append(@, TakenPayload(r))]
         \/ /\ WakesSender(q, r) /\ ~Owns(x, c, q, "send")
            /\ exec' = x
            /\ Fail
            /\ UNCHANGED received
  BY <1>2, <1>5 DEF SelectReceive
<1>7. OnlyAt(q, v, queues, cancel(u, W))
  BY <1>5, <1>6, SelectAtFacts
<1>8. CASE /\ ~WakesSender(q, r)
           /\ exec' = x
           /\ Succeed(x, <<e>>)
           /\ received' = [received EXCEPT ![q] = Append(@, TakenPayload(r))]
  <2>1. /\ cancel(receive(q, r), W) = receive(q, b) /\ ~WakesSender(q, b)
        /\ TakenPayload(r) = TakenPayload(b)
    BY <1>3, <1>6, <1>8, ReceiveExtended
  <2>2. b.payloads # <<>> /\ ~promotes(q, b)
    BY <2>1 DEF WakesSender
  <2>3. PICK m : m = Append(received[q], TakenPayload(b))
    OBVIOUS
  <2>4. OnlyAt(q, v, queues, receive(q, queues[q]))
    BY <1>2, <1>5, <1>7, <2>1
  <2>5. OnlyAt(q, Z, received, m)
    <3>1. Z = [received EXCEPT ![q] = m]
      BY <1>5, <1>8, <2>1, <2>3
    <3>2. QED
      BY <1>0, <3>1, StateFunctions, UpdateOnly
  <2>6. Commits(q, {e}, x, v, Z, order, erred)
    BY <1>0, <1>2, <2>2, <2>3, <2>4, <2>5, ReceiveTakes
  <2>7. Commits(q, {e}, x, v, Z, order, erred')
    BY <1>8, <2>6 DEF Succeed
  <2>8. QED
    BY <1>5, <1>6, <1>8, <2>7, CommitsAccount
<1>9. CASE /\ WakesSender(q, r) /\ Owns(x, c, q, "send")
           /\ exec' = y
           /\ Succeed(y, <<e, c.execution>>)
           /\ received' = [received EXCEPT ![q] = Append(@, TakenPayload(r))]
  <2>1. c \notin W
    BY <1>0, <1>1, <1>9, OwnArmsNeverMatch
  <2>2. /\ cancel(receive(q, r), W) = receive(q, b) /\ WakesSender(q, b)
        /\ TakenPayload(r) = TakenPayload(b) /\ b.send_waiters # <<>> /\ c = Head(b.send_waiters)
    <3>1. WakesSender(q, r) /\ c = Head(r.send_waiters)
      BY <1>2, <1>9
    <3>2. WakesSender(q, r) => Head(r.send_waiters) \notin W
      BY <2>1, <3>1
    <3>0. r.payloads # <<>> \/ r.send_waiters # <<>>
      BY <1>6
    <3>3. /\ cancel(receive(q, r), W) = receive(q, b)
          /\ WakesSender(q, r) <=> WakesSender(q, b)
          /\ TakenPayload(r) = TakenPayload(b)
          /\ WakesSender(q, r) => b.send_waiters # <<>> /\ Head(r.send_waiters) = Head(b.send_waiters)
      BY <1>3, <3>0, <3>2, ReceiveExtended
    <3>4. QED
      BY <3>1, <3>3
  <2>3. PICK m : m = Append(received[q], TakenPayload(b))
    OBVIOUS
  <2>4. OnlyAt(q, v, queues, receive(q, queues[q]))
    BY <1>2, <1>5, <1>7, <2>2
  <2>5. OnlyAt(q, Z, received, m)
    <3>1. Z = [received EXCEPT ![q] = m]
      BY <1>5, <1>9, <2>2, <2>3
    <3>2. QED
      BY <1>0, <3>1, StateFunctions, UpdateOnly
  <2>6. Matches(x, q, "send", queues[q].send_waiters, c, y)
    BY <1>2, <1>9, <2>2 DEF Matches
  <2>7. Commits(q, {e, c.execution}, y, v, Z, order, erred)
    BY <1>0, <1>2, <2>2, <2>3, <2>4, <2>5, <2>6, ReceivePairs
  <2>8. Commits(q, {e, c.execution}, y, v, Z, order, erred')
    BY <1>9, <2>7 DEF Succeed
  <2>9. QED
    BY <1>5, <1>6, <1>9, <2>8, CommitsAccount
<1>10. CASE exec' = x /\ Fail /\ UNCHANGED received
  <2>1. received' = received /\ erred'
    BY <1>10 DEF Fail
  <2>2. r \in QueueRecord /\ OnceQ(x, r, received[q]) /\ received[q] \in Seq(Payload)
    BY <1>0, SelectAtFacts, RegsFacts
  <2>3. OnceQ(x, u, received[q])
    BY <1>0, <1>5, <1>6, <2>2, ReceiveOnce
  <2>4. Regs(u) \subseteq Regs(r) /\ u \in QueueRecord
    BY <1>5, <1>6, <2>2, NoNewRegs, ReceiveTypes
  <2>5. QED
    BY <1>6, <1>10, <2>1, <2>3, <2>4, SelectFails
<1>11. QED
  BY <1>6, <1>8, <1>9, <1>10

\* Every arm blocks: the select parks, its arms registered.
LEMMA SelectBlockedAccounts ==
  ASSUME KernelInv, AccountInv, NEW e \in Executions, Submits(e, "select"), hostWaits' = hostWaits /\ mishaps' = mishaps,
         SelectBlocked(e)
  PROVE  AccountInv'
<1>1. ExecsOK(exec) /\ exec[e].status = "Waiting" /\ ~exec[e].submitted
  BY SubmitsFacts
<1>2. PICK s, n : s = ArmsOf(e) /\ n = Len(s)
  OBVIOUS
<1>3. s \in Seq([direction : {"send", "receive"}, queue : Queues]) /\ SiteOf(exec, e).kind = "select"
  BY <1>2, SelectFacts DEF Submits, WaitsOn
<1>4. /\ n \in Nat /\ DOMAIN s = 1..n
      /\ \A i \in 1..n : s[i] \in [direction : {"send", "receive"}, queue : Queues]
  <2>1. PICK T : T = [direction : {"send", "receive"}, queue : Queues]
    OBVIOUS
  <2>2. s \in Seq(T)
    BY <1>3, <2>1
  <2>3. n \in Nat /\ DOMAIN s = 1..n /\ \A i \in 1..n : s[i] \in T
    BY <1>2, <2>2
  <2>4. QED
    BY <2>1, <2>3
<1>5. PICK v, O : v = queues' /\ O = order'
  OBVIOUS
<1>6. /\ v = Registered(e, n) /\ exec' = Submitted(exec, e)
      /\ O = [q \in Queues |-> order[q] \o Offers(ArmWaits(e, n, q, "send"))]
      /\ received' = received /\ erred' = erred
  BY <1>2, <1>5 DEF SelectBlocked, Offers
<1>7. Ages(exec, exec') /\ Past(exec', e, exec[e].generation)
  BY <1>1, <1>6, SubmittedAges
<1>8. PICK W : W = {WaitOf(e, i) : i \in 1..n}
  OBVIOUS
<1>9. ASSUME NEW p \in Queues
      PROVE  /\ OnceQ(exec', v[p], received[p])
             /\ Regs(queues[p]) \subseteq Regs(v[p])
             /\ Regs(v[p]) \subseteq Regs(queues[p]) \cup W
             /\ \A i \in 1..n : s[i].queue = p => WaitOf(e, i) \in Regs(v[p])
             /\ ~erred => LineOf(v, received, p) = O[p]
  <2>1. PICK b, r, A, B : /\ b = queues[p] /\ r = v[p]
                          /\ A = ArmWaits(e, n, p, "send") /\ B = ArmWaits(e, n, p, "receive")
    OBVIOUS
  <2>2. Extended(b, r, A, B, W)
    BY <1>4, <1>6, <1>8, <2>1, RegisteredExtends
  <2>3. /\ r.payloads = b.payloads
        /\ r.send_waiters = b.send_waiters \o A /\ r.receive_waiters = b.receive_waiters \o B
    BY <2>2, ExtendedFacts
  <2>4. /\ b.payloads \in Seq(Payload) /\ b.send_waiters \in Seq(Wait) /\ b.receive_waiters \in Seq(Wait)
        /\ A \in Seq(Wait) /\ B \in Seq(Wait) /\ Range(A) \subseteq W /\ Range(B) \subseteq W
    BY <2>2, QueueFields DEF Extended
  <2>5. /\ Range(r.send_waiters) = Range(b.send_waiters) \cup Range(A)
        /\ Range(r.receive_waiters) = Range(b.receive_waiters) \cup Range(B)
    BY <2>3, <2>4, RangeConcat
  <2>6. OnceQ(exec', v[p], received[p])
    <3>1. queues[p] \in QueueRecord /\ received[p] \in Seq(Payload) /\ OnceQ(exec, queues[p], received[p])
      BY RegsFacts, SubmitsAccount
    <3>2. PICK y : y = exec'
      OBVIOUS
    <3>3. Ages(exec, y) /\ Past(y, e, exec[e].generation)
      BY <1>7, <3>2
    <3>4. OnceQ(y, Registered(e, n)[p], received[p])
      BY <1>1, <1>4, <3>1, <3>3, RegisteredOnce
    <3>5. QED
      BY <1>6, <3>2, <3>4
  <2>7. ASSUME NEW i \in 1..n, s[i].queue = p
        PROVE  WaitOf(e, i) \in Regs(v[p])
    <3>1. PICK d : d = s[i].direction
      OBVIOUS
    <3>2. d \in {"send", "receive"} /\ s[i] = [direction |-> d, queue |-> p]
      BY <1>4, <2>7, <3>1
    <3>3. WaitOf(e, i) \in Range(ArmWaits(e, n, p, d))
      <4>1. Range(ArmWaits(e, n, p, d))
              = {WaitOf(e, m) : m \in {j \in 1..n : ArmsOf(e)[j] = [direction |-> d, queue |-> p]}}
        <5>1. n \in Nat
          BY <1>4
        <5>2. QED
          BY <1>1, <5>1, ArmWaitsFacts
      <4>2. QED
        BY <1>2, <3>2, <4>1
    <3>4. WaitOf(e, i) \in Range(A) \cup Range(B)
      BY <2>1, <3>2, <3>3
    <3>5. QED
      BY <2>1, <2>5, <3>4 DEF Regs
  <2>8. ASSUME ~erred PROVE LineOf(v, received, p) = O[p]
    <3>1. PICK R : R = received[p]
      OBVIOUS
    <3>2. R \in Seq(Payload)
      BY <3>1, RegsFacts
    <3>3. Line(R, b.payloads, b.send_waiters) = order[p]
      BY <2>1, <2>8, <3>1 DEF AccountInv, Accounts, LineOf
    <3>4. PICK F, M, N : F = R \o b.payloads /\ M = Offers(b.send_waiters) /\ N = Offers(A)
      OBVIOUS
    <3>5. F \in Seq(Payload) /\ M \in Seq(Payload) /\ N \in Seq(Payload)
      BY <2>4, <3>2, <3>4, LineType
    <3>6. Offers(b.send_waiters \o A) = M \o N
      BY <2>4, <3>4, OffersConcat
    <3>7. (F \o M) \o N = F \o (M \o N)
      BY <3>5, ConcatAssoc
    <3>8. Line(R, b.payloads, b.send_waiters) = F \o M
      BY <3>4 DEF Line
    <3>9. Line(R, r.payloads, r.send_waiters) = F \o (M \o N)
      BY <2>3, <3>4, <3>6 DEF Line
    <3>10. O[p] = order[p] \o N
      BY <1>6, <2>1, <3>4
    <3>11. LineOf(v, received, p) = Line(R, r.payloads, r.send_waiters)
      BY <2>1, <3>1 DEF LineOf
    <3>12. QED
      BY <3>3, <3>7, <3>8, <3>9, <3>10, <3>11
  <2>9. Regs(queues[p]) \subseteq Regs(v[p]) /\ Regs(v[p]) \subseteq Regs(queues[p]) \cup W
    BY <2>1, <2>4, <2>5 DEF Regs
  <2>10. QED
    BY <2>6, <2>7, <2>8, <2>9
<1>10. \A p \in Queues : \A w \in Regs(v[p]) \ Regs(queues[p]) : \E a \in Nat : w = WaitOf(e, a)
  <2>1. \A w \in W : \E a \in Nat : w = WaitOf(e, a)
    BY <1>4, <1>8
  <2>2. QED
    BY <1>9, <2>1
<1>11. Links(exec, e) \subseteq AllRegs(v)
  <2>1. ASSUME NEW i \in 1..n PROVE WaitOf(e, i) \in AllRegs(v)
    <3>1. s[i].queue \in Queues
      BY <1>4
    <3>2. WaitOf(e, i) \in Regs(v[s[i].queue])
      BY <1>9, <3>1
    <3>3. QED
      BY <3>1, <3>2 DEF AllRegs
  <2>2. Links(exec, e) = {WaitOf(e, i) : i \in 1..n}
    BY <1>2, <1>3, <1>4 DEF Links, WaitOf, ArmsOf
  <2>3. QED
    BY <2>1, <2>2
<1>12. SiteOf(exec, e).kind # "host"
  BY <1>3
<1>13. /\ \A p \in Queues : OnceQ(exec', v[p], received[p])
       /\ \A p \in Queues : Regs(queues[p]) \subseteq Regs(v[p])
       /\ ~erred => \A p \in Queues : LineOf(v, received, p) = O[p]
  BY <1>9
<1>14. /\ queues' = v /\ order' = O /\ exec' = Submitted(exec, e)
       /\ received' = received /\ erred' = erred
  BY <1>5, <1>6
<1>15. QED
  BY <1>1, <1>10, <1>11, <1>12, <1>13, <1>14, ParkStep

\* submit_select.
LEMMA SubmitSelectAccounts ==
  ASSUME KernelInv, AccountInv, NEW e \in Executions, SubmitSelect(e)
  PROVE  AccountInv'
<1>1. Submits(e, "select") /\ hostWaits' = hostWaits /\ mishaps' = mishaps
  BY DEF SubmitSelect
<1>2. CASE SelectBlocked(e)
  BY <1>1, <1>2, SelectBlockedAccounts
<1>3. CASE ~SelectBlocked(e)
  <2>1. PICK k \in DOMAIN ArmsOf(e) :
          LET q == ArmsOf(e)[k].queue
              r == Registered(e, k - 1)[q]
              x == commit_operation(exec, WaitOf(e, k))
          IN /\ ArmIsReady(e, k)
             /\ \A i \in 1..(k - 1) : ~ArmIsReady(e, i)
             /\ \/ SelectClosed(e, k, q, r, x)
                \/ SelectSend(e, k, q, r, x)
                \/ SelectReceive(e, k, q, r, x)
    BY <1>3 DEF SubmitSelect
  <2>2. PICK q, r, x, W : /\ q = ArmsOf(e)[k].queue /\ r = Registered(e, k - 1)[q]
                          /\ x = commit_operation(exec, WaitOf(e, k))
                          /\ W = {WaitOf(e, i) : i \in 1..(k - 1)}
    OBVIOUS
  <2>3. /\ ArmIsReady(e, k)
        /\ SelectClosed(e, k, q, r, x) \/ SelectSend(e, k, q, r, x) \/ SelectReceive(e, k, q, r, x)
    BY <2>1, <2>2
  <2>4. SelectAt(e, k, q, r, x, W)
    <3>1. Calls(e, k, x)
      BY <1>1, <2>2, SelectCalls
    <3>2. k \in Nat \ {0} /\ q \in Queues
      BY <1>1, <2>2, SelectFacts
    <3>3. QED
      BY <1>1, <2>2, <3>1, <3>2 DEF SelectAt
  <2>5. CASE SelectClosed(e, k, q, r, x)
    BY <1>1, <2>4, <2>5, SelectClosedAccounts
  <2>6. CASE SelectSend(e, k, q, r, x)
    <3>1. ~SendBlocks(q, r)
      BY <2>2, <2>3, <2>6 DEF ArmIsReady, SelectSend
    <3>2. QED
      BY <1>1, <2>4, <2>6, <3>1, SelectSendAccounts
  <2>7. CASE SelectReceive(e, k, q, r, x)
    BY <1>1, <2>4, <2>7, SelectReceiveAccounts
  <2>8. QED
    BY <2>3, <2>5, <2>6, <2>7
<1>4. QED
  BY <1>2, <1>3

\* Registrations leave queue p, and what they offer is withdrawn.
LEMMA Cancelled ==
  ASSUME KernelInv, AccountInv, NEW x, Ages(exec, x), NEW p \in Queues, NEW W,
         NEW u, u = cancel(queues[p], W)
  PROVE  /\ OnceQ(x, u, received[p])
         /\ Regs(u) = Regs(queues[p]) \ W
         /\ ~erred => Line(received[p], u.payloads, u.send_waiters)
                        = Without(order[p], Offered(W, queues[p].send_waiters))
<1>1. PICK b, R : b = queues[p] /\ R = received[p]
  OBVIOUS
<1>2. b \in QueueRecord /\ R \in Seq(Payload)
  BY <1>1, RegsFacts
<1>3. /\ b.payloads \in Seq(Payload) /\ b.send_waiters \in Seq(Wait)
      /\ b.receive_waiters \in Seq(Wait) /\ b.closed \in BOOLEAN
  BY <1>2, QueueFields
<1>4. u = Record(b.payloads, Without(b.send_waiters, W), Without(b.receive_waiters, W), b.closed)
  BY <1>1, <1>2, OtherRecords
<1>5. /\ u.payloads = b.payloads /\ u.send_waiters = Without(b.send_waiters, W)
      /\ u.receive_waiters = Without(b.receive_waiters, W)
  BY <1>4 DEF Record
<1>6. OnceQ(x, b, R) /\ OnceQ(exec, b, R)
  <2>1. OnceQ(x, b, R)
    BY <1>1, OnceLater
  <2>2. OnceQ(exec, b, R)
    BY <1>1 DEF AccountInv, Accounts
  <2>3. QED
    BY <2>1, <2>2
<1>7. OnceQ(x, u, R)
  BY <1>1, <1>2, <1>6, CancelOnce
<1>8. Regs(u) = Regs(b) \ W
  <2>1. /\ Range(Without(b.send_waiters, W)) = Range(b.send_waiters) \ W
        /\ Range(Without(b.receive_waiters, W)) = Range(b.receive_waiters) \ W
    BY <1>3, WithoutFacts
  <2>2. QED
    BY <1>5, <2>1 DEF Regs
<1>9. ASSUME ~erred
      PROVE  Line(R, u.payloads, u.send_waiters) = Without(order[p], Offered(W, b.send_waiters))
  <2>1. Line(R, b.payloads, b.send_waiters) = order[p]
    BY <1>1, <1>9 DEF AccountInv, Accounts, LineOf
  <2>2. Once(exec, R, b.payloads, b.send_waiters, b.receive_waiters)
    BY <1>6 DEF OnceQ
  <2>3. PICK P, s, t, X : /\ P = b.payloads /\ s = b.send_waiters /\ t = b.receive_waiters
                          /\ X = Offered(W, s)
    OBVIOUS
  <2>5. Once(exec, R, P, s, t) /\ P \in Seq(Payload) /\ s \in Seq(Wait) /\ t \in Seq(Wait)
    BY <1>3, <2>2, <2>3
  <2>6. Without(Line(R, P, s), X) = Line(R, P, Without(s, W))
    BY <1>2, <2>3, <2>5, LineWithout
  <2>7. QED
    BY <1>5, <2>1, <2>3, <2>6
<1>10. QED
  BY <1>1, <1>7, <1>8, <1>9

\* request_cancellation of an execution parked on a queue.
LEMMA CancelQueueWaitAccounts ==
  ASSUME KernelInv, AccountInv, NEW e \in Executions, NEW g, Shape[e].cleanup # 0, CancelQueueWait(e, g)
  PROVE  AccountInv'
<1>1. ExecsOK(exec)
  BY DEF KernelInv
<1>2. PICK x, W : x = Cleanup(e) /\ W = Claimable(e, g) \cap UNION {Registrations(q) : q \in Queues}
  OBVIOUS
<1>3. /\ x[e].status = "Ready" /\ x[e].generation = exec[e].generation
      /\ \A d \in Executions : d # e => x[d] = exec[d]
  BY <1>1, <1>2, CleanupFacts
<1>4. PICK v, O, y, bad : v = queues' /\ O = order' /\ y = exec' /\ bad = erred'
  OBVIOUS
<1>5. /\ \A p \in Queues : v[p] = cancel(queues[p], W)
      /\ \A p \in Queues : O[p] = Without(order[p], Offered(W, queues[p].send_waiters))
      /\ hostWaits' = hostWaits /\ mishaps' = mishaps /\ received' = received
      /\ \/ W = Claimable(e, g) /\ y = x /\ bad = erred
         \/ y = exec /\ bad
  BY <1>2, <1>4 DEF CancelQueueWait, Withdraw, Offered, Succeed, Fail
<1>6. Ages(exec, x) /\ Ages(exec, exec)
  <2>1. Ages(exec, x)
    <3>1. ASSUME NEW d \in Executions, NEW n \in Nat, Past(exec, d, n) PROVE Past(x, d, n)
      BY <1>3, <3>1 DEF Past
    <3>2. QED
      BY <3>1 DEF Ages
  <2>2. QED
    BY <2>1 DEF Ages
<1>7. Ages(exec, y)
  BY <1>5, <1>6
<1>8. ASSUME NEW p \in Queues
      PROVE  /\ OnceQ(y, v[p], received[p]) /\ Regs(v[p]) = Regs(queues[p]) \ W
             /\ ~erred => LineOf(v, received, p) = O[p]
  <2>1. PICK u : u = v[p]
    OBVIOUS
  <2>2. u = cancel(queues[p], W) /\ O[p] = Without(order[p], Offered(W, queues[p].send_waiters))
    BY <1>5, <2>1
  <2>3. /\ OnceQ(y, u, received[p]) /\ Regs(u) = Regs(queues[p]) \ W
        /\ ~erred => Line(received[p], u.payloads, u.send_waiters)
                       = Without(order[p], Offered(W, queues[p].send_waiters))
    BY <1>7, <2>2, Cancelled
  <2>4. QED
    BY <2>1, <2>2, <2>3 DEF LineOf
<1>9. \A q \in Queues : \A w \in Regs(queues[q]) : w.execution \in Executions
  BY RegsFacts
<1>10. \A w \in W : w.execution = e
  BY <1>2 DEF Claimable
<1>11. CASE W = Claimable(e, g) /\ y = x /\ bad = erred
  <2>1. ASSUME NEW p \in Queues, NEW w \in Regs(v[p]), Bound(w, woken), w.execution = e
        PROVE  FALSE
    <3>1. w \in Regs(queues[p]) /\ w \notin W
      BY <1>8, <2>1
    <3>2. /\ SiteOf(exec, e).kind \in {"send", "receive"} /\ w = WaitOf(e, 0)
      BY <2>1, <3>1, DirectFacts
    <3>3. PICK z : z = [execution |-> e, operation |-> exec[e].site, generation |-> g, arm |-> 0]
      OBVIOUS
    <3>4. z \in Claimable(e, g)
      BY <3>2, <3>3 DEF Claimable
    <3>5. PICK q \in Queues : z \in Registrations(q)
      BY <1>2, <1>11, <3>4
    <3>6. z \in Regs(queues[q]) /\ Bound(z, woken) /\ z.execution = e
      BY <2>1, <3>3, <3>5 DEF Regs, Registrations, Bound
    <3>7. z = WaitOf(e, 0)
      BY <3>6, DirectFacts
    <3>8. QED
      BY <1>11, <3>1, <3>2, <3>4, <3>7
  <2>2. PICK C : C = {e}
    OBVIOUS
  <2>3. \A q \in Queues : \A w \in Regs(v[q]) : w \in Regs(queues[q]) /\ (Bound(w, woken) => w.execution \notin C)
    BY <1>8, <2>1, <2>2
  <2>4. \A q \in Queues : \A w \in Regs(queues[q]) : w.execution \notin C => w \in Regs(v[q])
    BY <1>8, <1>10, <2>2
  <2>5. (\A d \in Executions \ C : y[d] = exec[d]) /\ \A d \in C : ~IsParked(y, d)
    BY <1>3, <1>11, <2>2 DEF IsParked
  <2>6. Releases(C, exec, queues, hostWaits, erred, y, v, hostWaits, bad, received, O, woken)
    BY <1>8, <1>9, <1>11, <2>3, <2>4, <2>5 DEF Releases
  <2>7. Accounts(y, v, hostWaits, bad, received, O, woken)
    BY <2>6, AccountStep DEF AccountInv
  <2>8. QED
    BY <1>4, <1>5, <2>7 DEF AccountInv, mishaps
<1>12. CASE y = exec /\ bad
  <2>1. PICK C : C = {}
    OBVIOUS
  <2>2. \A q \in Queues : \A w \in Regs(v[q]) : w \in Regs(queues[q]) /\ (Bound(w, woken) => w.execution \notin C)
    BY <1>8, <2>1
  <2>3. Releases(C, exec, queues, hostWaits, erred, y, v, hostWaits, bad, received, O, woken)
    BY <1>8, <1>9, <1>12, <2>1, <2>2 DEF Releases
  <2>4. Accounts(y, v, hostWaits, bad, received, O, woken)
    BY <2>3, AccountStep DEF AccountInv
  <2>5. QED
    BY <1>4, <1>5, <2>4 DEF AccountInv, mishaps
<1>13. QED
  BY <1>5, <1>11, <1>12

\* request_cancellation.
LEMMA CancellationAccounts ==
  ASSUME KernelInv, AccountInv, NEW e \in Executions, NEW g, RequestCancellation(e, g)
  PROVE  AccountInv'
<1>1. ExecsOK(exec) /\ HostOK /\ SchedulerOK
  BY DEF KernelInv
<1>2. Shape[e].cleanup # 0
  BY DEF RequestCancellation
<1>3. PICK x, C : x = Cleanup(e) /\ C = {e}
  OBVIOUS
<1>4. /\ x[e].status = "Ready" /\ x[e].generation = exec[e].generation
      /\ \A d \in Executions : d # e => x[d] = exec[d]
  BY <1>1, <1>2, <1>3, CleanupFacts
<1>5. Ages(exec, x)
  <2>1. ASSUME NEW d \in Executions, NEW n \in Nat, Past(exec, d, n) PROVE Past(x, d, n)
    BY <1>4, <2>1 DEF Past
  <2>2. QED
    BY <2>1 DEF Ages
<1>6. (\A d \in Executions \ C : x[d] = exec[d]) /\ \A d \in C : ~IsParked(x, d)
  BY <1>3, <1>4 DEF IsParked
<1>7. CASE CancelRunning(e)
  <2>1. /\ exec[e].status = "Ready" /\ exec' = x /\ Succeed(x, <<e>>)
        /\ UNCHANGED <<queues, order, received>> /\ hostWaits' = hostWaits /\ mishaps' = mishaps
    BY <1>3, <1>7 DEF CancelRunning, ghost
  <2>2. ~erred' => ~erred
    BY <1>1, <2>1, ErredStays
  <2>3. \A d \in C : ~IsParked(exec, d) \/ SiteOf(exec, d).kind \notin {"send", "receive"}
    BY <1>3, <2>1 DEF IsParked
  <2>4. \A h \in hostWaits : h.execution \notin C => h \in hostWaits'
    BY <2>1
  <2>5. woken' = woken /\ woken \subseteq woken
    BY <2>1 DEF mishaps
  <2>6. QED
    BY <1>5, <1>6, <2>1, <2>2, <2>3, <2>4, <2>5, QuietStep
<1>9. CASE CancelQueueWait(e, g)
  BY <1>2, <1>9, CancelQueueWaitAccounts
<1>10. QED
  BY <1>7, <1>9 DEF RequestCancellation

\* request_host_cancellation.
LEMMA CancelHostAccounts ==
  ASSUME KernelInv, AccountInv, NEW e \in Executions, NEW g, CancelHost(e, g)
  PROVE  AccountInv'
<1>1. ExecsOK(exec) /\ HostOK /\ SchedulerOK
  BY DEF KernelInv
<1>2. PICK x, C : x = Cleanup(e) /\ C = {e}
  OBVIOUS
<1>3. PICK h \in hostWaits : h.execution = e /\ hostWaits' = hostWaits \ {h}
  BY DEF CancelHost
<1>4. /\ UNCHANGED <<queues, order, received>> /\ woken' = woken /\ woken \subseteq woken
      /\ \/ Shape[e].cleanup # 0 /\ exec' = x /\ Succeed(x, <<e>>)
         \/ ~Cancellable(e) /\ exec' = exec /\ erred' = erred
         \/ exec' = exec /\ Fail
  BY <1>2 DEF CancelHost, mishaps, ghost
<1>5. \A k \in hostWaits : k.execution \notin C => k \in hostWaits'
  BY <1>2, <1>3
<1>6. Ages(exec, exec)
  BY DEF Ages
<1>7. CASE Shape[e].cleanup # 0 /\ exec' = x /\ Succeed(x, <<e>>)
  <2>1. /\ x[e].status = "Ready" /\ x[e].generation = exec[e].generation
        /\ \A d \in Executions : d # e => x[d] = exec[d]
    BY <1>1, <1>2, <1>7, CleanupFacts
  <2>2. Ages(exec, x)
    <3>1. ASSUME NEW d \in Executions, NEW n \in Nat, Past(exec, d, n) PROVE Past(x, d, n)
      BY <2>1, <3>1 DEF Past
    <3>2. QED
      BY <3>1 DEF Ages
  <2>3. (\A d \in Executions \ C : x[d] = exec[d]) /\ \A d \in C : ~IsParked(x, d)
    BY <1>2, <2>1 DEF IsParked
  <2>4. ~erred' => ~erred
    BY <1>1, <1>7, ErredStays
  <2>5. \A d \in C : ~IsParked(exec, d) \/ SiteOf(exec, d).kind \notin {"send", "receive"} \/ d \in woken
    <3>1. e \notin woken => SiteOf(exec, e).kind = "host"
      BY <1>1, <1>3 DEF HostOK, SiteOf
    <3>2. QED
      BY <1>2, <3>1
  <2>6. exec' = x /\ UNCHANGED <<queues, order, received>>
    BY <1>4, <1>7
  <2>7. QED
    BY <1>4, <1>5, <2>2, <2>3, <2>4, <2>5, <2>6, QuietStep
<1>8. CASE ~Cancellable(e) /\ exec' = exec /\ erred' = erred
  <2>1. ~IsParked(exec, e)
    BY <1>8 DEF Cancellable, IsParked, Terminal
  <2>2. \A d \in C : ~IsParked(exec, d)
    BY <1>2, <2>1
  <2>3. exec' = exec /\ UNCHANGED <<queues, order, received>> /\ (~erred' => ~erred)
    BY <1>4, <1>8
  <2>4. QED
    BY <1>4, <1>5, <1>6, <2>2, <2>3, QuietStep
<1>9. CASE exec' = exec /\ Fail
  <2>1. erred'
    BY <1>9 DEF Fail
  <2>2. PICK D : D = {}
    OBVIOUS
  <2>3. exec' = exec /\ UNCHANGED <<queues, order, received>>
    BY <1>4, <1>9
  <2>4. QED
    BY <1>4, <1>6, <2>1, <2>2, <2>3, QuietStep
<1>10. QED
  BY <1>4, <1>7, <1>8, <1>9

\* A registration is on one queue.
LEMMA NamesOneQueue ==
  ASSUME KernelInv, NEW p \in Queues, NEW q \in Queues, NEW w \in Regs(queues[p]), w \in Regs(queues[q])
  PROVE  p = q
<1>1. ASSUME NEW z \in Queues, w \in Regs(queues[z]) PROVE \E d : WaitOK(w, z, d)
  <2>1. QueueOK(z, queues[z])
    BY RegsFacts
  <2>2. WaitOK(w, z, "send") \/ WaitOK(w, z, "receive")
    BY <1>1, <2>1, QueueOKFields DEF Regs
  <2>3. QED
    BY <2>2
<1>2. PICK c, d : WaitOK(w, p, c) /\ WaitOK(w, q, d)
  BY <1>1
<1>3. CASE w.arm = 0
  BY <1>2, <1>3 DEF WaitOK
<1>4. CASE w.arm # 0
  <2>1. [direction |-> c, queue |-> p] = [direction |-> d, queue |-> q]
    BY <1>2, <1>4 DEF WaitOK
  <2>2. QED
    BY <2>1
<1>5. QED
  BY <1>3, <1>4

\* Every wake of a closed queue has an owner: that of its execution's lowest arm.
LEMMA WakeHasOwner ==
  ASSUME NEW q \in Queues, QueueOK(q, queues[q]), NEW owners, owners = Owners(q), NEW w \in Regs(queues[q])
  PROVE  \E i \in DOMAIN owners : owners[i].execution = w.execution
<1>1. PICK s : s = CloseWakes(queues[q])
  OBVIOUS
<1>2. /\ s \in Seq(Wait) /\ Range(s) = Regs(queues[q]) /\ owners \in Seq(Wait)
      /\ \A z \in Range(s) : z \in Range(owners) <=>
           (z.arm = 0 \/ \A i \in DOMAIN s : SameRecord(s[i], z) => z.arm <= s[i].arm)
  BY <1>1, OwnersFacts DEF Regs
<1>3. PICK k \in DOMAIN s : s[k] = w
  BY <1>2 DEF Range
<1>4. \A i \in DOMAIN s : s[i] \in Wait /\ s[i].arm \in Nat
  <2>1. \A i \in DOMAIN s : s[i] \in Wait
    BY <1>2
  <2>2. QED
    BY <2>1 DEF Wait
<1>5. PICK N : N = {s[i].arm : i \in {j \in DOMAIN s : SameRecord(s[j], w)}}
  OBVIOUS
<1>6. N \in SUBSET Nat /\ N # {}
  <2>1. SameRecord(s[k], w)
    BY <1>3 DEF SameRecord
  <2>2. QED
    BY <1>4, <1>5, <2>1
<1>7. PICK n \in N : \A m \in N : n <= m
  BY <1>6, LeastNumber
<1>8. PICK j \in DOMAIN s : SameRecord(s[j], w) /\ s[j].arm = n
  BY <1>5, <1>7
<1>9. ASSUME NEW i \in DOMAIN s, SameRecord(s[i], s[j]) PROVE s[j].arm <= s[i].arm
  <2>1. SameRecord(s[i], w)
    BY <1>8, <1>9 DEF SameRecord
  <2>2. s[i].arm \in N
    BY <1>5, <2>1
  <2>3. QED
    BY <1>7, <1>8, <2>2
<1>10. s[j] \in Range(s)
  BY DEF Range
<1>11. s[j] \in Range(owners)
  BY <1>2, <1>9, <1>10
<1>12. PICK i \in DOMAIN owners : owners[i] = s[j]
  BY <1>2, <1>11 DEF Range
<1>13. QED
  BY <1>8, <1>12 DEF SameRecord

\* The waits that close_queue commits are on the closed queue.
LEMMA CommittedHere ==
  ASSUME KernelInv, AccountInv, NEW q \in Queues, NEW owners \in Seq(Wait), NEW done, done = Done(q, owners),
         NEW i \in done, NEW p \in Queues, p # q, NEW w \in Regs(queues[p]), Bound(w, woken)
  PROVE  w.execution # owners[i].execution
<1>1. PICK c, d : c = owners[i] /\ d = IF queues[q].send_waiters # <<>> THEN "send" ELSE "receive"
  OBVIOUS
<1>2. i \in 1..i
  <2>1. i \in DOMAIN owners
    BY DEF Done
  <2>2. QED
    BY <2>1
<1>3. Owns(exec, c, q, d)
  BY <1>1, <1>2 DEF Done, Gone
<1>4. SiteOf(exec, c.execution).kind = "select" \/ SiteOf(exec, c.execution).queue = q
  BY <1>3 DEF Owns, ensure_wait, ensure_select_wait, WaitsOn
<1>5. SiteOf(exec, w.execution).kind \in {"send", "receive"} /\ SiteOf(exec, w.execution).queue = p
  BY DirectFacts
<1>6. QED
  BY <1>1, <1>4, <1>5

\* close_queue.
LEMMA CloseQueueAccounts ==
  ASSUME KernelInv, AccountInv, NEW q \in Queues, CloseQueue(q)
  PROVE  AccountInv'
<1>1. ExecsOK(exec) /\ SchedulerOK /\ QueueOK(q, queues[q])
  BY DEF KernelInv, QueuesOK
<1>2. PICK owners, done, losers, x :
         /\ owners = Owners(q) /\ done = Done(q, owners) /\ losers = Losers(owners, done)
         /\ x = CloseExec(owners, done)
         /\ ~queues[q].closed
         /\ queues' = CloseQueues(q, losers)
         /\ exec' = x
         /\ Withdraw(losers \cup Range(queues[q].send_waiters))
         /\ done = DOMAIN owners => Succeed(x, CloseTurns(owners))
         /\ done # DOMAIN owners => Fail
         /\ hostWaits' = hostWaits /\ mishaps' = mishaps /\ received' = received
  BY CloseQueueDef
<1>3. owners \in Seq(Wait)
  BY <1>1, <1>2, OwnersFacts
<1>4. PICK C : C = {owners[i].execution : i \in done}
  OBVIOUS
<1>5. Leaves(exec, x, C)
  BY <1>1, <1>2, <1>3, <1>4, CloseCommits
<1>6. Ages(exec, x)
  BY <1>5, LeavesAge
<1>7. PICK v, O, W, bad : /\ v = queues' /\ O = order' /\ bad = erred'
                          /\ W = losers \cup Range(queues[q].send_waiters)
  OBVIOUS
<1>8. /\ v[q] = close(queues[q])
      /\ \A p \in Queues : p # q => v[p] = cancel(queues[p], losers)
  BY <1>2, <1>7 DEF CloseQueues
<1>9. \A p \in Queues : O[p] = Without(order[p], Offered(W, queues[p].send_waiters))
  BY <1>2, <1>7 DEF Withdraw, Offered
<1>10. \A w \in losers : w.execution \in C
  <2>1. ASSUME NEW w \in losers PROVE w.execution \in C
    <3>1. PICK i \in done : \E a : w = [owners[i] EXCEPT !.arm = a]
      BY <1>2, <2>1 DEF Losers
    <3>2. owners[i] \in Wait
      BY <1>2, <1>3 DEF Done
    <3>3. w.execution = owners[i].execution
      BY <3>1, <3>2 DEF Wait
    <3>4. QED
      BY <1>4, <3>3
  <2>2. QED
    BY <2>1
<1>11. ASSUME NEW p \in Queues, p # q
       PROVE  /\ OnceQ(x, v[p], received[p]) /\ Regs(v[p]) = Regs(queues[p]) \ losers
              /\ \A w \in Regs(v[p]) : Bound(w, woken) => w.execution \notin C
              /\ ~erred => LineOf(v, received, p) = O[p]
  <2>1. PICK u : u = v[p]
    OBVIOUS
  <2>2. u = cancel(queues[p], losers)
    BY <1>8, <1>11, <2>1
  <2>3. /\ OnceQ(x, u, received[p]) /\ Regs(u) = Regs(queues[p]) \ losers
        /\ ~erred => Line(received[p], u.payloads, u.send_waiters)
                       = Without(order[p], Offered(losers, queues[p].send_waiters))
    BY <1>6, <2>2, Cancelled
  <2>4. \A w \in Regs(u) : Bound(w, woken) => w.execution \notin C
    BY <1>2, <1>3, <1>4, <1>11, <2>3, CommittedHere
  <2>5. Offered(losers, queues[p].send_waiters) = Offered(W, queues[p].send_waiters)
    <3>1. \A w \in Regs(queues[p]) : w \notin Regs(queues[q])
      BY <1>11, NamesOneQueue
    <3>2. W \cap Range(queues[p].send_waiters) = losers \cap Range(queues[p].send_waiters)
      BY <1>7, <3>1 DEF Regs
    <3>3. QED
      BY <3>2 DEF Offered
  <2>6. QED
    BY <1>9, <2>1, <2>3, <2>4, <2>5 DEF LineOf
<1>12. /\ OnceQ(x, v[q], received[q]) /\ Regs(v[q]) = {}
       /\ ~erred => LineOf(v, received, q) = O[q]
  <2>1. PICK b, u : b = queues[q] /\ u = v[q]
    OBVIOUS
  <2>2. b \in QueueRecord /\ received[q] \in Seq(Payload) /\ OnceQ(x, b, received[q])
    BY <1>6, <2>1, RegsFacts, OnceLater
  <2>3. u = close(b) /\ close(b) = Record(b.payloads, <<>>, <<>>, TRUE)
    BY <1>8, <2>1, <2>2, OtherRecords
  <2>4. u.payloads = b.payloads /\ u.send_waiters = <<>> /\ u.receive_waiters = <<>>
    BY <2>3 DEF Record
  <2>5. OnceQ(x, u, received[q])
    BY <2>2, <2>3, CancelOnce
  <2>6. Regs(u) = {}
    BY <2>4 DEF Regs, Range
  <2>7. ASSUME ~erred PROVE LineOf(v, received, q) = O[q]
    <3>1. PICK z : z = cancel(queues[q], W)
      OBVIOUS
    <3>2. Line(received[q], z.payloads, z.send_waiters) = Without(order[q], Offered(W, queues[q].send_waiters))
      BY <1>6, <2>7, <3>1, Cancelled
    <3>3. z = Record(b.payloads, Without(b.send_waiters, W), Without(b.receive_waiters, W), b.closed)
      BY <2>1, <2>2, <3>1, OtherRecords
    <3>4. z.payloads = b.payloads /\ z.send_waiters = Without(b.send_waiters, W)
      BY <3>3 DEF Record
    <3>5. Without(b.send_waiters, W) = <<>>
      <4>1. b.send_waiters \in Seq(Wait)
        BY <2>2, QueueFields
      <4>2. PICK s : s = Without(b.send_waiters, W)
        OBVIOUS
      <4>3. s \in Seq(Wait) /\ Range(s) = Range(b.send_waiters) \ W
        BY <4>1, <4>2, WithoutFacts
      <4>4. Range(s) = {}
        BY <1>7, <2>1, <4>3
      <4>5. s = <<>>
        BY <4>3, <4>4 DEF Range
      <4>6. QED
        BY <4>2, <4>5
    <3>6. QED
      BY <1>9, <2>1, <2>4, <3>2, <3>4, <3>5 DEF LineOf
  <2>8. QED
    BY <2>1, <2>5, <2>6, <2>7
<1>13. /\ \A p \in Queues : OnceQ(x, v[p], received[p])
       /\ \A p \in Queues : \A w \in Regs(v[p]) : w \in Regs(queues[p]) /\ (Bound(w, woken) => w.execution \notin C)
       /\ ~erred => \A p \in Queues : LineOf(v, received, p) = O[p]
  BY <1>11, <1>12
<1>14. ~bad => ~erred /\ done = DOMAIN owners
  BY <1>2, <1>7 DEF Fail, Succeed
<1>15. ASSUME ~bad, NEW p \in Queues, NEW w \in Regs(queues[p]), w.execution \notin C
       PROVE  w \in Regs(v[p])
  <2>1. CASE p = q
    <3>1. PICK i \in DOMAIN owners : owners[i].execution = w.execution
      BY <1>1, <1>2, <1>15, <2>1, WakeHasOwner
    <3>2. QED
      BY <1>4, <1>14, <1>15, <3>1
  <2>2. CASE p # q
    BY <1>10, <1>11, <1>15, <2>2
  <2>3. QED
    BY <2>1, <2>2
<1>16. (\A d \in Executions \ C : x[d] = exec[d]) /\ \A d \in C : ~IsParked(x, d)
  BY <1>5 DEF Leaves, IsParked
<1>17. \A p \in Queues : \A w \in Regs(queues[p]) : w.execution \in Executions
  BY RegsFacts
<1>18. Releases(C, exec, queues, hostWaits, erred, x, v, hostWaits, bad, received, O, woken)
  BY <1>13, <1>14, <1>15, <1>16, <1>17 DEF Releases
<1>19. Accounts(x, v, hostWaits, bad, received, O, woken)
  BY <1>18, AccountStep DEF AccountInv
<1>20. QED
  BY <1>2, <1>7, <1>19 DEF AccountInv, mishaps

\* Every call keeps the accounts.
LEMMA NextAccounts == ASSUME KernelInv, AccountInv, [Next]_vars PROVE AccountInv'
<1>1. ASSUME NEW choice \in [Executions -> 1..MaxEdges], NEW n \in 0..Cardinality(Executions),
             RunRound(choice, n)
      PROVE  AccountInv'
  <2>1. n \in Nat
    OBVIOUS
  <2>2. QED
    BY <1>1, <2>1, RunRoundAccounts
<1>2. ASSUME NEW e \in Executions, SubmitSend(e) PROVE AccountInv'
  BY <1>2, SubmitSendAccounts
<1>3. ASSUME NEW e \in Executions, SubmitReceive(e) PROVE AccountInv'
  BY <1>3, SubmitReceiveAccounts
<1>4. ASSUME NEW e \in Executions, SubmitSelect(e) PROVE AccountInv'
  BY <1>4, SubmitSelectAccounts
<1>5. ASSUME NEW e \in Executions, NEW token \in HostTokens, SubmitHost(e, token) PROVE AccountInv'
  BY <1>5, SubmitHostAccounts
<1>6. ASSUME NEW e \in Executions, NEW g \in 0..MaxGeneration, RequestCancellation(e, g) PROVE AccountInv'
  BY <1>6, CancellationAccounts
<1>7. ASSUME NEW e \in Executions, Wake(e) PROVE AccountInv'
  BY <1>7, WakeAccounts
<1>12. ASSUME NEW e \in Executions, NEW g \in 0..MaxGeneration, CancelHost(e, g) PROVE AccountInv'
  BY <1>12, CancelHostAccounts
<1>8. ASSUME NEW q \in Queues, CloseQueue(q) PROVE AccountInv'
  BY <1>8, CloseQueueAccounts
<1>9. ASSUME NEW h \in hostWaits, CompleteHost(h) PROVE AccountInv'
  BY <1>9, CompleteHostAccounts
<1>10. CASE UNCHANGED vars
  <2>1. /\ exec' = exec /\ queues' = queues /\ hostWaits' = hostWaits /\ woken' = woken
        /\ erred' = erred /\ order' = order /\ received' = received
    BY <1>10 DEF vars
  <2>2. QED
    BY <2>1 DEF AccountInv
<1>11. QED
  BY <1>1, <1>2, <1>3, <1>4, <1>5, <1>6, <1>7, <1>8, <1>9, <1>10, <1>12 DEF Next

\* The accounts hold in every state.
LEMMA AccountAlways == Spec => [](KernelInv /\ AccountInv)
<1>1. Init => AccountInv
  BY InitAccounts
<1>2. KernelInv /\ AccountInv /\ [Next]_vars => AccountInv'
  BY NextAccounts
<1>3. QED
  BY <1>1, <1>2, KernelAlways, PTL DEF Spec

\* What the accounts say of payloads and waits.
LEMMA AccountProperties == KernelInv /\ AccountInv => AtMostOnce /\ NothingLostInOrder /\ WaitsAreRegistered
  BY AccountParts

\* send, receive, promote_one_sender and cancel: no payload is in two places
\* or delivered twice, after calls that fail too.
THEOREM PayloadsAreDeliveredOnce == Spec => []AtMostOnce
  BY AccountAlways, AccountProperties, PTL

\* TypedQueue is first in, first out: as long as no call failed, what was
\* admitted and not withdrawn is delivered, buffered or waiting, in its order.
THEOREM PayloadsKeepTheirOrder == Spec => []NothingLostInOrder
  BY AccountAlways, AccountProperties, PTL

\* TypedQueueRuntime and the host adapter: a direct registration belongs to the
\* wait of its execution, unless `wake` once took that execution from a
\* registered wait; and as long as no call failed a submitted wait, of a woken
\* execution too, has every registration that a match or a cancellation needs.
THEOREM WaitsStayRegistered == Spec => []WaitsAreRegistered
  BY AccountAlways, AccountProperties, PTL

=============================================================================
