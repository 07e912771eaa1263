-------------------------- MODULE CheckCache_proofs --------------------------
(***************************************************************************)
(* The verdict cache is sound and the parallel check is sequential, for    *)
(* any number of processes, jobs, workers, functions and keys, and with    *)
(* every fault of the model.                                               *)
(*                                                                         *)
(* The invariant says what may be in a table or a file (Tables), where a   *)
(* worker may be and what that says of its function (Control), that every  *)
(* index taken has a result or a worker on it (Filled), and that a result  *)
(* is the one of a sequential check (ResultsTrue).                         *)
(*                                                                         *)
(* The second half is about claims and files: at most one worker checks a  *)
(* large function at a time unless its claim was spoilt, and a file that   *)
(* decode refuses is one that a worker is still writing.                   *)
(***************************************************************************)
EXTENDS CheckCache, FiniteSetTheorems, WellFoundedInduction, TLAPS

Writing == {"write", "data", "rename", "unlink", "publish"}
Busy == Writing \cup {"memo", "store", "open", "try", "wait", "drop", "reread", "check"}
Contents == {None, "partial", "complete"}
Sound == {<<k, Sites[k]>> : k \in Admitted}
SoundAffine == {<<k, Sites[k], Proofs[j]>> : k \in Admitted, j \in Jobs}
Job(t) == JobOf[t]
Size(j) == Len(Module[j])
Result(k) == IF k \in Admitted THEN Ok(Sites[k]) ELSE Rejected
Possible == {None} \cup {Result(k) : k \in Keys}

Points == Busy \cup {"next", "exit", "dead"}
Claims == {"none", "held", "waited", "dropping"}
Handles == {"none", "temp", "file"}
WorkerType ==
  [pc : Points, index : Nat, claim : Claims, lock : Nat, handle : Handles]

Types ==
  /\ worker \in [Workers -> WorkerType]
  /\ lockFile \in [Keys -> Nat]
  /\ next \in [Jobs -> Nat]
  /\ DOMAIN outcome = Jobs
  /\ \A j \in Jobs : results[j] \in [1..Size(j) -> Possible]
  /\ results \in [Jobs -> UNION {[1..Size(j) -> Possible] : j \in Jobs}]

\* What can be replayed.
Tables ==
  /\ memo \in [Processes -> SUBSET Sound]
  /\ affine \in [Processes -> SUBSET SoundAffine]
  /\ file \in [Keys -> Contents]
  /\ temp \in [Processes -> [Keys -> Contents]]
  /\ \A k \in Keys : file[k] # None => k \in Admitted
  /\ \A p \in Processes, k \in Keys : temp[p][k] # None => k \in Admitted

\* A worker that left the loop found it finished, or is the only one of its
\* job and has met a result that ends it.
LeftLoop(t) ==
  \/ next[Job(t)] = Size(Job(t))
  \/ /\ Single(Job(t))
     /\ next[Job(t)] \in 1..Size(Job(t))
     /\ results[Job(t)][next[Job(t)]] # None
     /\ Refuses(results[Job(t)], next[Job(t)], results[Job(t)][next[Job(t)]])

Control ==
  \A t \in Workers :
    /\ worker[t].pc \in Busy => worker[t].index \in 1..next[Job(t)]
    /\ (worker[t].pc \in Busy /\ Single(Job(t))) => worker[t].index = next[Job(t)]
    /\ worker[t].pc \in Writing => Key(t) \in Admitted
    /\ worker[t].pc = "dead" => outcome[Job(t)] # None
    /\ worker[t].pc = "exit" => LeftLoop(t)

\* A worker of job j is on index i.
On(j, i) == \E t \in Workers : Job(t) = j /\ worker[t].pc \in Busy /\ worker[t].index = i

Filled ==
  \A j \in Jobs :
    /\ next[j] \in 0..Size(j)
    /\ \A i \in 1..Size(j) :
         /\ i > next[j] => results[j][i] = None
         /\ (i <= next[j] /\ results[j][i] = None /\ outcome[j] = None) => On(j, i)

ResultsTrue ==
  \A j \in Jobs : \A i \in 1..Size(j) : results[j][i] \in {None, Result(Module[j][i])}

IInv == Types /\ Tables /\ Control /\ Filled /\ ResultsTrue /\ OutcomeIsSequential

------------------------------------------------------------------------------
(* Constants.                                                              *)

LEMMA Constants ==
  /\ \A t \in Workers : Job(t) \in Jobs /\ Process(t) \in Processes
  /\ \A j \in Jobs : /\ Size(j) \in Nat /\ DOMAIN Module[j] = 1..Size(j)
                     /\ \A i \in 1..Size(j) : Module[j][i] \in Keys
  BY CacheAssumption DEF Job, Process, Size

\* map_ordered with one worker: any two workers of the job are the same.
LEMMA SingleWorker ==
  ASSUME NEW t \in Workers, NEW u \in Workers, Job(t) = Job(u), Single(Job(t))
  PROVE  t = u
<1> DEFINE S == {v \in Workers : JobOf[v] = Job(t)}
<1>1. IsFiniteSet(S)
  BY CacheAssumption, FS_Subset
<1>2. PICK x : S = {x}
  BY <1>1, FS_Singleton DEF Single
<1>3. t \in S /\ u \in S
  BY DEF Job
<1>4. QED
  BY <1>2, <1>3

\* The function of a busy worker is one of its module's.
LEMMA BusyKey ==
  ASSUME Types, Control, Filled, NEW t \in Workers, worker[t].pc \in Busy
  PROVE  /\ worker[t].index \in 1..Size(Job(t))
         /\ Key(t) = Module[Job(t)][worker[t].index] /\ Key(t) \in Keys
<1>1. Job(t) \in Jobs /\ next[Job(t)] \in 0..Size(Job(t)) /\ Size(Job(t)) \in Nat
  BY Constants DEF Filled
<1>2. worker[t].index \in 1..next[Job(t)]
  BY DEF Control
<1>3. worker[t].index \in 1..Size(Job(t))
  BY <1>1, <1>2
<1>4. QED
  BY <1>1, <1>3, Constants DEF Key, Job

\* No result is None.
LEMMA ResultIsSome == \A k \in Keys : Result(k) # None /\ Result(k) \in Possible
  BY NoneAssumption DEF Result, Ok, Rejected, Possible

\* What is in a table or in a complete file is the result of its key.
LEMMA SoundResult ==
  ASSUME NEW k \in Keys, NEW sites,
         \/ <<k, sites>> \in Sound
         \/ Tables /\ sites \in decode(k)
  PROVE  <<k, sites>> \in Sound /\ k \in Admitted /\ Ok(sites) = Result(k)
<1>1. CASE <<k, sites>> \in Sound
  BY <1>1 DEF Sound, Result
<1>2. CASE Tables /\ sites \in decode(k)
  <2>1. file[k] = "complete" /\ sites = Sites[k]
    BY <1>2 DEF decode
  <2>2. k \in Admitted
    BY <1>2, <2>1, NoneAssumption DEF Tables
  <2>3. QED
    BY <2>1, <2>2 DEF Sound, Result
<1>3. QED
  BY <1>1, <1>2

\* Assignments to fields of a worker.
LEMMA Fields ==
  ASSUME NEW w \in WorkerType
  PROVE  /\ \A c \in Points : LET v == [w EXCEPT !.pc = c]
                              IN v \in WorkerType /\ v.pc = c /\ v.index = w.index
         /\ \A n \in Nat : LET v == [w EXCEPT !.index = n]
                           IN v \in WorkerType /\ v.pc = w.pc /\ v.index = n
         /\ \A c \in Claims : LET v == [w EXCEPT !.claim = c]
                              IN v \in WorkerType /\ v.pc = w.pc /\ v.index = w.index
         /\ \A n \in Nat : LET v == [w EXCEPT !.lock = n]
                           IN v \in WorkerType /\ v.pc = w.pc /\ v.index = w.index
         /\ \A h \in Handles : LET v == [w EXCEPT !.handle = h]
                               IN v \in WorkerType /\ v.pc = w.pc /\ v.index = w.index
  BY DEF WorkerType

LEMMA Update ==
  ASSUME worker \in [Workers -> WorkerType], NEW t \in Workers, NEW w \in WorkerType,
         worker' = [worker EXCEPT ![t] = w]
  PROVE  /\ worker' \in [Workers -> WorkerType] /\ worker'[t] = w
         /\ \A u \in Workers : u # t => worker'[u] = worker[u]
  OBVIOUS

\* Worker t goes to c and nothing else that the invariant speaks of changes.
Moved(t, c) ==
  /\ worker' \in [Workers -> WorkerType]
  /\ worker'[t].pc = c /\ worker'[t].index = worker[t].index
  /\ \A u \in Workers : u # t => worker'[u] = worker[u]

\* The assignments the actions make, each for the worker that acts.
LEMMA SetIndex ==
  ASSUME worker \in [Workers -> WorkerType], NEW t \in Workers, NEW c \in Points, NEW n \in Nat,
         worker' = [worker EXCEPT ![t].pc = c, ![t].index = n]
  PROVE  /\ worker' \in [Workers -> WorkerType]
         /\ worker'[t].pc = c /\ worker'[t].index = n
         /\ \A u \in Workers : u # t => worker'[u] = worker[u]
<1> DEFINE w1 == [worker[t] EXCEPT !.pc = c]
           w2 == [w1 EXCEPT !.index = n]
<1>1. w1 \in WorkerType /\ w1.pc = c
  BY Fields
<1> HIDE DEF w1
<1>2. w2 \in WorkerType /\ w2.pc = c /\ w2.index = n
  BY <1>1, Fields
<1>3. worker' = [worker EXCEPT ![t] = w2]
  BY DEF w1
<1> HIDE DEF w2
<1>4. QED
  BY <1>2, <1>3, Update

LEMMA SetPc ==
  ASSUME worker \in [Workers -> WorkerType], NEW t \in Workers, NEW c \in Points,
         worker' = [worker EXCEPT ![t].pc = c]
  PROVE  Moved(t, c)
<1> DEFINE w1 == [worker[t] EXCEPT !.pc = c]
<1>1. w1 \in WorkerType /\ w1.pc = c /\ w1.index = worker[t].index
  BY Fields
<1>2. worker' = [worker EXCEPT ![t] = w1]
  OBVIOUS
<1> HIDE DEF w1
<1>3. QED
  BY <1>1, <1>2, Update DEF Moved

LEMMA SetLock ==
  ASSUME worker \in [Workers -> WorkerType], NEW t \in Workers, NEW c \in Points, NEW n \in Nat,
         worker' = [worker EXCEPT ![t].pc = c, ![t].lock = n]
  PROVE  Moved(t, c)
<1> DEFINE w1 == [worker[t] EXCEPT !.pc = c]
           w2 == [w1 EXCEPT !.lock = n]
<1>1. w1 \in WorkerType /\ w1.pc = c /\ w1.index = worker[t].index
  BY Fields
<1> HIDE DEF w1
<1>2. w2 \in WorkerType /\ w2.pc = c /\ w2.index = worker[t].index
  BY <1>1, Fields
<1>3. worker' = [worker EXCEPT ![t] = w2]
  BY DEF w1
<1> HIDE DEF w2
<1>4. QED
  BY <1>2, <1>3, Update DEF Moved

LEMMA SetHandle ==
  ASSUME worker \in [Workers -> WorkerType], NEW t \in Workers, NEW c \in Points, NEW h \in Handles,
         worker' = [worker EXCEPT ![t].pc = c, ![t].handle = h]
  PROVE  Moved(t, c)
<1> DEFINE w1 == [worker[t] EXCEPT !.pc = c]
           w2 == [w1 EXCEPT !.handle = h]
<1>1. w1 \in WorkerType /\ w1.pc = c /\ w1.index = worker[t].index
  BY Fields
<1> HIDE DEF w1
<1>2. w2 \in WorkerType /\ w2.pc = c /\ w2.index = worker[t].index
  BY <1>1, Fields
<1>3. worker' = [worker EXCEPT ![t] = w2]
  BY DEF w1
<1> HIDE DEF w2
<1>4. QED
  BY <1>2, <1>3, Update DEF Moved

LEMMA SetClaim ==
  ASSUME worker \in [Workers -> WorkerType], NEW t \in Workers, NEW c \in Points, NEW m \in Claims,
         \/ worker' = [worker EXCEPT ![t].pc = c, ![t].claim = m]
         \/ worker' = [worker EXCEPT ![t].pc = c, ![t].claim = m, ![t].lock = 0]
         \/ worker' = [worker EXCEPT ![t].pc = c, ![t].claim = m, ![t].lock = 0, ![t].handle = "none"]
  PROVE  Moved(t, c)
<1> DEFINE w1 == [worker[t] EXCEPT !.pc = c]
           w2 == [w1 EXCEPT !.claim = m]
           w3 == [w2 EXCEPT !.lock = 0]
           w4 == [w3 EXCEPT !.handle = "none"]
<1>1. w1 \in WorkerType /\ w1.pc = c /\ w1.index = worker[t].index
  BY Fields
<1> HIDE DEF w1
<1>2. w2 \in WorkerType /\ w2.pc = c /\ w2.index = worker[t].index
  BY <1>1, Fields
<1> HIDE DEF w2
<1>3. w3 \in WorkerType /\ w3.pc = c /\ w3.index = worker[t].index
  <2>1. PICK z \in Nat : z = 0
    OBVIOUS
  <2>2. LET v == [w2 EXCEPT !.lock = z]
        IN v \in WorkerType /\ v.pc = c /\ v.index = worker[t].index
    BY <1>2, Fields
  <2>3. QED
    BY <2>1, <2>2
<1> HIDE DEF w3
<1>4. w4 \in WorkerType /\ w4.pc = c /\ w4.index = worker[t].index
  BY <1>3, Fields DEF Handles
<1> HIDE DEF w4
<1>5. CASE worker' = [worker EXCEPT ![t].pc = c, ![t].claim = m]
  <2>1. worker' = [worker EXCEPT ![t] = w2]
    BY <1>5 DEF w1, w2
  <2>2. QED
    BY <1>2, <2>1, Update DEF Moved
<1>6. CASE worker' = [worker EXCEPT ![t].pc = c, ![t].claim = m, ![t].lock = 0]
  <2>1. worker' = [worker EXCEPT ![t] = w3]
    BY <1>6 DEF w1, w2, w3
  <2>2. QED
    BY <1>3, <2>1, Update DEF Moved
<1>7. CASE worker' = [worker EXCEPT ![t].pc = c, ![t].claim = m, ![t].lock = 0, ![t].handle = "none"]
  <2>1. worker' = [worker EXCEPT ![t] = w4]
    BY <1>7 DEF w1, w2, w3, w4
  <2>2. QED
    BY <1>4, <2>1, Update DEF Moved
<1>8. QED
  BY <1>5, <1>6, <1>7

LEMMA InsertIsSound ==
  ASSUME NEW S, NEW table \in SUBSET S, NEW entry \in S
  PROVE  insert(table, entry) \in SUBSET S
  BY DEF insert

------------------------------------------------------------------------------
(* Steps that change no index and end no function.                         *)

Moves ==
  \A u \in Workers :
    /\ worker'[u].index = worker[u].index
    /\ \/ worker'[u].pc = worker[u].pc
       \/ /\ worker[u].pc \in Busy /\ worker'[u].pc \in Busy
          /\ worker'[u].pc \in Writing => Key(u) \in Admitted

LEMMA MoveKeeps ==
  ASSUME IInv, Moves, UNCHANGED <<next, results, outcome>>
  PROVE  Control' /\ Filled' /\ ResultsTrue' /\ OutcomeIsSequential'
<1>1. Control'
  <2> SUFFICES ASSUME NEW t \in Workers
               PROVE  /\ worker'[t].pc \in Busy => worker'[t].index \in 1..next'[Job(t)]
                      /\ (worker'[t].pc \in Busy /\ Single(Job(t))) => worker'[t].index = next'[Job(t)]
                      /\ worker'[t].pc \in Writing => Key(t)' \in Admitted
                      /\ worker'[t].pc = "dead" => outcome'[Job(t)] # None
                      /\ worker'[t].pc = "exit" => LeftLoop(t)'
    BY DEF Control, Job, Single
  <2>1. Key(t)' = Key(t) /\ (LeftLoop(t)' <=> LeftLoop(t))
    BY DEF Key, LeftLoop, Moves, Single, Refuses, Job
  <2>2. "dead" \notin Busy /\ "exit" \notin Busy /\ Writing \subseteq Busy
    BY DEF Busy, Writing
  <2>3. QED
    BY <2>1, <2>2 DEF Moves, IInv, Control
<1>2. Filled'
  <2> SUFFICES ASSUME NEW j \in Jobs, NEW i \in 1..Size(j), On(j, i) PROVE On(j, i)'
    BY DEF IInv, Filled, Size
  <2>1. PICK t \in Workers : Job(t) = j /\ worker[t].pc \in Busy /\ worker[t].index = i
    BY DEF On
  <2>2. worker'[t].pc \in Busy /\ worker'[t].index = i
    BY <2>1 DEF Moves
  <2>3. QED
    BY <2>1, <2>2 DEF On, Job
<1>3. ResultsTrue' /\ OutcomeIsSequential'
  BY DEF IInv, ResultsTrue, OutcomeIsSequential, Size, Verdict, Refused, Refuses
<1>4. QED
  BY <1>1, <1>2, <1>3

------------------------------------------------------------------------------
(* check_one returns.                                                      *)

LEMMA ReturnKeeps ==
  ASSUME IInv, NEW t \in Workers, worker[t].pc \in Busy, NEW r, r = Result(Key(t)),
         Return(t, r), UNCHANGED <<next, outcome, lockFile>>
  PROVE  Types' /\ Control' /\ Filled' /\ ResultsTrue' /\ OutcomeIsSequential'
<1> DEFINE j == Job(t)
           i == worker[t].index
<1>1. /\ j \in Jobs /\ i \in 1..Size(j) /\ Key(t) = Module[j][i] /\ Key(t) \in Keys
      /\ Size(j) \in Nat /\ r # None /\ r \in Possible
  BY BusyKey, Constants, ResultIsSome DEF IInv
<1>2. /\ worker'[t].pc = (IF Single(j) /\ Refuses(results[j], i, r) THEN "exit" ELSE "next")
      /\ worker' \in [Workers -> WorkerType]
      /\ \A u \in Workers : u # t => worker'[u] = worker[u]
  <2> DEFINE c == IF Single(j) /\ Refuses(results[j], i, r) THEN "exit" ELSE "next"
  <2>1. c \in {"exit", "next"}
    OBVIOUS
  <2>2. worker' = [worker EXCEPT ![t].pc = c, ![t].claim = "none", ![t].lock = 0,
                                 ![t].handle = "none"]
    BY DEF Return, Job
  <2>3. worker \in [Workers -> WorkerType]
    BY DEF IInv, Types
  <2> HIDE DEF c
  <2>4. Moved(t, c)
    <3>1. c \in Points /\ "none" \in Claims
      BY <2>1 DEF Points, Claims
    <3>2. QED
      BY <2>2, <2>3, <3>1, SetClaim
  <2>5. QED
    BY <2>4 DEF c, Moved
<1>3. /\ results'[j] = [results[j] EXCEPT ![i] = r]
      /\ DOMAIN results' = Jobs
      /\ results' = [results EXCEPT ![j] = results'[j]]
      /\ \A h \in Jobs : h # j => results'[h] = results[h]
  BY <1>1 DEF Return, IInv, Types, Job
<1>4. /\ results'[j] \in [1..Size(j) -> Possible] /\ results'[j][i] = r
      /\ \A h \in 1..Size(j) : h # i => results'[j][h] = results[j][h]
  BY <1>1, <1>3 DEF IInv, Types
<1>5. Types'
  <2>1. \A h \in Jobs : results'[h] \in [1..Size(h) -> Possible]
    BY <1>3, <1>4 DEF IInv, Types
  <2>2. results' \in [Jobs -> UNION {[1..Size(h) -> Possible] : h \in Jobs}]
    BY <2>1, <1>3 DEF IInv, Types
  <2>3. QED
    BY <1>2, <2>1, <2>2 DEF IInv, Types, Size, Possible
<1>6. "exit" \notin Busy /\ "next" \notin Busy /\ Writing \subseteq Busy
  BY DEF Busy, Writing
<1>7. Control'
  <2> SUFFICES ASSUME NEW u \in Workers
               PROVE  /\ worker'[u].pc \in Busy => worker'[u].index \in 1..next'[Job(u)]
                      /\ (worker'[u].pc \in Busy /\ Single(Job(u))) => worker'[u].index = next'[Job(u)]
                      /\ worker'[u].pc \in Writing => Key(u)' \in Admitted
                      /\ worker'[u].pc = "dead" => outcome'[Job(u)] # None
                      /\ worker'[u].pc = "exit" => LeftLoop(u)'
    BY DEF Control, Job, Single
  <2>1. CASE u = t
    <3>1. worker'[t].pc \in {"exit", "next"}
      BY <1>2
    <3>2. ASSUME worker'[t].pc = "exit" PROVE LeftLoop(t)'
      <4>1. Single(j) /\ Refuses(results[j], i, r)
        BY <1>2, <3>2
      <4>2. next[j] = i
        BY <4>1 DEF IInv, Control
      <4>3. Refuses(results'[j], i, r)
        <5>1. \A h \in 1..(i - 1) : results'[j][h] = results[j][h]
          BY <1>1, <1>4
        <5>2. QED
          BY <4>1, <5>1 DEF Refuses
      <4>4. next'[j] \in 1..Size(j) /\ results'[j][next'[j]] = r
        BY <4>2, <1>1, <1>4
      <4>5. QED
        BY <4>1, <4>2, <4>3, <4>4, <1>1 DEF LeftLoop, Job, Single, Size
    <3>3. QED
      BY <2>1, <3>1, <3>2, <1>6
  <2>2. CASE u # t
    <3>1. worker'[u] = worker[u] /\ Key(u)' = Key(u)
      BY <2>2, <1>2 DEF Key
    <3>2. ASSUME worker[u].pc = "exit" PROVE LeftLoop(u)'
      <4>1. LeftLoop(u)
        BY <3>2 DEF IInv, Control
      <4>2. CASE Job(u) # j
        BY <4>1, <4>2, <1>3, Constants DEF LeftLoop, Job, Single, Refuses, Size
      <4>3. CASE Job(u) = j
        <5>1. ~Single(j)
          BY <4>3, <2>2, SingleWorker
        <5>2. QED
          BY <4>1, <4>3, <5>1 DEF LeftLoop, Job, Size
      <4>4. QED
        BY <4>2, <4>3
    <3>3. QED
      BY <3>1, <3>2 DEF IInv, Control
  <2>3. QED
    BY <2>1, <2>2
<1>8. Filled'
  <2> SUFFICES ASSUME NEW h \in Jobs
               PROVE  /\ next'[h] \in 0..Size(h)
                      /\ \A g \in 1..Size(h) :
                           /\ g > next'[h] => results'[h][g] = None
                           /\ (g <= next'[h] /\ results'[h][g] = None /\ outcome'[h] = None)
                                => On(h, g)'
    BY DEF Filled, Size
  <2>1. next'[h] \in 0..Size(h)
    BY DEF IInv, Filled
  <2>2. ASSUME NEW g \in 1..Size(h)
        PROVE  /\ g > next'[h] => results'[h][g] = None
               /\ (g <= next'[h] /\ results'[h][g] = None /\ outcome'[h] = None) => On(h, g)'
    <3>1. CASE h = j /\ g = i
      <4>1. i \in 1..next[j] /\ next[j] \in Nat
        BY <1>1 DEF IInv, Control, Types
      <4>2. QED
        BY <3>1, <4>1, <1>1, <1>4
    <3>2. CASE ~(h = j /\ g = i)
      <4>1. results'[h][g] = results[h][g]
        BY <3>2, <1>3, <1>4
      <4>2. ASSUME On(h, g) PROVE On(h, g)'
        <5>1. PICK u \in Workers : Job(u) = h /\ worker[u].pc \in Busy /\ worker[u].index = g
          BY <4>2 DEF On
        <5>2. u # t
          BY <5>1, <3>2
        <5>3. QED
          BY <5>1, <5>2, <1>2 DEF On, Job
      <4>3. QED
        BY <4>1, <4>2 DEF IInv, Filled
    <3>3. QED
      BY <3>1, <3>2
  <2>3. QED
    BY <2>1, <2>2
<1>9. ResultsTrue'
  <2> SUFFICES ASSUME NEW h \in Jobs, NEW g \in 1..Size(h)
               PROVE  results'[h][g] \in {None, Result(Module[h][g])}
    BY DEF ResultsTrue, Size, Result, Ok, Rejected
  <2>1. CASE h = j /\ g = i
    BY <2>1, <1>1, <1>4
  <2>2. CASE ~(h = j /\ g = i)
    BY <2>2, <1>3, <1>4 DEF IInv, ResultsTrue
  <2>3. QED
    BY <2>1, <2>2
<1>10. OutcomeIsSequential'
  BY DEF IInv, OutcomeIsSequential
<1>11. QED
  BY <1>5, <1>7, <1>8, <1>9, <1>10

------------------------------------------------------------------------------
(* The loop of a worker.                                                   *)

LEMMA TakeIndexKeeps == ASSUME IInv, NEW t \in Workers, TakeIndex(t) PROVE IInv'
<1> DEFINE j == Job(t)
<1>1. /\ j \in Jobs /\ Size(j) \in Nat /\ next[j] \in 0..Size(j) /\ next[j] \in Nat
      /\ worker[t].pc = "next"
  BY Constants DEF IInv, Filled, Types, TakeIndex, At
<1>2. Tables' /\ ResultsTrue' /\ OutcomeIsSequential'
  BY DEF TakeIndex, files, IInv, Tables, ResultsTrue, OutcomeIsSequential
<1>3. CASE next[j] < Size(j)
  <2>1. /\ worker' = [worker EXCEPT ![t].pc = "memo", ![t].index = next[j] + 1]
        /\ next' = [next EXCEPT ![j] = @ + 1]
        /\ UNCHANGED <<results, outcome, lockFile>>
    BY <1>3 DEF TakeIndex, Job, Size
  <2>2. /\ worker' \in [Workers -> WorkerType]
        /\ worker'[t].pc = "memo" /\ worker'[t].index = next[j] + 1
        /\ \A u \in Workers : u # t => worker'[u] = worker[u]
    <3>1. worker \in [Workers -> WorkerType] /\ "memo" \in Points
      BY DEF IInv, Types, Busy, Points
    <3>2. PICK n \in Nat : n = next[j] + 1
      BY <1>1
    <3>3. QED
      BY <2>1, <3>1, <3>2, SetIndex
  <2>3. /\ next' \in [Jobs -> Nat] /\ next'[j] = next[j] + 1
        /\ \A h \in Jobs : h # j => next'[h] = next[h]
    BY <2>1, <1>1 DEF IInv, Types
  <2>4. Types'
    BY <2>1, <2>2, <2>3 DEF IInv, Types
  <2>5. Control'
    <3> SUFFICES ASSUME NEW u \in Workers
                 PROVE  /\ worker'[u].pc \in Busy => worker'[u].index \in 1..next'[Job(u)]
                        /\ (worker'[u].pc \in Busy /\ Single(Job(u))) => worker'[u].index = next'[Job(u)]
                        /\ worker'[u].pc \in Writing => Key(u)' \in Admitted
                        /\ worker'[u].pc = "dead" => outcome'[Job(u)] # None
                        /\ worker'[u].pc = "exit" => LeftLoop(u)'
      BY DEF Control, Job, Single
    <3>1. CASE u = t
      BY <3>1, <2>2, <2>3, <1>1 DEF Writing
    <3>2. CASE u # t /\ Job(u) # j
      <4>1. worker'[u] = worker[u] /\ next'[Job(u)] = next[Job(u)] /\ Key(u)' = Key(u)
        BY <3>2, <2>2, <2>3, Constants DEF Key
      <4>2. LeftLoop(u)' <=> LeftLoop(u)
        BY <4>1, <2>1 DEF LeftLoop, Job, Single, Size, Refuses
      <4>3. QED
        BY <4>1, <4>2, <2>1 DEF IInv, Control
    <3>3. CASE u # t /\ Job(u) = j
      <4>1. ~Single(j)
        BY <3>3, SingleWorker
      <4>2. worker'[u] = worker[u] /\ Key(u)' = Key(u)
        BY <3>3, <2>2 DEF Key
      <4>3. worker[u].pc # "exit"
        BY <1>1, <1>3, <3>3, <4>1 DEF IInv, Control, LeftLoop
      <4>4. worker[u].pc \in Busy => worker[u].index \in 1..next'[j]
        BY <1>1, <2>3, <3>3 DEF IInv, Control
      <4>5. QED
        BY <3>3, <4>1, <4>2, <4>3, <4>4, <2>1 DEF IInv, Control
    <3>4. QED
      BY <3>1, <3>2, <3>3
  <2>6. Filled'
    <3> SUFFICES ASSUME NEW h \in Jobs
                 PROVE  /\ next'[h] \in 0..Size(h)
                        /\ \A g \in 1..Size(h) :
                             /\ g > next'[h] => results[h][g] = None
                             /\ (g <= next'[h] /\ results[h][g] = None /\ outcome[h] = None)
                                  => On(h, g)'
      BY <2>1 DEF Filled, Size
    <3>1. ASSUME NEW g \in 1..Size(h), On(h, g) PROVE On(h, g)'
      <4>1. PICK u \in Workers : Job(u) = h /\ worker[u].pc \in Busy /\ worker[u].index = g
        BY <3>1 DEF On
      <4>2. u # t
        BY <4>1, <1>1 DEF Busy, Writing
      <4>3. QED
        BY <4>1, <4>2, <2>2 DEF On, Job
    <3>2. CASE h # j
      BY <3>1, <3>2, <2>3 DEF IInv, Filled
    <3>3. CASE h = j
      <4>0. PICK n \in Nat : n = next[j] + 1
        BY <1>1
      <4>1. On(j, n)'
        BY <4>0, <2>2 DEF On, Job, Busy
      <4>2. ASSUME NEW g \in 1..Size(h)
            PROVE  /\ g > next'[h] => results[h][g] = None
                   /\ (g <= next'[h] /\ results[h][g] = None /\ outcome[h] = None) => On(h, g)'
        <5>1. CASE g = next[j] + 1
          BY <5>1, <4>0, <4>1, <3>3, <2>3, <1>1
        <5>2. CASE g # next[j] + 1
          <6>1. g \in Int /\ (g > next'[h] => g > next[h]) /\ (g <= next'[h] => g <= next[h])
            BY <5>2, <3>3, <2>3, <1>1
          <6>2. QED
            BY <6>1, <3>1 DEF IInv, Filled
        <5>3. QED
          BY <5>1, <5>2
      <4>3. next'[h] \in 0..Size(h)
        BY <3>3, <2>3, <1>1, <1>3
      <4>4. QED
        BY <4>2, <4>3
    <3>4. QED
      BY <3>2, <3>3
  <2>7. QED
    BY <1>2, <2>4, <2>5, <2>6 DEF IInv
<1>4. CASE ~(next[j] < Size(j))
  <2>1. worker' = [worker EXCEPT ![t].pc = "exit"] /\ UNCHANGED <<next, results, outcome, lockFile>>
    BY <1>4 DEF TakeIndex, Goto, Job, Size
  <2>2. /\ worker' \in [Workers -> WorkerType] /\ worker'[t].pc = "exit"
        /\ \A u \in Workers : u # t => worker'[u] = worker[u]
    <3>1. worker \in [Workers -> WorkerType] /\ "exit" \in Points
      BY DEF IInv, Types, Points
    <3>2. QED
      BY <2>1, <3>1, SetPc DEF Moved
  <2>3. Types'
    BY <2>1, <2>2 DEF IInv, Types
  <2>4. next[j] = Size(j)
    BY <1>1, <1>4
  <2>5. Control'
    <3> SUFFICES ASSUME NEW u \in Workers
                 PROVE  /\ worker'[u].pc \in Busy => worker'[u].index \in 1..next'[Job(u)]
                        /\ (worker'[u].pc \in Busy /\ Single(Job(u))) => worker'[u].index = next'[Job(u)]
                        /\ worker'[u].pc \in Writing => Key(u)' \in Admitted
                        /\ worker'[u].pc = "dead" => outcome'[Job(u)] # None
                        /\ worker'[u].pc = "exit" => LeftLoop(u)'
      BY DEF Control, Job, Single
    <3>1. CASE u = t
      BY <3>1, <2>1, <2>2, <2>4 DEF Writing, Busy, LeftLoop, Job, Size
    <3>2. CASE u # t
      <4>1. worker'[u] = worker[u] /\ Key(u)' = Key(u) /\ (LeftLoop(u)' <=> LeftLoop(u))
        BY <3>2, <2>1, <2>2 DEF Key, LeftLoop, Job, Single, Size, Refuses
      <4>2. QED
        BY <4>1, <2>1 DEF IInv, Control
    <3>3. QED
      BY <3>1, <3>2
  <2>6. Filled'
    <3> SUFFICES ASSUME NEW h \in Jobs, NEW g \in 1..Size(h), On(h, g) PROVE On(h, g)'
      BY <2>1 DEF IInv, Filled, Size
    <3>1. PICK u \in Workers : Job(u) = h /\ worker[u].pc \in Busy /\ worker[u].index = g
      BY DEF On
    <3>2. u # t
      BY <3>1, <1>1 DEF Busy, Writing
    <3>3. QED
      BY <3>1, <3>2, <2>2 DEF On, Job
  <2>7. QED
    BY <1>2, <2>3, <2>5, <2>6 DEF IInv
<1>5. QED
  BY <1>3, <1>4

------------------------------------------------------------------------------
(* The other actions of a worker.                                          *)

LEMMA MovedKeeps ==
  ASSUME IInv, NEW t \in Workers, NEW c \in Busy, worker[t].pc \in Busy, Moved(t, c),
         c \in Writing => Key(t) \in Admitted, UNCHANGED <<next, results, outcome, lockFile>>
  PROVE  Types' /\ Control' /\ Filled' /\ ResultsTrue' /\ OutcomeIsSequential'
<1>1. Moves
  BY DEF Moves, Moved
<1>2. Types'
  BY DEF Moved, IInv, Types
<1>3. QED
  BY <1>1, <1>2, MoveKeeps

LEMMA TablesUnchanged ==
  ASSUME Tables, UNCHANGED <<memo, affine, files>> PROVE Tables'
  BY DEF Tables, files

\* A sound verdict goes into a table of the process.
LEMMA MemoGrows ==
  ASSUME Tables, NEW p \in Processes, NEW k, NEW sites, <<k, sites>> \in Sound,
         UNCHANGED <<files, affine>>, memo' = [memo EXCEPT ![p] = insert(@, <<k, sites>>)]
  PROVE  Tables'
<1>1. insert(memo[p], <<k, sites>>) \in SUBSET Sound
  BY InsertIsSound DEF Tables
<1>2. memo' \in [Processes -> SUBSET Sound]
  BY <1>1 DEF Tables
<1>3. QED
  BY <1>2 DEF Tables, files

LEMMA AffineGrows ==
  ASSUME Tables, NEW p \in Processes, NEW k, NEW sites, <<k, sites>> \in Sound, NEW j \in Jobs,
         UNCHANGED <<files, memo>>,
         affine' = [affine EXCEPT ![p] = insert(@, <<k, sites, Proofs[j]>>)]
  PROVE  Tables'
<1>1. <<k, sites, Proofs[j]>> \in SoundAffine
  BY DEF Sound, SoundAffine
<1>2. insert(affine[p], <<k, sites, Proofs[j]>>) \in SUBSET SoundAffine
  BY <1>1, InsertIsSound DEF Tables
<1>3. affine' \in [Processes -> SUBSET SoundAffine]
  BY <1>2 DEF Tables
<1>4. QED
  BY <1>3 DEF Tables, files

LEMMA RememberKeeps ==
  ASSUME Tables, NEW t \in Workers, Process(t) \in Processes, NEW sites,
         <<Key(t), sites>> \in Sound, UNCHANGED files, Remember(t, sites)
  PROVE  Tables'
<1>1. JobOf[t] \in Jobs
  BY CacheAssumption
<1>2. QED
  BY <1>1, MemoGrows, AffineGrows DEF Remember

LEMMA LookupMemoKeeps == ASSUME IInv, NEW t \in Workers, LookupMemo(t) PROVE IInv'
<1> DEFINE p == Process(t)
           proofs == Proofs[JobOf[t]]
           hits == IF proofs = None THEN {v \in memo[p] : v[1] = Key(t)}
                   ELSE {v \in affine[p] : v[1] = Key(t) /\ v[3] = proofs}
<1>1. /\ worker[t].pc = "memo" /\ worker[t].pc \in Busy /\ "store" \in Busy
      /\ "store" \notin Writing /\ Busy \subseteq Points
      /\ UNCHANGED <<next, outcome, memo, affine, files, lockFile>>
  BY DEF LookupMemo, At, Busy, Writing, Points
<1>2. Key(t) \in Keys /\ p \in Processes
  BY <1>1, BusyKey, Constants DEF IInv
<1>3. Tables'
  BY <1>1, TablesUnchanged DEF IInv
<1>4. CASE \E v \in hits : Return(t, Ok(v[2]))
  <2>1. PICK v \in hits : Return(t, Ok(v[2]))
    BY <1>4
  <2>2. v \in Sound \cup SoundAffine /\ v[1] = Key(t)
    BY <1>2 DEF IInv, Tables
  <2>3. <<Key(t), v[2]>> \in Sound
    BY <2>2 DEF Sound, SoundAffine
  <2>4. Ok(v[2]) = Result(Key(t))
    BY <2>3, <1>2, SoundResult
  <2>5. QED
    BY <1>1, <1>3, <2>1, <2>4, ReturnKeeps DEF IInv
<1>5. CASE worker' = Goto(t, "store") /\ UNCHANGED results
  <2>1. Moved(t, "store")
    BY <1>1, <1>5, SetPc DEF Goto, IInv, Types
  <2>2. QED
    BY <1>1, <1>3, <1>5, <2>1, MovedKeeps DEF IInv
<1>6. QED
  BY <1>4, <1>5 DEF LookupMemo

LEMMA LookupStoreKeeps == ASSUME IInv, NEW t \in Workers, LookupStore(t) PROVE IInv'
<1>1. /\ worker[t].pc = "store" /\ worker[t].pc \in Busy /\ {"open", "check"} \subseteq Busy
      /\ {"open", "check"} \cap Writing = {} /\ Busy \subseteq Points
      /\ UNCHANGED <<next, outcome, files, lockFile>>
  BY DEF LookupStore, At, Busy, Writing, Points
<1>2. Key(t) \in Keys /\ Process(t) \in Processes
  BY <1>1, BusyKey, Constants DEF IInv
<1>3. CASE \E sites \in decode(Key(t)) : Remember(t, sites) /\ Return(t, Ok(sites))
  <2>1. PICK sites \in decode(Key(t)) : Remember(t, sites) /\ Return(t, Ok(sites))
    BY <1>3
  <2>2. <<Key(t), sites>> \in Sound /\ Ok(sites) = Result(Key(t))
    BY <1>2, SoundResult DEF IInv
  <2>3. Tables'
    BY <1>1, <1>2, <2>1, <2>2, RememberKeeps DEF IInv
  <2>4. QED
    BY <1>1, <2>1, <2>2, <2>3, ReturnKeeps DEF IInv
<1>4. CASE /\ worker' = Goto(t, IF Key(t) \in Large THEN "open" ELSE "check")
           /\ UNCHANGED <<results, memo, affine>>
  <2>1. PICK c \in {"open", "check"} : worker' = Goto(t, c)
    BY <1>4
  <2>2. Moved(t, c)
    BY <1>1, <2>1, SetPc DEF Goto, IInv, Types
  <2>3. Tables'
    BY <1>1, <1>4, TablesUnchanged DEF IInv
  <2>4. c \in Busy /\ c \notin Writing
    BY <1>1
  <2>5. QED
    BY <1>1, <1>4, <2>2, <2>3, <2>4, MovedKeeps DEF IInv
<1>5. QED
  BY <1>3, <1>4 DEF LookupStore

\* The steps of claim, up to the second read.
LEMMA ClaimKeeps ==
  ASSUME IInv, NEW t \in Workers,
         OpenLock(t) \/ TryLock(t) \/ Acquire(t) \/ DropLock(t) \/ ClaimFails(t)
  PROVE  IInv'
<1> DEFINE Stops == {"try", "reread", "wait", "drop", "check"}
<1>1. /\ worker[t].pc \in Busy /\ Stops \subseteq Busy /\ Stops \subseteq Points
      /\ \A c \in Stops : c \notin Writing
      /\ UNCHANGED <<next, results, outcome, memo, affine, files, lockFile>>
  BY DEF OpenLock, TryLock, Acquire, DropLock, ClaimFails, At, Busy, Writing, Points
<1>2. Key(t) \in Keys
  BY <1>1, BusyKey DEF IInv
<1>3. Tables'
  BY <1>1, TablesUnchanged DEF IInv
<1>4. worker \in [Workers -> WorkerType] /\ Claims = {"none", "held", "waited", "dropping"}
  BY DEF IInv, Types, Claims
<1>5. \E c \in Stops : Moved(t, c)
  <2>1. CASE OpenLock(t)
    <3>1. lockFile[Key(t)] \in Nat
      BY <1>2 DEF IInv, Types
    <3>2. worker' = [worker EXCEPT ![t].pc = "try", ![t].lock = lockFile[Key(t)]]
      BY <2>1 DEF OpenLock
    <3>3. Moved(t, "try")
      BY <3>1, <3>2, <1>1, <1>4, SetLock
    <3>4. QED
      BY <3>3
  <2>2. CASE TryLock(t)
    <3>1. CASE worker' = [worker EXCEPT ![t].pc = "reread", ![t].claim = "held"]
      <4>1. Moved(t, "reread")
        BY <3>1, <1>1, <1>4, SetClaim
      <4>2. QED
        BY <4>1
    <3>2. CASE worker' = [worker EXCEPT ![t].pc = "wait"]
      <4>1. Moved(t, "wait")
        BY <3>2, <1>1, <1>4, SetPc
      <4>2. QED
        BY <4>1
    <3>3. QED
      BY <2>2, <3>1, <3>2 DEF TryLock, Goto
  <2>3. CASE Acquire(t)
    <3>1. worker' = [worker EXCEPT ![t].pc = "drop", ![t].claim = "dropping"]
      BY <2>3 DEF Acquire
    <3>2. Moved(t, "drop")
      BY <3>1, <1>1, <1>4, SetClaim
    <3>3. QED
      BY <3>2
  <2>4. CASE DropLock(t)
    <3>1. worker' = [worker EXCEPT ![t].pc = "reread", ![t].claim = "waited", ![t].lock = 0]
      BY <2>4 DEF DropLock
    <3>2. Moved(t, "reread")
      BY <3>1, <1>1, <1>4, SetClaim
    <3>3. QED
      BY <3>2
  <2>5. CASE ClaimFails(t)
    <3>1. PICK z \in Nat : z = 0
      OBVIOUS
    <3>2. worker' = [worker EXCEPT ![t].pc = "check", ![t].lock = z]
      BY <2>5, <3>1 DEF ClaimFails
    <3>3. Moved(t, "check")
      BY <3>2, <1>1, <1>4, SetLock
    <3>4. QED
      BY <3>3
  <2>6. QED
    BY <2>1, <2>2, <2>3, <2>4, <2>5
<1>6. QED
  BY <1>1, <1>3, <1>5, MovedKeeps DEF IInv

LEMMA PublishedKeeps == ASSUME IInv, NEW t \in Workers, Published(t) PROVE IInv'
<1>1. /\ worker[t].pc = "reread" /\ worker[t].pc \in Busy /\ "check" \in Busy
      /\ "check" \notin Writing /\ Busy \subseteq Points
      /\ UNCHANGED <<next, outcome, affine, files, lockFile>>
  BY DEF Published, At, Busy, Writing, Points
<1>2. Key(t) \in Keys /\ Process(t) \in Processes
  BY <1>1, BusyKey, Constants DEF IInv
<1>3. CASE \E sites \in decode(Key(t)) :
             /\ memo' = [memo EXCEPT ![Process(t)] = insert(@, <<Key(t), sites>>)]
             /\ Return(t, Ok(sites))
  <2>1. PICK sites \in decode(Key(t)) :
               /\ memo' = [memo EXCEPT ![Process(t)] = insert(@, <<Key(t), sites>>)]
               /\ Return(t, Ok(sites))
    BY <1>3
  <2>2. <<Key(t), sites>> \in Sound /\ Ok(sites) = Result(Key(t))
    BY <1>2, SoundResult DEF IInv
  <2>3. Tables'
    BY <1>1, <1>2, <2>1, <2>2, MemoGrows DEF IInv
  <2>4. QED
    BY <1>1, <2>1, <2>2, <2>3, ReturnKeeps DEF IInv
<1>4. CASE worker' = Goto(t, "check") /\ UNCHANGED <<memo, results>>
  <2>1. Moved(t, "check")
    BY <1>1, <1>4, SetPc DEF Goto, IInv, Types
  <2>2. Tables'
    BY <1>1, <1>4, TablesUnchanged DEF IInv
  <2>3. QED
    BY <1>1, <1>4, <2>1, <2>2, MovedKeeps DEF IInv
<1>5. QED
  BY <1>3, <1>4 DEF Published

LEMMA CheckFunctionKeeps == ASSUME IInv, NEW t \in Workers, CheckFunction(t) PROVE IInv'
<1>1. /\ worker[t].pc = "check" /\ worker[t].pc \in Busy /\ "write" \in Busy
      /\ Busy \subseteq Points /\ UNCHANGED <<next, outcome, files, lockFile>>
  BY DEF CheckFunction, At, Busy, Writing, Points
<1>2. Key(t) \in Keys /\ Process(t) \in Processes
  BY <1>1, BusyKey, Constants DEF IInv
<1>3. CASE Key(t) \notin Admitted
  <2>1. Return(t, Rejected) /\ Rejected = Result(Key(t)) /\ UNCHANGED <<memo, affine>>
    BY <1>3 DEF CheckFunction, Result
  <2>2. Tables'
    BY <1>1, <2>1, TablesUnchanged DEF IInv
  <2>3. QED
    BY <1>1, <2>1, <2>2, ReturnKeeps DEF IInv
<1>4. CASE Key(t) \in Admitted
  <2>1. /\ Remember(t, Sites[Key(t)]) /\ <<Key(t), Sites[Key(t)]>> \in Sound
        /\ Ok(Sites[Key(t)]) = Result(Key(t))
    BY <1>4 DEF CheckFunction, Result, Sound
  <2>2. Tables'
    BY <1>1, <1>2, <2>1, RememberKeeps DEF IInv
  <2>3. CASE worker' = Goto(t, "write") /\ UNCHANGED results
    <3>1. Moved(t, "write")
      BY <1>1, <2>3, SetPc DEF Goto, IInv, Types
    <3>2. QED
      BY <1>1, <1>4, <2>2, <2>3, <3>1, MovedKeeps DEF IInv
  <2>4. CASE Return(t, Ok(Sites[Key(t)]))
    BY <1>1, <2>1, <2>2, <2>4, ReturnKeeps DEF IInv
  <2>5. QED
    BY <1>4, <2>3, <2>4 DEF CheckFunction
<1>5. QED
  BY <1>3, <1>4


------------------------------------------------------------------------------
(* The file of a verdict.                                                  *)

\* A content for the temporary file of an admitted key.
LEMMA TempUpdate ==
  ASSUME Tables, NEW p \in Processes, NEW k \in Keys, NEW x \in Contents,
         x # None => k \in Admitted, temp' = [temp EXCEPT ![p][k] = x]
  PROVE  /\ temp' \in [Processes -> [Keys -> Contents]]
         /\ \A q \in Processes, l \in Keys : temp'[q][l] # None => l \in Admitted
<1> DEFINE T == [temp[p] EXCEPT ![k] = x]
<1>1. T \in [Keys -> Contents] /\ \A l \in Keys : T[l] # None => l \in Admitted
  BY DEF Tables
<1>2. temp' = [temp EXCEPT ![p] = T]
  BY DEF Tables
<1> HIDE DEF T
<1>3. QED
  BY <1>1, <1>2 DEF Tables

\* A content for the verdict file of an admitted key.
LEMMA FileUpdate ==
  ASSUME Tables, NEW k \in Admitted, NEW x \in Contents, file' = [file EXCEPT ![k] = x]
  PROVE  file' \in [Keys -> Contents] /\ \A l \in Keys : file'[l] # None => l \in Admitted
  BY CacheAssumption DEF Tables

LEMMA WritingKey ==
  ASSUME IInv, NEW t \in Workers, worker[t].pc \in Writing
  PROVE  /\ worker[t].pc \in Busy /\ Key(t) \in Keys /\ Key(t) \in Admitted
         /\ Process(t) \in Processes
<1>1. worker[t].pc \in Busy
  BY DEF Busy
<1>2. QED
  BY <1>1, BusyKey, Constants DEF IInv, Control

LEMMA OpenTemporaryKeeps == ASSUME IInv, NEW t \in Workers, OpenTemporary(t) PROVE IInv'
<1>1. /\ worker[t].pc \in Writing /\ "data" \in Busy /\ "data" \in Points
      /\ "temp" \in Handles /\ "partial" \in Contents
      /\ worker' = [worker EXCEPT ![t].pc = "data", ![t].handle = "temp"]
      /\ temp' = [temp EXCEPT ![Process(t)][Key(t)] = "partial"]
      /\ UNCHANGED <<next, results, outcome, memo, affine, file, lockFile>>
  BY DEF OpenTemporary, At, Busy, Writing, Points, Handles, Contents
<1>2. /\ worker[t].pc \in Busy /\ Key(t) \in Keys /\ Key(t) \in Admitted
      /\ Process(t) \in Processes
  BY <1>1, WritingKey
<1>3. Tables'
  BY <1>1, <1>2, TempUpdate DEF IInv, Tables
<1>4. Moved(t, "data")
  BY <1>1, SetHandle DEF IInv, Types
<1>5. QED
  BY <1>1, <1>2, <1>3, <1>4, MovedKeeps DEF IInv

LEMMA WriteDataKeeps == ASSUME IInv, NEW t \in Workers, WriteData(t) PROVE IInv'
<1>1. /\ worker[t].pc \in Writing /\ "rename" \in Busy /\ "rename" \in Points
      /\ "none" \in Handles /\ "complete" \in Contents
      /\ worker' = [worker EXCEPT ![t].pc = "rename", ![t].handle = "none"]
      /\ file' = file \/ file' = [file EXCEPT ![Key(t)] = "complete"]
      /\ temp' = temp \/ temp' = [temp EXCEPT ![Process(t)][Key(t)] = "complete"]
      /\ UNCHANGED <<next, results, outcome, memo, affine, lockFile>>
  BY DEF WriteData, At, Busy, Writing, Points, Handles, Contents
<1>2. /\ worker[t].pc \in Busy /\ Key(t) \in Keys /\ Key(t) \in Admitted
      /\ Process(t) \in Processes
  BY <1>1, WritingKey
<1>3. Tables'
  <2>1. /\ temp' \in [Processes -> [Keys -> Contents]]
        /\ \A q \in Processes, l \in Keys : temp'[q][l] # None => l \in Admitted
    BY <1>1, <1>2, TempUpdate DEF IInv, Tables
  <2>2. file' \in [Keys -> Contents] /\ \A l \in Keys : file'[l] # None => l \in Admitted
    BY <1>1, <1>2, FileUpdate DEF IInv, Tables
  <2>3. QED
    BY <1>1, <2>1, <2>2 DEF IInv, Tables
<1>4. Moved(t, "rename")
  BY <1>1, SetHandle DEF IInv, Types
<1>5. QED
  BY <1>1, <1>2, <1>3, <1>4, MovedKeeps DEF IInv

\* Handles that lose or change their name.
LEMMA RelinkedKeeps ==
  ASSUME worker \in [Workers -> WorkerType], NEW p, NEW k
  PROVE  /\ Relinked(p, k) \in [Workers -> WorkerType]
         /\ \A u \in Workers : /\ Relinked(p, k)[u].pc = worker[u].pc
                               /\ Relinked(p, k)[u].index = worker[u].index
<1> SUFFICES ASSUME NEW u \in Workers
             PROVE  /\ Relinked(p, k)[u] \in WorkerType
                    /\ Relinked(p, k)[u].pc = worker[u].pc
                    /\ Relinked(p, k)[u].index = worker[u].index
  BY DEF Relinked
<1>1. \A h \in Handles : LET v == [worker[u] EXCEPT !.handle = h]
                         IN v \in WorkerType /\ v.pc = worker[u].pc /\ v.index = worker[u].index
  BY Fields
<1>2. \/ Relinked(p, k)[u] = worker[u]
      \/ Relinked(p, k)[u] = [worker[u] EXCEPT !.handle = "file"]
      \/ Relinked(p, k)[u] = [worker[u] EXCEPT !.handle = "none"]
  BY DEF Relinked
<1>3. "file" \in Handles /\ "none" \in Handles
  BY DEF Handles
<1>4. QED
  BY <1>1, <1>2, <1>3

LEMMA RenameKeeps == ASSUME IInv, NEW t \in Workers, Rename(t) PROVE IInv'
<1> DEFINE p == Process(t)
           k == Key(t)
<1>1. /\ worker[t].pc \in Writing /\ {"publish", "unlink"} \subseteq Busy
      /\ {"publish", "unlink"} \subseteq Points
      /\ UNCHANGED <<next, results, outcome, memo, affine, lockFile>>
  BY DEF Rename, At, Busy, Writing, Points
<1>2. worker[t].pc \in Busy /\ k \in Keys /\ k \in Admitted /\ p \in Processes
  BY <1>1, WritingKey
<1>3. CASE temp[p][k] # None
  <2>1. /\ file' = [file EXCEPT ![k] = temp[p][k]]
        /\ temp' = [temp EXCEPT ![p][k] = None]
        /\ worker' = [Relinked(p, k) EXCEPT ![t].pc = "publish"]
    BY <1>3 DEF Rename
  <2>2. Tables'
    <3>1. temp[p][k] \in Contents /\ None \in Contents
      BY <1>2 DEF IInv, Tables, Contents
    <3>2. /\ temp' \in [Processes -> [Keys -> Contents]]
          /\ \A q \in Processes, l \in Keys : temp'[q][l] # None => l \in Admitted
      BY <2>1, <1>2, <3>1, TempUpdate DEF IInv
    <3>3. file' \in [Keys -> Contents] /\ \A l \in Keys : file'[l] # None => l \in Admitted
      BY <2>1, <1>2, <3>1, FileUpdate DEF IInv
    <3>4. QED
      BY <1>1, <3>2, <3>3 DEF IInv, Tables
  <2>3. /\ worker' \in [Workers -> WorkerType]
        /\ worker'[t].pc = "publish" /\ worker'[t].index = worker[t].index
        /\ \A u \in Workers : u # t => worker'[u].pc = worker[u].pc /\ worker'[u].index = worker[u].index
    <3> DEFINE R == Relinked(p, k)
               w == [R[t] EXCEPT !.pc = "publish"]
    <3>1. /\ R \in [Workers -> WorkerType]
          /\ \A u \in Workers : R[u].pc = worker[u].pc /\ R[u].index = worker[u].index
      BY RelinkedKeeps DEF IInv, Types
    <3>2. worker' = [R EXCEPT ![t].pc = "publish"]
      BY <2>1
    <3> HIDE DEF R
    <3>3. w \in WorkerType /\ w.pc = "publish" /\ w.index = worker[t].index
      BY <1>1, <3>1, Fields
    <3>4. worker' = [R EXCEPT ![t] = w]
      BY <3>1, <3>2
    <3> HIDE DEF w
    <3>5. QED
      BY <3>1, <3>3, <3>4
  <2>4. Moves
    BY <1>1, <1>2, <2>3 DEF Moves
  <2>5. Types'
    BY <1>1, <2>3 DEF IInv, Types
  <2>6. QED
    BY <1>1, <2>2, <2>4, <2>5, MoveKeeps DEF IInv
<1>4. CASE worker' = Goto(t, "unlink") /\ UNCHANGED files
  <2>1. Moved(t, "unlink")
    BY <1>1, <1>4, SetPc DEF Goto, IInv, Types
  <2>2. Tables'
    BY <1>1, <1>4, TablesUnchanged DEF IInv
  <2>3. QED
    BY <1>1, <1>2, <1>4, <2>1, <2>2, MovedKeeps DEF IInv
<1>5. QED
  BY <1>3, <1>4 DEF Rename

LEMMA WriteFailsKeeps == ASSUME IInv, NEW t \in Workers, WriteFails(t) PROVE IInv'
<1>1. /\ worker[t].pc \in Writing /\ "unlink" \in Busy /\ "unlink" \in Points
      /\ "none" \in Handles
      /\ worker' = [worker EXCEPT ![t].pc = "unlink", ![t].handle = "none"]
      /\ UNCHANGED <<next, results, outcome, memo, affine, files, lockFile>>
  BY DEF WriteFails, Busy, Writing, Points, Handles
<1>2. worker[t].pc \in Busy /\ Key(t) \in Admitted
  BY <1>1, WritingKey
<1>3. Tables'
  BY <1>1, TablesUnchanged DEF IInv
<1>4. Moved(t, "unlink")
  BY <1>1, SetHandle DEF IInv, Types
<1>5. QED
  BY <1>1, <1>2, <1>3, <1>4, MovedKeeps DEF IInv

LEMMA RemoveTemporaryKeeps == ASSUME IInv, NEW t \in Workers, RemoveTemporary(t) PROVE IInv'
<1> DEFINE p == Process(t)
           k == Key(t)
<1>1. /\ worker[t].pc \in Writing /\ "publish" \in Busy /\ "publish" \in Points
      /\ temp' = [temp EXCEPT ![p][k] = None] /\ None \in Contents /\ "none" \in Handles
      /\ UNCHANGED <<next, results, outcome, memo, affine, file, lockFile>>
  BY DEF RemoveTemporary, At, Busy, Writing, Points, Contents, Handles
<1>2. worker[t].pc \in Busy /\ k \in Keys /\ k \in Admitted /\ p \in Processes
  BY <1>1, WritingKey
<1>3. Tables'
  BY <1>1, <1>2, TempUpdate DEF IInv, Tables
<1>4. /\ DOMAIN worker' = Workers
      /\ worker' = [u \in Workers |-> worker'[u]]
      /\ worker'[t] = [worker[t] EXCEPT !.pc = "publish"]
      /\ \A u \in Workers : u # t => \/ worker'[u] = worker[u]
                                     \/ worker'[u] = [worker[u] EXCEPT !.handle = "none"]
  BY DEF RemoveTemporary
<1>5. ASSUME NEW u \in Workers
      PROVE  /\ worker'[u] \in WorkerType /\ worker'[u].index = worker[u].index
             /\ worker'[u].pc = (IF u = t THEN "publish" ELSE worker[u].pc)
  <2>0. worker[u] \in WorkerType
    BY DEF IInv, Types
  <2>1. CASE u = t
    <3>1. LET v == [worker[t] EXCEPT !.pc = "publish"]
          IN v \in WorkerType /\ v.pc = "publish" /\ v.index = worker[t].index
      BY <1>1, <2>0, <2>1, Fields
    <3>2. QED
      BY <1>4, <2>1, <3>1
  <2>2. CASE u # t
    <3>1. LET v == [worker[u] EXCEPT !.handle = "none"]
          IN v \in WorkerType /\ v.pc = worker[u].pc /\ v.index = worker[u].index
      BY <1>1, <2>0, Fields
    <3>2. QED
      BY <1>4, <2>0, <2>2, <3>1
  <2>3. QED
    BY <2>1, <2>2
<1>6. Types'
  <2>1. worker' \in [Workers -> WorkerType]
    BY <1>4, <1>5
  <2>2. QED
    BY <1>1, <2>1 DEF IInv, Types
<1>7. Moves
  BY <1>1, <1>2, <1>5 DEF Moves
<1>8. QED
  BY <1>1, <1>3, <1>6, <1>7, MoveKeeps DEF IInv

LEMMA ReturnVerdictKeeps == ASSUME IInv, NEW t \in Workers, ReturnVerdict(t) PROVE IInv'
<1>1. /\ worker[t].pc \in Writing /\ Return(t, Ok(Sites[Key(t)]))
      /\ UNCHANGED <<next, outcome, memo, affine, files, lockFile>>
  BY DEF ReturnVerdict, At, Writing
<1>2. worker[t].pc \in Busy /\ Ok(Sites[Key(t)]) = Result(Key(t))
  BY <1>1, WritingKey DEF Result
<1>3. Tables'
  BY <1>1, TablesUnchanged DEF IInv
<1>4. QED
  BY <1>1, <1>2, <1>3, ReturnKeeps DEF IInv


------------------------------------------------------------------------------
(* Faults.                                                                 *)

LEMMA CrashKeeps == ASSUME IInv, NEW p \in Processes, Crash(p) PROVE IInv'
<1>1. /\ worker' = [t \in Workers |->
                      IF Process(t) = p THEN [worker[t] EXCEPT !.pc = "dead", !.claim = "none",
                                                               !.lock = 0, !.handle = "none"]
                      ELSE worker[t]]
      /\ outcome' = [j \in Jobs |-> IF ProcessOf[j] = p /\ outcome[j] = None
                                    THEN <<"Crashed", 0>> ELSE outcome[j]]
      /\ UNCHANGED <<next, results, memo, affine, files, lockFile>>
  BY DEF Crash
<1>2. ASSUME NEW u \in Workers
      PROVE  /\ worker'[u] \in WorkerType
             /\ Process(u) = p => worker'[u].pc = "dead"
             /\ Process(u) # p => worker'[u] = worker[u]
  <2>0. worker[u] \in WorkerType
    BY DEF IInv, Types
  <2>1. CASE Process(u) = p
    <3> DEFINE w1 == [worker[u] EXCEPT !.pc = "dead"]
               w2 == [w1 EXCEPT !.claim = "none"]
               w3 == [w2 EXCEPT !.lock = 0]
               w4 == [w3 EXCEPT !.handle = "none"]
    <3>1. "dead" \in Points /\ "none" \in Claims /\ "none" \in Handles
      BY DEF Points, Claims, Handles
    <3>2. w1 \in WorkerType /\ w1.pc = "dead"
      BY <2>0, <3>1, Fields
    <3> HIDE DEF w1
    <3>3. w2 \in WorkerType /\ w2.pc = "dead"
      BY <3>1, <3>2, Fields
    <3> HIDE DEF w2
    <3>4. w3 \in WorkerType /\ w3.pc = "dead"
      <4>1. PICK z \in Nat : z = 0
        OBVIOUS
      <4>2. LET v == [w2 EXCEPT !.lock = z] IN v \in WorkerType /\ v.pc = "dead"
        BY <3>3, Fields
      <4>3. QED
        BY <4>1, <4>2
    <3> HIDE DEF w3
    <3>5. w4 \in WorkerType /\ w4.pc = "dead"
      BY <3>1, <3>4, Fields
    <3>6. worker'[u] = w4
      BY <1>1, <2>0, <2>1 DEF w1, w2, w3
    <3> HIDE DEF w4
    <3>7. QED
      BY <2>1, <3>5, <3>6
  <2>2. CASE Process(u) # p
    BY <1>1, <2>0, <2>2
  <2>3. QED
    BY <2>1, <2>2
<1>3. ASSUME NEW j \in Jobs
      PROVE  /\ outcome[j] # None => outcome'[j] # None
             /\ ProcessOf[j] = p => outcome'[j] # None
             /\ outcome'[j] \in {outcome[j], <<"Crashed", 0>>}
  BY <1>1, NoneAssumption
<1>4. Types'
  <2>1. worker' \in [Workers -> WorkerType]
    BY <1>1, <1>2
  <2>2. QED
    BY <1>1, <2>1 DEF IInv, Types
<1>5. Tables'
  BY <1>1, TablesUnchanged DEF IInv
<1>6. Control'
  <2> SUFFICES ASSUME NEW t \in Workers
               PROVE  /\ worker'[t].pc \in Busy => worker'[t].index \in 1..next'[Job(t)]
                      /\ (worker'[t].pc \in Busy /\ Single(Job(t))) => worker'[t].index = next'[Job(t)]
                      /\ worker'[t].pc \in Writing => Key(t)' \in Admitted
                      /\ worker'[t].pc = "dead" => outcome'[Job(t)] # None
                      /\ worker'[t].pc = "exit" => LeftLoop(t)'
    BY DEF Control, Job, Single
  <2>0. Job(t) \in Jobs /\ ProcessOf[Job(t)] = Process(t)
    BY Constants DEF Job, Process
  <2>1. CASE Process(t) = p
    BY <2>0, <2>1, <1>2, <1>3 DEF Busy, Writing
  <2>2. CASE Process(t) # p
    <3>1. worker'[t] = worker[t] /\ Key(t)' = Key(t) /\ (LeftLoop(t)' <=> LeftLoop(t))
      BY <2>2, <1>1, <1>2 DEF Key, LeftLoop, Job, Single, Size, Refuses
    <3>2. QED
      BY <2>0, <3>1, <1>1, <1>3 DEF IInv, Control
  <2>3. QED
    BY <2>1, <2>2
<1>7. Filled'
  <2> SUFFICES ASSUME NEW j \in Jobs, outcome'[j] = None, NEW i \in 1..Size(j), On(j, i)
               PROVE  On(j, i)'
    BY <1>1, <1>3 DEF IInv, Filled, Size
  <2>1. PICK t \in Workers : Job(t) = j /\ worker[t].pc \in Busy /\ worker[t].index = i
    BY DEF On
  <2>2. worker'[t] = worker[t]
    BY <2>1, <1>2, <1>3 DEF Job, Process
  <2>3. QED
    BY <2>1, <2>2 DEF On, Job
<1>8. ResultsTrue' /\ OutcomeIsSequential'
  <2>1. ResultsTrue'
    BY <1>1 DEF IInv, ResultsTrue
  <2>2. OutcomeIsSequential'
    BY <1>3 DEF IInv, OutcomeIsSequential
  <2>3. QED
    BY <2>1, <2>2
<1>9. QED
  BY <1>4, <1>5, <1>6, <1>7, <1>8 DEF IInv

LEMMA PruneKeeps == ASSUME IInv, Prune PROVE IInv'
<1>1. /\ file' = [k \in Keys |-> None]
      /\ temp' = [p \in Processes |-> [k \in Keys |-> None]]
      /\ lockFile' = [k \in Keys |-> lockFile[k] + 1]
      /\ worker' = [t \in Workers |-> [worker[t] EXCEPT !.handle = "none"]]
      /\ UNCHANGED <<next, results, outcome, memo, affine>>
  BY DEF Prune
<1>2. ASSUME NEW u \in Workers
      PROVE  /\ worker'[u] \in WorkerType
             /\ worker'[u].pc = worker[u].pc /\ worker'[u].index = worker[u].index
  <2>1. LET v == [worker[u] EXCEPT !.handle = "none"]
        IN v \in WorkerType /\ v.pc = worker[u].pc /\ v.index = worker[u].index
    BY Fields DEF IInv, Types, Handles
  <2>2. worker'[u] = [worker[u] EXCEPT !.handle = "none"]
    BY <1>1
  <2>3. QED
    BY <2>1, <2>2
<1>3. Types'
  <2>1. worker' \in [Workers -> WorkerType]
    BY <1>1, <1>2
  <2>2. lockFile' \in [Keys -> Nat]
    BY <1>1 DEF IInv, Types
  <2>3. QED
    BY <1>1, <2>1, <2>2 DEF IInv, Types
<1>4. Tables'
  <2>1. /\ file' \in [Keys -> Contents] /\ \A k \in Keys : file'[k] = None
        /\ temp' \in [Processes -> [Keys -> Contents]]
        /\ \A p \in Processes, k \in Keys : temp'[p][k] = None
    BY <1>1 DEF Contents
  <2>2. QED
    BY <1>1, <2>1 DEF IInv, Tables
<1>5. Moves
  BY <1>2 DEF Moves
<1>6. QED
  BY <1>1, <1>3, <1>4, <1>5, MoveKeeps DEF IInv

------------------------------------------------------------------------------
(* The module's verdict.                                                   *)

LEMMA Least ==
  ASSUME NEW S \in SUBSET Nat, S # {}
  PROVE  \E x \in S : \A y \in S : x <= y
<1>1. PICK x \in S : \A y \in S : ~(<<y, x>> \in OpToRel(<, Nat))
  BY WFMin, NatLessThanWellFounded
<1>2. \A y \in S : ~(y < x)
  BY <1>1 DEF OpToRel
<1>3. QED
  BY <1>2

LEMMA LeastIsChosen ==
  ASSUME NEW S \in SUBSET Nat, NEW x \in S, \A y \in S : x <= y
  PROVE  (CHOOSE i \in S : \A h \in S : i <= h) = x
<1> DEFINE c == CHOOSE i \in S : \A h \in S : i <= h
<1>1. c \in S /\ \A h \in S : c <= h
  OBVIOUS
<1> HIDE DEF c
<1>2. c <= x /\ x <= c /\ c \in Nat /\ x \in Nat
  BY <1>1
<1>3. c = x
  BY <1>2
<1>4. QED
  BY <1>3 DEF c

\* A check that stops at a refused result returns what the whole one returns.
LEMMA VerdictOfPrefix ==
  ASSUME NEW j \in Jobs, NEW m \in 1..Size(j), NEW rs,
         rs = [i \in 1..m |-> Truth(j)[i]], m \in Refused(rs)
  PROVE  Verdict(j, rs) = Verdict(j, Truth(j))
<1> DEFINE T == Truth(j)
<1>1. Size(j) \in Nat /\ m \in Nat /\ DOMAIN T = 1..Size(j) /\ DOMAIN rs = 1..m
  BY Constants DEF Truth
<1>2. \A i \in 1..m : rs[i] = T[i]
  OBVIOUS
<1> HIDE DEF T
<1>3. ASSUME NEW i \in 1..m PROVE i \in Refused(rs) <=> i \in Refused(T)
  <2>1. \A h \in 1..(i - 1) : h \in 1..m
    BY <1>1
  <2>2. \A h \in 1..(i - 1) : rs[h] = T[h]
    BY <1>2, <2>1
  <2>3. Refuses(rs, i, rs[i]) <=> Refuses(T, i, T[i])
    BY <1>2, <2>2 DEF Refuses
  <2>4. i \in DOMAIN rs /\ i \in DOMAIN T
    BY <1>1
  <2>5. QED
    BY <2>3, <2>4 DEF Refused
<1>4. Refused(rs) \subseteq 1..m /\ Refused(T) \subseteq 1..Size(j)
  BY <1>1 DEF Refused
<1>5. PICK x \in Refused(rs) : \A y \in Refused(rs) : x <= y
  <2>1. Refused(rs) \in SUBSET Nat /\ Refused(rs) # {}
    BY <1>1, <1>4, SMTT(30)
  <2>2. QED
    BY <2>1, Least
<1>6. x \in 1..m /\ x \in Refused(T)
  BY <1>3, <1>4, <1>5
<1>7. \A y \in Refused(T) : x <= y
  <2> SUFFICES ASSUME NEW y \in Refused(T) PROVE x <= y
    OBVIOUS
  <2>1. CASE y \in 1..m
    BY <2>1, <1>3, <1>5
  <2>2. CASE y \notin 1..m
    BY <2>2, <1>1, <1>4, <1>6
  <2>3. QED
    BY <2>1, <2>2
<1>8. (CHOOSE i \in Refused(rs) : \A h \in Refused(rs) : i <= h) = x
  BY <1>1, <1>4, <1>5, LeastIsChosen
<1>9. (CHOOSE i \in Refused(T) : \A h \in Refused(T) : i <= h) = x
  BY <1>1, <1>4, <1>6, <1>7, LeastIsChosen
<1>10. Verdict(j, rs) = <<IF rs[x].ok THEN "DuplicateTailObligation" ELSE "Rejected", x>>
  BY <1>5, <1>8 DEF Verdict
<1>11. Verdict(j, T) = <<IF T[x].ok THEN "DuplicateTailObligation" ELSE "Rejected", x>>
  BY <1>6, <1>9 DEF Verdict
<1>12. QED
  BY <1>2, <1>6, <1>10, <1>11 DEF T

LEMMA ConsumeKeeps == ASSUME IInv, NEW j \in Jobs, Consume(j) PROVE IInv'
<1> DEFINE found == {i \in DOMAIN Module[j] : results[j][i] # None}
           n == Cardinality(found)
           rs == [i \in 1..n |-> results[j][i]]
<1>1. /\ \A t \in Workers : JobOf[t] = j => worker[t].pc = "exit"
      /\ outcome[j] = None
      /\ outcome' = [outcome EXCEPT ![j] = Verdict(j, rs)]
      /\ UNCHANGED <<worker, next, results, memo, affine, files, lockFile>>
  BY DEF Consume, At
<1>2. Size(j) \in Nat /\ DOMAIN Module[j] = 1..Size(j) /\ next[j] \in 0..Size(j)
  BY Constants DEF IInv, Filled
<1>3. \A i \in 1..Size(j) : results[j][i] # None <=> i <= next[j]
  <2>1. \A i \in 1..Size(j) : ~On(j, i)
    BY <1>1 DEF On, Job, Busy, Writing
  <2>2. QED
    BY <1>1, <1>2, <2>1 DEF IInv, Filled
<1>4. found = 1..next[j]
  BY <1>2, <1>3
<1>5. n = next[j]
  <2>1. PICK m \in Nat : m = next[j]
    BY <1>2
  <2>2. Cardinality(1..m) = m
    BY FS_Interval
  <2>3. QED
    BY <1>4, <2>1, <2>2
<1>6. \A i \in 1..next[j] : results[j][i] = Truth(j)[i]
  <2> SUFFICES ASSUME NEW i \in 1..next[j] PROVE results[j][i] = Truth(j)[i]
    OBVIOUS
  <2>1. i \in 1..Size(j) /\ results[j][i] # None
    BY <1>2, <1>3
  <2>2. results[j][i] = Result(Module[j][i])
    BY <2>1 DEF IInv, ResultsTrue
  <2>3. QED
    BY <2>1, <2>2, <1>2 DEF Truth, Result
<1>7. rs = [i \in 1..next[j] |-> Truth(j)[i]]
  BY <1>5, <1>6
<1> HIDE DEF rs, n, found
<1>8. Verdict(j, rs) = Verdict(j, Truth(j))
  <2>1. PICK t \in Workers : JobOf[t] = j
    BY CacheAssumption
  <2>2. LeftLoop(t) /\ Job(t) = j
    BY <2>1, <1>1 DEF IInv, Control, Job
  <2>3. CASE next[j] = Size(j)
    <3>1. rs = Truth(j)
      BY <2>3, <1>7, <1>2 DEF Truth
    <3>2. QED
      BY <3>1
  <2>4. CASE /\ next[j] \in 1..Size(j)
             /\ Refuses(results[j], next[j], results[j][next[j]])
    <3>1. next[j] \in 1..next[j] /\ \A h \in 1..(next[j] - 1) : h \in 1..next[j]
      BY <2>4, <1>2
    <3>2. /\ DOMAIN rs = 1..next[j] /\ rs[next[j]] = results[j][next[j]]
          /\ \A h \in 1..(next[j] - 1) : rs[h] = results[j][h]
      BY <3>1, <1>6, <1>7
    <3>3. next[j] \in Refused(rs)
      BY <2>4, <3>1, <3>2 DEF Refused, Refuses
    <3>4. QED
      BY <2>4, <3>3, <1>7, VerdictOfPrefix
  <2>5. QED
    BY <2>2, <2>3, <2>4 DEF LeftLoop
<1>9. /\ DOMAIN outcome' = Jobs /\ outcome'[j] = Verdict(j, Truth(j))
      /\ \A h \in Jobs : h # j => outcome'[h] = outcome[h]
  BY <1>1, <1>8 DEF IInv, Types
<1>10. Types' /\ Tables'
  BY <1>1, <1>9, TablesUnchanged DEF IInv, Types
<1>11. Control'
  <2> SUFFICES ASSUME NEW t \in Workers
               PROVE  /\ worker'[t].pc \in Busy => worker'[t].index \in 1..next'[Job(t)]
                      /\ (worker'[t].pc \in Busy /\ Single(Job(t))) => worker'[t].index = next'[Job(t)]
                      /\ worker'[t].pc \in Writing => Key(t)' \in Admitted
                      /\ worker'[t].pc = "dead" => outcome'[Job(t)] # None
                      /\ worker'[t].pc = "exit" => LeftLoop(t)'
    BY DEF Control, Job, Single
  <2>1. Key(t)' = Key(t) /\ (LeftLoop(t)' <=> LeftLoop(t))
    BY <1>1 DEF Key, LeftLoop, Job, Single, Size, Refuses
  <2>2. worker'[t].pc = "dead" => outcome'[Job(t)] # None
    <3>1. worker'[t].pc = "dead" => Job(t) # j
      BY <1>1 DEF Job
    <3>2. QED
      BY <3>1, <1>1, <1>9, Constants DEF IInv, Control
  <2>3. QED
    BY <1>1, <2>1, <2>2 DEF IInv, Control
<1>12. Filled'
  <2>1. \A h \in Jobs : outcome'[h] = None => outcome[h] = None
    BY <1>1, <1>9
  <2>2. \A h \in Jobs : \A i \in 1..Size(h) : On(h, i)' <=> On(h, i)
    BY <1>1 DEF On, Job
  <2>3. QED
    BY <1>1, <2>1, <2>2 DEF IInv, Filled, Size
<1>13. ResultsTrue' /\ OutcomeIsSequential'
  <2>1. ResultsTrue'
    BY <1>1 DEF IInv, ResultsTrue
  <2>2. OutcomeIsSequential'
    BY <1>9 DEF IInv, OutcomeIsSequential
  <2>3. QED
    BY <2>1, <2>2
<1>14. QED
  BY <1>10, <1>11, <1>12, <1>13 DEF IInv

------------------------------------------------------------------------------
(* The theorems.                                                           *)

LEMMA InitEstablishes == ASSUME Init PROVE IInv
<1>1. /\ \A t \in Workers : /\ worker[t].pc = "next" /\ worker[t].pc \notin Busy
                            /\ worker[t].pc \notin Writing
      /\ \A j \in Jobs : next[j] = 0 /\ outcome[j] = None
      /\ \A j \in Jobs : \A i \in 1..Size(j) : results[j][i] = None
  BY Constants DEF Init, Busy, Writing
<1>2. Types
  <2>1. worker \in [Workers -> WorkerType]
    BY DEF Init, WorkerType, Points, Claims, Handles
  <2>2. lockFile \in [Keys -> Nat] /\ next \in [Jobs -> Nat] /\ DOMAIN outcome = Jobs
    BY DEF Init
  <2>3. \A j \in Jobs : results[j] \in [1..Size(j) -> Possible]
    BY Constants DEF Init, Possible
  <2>4. results \in [Jobs -> UNION {[1..Size(j) -> Possible] : j \in Jobs}]
    BY <2>3 DEF Init
  <2>5. QED
    BY <2>1, <2>2, <2>3, <2>4 DEF Types
<1>3. Tables
  BY DEF Init, Tables, Contents
<1>4. Control
  BY <1>1 DEF Control
<1>5. Filled
  BY <1>1, Constants DEF Filled
<1>6. ResultsTrue
  BY <1>1 DEF ResultsTrue
<1>7. OutcomeIsSequential
  BY <1>1 DEF OutcomeIsSequential
<1>8. QED
  BY <1>2, <1>3, <1>4, <1>5, <1>6, <1>7 DEF IInv

LEMMA NextPreserves == ASSUME IInv, [Next]_vars PROVE IInv'
<1>1. ASSUME NEW t \in Workers, Step(t) \/ ClaimFails(t) \/ WriteFails(t) PROVE IInv'
  BY <1>1, TakeIndexKeeps, LookupMemoKeeps, LookupStoreKeeps, ClaimKeeps, PublishedKeeps,
     CheckFunctionKeeps, OpenTemporaryKeeps, WriteDataKeeps, RenameKeeps, WriteFailsKeeps,
     RemoveTemporaryKeeps, ReturnVerdictKeeps DEF Step
<1>2. ASSUME NEW j \in Jobs, Consume(j) PROVE IInv'
  BY <1>2, ConsumeKeeps
<1>3. ASSUME NEW p \in Processes, Crash(p) PROVE IInv'
  BY <1>3, CrashKeeps
<1>4. CASE Prune
  BY <1>4, PruneKeeps
<1>5. CASE UNCHANGED vars
  <2>1. UNCHANGED <<worker, next, results, outcome, memo, affine, files, lockFile>>
    BY <1>5 DEF vars, files
  <2>2. Types'
    BY <2>1 DEF IInv, Types
  <2>3. Tables'
    BY <2>1, TablesUnchanged DEF IInv
  <2>4. Moves
    BY <2>1 DEF Moves
  <2>5. QED
    BY <2>1, <2>2, <2>3, <2>4, MoveKeeps DEF IInv
<1>6. QED
  BY <1>1, <1>2, <1>3, <1>4, <1>5 DEF Next

\* Only verdicts of admitted functions are ever replayed, from the tables of
\* every process (insert) and from every file that decode accepts, whatever
\* the interleaving of the workers, the writers that share a temporary name,
\* the failed writes, the crashes and the removal of the store.
THEOREM ReplaysAreSound == Spec => []VerdictsSound
<1>1. IInv => VerdictsSound
  <2> SUFFICES ASSUME IInv PROVE VerdictsSound
    OBVIOUS
  <2>1. ASSUME NEW p \in Processes, NEW v \in memo[p] \cup affine[p]
        PROVE  v[1] \in Admitted /\ v[2] = Sites[v[1]]
    <3>1. v \in Sound \cup SoundAffine
      BY <2>1 DEF IInv, Tables
    <3>2. QED
      BY <3>1 DEF Sound, SoundAffine
  <2>2. ASSUME NEW k \in Keys, decode(k) # {}
        PROVE  k \in Admitted /\ decode(k) = {Sites[k]}
    BY <2>2, NoneAssumption DEF IInv, Tables, decode
  <2>3. QED
    BY <2>1, <2>2 DEF VerdictsSound
<1>2. QED
  BY <1>1, InitEstablishes, NextPreserves, PTL DEF Spec

\* The check of a module that returns (map_ordered, then the loop over the
\* verdicts) returns what a sequential check without cache returns: the same
\* acceptance, or the same error at the same function, for any number of
\* workers, jobs, processes and keys and any table capacity.
THEOREM ParallelIsSequential == Spec => []OutcomeIsSequential
<1>1. IInv => OutcomeIsSequential
  BY DEF IInv
<1>2. QED
  BY <1>1, InitEstablishes, NextPreserves, PTL DEF Spec

----------------------------------------------------------------------------
(* Claims and files.                                                        *)
(*                                                                          *)
(* A lock file alone does not give SingleFlight: a worker that waited gives *)
(* the lock up before it reads the store again.  What keeps it from         *)
(* checking too is that the holder it waited for left a complete file, and  *)
(* that nobody truncates or replaces that file afterwards.  The invariant   *)
(* therefore follows the holder through its writes (Disciplined).           *)

\* The worker has the lock of its function, or is about to give it up.
Holds(t, k) ==
  worker[t].pc \in Busy /\ Key(t) = k /\ worker[t].claim \in {"held", "dropping"}

\* Worker t, on the large function k of which no claim has been spoilt.
Disciplined(t, k) ==
  /\ worker[t].pc \in {"try", "wait", "drop"} => worker[t].lock = 1
  /\ worker[t].pc = "wait" =>
       file[k] = "complete" \/ \E u \in Workers : Holds(u, k) /\ worker[u].claim = "held"
  /\ worker[t].pc = "drop" => file[k] = "complete"
  /\ worker[t].pc = "reread" =>
       \/ worker[t].claim = "held" /\ worker[t].lock = 1
       \/ worker[t].claim = "waited" /\ file[k] = "complete"
  /\ worker[t].pc \in Writing \cup {"check"} => worker[t].claim = "held" /\ worker[t].lock = 1
  /\ worker[t].pc = "data" => worker[t].handle = "temp"
  /\ worker[t].pc = "rename" => temp[Process(t)][k] = "complete"
  /\ worker[t].pc # "unlink"
  /\ worker[t].pc = "publish" => file[k] = "complete"

Flight(k) ==
  /\ lockFile[k] = 1
  /\ \A t \in Workers : (worker[t].pc \in Busy /\ Key(t) = k) => Disciplined(t, k)
  /\ \A t, u \in Workers : (Holds(t, k) /\ Holds(u, k)) => t = u

\* Where a worker has a claim.
ClaimPoints ==
  \A t \in Workers :
    /\ worker[t].pc \in {"next", "memo", "store", "open", "try", "wait", "exit", "dead"} =>
         worker[t].claim = "none"
    /\ worker[t].pc = "drop" <=> worker[t].claim = "dropping"

FlightInv ==
  /\ excused \subseteq Keys
  /\ ClaimPoints
  /\ \A k \in Large : k \notin excused => Flight(k)

\* A temporary file that is not complete is being written.
PartialTempIsBeingWritten ==
  ~faulted => \A p \in Processes, k \in Keys : temp[p][k] = "partial" =>
     \E t \in Workers : /\ worker[t].pc = "data" /\ worker[t].handle = "temp"
                        /\ Process(t) = p /\ Key(t) = k

WriteInv == PartialFileIsBeingWritten /\ PartialTempIsBeingWritten

------------------------------------------------------------------------------
(* The assignments to the acting worker.                                   *)

\* Worker t is at c with claim m, lock l and handle h; the others are as before.
Became(t, c, m, l, h) ==
  /\ worker'[t].pc = c /\ worker'[t].claim = m
  /\ worker'[t].lock = l /\ worker'[t].handle = h
  /\ \A u \in Workers : u # t => worker'[u] = worker[u]

LEMMA Assigned ==
  ASSUME worker \in [Workers -> WorkerType], NEW t \in Workers, NEW c, NEW n, NEW m, NEW l, NEW h
  PROVE  /\ worker' = [worker EXCEPT ![t].pc = c] =>
              Became(t, c, worker[t].claim, worker[t].lock, worker[t].handle)
         /\ worker' = [worker EXCEPT ![t].pc = c, ![t].index = n] =>
              Became(t, c, worker[t].claim, worker[t].lock, worker[t].handle)
         /\ worker' = [worker EXCEPT ![t].pc = c, ![t].lock = l] =>
              Became(t, c, worker[t].claim, l, worker[t].handle)
         /\ worker' = [worker EXCEPT ![t].pc = c, ![t].handle = h] =>
              Became(t, c, worker[t].claim, worker[t].lock, h)
         /\ worker' = [worker EXCEPT ![t].pc = c, ![t].claim = m] =>
              Became(t, c, m, worker[t].lock, worker[t].handle)
         /\ worker' = [worker EXCEPT ![t].pc = c, ![t].claim = m, ![t].lock = l] =>
              Became(t, c, m, l, worker[t].handle)
         /\ worker' = [worker EXCEPT ![t].pc = c, ![t].claim = m, ![t].lock = l, ![t].handle = h] =>
              Became(t, c, m, l, h)
  BY DEF Became, WorkerType
------------------------------------------------------------------------------
(* A step of worker t leaves function k in flight.                         *)

LEMMA FlightKeeps ==
  ASSUME NEW t \in Workers, NEW k \in Large, Flight(k), UNCHANGED lockFile,
         \A u \in Workers : u # t =>
           /\ worker'[u].pc = worker[u].pc /\ worker'[u].index = worker[u].index
           /\ worker'[u].claim = worker[u].claim /\ worker'[u].lock = worker[u].lock
           /\ worker'[u].handle = worker[u].handle \/ Key(u) # k \/ worker[u].pc # "data",
         file[k] = "complete" => file'[k] = "complete",
         (worker'[t].pc \in Busy /\ Key(t)' = k) => Disciplined(t, k)',
         Holds(t, k)' => Holds(t, k) \/ \A u \in Workers : ~Holds(u, k),
         (Holds(t, k) /\ worker[t].claim = "held") =>
           (Holds(t, k)' /\ worker'[t].claim = "held") \/ file'[k] = "complete",
         Holds(t, k) \/ \A p \in Processes : temp'[p][k] = temp[p][k]
  PROVE  Flight(k)'
<1>1. \A u \in Workers : u # t => Key(u)' = Key(u) /\ (Holds(u, k)' <=> Holds(u, k))
  BY DEF Key, Holds
<1>2. ASSUME NEW u \in Workers, NEW v \in Workers, Holds(u, k)', Holds(v, k)' PROVE u = v
  BY <1>1, <1>2 DEF Flight
<1>3. ASSUME NEW u \in Workers, worker'[u].pc \in Busy, Key(u)' = k PROVE Disciplined(u, k)'
  <2>1. CASE u = t
    BY <1>3, <2>1
  <2>2. CASE u # t
    <3>1. /\ worker[u].pc \in Busy /\ Key(u) = k /\ Disciplined(u, k)
          /\ worker'[u].pc = worker[u].pc /\ worker'[u].claim = worker[u].claim
          /\ worker'[u].lock = worker[u].lock /\ Process(u) \in Processes
      BY <1>1, <1>3, <2>2, Constants DEF Flight
    <3>2. worker[u].pc = "wait" =>
            file'[k] = "complete" \/ \E v \in Workers : Holds(v, k)' /\ worker'[v].claim = "held"
      <4> SUFFICES ASSUME worker[u].pc = "wait", file'[k] # "complete"
                   PROVE  \E v \in Workers : Holds(v, k)' /\ worker'[v].claim = "held"
        OBVIOUS
      <4>1. PICK v \in Workers : Holds(v, k) /\ worker[v].claim = "held"
        BY <3>1 DEF Disciplined
      <4>2. Holds(v, k)' /\ worker'[v].claim = "held"
        BY <4>1, <1>1
      <4>3. QED
        BY <4>2
    <3>3. worker[u].pc = "rename" => temp'[Process(u)][k] = "complete"
      <4> SUFFICES ASSUME worker[u].pc = "rename" PROVE temp'[Process(u)][k] = "complete"
        OBVIOUS
      <4>1. Holds(u, k) /\ temp[Process(u)][k] = "complete"
        BY <3>1 DEF Disciplined, Holds, Writing
      <4>2. ~Holds(t, k)
        BY <4>1, <2>2 DEF Flight
      <4>3. QED
        BY <4>1, <4>2, <3>1
    <3>4. worker[u].pc = "data" => worker'[u].handle = "temp"
      BY <3>1, <2>2 DEF Disciplined
    <3>5. Process(u)' = Process(u)
      BY DEF Process
    <3>6. QED
      BY <3>1, <3>2, <3>3, <3>4, <3>5 DEF Disciplined
  <2>3. QED
    BY <2>1, <2>2
<1>4. QED
  BY <1>2, <1>3 DEF Flight
\* What a claim says of the place of the worker, after a step of t.
PointClaim(c, m) ==
  /\ c \in {"next", "memo", "store", "open", "try", "wait", "exit", "dead"} => m = "none"
  /\ c = "drop" <=> m = "dropping"

LEMMA ClaimPointsKeeps ==
  ASSUME ClaimPoints, NEW t \in Workers, PointClaim(worker'[t].pc, worker'[t].claim),
         \A u \in Workers : u # t => worker'[u].pc = worker[u].pc /\ worker'[u].claim = worker[u].claim
  PROVE  ClaimPoints'
  BY DEF ClaimPoints, PointClaim

\* A step of t on its function that touches no file.
LEMMA MoveFlight ==
  ASSUME FlightInv, NEW t \in Workers, NEW c, NEW m, NEW l, NEW h, Became(t, c, m, l, h),
         worker[t].pc \in Busy, worker'[t].index = worker[t].index, UNCHANGED <<files, lockFile>>,
         excused \subseteq excused', excused' \subseteq Keys, PointClaim(c, m),
         (Key(t) \in Large /\ Key(t) \notin excused') =>
           /\ c \in Busy => Disciplined(t, Key(t))'
           /\ c \in Busy /\ m \in {"held", "dropping"} =>
                Holds(t, Key(t)) \/ \A u \in Workers : ~Holds(u, Key(t))
           /\ worker[t].claim = "held" =>
                (c \in Busy /\ m = "held") \/ file[Key(t)] = "complete"
  PROVE  FlightInv'
<1>1. ClaimPoints'
  BY ClaimPointsKeeps DEF FlightInv, Became
<1>2. ASSUME NEW k \in Large, k \notin excused' PROVE Flight(k)'
  <2>1. Flight(k) /\ Key(t)' = Key(t)
    BY <1>2 DEF FlightInv, Key
  <2>2. /\ \A u \in Workers : u # t => worker'[u] = worker[u]
        /\ file' = file /\ temp' = temp /\ lockFile' = lockFile
        /\ worker'[t].pc = c /\ worker'[t].claim = m
    BY DEF Became, files
  <2>3. CASE Key(t) = k
    <3>1. Holds(t, k)' <=> c \in Busy /\ m \in {"held", "dropping"}
      BY <2>1, <2>2, <2>3 DEF Holds
    <3>2. (worker'[t].pc \in Busy /\ Key(t)' = k) => Disciplined(t, k)'
      BY <2>2, <2>3, <1>2
    <3>3. Holds(t, k)' => Holds(t, k) \/ \A u \in Workers : ~Holds(u, k)
      BY <2>3, <3>1, <1>2
    <3>4. (Holds(t, k) /\ worker[t].claim = "held") =>
            (Holds(t, k)' /\ worker'[t].claim = "held") \/ file'[k] = "complete"
      BY <2>2, <2>3, <3>1, <1>2
    <3>5. QED
      BY <2>1, <2>2, <3>2, <3>3, <3>4, FlightKeeps
  <2>4. CASE Key(t) # k
    <3>1. ~Holds(t, k) /\ ~Holds(t, k)' /\ Key(t)' # k
      BY <2>1, <2>4 DEF Holds
    <3>2. QED
      BY <2>1, <2>2, <3>1, FlightKeeps
  <2>5. QED
    BY <2>3, <2>4
<1>3. QED
  BY <1>1, <1>2 DEF FlightInv

\* check_one returns: a claim that is held ends, and the file is complete.
LEMMA ReturnFlight ==
  ASSUME IInv, FlightInv, NEW t \in Workers, worker[t].pc \in Busy, NEW r, Return(t, r),
         UNCHANGED <<files, lockFile>>, excused \subseteq excused', excused' \subseteq Keys,
         (Key(t) \in Large /\ Key(t) \notin excused' /\ worker[t].claim = "held") =>
           file[Key(t)] = "complete"
  PROVE  FlightInv'
<1> DEFINE c == IF Single(JobOf[t]) /\ Refuses(results[JobOf[t]], worker[t].index, r)
                THEN "exit" ELSE "next"
<1>1. c \in {"exit", "next"}
  OBVIOUS
<1>2. worker \in [Workers -> WorkerType]
  BY DEF IInv, Types
<1>3. worker' = [worker EXCEPT ![t].pc = c, ![t].claim = "none", ![t].lock = 0, ![t].handle = "none"]
  BY DEF Return
<1> HIDE DEF c
<1>4. Became(t, c, "none", 0, "none")
  BY <1>2, <1>3, Assigned
<1>5. worker'[t].index = worker[t].index
  BY <1>2, <1>3 DEF WorkerType
<1>6. c \notin Busy /\ PointClaim(c, "none")
  BY <1>1 DEF Busy, Writing, PointClaim
<1>7. QED
  BY <1>4, <1>5, <1>6, MoveFlight

------------------------------------------------------------------------------
(* The actions of a worker.                                                *)

LEMMA TakeIndexFlight == ASSUME IInv, FlightInv, NEW t \in Workers, TakeIndex(t) PROVE FlightInv'
<1>1. /\ worker[t].pc = "next" /\ worker[t].claim = "none" /\ worker \in [Workers -> WorkerType]
      /\ UNCHANGED <<file, temp, lockFile, excused>> /\ "next" \notin Busy
  BY DEF TakeIndex, At, FlightInv, ClaimPoints, IInv, Types, files, Busy, Writing
<1>2. PICK c \in {"memo", "exit"} : Became(t, c, "none", worker[t].lock, worker[t].handle)
  <2>1. CASE next[JobOf[t]] < Len(Module[JobOf[t]])
    <3>1. worker' = [worker EXCEPT ![t].pc = "memo", ![t].index = next[JobOf[t]] + 1]
      BY <2>1 DEF TakeIndex
    <3>2. Became(t, "memo", worker[t].claim, worker[t].lock, worker[t].handle)
      BY <1>1, <3>1, Assigned
    <3>3. QED
      BY <1>1, <3>2
  <2>2. CASE ~(next[JobOf[t]] < Len(Module[JobOf[t]]))
    <3>1. worker' = [worker EXCEPT ![t].pc = "exit"]
      BY <2>2 DEF TakeIndex, Goto
    <3>2. Became(t, "exit", worker[t].claim, worker[t].lock, worker[t].handle)
      BY <1>1, <3>1, Assigned
    <3>3. QED
      BY <1>1, <3>2
  <2>3. QED
    BY <2>1, <2>2
<1>3. /\ worker'[t].pc = c /\ worker'[t].claim = "none" /\ PointClaim(c, "none")
      /\ \A u \in Workers : u # t => worker'[u] = worker[u]
      /\ \A k \in Large : ~Holds(t, k) /\ ~Holds(t, k)' /\ Disciplined(t, k)'
  BY <1>1, <1>2 DEF Became, PointClaim, Holds, Disciplined, Writing
<1>4. ClaimPoints'
  BY <1>3, ClaimPointsKeeps DEF FlightInv
<1>5. ASSUME NEW k \in Large, k \notin excused' PROVE Flight(k)'
  BY <1>1, <1>3, <1>5, FlightKeeps DEF FlightInv
<1>6. QED
  BY <1>1, <1>4, <1>5 DEF FlightInv
\* What an action of a worker on a function starts from.
LEMMA Acting ==
  ASSUME IInv, FlightInv, NEW t \in Workers, worker[t].pc \in Busy
  PROVE  /\ worker \in [Workers -> WorkerType]
         /\ Key(t) \in Keys /\ Process(t) \in Processes
         /\ (Key(t) \in Large /\ Key(t) \notin excused) =>
              Flight(Key(t)) /\ Disciplined(t, Key(t))
         /\ worker[t].pc \in {"next", "memo", "store", "open", "try", "wait", "exit", "dead"} =>
              worker[t].claim = "none"
         /\ worker[t].pc = "drop" <=> worker[t].claim = "dropping"
  BY BusyKey, Constants DEF IInv, Types, FlightInv, Flight, ClaimPoints

LEMMA LookupMemoFlight == ASSUME IInv, FlightInv, NEW t \in Workers, LookupMemo(t) PROVE FlightInv'
<1>1. /\ worker[t].pc = "memo" /\ worker[t].pc \in Busy
      /\ UNCHANGED <<files, lockFile, excused>>
  BY DEF LookupMemo, At, Busy
<1>2. worker[t].claim = "none" /\ worker \in [Workers -> WorkerType] /\ excused \subseteq Keys
  BY <1>1, Acting DEF FlightInv
<1>3. CASE \E r : Return(t, r)
  BY <1>1, <1>2, <1>3, ReturnFlight
<1>4. CASE worker' = Goto(t, "store")
  <2>1. Became(t, "store", "none", worker[t].lock, worker[t].handle)
    BY <1>2, <1>4, Assigned DEF Goto
  <2>2. worker'[t].index = worker[t].index
    BY <1>2, <1>4 DEF Goto, WorkerType
  <2>3. Disciplined(t, Key(t))' /\ PointClaim("store", "none")
    BY <2>1 DEF Disciplined, Became, PointClaim, Writing
  <2>4. QED
    BY <1>1, <1>2, <2>1, <2>2, <2>3, MoveFlight
<1>5. QED
  BY <1>3, <1>4 DEF LookupMemo
LEMMA LookupStoreFlight == ASSUME IInv, FlightInv, NEW t \in Workers, LookupStore(t) PROVE FlightInv'
<1>1. /\ worker[t].pc = "store" /\ worker[t].pc \in Busy
      /\ UNCHANGED <<files, lockFile, excused>>
  BY DEF LookupStore, At, Busy
<1>2. worker[t].claim = "none" /\ worker \in [Workers -> WorkerType] /\ excused \subseteq Keys
  BY <1>1, Acting DEF FlightInv
<1>3. CASE \E r : Return(t, r)
  BY <1>1, <1>2, <1>3, ReturnFlight
<1>4. CASE worker' = Goto(t, IF Key(t) \in Large THEN "open" ELSE "check")
  <2> DEFINE c == IF Key(t) \in Large THEN "open" ELSE "check"
  <2>1. c \in {"open", "check"} /\ (Key(t) \in Large => c = "open")
    OBVIOUS
  <2> HIDE DEF c
  <2>2. Became(t, c, "none", worker[t].lock, worker[t].handle) /\ worker'[t].index = worker[t].index
    <3>1. worker' = [worker EXCEPT ![t].pc = c]
      BY <1>4 DEF Goto, c
    <3>2. QED
      BY <1>2, <3>1, Assigned DEF WorkerType
  <2>3. (Key(t) \in Large => Disciplined(t, Key(t))') /\ PointClaim(c, "none")
    BY <2>1, <2>2 DEF Disciplined, Became, PointClaim, Writing
  <2>4. QED
    BY <1>1, <1>2, <2>2, <2>3, MoveFlight
<1>5. QED
  BY <1>3, <1>4 DEF LookupStore

LEMMA OpenLockFlight == ASSUME IInv, FlightInv, NEW t \in Workers, OpenLock(t) PROVE FlightInv'
<1>1. /\ worker[t].pc = "open" /\ worker[t].pc \in Busy
      /\ worker' = [worker EXCEPT ![t].pc = "try", ![t].lock = lockFile[Key(t)]]
      /\ UNCHANGED <<files, lockFile, excused>>
  BY DEF OpenLock, At, Busy
<1>2. /\ worker[t].claim = "none" /\ worker \in [Workers -> WorkerType] /\ excused \subseteq Keys
      /\ (Key(t) \in Large /\ Key(t) \notin excused) => lockFile[Key(t)] = 1
  BY <1>1, Acting DEF FlightInv, Flight
<1>3. /\ Became(t, "try", "none", lockFile[Key(t)], worker[t].handle)
      /\ worker'[t].index = worker[t].index
  BY <1>1, <1>2, Assigned DEF WorkerType
<1>4. /\ (Key(t) \in Large /\ Key(t) \notin excused) => Disciplined(t, Key(t))'
      /\ PointClaim("try", "none")
  BY <1>2, <1>3 DEF Disciplined, Became, PointClaim, Writing
<1>5. QED
  BY <1>1, <1>2, <1>3, <1>4, MoveFlight

\* A free lock file: nobody has the lock of the function.
LEMMA FreeLock ==
  ASSUME NEW k, Flight(k), NEW l, l = 1, Holders(k, l) = {}, ClaimPoints
  PROVE  \A u \in Workers : ~Holds(u, k)
<1> SUFFICES ASSUME NEW u \in Workers, Holds(u, k) PROVE FALSE
  OBVIOUS
<1>1. Disciplined(u, k) /\ Key(u) = k /\ worker[u].claim \in {"held", "dropping"}
  BY DEF Flight, Holds
<1>2. worker[u].lock = 1
  BY <1>1 DEF Disciplined, ClaimPoints, Holds, Busy
<1>3. QED
  BY <1>1, <1>2 DEF Holders

LEMMA TryLockFlight == ASSUME IInv, FlightInv, NEW t \in Workers, TryLock(t) PROVE FlightInv'
<1> DEFINE k == Key(t)
<1>1. /\ worker[t].pc = "try" /\ worker[t].pc \in Busy
      /\ UNCHANGED <<files, lockFile, excused>>
  BY DEF TryLock, At, Busy
<1>2. /\ worker[t].claim = "none" /\ worker \in [Workers -> WorkerType] /\ excused \subseteq Keys
      /\ (k \in Large /\ k \notin excused) => Flight(k) /\ worker[t].lock = 1
  BY <1>1, Acting DEF FlightInv, Disciplined
<1>3. CASE Holders(k, worker[t].lock) = {}
  <2>1. worker' = [worker EXCEPT ![t].pc = "reread", ![t].claim = "held"]
    BY <1>3 DEF TryLock
  <2>2. /\ Became(t, "reread", "held", worker[t].lock, worker[t].handle)
        /\ worker'[t].index = worker[t].index
    BY <1>2, <2>1, Assigned DEF WorkerType
  <2>3. (k \in Large /\ k \notin excused) => \A u \in Workers : ~Holds(u, k)
    BY <1>2, <1>3, FreeLock DEF FlightInv
  <2>4. /\ (k \in Large /\ k \notin excused) => Disciplined(t, k)'
        /\ PointClaim("reread", "held")
    BY <1>2, <2>2 DEF Disciplined, Became, PointClaim, Writing
  <2>5. QED
    BY <1>1, <1>2, <2>2, <2>3, <2>4, MoveFlight
<1>4. CASE Holders(k, worker[t].lock) # {}
  <2>1. worker' = [worker EXCEPT ![t].pc = "wait"]
    BY <1>4 DEF TryLock, Goto
  <2>2. /\ Became(t, "wait", "none", worker[t].lock, worker[t].handle)
        /\ worker'[t].index = worker[t].index
    BY <1>2, <2>1, Assigned DEF WorkerType
  <2>3. ASSUME k \in Large, k \notin excused PROVE Disciplined(t, k)'
    <3>1. PICK u \in Workers : worker[u].claim \in {"held", "dropping"} /\ Key(u) = k
      BY <1>4 DEF Holders
    <3>2. Holds(u, k) /\ u # t
      BY <3>1, <1>2 DEF Holds, FlightInv, ClaimPoints, IInv, Types, WorkerType, Points
    <3>3. worker'[u] = worker[u] /\ Key(u)' = Key(u) /\ Key(t)' = Key(t)
      BY <3>2, <2>2 DEF Became, Key
    <3>4. worker[u].claim = "held" => Holds(u, k)' /\ worker'[u].claim = "held"
      BY <3>2, <3>3 DEF Holds
    <3>5. worker[u].claim = "dropping" => file[k] = "complete"
      BY <3>2, <1>2, <2>3 DEF Flight, Disciplined, Holds, FlightInv, ClaimPoints
    <3>6. file'[k] = "complete" \/ \E v \in Workers : Holds(v, k)' /\ worker'[v].claim = "held"
      BY <3>1, <3>4, <3>5, <1>1 DEF files
    <3>7. worker'[t].pc = "wait" /\ worker'[t].lock = 1
      BY <1>2, <2>2, <2>3 DEF Became
    <3>8. QED
      BY <3>3, <3>6, <3>7 DEF Disciplined, Writing
  <2>4. PointClaim("wait", "none")
    BY DEF PointClaim
  <2>5. QED
    BY <1>1, <1>2, <2>2, <2>3, <2>4, MoveFlight
<1>5. QED
  BY <1>3, <1>4
\* The lock is free after a wait: the holder has left a complete file.
LEMMA AcquireFlight == ASSUME IInv, FlightInv, NEW t \in Workers, Acquire(t) PROVE FlightInv'
<1> DEFINE k == Key(t)
<1>1. /\ worker[t].pc = "wait" /\ worker[t].pc \in Busy
      /\ Holders(k, worker[t].lock) = {}
      /\ worker' = [worker EXCEPT ![t].pc = "drop", ![t].claim = "dropping"]
      /\ UNCHANGED <<files, lockFile, excused>>
  BY DEF Acquire, At, Busy
<1>2. /\ worker[t].claim = "none" /\ worker \in [Workers -> WorkerType] /\ excused \subseteq Keys
      /\ (k \in Large /\ k \notin excused) => Flight(k) /\ Disciplined(t, k) /\ worker[t].lock = 1
  BY <1>1, Acting DEF FlightInv, Disciplined
<1>3. /\ Became(t, "drop", "dropping", worker[t].lock, worker[t].handle)
      /\ worker'[t].index = worker[t].index
  BY <1>1, <1>2, Assigned DEF WorkerType
<1>4. ASSUME k \in Large, k \notin excused
      PROVE  (\A u \in Workers : ~Holds(u, k)) /\ Disciplined(t, k)'
  <2>1. \A u \in Workers : ~Holds(u, k)
    BY <1>1, <1>2, <1>4, FreeLock DEF FlightInv
  <2>2. file[k] = "complete"
    BY <1>1, <1>2, <1>4, <2>1 DEF Disciplined
  <2>3. file' = file /\ Key(t)' = Key(t)
    BY <1>1, <1>3 DEF files, Key
  <2>4. QED
    BY <1>2, <1>3, <1>4, <2>1, <2>2, <2>3 DEF Disciplined, Became, Writing
<1>5. PointClaim("drop", "dropping")
  BY DEF PointClaim
<1>6. QED
  BY <1>1, <1>2, <1>3, <1>4, <1>5, MoveFlight

LEMMA DropLockFlight == ASSUME IInv, FlightInv, NEW t \in Workers, DropLock(t) PROVE FlightInv'
<1> DEFINE k == Key(t)
<1>1. /\ worker[t].pc = "drop" /\ worker[t].pc \in Busy
      /\ worker' = [worker EXCEPT ![t].pc = "reread", ![t].claim = "waited", ![t].lock = 0]
      /\ UNCHANGED <<files, lockFile, excused>>
  BY DEF DropLock, At, Busy
<1>2. /\ worker[t].claim = "dropping" /\ worker \in [Workers -> WorkerType] /\ excused \subseteq Keys
      /\ (k \in Large /\ k \notin excused) => file[k] = "complete"
  BY <1>1, Acting DEF FlightInv, Disciplined
<1>3. /\ Became(t, "reread", "waited", 0, worker[t].handle)
      /\ worker'[t].index = worker[t].index
  BY <1>1, <1>2, Assigned DEF WorkerType
<1>4. /\ (k \in Large /\ k \notin excused) => Disciplined(t, k)'
      /\ PointClaim("reread", "waited")
  <2>1. file' = file /\ Key(t)' = Key(t)
    BY <1>1, <1>3 DEF files, Key
  <2>2. QED
    BY <1>2, <1>3, <2>1 DEF Disciplined, Became, PointClaim, Writing
<1>5. QED
  BY <1>1, <1>2, <1>3, <1>4, MoveFlight

LEMMA ClaimFailsFlight == ASSUME IInv, FlightInv, NEW t \in Workers, ClaimFails(t) PROVE FlightInv'
<1>1. /\ worker[t].pc \in {"open", "try", "wait"} /\ worker[t].pc \in Busy
      /\ worker' = [worker EXCEPT ![t].pc = "check", ![t].lock = 0]
      /\ excused' = excused \cup {Key(t)} /\ UNCHANGED <<files, lockFile>>
  BY DEF ClaimFails, Busy
<1>2. /\ worker[t].claim = "none" /\ worker \in [Workers -> WorkerType]
      /\ excused \subseteq Keys /\ Key(t) \in Keys
  BY <1>1, Acting DEF FlightInv
<1>3. /\ Became(t, "check", "none", 0, worker[t].handle)
      /\ worker'[t].index = worker[t].index
  BY <1>1, <1>2, Assigned DEF WorkerType
<1>4. PointClaim("check", "none") /\ Key(t) \in excused' /\ excused' \subseteq Keys
      /\ excused \subseteq excused'
  BY <1>1, <1>2 DEF PointClaim
<1>5. QED
  BY <1>1, <1>3, <1>4, MoveFlight

LEMMA PublishedFlight == ASSUME IInv, FlightInv, NEW t \in Workers, Published(t) PROVE FlightInv'
<1> DEFINE k == Key(t)
<1>1. /\ worker[t].pc = "reread" /\ worker[t].pc \in Busy
      /\ UNCHANGED <<files, lockFile, excused>>
  BY DEF Published, At, Busy
<1>2. /\ worker \in [Workers -> WorkerType] /\ excused \subseteq Keys
      /\ worker[t].claim # "dropping"
      /\ (k \in Large /\ k \notin excused) => Flight(k) /\ Disciplined(t, k)
  BY <1>1, Acting DEF FlightInv
<1>3. CASE \E sites \in decode(k) : Return(t, Ok(sites))
  <2>1. file[k] = "complete"
    BY <1>3 DEF decode
  <2>2. QED
    BY <1>1, <1>2, <1>3, <2>1, ReturnFlight
<1>4. CASE decode(k) = {} /\ worker' = Goto(t, "check")
  <2>1. file[k] # "complete"
    BY <1>4 DEF decode
  <2>2. /\ Became(t, "check", worker[t].claim, worker[t].lock, worker[t].handle)
        /\ worker'[t].index = worker[t].index
    BY <1>2, <1>4, Assigned DEF WorkerType, Goto
  <2>3. ASSUME k \in Large, k \notin excused
        PROVE  worker[t].claim = "held" /\ Holds(t, k) /\ Disciplined(t, k)'
    BY <1>1, <1>2, <2>1, <2>2, <2>3 DEF Disciplined, Became, Writing, Holds
  <2>4. PointClaim("check", worker[t].claim)
    BY <1>2 DEF PointClaim
  <2>5. "check" \in Busy
    BY DEF Busy
  <2>6. QED
    BY <1>1, <1>2, <2>2, <2>3, <2>4, <2>5, MoveFlight
<1>5. QED
  BY <1>3, <1>4 DEF Published

LEMMA CheckFunctionFlight == ASSUME IInv, FlightInv, NEW t \in Workers, CheckFunction(t) PROVE FlightInv'
<1> DEFINE k == Key(t)
<1>1. /\ worker[t].pc = "check" /\ worker[t].pc \in Busy /\ UNCHANGED <<files, lockFile>>
  BY DEF CheckFunction, At, Busy
<1>2. /\ worker \in [Workers -> WorkerType] /\ excused \subseteq Keys /\ k \in Keys
      /\ worker[t].claim # "dropping"
      /\ (k \in Large /\ k \notin excused) => Flight(k) /\ Disciplined(t, k)
  BY <1>1, Acting DEF FlightInv
<1>3. CASE Return(t, Rejected) /\ excused' = excused \cup {k}
  BY <1>1, <1>2, <1>3, ReturnFlight
<1>4. CASE worker' = Goto(t, "write") /\ UNCHANGED excused
  <2>1. /\ Became(t, "write", worker[t].claim, worker[t].lock, worker[t].handle)
        /\ worker'[t].index = worker[t].index
    BY <1>2, <1>4, Assigned DEF WorkerType, Goto
  <2>2. ASSUME k \in Large, k \notin excused
        PROVE  worker[t].claim = "held" /\ Holds(t, k) /\ Disciplined(t, k)'
    BY <1>1, <1>2, <2>1, <2>2 DEF Disciplined, Became, Writing, Holds
  <2>3. PointClaim("write", worker[t].claim) /\ "write" \in Busy
    BY <1>2 DEF PointClaim, Busy, Writing
  <2>4. QED
    BY <1>1, <1>2, <1>4, <2>1, <2>2, <2>3, MoveFlight
<1>5. CASE worker[t].claim = "none" /\ (\E r : Return(t, r)) /\ UNCHANGED excused
  BY <1>1, <1>2, <1>5, ReturnFlight
<1>6. QED
  BY <1>3, <1>4, <1>5 DEF CheckFunction

LEMMA ReturnVerdictFlight == ASSUME IInv, FlightInv, NEW t \in Workers, ReturnVerdict(t) PROVE FlightInv'
<1>1. /\ worker[t].pc = "publish" /\ worker[t].pc \in Busy
      /\ UNCHANGED <<files, lockFile, excused>> /\ Return(t, Ok(Sites[Key(t)]))
  BY DEF ReturnVerdict, At, Busy, Writing
<1>2. /\ excused \subseteq Keys
      /\ (Key(t) \in Large /\ Key(t) \notin excused) => file[Key(t)] = "complete"
  BY <1>1, Acting DEF FlightInv, Disciplined
<1>3. QED
  BY <1>1, <1>2, ReturnFlight
------------------------------------------------------------------------------
(* The writes.                                                             *)

\* A step of t while it writes the verdict of its function: the files of the
\* other functions and the handles to them are left alone.
LEMMA WriteFlight ==
  ASSUME FlightInv, NEW t \in Workers, NEW c \in Writing, worker[t].pc \in Writing,
         worker'[t].pc = c, worker'[t].index = worker[t].index,
         worker'[t].claim = worker[t].claim, worker'[t].lock = worker[t].lock,
         \A u \in Workers : u # t =>
           /\ worker'[u].pc = worker[u].pc /\ worker'[u].index = worker[u].index
           /\ worker'[u].claim = worker[u].claim /\ worker'[u].lock = worker[u].lock
           /\ worker'[u].handle = worker[u].handle \/ Key(u) = Key(t),
         UNCHANGED lockFile, excused \subseteq excused', excused' \subseteq Keys,
         \A k \in Keys : k # Key(t) =>
           file'[k] = file[k] /\ \A p \in Processes : temp'[p][k] = temp[p][k],
         Large \subseteq Keys,
         (Key(t) \in Large /\ Key(t) \notin excused') =>
           /\ file[Key(t)] = "complete" => file'[Key(t)] = "complete"
           /\ c = "data" => worker'[t].handle = "temp"
           /\ c = "rename" => temp'[Process(t)][Key(t)] = "complete"
           /\ c # "unlink"
           /\ c = "publish" => file'[Key(t)] = "complete"
  PROVE  FlightInv'
<1>1. ClaimPoints'
  <2>1. PointClaim(worker'[t].pc, worker'[t].claim)
    BY DEF PointClaim, Writing, FlightInv, ClaimPoints
  <2>2. QED
    BY <2>1, ClaimPointsKeeps DEF FlightInv
<1>2. ASSUME NEW k \in Large, k \notin excused' PROVE Flight(k)'
  <2>1. Flight(k) /\ Key(t)' = Key(t) /\ k \in Keys /\ Writing \subseteq Busy
    BY <1>2 DEF FlightInv, Key, Busy
  <2>2. CASE Key(t) = k
    <3>1. /\ worker[t].claim = "held" /\ worker[t].lock = 1 /\ Holds(t, k)
      BY <2>1, <2>2 DEF Flight, Disciplined, Holds
    <3>2. Holds(t, k)' /\ worker'[t].claim = "held"
      BY <2>1, <2>2, <3>1 DEF Holds
    <3>3. Disciplined(t, k)'
      <4>1. Process(t)' = Process(t)
        BY DEF Process
      <4>2. QED
        BY <1>2, <2>2, <3>1, <4>1 DEF Disciplined, Writing
    <3>4. \A u \in Workers : u # t =>
            worker'[u].handle = worker[u].handle \/ Key(u) # k \/ worker[u].pc # "data"
      <4> SUFFICES ASSUME NEW u \in Workers, u # t, Key(u) = k, worker[u].pc = "data" PROVE FALSE
        OBVIOUS
      <4>1. Holds(u, k)
        BY <2>1 DEF Flight, Disciplined, Holds, Writing, Busy
      <4>2. QED
        BY <2>1, <3>1, <4>1 DEF Flight
    <3>5. QED
      BY <1>2, <2>1, <2>2, <3>1, <3>2, <3>3, <3>4, FlightKeeps
  <2>3. CASE Key(t) # k
    <3>1. ~Holds(t, k) /\ ~Holds(t, k)' /\ Key(t)' # k
      BY <2>1, <2>3 DEF Holds
    <3>2. file'[k] = file[k] /\ \A p \in Processes : temp'[p][k] = temp[p][k]
      BY <2>1, <2>3
    <3>3. QED
      BY <2>1, <2>3, <3>1, <3>2, FlightKeeps
  <2>4. QED
    BY <2>2, <2>3
<1>3. QED
  BY <1>1, <1>2 DEF FlightInv

\* An assignment to the temporary file of k of process p.
LEMMA TempValue ==
  ASSUME Tables, NEW p \in Processes, NEW k \in Keys, NEW v, temp' = [temp EXCEPT ![p][k] = v]
  PROVE  /\ temp'[p][k] = v
         /\ \A q \in Processes, l \in Keys : (q # p \/ l # k) => temp'[q][l] = temp[q][l]
  BY DEF Tables

LEMMA FileValue ==
  ASSUME Tables, NEW k \in Keys, NEW v, file' = [file EXCEPT ![k] = v]
  PROVE  file'[k] = v /\ \A l \in Keys : l # k => file'[l] = file[l]
  BY DEF Tables

LEMMA OpenTemporaryFlight == ASSUME IInv, FlightInv, NEW t \in Workers, OpenTemporary(t) PROVE FlightInv'
<1> DEFINE k == Key(t)
           p == Process(t)
<1>1. /\ worker[t].pc = "write" /\ worker[t].pc \in Busy /\ worker[t].pc \in Writing /\ "data" \in Writing
      /\ worker' = [worker EXCEPT ![t].pc = "data", ![t].handle = "temp"]
      /\ temp' = [temp EXCEPT ![p][k] = "partial"]
      /\ UNCHANGED <<file, lockFile, excused>>
  BY DEF OpenTemporary, At, Busy, Writing
<1>2. /\ worker \in [Workers -> WorkerType] /\ excused \subseteq Keys /\ k \in Keys
      /\ p \in Processes /\ Large \subseteq Keys
  BY <1>1, Acting, CacheAssumption DEF FlightInv
<1>3. /\ Became(t, "data", worker[t].claim, worker[t].lock, "temp")
      /\ worker'[t].index = worker[t].index
  BY <1>1, <1>2, Assigned DEF WorkerType
<1>4. \A l \in Keys : l # k => \A q \in Processes : temp'[q][l] = temp[q][l]
  BY <1>1, <1>2, TempValue DEF IInv
<1>5. QED
  BY <1>1, <1>2, <1>3, <1>4, WriteFlight DEF Became

LEMMA WriteDataFlight == ASSUME IInv, FlightInv, NEW t \in Workers, WriteData(t) PROVE FlightInv'
<1> DEFINE k == Key(t)
           p == Process(t)
<1>1. /\ worker[t].pc = "data" /\ worker[t].pc \in Busy /\ worker[t].pc \in Writing /\ "rename" \in Writing
      /\ worker' = [worker EXCEPT ![t].pc = "rename", ![t].handle = "none"]
      /\ file' = IF worker[t].handle = "file" THEN [file EXCEPT ![k] = "complete"] ELSE file
      /\ temp' = IF worker[t].handle = "temp" THEN [temp EXCEPT ![p][k] = "complete"] ELSE temp
      /\ UNCHANGED <<lockFile, excused>>
  BY DEF WriteData, At, Busy, Writing
<1>2. /\ worker \in [Workers -> WorkerType] /\ excused \subseteq Keys /\ k \in Keys
      /\ p \in Processes /\ Large \subseteq Keys
      /\ (k \in Large /\ k \notin excused) => worker[t].handle = "temp"
  BY <1>1, Acting, CacheAssumption DEF FlightInv, Disciplined
<1>3. /\ Became(t, "rename", worker[t].claim, worker[t].lock, "none")
      /\ worker'[t].index = worker[t].index
  BY <1>1, <1>2, Assigned DEF WorkerType
<1>4. /\ \A l \in Keys : l # k => \A q \in Processes : temp'[q][l] = temp[q][l]
      /\ worker[t].handle = "temp" => temp'[p][k] = "complete"
  <2>1. CASE worker[t].handle = "temp"
    <3>1. temp' = [temp EXCEPT ![p][k] = "complete"]
      BY <1>1, <2>1
    <3>2. /\ temp'[p][k] = "complete"
          /\ \A q \in Processes, l \in Keys : (q # p \/ l # k) => temp'[q][l] = temp[q][l]
      <4>1. Tables
        BY DEF IInv
      <4>2. QED
        BY <1>2, <3>1, <4>1, TempValue
    <3>3. QED
      BY <3>2
  <2>2. CASE worker[t].handle # "temp"
    BY <1>1, <2>2
  <2>3. QED
    BY <2>1, <2>2
<1>5. /\ \A l \in Keys : l # k => file'[l] = file[l]
      /\ file[k] = "complete" => file'[k] = "complete"
  BY <1>1, <1>2, FileValue DEF IInv
<1>6. QED
  BY <1>1, <1>2, <1>3, <1>4, <1>5, WriteFlight DEF Became
\* Only handles to the files of k change when a temporary file of k moves.
LEMMA RelinkedFields ==
  ASSUME worker \in [Workers -> WorkerType], NEW p, NEW k, NEW u \in Workers
  PROVE  /\ Relinked(p, k)[u].pc = worker[u].pc /\ Relinked(p, k)[u].index = worker[u].index
         /\ Relinked(p, k)[u].claim = worker[u].claim /\ Relinked(p, k)[u].lock = worker[u].lock
         /\ Relinked(p, k)[u].handle = worker[u].handle \/ Key(u) = k
         /\ (worker[u].pc = "data" /\ worker[u].handle = "temp" /\ Process(u) = p /\ Key(u) = k) =>
              Relinked(p, k)[u].handle = "file"
         /\ (worker[u].handle = "temp" /\ (Process(u) # p \/ Key(u) # k)) =>
              Relinked(p, k)[u].handle = "temp"
  BY DEF Relinked, WorkerType

LEMMA RenameFlight == ASSUME IInv, FlightInv, NEW t \in Workers, Rename(t) PROVE FlightInv'
<1> DEFINE k == Key(t)
           p == Process(t)
<1>1. /\ worker[t].pc = "rename" /\ worker[t].pc \in Busy /\ worker[t].pc \in Writing
      /\ {"publish", "unlink"} \subseteq Writing /\ UNCHANGED <<lockFile, excused>>
  BY DEF Rename, At, Busy, Writing
<1>2. /\ worker \in [Workers -> WorkerType] /\ excused \subseteq Keys /\ k \in Keys
      /\ p \in Processes /\ Large \subseteq Keys
      /\ (k \in Large /\ k \notin excused) => temp[p][k] = "complete"
  BY <1>1, Acting, CacheAssumption DEF FlightInv, Disciplined
<1>3. CASE temp[p][k] # None
  <2>1. /\ file' = [file EXCEPT ![k] = temp[p][k]]
        /\ temp' = [temp EXCEPT ![p][k] = None]
        /\ worker' = [Relinked(p, k) EXCEPT ![t].pc = "publish"]
    BY <1>3 DEF Rename
  <2>2. /\ file'[k] = temp[p][k]
        /\ \A l \in Keys : l # k => file'[l] = file[l] /\ \A q \in Processes : temp'[q][l] = temp[q][l]
    <3>1. file'[k] = temp[p][k] /\ \A l \in Keys : l # k => file'[l] = file[l]
      BY <1>2, <2>1, FileValue DEF IInv
    <3>2. \A q \in Processes, l \in Keys : (q # p \/ l # k) => temp'[q][l] = temp[q][l]
      BY <1>2, <2>1, TempValue DEF IInv
    <3>3. QED
      BY <3>1, <3>2
  <2>3. /\ worker'[t].pc = "publish" /\ worker'[t].index = worker[t].index
        /\ worker'[t].claim = worker[t].claim /\ worker'[t].lock = worker[t].lock
        /\ \A u \in Workers : u # t =>
             /\ worker'[u].pc = worker[u].pc /\ worker'[u].index = worker[u].index
             /\ worker'[u].claim = worker[u].claim /\ worker'[u].lock = worker[u].lock
             /\ worker'[u].handle = worker[u].handle \/ Key(u) = k
    <3> DEFINE R == Relinked(p, k)
    <3>1. R \in [Workers -> WorkerType] /\ worker' = [R EXCEPT ![t].pc = "publish"]
      BY <1>2, <2>1, RelinkedKeeps
    <3>2. \A u \in Workers :
             /\ R[u].pc = worker[u].pc /\ R[u].index = worker[u].index
             /\ R[u].claim = worker[u].claim /\ R[u].lock = worker[u].lock
             /\ R[u].handle = worker[u].handle \/ Key(u) = k
      BY <1>2, RelinkedFields
    <3> HIDE DEF R
    <3>3. QED
      BY <3>1, <3>2 DEF WorkerType
  <2>4. QED
    BY <1>1, <1>2, <2>2, <2>3, WriteFlight
<1>4. CASE temp[p][k] = None
  <2>1. worker' = [worker EXCEPT ![t].pc = "unlink"] /\ UNCHANGED <<file, temp>>
    BY <1>4 DEF Rename, Goto, files
  <2>2. /\ Became(t, "unlink", worker[t].claim, worker[t].lock, worker[t].handle)
        /\ worker'[t].index = worker[t].index
    BY <1>2, <2>1, Assigned DEF WorkerType
  <2>3. ~(k \in Large /\ k \notin excused)
    BY <1>2, <1>4, NoneAssumption
  <2>4. QED
    BY <1>1, <1>2, <2>1, <2>2, <2>3, WriteFlight DEF Became
<1>5. QED
  BY <1>3, <1>4

LEMMA WriteFailsFlight == ASSUME IInv, FlightInv, NEW t \in Workers, WriteFails(t) PROVE FlightInv'
<1>1. /\ worker[t].pc \in Busy /\ worker[t].pc \in Writing /\ "unlink" \in Writing
      /\ worker' = [worker EXCEPT ![t].pc = "unlink", ![t].handle = "none"]
      /\ excused' = excused \cup {Key(t)} /\ UNCHANGED <<file, temp, lockFile>>
  BY DEF WriteFails, Busy, Writing, files
<1>2. /\ worker \in [Workers -> WorkerType] /\ excused \subseteq Keys /\ Key(t) \in Keys
      /\ Large \subseteq Keys
  BY <1>1, Acting, CacheAssumption DEF FlightInv
<1>3. /\ Became(t, "unlink", worker[t].claim, worker[t].lock, "none")
      /\ worker'[t].index = worker[t].index
  BY <1>1, <1>2, Assigned DEF WorkerType
<1>4. QED
  BY <1>1, <1>2, <1>3, WriteFlight DEF Became

LEMMA RemoveTemporaryFlight == ASSUME IInv, FlightInv, NEW t \in Workers, RemoveTemporary(t) PROVE FlightInv'
<1> DEFINE k == Key(t)
           p == Process(t)
<1>1. /\ worker[t].pc = "unlink" /\ worker[t].pc \in Busy /\ worker[t].pc \in Writing
      /\ "publish" \in Writing /\ temp' = [temp EXCEPT ![p][k] = None]
      /\ UNCHANGED <<file, lockFile, excused>>
  BY DEF RemoveTemporary, At, Busy, Writing
<1>2. /\ worker \in [Workers -> WorkerType] /\ excused \subseteq Keys /\ k \in Keys
      /\ p \in Processes /\ Large \subseteq Keys /\ ~(k \in Large /\ k \notin excused)
  BY <1>1, Acting, CacheAssumption DEF FlightInv, Disciplined
<1>3. \A l \in Keys : l # k => \A q \in Processes : temp'[q][l] = temp[q][l]
  BY <1>1, <1>2, TempValue DEF IInv
<1>4. /\ worker'[t] = [worker[t] EXCEPT !.pc = "publish"]
      /\ \A u \in Workers : u # t =>
           \/ worker'[u] = worker[u]
           \/ worker'[u] = [worker[u] EXCEPT !.handle = "none"] /\ Key(u) = k
  BY DEF RemoveTemporary
<1>5. /\ worker'[t].pc = "publish" /\ worker'[t].index = worker[t].index
      /\ worker'[t].claim = worker[t].claim /\ worker'[t].lock = worker[t].lock
  BY <1>2, <1>4 DEF WorkerType
<1>6. \A u \in Workers : u # t =>
           /\ worker'[u].pc = worker[u].pc /\ worker'[u].index = worker[u].index
           /\ worker'[u].claim = worker[u].claim /\ worker'[u].lock = worker[u].lock
           /\ worker'[u].handle = worker[u].handle \/ Key(u) = k
  <2> SUFFICES ASSUME NEW u \in Workers, u # t
               PROVE  /\ worker'[u].pc = worker[u].pc /\ worker'[u].index = worker[u].index
                      /\ worker'[u].claim = worker[u].claim /\ worker'[u].lock = worker[u].lock
                      /\ worker'[u].handle = worker[u].handle \/ Key(u) = k
    OBVIOUS
  <2>1. CASE worker'[u] = worker[u]
    BY <2>1
  <2>2. CASE worker'[u] = [worker[u] EXCEPT !.handle = "none"] /\ Key(u) = k
    BY <1>2, <2>2 DEF WorkerType
  <2>3. QED
    BY <1>4, <2>1, <2>2
<1>7. QED
  BY <1>1, <1>2, <1>3, <1>5, <1>6, WriteFlight
------------------------------------------------------------------------------
(* Faults.                                                                 *)

LEMMA CrashFlight == ASSUME IInv, FlightInv, NEW p \in Processes, Crash(p) PROVE FlightInv'
<1>1. /\ excused \subseteq excused' /\ UNCHANGED <<file, temp, lockFile>>
      /\ \A t \in Workers : (Process(t) = p /\ worker[t].claim # "none") => Key(t) \in excused'
  BY DEF Crash, files
<1>2. \A t \in Workers :
        /\ Process(t) = p => worker'[t].pc = "dead" /\ worker'[t].claim = "none"
        /\ Process(t) # p => worker'[t] = worker[t]
  <2> SUFFICES ASSUME NEW t \in Workers
               PROVE  /\ Process(t) = p => worker'[t].pc = "dead" /\ worker'[t].claim = "none"
                      /\ Process(t) # p => worker'[t] = worker[t]
    OBVIOUS
  <2>1. CASE Process(t) = p
    <3>1. worker'[t] = [worker[t] EXCEPT !.pc = "dead", !.claim = "none",
                                         !.lock = 0, !.handle = "none"]
      BY <2>1 DEF Crash
    <3>2. worker[t] \in WorkerType
      BY DEF IInv, Types
    <3>3. QED
      BY <2>1, <3>1, <3>2 DEF WorkerType
  <2>2. CASE Process(t) # p
    BY <2>2 DEF Crash
  <2>3. QED
    BY <2>1, <2>2
<1>3. excused' \subseteq Keys
  <2> SUFFICES ASSUME NEW t \in Workers, worker[t].claim # "none" PROVE Key(t) \in Keys
    BY DEF Crash, FlightInv
  <2>1. worker[t].pc \in Busy
    BY DEF FlightInv, ClaimPoints, IInv, Types, WorkerType, Points
  <2>2. QED
    BY <2>1, BusyKey DEF IInv
<1>4. ClaimPoints'
  BY <1>2 DEF FlightInv, ClaimPoints
<1>5. ASSUME NEW k \in Large, k \notin excused' PROVE Flight(k)'
  <2>1. Flight(k) /\ "dead" \notin Busy
    BY <1>1, <1>5 DEF FlightInv, Busy, Writing
  <2>2. ASSUME NEW t \in Workers, worker'[t].pc \in Busy
        PROVE  worker'[t] = worker[t] /\ Key(t)' = Key(t) /\ Process(t)' = Process(t)
    BY <1>2, <2>1, <2>2 DEF Key, Process
  <2>3. ASSUME NEW t \in Workers, Holds(t, k) PROVE Holds(t, k)' /\ worker'[t] = worker[t]
    <3>1. Process(t) # p
      BY <1>1, <1>5, <2>3 DEF Holds
    <3>2. QED
      BY <1>2, <2>3, <3>1 DEF Holds, Key
  <2>4. ASSUME NEW t \in Workers, Holds(t, k)' PROVE Holds(t, k)
    <3>1. worker'[t].pc \in Busy
      BY <2>4 DEF Holds
    <3>2. QED
      BY <2>2, <2>4, <3>1 DEF Holds
  <2>5. ASSUME NEW t \in Workers, worker'[t].pc \in Busy, Key(t)' = k PROVE Disciplined(t, k)'
    <3>1. /\ worker'[t] = worker[t] /\ Process(t)' = Process(t) /\ Disciplined(t, k)
      BY <2>1, <2>2, <2>5 DEF Flight
    <3>2. (\E u \in Workers : Holds(u, k) /\ worker[u].claim = "held") =>
            \E u \in Workers : Holds(u, k)' /\ worker'[u].claim = "held"
      BY <2>3
    <3>3. QED
      BY <1>1, <3>1, <3>2 DEF Disciplined
  <2>6. QED
    BY <1>1, <2>1, <2>4, <2>5 DEF Flight
<1>6. QED
  BY <1>3, <1>4, <1>5 DEF FlightInv

LEMMA PruneFlight == ASSUME IInv, FlightInv, Prune PROVE FlightInv'
<1>1. excused' = Keys /\ Large \subseteq Keys
  BY CacheAssumption DEF Prune
<1>2. \A t \in Workers : worker'[t] = [worker[t] EXCEPT !.handle = "none"] /\ worker[t] \in WorkerType
  BY DEF Prune, IInv, Types
<1>3. \A t \in Workers : worker'[t].pc = worker[t].pc /\ worker'[t].claim = worker[t].claim
  BY <1>2 DEF WorkerType
<1>4. ClaimPoints'
  BY <1>3 DEF FlightInv, ClaimPoints
<1>5. QED
  BY <1>1, <1>4 DEF FlightInv

LEMMA IdleFlight ==
  ASSUME FlightInv, UNCHANGED <<worker, file, temp, lockFile, excused>> PROVE FlightInv'
<1>1. \A t \in Workers : Key(t)' = Key(t) /\ Process(t)' = Process(t)
  BY DEF Key, Process
<1>2. \A t \in Workers, k \in Large : Holds(t, k)' <=> Holds(t, k)
  BY <1>1 DEF Holds
<1>3. \A t \in Workers, k \in Large : Disciplined(t, k)' <=> Disciplined(t, k)
  BY <1>1, <1>2 DEF Disciplined
<1>4. \A k \in Large : Flight(k)' <=> Flight(k)
  BY <1>1, <1>2, <1>3 DEF Flight
<1>5. QED
  BY <1>4 DEF FlightInv, ClaimPoints

LEMMA InitFlight == ASSUME Init PROVE FlightInv
<1>1. /\ \A t \in Workers : worker[t].pc = "next" /\ worker[t].claim = "none"
      /\ excused = {} /\ \A k \in Keys : lockFile[k] = 1
  BY DEF Init
<1>2. "next" \notin Busy /\ Large \subseteq Keys
  BY CacheAssumption DEF Busy, Writing
<1>3. QED
  BY <1>1, <1>2 DEF FlightInv, ClaimPoints, Flight, Holds

LEMMA NextFlight == ASSUME IInv, FlightInv, [Next]_vars PROVE FlightInv'
<1>1. ASSUME NEW t \in Workers, Step(t) PROVE FlightInv'
  BY <1>1, TakeIndexFlight, LookupMemoFlight, LookupStoreFlight, OpenLockFlight, TryLockFlight,
     AcquireFlight, DropLockFlight, PublishedFlight, CheckFunctionFlight, OpenTemporaryFlight,
     WriteDataFlight, RenameFlight, RemoveTemporaryFlight, ReturnVerdictFlight DEF Step
<1>2. ASSUME NEW j \in Jobs, Consume(j) PROVE FlightInv'
  BY <1>2, IdleFlight DEF Consume, files
<1>3. ASSUME UNCHANGED vars PROVE FlightInv'
  BY <1>3, IdleFlight DEF vars
<1>4. QED
  BY <1>1, <1>2, <1>3, ClaimFailsFlight, WriteFailsFlight, CrashFlight, PruneFlight DEF Next
------------------------------------------------------------------------------
(* Partial files.                                                          *)

\* A worker that is writing stays so, and no file becomes partial.
LEMMA QuietWrite ==
  ASSUME WriteInv, UNCHANGED faulted,
         \A u \in Workers : worker[u].pc = "data" =>
           worker'[u].pc = "data" /\ worker'[u].index = worker[u].index
             /\ worker'[u].handle = worker[u].handle,
         UNCHANGED files
  PROVE  WriteInv'
<1>1. \A u \in Workers : worker[u].pc = "data" => Key(u)' = Key(u) /\ Process(u)' = Process(u)
  BY DEF Key, Process
<1>2. PartialFileIsBeingWritten'
  BY <1>1 DEF WriteInv, PartialFileIsBeingWritten, files, At
<1>3. PartialTempIsBeingWritten'
  BY <1>1 DEF WriteInv, PartialTempIsBeingWritten, files
<1>4. QED
  BY <1>2, <1>3 DEF WriteInv

\* The steps of a worker that is not writing, and those that change no worker.
LEMMA OtherWrite ==
  ASSUME IInv, WriteInv, NEW t \in Workers,
         \/ TakeIndex(t) \/ LookupMemo(t) \/ LookupStore(t) \/ OpenLock(t) \/ TryLock(t)
         \/ Acquire(t) \/ DropLock(t) \/ ClaimFails(t) \/ Published(t) \/ CheckFunction(t)
         \/ ReturnVerdict(t)
  PROVE  WriteInv'
<1>1. worker[t].pc # "data" /\ UNCHANGED <<faulted, files>>
  BY DEF TakeIndex, LookupMemo, LookupStore, OpenLock, TryLock, Acquire, DropLock, ClaimFails,
         Published, CheckFunction, ReturnVerdict, At
<1>2. \A u \in Workers : u # t => worker'[u] = worker[u]
  <2>1. worker \in [Workers -> WorkerType]
    BY DEF IInv, Types
  <2>2. ASSUME NEW r, Return(t, r) PROVE \A u \in Workers : u # t => worker'[u] = worker[u]
    BY <2>1, <2>2 DEF Return
  <2>3. CASE TakeIndex(t) \/ OpenLock(t) \/ TryLock(t) \/ Acquire(t) \/ DropLock(t) \/ ClaimFails(t)
    BY <2>1, <2>3 DEF TakeIndex, OpenLock, TryLock, Acquire, DropLock, ClaimFails, Goto
  <2>4. CASE LookupMemo(t) \/ LookupStore(t) \/ Published(t) \/ CheckFunction(t) \/ ReturnVerdict(t)
    <3>1. ASSUME NEW c, worker' = Goto(t, c) PROVE \A u \in Workers : u # t => worker'[u] = worker[u]
      BY <2>1, <3>1 DEF Goto
    <3>2. (\E r : Return(t, r)) \/ (\E c : worker' = Goto(t, c))
      BY <2>4, Zenon DEF LookupMemo, LookupStore, Published, CheckFunction, ReturnVerdict
    <3>3. QED
      BY <2>2, <3>1, <3>2
  <2>5. QED
    BY <2>3, <2>4
<1>3. QED
  BY <1>1, <1>2, QuietWrite

LEMMA OpenTemporaryWrite == ASSUME IInv, WriteInv, NEW t \in Workers, OpenTemporary(t) PROVE WriteInv'
<1> DEFINE k == Key(t)
           p == Process(t)
<1>1. /\ worker[t].pc = "write" /\ worker[t].pc \in Writing
      /\ worker' = [worker EXCEPT ![t].pc = "data", ![t].handle = "temp"]
      /\ temp' = [temp EXCEPT ![p][k] = "partial"]
      /\ UNCHANGED <<file, faulted>> /\ worker \in [Workers -> WorkerType]
  BY DEF OpenTemporary, At, Writing, IInv, Types
<1>2. k \in Keys /\ p \in Processes
  BY <1>1, WritingKey
<1>3. /\ Became(t, "data", worker[t].claim, worker[t].lock, "temp")
      /\ worker'[t].index = worker[t].index
  BY <1>1, Assigned DEF WorkerType
<1>4. /\ worker'[t].pc = "data" /\ worker'[t].handle = "temp"
      /\ Key(t)' = k /\ Process(t)' = p
      /\ \A u \in Workers : u # t => worker'[u] = worker[u] /\ Key(u)' = Key(u) /\ Process(u)' = Process(u)
  BY <1>3 DEF Became, Key, Process
<1>5. \A q \in Processes, l \in Keys : (q # p \/ l # k) => temp'[q][l] = temp[q][l]
  BY <1>1, <1>2, TempValue DEF IInv
<1>6. PartialFileIsBeingWritten'
  BY <1>1, <1>4 DEF WriteInv, PartialFileIsBeingWritten, At
<1>7. PartialTempIsBeingWritten'
  <2> SUFFICES ASSUME ~faulted, NEW q \in Processes, NEW l \in Keys, temp'[q][l] = "partial"
               PROVE  \E u \in Workers : /\ worker'[u].pc = "data" /\ worker'[u].handle = "temp"
                                         /\ Process(u)' = q /\ Key(u)' = l
    BY <1>1 DEF PartialTempIsBeingWritten
  <2>1. CASE q = p /\ l = k
    BY <2>1, <1>4
  <2>2. CASE ~(q = p /\ l = k)
    <3>1. PICK u \in Workers : /\ worker[u].pc = "data" /\ worker[u].handle = "temp"
                               /\ Process(u) = q /\ Key(u) = l
      BY <2>2, <1>5 DEF WriteInv, PartialTempIsBeingWritten
    <3>2. QED
      BY <3>1, <1>1, <1>4
  <2>3. QED
    BY <2>1, <2>2
<1>8. QED
  BY <1>6, <1>7 DEF WriteInv

LEMMA WriteDataWrite == ASSUME IInv, WriteInv, NEW t \in Workers, WriteData(t) PROVE WriteInv'
<1> DEFINE k == Key(t)
           p == Process(t)
<1>1. /\ worker[t].pc = "data" /\ worker[t].pc \in Writing
      /\ worker' = [worker EXCEPT ![t].pc = "rename", ![t].handle = "none"]
      /\ file' = IF worker[t].handle = "file" THEN [file EXCEPT ![k] = "complete"] ELSE file
      /\ temp' = IF worker[t].handle = "temp" THEN [temp EXCEPT ![p][k] = "complete"] ELSE temp
      /\ UNCHANGED faulted /\ worker \in [Workers -> WorkerType]
  BY DEF WriteData, At, Writing, IInv, Types
<1>2. k \in Keys /\ p \in Processes
  BY <1>1, WritingKey
<1>3. /\ Became(t, "rename", worker[t].claim, worker[t].lock, "none")
      /\ worker'[t].index = worker[t].index
  BY <1>1, Assigned DEF WorkerType
<1>4. \A u \in Workers : u # t => worker'[u] = worker[u] /\ Key(u)' = Key(u) /\ Process(u)' = Process(u)
  BY <1>3 DEF Became, Key, Process
<1>5. ASSUME NEW l \in Keys, file'[l] = "partial"
      PROVE  file[l] = "partial" /\ ~(worker[t].handle = "file" /\ l = k)
  <2>1. CASE worker[t].handle = "file"
    <3>1. file'[k] = "complete" /\ \A m \in Keys : m # k => file'[m] = file[m]
      BY <1>1, <1>2, <2>1, FileValue DEF IInv
    <3>2. QED
      BY <1>5, <3>1
  <2>2. CASE worker[t].handle # "file"
    BY <1>1, <1>5, <2>2
  <2>3. QED
    BY <2>1, <2>2
<1>6. ASSUME NEW q \in Processes, NEW l \in Keys, temp'[q][l] = "partial"
      PROVE  temp[q][l] = "partial" /\ ~(worker[t].handle = "temp" /\ q = p /\ l = k)
  <2>1. CASE worker[t].handle = "temp"
    <3>0. temp' = [temp EXCEPT ![p][k] = "complete"]
      BY <1>1, <2>1
    <3>1. /\ temp'[p][k] = "complete"
          /\ \A r \in Processes, m \in Keys : (r # p \/ m # k) => temp'[r][m] = temp[r][m]
      <4>1. Tables
        BY DEF IInv
      <4> HIDE DEF k, p
      <4>2. QED
        BY <1>2, <3>0, <4>1 DEF Tables
    <3>2. QED
      BY <1>6, <3>1
  <2>2. CASE worker[t].handle # "temp"
    BY <1>1, <1>6, <2>2
  <2>3. QED
    BY <2>1, <2>2
<1>7. PartialFileIsBeingWritten'
  <2> SUFFICES ASSUME ~faulted, NEW l \in Keys, file'[l] = "partial"
               PROVE  \E u \in Workers : worker'[u].pc = "data" /\ worker'[u].handle = "file" /\ Key(u)' = l
    BY <1>1 DEF PartialFileIsBeingWritten, At
  <2>1. PICK u \in Workers : worker[u].pc = "data" /\ worker[u].handle = "file" /\ Key(u) = l
    BY <1>5 DEF WriteInv, PartialFileIsBeingWritten, At
  <2>2. QED
    BY <2>1, <1>4, <1>5
<1>8. PartialTempIsBeingWritten'
  <2> SUFFICES ASSUME ~faulted, NEW q \in Processes, NEW l \in Keys, temp'[q][l] = "partial"
               PROVE  \E u \in Workers : /\ worker'[u].pc = "data" /\ worker'[u].handle = "temp"
                                         /\ Process(u)' = q /\ Key(u)' = l
    BY <1>1 DEF PartialTempIsBeingWritten
  <2>1. PICK u \in Workers : /\ worker[u].pc = "data" /\ worker[u].handle = "temp"
                             /\ Process(u) = q /\ Key(u) = l
    BY <1>6 DEF WriteInv, PartialTempIsBeingWritten
  <2>2. QED
    BY <2>1, <1>4, <1>6
<1>9. QED
  BY <1>7, <1>8 DEF WriteInv

\* A temporary file that is moved while it is being written becomes a verdict
\* file that is being written.
LEMMA RenameWrite == ASSUME IInv, WriteInv, NEW t \in Workers, Rename(t) PROVE WriteInv'
<1> DEFINE k == Key(t)
           p == Process(t)
           R == Relinked(p, k)
<1>1. /\ worker[t].pc = "rename" /\ worker[t].pc \in Writing /\ UNCHANGED faulted
      /\ worker \in [Workers -> WorkerType]
  BY DEF Rename, At, Writing, IInv, Types
<1>2. k \in Keys /\ p \in Processes
  BY <1>1, WritingKey
<1>3. CASE temp[p][k] # None
  <2>1. /\ file' = [file EXCEPT ![k] = temp[p][k]]
        /\ temp' = [temp EXCEPT ![p][k] = None]
        /\ worker' = [R EXCEPT ![t].pc = "publish"]
    BY <1>3 DEF Rename
  <2>2. file'[k] = temp[p][k] /\ \A l \in Keys : l # k => file'[l] = file[l]
    BY <1>2, <2>1, FileValue DEF IInv
  <2>3. /\ temp'[p][k] = None
        /\ \A q \in Processes, l \in Keys : (q # p \/ l # k) => temp'[q][l] = temp[q][l]
    <3>1. Tables
      BY DEF IInv
    <3> HIDE DEF k, p
    <3>2. QED
      BY <1>2, <2>1, <3>1 DEF Tables
  <2>4. ASSUME NEW u \in Workers, worker[u].pc = "data"
        PROVE  /\ worker'[u].pc = "data" /\ Key(u)' = Key(u) /\ Process(u)' = Process(u)
               /\ (worker[u].handle = "temp" /\ Process(u) = p /\ Key(u) = k) => worker'[u].handle = "file"
               /\ (worker[u].handle = "temp" /\ ~(Process(u) = p /\ Key(u) = k)) => worker'[u].handle = "temp"
               /\ Key(u) # k => worker'[u].handle = worker[u].handle
    <3>1. u # t
      BY <1>1, <2>4
    <3>2. worker'[u] = R[u]
      <4>1. R \in [Workers -> WorkerType]
        BY <1>1, RelinkedKeeps
      <4> HIDE DEF R
      <4>2. QED
        BY <2>1, <3>1, <4>1
    <3>3. /\ R[u].pc = worker[u].pc /\ R[u].index = worker[u].index
          /\ R[u].handle = worker[u].handle \/ Key(u) = k
          /\ (worker[u].pc = "data" /\ worker[u].handle = "temp" /\ Process(u) = p /\ Key(u) = k) =>
               R[u].handle = "file"
          /\ (worker[u].handle = "temp" /\ (Process(u) # p \/ Key(u) # k)) => R[u].handle = "temp"
      BY <1>1, RelinkedFields
    <3>4. Key(u)' = Key(u) /\ Process(u)' = Process(u)
      BY <3>2, <3>3 DEF Key, Process
    <3> HIDE DEF R, k, p
    <3>5. QED
      BY <2>4, <3>2, <3>3, <3>4
  <2>5. PartialFileIsBeingWritten'
    <3> SUFFICES ASSUME ~faulted, NEW l \in Keys, file'[l] = "partial"
                 PROVE  \E u \in Workers : worker'[u].pc = "data" /\ worker'[u].handle = "file" /\ Key(u)' = l
      BY <1>1 DEF PartialFileIsBeingWritten, At
    <3>1. CASE l = k
      <4>1. PICK u \in Workers : /\ worker[u].pc = "data" /\ worker[u].handle = "temp"
                                 /\ Process(u) = p /\ Key(u) = k
        BY <1>2, <2>2, <3>1 DEF WriteInv, PartialTempIsBeingWritten
      <4>2. QED
        BY <2>4, <3>1, <4>1
    <3>2. CASE l # k
      <4>1. PICK u \in Workers : worker[u].pc = "data" /\ worker[u].handle = "file" /\ Key(u) = l
        BY <2>2, <3>2 DEF WriteInv, PartialFileIsBeingWritten, At
      <4>2. QED
        BY <2>4, <3>2, <4>1
    <3>3. QED
      BY <3>1, <3>2
  <2>6. PartialTempIsBeingWritten'
    <3> SUFFICES ASSUME ~faulted, NEW q \in Processes, NEW l \in Keys, temp'[q][l] = "partial"
                 PROVE  \E u \in Workers : /\ worker'[u].pc = "data" /\ worker'[u].handle = "temp"
                                           /\ Process(u)' = q /\ Key(u)' = l
      BY <1>1 DEF PartialTempIsBeingWritten
    <3>1. ~(q = p /\ l = k)
      BY <2>3, NoneAssumption
    <3>2. PICK u \in Workers : /\ worker[u].pc = "data" /\ worker[u].handle = "temp"
                               /\ Process(u) = q /\ Key(u) = l
      BY <2>3, <3>1 DEF WriteInv, PartialTempIsBeingWritten
    <3>3. QED
      BY <2>4, <3>1, <3>2
  <2>7. QED
    BY <2>5, <2>6 DEF WriteInv
<1>4. CASE temp[p][k] = None
  <2>1. worker' = [worker EXCEPT ![t].pc = "unlink"] /\ UNCHANGED files
    BY <1>4 DEF Rename, Goto
  <2>2. \A u \in Workers : u # t => worker'[u] = worker[u]
    BY <1>1, <2>1
  <2>3. QED
    BY <1>1, <2>1, <2>2, QuietWrite
<1>5. QED
  BY <1>3, <1>4

\* A temporary file that loses its name is not partial any more; every other
\* file keeps its writer.
LEMMA RemoveTemporaryWrite ==
  ASSUME IInv, WriteInv, NEW t \in Workers, RemoveTemporary(t) PROVE WriteInv'
<1> DEFINE k == Key(t)
           p == Process(t)
<1>1. /\ worker[t].pc = "unlink" /\ worker[t].pc \in Writing
      /\ temp' = [temp EXCEPT ![p][k] = None] /\ UNCHANGED <<file, faulted>>
      /\ worker \in [Workers -> WorkerType]
  BY DEF RemoveTemporary, At, Writing, IInv, Types
<1>2. k \in Keys /\ p \in Processes
  BY <1>1, WritingKey
<1>3. /\ temp'[p][k] = None
      /\ \A q \in Processes, l \in Keys : (q # p \/ l # k) => temp'[q][l] = temp[q][l]
  <2>1. Tables
    BY DEF IInv
  <2> HIDE DEF k, p
  <2>2. QED
    BY <1>1, <1>2, <2>1 DEF Tables
<1>4. ASSUME NEW u \in Workers, worker[u].pc = "data"
      PROVE  /\ worker'[u].pc = "data" /\ Key(u)' = Key(u) /\ Process(u)' = Process(u)
             /\ worker[u].handle # "temp" => worker'[u].handle = worker[u].handle
             /\ ~(Process(u) = p /\ Key(u) = k) => worker'[u].handle = worker[u].handle
  <2>1. u # t
    BY <1>1, <1>4
  <2>2. worker'[u] = IF worker[u].handle = "temp" /\ Process(u) = p /\ Key(u) = k
                     THEN [worker[u] EXCEPT !.handle = "none"] ELSE worker[u]
    BY <2>1 DEF RemoveTemporary
  <2> HIDE DEF k, p
  <2>3. /\ worker'[u].pc = worker[u].pc /\ worker'[u].index = worker[u].index
        /\ worker[u].handle # "temp" => worker'[u].handle = worker[u].handle
        /\ ~(Process(u) = p /\ Key(u) = k) => worker'[u].handle = worker[u].handle
    BY <1>1, <2>2 DEF WorkerType
  <2>4. QED
    BY <1>4, <2>3 DEF Key, Process
<1>5. PartialFileIsBeingWritten'
  <2> SUFFICES ASSUME ~faulted, NEW l \in Keys, file[l] = "partial"
               PROVE  \E u \in Workers : worker'[u].pc = "data" /\ worker'[u].handle = "file" /\ Key(u)' = l
    BY <1>1 DEF PartialFileIsBeingWritten, At
  <2>1. PICK u \in Workers : worker[u].pc = "data" /\ worker[u].handle = "file" /\ Key(u) = l
    BY DEF WriteInv, PartialFileIsBeingWritten, At
  <2>2. QED
    BY <2>1, <1>4
<1>6. PartialTempIsBeingWritten'
  <2> SUFFICES ASSUME ~faulted, NEW q \in Processes, NEW l \in Keys, temp'[q][l] = "partial"
               PROVE  \E u \in Workers : /\ worker'[u].pc = "data" /\ worker'[u].handle = "temp"
                                         /\ Process(u)' = q /\ Key(u)' = l
    BY <1>1 DEF PartialTempIsBeingWritten
  <2>1. ~(q = p /\ l = k)
    BY <1>3, NoneAssumption
  <2>2. PICK u \in Workers : /\ worker[u].pc = "data" /\ worker[u].handle = "temp"
                             /\ Process(u) = q /\ Key(u) = l
    BY <1>3, <2>1 DEF WriteInv, PartialTempIsBeingWritten
  <2>3. QED
    BY <1>4, <2>1, <2>2
<1>7. QED
  BY <1>5, <1>6 DEF WriteInv

LEMMA NextWrite == ASSUME IInv, WriteInv, [Next]_vars PROVE WriteInv'
<1>1. ASSUME NEW t \in Workers, Step(t) \/ ClaimFails(t) PROVE WriteInv'
  BY <1>1, OtherWrite, OpenTemporaryWrite, WriteDataWrite, RenameWrite, RemoveTemporaryWrite DEF Step
<1>2. ASSUME NEW t \in Workers, WriteFails(t) PROVE WriteInv'
  BY <1>2 DEF WriteFails, WriteInv, PartialFileIsBeingWritten, PartialTempIsBeingWritten
<1>3. ASSUME NEW p \in Processes, Crash(p) PROVE WriteInv'
  BY <1>3 DEF Crash, WriteInv, PartialFileIsBeingWritten, PartialTempIsBeingWritten
<1>4. ASSUME NEW j \in Jobs, Consume(j) PROVE WriteInv'
  BY <1>4, QuietWrite DEF Consume
<1>5. CASE Prune
  <2>1. /\ \A k \in Keys : file'[k] = None
        /\ \A p \in Processes, k \in Keys : temp'[p][k] = None
    BY <1>5 DEF Prune
  <2>2. QED
    BY <2>1, NoneAssumption DEF WriteInv, PartialFileIsBeingWritten, PartialTempIsBeingWritten
<1>6. CASE UNCHANGED vars
  BY <1>6, QuietWrite DEF vars, files
<1>7. QED
  BY <1>1, <1>2, <1>3, <1>4, <1>5, <1>6 DEF Next

------------------------------------------------------------------------------
(* Theorems.                                                               *)

\* At most one worker, of all jobs and processes, checks a large function at
\* a time (claim in check_one), unless a claim of its key was spoilt by a
\* rejection, a failed write, a crash, a lock that could not be had or the
\* removal of the store.  The claim and the read of the store after it are
\* enough although a worker that waited gives its lock up.
THEOREM OneChecker == Spec => []SingleFlight
<1>1. IInv /\ FlightInv => SingleFlight
  <2> SUFFICES ASSUME IInv, FlightInv, NEW t \in Workers, NEW u \in Workers,
                      worker[t].pc = "check", worker[u].pc = "check", Key(t) = Key(u),
                      Key(t) \in Large, Key(t) \notin excused
               PROVE  t = u
    BY DEF SingleFlight, At
  <2>1. Flight(Key(t)) /\ "check" \in Busy
    BY DEF FlightInv, Busy
  <2>2. Holds(t, Key(t)) /\ Holds(u, Key(t))
    BY <2>1 DEF Flight, Disciplined, Holds
  <2>3. QED
    BY <2>1, <2>2 DEF Flight
<1>2. QED
  BY <1>1, InitEstablishes, NextPreserves, InitFlight, NextFlight, PTL DEF Spec

\* Without a failed write or a crash, a verdict file that decode refuses is
\* one that a worker still has open and will complete: the rename over it by
\* another worker of the same process never leaves a torn verdict behind.
THEOREM TornFilesAreOpen == Spec => []PartialFileIsBeingWritten
<1>1. Init => WriteInv
  BY NoneAssumption DEF Init, WriteInv, PartialFileIsBeingWritten, PartialTempIsBeingWritten
<1>2. WriteInv => PartialFileIsBeingWritten
  BY DEF WriteInv
<1>3. QED
  BY <1>1, <1>2, InitEstablishes, NextPreserves, NextWrite, PTL DEF Spec

=============================================================================
