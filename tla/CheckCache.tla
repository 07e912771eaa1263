----------------------------- MODULE CheckCache -----------------------------
(***************************************************************************)
(* The SafeWIR checker's verdict cache (check/cache.rs), the per-function  *)
(* driver that uses it (check_one and the loop after it in check.rs) and   *)
(* the worker threads that run it (parallel.rs: map_ordered).              *)
(*                                                                         *)
(* A job is one check of a module.  Its workers take functions by index,   *)
(* look each key up in the process's memo and in the store directory, may  *)
(* wait for another checker of the same key under a lock file, check, and  *)
(* publish.  The jobs of several processes share the store.                *)
(*                                                                         *)
(* A verdict is the set of tail sites that the function discharges.  A     *)
(* file is read and written in steps; a file that is not yet, or will      *)
(* never be, complete is "partial".  The lock files, the rename and the    *)
(* removal of a directory are those of the operating system.               *)
(***************************************************************************)
EXTENDS Integers, Sequences, FiniteSets

CONSTANTS
  Jobs, Workers, Processes, Keys,
  JobOf,       \* JobOf[t]: the job that worker t serves
  ProcessOf,   \* ProcessOf[j]: the process that runs job j
  Module,      \* Module[j]: the keys of the functions, in module order
  Admitted,    \* the keys whose check succeeds
  Sites,       \* Sites[k]: the tail sites an admitted function discharges
  Obligations, \* Obligations[j]: the tail sites of the module
  Large,       \* keys of functions of SINGLE_FLIGHT_BLOCKS blocks or more
  Proofs,      \* Proofs[j]: the affine ABI proofs of the module, None if it has none
  MaxEntries,  \* MAX_ENTRIES
  None

ASSUME CacheAssumption ==
  /\ JobOf \in [Workers -> Jobs]
  /\ ProcessOf \in [Jobs -> Processes]
  /\ Module \in [Jobs -> Seq(Keys)]
  /\ Admitted \subseteq Keys /\ Large \subseteq Keys
  /\ MaxEntries \in Nat \ {0}
  /\ IsFiniteSet(Workers)
  /\ \A j \in Jobs : \E t \in Workers : JobOf[t] = j
ASSUME NoneAssumption ==
  /\ None \notin {"partial", "complete", <<"Crashed", 0>>}
  /\ None # [ok |-> FALSE, sites |-> {}]
  /\ \A k \in Keys : None # [ok |-> TRUE, sites |-> Sites[k]]

VARIABLES
  worker,      \* worker[t]: pc, index, the claim, the lock file it opened and the
               \* file its handle names
  next,        \* next[j]: map_ordered's shared counter
  results,     \* results[j]: the verdicts found so far, by index
  outcome,     \* outcome[j]: what the check of the module returned
  memo,        \* memo[p]: VERDICTS, a set of <<key, sites>>
  affine,      \* affine[p]: AFFINE_VERDICTS, a set of <<key, sites, proofs>>
  file,        \* file[k]: the verdict file, None, "partial" or "complete"
  temp,        \* temp[p][k]: the temporary file of process p
  lockFile,    \* lockFile[k]: which lock file the path names now
  excused,     \* keys with a claim that could not lead to one checker
  faulted,     \* some write failed, or a process crashed
  pruned       \* prune_stale_stamps of another build removed the directory

files == <<file, temp>>
vars == <<worker, next, results, outcome, memo, affine, file, temp, lockFile,
          excused, faulted, pruned>>

Process(t) == ProcessOf[JobOf[t]]
Key(t) == Module[JobOf[t]][worker[t].index]
At(t, pc) == worker[t].pc = pc
Goto(t, pc) == [worker EXCEPT ![t].pc = pc]
Single(j) == Cardinality({t \in Workers : JobOf[t] = j}) = 1

-----------------------------------------------------------------------------
(* Verdict files.                                                          *)

\* store::read and decode: the integrity digest makes a partial file a miss.
decode(k) == IF file[k] = "complete" THEN {Sites[k]} ELSE {}

\* The insertion of an entry into a table of verdicts: a full table is
\* cleared first, and the entry replaces that of its key.
insert(table, entry) ==
  (IF Cardinality(table) >= MaxEntries THEN {} ELSE {v \in table : v[1] # entry[1]})
     \cup {entry}

\* Where the check of the worker's function puts a verdict it established
\* without a claim: record or record_affine.
Remember(t, sites) ==
  LET p      == Process(t)
      proofs == Proofs[JobOf[t]]
  IN IF proofs # None /\ worker[t].claim = "none"
     THEN affine' = [affine EXCEPT ![p] = insert(@, <<Key(t), sites, proofs>>)] /\ UNCHANGED memo
     ELSE memo' = [memo EXCEPT ![p] = insert(@, <<Key(t), sites>>)] /\ UNCHANGED affine

\* The loop over the verdicts refuses r at index i of job j: a rejection, or a
\* tail site that an earlier function discharged.
Refuses(rs, i, r) == ~r.ok \/ \E h \in 1..(i - 1) : rs[h].sites \cap r.sites # {}

\* Mutant: the results are collected in the order in which they are found.
Return_AsFound(t, r) ==
  LET j == JobOf[t]
      i == 1 + Cardinality({h \in DOMAIN Module[j] : results[j][h] # None})
  IN /\ results' = [results EXCEPT ![j][i] = r]
     /\ worker' = [worker EXCEPT
          ![t].pc = IF Single(j) /\ Refuses(results[j], i, r) THEN "exit" ELSE "next",
          ![t].claim = "none", ![t].lock = 0, ![t].handle = "none"]

\* The worker returns from check_one with result r.  The claim is dropped,
\* which unlocks its file.  A single worker checks lazily: it stops at the
\* first result that is refused.
Return(t, r) ==
  LET j == JobOf[t]
      i == worker[t].index
  IN /\ results' = [results EXCEPT ![j][i] = r]
     /\ worker' = [worker EXCEPT
          ![t].pc = IF Single(j) /\ Refuses(results[j], i, r) THEN "exit" ELSE "next",
          ![t].claim = "none", ![t].lock = 0, ![t].handle = "none"]

Ok(sites) == [ok |-> TRUE, sites |-> sites]
Rejected == [ok |-> FALSE, sites |-> {}]

-----------------------------------------------------------------------------
(* map_ordered and the lookup.                                             *)

\* The worker takes the next index, or exits after the last.
TakeIndex(t) ==
  LET j == JobOf[t] IN
  /\ At(t, "next")
  /\ IF next[j] < Len(Module[j])
     THEN /\ worker' = [worker EXCEPT ![t].pc = "memo", ![t].index = next[j] + 1]
          /\ next' = [next EXCEPT ![j] = @ + 1]
     ELSE worker' = Goto(t, "exit") /\ UNCHANGED next
  /\ UNCHANGED <<results, outcome, memo, affine, files, lockFile, excused, faulted, pruned>>

\* lookup, lookup_affine: the table of the process.  An affine verdict is
\* replayed only under the proofs it was established with.
LookupMemo(t) ==
  LET p      == Process(t)
      proofs == Proofs[JobOf[t]]
      hits   == IF proofs = None THEN {v \in memo[p] : v[1] = Key(t)}
                ELSE {v \in affine[p] : v[1] = Key(t) /\ v[3] = proofs}
  IN /\ At(t, "memo")
     /\ \/ \E v \in hits : Return(t, Ok(v[2]))
        \/ hits = {} /\ worker' = Goto(t, "store") /\ UNCHANGED results
     /\ UNCHANGED <<next, outcome, memo, affine, files, lockFile, excused, faulted, pruned>>

\* lookup, lookup_affine: the store; a hit is remembered.
LookupStore(t) ==
  /\ At(t, "store")
  /\ \/ \E sites \in decode(Key(t)) : Remember(t, sites) /\ Return(t, Ok(sites))
     \/ /\ decode(Key(t)) = {}
        /\ worker' = Goto(t, IF Key(t) \in Large THEN "open" ELSE "check")
        /\ UNCHANGED <<results, memo, affine>>
  /\ UNCHANGED <<next, outcome, files, lockFile, excused, faulted, pruned>>

-----------------------------------------------------------------------------
(* claim.                                                                  *)

Holders(k, lock) == {t \in Workers : /\ worker[t].claim \in {"held", "dropping"}
                                     /\ worker[t].lock = lock /\ Key(t) = k}

\* The lock file is opened, and created if it is not there.
OpenLock(t) ==
  /\ At(t, "open")
  /\ worker' = [worker EXCEPT ![t].pc = "try", ![t].lock = lockFile[Key(t)]]
  /\ UNCHANGED <<next, results, outcome, memo, affine, files, lockFile, excused, faulted, pruned>>

\* Mutant: the worker does not wait for the holder.
TryLock_NoWait(t) ==
  /\ At(t, "try")
  /\ worker' = [worker EXCEPT ![t].pc = "reread", ![t].claim = "waited"]
  /\ UNCHANGED <<next, results, outcome, memo, affine, files, lockFile, excused, faulted, pruned>>

\* try_lock: at once, or wait.
TryLock(t) ==
  /\ At(t, "try")
  /\ IF Holders(Key(t), worker[t].lock) = {}
     THEN worker' = [worker EXCEPT ![t].pc = "reread", ![t].claim = "held"]
     ELSE worker' = Goto(t, "wait")
  /\ UNCHANGED <<next, results, outcome, memo, affine, files, lockFile, excused, faulted, pruned>>

\* lock() returns when the file is free; any waiter may be served.
Acquire(t) ==
  /\ At(t, "wait")
  /\ Holders(Key(t), worker[t].lock) = {}
  /\ worker' = [worker EXCEPT ![t].pc = "drop", ![t].claim = "dropping"]
  /\ UNCHANGED <<next, results, outcome, memo, affine, files, lockFile, excused, faulted, pruned>>

\* A worker that waited releases the lock before it goes on.
DropLock(t) ==
  /\ At(t, "drop")
  /\ worker' = [worker EXCEPT ![t].pc = "reread", ![t].claim = "waited", ![t].lock = 0]
  /\ UNCHANGED <<next, results, outcome, memo, affine, files, lockFile, excused, faulted, pruned>>

\* The directory, the file or the lock cannot be had: the worker just checks.
ClaimFails(t) ==
  /\ worker[t].pc \in {"open", "try", "wait"}
  /\ worker' = [worker EXCEPT ![t].pc = "check", ![t].lock = 0]
  /\ excused' = excused \cup {Key(t)}
  /\ UNCHANGED <<next, results, outcome, memo, affine, files, lockFile, faulted, pruned>>

\* Claim::published, read again after the claim.
Published(t) ==
  /\ At(t, "reread")
  /\ \/ \E sites \in decode(Key(t)) :
          /\ memo' = [memo EXCEPT ![Process(t)] = insert(@, <<Key(t), sites>>)]
          /\ Return(t, Ok(sites))
     \/ /\ decode(Key(t)) = {}
        /\ worker' = Goto(t, "check")
        /\ UNCHANGED <<memo, results>>
  /\ UNCHANGED <<next, outcome, affine, files, lockFile, excused, faulted, pruned>>

-----------------------------------------------------------------------------
(* check_function and the record of its verdict.                           *)

\* Mutant: a rejection is recorded too.
CheckFunction_RecordsAll(t) ==
  /\ At(t, "check")
  /\ Remember(t, Sites[Key(t)])
  /\ worker' = Goto(t, "write") /\ UNCHANGED <<results, excused>>
  /\ UNCHANGED <<next, outcome, files, lockFile, faulted, pruned>>

\* A rejection returns its diagnostic; a verdict is remembered, and persisted
\* when it was claimed or took PERSIST_THRESHOLD.
CheckFunction(t) ==
  /\ At(t, "check")
  /\ \/ /\ Key(t) \notin Admitted
        /\ Return(t, Rejected)
        /\ excused' = excused \cup {Key(t)}
        /\ UNCHANGED <<memo, affine>>
     \/ /\ Key(t) \in Admitted
        /\ Remember(t, Sites[Key(t)])
        /\ \/ worker' = Goto(t, "write") /\ UNCHANGED results
           \/ worker[t].claim = "none" /\ Return(t, Ok(Sites[Key(t)]))
        /\ UNCHANGED excused
  /\ UNCHANGED <<next, outcome, files, lockFile, faulted, pruned>>

\* fs::write opens the temporary file of the process and truncates it.
OpenTemporary(t) ==
  /\ At(t, "write")
  /\ worker' = [worker EXCEPT ![t].pc = "data", ![t].handle = "temp"]
  /\ temp' = [temp EXCEPT ![Process(t)][Key(t)] = "partial"]
  /\ UNCHANGED <<next, results, outcome, memo, affine, file, lockFile, excused, faulted, pruned>>

\* The bytes reach the file that the handle names by now.
WriteData(t) ==
  /\ At(t, "data")
  /\ worker' = [worker EXCEPT ![t].pc = "rename", ![t].handle = "none"]
  /\ file' = IF worker[t].handle = "file" THEN [file EXCEPT ![Key(t)] = "complete"] ELSE file
  /\ temp' = IF worker[t].handle = "temp"
             THEN [temp EXCEPT ![Process(t)][Key(t)] = "complete"] ELSE temp
  /\ UNCHANGED <<next, results, outcome, memo, affine, lockFile, excused, faulted, pruned>>

\* The handles of the workers once the temporary file of process p takes the
\* place of the verdict file of k.
Relinked(p, k) ==
  [t \in Workers |->
     IF worker[t].pc # "data" \/ Key(t) # k THEN worker[t]
     ELSE CASE worker[t].handle = "temp" /\ Process(t) = p -> [worker[t] EXCEPT !.handle = "file"]
            [] worker[t].handle = "file"                   -> [worker[t] EXCEPT !.handle = "none"]
            [] OTHER                                       -> worker[t]]

\* Mutant: the bytes are written to the verdict file itself.
Rename_InPlace(t) ==
  /\ At(t, "rename")
  /\ file' = [file EXCEPT ![Key(t)] = "partial"]
  /\ worker' = Goto(t, "publish")
  /\ UNCHANGED <<next, results, outcome, memo, affine, temp, lockFile, excused, faulted, pruned>>

\* rename moves the temporary file over the verdict file; it fails when
\* another worker of the process has already moved or removed it.
Rename(t) ==
  LET p == Process(t)
      k == Key(t)
  IN /\ At(t, "rename")
     /\ IF temp[p][k] # None
        THEN /\ file' = [file EXCEPT ![k] = temp[p][k]]
             /\ temp' = [temp EXCEPT ![p][k] = None]
             /\ worker' = [Relinked(p, k) EXCEPT ![t].pc = "publish"]
        ELSE worker' = Goto(t, "unlink") /\ UNCHANGED files
     /\ UNCHANGED <<next, results, outcome, memo, affine, lockFile, excused, faulted, pruned>>

\* The open, the write or the rename fails.
WriteFails(t) ==
  /\ worker[t].pc \in {"write", "data", "rename"}
  /\ worker' = [worker EXCEPT ![t].pc = "unlink", ![t].handle = "none"]
  /\ excused' = excused \cup {Key(t)}
  /\ faulted' = TRUE
  /\ UNCHANGED <<next, results, outcome, memo, affine, files, lockFile, pruned>>

\* remove_file after a failure: whatever has the temporary name by now, the
\* file that another worker of the process is writing included, loses it.
RemoveTemporary(t) ==
  LET p == Process(t)
      k == Key(t)
  IN /\ At(t, "unlink")
     /\ temp' = [temp EXCEPT ![p][k] = None]
     /\ worker' = [u \in Workers |->
                     IF u = t THEN [worker[t] EXCEPT !.pc = "publish"]
                     ELSE IF worker[u].handle = "temp" /\ Process(u) = p /\ Key(u) = k
                     THEN [worker[u] EXCEPT !.handle = "none"] ELSE worker[u]]
     /\ UNCHANGED <<next, results, outcome, memo, affine, file, lockFile, excused, faulted, pruned>>

\* check_one returns the verdict it established.
ReturnVerdict(t) ==
  /\ At(t, "publish")
  /\ Return(t, Ok(Sites[Key(t)]))
  /\ UNCHANGED <<next, outcome, memo, affine, files, lockFile, excused, faulted, pruned>>

-----------------------------------------------------------------------------
(* The module's verdict.                                                   *)

Refused(rs) == {i \in DOMAIN rs : Refuses(rs, i, rs[i])}

\* The loop over the verdicts in module order, and the completeness check.
Verdict(j, rs) ==
  IF Refused(rs) # {}
  THEN LET i == CHOOSE i \in Refused(rs) : \A h \in Refused(rs) : i <= h
       IN <<IF rs[i].ok THEN "DuplicateTailObligation" ELSE "Rejected", i>>
  ELSE IF Obligations[j] \subseteq UNION {rs[i].sites : i \in DOMAIN rs}
       THEN <<"Ok", 0>> ELSE <<"MissingTailObligation", 0>>

\* All workers have joined.  A lazy check has no result after a rejection.
Consume(j) ==
  LET n  == Cardinality({i \in DOMAIN Module[j] : results[j][i] # None})
      rs == [i \in 1..n |-> results[j][i]]
  IN /\ \A t \in Workers : JobOf[t] = j => At(t, "exit")
     /\ outcome[j] = None
     /\ outcome' = [outcome EXCEPT ![j] = Verdict(j, rs)]
     /\ UNCHANGED <<worker, next, results, memo, affine, files, lockFile, excused, faulted, pruned>>

-----------------------------------------------------------------------------
(* Faults.                                                                 *)

\* Mutant: the lock of a crashed process is not released.
Crash_KeepsLock(p) ==
  LET mine == {t \in Workers : Process(t) = p} IN
  /\ {j \in Jobs : ProcessOf[j] = p /\ outcome[j] = None} # {}
  /\ worker' = [t \in Workers |-> IF t \in mine THEN [worker[t] EXCEPT !.pc = "dead"]
                                                ELSE worker[t]]
  /\ outcome' = [j \in Jobs |-> IF ProcessOf[j] = p /\ outcome[j] = None
                                THEN <<"Crashed", 0>> ELSE outcome[j]]
  /\ excused' = excused \cup {Key(t) : t \in {u \in mine : worker[u].claim # "none"}}
  /\ faulted' = TRUE
  /\ UNCHANGED <<next, results, memo, affine, files, lockFile, pruned>>

\* A process dies: its locks are released, its files stay as they are.
Crash(p) ==
  LET mine == {t \in Workers : Process(t) = p} IN
  /\ {j \in Jobs : ProcessOf[j] = p /\ outcome[j] = None} # {}
  /\ worker' = [t \in Workers |->
                  IF t \in mine THEN [worker[t] EXCEPT !.pc = "dead", !.claim = "none",
                                                       !.lock = 0, !.handle = "none"]
                  ELSE worker[t]]
  /\ outcome' = [j \in Jobs |-> IF ProcessOf[j] = p /\ outcome[j] = None
                                THEN <<"Crashed", 0>> ELSE outcome[j]]
  /\ excused' = excused \cup {Key(t) : t \in {u \in mine : worker[u].claim # "none"}}
  /\ faulted' = TRUE
  /\ UNCHANGED <<next, results, memo, affine, files, lockFile, pruned>>

\* A process of another build finds the stamp directory old enough, and
\* removes it with the verdicts, the temporary files and the lock files.
Prune ==
  /\ ~pruned
  /\ pruned' = TRUE
  /\ file' = [k \in Keys |-> None]
  /\ temp' = [p \in Processes |-> [k \in Keys |-> None]]
  /\ lockFile' = [k \in Keys |-> lockFile[k] + 1]
  /\ worker' = [t \in Workers |-> [worker[t] EXCEPT !.handle = "none"]]
  /\ excused' = Keys
  /\ UNCHANGED <<next, results, outcome, memo, affine, faulted>>

-----------------------------------------------------------------------------
Init ==
  /\ worker = [t \in Workers |-> [pc |-> "next", index |-> 1, claim |-> "none",
                                  lock |-> 0, handle |-> "none"]]
  /\ next = [j \in Jobs |-> 0]
  /\ results = [j \in Jobs |-> [i \in DOMAIN Module[j] |-> None]]
  /\ outcome = [j \in Jobs |-> None]
  /\ memo = [p \in Processes |-> {}]
  /\ affine = [p \in Processes |-> {}]
  /\ file = [k \in Keys |-> None]
  /\ temp = [p \in Processes |-> [k \in Keys |-> None]]
  /\ lockFile = [k \in Keys |-> 1]
  /\ excused = {} /\ faulted = FALSE /\ pruned = FALSE

Step(t) ==
  \/ TakeIndex(t) \/ LookupMemo(t) \/ LookupStore(t)
  \/ OpenLock(t) \/ TryLock(t) \/ Acquire(t) \/ DropLock(t) \/ Published(t)
  \/ CheckFunction(t)
  \/ OpenTemporary(t) \/ WriteData(t) \/ Rename(t) \/ RemoveTemporary(t) \/ ReturnVerdict(t)

Next ==
  \/ \E t \in Workers : Step(t) \/ ClaimFails(t) \/ WriteFails(t)
  \/ \E j \in Jobs : Consume(j)
  \/ \E p \in Processes : Crash(p)
  \/ Prune

\* A thread that can run runs; a lock that is free is granted in the end.
Fairness ==
  /\ \A t \in Workers : WF_vars(Step(t))
  /\ \A j \in Jobs : WF_vars(Consume(j))

Spec == Init /\ [][Next]_vars /\ Fairness

-----------------------------------------------------------------------------
(* Properties.                                                             *)

\* Everything that can be replayed is the verdict of an admitted function
\* with exactly the sites it discharges: in both tables of every process and
\* in every file that decode accepts.  A rejection is never stored.
VerdictsSound ==
  /\ \A p \in Processes : \A v \in memo[p] \cup affine[p] :
       v[1] \in Admitted /\ v[2] = Sites[v[1]]
  /\ \A k \in Keys : decode(k) # {} => (k \in Admitted /\ decode(k) = {Sites[k]})

\* The results of a sequential check without cache.
Truth(j) ==
  [i \in DOMAIN Module[j] |->
     IF Module[j][i] \in Admitted THEN Ok(Sites[Module[j][i]]) ELSE Rejected]

\* What parallel.rs promises: the module's verdict, and the error it reports,
\* are those of a sequential check without cache, whatever the workers, the
\* replays, the other processes and the faults did.
OutcomeIsSequential ==
  \A j \in Jobs : outcome[j] \notin {None, <<"Crashed", 0>>} => outcome[j] = Verdict(j, Truth(j))

\* One checker per verdict at a time: two workers check the same large
\* function only after a claim that could not publish (a rejection, a failed
\* write, a crash), could not be taken, or whose lock file was removed.
SingleFlight ==
  \A t, u \in Workers :
    (t # u /\ At(t, "check") /\ At(u, "check") /\ Key(t) = Key(u) /\ Key(t) \in Large)
      => Key(t) \in excused

\* The comment at cache.rs:647 promises a reader "a complete file or none".
\* Workers of one process share a temporary name, so a rename can publish a
\* file that another worker has just truncated, and the promise is broken;
\* without a fault that worker is still writing the file, and completes it.
PartialFileIsBeingWritten ==
  ~faulted => \A k \in Keys : file[k] = "partial" =>
                \E t \in Workers : At(t, "data") /\ worker[t].handle = "file" /\ Key(t) = k

\* Every check of a module ends, whatever happens to the holders of the locks
\* its workers wait for.
EveryCheckReturns == \A j \in Jobs : <>(outcome[j] # None)
=============================================================================
