# A TLA+ model of witchy's concurrency

witchy is a language with a compiler to WebAssembly, an interpreter, a standard
library written in witchy itself, a capability system and tooling around them.
What is hard to get right by testing is where several things happen at once:
the cooperative executor every `async` program runs on, the typed kernel with
which the interpreter runs such programs, the cache that lets threads and
processes share the verdicts of the SafeWIR checker, the launcher that runs the
compiler in a confined process, and the development server that rebuilds a site
while its author saves and a browser polls. This project models these parts,
checks them with TLC and proves what it can with TLAPS.

## 1. Inventory

| component | state it keeps | operations | properties that make it correct | here |
|---|---|---|---|---|
| channel rings, `src/std/task.witchy` 558-651 | per channel: `(buf, head, count, cap)`, erased, and a parallel typed Int ring until it is "materialized" | new, put, grow, take, copy typed to erased | a FIFO queue; only written slots are read; the switch is invisible | modelled, proved |
| executor `run`, 484-556, 658-726, 746-2045 | slots, `slot_live`, `live_count`, frame tables (kind, phase, channels, callbacks, pending message), channels, round state | one turn per slot: poll a task or retry what it waits for; fork, join, cancel, send, receive, select; close pass | nothing lost; `None` only at quiescence; tables agree; `run` returns | modelled, proved |
| direct loop `__compiler_run_channel_only`, 2068-2160 | current task, channels | the channel operations of one task | does what `run` does | modelled |
| `__compiler_run_ready`, `__compiler_run_yield_only`, 2047-2066 | the current task | poll | - | no state to model |
| task combinators and frame constructors, 120-483, 728-742 | none | build `Step` values | - | inputs of the executor: any `Step` |
| typed kernel, `crates/witchy-interp/src/typed_{async,queue,host,scheduler}.rs` | executions (state, status, generation), queues (payloads, send and receive waiters, closed), host waits, run queue | submit send/receive/select/host, close, complete, cancel, wake, run a round | a payload is delivered once and in order; waits and registrations agree; a Ready execution is queued | modelled, proved |
| check cache and parallel checker, `crates/witchy-wir/src/canonical_safewir/check{.rs,/cache.rs}`, `parallel.rs` | per process: two bounded verdict tables; on disk: verdict files, temporary files, lock files; per check: a shared index and the results | take an index, look up, claim, wait, check, record, write, rename, consume; prune | only genuine verdicts are replayed; the outcome of a sequential check; one checker per large function; every check returns | modelled, proved |
| compiler worker, `crates/witchy-compiler-worker`, `crates/witchy-worker-protocol` | parent: loop, two threads, deadline; child: stage, limits, response; two pipes | spawn, poll, kill, join; read, arm, compile, respond | the launch returns, leaves nothing, and answers only from a complete response | modelled, proved |
| development server, `src/commands/web/dev{.rs,/static_site.rs}`, `web.rs` | fingerprint, published build and generation, diagnostic; the output directory; the page | watch, check, publish, serve; the page's handlers | the last good build is served; a save, or a diagnostic about it, reaches the page | partly modelled, proved |
| `std/chan` | none of its own (programs over the executor) | scope, gather, race, select, pipelines | structured results, losers cancelled | planned |
| `std/future` | futures' state | join_all, select | - | planned |
| capability model, confinement | sets of capabilities | attenuate, audit | - | candidate |
| runtime host, compiler passes, CLI, LSP, playground, scripts | - | - | - | not modelled, see section 5 |

How they interact: `std/chan` and the async lowering build `Step` values; `run`
polls a task, interprets its `Step` on its own tables and calls the
continuation. Compiler-owned *frames* let a loop of receives or sends run inside
the executor without rebuilding a task. In the interpreter the typed kernel
takes the place of `run` for checked shapes: a turn moves an execution along an
edge, and the embedder submits the operation that blocked it. The compiler's
checker runs `check_one` for each function on the threads of `map_ordered`; the
processes of several compilations meet only in the store directory. The compiler
itself may run in a worker process, whose parent talks to it over two pipes. The
development server calls the compiler in its own thread.

`PROJECT.json` lists the hazards of each at their lines: orders of turns, messages
in transit at a cancellation, calls that fail half-way, two writers of one
temporary file, a crash or a prune between two steps, a pipe that fills up, a
deadline that races the exit, an early return that leaves a process behind, a save
between a fingerprint and a read or outside what the fingerprint covers.

## 2. Modules

| module | what it is |
|---|---|
| `ChannelFifo` | abstract: what one channel promises, a FIFO queue with a capacity that only the close pass exceeds |
| `ChannelRing` | one channel as stored: both rings as `buf`/`phys`/`head`/`count`/`cap` records; the copying loop of `typed_i64_materialize` one message a step |
| `TaskExecutor` | `run`: one action per kind of turn, per `Step`, per arm of the close pass |
| `MessageLedger` | abstract: what the executor promises about messages, each of which moves from its sender through its channel to a receiver, or is dropped with a cancelled task |
| `ChannelOnly`, `SingleTask` | the direct loop for one task; the executor with the refinement mapping to it |
| `TypedKernel` | executions, queues, host waits and scheduler; one action per call |
| `CheckCache` | workers, jobs and processes over the tables and the store; one action per step that another thread or process can see |
| `CompilerWorker` | parent, two threads, child and pipes of one launch |
| `DevServer` | server loop, publication, author and page |
| `*_proofs` | theorems of the module of that name |
| `TaskLedger_proofs` | `TaskExecutor` implements `MessageLedger`; the theorems about its messages, rings and close pass |
| `MC*` | instances for TLC |

**ChannelRing, TaskExecutor.** `ChannelRing` keeps every index computation of the
source. `TaskExecutor` uses what `ChannelRing` shows, a channel is a sequence, and
keeps all of `run`'s control. State corresponds as follows.

* `slots`, `slot_live`, `live_count`, `slot_count`, `frame_kinds`,
  `frame_phases`, `frame_channels`, `frame_recipes`, `frame_pending` are the
  source's variables (`select_first_channels` and `select_second_channels` are
  part of `frame_channels`). `Wait2/3/4` and `WaitAny` are `WaitRecv` with
  several arms; the seven frame constructors are `FrameSlot(kind)`. `WaitJoin`
  is never constructed by the source and is not modelled.
* The callback tables are one sequence per frame kind, whose entry is the kind
  whose callbacks it holds, or 0 after they were set to `None`. Kinds 6 and 7
  share theirs, as in the source. The scalar lanes of a frame are left out.
* `erased`, `typed`, `typed_live` are `channels` and `typed_i64_channels`.
* `pc`, `i`, `n`, `prog` are the control state of the two loops. A turn is one
  step, because nothing can interrupt it; the one place where a turn has more
  steps is a frame loop that drains its channel.
* `polls` bounds the program; `issued`, `taken`, `seen`, `dropped` are history
  variables. Message `m` is the `m`-th message any task issued.

The nondeterminism is the program: at every poll a task may ask for any
operation on any channel or task id that exists, and every callback may finish
or continue. A `fail(...)` branch has no action: the guard `HasRecipe` or the
test on `frame_pending` would block, TLC would report a deadlock, and
`NoMissingRecipe` states it directly.

**TypedKernel.** An execution is a shape: states with edges, and operation sites.
Two assumptions say which. `ShapeAssumption` is what `validate()`
(typed_execution.rs:177-281) checks. `LoweringAssumption` is what it does not check
and what each lowering in typed_async_lowering.rs emits (lines 413-437, 543-553,
616-618, 662-664, 713-715, 759-768, 820-826): the state that a blocking edge enters
has exactly one edge for each outcome of the operation, and none of these blocks
again. Without the second, `matching_commit_transition` (typed_async.rs:255-275) could
return `Err` after a queue has changed; that path is not modelled, and no shape of
this repository takes it. `VectorAssumption` says that states, edges, sites and arms
are vectors, `InstallAssumption` that every execution is installed once.

`exec[e]` is `TypedExecution` and the driver's generation; `queues[q]` is
`TypedQueue`. Every call of the scheduler takes `&mut self`, so a call is a step. A
call that returns `Err` keeps the changes it has made, as in the code, and sets
`erred`; so a round whose turn has no valid selection stops there, with the execution
out of the run queue and the rest still in `ready`. `Wake` takes an execution from any
waiting site and leaves its registrations where they are, with `Ok`; `woken` remembers
the executions this happened to. `slips` counts the wakes of a registered kind of site
and the failed rounds, which are bounded in the runs by `MaxSlips`. A payload is the
identity of the wait that offers it; `order` and `received` are history variables. What
stays of a list of waits or turns is `Retain`, a recursive function that keeps the
elements of a set in their order.

**CheckCache.** A job is one call of the checker on a module; a worker is a thread
of `map_ordered`, at a `pc` between two accesses to what others can see. A verdict
is the set of tail sites of a key; `Admitted` and `Sites` say what a check of the
key finds, and only `CheckFunction` consults them to make a verdict. A verdict file
is absent, partial or complete: `decode` turns a partial file into a miss. A thread
that writes has a handle, which `Relinked` moves from the temporary to the verdict
name when another thread of the process renames the file under it, because the
temporary name carries the process id and the key only. A writer whose rename failed
removes the temporary by that name (`RemoveTemporary`), which may be the fresh file of
another thread. An affine verdict is replayed from the table only under the proofs
(`Proofs` of the module) it was established with. The lock of a lock file
is held by at most one worker and goes with its process; `lockFile` counts the
files the path has named, as a prune removes the file under its holders.

**CompilerWorker.** Bytes are chunks of a pipe. The parent is the loop of
`launch_and_admit` (poll, deadline, join the writer, join the reader), the threads
are `request-writer` and `response-reader`, the child is `service.rs`: prelude,
limits and confinement, source, end of file, response. It may stop in any of its
steps for ever or be killed (`Crash`). A `?` between the spawn and the end of the poll
loop ends in `parent = "abandoned"`: the child and the threads run on. `Results` is the order in which the parent
examines what it has.

**DevServer.** The inputs are code (modules, content, `witchy.toml`) and files, because
the code reads them at two moments: the code when the site is checked, the files when
the artifacts are written. `witchy.toml` says at which place the files are, so a code
has a place (`PlaceOf`). `input_fingerprint` takes the code and the files at the place
the *published* project names, and nothing of a place in a skipped directory. A
diagnostic carries what it is about. One alternative of `PublishFails` for each way
`publish_artifacts` and `publish_static` can end. The page is the embedded client with
its handlers; responses arrive in any order.

## 3. Runs

| run | instance | distinct states | checks |
|---|---|---|---|
| `ring_fifo` | 2 message values, capacities 0..3, at most 6 queued | 143 thousand | `TypeOK`, `LiveSlotsAreWritten`, `CopyInvariant`, refinement `FifoSpec` |
| `task_core` | 3 slots, 1 channel of capacity 0 or 1, 4 operations | 326 thousand | `TypeOK`, `LiveTablesAgree`, `NothingLostOrDuplicated`, `QuiescentClose`, `CapacityHolds`, `EndedForGood`, `RunReturns` |
| `task_typed_frames` | 3 slots, 1 channel of capacity 1, 4 operations, typed operations and frames together | 855 thousand | `NoMissingRecipe`, `NothingLostOrDuplicated`, `PerSenderOrder`, `TypedRingIsExclusive`, `CapacityHolds`, refinement `MovesAreAccounted` |
| `task_select` | 2 slots, 2 channels of capacity 1, 4 operations, 2 arms | 656 thousand | every form of select and frame loop: `NothingLostOrDuplicated`, `QuiescentClose`, `RunReturns` |
| `single_task` | 1 slot, 2 channels, 5 operations | 141 thousand | `DirectLoopAgrees`: `run` implements the direct loop |
| `typed_kernel` | 3 executions, a rendezvous queue and a queue of one place, one slip | 678 thousand | `TypeOK`, `QueuesSettled`, `AtMostOnce`, `NothingLostInOrder`, `RunnableIsQueued`, `WaitsAreRegistered` |
| `typed_select` | the same | - | expected violation: the comment on `submit_select` |
| `check_cache` | 2 processes, 3 jobs, 4 workers (two of them symmetric), tables of one entry | 810 thousand | `VerdictsSound`, `OutcomeIsSequential`, `SingleFlight`, `PartialFileIsBeingWritten` |
| `check_live` | 2 processes, 3 jobs of one worker; a large function that is rejected, one under two different affine proofs | 59 thousand | `EveryCheckReturns` |
| `compiler_worker` | a request of 4 chunks, pipes of 2, responses of 1, 3, 4 and 6 with a bound of 3 | 13.9 thousand | `TypeOK`, `NothingLeftBehind`, `AnswerIsGenuine`, `CompletedRunIsAnswered`, `LaunchReturns` |
| `dev_server` | 4 codes, 2 places, 2 assets, 3 saves, 1 file-system error | 914 thousand | `TypeOK`, `LastGoodUnlessOverwritten`, `EditReachesPage` |
| `dev_last_good` | the same | - | expected violation: "keeping last good build" |

What the properties say:

* `NothingLostOrDuplicated`: every message issued is in exactly one place - with
  its sender, in its channel, taken for a frame, handed to a task, or dropped
  with a cancelled task.
* `MovesAreAccounted`: every step of `run` is one move of the ledger or none: a task
  never gives away a second message before the first is out of its hands, only the
  head of a channel is taken, a released message goes to the channel it was issued
  for, a cancelled task takes with it just what it held. The mapping reads the
  channel from whichever ring is in use and the messages in transit from the slot or
  the frame tables.
* `QuiescentClose`: whenever the close pass reaches a slot, what that slot waits
  for cannot happen. No receiver is given `None` while its channel has a message.
* `TypedRingIsExclusive`: no slot is parked on a channel whose typed ring is
  active, for parked slots look only at the erased ring.
* `CapacityHolds`, `EndedForGood`: a channel exceeds its capacity only in the
  close pass; a task that ended or was cancelled never runs again.
* `LiveTablesAgree`: the `Ended` constructor, `slot_live` and `live_count` agree.
* `RunReturns`: for every finite program `run` returns with all tasks ended.
* `DirectLoopAgrees`: the two loops differ in parking, idle rounds and the close
  pass, and in nothing the task can see. The mapping lets the abstract loop send
  at the moment the executor prepares or parks the message.
* `QueuesSettled`: no queue keeps a wait that it could serve, also after a call
  that failed. `AtMostOnce`: no payload is delivered twice, whichever of the modelled
  calls fail. `NothingLostInOrder`: as long as nothing failed, everything admitted is
  delivered or pending in the order of admission.
* `RunnableIsQueued`: the scheduler's set, its two queues and the statuses agree,
  rounds that ended with `Err` included. `WaitsAreRegistered`: a direct registration
  belongs to the wait its execution is in, unless that execution was once woken from a
  registered wait (its stale registration may then be matched for a later wait, and
  leave that one's own registration stale in turn); and as long as no call failed,
  every submitted wait, of a woken execution too, has all its registrations.
* `VerdictsSound`: tables and readable files hold genuine verdicts only, a rejection
  never. `OutcomeIsSequential`: the module's verdict, and the error it reports, are
  those of a sequential check without cache. `SingleFlight`: two workers check the
  same large function at once only after a claim that could not publish, could not
  be taken, or lost its lock file to a prune. `PartialFileIsBeingWritten`: a
  truncated file can be published under the verdict's name (two writers, one
  temporary name), but without a fault somebody is about to complete it.
* `NothingLeftBehind`: a launch that comes back has reaped the process and joined both
  threads, unless a `?` between the spawn and the end of the poll loop abandoned them (a
  failing `try_wait`, launcher.rs:106, or a bound or deadline that does not convert,
  97-103); an abandoned launch never answers. `AnswerIsGenuine`: only a worker that was
  armed, read everything, wrote everything and exited with success is answered.
  `CompletedRunIsAnswered`: a worker that did is answered or refused for its length,
  unless a read of the response failed (launcher.rs:165). `LaunchReturns`: no hang of
  the worker keeps the parent.
* `LastGoodUnlessOverwritten`: whenever the server answers, the directory it serves
  from holds the last published build, unless the last publication failed after it had
  moved that directory; a later diagnostic is then announced (finding 2).
* `EditReachesPage`: once the saving stops, an open page shows the last save, or a
  diagnostic that is about the inputs as they are. It excuses a failed restore, which
  leaves no site to load, and a save that the watch missed (`missed`). A save is missed
  if the fingerprint cannot tell it from what the server knows: it fell between the
  first reading of the inputs and the first fingerprint; it put the inputs back to the
  fingerprint taken, during a build or by undoing a syntax error, whose diagnostic
  stays; it changed a file the published project does not name, or one below `.witchy`,
  `.git`, `dist` or `target*`. `missed` is cleared as soon as the watch sees a change or
  an error again.

The documented behaviour that the close pass resumes joins of live tasks and
stores messages past the capacity (spec/stdlib.md, spec/language.md) is part of
the model and not a finding.

**Findings.**

1. `typed_select`: the comment on `submit_select` (typed_queue.rs:489) says that "duplicate
   endpoints and stale generations cannot wake the losing arm later". That is true of the
   select that is being submitted. A select that waits and is matched by another one
   (lines 564 and 584) keeps its other arms registered; a later send or receive that
   matches such an arm fails. `close_queue` removes the arms of a select it wakes.
2. `dev_last_good`: the development server says of every failed build that it is "keeping
   last good build" (static_site.rs:69; also static_site.rs:1 and dev.rs:3). A publication
   that fails after `publish_artifacts` has moved the directory does not: when the old
   output cannot be removed (web.rs:1965) or the new manifest cannot be read
   (static_site.rs:95), the failed build is served under the old generation; when the
   rename and the restore both fail (web.rs:1957), nothing is served.

Remarks on the source that no run states:

* The comment above `ring_new` (task.witchy:569) says a bounded channel is "a fixed ring
  of `cap` slots". Line 574 makes one slot, and the ring doubles on demand; only the
  typed ring starts with `cap` slots. Nothing a program can observe depends on it.
* typed_queue.rs:376 and 414: a direct send or receive that matches an arm of a
  waiting select has committed its own side when it finds that the other side is not
  a direct wait, and returns `Err`. The properties of `typed_kernel` that need it
  say "as long as no call failed".
* check/cache.rs:767 says a claim "bounds the wait at one holder's check"; the lock is
  not a queue, so a newcomer's `try_lock` may be served before a waiter.
* check/cache.rs:647 says a reader sees "a complete file or none"; with two threads of
  one process on the same key it may see a partial one, which `decode` makes a miss.
  TLC finds the invariant `\A k \in Keys : file[k] # "partial"` violated in 16 states
  without any fault; `PartialFileIsBeingWritten` is what holds instead.
* typed_scheduler.rs:276 says that `wake` wakes "a matching typed wait"; it accepts every
  kind of waiting site and leaves the registration of the wait in place.

### Bounds

Rings: growth from 1 to 8 slots and wrap-around at 1, 2, 3, 4 and 6 physical
slots all happen within six queued messages. Executor: three slots are what a
sender, a receiver and a third task that cancels or joins one of them need; with
capacity 1 a second send blocks; four operations (besides forks and opens, which
`MaxSlots` and `MaxChans` bound) are enough for a parked sender or frame to be
cancelled, woken or released and for the slot to be used again. A task may always
end, so no bound causes a deadlock. Select frames are not in one run with producer
frames; the theorems do not have this limit.

Typed kernel: two waits per execution (`MaxGeneration`) are what a stale
registration needs: one to leave it behind and one to meet it. The three programs
offer every kind of site, a select of sends against a select of receives and a
cancellation with and without a cleanup state. One slip (`MaxSlips`) is a wake of one
registered wait, which then meets its old registration in its second wait, or one round
that fails before another; a second slip multiplies the states beyond the time a run
may take and adds no kind of step. Theorems have no such bound. Deadlock is not checked: an
execution that waits for a partner that has ended waits for ever, as in the code.

Check cache: two threads of one process and a third worker of another are what the
shared temporary name, the waiters on a lock and a crash of the holder need; tables
of one entry are cleared at every second verdict; the module with two workers has a
rejection before a function that is often ready first, so that the order of
consumption shows. In `check_live` two modules of one process share a function under
different affine proofs, so that the table holds it and still misses. Two workers of one job differ only in name, hence the symmetry. Processes stop at the end of
a check, so deadlock is not checked; `EveryCheckReturns` stands for it.

Compiler worker: the request and the longest response exceed a pipe, responses are
below, at and one and more above the bound.

Development server: three saves give a good build, a bad one and a repair, a syntax
error put back and broken again, a move to another place and back, or a save in each
step of one build; one error is enough for each way of a failed publication, a failed
rename with its failed restore counting as one, and for the stale directory it leaves
to refuse the builds of the later saves. Sizes, hashes and HTTP are data.

### Fairness

* `RunReturns`: weak fairness of `Step`. `run` is a sequential loop that never
  sleeps, and a callback is assumed to return. No fairness is assumed of any single
  task, of the choice of operation or of blocked senders. That programs are finite
  (`MaxPolls`) is an assumption: a task that yields for ever keeps `run` going.
* `EveryCheckReturns`: weak fairness of each worker thread and of the consuming loop.
  A waiter on a lock is served if the lock stays free; nothing is assumed of crashes,
  of failures or of the order in which the operating system grants a lock.
* `LaunchReturns`: weak fairness of the parent, its two threads and the clock, none of
  the child.
* `EditReachesPage`: weak fairness of the server's loop and of the page's handlers;
  the server's timeout of `recv_timeout` makes it take a watch step in the absence of
  requests. Nobody has to save or to open a page.

## 4. Proofs

From the assumptions on the constants only (the named `ASSUME`s, which TLC evaluates
in the runs), for every value of them:

* **Rings.** `TypeCorrect`, `OnlyWrittenSlotsAreLive`, `CopyIsFaithful`: the invariant
  is `TypeOK /\ LiveSlotsAreWritten /\ CopyInvariant`; the last part is needed
  because the erased buffer has no meaning of its own while the copy is under
  way. The arithmetic rests on one lemma, that `head + j` wraps at most once
  (`IndexWrap`). `RingImplementsFifo`: `ChannelRing` implements `ChannelFifo`.
  `ring_put` and `typed_i64_ring_put` append to the sequence of live messages
  (`PutExtends`, `TypedPutExtends`, `ContentsAppend`), a take removes its head
  (`TakeDropsHead`, `ContentsTail`), and the materialization is a stutter.
* **Executor.** `ExecutorTypes`, `NeverMissingRecipe`, `LiveTablesAlwaysAgree`.
  Neither of the last two is inductive: that a frame finds its callbacks depends on
  no two frames sharing a table entry (`RecipesAreOwned`), else finishing or
  cancelling one would clear the other's, and this in turn on the alignment of slot,
  kind and table of every slot, dead or alive (`Aligned`). `live_count` is the
  cardinality of the set of live slots. The step case has one lemma per action;
  nearly all of them are instances of four shapes - a slot is replaced
  (`ReplaceKeeps`), a frame is installed (`InstallKeeps`), changes its phase
  (`RephaseKeeps`) or finishes (`FinishKeeps`); ending, forking and cancelling
  have lemmas of their own (`DoneKeeps`, `ForkKeeps`, `CancelKeeps`).
* **Messages of the executor.** `ExecutorKeepsTheLedger`: `run` implements
  `MessageLedger`. `LedgerIsExact`, proved of the ledger alone, says that there each
  message is in exactly one place and each channel carries a sender's messages in
  order; that needs to know that what a task still has to send is its latest message
  and that no channel has carried it (`Unsent`). `MessagesAreExact`,
  `SendersKeepTheirOrder`, `TypedRingsAreExclusive`, `CloseIsQuiescent` and the
  action properties `CapacitiesHold` and `EndedStayEnded` come from the same
  induction. Its invariant `MInv` adds to the one above: the erased ring is empty
  while the typed one is active (`RingsInv`); a slot is parked on open channels whose
  typed ring has been retired (`Moored`), holds a message exactly where the accounts
  look for it (`Carried`) and for the channel it was issued for (`Addressed`); as
  long as a round has made no progress, every slot it visited is at rest, and so is
  every slot the close pass has still to visit (`IdleInv`). The last part is why
  quiescence is not a local fact: a slot that rested early in a round must still
  rest at its end, so a turn without progress may not move a message, retire a ring
  another slot looks at, or end a task; and the close pass, which does move
  messages, may only make full channels fuller and hand empty ones `None`
  (`Fuller`, `RestsStays`). One lemma per action gives the invariant, the ledger's
  move and both action properties together (`Outcome`).
* **Check cache.** `ReplaysAreSound` and `ParallelIsSequential`, for any number of
  processes, jobs, workers and keys and any table capacity, crashes, failing writes
  and prunes included. The invariant says what may be in a table or a file, partial
  files included (`Tables`); that a worker that writes has an admitted key, and why a
  worker left its loop (`Control`); that an index that was taken has a result or a
  worker on it (`Filled`); and that a result is the sequential one (`ResultsTrue`).
  When all workers have left, either every function has its result, or the job's
  only worker stopped at a refused one; `VerdictOfPrefix` shows that the first refused
  result of the prefix is then the first of the whole module. Steps that change no
  index share one lemma (`MoveKeeps`), the returns of `check_one` another
  (`ReturnKeeps`). `OneChecker` (`SingleFlight`) and `TornFilesAreOpen`
  (`PartialFileIsBeingWritten`) need a second invariant. The lock alone does not make
  a checker single: a worker that waited gives the lock up before it reads the store
  again. What keeps it from checking too is that the holder left a complete file and
  that nobody truncates or replaces that file afterwards, so the invariant follows the
  holder through its writes (`Disciplined`).
* **Compiler worker.** `WorkerTypes`, `LaunchLeavesNothing`, `AnswersAreGenuine`,
  `CompletedRunsAreAnswered`, for every length of request and response and every size
  of pipe, the launches that abandon the worker included. `TypeOK` (which says that a pipe holds what was written and not read) is
  strengthened by what each point of the child (`Progress`), of the threads
  (`Threads`) and of the parent (`ParentKnows`) says about the bytes that passed.
* **Development server.** `ServerTypes` and `LastGoodIsServed`
  (`LastGoodUnlessOverwritten`), for any inputs, places and skipped directories, any
  number of saves and errors. That a generation stays below the bound needs an argument:
  one is published only after the fingerprint changed, which takes a save, and a second
  time if that save moved the site's files, because the fingerprint is then taken at the
  new place (`Counted`, by the step the server is at). That the directory
  holds the published build needs the build the first fingerprint follows (`Control`).
* **Typed kernel.** `KernelTypes`, `QueuesAreSettled` and `ReadyExecutionsRun`
  (`RunnableIsQueued`), for every queue set, capacities and tokens and all shapes that
  satisfy the two assumptions on them, failed calls and wakes from outside included. None is inductive alone: that an execution stays in a
  state of its shape depends on every commit finding its edge, so the invariant
  `KernelInv` says that the state of a waiting execution has the one edge of each
  outcome of its site (`ExecOK`), that a registration names a site or an arm of just
  that queue and direction (`WaitOK`), and what a host registration
  knows of its execution, which a wake may have taken from it (`HostOK`). `Retain` is a recursive function; what it
  keeps, that it keeps each element once and in order, is shown by the least prefix
  that would not (`LeastNumber`). A select registers its arms one after the other while
  they block, which is an induction on the arm: if no arm is ready, registering all of
  them leaves every queue settled. `close_queue` commits a prefix of its wakes, each
  execution once.
* **Payloads and waits of the typed kernel.** `PayloadsAreDeliveredOnce` (`AtMostOnce`),
  `PayloadsKeepTheirOrder` (`NothingLostInOrder`) and `WaitsStayRegistered`
  (`WaitsAreRegistered`) rest on `AccountInv` beside `KernelInv`. A payload is named by
  its wait, so that it is not in two places needs to know that no queue has met a wait
  that is still to be submitted: every registration and every payload is of a `Past`
  generation (`Once`), and generations only age (`Ages`), failed calls included. That
  is all that survives a failed call; while none has failed, the delivered, buffered and
  offered payloads of a queue form one `Line`, which is the order of admission, and a
  parked execution has all its `Links`. A send, a delivery and a promotion move
  payloads along the line (`LineGrows`, `LineStays`), a cancellation or a close takes
  the same offers out of it and out of the order (`LineWithout`). The two selects of
  one match are the hard case: the submitted select has registered its earlier arms on
  the queue it then sends to. `Extended` describes that queue, `OwnArmsNeverMatch` shows
  that a counterpart which is accepted is never one of these arms, and `SendExtended`
  and `ReceiveExtended` that cancelling them leaves what a direct call would have left;
  so both kinds of call share the lemmas on what a commit does to a queue (`Commits`). A
  match that is refused leaves the caller committed and the counterpart's registration
  gone (`CallFails`). `close_queue` and `request_cancellation` remove the registrations
  of the executions they release (`Releases`); for the first this needs that every wake
  has an owner in its lowest arm (`WakeHasOwner`) and a registration one queue
  (`NamesOneQueue`).

Only model-checked: `DirectLoopAgrees` (one step of the executor's frame turn stands for
several of the direct loop, and the mapping looks ahead to the message a parked task
holds). `RunReturns`, `EveryCheckReturns`, `LaunchReturns` and
`EditReachesPage` are liveness under fairness, which the prover cannot treat.

## 5. Not modelled

* **The compiler's passes** (syntax, linker, types, loans, traits, lowering,
  SafeWIR checker, code generation), some nine tenths of the 307,000 lines of the
  implementation. They are functions from large trees to large trees, without state
  that several actors share; a model small enough for TLC would have to leave out
  the trees, which are all there is. For this reason the part of the repository's lines that
  the definitions of this project stand for is small. What is modelled of them is
  their concurrency: the cache and the threads of the checker.
* **`check_function`, keys and digests.** A verdict is a function of the key, which is
  a constant of `CheckCache`: a collision of digests or a key that leaves something
  out is not in the model.
* **Runtime host**: embeds a Wasm engine and performs I/O.
* **Capability model**: pure set algebra.
* **`std/chan`, `std/future`**: programs over the executor; planned.
* **Typed kernel**: budgets, the construction of shapes from WIR, the `Err` of
  `matching_commit_transition` for a shape that has no edge for an outcome (no lowering
  emits one), and `cancel` and
  `cancel_select` of the queue runtime, which no call of the scheduler reaches.
* **Compiler worker**: the codec of the frames (a frame
  decodes or not); that the buffer of standard input may hold bytes of the source
  before the limits are in force; descendants of the worker that keep a pipe open,
  which its confinement excludes.
* **Development server**: client-mode projects. Their artifacts are populated as
  production bundles (web.rs:1990) while the audit of a development build requires the
  bridge (web.rs:2815-2819), so publishing one in development mode fails at this
  commit and the hot-swap protocol behind it is not reached. HTTP, paths and headers
  are left out.
* **Command line, language server, playground, scripts**: glue and I/O.
* A blocked sender of one channel can be overtaken for ever by senders in lower slots
  (task.witchy:1105): the source promises no order between senders, so no property
  states one.

## 6. Plan

1. An abstract executor, what tasks may rely on (channels as `ChannelFifo`, `None`
   only at quiescence), with `TaskExecutor` shown to implement it; `race`, `gather`,
   `scope` and `select` of `std/chan` as its clients; then `std/future`.
2. `DirectLoopAgrees` as a theorem: the mapping of `SingleTask` with a step of its own
   for each stage of a frame turn.
3. The capability model as operators with their laws.

## 7. Running it

    tlc -workers 2 -config MCTaskCore.cfg MCTaskExecutor
    tlapm TaskExecutor_proofs.tla

The runs take from a few seconds to about three minutes each; from
nothing, the proofs of a module take from a minute to about ten (`TypedKernel_proofs`).
