---------------------------- MODULE TypedKernel ----------------------------
(***************************************************************************)
(* The typed execution kernel of the interpreter: TypedExecution           *)
(* (typed_async.rs), TypedQueue and TypedQueueRuntime (typed_queue.rs),    *)
(* the host adapter (typed_host.rs) and TypedScheduler (typed_scheduler.rs)*)
(* An execution is a checked shape: states with edges, and operation       *)
(* sites.  A turn moves it along one edge; an edge may block it on a site, *)
(* and the embedder then submits that operation to the queues or the host. *)
(* Every call of the scheduler takes `&mut self`, so one call is one step. *)
(*                                                                         *)
(* Frame lanes are abstracted: a payload is the identity of the wait that  *)
(* offers it.  A call that returns Err keeps the changes it made so far,   *)
(* as the code does, and sets `erred`.                                     *)
(***************************************************************************)
EXTENDS Integers, Sequences, FiniteSets, Functions

CONSTANTS
  Executions,     \* execution ids
  InstallOrder,   \* the order of the install_execution calls
  Queues,         \* queue shape ids
  Capacity,       \* Capacity[q]: 0 is Rendezvous, n Fixed(n), Dynamic unbounded
  Shape,          \* Shape[e]: the validated TypedExecutionShape
  HostTokens,     \* opaque host operation identities
  MaxEdges,       \* edges of a state, at most
  MaxGeneration,  \* bound: waits per execution
  MaxSlips        \* bound: wakes of an operation by hand, and selections that fail

Dynamic == -1
Kinds == {"send", "receive", "select", "host", "join"}
Opposite == [send |-> "receive", receive |-> "send"]
Terminal == {"Complete", "PropagatedError", "Trapped"}

\* What validate() checks of a shape: dense ids, every edge target, site and
\* queue present, queue and arms exactly where the kind of the site allows them.
\* "join" stands for every kind that no adapter registers (Spawn, Join, Yield).
ASSUME ShapeAssumption ==
  /\ \A q \in Queues : Capacity[q] \in Nat \cup {Dynamic}
  /\ \A e \in Executions :
       LET s == Shape[e] IN
       /\ s.entry \in DOMAIN s.states
       /\ s.cleanup \in DOMAIN s.states \cup {0}
       /\ \A k \in DOMAIN s.sites :
            /\ s.sites[k].kind \in Kinds
            /\ s.sites[k].kind \in {"send", "receive"} =>
                 (s.sites[k].queue \in Queues /\ s.sites[k].arms = <<>>)
            /\ (s.sites[k].kind = "select") = (s.sites[k].arms # <<>>)
       /\ \A n \in DOMAIN s.states : \A i \in DOMAIN s.states[n] :
            LET edge == s.states[n][i] IN
            /\ edge.out \in {"Continue", "Blocked"} \cup Terminal
            /\ edge.out \in {"Continue", "Blocked"} => edge.next \in DOMAIN s.states
            /\ edge.out = "Blocked" => edge.site \in DOMAIN s.sites

\* What validate() does not check and every lowering of typed_async_lowering.rs
\* emits: the arms of a select are channel operations, and the state that a
\* blocking edge enters has exactly one edge for each outcome of the operation,
\* none of which blocks again.  Without it matching_commit_transition would
\* return Err after the queue has changed; that path is not modelled.
ASSUME LoweringAssumption ==
  \A e \in Executions :
    LET s == Shape[e] IN
    /\ \A k \in DOMAIN s.sites : \A a \in DOMAIN s.sites[k].arms :
         /\ s.sites[k].arms[a].direction \in {"send", "receive"}
         /\ s.sites[k].arms[a].queue \in Queues
    /\ \A n \in DOMAIN s.states : \A i \in DOMAIN s.states[n] :
         LET edge == s.states[n][i] IN
         edge.out = "Blocked" =>
           \A a \in {0} \cup DOMAIN s.sites[edge.site].arms :
             ((a = 0) = (s.sites[edge.site].kind # "select")) =>
               \E j \in DOMAIN s.states[edge.next] :
                 /\ s.states[edge.next][j].arm = a
                 /\ s.states[edge.next][j].out # "Blocked"
                 /\ \A i2 \in DOMAIN s.states[edge.next] :
                      s.states[edge.next][i2].arm = a => i2 = j

\* Ids are positions: states, edges, sites and arms are vectors.
ASSUME VectorAssumption ==
  \A e \in Executions :
    /\ Shape[e].states \in Seq(Seq([arm : Nat, out : {"Continue", "Blocked"} \cup Terminal,
                                    next : Nat, site : Nat]))
    /\ \A k \in DOMAIN Shape[e].sites :
         Shape[e].sites[k].arms \in Seq([direction : {"send", "receive"}, queue : Queues])

ASSUME BoundAssumption == MaxSlips \in Nat

\* install_execution accepts every execution once.
ASSUME InstallAssumption ==
  /\ InstallOrder \in Seq(Executions)
  /\ \A i, j \in DOMAIN InstallOrder : InstallOrder[i] = InstallOrder[j] => i = j
  /\ {InstallOrder[i] : i \in DOMAIN InstallOrder} = Executions

VARIABLES
  exec,        \* executions[e]: state, status, the waited site; the driver's
               \* generation and whether it has submitted this wait
  queues,      \* queues[q]: payloads, send and receive waiters, closed
  hostWaits,   \* set of HostWait registrations
  ready,       \* what a round that ended with Err has left of its run queue
  next_round,  \* the run queue of the next round
  queued,      \* the executions in the two
  erred,       \* some call returned Err after changing state
  slips,       \* calls counted against MaxSlips
  woken,       \* the executions that `wake` took from a registered wait
  order,       \* order[q]: payloads admitted and not withdrawn, in admission order
  received     \* received[q]: payloads delivered to receivers, in delivery order

kernel == <<exec, queues, hostWaits>>
scheduler == <<ready, next_round, queued>>
ghost == <<order, received>>
mishaps == <<slips, woken>>
vars == <<exec, queues, hostWaits, ready, next_round, queued, erred, slips, woken,
          order, received>>

-----------------------------------------------------------------------------
(* Waits.                                                                  *)

\* What of the sequence s is in the set S, in the order of s.
Retain(s, S) ==
  LET kept[i \in 0..Len(s)] ==
        IF i = 0 THEN <<>>
        ELSE IF s[i] \in S THEN Append(kept[i - 1], s[i]) ELSE kept[i - 1]
  IN kept[Len(s)]

Without(s, W) == Retain(s, Range(s) \ W)

\* QueueWait: arm 0 is a direct operation.
WaitOf(e, a) == [execution |-> e, operation |-> exec[e].site,
                 generation |-> exec[e].generation, arm |-> a]

\* The payload that a wait offers.
PayloadOf(w) == <<w.execution, w.generation, w.arm>>

SameRecord(v, w) == /\ v.execution = w.execution
                    /\ v.operation = w.operation
                    /\ v.generation = w.generation

SiteOf(x, e) == Shape[e].sites[x[e].site]

\* waiting_operation: the kind of the installed wait record.
WaitsOn(x, e, kind) == x[e].status = "Waiting" /\ SiteOf(x, e).kind = kind

\* ensure_wait / waiting_queue_operation: a select site has no direct queue.
ensure_wait(x, w, q, kind) ==
  /\ WaitsOn(x, w.execution, kind)
  /\ x[w.execution].site = w.operation
  /\ SiteOf(x, w.execution).queue = q

\* ensure_select_wait / waiting_select_arms.
ensure_select_wait(x, w, q, kind) ==
  /\ WaitsOn(x, w.execution, "select")
  /\ x[w.execution].site = w.operation
  /\ w.arm \in DOMAIN SiteOf(x, w.execution).arms
  /\ SiteOf(x, w.execution).arms[w.arm] = [direction |-> kind, queue |-> q]

\* The check commit_wait makes before it commits.
Owns(x, w, q, kind) == IF w.arm = 0 THEN ensure_wait(x, w, q, kind)
                                    ELSE ensure_select_wait(x, w, q, kind)

-----------------------------------------------------------------------------
(* TypedExecution.                                                         *)

\* turn_selected: follow edge i of the current state.
Follow(e, x, i) ==
  LET edge == Shape[e].states[x.state][i] IN
  CASE edge.out = "Continue" -> [x EXCEPT !.state = edge.next, !.status = "Ready"]
    [] edge.out = "Blocked"  -> [x EXCEPT !.state = edge.next, !.status = "Waiting",
                                          !.site = edge.site, !.submitted = FALSE,
                                          !.generation = @ + 1]
    [] OTHER                 -> [x EXCEPT !.status = edge.out]

\* matching_commit_transition.
matching_commit_transition(e, x, a) ==
  CHOOSE i \in DOMAIN Shape[e].states[x.state] : Shape[e].states[x.state][i].arm = a

\* commit_operation: the wait w of its execution takes its retry edge.
commit_operation(x, w) ==
  [x EXCEPT ![w.execution] =
     Follow(w.execution, @, matching_commit_transition(w.execution, @, w.arm))]

\* TypedExecution::request_cancellation enters the declared cleanup state.
Cleanup(e) == [exec EXCEPT ![e].state = Shape[e].cleanup, ![e].status = "Ready"]

-----------------------------------------------------------------------------
(* TypedQueue: what each call does to the record r of queue q.             *)

has_buffer_capacity(q, r) == Capacity[q] = Dynamic \/ Len(r.payloads) < Capacity[q]

SendBlocks(q, r) == ~r.closed /\ r.receive_waiters = <<>> /\ ~has_buffer_capacity(q, r)
ReceiveBlocks(r) == ~r.closed /\ r.payloads = <<>> /\ r.send_waiters = <<>>

\* register_send, register_receive when the probe blocks.
register_send(r, w) == [r EXCEPT !.send_waiters = Append(@, w)]
register_receive(r, w) == [r EXCEPT !.receive_waiters = Append(@, w)]

\* send: hand over to the first waiting receiver, else buffer.
send(r, p) == IF r.receive_waiters # <<>>
              THEN [r EXCEPT !.receive_waiters = Tail(@)]
              ELSE [r EXCEPT !.payloads = Append(@, p)]

\* Mutant: the freed place is left empty.
promotes_Never(q, r) == FALSE

\* promote_one_sender, after a payload left the buffer.
promotes(q, r) == /\ has_buffer_capacity(q, [r EXCEPT !.payloads = Tail(@)])
                  /\ r.send_waiters # <<>>

\* Mutant: the promoted sender stays registered.
promote_one_sender_KeepsWait(q, r) ==
  [r EXCEPT !.payloads = IF promotes(q, r)
                         THEN Append(Tail(@), PayloadOf(Head(r.send_waiters))) ELSE Tail(@)]

promote_one_sender(q, r) ==
  IF promotes(q, r)
  THEN [r EXCEPT !.payloads = Append(Tail(@), PayloadOf(Head(r.send_waiters))),
                 !.send_waiters = Tail(@)]
  ELSE [r EXCEPT !.payloads = Tail(@)]

\* receive: the buffer first, then a blocked sender.
receive(q, r) == IF r.payloads # <<>> THEN promote_one_sender(q, r)
                                      ELSE [r EXCEPT !.send_waiters = Tail(@)]

\* The payload a receive takes, and the sender it wakes.
TakenPayload(r) == IF r.payloads # <<>> THEN Head(r.payloads)
                                        ELSE PayloadOf(Head(r.send_waiters))
WakesSender(q, r) == IF r.payloads # <<>> THEN promotes(q, r) ELSE TRUE

\* Mutant: only senders are looked for.
cancel_OnlySenders(r, W) ==
  [r EXCEPT !.send_waiters = Without(@, W)]

\* cancel: the registrations in the set W leave the queue.
cancel(r, W) ==
  [r EXCEPT !.send_waiters = Without(@, W),
            !.receive_waiters = Without(@, W)]

\* close wakes senders and receivers in registration order.  A queue never
\* has waiters of both directions (QueuesSettled), so sorting by the wait
\* sequence leaves the one list as it is.
CloseWakes(r) == r.send_waiters \o r.receive_waiters

\* Mutant: the buffered payloads are not kept for draining.
close_DropsBuffer(r) == [r EXCEPT !.closed = TRUE, !.payloads = <<>>,
                                  !.send_waiters = <<>>, !.receive_waiters = <<>>]

close(r) == [r EXCEPT !.closed = TRUE, !.send_waiters = <<>>, !.receive_waiters = <<>>]

-----------------------------------------------------------------------------
(* TypedScheduler: admission of the turns a call produced.                 *)

\* Mutant: the set of queued executions is not consulted.
admit_turns_Twice(x, turns) ==
  LET new == Retain(turns, {e \in Executions : x[e].status = "Ready"}) IN
  /\ next_round' = next_round \o new
  /\ queued' = queued \cup Range(new)
  /\ UNCHANGED ready

\* enqueue_next of every runnable execution of the sequence turns.
admit_turns(x, turns) ==
  LET new == Retain(turns, {e \in Executions \ queued : x[e].status = "Ready"}) IN
  /\ next_round' = next_round \o new
  /\ queued' = queued \cup Range(new)
  /\ UNCHANGED ready

\* Ok: the turns are admitted.
Succeed(x, turns) == admit_turns(x, turns) /\ UNCHANGED erred

\* Err: nothing is admitted, whatever the runtime has already changed.
Fail == erred' = TRUE /\ UNCHANGED scheduler

\* The payloads that the waiting senders in W offered are withdrawn.
Withdraw(W) ==
  order' = [q \in Queues |->
              LET offered == {PayloadOf(w) : w \in W \cap Range(queues[q].send_waiters)}
              IN Without(order[q], offered)]

\* The embedder submits the wait of e, of this kind, once.
Submits(e, kind) ==
  /\ WaitsOn(exec, e, kind)
  /\ ~exec[e].submitted
  /\ exec[e].generation <= MaxGeneration

Submitted(x, e) == [x EXCEPT ![e].submitted = TRUE]

-----------------------------------------------------------------------------
(* The calls of the scheduler.                                             *)

\* The executions of the coming round, and what waits for the one after it.
Round == IF ready = <<>> THEN next_round ELSE ready
AfterRound == IF ready = <<>> THEN <<>> ELSE next_round

\* run_round_selected: the first n executions of the round take one edge each,
\* the one the backend selects, and the continuing ones enter the next round.
\* The selection of the one after them names no edge, or is missing where the
\* state branches: it has left the run queue, it has not moved, and the call
\* returns Err with the rest still in `ready`.  A queued execution is Ready
\* (RunnableIsQueued), so the turn is not refused for that.
RunRound(choice, n) ==
  LET turned == SubSeq(Round, 1, n)
      left   == SubSeq(Round, n + 2, Len(Round))
      x      == [e \in Executions |-> IF e \in Range(turned) THEN Follow(e, exec[e], choice[e])
                                                              ELSE exec[e]]
      again  == Retain(turned, {e \in Executions : x[e].status = "Ready"})
  IN /\ Round # <<>>
     /\ n <= Len(Round)
     /\ n < Len(Round) => slips < MaxSlips
     /\ \A e \in Range(turned) : choice[e] \in DOMAIN Shape[e].states[exec[e].state]
     /\ \A e \in Executions \ Range(turned) : choice[e] = 1
     /\ exec' = x
     /\ ready' = left
     /\ next_round' = AfterRound \o again
     /\ queued' = (queued \ (Range(Round) \ Range(left))) \cup Range(again)
     /\ erred' = (erred \/ n < Len(Round))
     /\ slips' = IF n < Len(Round) THEN slips + 1 ELSE slips
     /\ UNCHANGED <<queues, hostWaits, woken, ghost>>

\* submit_send.
SubmitSend(e) ==
  LET w == WaitOf(e, 0)
      q == SiteOf(exec, e).queue
      r == queues[q]
      p == PayloadOf(w)
      x == commit_operation(exec, w)
  IN /\ Submits(e, "send")
     /\ UNCHANGED <<hostWaits, mishaps>>
     /\ \/ /\ SendBlocks(q, r)
           /\ queues' = [queues EXCEPT ![q] = register_send(r, w)]
           /\ exec' = Submitted(exec, e)
           /\ order' = [order EXCEPT ![q] = Append(@, p)]
           /\ UNCHANGED <<received, scheduler, erred>>
        \/ /\ r.closed
           /\ exec' = x
           /\ Succeed(x, <<e>>)
           /\ UNCHANGED <<queues, ghost>>
        \/ /\ ~r.closed /\ r.receive_waiters = <<>> /\ has_buffer_capacity(q, r)
           /\ queues' = [queues EXCEPT ![q] = send(r, p)]
           /\ exec' = x
           /\ Succeed(x, <<e>>)
           /\ order' = [order EXCEPT ![q] = Append(@, p)]
           /\ UNCHANGED received
        \/ /\ ~r.closed /\ r.receive_waiters # <<>>
           /\ queues' = [queues EXCEPT ![q] = send(r, p)]
           /\ LET c == Head(r.receive_waiters)
                  y == commit_operation(x, c)
              IN \/ /\ ensure_wait(x, c, q, "receive")
                    /\ exec' = y
                    /\ Succeed(y, <<e, c.execution>>)
                    /\ order' = [order EXCEPT ![q] = Append(@, p)]
                    /\ received' = [received EXCEPT ![q] = Append(@, p)]
                 \/ /\ ~ensure_wait(x, c, q, "receive")
                    /\ exec' = x
                    /\ Fail
                    /\ UNCHANGED ghost

\* submit_receive.
SubmitReceive(e) ==
  LET w == WaitOf(e, 0)
      q == SiteOf(exec, e).queue
      r == queues[q]
      x == commit_operation(exec, w)
  IN /\ Submits(e, "receive")
     /\ UNCHANGED <<hostWaits, mishaps, order>>
     /\ \/ /\ ReceiveBlocks(r)
           /\ queues' = [queues EXCEPT ![q] = register_receive(r, w)]
           /\ exec' = Submitted(exec, e)
           /\ UNCHANGED <<received, scheduler, erred>>
        \/ /\ r.closed /\ r.payloads = <<>> /\ r.send_waiters = <<>>
           /\ exec' = x
           /\ Succeed(x, <<e>>)
           /\ UNCHANGED <<queues, received>>
        \/ /\ r.payloads # <<>> \/ r.send_waiters # <<>>
           /\ queues' = [queues EXCEPT ![q] = receive(q, r)]
           /\ LET c == Head(r.send_waiters)
                  y == commit_operation(x, c)
              IN \/ /\ ~WakesSender(q, r)
                    /\ exec' = x
                    /\ Succeed(x, <<e>>)
                    /\ received' = [received EXCEPT ![q] = Append(@, TakenPayload(r))]
                 \/ /\ WakesSender(q, r) /\ ensure_wait(x, c, q, "send")
                    /\ exec' = y
                    /\ Succeed(y, <<e, c.execution>>)
                    /\ received' = [received EXCEPT ![q] = Append(@, TakenPayload(r))]
                 \/ /\ WakesSender(q, r) /\ ~ensure_wait(x, c, q, "send")
                    /\ exec' = x
                    /\ Fail
                    /\ UNCHANGED received

-----------------------------------------------------------------------------
(* submit_select.                                                          *)

ArmsOf(e) == SiteOf(exec, e).arms

\* The registrations of the first n arms of e, on queue q and in direction d.
ArmWaits(e, n, q, d) ==
  Retain([i \in 1..n |-> WaitOf(e, i)],
         {WaitOf(e, i) : i \in {j \in 1..n : ArmsOf(e)[j] = [direction |-> d, queue |-> q]}})

\* The queues once the first n arms of e have blocked and are registered.
Registered(e, n) ==
  [q \in Queues |->
     [queues[q] EXCEPT !.send_waiters = @ \o ArmWaits(e, n, q, "send"),
                       !.receive_waiters = @ \o ArmWaits(e, n, q, "receive")]]

\* Arm i is ready when its turn comes, the arms before it being registered.
ArmIsReady(e, i) ==
  LET q == ArmsOf(e)[i].queue
      r == Registered(e, i - 1)[q]
  IN IF ArmsOf(e)[i].direction = "send" THEN ~SendBlocks(q, r) ELSE ~ReceiveBlocks(r)

\* cancel_waits: the registrations of the arms before k leave their queues.
Unregister(qs, e, k) == [q \in Queues |-> cancel(qs[q], {WaitOf(e, i) : i \in 1..(k - 1)})]

\* Every arm blocks: all of them stay registered.
SelectBlocked(e) ==
  LET n == Len(ArmsOf(e)) IN
  /\ \A i \in 1..n : ~ArmIsReady(e, i)
  /\ queues' = Registered(e, n)
  /\ exec' = Submitted(exec, e)
  /\ order' = [q \in Queues |->
                 order[q] \o [i \in DOMAIN ArmWaits(e, n, q, "send") |->
                                PayloadOf(ArmWaits(e, n, q, "send")[i])]]
  /\ UNCHANGED <<received, scheduler, erred>>

\* Arm k is the first ready arm in source order, and its queue is closed.
SelectClosed(e, k, q, r, x) ==
  /\ r.closed
  /\ ArmsOf(e)[k].direction = "receive" => r.payloads = <<>>
  /\ queues' = Unregister(Registered(e, k - 1), e, k)
  /\ exec' = x
  /\ Succeed(x, <<e>>)
  /\ UNCHANGED ghost

\* Arm k sends.
SelectSend(e, k, q, r, x) ==
  LET p == PayloadOf(WaitOf(e, k))
      c == Head(r.receive_waiters)
      y == commit_operation(x, c)
  IN /\ ArmsOf(e)[k].direction = "send" /\ ~r.closed
     /\ queues' = Unregister([Registered(e, k - 1) EXCEPT ![q] = send(r, p)], e, k)
     /\ \/ /\ r.receive_waiters = <<>>
           /\ exec' = x
           /\ Succeed(x, <<e>>)
           /\ order' = [order EXCEPT ![q] = Append(@, p)]
           /\ UNCHANGED received
        \/ /\ r.receive_waiters # <<>> /\ Owns(x, c, q, "receive")
           /\ exec' = y
           /\ Succeed(y, <<e, c.execution>>)
           /\ order' = [order EXCEPT ![q] = Append(@, p)]
           /\ received' = [received EXCEPT ![q] = Append(@, p)]
        \/ /\ r.receive_waiters # <<>> /\ ~Owns(x, c, q, "receive")
           /\ exec' = x
           /\ Fail
           /\ UNCHANGED ghost

\* Arm k receives.
SelectReceive(e, k, q, r, x) ==
  LET c == Head(r.send_waiters)
      y == commit_operation(x, c)
  IN /\ ArmsOf(e)[k].direction = "receive"
     /\ r.payloads # <<>> \/ r.send_waiters # <<>>
     /\ queues' = Unregister([Registered(e, k - 1) EXCEPT ![q] = receive(q, r)], e, k)
     /\ UNCHANGED order
     /\ \/ /\ ~WakesSender(q, r)
           /\ exec' = x
           /\ Succeed(x, <<e>>)
           /\ received' = [received EXCEPT ![q] = Append(@, TakenPayload(r))]
        \/ /\ WakesSender(q, r) /\ Owns(x, c, q, "send")
           /\ exec' = y
           /\ Succeed(y, <<e, c.execution>>)
           /\ received' = [received EXCEPT ![q] = Append(@, TakenPayload(r))]
        \/ /\ WakesSender(q, r) /\ ~Owns(x, c, q, "send")
           /\ exec' = x
           /\ Fail
           /\ UNCHANGED received

SubmitSelect(e) ==
  /\ Submits(e, "select")
  /\ UNCHANGED <<hostWaits, mishaps>>
  /\ \/ SelectBlocked(e)
     \/ \E k \in DOMAIN ArmsOf(e) :
          LET q == ArmsOf(e)[k].queue
              r == Registered(e, k - 1)[q]
              x == commit_operation(exec, WaitOf(e, k))
          IN /\ ArmIsReady(e, k)
             /\ \A i \in 1..(k - 1) : ~ArmIsReady(e, i)
             /\ \/ SelectClosed(e, k, q, r, x)
                \/ SelectSend(e, k, q, r, x)
                \/ SelectReceive(e, k, q, r, x)

-----------------------------------------------------------------------------
(* close_queue.                                                            *)

\* One wake for every select record: that of its lowest arm.
CloseOwners(wakes) ==
  Retain(wakes, {w \in Range(wakes) :
    w.arm = 0 \/ \A i \in DOMAIN wakes : SameRecord(wakes[i], w) => w.arm <= wakes[i].arm})

\* The wakes are committed in order up to the first whose wait record is gone.
CloseQueue(q) ==
  LET r       == queues[q]
      kind    == IF r.send_waiters # <<>> THEN "send" ELSE "receive"
      owners  == CloseOwners(CloseWakes(r))
      gone(i) == \/ ~Owns(exec, owners[i], q, kind)
                 \/ \E j \in 1..(i - 1) : owners[j].execution = owners[i].execution
      done    == {i \in DOMAIN owners : \A j \in 1..i : ~gone(j)}
      losers  == {w \in UNION {{[owners[i] EXCEPT !.arm = a] :
                                  a \in DOMAIN ArmsOf(owners[i].execution)} :
                               i \in {j \in done : owners[j].arm # 0}} :
                   \A i \in done : w # owners[i]}
      x       == [e \in Executions |->
                    IF \E i \in done : owners[i].execution = e
                    THEN commit_operation(exec, owners[CHOOSE i \in done : owners[i].execution = e])[e]
                    ELSE exec[e]]
  IN /\ ~r.closed
     /\ queues' = [p \in Queues |-> IF p = q THEN close(r) ELSE cancel(queues[p], losers)]
     /\ exec' = x
     /\ Withdraw(losers \cup Range(r.send_waiters))
     /\ IF done = DOMAIN owners
        THEN Succeed(x, [i \in DOMAIN owners |-> owners[i].execution])
        ELSE Fail
     /\ UNCHANGED <<hostWaits, mishaps, received>>

-----------------------------------------------------------------------------
(* Host operations, cancellation and wakes.                                *)

HasHostWait(e) == \E h \in hostWaits : h.execution = e

\* submit_host: one token per wait, one wait per execution.
SubmitHost(e, token) ==
  /\ Submits(e, "host")
  /\ \A h \in hostWaits : h.token # token
  /\ ~HasHostWait(e)
  /\ hostWaits' = hostWaits \cup {[token |-> token, execution |-> e, operation |-> exec[e].site,
                                   generation |-> exec[e].generation]}
  /\ exec' = Submitted(exec, e)
  /\ UNCHANGED <<queues, scheduler, erred, mishaps, ghost>>

\* complete_host: the notification names the token and its generation; one
\* that is stale or repeated finds no registration and changes nothing.  The
\* registration goes; commit_operation refuses an execution that was woken and
\* no longer waits at that site, but does not compare the generation.
CompleteHost(h) ==
  LET w == [execution |-> h.execution, operation |-> h.operation,
            generation |-> h.generation, arm |-> 0]
      x == commit_operation(exec, w)
  IN /\ h \in hostWaits
     /\ hostWaits' = hostWaits \ {h}
     /\ \/ /\ exec[h.execution].status = "Waiting" /\ exec[h.execution].site = h.operation
           /\ exec' = x
           /\ Succeed(x, <<h.execution>>)
        \/ /\ exec[h.execution].status # "Waiting" \/ exec[h.execution].site # h.operation
           /\ Fail
           /\ UNCHANGED exec
     /\ UNCHANGED <<queues, mishaps, ghost>>

\* TypedExecution::request_cancellation returns false once the execution has
\* ended or is in its cleanup state.
Cancellable(e) ==
  /\ exec[e].status \notin Terminal
  /\ ~(exec[e].status = "Ready" /\ exec[e].state = Shape[e].cleanup)

\* request_cancellation of an execution that is not parked.
CancelRunning(e) ==
  /\ exec[e].status = "Ready"
  /\ Cancellable(e)
  /\ exec' = Cleanup(e)
  /\ Succeed(Cleanup(e), <<e>>)
  /\ UNCHANGED <<queues, hostWaits, mishaps, ghost>>

\* request_host_cancellation, called by the embedder or by request_cancellation:
\* the generation claims the host registration, which is gone even when the
\* execution has no cancellation transition or can no longer be cancelled.
CancelHost(e, g) ==
  /\ \E h \in hostWaits :
       /\ h.execution = e /\ h.generation = g
       /\ hostWaits' = hostWaits \ {h}
  /\ \/ /\ Shape[e].cleanup # 0 /\ Cancellable(e)
        /\ exec' = Cleanup(e)
        /\ Succeed(Cleanup(e), <<e>>)
     \/ /\ Shape[e].cleanup # 0 /\ ~Cancellable(e)
        /\ UNCHANGED <<exec, scheduler, erred>>
     \/ /\ Shape[e].cleanup = 0
        /\ Fail
        /\ UNCHANGED exec
  /\ UNCHANGED <<queues, mishaps, ghost>>

\* The registrations that generation g of the waited site of e would claim.
Claimable(e, g) ==
  LET arms == IF SiteOf(exec, e).kind = "select" THEN DOMAIN ArmsOf(e) ELSE {0} IN
  {[execution |-> e, operation |-> exec[e].site, generation |-> g, arm |-> a] : a \in arms}

Registrations(q) == Range(queues[q].send_waiters) \cup Range(queues[q].receive_waiters)

\* request_cancellation of an execution parked on a queue: every link of the
\* wait record must be claimed; a partly installed record is an error, after
\* the links that were found have been removed.
CancelQueueWait(e, g) ==
  LET claimed == Claimable(e, g) \cap UNION {Registrations(q) : q \in Queues} IN
  /\ exec[e].status = "Waiting"
  /\ SiteOf(exec, e).kind \in {"send", "receive", "select"}
  /\ ~HasHostWait(e)
  /\ claimed # {}
  /\ queues' = [q \in Queues |-> cancel(queues[q], claimed)]
  /\ Withdraw(claimed)
  /\ IF claimed = Claimable(e, g)
     THEN /\ exec' = Cleanup(e)
          /\ Succeed(Cleanup(e), <<e>>)
     ELSE /\ UNCHANGED exec
          /\ Fail
  /\ UNCHANGED <<hostWaits, mishaps, received>>

\* Mutant: an execution without a cancellation transition is accepted.
RequestCancellation_Always(e, g) == CancelRunning(e) \/ CancelQueueWait(e, g)

\* request_cancellation; without a match it returns false and changes nothing.
\* With a host registration it is CancelHost.
RequestCancellation(e, g) ==
  /\ Shape[e].cleanup # 0
  /\ CancelRunning(e) \/ CancelQueueWait(e, g)

\* wake: whatever operation the execution waits for, it is ready again in the
\* retry state.  Registrations on queues or with the host stay where they are.
Wake(e) ==
  LET x      == [exec EXCEPT ![e].status = "Ready"]
      byHand == SiteOf(exec, e).kind # "join"
  IN
  /\ exec[e].status = "Waiting"
  /\ exec[e].generation <= MaxGeneration
  /\ byHand => slips < MaxSlips
  /\ exec' = x
  /\ Succeed(x, <<e>>)
  /\ slips' = IF byHand THEN slips + 1 ELSE slips
  /\ woken' = IF exec[e].submitted THEN woken \cup {e} ELSE woken
  /\ UNCHANGED <<queues, hostWaits, ghost>>

-----------------------------------------------------------------------------
Init ==
  /\ exec = [e \in Executions |-> [state |-> Shape[e].entry, status |-> "Ready", site |-> 1,
                                   generation |-> 0, submitted |-> FALSE]]
  /\ queues = [q \in Queues |-> [payloads |-> <<>>, send_waiters |-> <<>>,
                                 receive_waiters |-> <<>>, closed |-> FALSE]]
  /\ hostWaits = {}
  /\ ready = <<>>
  /\ next_round = InstallOrder
  /\ queued = Executions
  /\ erred = FALSE
  /\ slips = 0
  /\ woken = {}
  /\ order = [q \in Queues |-> <<>>]
  /\ received = [q \in Queues |-> <<>>]

Next ==
  \/ \E choice \in [Executions -> 1..MaxEdges], n \in 0..Cardinality(Executions) :
       RunRound(choice, n)
  \/ \E e \in Executions :
       \/ SubmitSend(e)
       \/ SubmitReceive(e)
       \/ SubmitSelect(e)
       \/ \E token \in HostTokens : SubmitHost(e, token)
       \/ \E g \in 0..MaxGeneration : RequestCancellation(e, g) \/ CancelHost(e, g)
       \/ Wake(e)
  \/ \E q \in Queues : CloseQueue(q)
  \/ \E h \in hostWaits : CompleteHost(h)

Spec == Init /\ [][Next]_vars

-----------------------------------------------------------------------------
(* Properties.                                                             *)

Wait == [execution : Executions, operation : Nat, generation : Nat, arm : Nat]
Payload == Executions \X Nat \X Nat

\* The types of the kernel's and the scheduler's state; an execution is always
\* in a state that its shape declares.
TypeOK ==
  /\ exec \in [Executions -> [state : Nat, status : {"Ready", "Waiting"} \cup Terminal,
                              site : Nat, generation : Nat, submitted : BOOLEAN]]
  /\ \A e \in Executions : exec[e].state \in DOMAIN Shape[e].states
  /\ queues \in [Queues -> [payloads : Seq(Payload), send_waiters : Seq(Wait),
                            receive_waiters : Seq(Wait), closed : BOOLEAN]]
  /\ \A h \in hostWaits : /\ h.token \in HostTokens /\ h.execution \in Executions
                          /\ h.operation \in Nat /\ h.generation \in Nat
  /\ ready \in Seq(Executions) /\ next_round \in Seq(Executions)
  /\ queued \subseteq Executions
  /\ erred \in BOOLEAN
  /\ slips \in 0..MaxSlips
  /\ woken \subseteq Executions
  /\ order \in [Queues -> Seq(Payload)]
  /\ received \in [Queues -> Seq(Payload)]

\* No queue leaves a wait registered that it could serve: receivers wait only
\* when nothing is buffered and no sender waits, senders only when the buffer
\* is full, nobody on a closed queue.  It holds after every call, failed ones
\* included (register_*, promote_one_sender, cancel and close).
QueuesSettled ==
  \A q \in Queues :
    LET r == queues[q] IN
    /\ r.receive_waiters # <<>> => (r.payloads = <<>> /\ r.send_waiters = <<>>)
    /\ r.send_waiters # <<>> => ~has_buffer_capacity(q, r)
    /\ r.closed => (r.receive_waiters = <<>> /\ r.send_waiters = <<>>)

\* A payload is in one place: delivered, buffered, or offered by a waiter; it
\* is never delivered twice, whichever of the modelled calls fail and whatever
\* wakes from outside leave registered.
AtMostOnce ==
  \A q \in Queues :
    IsInjective(received[q] \o queues[q].payloads
                  \o [i \in DOMAIN queues[q].send_waiters |->
                        PayloadOf(queues[q].send_waiters[i])])

\* As long as no call failed, every payload admitted and not withdrawn is
\* delivered, buffered or waiting, in the order of admission (FIFO promotion).
NothingLostInOrder ==
  ~erred =>
    \A q \in Queues :
      received[q] \o queues[q].payloads
        \o [i \in DOMAIN queues[q].send_waiters |-> PayloadOf(queues[q].send_waiters[i])]
      = order[q]

\* The scheduler's set and its two queues agree and hold each execution once,
\* all of them Ready, so a turn is refused only for its selection; as long as no
\* call failed no Ready execution is missing.
RunnableIsQueued ==
  /\ IsInjective(ready) /\ IsInjective(next_round) /\ Range(ready) \cap Range(next_round) = {}
  /\ queued = Range(ready) \cup Range(next_round)
  /\ \A e \in queued : exec[e].status = "Ready"
  /\ ~erred => \A e \in Executions : exec[e].status = "Ready" => e \in queued

\* A direct registration, on a queue or with the host, belongs to an execution
\* that waits on that site in that generation, unless the execution was once
\* woken from a registered wait: a stale registration is then matched with a
\* later wait, whose own registration is stale in turn.  As long as no call
\* failed, every execution, woken ones included, that submitted its wait has
\* every link of it installed, so that it can be matched and cancelled.
WaitsAreRegistered ==
  /\ \A q \in Queues : \A w \in Registrations(q) :
       (w.arm = 0 /\ w.execution \notin woken) =>
         /\ exec[w.execution].status = "Waiting"
         /\ exec[w.execution].submitted
         /\ w = WaitOf(w.execution, 0)
  /\ \A h \in hostWaits : h.execution \notin woken =>
       /\ exec[h.execution].status = "Waiting"
       /\ exec[h.execution].site = h.operation
       /\ exec[h.execution].generation = h.generation
  /\ ~erred =>
       \A e \in Executions :
         (exec[e].status = "Waiting" /\ exec[e].submitted) =>
           IF SiteOf(exec, e).kind = "host" THEN HasHostWait(e)
           ELSE Claimable(e, exec[e].generation) \subseteq UNION {Registrations(q) : q \in Queues}

\* What the comment on submit_select says: a losing arm cannot be woken later,
\* that is, a registered arm belongs to a select that is still waiting (and was
\* not made ready by a wake from outside).
SelectArmsAreOwned ==
  \A q \in Queues : \A w \in Registrations(q) :
    (w.arm # 0 /\ w.execution \notin woken) =>
      /\ exec[w.execution].status = "Waiting"
      /\ w = WaitOf(w.execution, w.arm)

=============================================================================
