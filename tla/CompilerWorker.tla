--------------------------- MODULE CompilerWorker ---------------------------
(***************************************************************************)
(* One launch of the confined compiler worker: the parent's poll loop and  *)
(* its writer and reader threads (witchy-compiler-worker/launcher.rs), the *)
(* child's service (service.rs, limits.rs) and the frames of               *)
(* witchy-worker-protocol, over two bounded pipes.                         *)
(*                                                                         *)
(* Bytes are counted in chunks.  A request is one prelude chunk and the    *)
(* source chunks; a response is a status and a number of chunks.  The      *)
(* child may be killed by a limit at any point, and it need never move:    *)
(* nothing below assumes that it makes progress.                           *)
(***************************************************************************)
EXTENDS Integers, Sequences, FiniteSets

CONSTANTS
  SourceChunks,      \* length of the source bundle
  PipeChunks,        \* capacity of a pipe
  MaxResponse,       \* limits.max_response_bytes
  ResponseSizes      \* lengths of the responses a worker may write

ASSUME WorkerAssumption ==
  /\ SourceChunks \in Nat \ {0} /\ PipeChunks \in Nat \ {0} /\ MaxResponse \in Nat \ {0}
  /\ ResponseSizes \subseteq Nat \ {0}

RequestChunks == 1 + SourceChunks
Targets == {"NativeRuntime", "BrowserBase"}

\* What a response frame is to decode_response: the three it accepts, and one
\* that it does not (another request's digest, a bad shape, trailing bytes).
ResponseKinds == {"Candidate", "Rejected", "Unavailable", "Undecodable"}
Responses == [kind : ResponseKinds, size : ResponseSizes]

VARIABLES
  parent,     \* pc of launch_and_admit
  late,       \* the deadline has passed
  timedOut,   \* the loop gave up
  outcome,    \* what launch_and_admit returned
  writer,     \* request-writer: "running", "ok", "failed"
  written,    \* chunks of the request written
  reader,     \* response-reader: "running", "ok", "too_large", "failed"
  read,       \* chunks of the response read
  stdin,      \* chunks in the request pipe
  stdout,     \* chunks in the response pipe
  child,      \* pc of the worker process: "none" before the spawn, "gone" at its end
  status,     \* its exit status
  consumed,   \* chunks of the request it has read
  armed,      \* its limits and confinement are in force
  response,   \* the response it writes, once chosen
  emitted     \* chunks of it written

parentVars == <<parent, late, timedOut, outcome>>
pipeVars == <<writer, written, reader, read, stdin, stdout>>
childVars == <<child, status, consumed, armed, response, emitted>>
vars == <<parentVars, pipeVars, childVars>>

NoResponse == [kind |-> "Undecodable", size |-> 0]

\* The worker process ends: its ends of both pipes are closed.
Exit(code) == child' = "gone" /\ status' = code
Alive == child \notin {"none", "gone"}

-----------------------------------------------------------------------------
(* launch_and_admit.                                                       *)

Return(result) == parent' = "returned" /\ outcome' = result

\* A `?` between the spawn and the end of the loop returns without kill, wait or
\* join: the Child is dropped, the threads are detached and all of them run on.
Abandon(result) == parent' = "abandoned" /\ outcome' = result

\* The target is checked, the request encoded, the worker spawned with both
\* pipes, and the two threads started; or there is no worker.  The bound on the
\* response is converted between the two threads, the deadline is computed after
\* them, and either may fail; on the 64-bit targets the launcher accepts, with
\* the limits a request may carry, neither does.
Launch(target) ==
  /\ parent = "start"
  /\ \/ /\ target # "NativeRuntime"
        /\ Return("UnsupportedTarget")
        /\ UNCHANGED <<late, timedOut, pipeVars, childVars>>
     \/ /\ target = "NativeRuntime"
        /\ Return("Io")
        /\ UNCHANGED <<late, timedOut, pipeVars, childVars>>
     \/ /\ target = "NativeRuntime"
        /\ parent' = "poll" /\ child' = "prelude"
        /\ writer' = "running" /\ reader' = "running"
        /\ UNCHANGED <<late, timedOut, outcome, written, read, stdin, stdout,
                       status, consumed, armed, response, emitted>>
     \/ /\ target = "NativeRuntime"
        /\ child' = "prelude" /\ writer' = "running"
        /\ \/ Abandon("ResponseTooLarge") /\ UNCHANGED reader
           \/ Abandon("TimedOut") /\ reader' = "running"
        /\ UNCHANGED <<late, timedOut, written, read, stdin, stdout,
                       status, consumed, armed, response, emitted>>

\* The clock reaches the deadline.
Tick == ~late /\ late' = TRUE /\ UNCHANGED <<parent, timedOut, outcome, pipeVars, childVars>>

\* try_wait, which may itself fail.
Poll ==
  /\ parent = "poll"
  /\ \/ /\ parent' = IF child = "gone" THEN "join_writer" ELSE "deadline"
        /\ UNCHANGED outcome
     \/ Abandon("Io")
  /\ UNCHANGED <<late, timedOut, pipeVars, childVars>>

\* Mutant: the worker is left to itself.
CheckDeadline_NoKill ==
  /\ parent = "deadline"
  /\ \/ /\ late
        /\ Return("TimedOut")
        /\ timedOut' = TRUE
        /\ UNCHANGED <<late, pipeVars, childVars>>
     \/ /\ ~late
        /\ parent' = "poll"
        /\ UNCHANGED <<late, timedOut, outcome, pipeVars, childVars>>

\* Mutant: the deadline is computed anew on every turn of the loop.
CheckDeadline_Postpones ==
  /\ parent = "deadline"
  /\ parent' = "poll"
  /\ UNCHANGED <<late, timedOut, outcome, pipeVars, childVars>>

\* The worker was running at try_wait; it may have ended since.  Past the
\* deadline it is killed and waited for, otherwise the loop sleeps.
CheckDeadline ==
  /\ parent = "deadline"
  /\ \/ /\ late
        /\ timedOut' = TRUE
        /\ parent' = "join_writer"
        /\ IF child = "gone" THEN UNCHANGED <<child, status>> ELSE Exit("killed")
        /\ UNCHANGED <<late, outcome, pipeVars, consumed, armed, response, emitted>>
     \/ /\ ~late
        /\ parent' = "poll"
        /\ UNCHANGED <<late, timedOut, outcome, pipeVars, childVars>>

JoinWriter ==
  /\ parent = "join_writer"
  /\ writer # "running"
  /\ parent' = "join_reader"
  /\ UNCHANGED <<late, timedOut, outcome, pipeVars, childVars>>

\* decode_response: the whole frame, canonical, for this request.
decode_response == IF read = response.size THEN response.kind ELSE "Undecodable"

\* admit_response: a candidate goes to the independent admission, whose answer
\* is not the launcher's; the other answers never reach it.
AdmitOutcomes(kind) ==
  CASE kind = "Candidate"   -> {"Admitted", "AdmissionRejected"}
    [] kind = "Rejected"    -> {"Rejected"}
    [] kind = "Unavailable" -> {"ProducerUnavailable"}
    [] OTHER                -> {"Protocol"}

\* Mutant: the exit status is not looked at.
Results_AnyStatus ==
  IF timedOut THEN {"TimedOut"}
  ELSE IF reader = "too_large" THEN {"ResponseTooLarge"}
  ELSE IF reader = "failed" THEN {"Io"}
  ELSE IF writer = "failed" THEN {"Io"}
  ELSE AdmitOutcomes(decode_response)

\* Mutant: the answer of a worker that ended in time counts as late.
Results_LateLoses ==
  IF timedOut \/ late THEN {"TimedOut"}
  ELSE IF reader = "too_large" THEN {"ResponseTooLarge"}
  ELSE IF reader = "failed" THEN {"Io"}
  ELSE IF status # "success" THEN {"WorkerExited"}
  ELSE IF writer = "failed" THEN {"Io"}
  ELSE AdmitOutcomes(decode_response)

\* The errors in the order the code looks at them.
Results ==
  IF timedOut THEN {"TimedOut"}
  ELSE IF reader = "too_large" THEN {"ResponseTooLarge"}
  ELSE IF reader = "failed" THEN {"Io"}
  ELSE IF status # "success" THEN {"WorkerExited"}
  ELSE IF writer = "failed" THEN {"Io"}
  ELSE AdmitOutcomes(decode_response)

JoinReader ==
  /\ parent = "join_reader"
  /\ reader # "running"
  /\ \E result \in Results : Return(result)
  /\ UNCHANGED <<late, timedOut, pipeVars, childVars>>

-----------------------------------------------------------------------------
(* The threads.                                                            *)

\* write_all: a chunk when there is room, an error once the worker is gone (it
\* repeats an interrupted write); after the last chunk stdin is dropped.
WriteRequest ==
  /\ writer = "running"
  /\ \/ child = "gone" /\ writer' = "failed" /\ UNCHANGED <<written, stdin>>
     \/ /\ child # "gone" /\ stdin < PipeChunks
        /\ stdin' = stdin + 1
        /\ written' = written + 1
        /\ writer' = IF written' = RequestChunks THEN "ok" ELSE "running"
  /\ UNCHANGED <<reader, read, stdout, parentVars, childVars>>

\* Mutant: the bound is checked one chunk late.
ReadResponse_OneMore ==
  /\ reader = "running"
  /\ IF stdout > 0
     THEN /\ read' = read + 1 /\ stdout' = stdout - 1
          /\ reader' = IF read > MaxResponse THEN "too_large" ELSE "running"
     ELSE child = "gone" /\ reader' = "ok" /\ UNCHANGED <<read, stdout>>
  /\ UNCHANGED <<writer, written, stdin, parentVars, childVars>>

\* read_bounded: a chunk, the refusal of one too many, the end of the pipe, or
\* an error of the read (it is not repeated when a signal interrupts it).
ReadResponse ==
  /\ reader = "running"
  /\ \/ /\ stdout > 0 /\ read < MaxResponse
        /\ read' = read + 1 /\ stdout' = stdout - 1
        /\ UNCHANGED reader
     \/ /\ stdout > 0 /\ read = MaxResponse
        /\ reader' = "too_large"
        /\ UNCHANGED <<read, stdout>>
     \/ /\ stdout = 0 /\ child = "gone"
        /\ reader' = "ok"
        /\ UNCHANGED <<read, stdout>>
     \/ reader' = "failed" /\ UNCHANGED <<read, stdout>>
  /\ UNCHANGED <<writer, written, stdin, parentVars, childVars>>

-----------------------------------------------------------------------------
(* The worker process: serve_once.                                         *)

\* stdin is at its end: the writer is done and the pipe is empty.
AtEnd == stdin = 0 /\ writer # "running"

\* read_exact of a chunk.  The writer stops early only when the worker is gone,
\* so the worker never meets the end of the input inside the frame.
ReadChunk(then) ==
  /\ stdin > 0
  /\ stdin' = stdin - 1
  /\ consumed' = consumed + 1
  /\ child' = then
  /\ UNCHANGED status

\* read_confined_request: the prelude.
ReadPrelude ==
  /\ child = "prelude"
  /\ ReadChunk("arm")
  /\ UNCHANGED <<parentVars, writer, written, reader, read, stdout, armed, response, emitted>>

\* arm_required_worker: all the limits, then the confinement, or an error exit.
Arm ==
  /\ child = "arm"
  /\ \/ armed' = TRUE /\ child' = "source" /\ UNCHANGED status
     \/ Exit("failure") /\ UNCHANGED armed
  /\ UNCHANGED <<parentVars, pipeVars, consumed, response, emitted>>

\* read_confined_request: the rest of the frame.
ReadSource ==
  /\ child = "source"
  /\ ReadChunk(IF consumed + 1 = RequestChunks THEN "trailing" ELSE "source")
  /\ UNCHANGED <<parentVars, writer, written, reader, read, stdout, armed, response, emitted>>

\* The worker waits for the end of the input; the parent sends nothing more.
ReadTrailing ==
  /\ child = "trailing"
  /\ AtEnd
  /\ child' = "respond"
  /\ UNCHANGED <<parentVars, pipeVars, status, consumed, armed, response, emitted>>

\* The response, or an error exit when it does not fit the request's limits.
\* The service in this repository answers "Unavailable"; the other responses
\* are what the launcher must be ready for.
Respond(r) ==
  /\ child = "respond"
  /\ \/ response' = r /\ child' = "write" /\ UNCHANGED status
     \/ Exit("failure") /\ UNCHANGED response
  /\ UNCHANGED <<parentVars, pipeVars, consumed, armed, emitted>>

\* write_all: a chunk when there is room, an error exit once the reader has
\* closed the pipe, success after the last one.
WriteResponse ==
  /\ child = "write"
  /\ \/ /\ emitted < response.size /\ stdout < PipeChunks /\ reader = "running"
        /\ stdout' = stdout + 1
        /\ emitted' = emitted + 1
        /\ UNCHANGED <<child, status>>
     \/ /\ emitted < response.size /\ reader # "running"
        /\ Exit("failure")
        /\ UNCHANGED <<stdout, emitted>>
     \/ /\ emitted = response.size
        /\ Exit("success")
        /\ UNCHANGED <<stdout, emitted>>
  /\ UNCHANGED <<parentVars, writer, written, reader, read, stdin, consumed, armed, response>>

\* A resource limit, or anything else, kills the worker.
Crash ==
  /\ Alive
  /\ Exit("signal")
  /\ UNCHANGED <<parentVars, pipeVars, consumed, armed, response, emitted>>

-----------------------------------------------------------------------------
Init ==
  /\ parent = "start" /\ late = FALSE /\ timedOut = FALSE /\ outcome = "none"
  /\ writer = "none" /\ written = 0 /\ reader = "none" /\ read = 0
  /\ stdin = 0 /\ stdout = 0
  /\ child = "none" /\ status = "none" /\ consumed = 0 /\ armed = FALSE
  /\ response = NoResponse /\ emitted = 0

Parent == Poll \/ CheckDeadline \/ JoinWriter \/ JoinReader
Child == \/ ReadPrelude \/ Arm \/ ReadSource \/ ReadTrailing
         \/ (\E r \in Responses : Respond(r)) \/ WriteResponse \/ Crash

Next ==
  \/ \E target \in Targets : Launch(target)
  \/ Tick \/ Parent \/ WriteRequest \/ ReadResponse \/ Child

\* The parent, its threads and the clock run on; the worker owes nothing.
Fairness ==
  /\ WF_vars(\E target \in Targets : Launch(target))
  /\ WF_vars(Tick) /\ WF_vars(Parent) /\ WF_vars(WriteRequest) /\ WF_vars(ReadResponse)

Spec == Init /\ [][Next]_vars /\ Fairness

-----------------------------------------------------------------------------
(* Properties.                                                             *)

\* The pipes hold what was written and not read, and never overflow.
TypeOK ==
  /\ parent \in {"start", "poll", "deadline", "join_writer", "join_reader", "returned",
                "abandoned"}
  /\ writer \in {"none", "running", "ok", "failed"}
  /\ reader \in {"none", "running", "ok", "too_large", "failed"}
  /\ child \in {"none", "prelude", "arm", "source", "trailing", "respond", "write", "gone"}
  /\ status \in {"none", "success", "failure", "signal", "killed"}
  /\ written \in 0..RequestChunks /\ consumed \in 0..RequestChunks
  /\ stdin = written - consumed /\ stdin \in 0..PipeChunks
  /\ read \in 0..MaxResponse /\ emitted \in 0..response.size
  /\ stdout = emitted - read /\ stdout \in 0..PipeChunks
  /\ response \in Responses \cup {NoResponse}
  /\ late \in BOOLEAN /\ timedOut \in BOOLEAN /\ armed \in BOOLEAN

\* A launch that comes back with the worker or a thread still running is one
\* that failed at a `?` after the spawn: a failed try_wait (launcher.rs:106), or a
\* bound or a deadline that does not convert (97-103).  Every other way out, the
\* timeout and each refusal of the answer included, has ended all three, and a
\* launch that answers is never of the first kind.
NothingLeftBehind ==
  /\ parent = "returned" =>
       /\ child \in {"none", "gone"}
       /\ writer # "running"
       /\ reader # "running"
  /\ parent = "abandoned" => outcome \in {"Io", "TimedOut", "ResponseTooLarge"}

Answers == {"Admitted", "AdmissionRejected", "Rejected", "ProducerUnavailable"}

\* An answer is returned only for a worker that was armed, read the whole
\* request, wrote the whole response, exited with success and was not given
\* up on; a crash after the last byte or a kill is never an answer.
AnswerIsGenuine ==
  outcome \in Answers =>
    /\ ~timedOut /\ status = "success" /\ armed
    /\ consumed = RequestChunks
    /\ read = response.size
    /\ outcome \in AdmitOutcomes(response.kind)

\* A worker that wrote its response, and was seen to, is answered from that
\* response, or refused if it is too long: unless a read of the response failed,
\* the threads lose nothing and report no other error, however the pipes filled.
CompletedRunIsAnswered ==
  (parent = "returned" /\ status = "success" /\ ~timedOut /\ reader # "failed") =>
    outcome \in IF response.size <= MaxResponse THEN AdmitOutcomes(response.kind)
                                                ELSE {"ResponseTooLarge"}

\* The launch returns, even if the worker hangs in any of its steps, reads
\* nothing, or never closes a pipe.
LaunchReturns == <>(parent \in {"returned", "abandoned"})
=============================================================================
