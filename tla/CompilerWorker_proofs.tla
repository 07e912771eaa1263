------------------------ MODULE CompilerWorker_proofs ------------------------
(***************************************************************************)
(* The safety properties of CompilerWorker for every length of the request *)
(* and of the responses, every pipe capacity and every bound.              *)
(*                                                                         *)
(* TypeOK is not enough to be inductive: that an answer is genuine depends *)
(* on what each pc of the worker, of the threads and of the parent implies *)
(* about the bytes that have passed (Progress, Threads, ParentKnows).      *)
(***************************************************************************)
EXTENDS CompilerWorker, TLAPS

Frame == {"source", "trailing", "respond", "write"}

\* What the worker's pc says about the request and the response.
Progress ==
  /\ child \in {"none", "prelude"} => consumed = 0
  /\ child = "arm" => consumed = 1
  /\ child = "source" => consumed < RequestChunks
  /\ child \in Frame => armed /\ consumed >= 1
  /\ child \in {"trailing", "respond", "write"} => consumed = RequestChunks
  /\ child = "write" => response \in Responses
  /\ child \notin {"write", "gone"} => response = NoResponse
  /\ child # "gone" => status = "none"
  /\ child = "gone" => status # "none"
  /\ status = "success" =>
       /\ armed /\ consumed = RequestChunks
       /\ response \in Responses /\ emitted = response.size

\* What the states of the two threads say.
Threads ==
  /\ writer = "none" => written = 0
  /\ writer = "ok" => written = RequestChunks
  /\ writer = "running" => written < RequestChunks
  /\ writer = "failed" => child = "gone" /\ written < RequestChunks
  /\ reader = "ok" => stdout = 0 /\ child = "gone"
  /\ reader = "too_large" => read = MaxResponse /\ emitted > read

\* What the parent may rely on at each point of launch_and_admit.
ParentKnows ==
  /\ parent = "start" <=> (child = "none" /\ parent # "returned")
  /\ child = "none" <=> writer = "none"
  /\ child = "none" => reader = "none"
  /\ reader = "none" => child = "none" \/ parent = "abandoned"
  /\ parent \in {"join_writer", "join_reader"} => child = "gone"
  /\ parent = "join_reader" => writer # "running"
  /\ timedOut => child = "gone" /\ parent \notin {"start", "poll", "deadline"}
  /\ parent \notin {"returned", "abandoned"} => outcome = "none"
  /\ parent = "abandoned" => outcome \in {"Io", "TimedOut", "ResponseTooLarge"}
  /\ (parent = "returned" /\ child # "none") =>
       child = "gone" /\ writer # "running" /\ reader # "running" /\ outcome \in Results
  /\ (parent = "returned" /\ child = "none") => outcome \in {"UnsupportedTarget", "Io"}

IInv == TypeOK /\ Progress /\ Threads /\ ParentKnows

------------------------------------------------------------------------------
(* The initial state.                                                      *)

\* The size of a response is a number, chosen or not.
LEMMA SizeIsNatural ==
  /\ NoResponse.size = 0
  /\ response \in Responses \cup {NoResponse} => response.size \in Nat
<1>1. NoResponse.size = 0
  BY DEF NoResponse
<1>2. response \in Responses => response.size \in Nat
  BY WorkerAssumption DEF Responses
<1>3. QED
  BY <1>1, <1>2

LEMMA InitIInv == Init => IInv
<1> SUFFICES ASSUME Init PROVE IInv
  OBVIOUS
<1> USE WorkerAssumption, SizeIsNatural
<1>1. TypeOK
  <2>1. response = NoResponse /\ response.size = 0
    BY DEF Init
  <2>2. stdin = written - consumed /\ stdout = emitted - read
    BY DEF Init
  <2>3. /\ written \in 0..RequestChunks /\ consumed \in 0..RequestChunks
        /\ stdin \in 0..PipeChunks /\ stdout \in 0..PipeChunks
        /\ read \in 0..MaxResponse /\ emitted \in 0..response.size
    BY <2>1 DEF Init, RequestChunks
  <2>4. QED
    BY <2>1, <2>2, <2>3 DEF Init, TypeOK
<1>2. Progress /\ Threads /\ ParentKnows
  BY DEF Init, Progress, Threads, ParentKnows, RequestChunks, Frame, Results
<1>3. QED
  BY <1>1, <1>2 DEF IInv

\* The result of a launch that has returned stays the result of Results: it
\* depends on nothing that changes once the worker and the threads are done.
LEMMA ResultsStay ==
  ASSUME UNCHANGED <<timedOut, reader, status, writer, read, response>>
  PROVE  Results' = Results
  BY DEF Results, decode_response, AdmitOutcomes

------------------------------------------------------------------------------
(* One lemma for each action.                                              *)

LEMMA LaunchKeeps == ASSUME IInv, NEW target \in Targets, Launch(target) PROVE IInv'
<1> USE WorkerAssumption, SizeIsNatural DEF IInv, Launch, Targets, Return, Abandon, parentVars, pipeVars, childVars
<1>1. TypeOK'
  BY DEF TypeOK, Progress, Threads, ParentKnows, RequestChunks
<1>2. Progress'
  BY DEF TypeOK, Progress, ParentKnows, RequestChunks, Frame
<1>3. Threads'
  BY DEF TypeOK, Progress, Threads, ParentKnows, RequestChunks
<1>4. ParentKnows'
  BY ResultsStay DEF TypeOK, Threads, ParentKnows
<1>5. QED
  BY <1>1, <1>2, <1>3, <1>4

LEMMA TickKeeps == ASSUME IInv, Tick PROVE IInv'
<1> USE WorkerAssumption, SizeIsNatural DEF IInv, Tick, parentVars, pipeVars, childVars
<1>1. TypeOK'
  BY DEF TypeOK, Progress, Threads, ParentKnows, RequestChunks
<1>2. Progress'
  BY DEF TypeOK, Progress, ParentKnows, RequestChunks, Frame
<1>3. Threads'
  BY DEF TypeOK, Progress, Threads, ParentKnows, RequestChunks
<1>4. ParentKnows'
  BY ResultsStay DEF TypeOK, Threads, ParentKnows
<1>5. QED
  BY <1>1, <1>2, <1>3, <1>4

LEMMA PollKeeps == ASSUME IInv, Poll PROVE IInv'
<1> USE WorkerAssumption, SizeIsNatural DEF IInv, Poll, Abandon, parentVars, pipeVars, childVars
<1>1. TypeOK'
  BY DEF TypeOK, Progress, Threads, ParentKnows, RequestChunks
<1>2. Progress'
  BY DEF TypeOK, Progress, ParentKnows, RequestChunks, Frame
<1>3. Threads'
  BY DEF TypeOK, Progress, Threads, ParentKnows, RequestChunks
<1>4. ParentKnows'
  BY ResultsStay DEF TypeOK, Threads, ParentKnows
<1>5. QED
  BY <1>1, <1>2, <1>3, <1>4

LEMMA CheckDeadlineKeeps == ASSUME IInv, CheckDeadline PROVE IInv'
<1> USE WorkerAssumption, SizeIsNatural DEF IInv, CheckDeadline, Exit, parentVars, pipeVars, childVars
<1>1. TypeOK'
  BY ZenonT(60) DEF TypeOK, Progress, Threads, ParentKnows, RequestChunks
<1>2. Progress'
  BY DEF TypeOK, Progress, ParentKnows, RequestChunks, Frame
<1>3. Threads'
  BY DEF TypeOK, Progress, Threads, ParentKnows, RequestChunks
<1>4. ParentKnows'
  BY ResultsStay DEF TypeOK, Threads, ParentKnows
<1>5. QED
  BY <1>1, <1>2, <1>3, <1>4

LEMMA JoinWriterKeeps == ASSUME IInv, JoinWriter PROVE IInv'
<1> USE WorkerAssumption, SizeIsNatural DEF IInv, JoinWriter, parentVars, pipeVars, childVars
<1>1. TypeOK'
  BY DEF TypeOK, Progress, Threads, ParentKnows, RequestChunks
<1>2. Progress'
  BY DEF TypeOK, Progress, ParentKnows, RequestChunks, Frame
<1>3. Threads'
  BY DEF TypeOK, Progress, Threads, ParentKnows, RequestChunks
<1>4. ParentKnows'
  BY ResultsStay DEF TypeOK, Threads, ParentKnows
<1>5. QED
  BY <1>1, <1>2, <1>3, <1>4

LEMMA JoinReaderKeeps == ASSUME IInv, JoinReader PROVE IInv'
<1> USE WorkerAssumption, SizeIsNatural DEF IInv, JoinReader, Return, parentVars, pipeVars, childVars
<1>1. TypeOK'
  BY DEF TypeOK, Progress, Threads, ParentKnows, RequestChunks
<1>2. Progress'
  BY DEF TypeOK, Progress, ParentKnows, RequestChunks, Frame
<1>3. Threads'
  BY DEF TypeOK, Progress, Threads, ParentKnows, RequestChunks
<1>4. ParentKnows'
  BY ResultsStay DEF TypeOK, Threads, ParentKnows
<1>5. QED
  BY <1>1, <1>2, <1>3, <1>4

LEMMA WriteRequestKeeps == ASSUME IInv, WriteRequest PROVE IInv'
<1> USE WorkerAssumption, SizeIsNatural DEF IInv, WriteRequest, parentVars, pipeVars, childVars
<1>1. TypeOK'
  BY DEF TypeOK, Progress, Threads, ParentKnows, RequestChunks
<1>2. Progress'
  BY DEF TypeOK, Progress, ParentKnows, RequestChunks, Frame
<1>3. Threads'
  BY DEF TypeOK, Progress, Threads, ParentKnows, RequestChunks
<1>4. ParentKnows'
  BY ResultsStay DEF TypeOK, Threads, ParentKnows
<1>5. QED
  BY <1>1, <1>2, <1>3, <1>4

LEMMA ReadResponseKeeps == ASSUME IInv, ReadResponse PROVE IInv'
<1> USE WorkerAssumption, SizeIsNatural DEF IInv, ReadResponse, parentVars, pipeVars, childVars
<1>1. TypeOK'
  BY DEF TypeOK, Progress, Threads, ParentKnows, RequestChunks
<1>2. Progress'
  BY DEF TypeOK, Progress, ParentKnows, RequestChunks, Frame
<1>3. Threads'
  BY DEF TypeOK, Progress, Threads, ParentKnows, RequestChunks
<1>4. ParentKnows'
  BY ResultsStay DEF TypeOK, Threads, ParentKnows
<1>5. QED
  BY <1>1, <1>2, <1>3, <1>4

LEMMA ReadPreludeKeeps == ASSUME IInv, ReadPrelude PROVE IInv'
<1> USE WorkerAssumption, SizeIsNatural DEF IInv, ReadPrelude, ReadChunk, parentVars, pipeVars, childVars
<1>1. TypeOK'
  BY DEF TypeOK, Progress, Threads, ParentKnows, RequestChunks
<1>2. Progress'
  BY DEF TypeOK, Progress, ParentKnows, RequestChunks, Frame
<1>3. Threads'
  BY DEF TypeOK, Progress, Threads, ParentKnows, RequestChunks
<1>4. ParentKnows'
  BY ResultsStay DEF TypeOK, Threads, ParentKnows
<1>5. QED
  BY <1>1, <1>2, <1>3, <1>4

LEMMA ArmKeeps == ASSUME IInv, Arm PROVE IInv'
<1> USE WorkerAssumption, SizeIsNatural DEF IInv, Arm, Exit, parentVars, pipeVars, childVars
<1>1. TypeOK'
  BY DEF TypeOK, Progress, Threads, ParentKnows, RequestChunks
<1>2. Progress'
  BY DEF TypeOK, Progress, ParentKnows, RequestChunks, Frame
<1>3. Threads'
  BY DEF TypeOK, Progress, Threads, ParentKnows, RequestChunks
<1>4. ParentKnows'
  BY ResultsStay DEF TypeOK, Threads, ParentKnows
<1>5. QED
  BY <1>1, <1>2, <1>3, <1>4

LEMMA ReadSourceKeeps == ASSUME IInv, ReadSource PROVE IInv'
<1> USE WorkerAssumption, SizeIsNatural DEF IInv, ReadSource, ReadChunk, parentVars, pipeVars, childVars
<1>1. TypeOK'
  BY DEF TypeOK, Progress, Threads, ParentKnows, RequestChunks
<1>2. Progress'
  BY DEF TypeOK, Progress, ParentKnows, RequestChunks, Frame
<1>3. Threads'
  BY DEF TypeOK, Progress, Threads, ParentKnows, RequestChunks
<1>4. ParentKnows'
  BY ResultsStay DEF TypeOK, Threads, ParentKnows
<1>5. QED
  BY <1>1, <1>2, <1>3, <1>4

LEMMA ReadTrailingKeeps == ASSUME IInv, ReadTrailing PROVE IInv'
<1> USE WorkerAssumption, SizeIsNatural DEF IInv, ReadTrailing, parentVars, pipeVars, childVars
<1>1. TypeOK'
  BY DEF TypeOK, Progress, Threads, ParentKnows, RequestChunks
<1>2. Progress'
  BY DEF TypeOK, Progress, ParentKnows, RequestChunks, Frame
<1>3. Threads'
  BY DEF TypeOK, Progress, Threads, ParentKnows, RequestChunks
<1>4. ParentKnows'
  BY ResultsStay DEF TypeOK, Threads, ParentKnows
<1>5. QED
  BY <1>1, <1>2, <1>3, <1>4

LEMMA RespondKeeps == ASSUME IInv, NEW r \in Responses, Respond(r) PROVE IInv'
<1> USE WorkerAssumption, SizeIsNatural DEF IInv, Respond, Exit, parentVars, pipeVars, childVars
<1>1. TypeOK'
  <2>0. response = NoResponse
    BY DEF Progress
  <2>1. response.size = 0 /\ emitted = 0
    BY <2>0 DEF TypeOK
  <2>2. r.size \in Nat /\ response' \in {r, response}
    BY DEF Responses
  <2>3. response'.size \in Nat
    BY <2>0, <2>1, <2>2
  <2>4. QED
    BY <2>0, <2>1, <2>2, <2>3 DEF TypeOK
<1>2. Progress'
  BY DEF TypeOK, Progress, ParentKnows, RequestChunks, Frame
<1>3. Threads'
  BY DEF TypeOK, Progress, Threads, ParentKnows, RequestChunks
<1>4. ParentKnows'
  BY ResultsStay DEF TypeOK, Threads, ParentKnows
<1>5. QED
  BY <1>1, <1>2, <1>3, <1>4

LEMMA WriteResponseKeeps == ASSUME IInv, WriteResponse PROVE IInv'
<1> USE WorkerAssumption, SizeIsNatural DEF IInv, WriteResponse, Exit, parentVars, pipeVars, childVars
<1>1. TypeOK'
  BY DEF TypeOK, Progress, Threads, ParentKnows, RequestChunks
<1>2. Progress'
  BY DEF TypeOK, Progress, ParentKnows, RequestChunks, Frame
<1>3. Threads'
  BY DEF TypeOK, Progress, Threads, ParentKnows, RequestChunks
<1>4. ParentKnows'
  BY ResultsStay DEF TypeOK, Threads, ParentKnows
<1>5. QED
  BY <1>1, <1>2, <1>3, <1>4

LEMMA CrashKeeps == ASSUME IInv, Crash PROVE IInv'
<1> USE WorkerAssumption, SizeIsNatural DEF IInv, Crash, Exit, Alive, parentVars, pipeVars, childVars
<1>1. TypeOK'
  BY DEF TypeOK, Progress, Threads, ParentKnows, RequestChunks
<1>2. Progress'
  BY DEF TypeOK, Progress, ParentKnows, RequestChunks, Frame
<1>3. Threads'
  BY DEF TypeOK, Progress, Threads, ParentKnows, RequestChunks
<1>4. ParentKnows'
  BY ResultsStay DEF TypeOK, Threads, ParentKnows
<1>5. QED
  BY <1>1, <1>2, <1>3, <1>4

\* Every step keeps the invariant.
LEMMA NextIInv == IInv /\ [Next]_vars => IInv'
<1> SUFFICES ASSUME IInv, [Next]_vars PROVE IInv'
  OBVIOUS
<1>1. CASE \E target \in Targets : Launch(target)
  BY <1>1, LaunchKeeps
<1>2. CASE Tick
  BY <1>2, TickKeeps
<1>3. CASE Parent
  BY <1>3, PollKeeps, CheckDeadlineKeeps, JoinWriterKeeps, JoinReaderKeeps DEF Parent
<1>4. CASE WriteRequest \/ ReadResponse
  BY <1>4, WriteRequestKeeps, ReadResponseKeeps
<1>5. CASE Child
  BY <1>5, ReadPreludeKeeps, ArmKeeps, ReadSourceKeeps, ReadTrailingKeeps, RespondKeeps,
     WriteResponseKeeps, CrashKeeps DEF Child
<1>6. CASE UNCHANGED vars
  BY <1>6, ResultsStay DEF vars, parentVars, pipeVars, childVars, IInv, TypeOK, Progress,
     Threads, ParentKnows
<1>7. QED
  BY <1>1, <1>2, <1>3, <1>4, <1>5, <1>6 DEF Next

------------------------------------------------------------------------------
(* What the invariant gives.                                               *)

\* The pipes hold what was written and not read, never more than they can,
\* and no more of the response is kept than the request allows.
THEOREM WorkerTypes == Spec => []TypeOK
<1>1. IInv => TypeOK
  BY DEF IInv
<1>2. QED
  BY InitIInv, NextIInv, <1>1, PTL DEF Spec

\* Only a `?` between the spawn and the end of the poll loop leaves the worker or
\* a thread running; every other return path has ended the three.
THEOREM LaunchLeavesNothing == Spec => []NothingLeftBehind
<1>1. IInv => NothingLeftBehind
  BY DEF IInv, ParentKnows, NothingLeftBehind
<1>2. QED
  BY InitIInv, NextIInv, <1>1, PTL DEF Spec

\* An answer comes from an armed worker that read all of the request, wrote all
\* of the response and succeeded.
THEOREM AnswersAreGenuine == Spec => []AnswerIsGenuine
<1>1. IInv => AnswerIsGenuine
  <2> SUFFICES ASSUME IInv, outcome \in Answers
               PROVE  /\ ~timedOut /\ status = "success" /\ armed
                      /\ consumed = RequestChunks /\ read = response.size
                      /\ outcome \in AdmitOutcomes(response.kind)
    BY DEF AnswerIsGenuine
  <2>1. outcome \in Results
    BY DEF IInv, ParentKnows, Answers
  <2>2. ~timedOut /\ status = "success" /\ outcome \in AdmitOutcomes(decode_response)
    BY <2>1 DEF Results, Answers
  <2>3. armed /\ consumed = RequestChunks
    BY <2>2 DEF IInv, Progress
  <2>4. read = response.size
    BY <2>2 DEF Answers, AdmitOutcomes, decode_response
  <2>5. QED
    BY <2>2, <2>3, <2>4 DEF decode_response
<1>2. QED
  BY InitIInv, NextIInv, <1>1, PTL DEF Spec

\* A worker that succeeded in time is answered from its response, or refused
\* for its length, unless a read of the response failed.
THEOREM CompletedRunsAreAnswered == Spec => []CompletedRunIsAnswered
<1>1. IInv => CompletedRunIsAnswered
  <2> SUFFICES ASSUME IInv, parent = "returned", status = "success", ~timedOut,
                      reader # "failed"
               PROVE  outcome \in IF response.size <= MaxResponse
                                  THEN AdmitOutcomes(response.kind) ELSE {"ResponseTooLarge"}
    BY DEF CompletedRunIsAnswered
  <2>1. outcome \in Results /\ reader \in {"ok", "too_large"} /\ writer \in {"ok", "failed"}
    BY DEF IInv, TypeOK, Progress, ParentKnows
  <2>2. emitted = response.size /\ consumed = RequestChunks /\ response.size \in Nat
    BY SizeIsNatural DEF IInv, Progress, TypeOK
  <2>3. writer = "ok"
    BY <2>1, <2>2, WorkerAssumption DEF IInv, Threads, TypeOK, RequestChunks
  <2>4. CASE reader = "ok"
    <3>1. read = response.size /\ response.size <= MaxResponse
      BY <2>4, <2>2, WorkerAssumption DEF IInv, Threads, TypeOK
    <3>2. QED
      BY <2>1, <2>3, <2>4, <3>1 DEF Results, decode_response
  <2>5. CASE reader = "too_large"
    <3>1. ~(response.size <= MaxResponse)
      BY <2>5, <2>2, WorkerAssumption DEF IInv, Threads, TypeOK
    <3>2. QED
      BY <2>1, <2>5, <3>1 DEF Results
  <2>6. QED
    BY <2>1, <2>4, <2>5
<1>2. QED
  BY InitIInv, NextIInv, <1>1, PTL DEF Spec

==============================================================================
