----------------------------- MODULE SingleTask -----------------------------
(***************************************************************************)
(* A program of one task under the executor (`run`) and under the direct   *)
(* loop for such programs (`__compiler_run_channel_only`).  The comment    *)
(* above the loop argues that "with one task, the general scheduler's      *)
(* quiescence pass resumes an empty receive with None and releases a       *)
(* blocked send into the queue; these direct transitions preserve that     *)
(* behavior".  The executor takes several steps (park, an idle round, the  *)
(* close pass) where the loop takes one: the mapping performs a send when  *)
(* the executor parks or prepares it.                                      *)
(***************************************************************************)
EXTENDS TaskExecutor

\* The message the task is still to send, if any.
ToSend == HeldToSend(0)

SendTo == IF slots[0].tag = "WaitSend" THEN slots[0].chs[1] ELSE frame_channels[0][1]

Sending(c) == ToSend # {} /\ c = SendTo

\* The channels as the loop has them: the pending send has happened.
Direct == INSTANCE ChannelOnly WITH
  erased     <- [c \in Chan |-> IF Sending(c)
                                THEN Append(Contents(c), CHOOSE m \in ToSend : TRUE)
                                ELSE erased[c]],
  typed      <- [c \in Chan |-> IF Sending(c) THEN <<>> ELSE typed[c]],
  typed_live <- [c \in Chan |-> typed_live[c] /\ ~Sending(c)],
  producing  <- frame_kinds[0] = Produce,
  finished   <- ~slot_live[0],
  sent       <- Len(issued)

\* run, on a program of one task that only yields and uses channels, gives the
\* task what __compiler_run_channel_only gives it, operation by operation: the
\* same messages from the same channels in the same order, and None exactly
\* where the loop answers None.
DirectLoopAgrees == Direct!LoopSpec
=============================================================================
