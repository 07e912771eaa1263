--------------------------- MODULE MCTaskExecutor ---------------------------
(* Small instances of the executor, one per family of operations.          *)
EXTENDS TaskExecutor

CoreOps == {"Yield", "Push", "Pull", "PullAny", "Wait", "Cancel"}
TypedOps == {"OpenI64", "Push", "Pull", "PushI64", "PullI64", "ReceiveLaneFrame"}
FrameOps == {"Push", "Wait", "Cancel", "ReceiveLaneFrame", "ReceiveStateFrame",
             "ProduceFrame", "ProduceStateFrame", "TerminalProduceStateFrame"}
SelectOps == {"OpenI64", "PushI64", "Pull", "PullAny", "FrameLoop", "ReadyFrameLoop", "ReceiveFrame",
              "SelectLaneFrame"}
TypedFrameOps == (TypedOps \cup FrameOps) \ {"Wait"}
MCCaps == {0, 1}
CapOne == {1}
=============================================================================
