---------------------------- MODULE MCSingleTask ----------------------------
(* One task, two channels.  Yield is left out: it changes nothing but the  *)
(* count of operations, as a receive that goes on with None does, and      *)
(* would hide a None given for a channel with messages.                    *)
EXTENDS SingleTask

SingleOps == {"OpenI64", "Push", "Pull", "PushI64", "PullI64", "ProduceFrame"}
MCCaps == {0, 1, 2}
=============================================================================
