---------------------------- MODULE MCDevServer ----------------------------
(* The style sheet is in a directory the watch covers, or in one it skips. *)
EXTENDS DevServer

MCPlaceOf == [good |-> "web", hidden |-> "dist", illtyped |-> "web", unparsable |-> "web"]
=============================================================================
