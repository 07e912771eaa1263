---------------------------- MODULE MCCheckCache ----------------------------
EXTENDS CheckCache, TLC

CONSTANTS a1, a2, b1, c1

(* Process p runs a job with two workers and a job with one, process q one.*)
(* The large function is in every module.  The workers a1 and a2 differ    *)
(* only in their names.                                                    *)
MCJobOf == a1 :> "a" @@ a2 :> "a" @@ b1 :> "b" @@ c1 :> "c"
MCProcessOf == [a |-> "p", b |-> "p", c |-> "q"]
MCModule == [a |-> <<"bad", "large">>, b |-> <<"large">>, c |-> <<"large">>]
MCSites == [large |-> {1}, bad |-> {}, proof |-> {2}]
MCObligations == [a |-> {1}, b |-> {1}, c |-> {1}]
Symmetry == Permutations({a1, a2})

(* The modules have no affine ABI proofs.                                  *)
MCProofs == [j \in {"a", "b", "c"} |-> None]

(* Single workers; a large function that is rejected, and one in two       *)
(* modules of one process whose affine ABI proofs differ.                  *)
LiveJobOf == a1 :> "a" @@ b1 :> "b" @@ c1 :> "c"
LiveModule == [a |-> <<"proof">>, b |-> <<"proof", "bad">>, c |-> <<"bad">>]
LiveProofs == [a |-> "one", b |-> "other", c |-> None]
LiveObligations == [a |-> {2}, b |-> {2}, c |-> {}]
=============================================================================
