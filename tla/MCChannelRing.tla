--------------------------- MODULE MCChannelRing ---------------------------
(* The ring channel of std/task on two message values and capacities 0..3. *)
EXTENDS ChannelRing
CONSTANTS m1, m2
MCMsg == {m1, m2}
MCCaps == {0, 1, 2, 3}
=============================================================================
