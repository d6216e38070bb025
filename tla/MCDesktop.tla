----------------------------- MODULE MCDesktop -----------------------------
(***************************************************************************)
(* An instance of Desktop for TLC: a screen of three by two points and     *)
(* the task bar, two windows.                                              *)
(***************************************************************************)
EXTENDS Desktop

MCMoves == {<<0, 0>>, <<1, 0>>, <<-1, 1>>, <<0, -1>>}
MCOpened == {[x |-> 0, y |-> 0, w |-> 2, h |-> 2], [x |-> 1, y |-> 0, w |-> 2, h |-> 2]}
=============================================================================
