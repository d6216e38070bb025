------------------------------ MODULE MCGraphics ------------------------------
(***************************************************************************)
(* A ring of 14 words, which a frame and a request fill to every offset,   *)
(* and a quota of 2 requests or 3 pixels (in units of a quarter screen).   *)
(***************************************************************************)
EXTENDS Graphics
MCCommands == {[type |-> "clear", pixels |-> 2], [type |-> "circle", pixels |-> 1],
               [type |-> "rect", pixels |-> NoEstimate]}
MCFrame == <<"rect", "present">>
=============================================================================
