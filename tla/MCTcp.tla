------------------------------- MODULE MCTcp -------------------------------
(***************************************************************************)
(* Instances of Tcp for TLC: a client and a server on one port each, who   *)
(* can open a second connection while segments of the first are about.     *)
(* The ISNs make the second connection wrap around the sequence space.     *)
(***************************************************************************)
EXTENDS Tcp

CONSTANTS client, server

MCLinks == {<<client, server>>}
MCISNS == <<4, 14>>
=============================================================================
