----------------------------- MODULE MCStorage -----------------------------
(***************************************************************************)
(* An instance of Storage for TLC: one default directory and three nodes,  *)
(* so that another directory is made beside it or in it, and one file.     *)
(***************************************************************************)
EXTENDS Storage

MCDefaultDirs == << <<"a">> >>
=============================================================================
