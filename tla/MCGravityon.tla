----------------------------- MODULE MCGravityon -----------------------------
(***************************************************************************)
(* What src/gravityon/gravityon.c does on the processor's own account, in  *)
(* one instance: compute jobs (Compute), images (Texture), packed vertices *)
(* and the pipeline cache (Assets).  The three share no memory, so that an *)
(* application uses only one of them (bound).                              *)
(***************************************************************************)
EXTENDS Compute, Texture, Assets

VARIABLE part      \* what the application uses

MCInit == Init /\ TextureInit /\ AssetsInit /\ part \in {"jobs", "images", "assets"}

MCNext ==
  /\ \/ part = "jobs" /\ Next /\ UNCHANGED <<textureVars, assetsVars>>
     \/ part = "images" /\ TextureNext /\ UNCHANGED <<vars, assetsVars>>
     \/ part = "assets" /\ AssetsNext /\ UNCHANGED <<vars, textureVars>>
  /\ UNCHANGED part

MCSpec == MCInit /\ [][MCNext]_<<vars, textureVars, assetsVars, part>> /\ Fairness
=============================================================================
