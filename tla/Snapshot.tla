------------------------------ MODULE Snapshot ------------------------------
(***************************************************************************)
(* What a user expects of a directory tree that can be saved and loaded:   *)
(* the tree is a set of paths closed under parents, the disk holds the one *)
(* saved last, and loading it gives that tree back.  A disk may also hold  *)
(* nothing, half of an image, or an image whose tree is not to be trusted. *)
(***************************************************************************)
EXTENDS Sequences, SequencesExt

CONSTANTS Names, Default

VARIABLES
  tree,       \* a set of paths
  disk        \* [is |-> "tree", tree |-> what was saved], or what else a disk holds

IsTree(t) == <<>> \in t /\ \A p \in t : p # <<>> => Front(p) \in t

Other(what) == [is |-> what, tree |-> {}]
Of(t) == [is |-> "tree", tree |-> t]

Init == tree = Default /\ disk = Other("nothing")

Make == \E p \in tree, n \in Names : tree' = tree \cup {Append(p, n)} /\ UNCHANGED disk

Unmake ==
  \E p \in tree \ {<<>>} :
    /\ \A q \in tree : q # <<>> => Front(q) # p
    /\ tree' = tree \ {p} /\ UNCHANGED disk

Save == disk' \in {Of(tree), Other("nothing"), Other("cut"), Other("untrusted")} /\ UNCHANGED tree

\* A disk that holds half an image has the tree started afresh.
Load ==
  /\ UNCHANGED disk
  /\ \/ disk.is = "tree" /\ tree' = disk.tree
     \/ disk.is = "cut" /\ tree' = Default
     \/ disk.is = "untrusted" /\ IsTree(tree')

\* Power fails, and the machine starts again with what the disk holds.
Restart == \/ disk.is = "nothing" /\ tree' = Default /\ UNCHANGED disk
           \/ Load

Next == Make \/ Unmake \/ Save \/ Load \/ Restart

Spec == Init /\ [][Next]_<<tree, disk>>
=============================================================================
