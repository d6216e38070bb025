---------------------------- MODULE StorageProofs ----------------------------
(***************************************************************************)
(* Proofs about Storage, for tables of any size, any names, users and      *)
(* paths, with clients that do not remove the root: what the permissions   *)
(* decide, that the tree stays one, and that it is saved and loaded as     *)
(* Snapshot says.                                                          *)
(***************************************************************************)
EXTENDS Storage, FiniteSetTheorems, WellFoundedInduction, TLAPS

\* The least-number principle, for a set.
LEMMA LeastNatural ==
  ASSUME NEW S, S \subseteq Nat, S # {}
  PROVE  \E n \in S : \A m \in S : n <= m
<1> DEFINE R == {ss \in Nat \X Nat : ss[1] < ss[2]}
<1>1. IsWellFoundedOn(R, Nat)
  BY NatLessThanWellFounded DEF OpToRel
<1>2. \E x \in S : \A y \in S : <<y, x>> \notin R
  <2> HIDE DEF R
  <2> QED BY <1>1, WFMin
<1>3. PICK n \in S : \A m \in S : <<m, n>> \notin R
  BY <1>2
<1>4. ASSUME NEW m \in S PROVE n <= m
  <2>1. m \in Nat /\ n \in Nat /\ (m < n => <<m, n>> \in R)
    OBVIOUS
  <2>2. QED
    BY <2>1, <1>3
<1>5. QED
  BY <1>4

\* What is left of a sequence without the element appended last.
LEMMA FrontOfAppend ==
  ASSUME NEW S, NEW p \in Seq(S), NEW e
  PROVE  Front(Append(p, e)) = p
BY DEF Front

(* Induction over the naturals, for sets: what holds at 0 and goes on from one
   to the next holds up to n. *)
LEMMA UpTo ==
  ASSUME NEW n \in Nat, NEW T, 0 \in T, \A k \in 1 .. n : k - 1 \in T => k \in T
  PROVE  0 .. n \subseteq T
<1> DEFINE S == (0 .. n) \ T
<1>1. SUFFICES ASSUME S # {} PROVE FALSE
  OBVIOUS
<1>2. PICK m \in S : \A k \in S : m <= k
  <2>1. S \subseteq Nat
    OBVIOUS
  <2>2. QED
    <3> HIDE DEF S
    <3> QED BY <1>1, <2>1, LeastNatural
<1>3. m \in 1 .. n /\ m \notin T /\ m - 1 \notin S
  BY <1>2
<1>4. QED
  BY <1>3

\* A function may be defined by what each value makes of the one before.
Iterates(S) ==
  \A n \in Nat : \A b \in S : \A step \in [1 .. n -> [S -> S]] :
    \E f \in [0 .. n -> S] : f[0] = b /\ \A k \in 1 .. n : f[k] = step[k][f[k - 1]]

\* Induction over the number of steps: such a function exists.
LEMMA Recursion == \A S : Iterates(S)
<1> SUFFICES ASSUME NEW S, NEW b \in S, NEW n \in Nat, NEW step \in [1 .. n -> [S -> S]]
             PROVE  \E f \in [0 .. n -> S] :
                      f[0] = b /\ \A k \in 1 .. n : f[k] = step[k][f[k - 1]]
  BY DEF Iterates
<1> DEFINE Good(f, m) == f[0] = b /\ \A k \in 1 .. m : f[k] = step[k][f[k - 1]]
           T == {m \in 0 .. n : \E f \in [0 .. m -> S] : Good(f, m)}
<1>1. 0 \in T
  <2> DEFINE f == [k \in 0 .. 0 |-> b]
  <2>1. f \in [0 .. 0 -> S] /\ Good(f, 0)
    OBVIOUS
  <2>2. \E g \in [0 .. 0 -> S] : Good(g, 0)
    BY <2>1
  <2>3. QED
    BY <2>2
<1>2. ASSUME NEW m \in 1 .. n, m - 1 \in T PROVE m \in T
  <2>1. PICK f \in [0 .. m - 1 -> S] : Good(f, m - 1)
    BY <1>2
  <2> DEFINE g == [k \in 0 .. m |-> IF k = m THEN step[m][f[m - 1]] ELSE f[k]]
  <2>2. step[m] \in [S -> S] /\ f[m - 1] \in S
    OBVIOUS
  <2>3. g \in [0 .. m -> S]
    BY <2>2
  <2>4. ASSUME NEW k \in 1 .. m PROVE g[k] = step[k][g[k - 1]]
    <3>1. CASE k = m
      BY <3>1
    <3>2. CASE k < m
      <4>1. k \in 1 .. m - 1 /\ g[k] = f[k] /\ g[k - 1] = f[k - 1]
        BY <3>2
      <4>2. QED
        BY <2>1, <4>1
    <3>3. QED
      BY <3>1, <3>2
  <2>5. Good(g, m)
    BY <2>1, <2>4
  <2>6. \E h \in [0 .. m -> S] : Good(h, m)
    <3> HIDE DEF g, Good
    <3> QED BY <2>3, <2>5
  <2>7. m \in 0 .. n
    OBVIOUS
  <2>8. QED
    <3> HIDE DEF Good
    <3> QED BY <2>6, <2>7
<1>3. 0 .. n \subseteq T
  <2> HIDE DEF T
  <2> QED BY <1>1, <1>2, UpTo
<1>4. QED
  BY <1>3

------------------------------------------------------------------------------
Node == [parent : Ids \cup {NONE}, name : Names \cup {"/"}]

\* The nodes' distances from the root.
Ranks(t, r) ==
  /\ r \in [DOMAIN t -> Nat] /\ r[0] = 0
  /\ \A i \in DOMAIN t \ {0} : r[i] = r[t[i].parent] + 1

Places == Ids \cup {NONE}

Rooted(t) ==
  /\ 0 \in DOMAIN t /\ t[0] = [parent |-> NONE, name |-> "/"]
  /\ \A i \in DOMAIN t \ {0} : t[i].parent \in DOMAIN t /\ t[i].name \in Names
  /\ \A i, j \in DOMAIN t \ {0} : t[i].parent = t[j].parent /\ t[i].name = t[j].name => i = j
  /\ \E r : Ranks(t, r)

Trees == {t \in UNION {[D -> Node] : D \in SUBSET Ids} : Rooted(t)}

\* What a tree is, for the leaves that cite it.
LEMMA TreeFacts ==
  ASSUME NEW t \in Trees
  PROVE  /\ DOMAIN t \subseteq Ids /\ t \in [DOMAIN t -> Node] /\ Rooted(t)
         /\ \A i \in DOMAIN t : i \in Nat /\ t[i].parent \in Ids \cup {NONE}
BY DEF Trees, Node, Ids

\* What the constants are.
LEMMA IdFacts ==
  /\ Ids \subseteq Nat /\ 0 \in Ids /\ NONE \notin Ids /\ NONE = -1 /\ VFS_MAX_NODES \in Nat
  /\ VFS_MAX_DEPTH \in Nat /\ Len(DefaultDirs) \in Nat
  /\ ".." \notin Names /\ "/" \notin Names
BY StorageAssumption DEF Ids, NONE

\* A node is not found twice.
LEMMA ChildIs ==
  ASSUME NEW t \in Trees, NEW p, NEW s \in Names
  PROVE  /\ Child(t, p, s) \in DOMAIN t \cup {NONE}
         /\ \A i \in DOMAIN t \ {0} : t[i].parent = p /\ t[i].name = s => Child(t, p, s) = i
         /\ Child(t, p, s) # NONE => t[Child(t, p, s)].parent = p /\ t[Child(t, p, s)].name = s
<1> DEFINE found == {i \in DOMAIN t : t[i].parent = p /\ t[i].name = s}
<1>1. 0 \notin found
  BY TreeFacts, IdFacts DEF Rooted
<1>2. CASE found = {}
  BY <1>1, <1>2 DEF Child
<1>3. CASE found # {}
  <2>1. PICK i \in found : TRUE
    BY <1>3
  <2>2. \A j \in found : j = i
    BY <1>1, <2>1, TreeFacts DEF Rooted
  <2>3. i \in Nat
    BY <2>1, TreeFacts
  <2>4. Min(found) = i
    <3>1. found = {i}
      BY <2>1, <2>2
    <3> HIDE DEF found
    <3>2. i <= i
      BY <2>3
    <3>3. QED
      BY <3>1, <3>2 DEF Min
  <2>5. Child(t, p, s) = i
    BY <1>3, <2>4 DEF Child
  <2>6. i # NONE
    BY <2>3, IdFacts
  <2>7. QED
    BY <2>1, <2>2, <2>5, <2>6
<1>4. QED
  BY <1>2, <1>3

\* One segment leads from a node to a node, or nowhere.
LEMMA StepIs ==
  ASSUME NEW t \in Trees, NEW cur \in DOMAIN t \cup {NONE}, NEW s \in Names \cup {".."}
  PROVE  Step(t, cur, s) \in DOMAIN t \cup {NONE}
<1>1. CASE cur = NONE
  BY <1>1 DEF Step
<1>2. CASE cur # NONE /\ s = ".."
  <2>1. Step(t, cur, s) = IF t[cur].parent >= 0 THEN t[cur].parent ELSE 0
    BY <1>2 DEF Step
  <2>2. cur # 0 => t[cur].parent \in DOMAIN t
    BY <1>2, TreeFacts DEF Rooted
  <2>3. cur = 0 => t[cur].parent = -1
    BY TreeFacts, IdFacts DEF Rooted
  <2>4. 0 \in DOMAIN t
    BY TreeFacts DEF Rooted
  <2>5. QED
    BY <1>2, <2>1, <2>2, <2>3, <2>4
<1>3. CASE cur # NONE /\ s # ".."
  <2>1. Step(t, cur, s) = Child(t, cur, s)
    BY <1>3 DEF Step
  <2>2. QED
    BY <1>3, <2>1, ChildIs
<1>4. QED
  BY <1>1, <1>2, <1>3

------------------------------------------------------------------------------
(* Paths *)

\* The functions that Resolve and Upwards apply.
At(t, path) == CHOOSE at : at = [k \in 0 .. Len(path) |-> IF k = 0 THEN 0 ELSE Step(t, at[k - 1], path[k])]
Up(t, depth) ==
  CHOOSE up : up = [d \in 0 .. depth |->
                      [i \in Ids \cup {NONE} |-> IF d = 0 \/ i <= 0 \/ i \notin DOMAIN t THEN <<>>
                                                ELSE Append(up[d - 1][t[i].parent], t[i].name)]]

\* Resolve and Upwards are values of these functions.
LEMMA Unfolded ==
  /\ \A t, path : Resolve(t, path) = At(t, path)[Len(path)]
  /\ \A t, i, d : Upwards(t, i, d) = Up(t, d)[d][i]
BY DEF Resolve, Upwards, At, Up

\* One segment leads from any id to some id.
LEMMA StepInside ==
  ASSUME NEW t \in Trees, NEW cur \in Places, NEW s \in Names \cup {".."}
  PROVE  Step(t, cur, s) \in Places
<1>1. CASE cur \in DOMAIN t \cup {NONE}
  BY <1>1, StepIs, TreeFacts DEF Places
<1>2. CASE cur \notin DOMAIN t /\ cur # NONE /\ s = ".."
  BY <1>2, IdFacts DEF Step, Places
<1>3. CASE cur # NONE /\ s # ".."
  BY <1>3, ChildIs, TreeFacts DEF Step, Places
<1>4. QED
  BY <1>1, <1>2, <1>3

\* Resolve's function follows the path segment by segment.
LEMMA AtIs ==
  ASSUME NEW t \in Trees, NEW path \in Seq(Names \cup {".."})
  PROVE  /\ At(t, path) \in [0 .. Len(path) -> DOMAIN t \cup {NONE}]
         /\ At(t, path)[0] = 0
         /\ \A k \in 1 .. Len(path) : At(t, path)[k] = Step(t, At(t, path)[k - 1], path[k])
<1> DEFINE step == [k \in 1 .. Len(path) |-> [x \in Places |-> Step(t, x, path[k])]]
           Body(at) == [k \in 0 .. Len(path) |-> IF k = 0 THEN 0 ELSE Step(t, at[k - 1], path[k])]
<1>0. Len(path) \in Nat /\ \A k \in 1 .. Len(path) : path[k] \in Names \cup {".."}
  OBVIOUS
<1>1. step \in [1 .. Len(path) -> [Places -> Places]]
  <2>1. \A k \in 1 .. Len(path) : \A x \in Places : Step(t, x, path[k]) \in Places
    BY <1>0, StepInside
  <2>2. QED
    BY <2>1
<1>2. 0 \in Places /\ 0 \in DOMAIN t
  BY TreeFacts DEF Rooted, Places
<1>3. PICK f \in [0 .. Len(path) -> Places] :
         f[0] = 0 /\ \A k \in 1 .. Len(path) : f[k] = step[k][f[k - 1]]
  <2> HIDE DEF step
  <2>1. Iterates(Places)
    BY Recursion
  <2>2. QED
    BY <1>0, <1>1, <1>2, <2>1 DEF Iterates
<1>4. f = Body(f)
  <2>1. ASSUME NEW k \in 0 .. Len(path) PROVE f[k] = Body(f)[k]
    <3>1. CASE k = 0
      BY <1>3, <3>1
    <3>2. CASE k # 0
      <4>1. k \in 1 .. Len(path) /\ k - 1 \in 0 .. Len(path)
        BY <1>0, <3>2
      <4>2. f[k] = step[k][f[k - 1]] /\ f[k - 1] \in Places
        BY <1>3, <4>1
      <4>3. QED
        BY <4>1, <4>2
    <3>3. QED
      BY <3>1, <3>2
  <2>2. QED
    BY <2>1
<1>5. At(t, path) = Body(At(t, path))
  <2> HIDE DEF Body
  <2>1. At(t, path) = CHOOSE at : at = Body(at)
    BY DEF At, Body
  <2>2. QED
    BY <1>4, <2>1
<1>6. DOMAIN At(t, path) = 0 .. Len(path)
  BY <1>5
<1>7. /\ At(t, path)[0] = 0
      /\ \A k \in 1 .. Len(path) : At(t, path)[k] = Step(t, At(t, path)[k - 1], path[k])
  BY <1>5
<1>8. 0 .. Len(path) \subseteq {k \in 0 .. Len(path) : At(t, path)[k] \in DOMAIN t \cup {NONE}}
  <2> DEFINE T == {k \in 0 .. Len(path) : At(t, path)[k] \in DOMAIN t \cup {NONE}}
  <2>1. 0 \in T
    BY <1>2, <1>7
  <2>2. ASSUME NEW k \in 1 .. Len(path), k - 1 \in T PROVE k \in T
    <3>1. At(t, path)[k] = Step(t, At(t, path)[k - 1], path[k])
      BY <1>7
    <3>2. Step(t, At(t, path)[k - 1], path[k]) \in DOMAIN t \cup {NONE}
      BY <1>0, <2>2, StepIs DEF T
    <3>3. QED
      BY <1>0, <3>1, <3>2
  <2>3. QED
    <3> HIDE DEF T
    <3>1. 0 .. Len(path) \subseteq T
      BY <1>0, <2>1, <2>2, UpTo
    <3>2. QED
      BY <3>1 DEF T
<1>9. QED
  BY <1>5, <1>6, <1>7, <1>8

\* A path leads to a node or nowhere.
LEMMA ResolveIs ==
  ASSUME NEW t \in Trees, NEW path \in Seq(Names \cup {".."})
  PROVE  Resolve(t, path) \in DOMAIN t \cup {NONE}
BY AtIs, Unfolded

\* The empty path is the root.
LEMMA ResolveEmpty ==
  ASSUME NEW t \in Trees
  PROVE  Resolve(t, <<>>) = 0
<1>1. <<>> \in Seq(Names \cup {".."}) /\ Len(<<>>) = 0
  OBVIOUS
<1>2. QED
  BY <1>1, AtIs, Unfolded

\* A longer path goes on where the shorter one ended.
LEMMA ResolveAppend ==
  ASSUME NEW t \in Trees, NEW path \in Seq(Names \cup {".."}), NEW s \in Names \cup {".."}
  PROVE  Resolve(t, Append(path, s)) = Step(t, Resolve(t, path), s)
<1> DEFINE long == Append(path, s)
           T == {k \in 0 .. Len(path) : At(t, long)[k] = At(t, path)[k]}
<1>1. long \in Seq(Names \cup {".."}) /\ Len(long) = Len(path) + 1 /\ long[Len(path) + 1] = s
  OBVIOUS
<1>2. \A k \in 1 .. Len(path) : long[k] = path[k]
  OBVIOUS
<1> HIDE DEF long
<1>3. 0 \in T
  BY <1>1, AtIs
<1>4. ASSUME NEW k \in 1 .. Len(path), k - 1 \in T PROVE k \in T
  BY <1>1, <1>2, <1>4, AtIs
<1>5. At(t, long)[Len(path)] = At(t, path)[Len(path)]
  <2>1. 0 .. Len(path) \subseteq T
    <3> HIDE DEF T
    <3>1. Len(path) \in Nat
      OBVIOUS
    <3>2. QED
      BY <1>3, <1>4, <3>1, UpTo
  <2>2. QED
    BY <2>1
<1>6. QED
  BY <1>1, <1>5, AtIs, Unfolded DEF long

\* A path upwards from any place, of names of directories.
Ways == [Places -> Seq(Names)]

\* Upwards' function looks one node further with each depth.
LEMMA UpIs ==
  ASSUME NEW t \in Trees, NEW n \in Nat
  PROVE  /\ Up(t, n)[0] = [i \in Places |-> <<>>]
         /\ \A d \in 1 .. n :
              Up(t, n)[d] = [i \in Places |-> IF i <= 0 \/ i \notin DOMAIN t THEN <<>>
                                              ELSE Append(Up(t, n)[d - 1][t[i].parent], t[i].name)]
         /\ \A d \in 0 .. n : Up(t, n)[d] \in Ways
<1> DEFINE next(w) == [i \in Places |-> IF i <= 0 \/ i \notin DOMAIN t THEN <<>>
                                       ELSE Append(w[t[i].parent], t[i].name)]
           step == [d \in 1 .. n |-> [w \in Ways |-> next(w)]]
           none == [i \in Places |-> <<>>]
           Body(up) == [d \in 0 .. n |-> IF d = 0 THEN none ELSE next(up[d - 1])]
<1>1. none \in Ways
  BY DEF Ways
<1>2. ASSUME NEW w \in Ways PROVE next(w) \in Ways
  <2>1. ASSUME NEW i \in Places, ~(i <= 0 \/ i \notin DOMAIN t)
        PROVE  Append(w[t[i].parent], t[i].name) \in Seq(Names)
    <3>1. i \in DOMAIN t \ {0}
      BY <2>1, TreeFacts
    <3>2. t[i].name \in Names /\ t[i].parent \in Places
      BY <3>1, TreeFacts DEF Rooted, Places
    <3>3. w[t[i].parent] \in Seq(Names)
      BY <3>2 DEF Ways
    <3>4. QED
      BY <3>2, <3>3
  <2>2. QED
    BY <2>1 DEF Ways
<1>3. step \in [1 .. n -> [Ways -> Ways]]
  <2> HIDE DEF next
  <2> QED BY <1>2
<1>4. PICK f \in [0 .. n -> Ways] : f[0] = none /\ \A d \in 1 .. n : f[d] = step[d][f[d - 1]]
  <2> HIDE DEF step, none
  <2>1. Iterates(Ways)
    BY Recursion
  <2>2. QED
    BY <1>1, <1>3, <2>1 DEF Iterates
<1>5. f = Body(f)
  <2> HIDE DEF next, none
  <2>1. ASSUME NEW d \in 0 .. n PROVE f[d] = Body(f)[d]
    <3>1. CASE d = 0
      BY <1>4, <3>1
    <3>2. CASE d # 0
      <4>1. d \in 1 .. n /\ d - 1 \in 0 .. n
        BY <3>2
      <4>2. f[d] = step[d][f[d - 1]] /\ f[d - 1] \in Ways
        BY <1>4, <4>1
      <4>3. QED
        BY <4>1, <4>2
    <3>3. QED
      BY <3>1, <3>2
  <2>2. QED
    BY <2>1
<1>6. Up(t, n) = Body(Up(t, n))
  <2>1. \A up : Body(up) = [d \in 0 .. n |->
                      [i \in Ids \cup {NONE} |-> IF d = 0 \/ i <= 0 \/ i \notin DOMAIN t THEN <<>>
                                                ELSE Append(up[d - 1][t[i].parent], t[i].name)]]
    BY DEF Places
  <2>2. Up(t, n) = CHOOSE up : up = Body(up)
    <3> HIDE DEF Body
    <3> QED BY <2>1 DEF Up
  <2> HIDE DEF Body
  <2>3. QED
    BY <1>5, <2>2
<1>7. /\ Up(t, n)[0] = none
      /\ \A d \in 1 .. n : Up(t, n)[d] = next(Up(t, n)[d - 1])
  <2> HIDE DEF next, none
  <2> QED BY <1>6
<1>8. \A d \in 0 .. n : Up(t, n)[d] \in Ways
  <2> DEFINE T == {d \in 0 .. n : Up(t, n)[d] \in Ways}
  <2> HIDE DEF next, none
  <2>1. 0 \in T
    BY <1>1, <1>7
  <2>2. ASSUME NEW d \in 1 .. n, d - 1 \in T PROVE d \in T
    BY <1>2, <1>7, <2>2
  <2>3. 0 .. n \subseteq T
    <3> HIDE DEF T
    <3> QED BY <2>1, <2>2, UpTo
  <2>4. QED
    BY <2>3
<1>9. QED
  BY <1>7, <1>8

\* The names on the way up are names of directories.
LEMMA UpwardsIs ==
  ASSUME NEW t \in Trees, NEW i \in Places, NEW d \in Nat
  PROVE  Upwards(t, i, d) \in Seq(Names)
<1>1. Up(t, d)[d] \in Ways
  BY UpIs
<1>2. QED
  BY <1>1, Unfolded DEF Ways

\* From the root there is no way up.
LEMMA UpwardsRoot ==
  ASSUME NEW t \in Trees, NEW i \in {0, NONE}, NEW d \in Nat
  PROVE  Upwards(t, i, d) = <<>>
<1>1. i \in Places /\ i <= 0
  BY IdFacts DEF Places
<1>2. CASE d = 0
  BY <1>1, <1>2, UpIs, Unfolded
<1>3. CASE d # 0
  <2>1. d \in 1 .. d
    BY <1>3
  <2>2. Up(t, d)[d] = [j \in Places |-> IF j <= 0 \/ j \notin DOMAIN t THEN <<>>
                                        ELSE Append(Up(t, d)[d - 1][t[j].parent], t[j].name)]
    BY <2>1, UpIs
  <2>3. Up(t, d)[d][i] = <<>>
    BY <1>1, <2>2
  <2>4. QED
    BY <2>3, Unfolded
<1>4. QED
  BY <1>2, <1>3

\* A node's way up is its parent's and its name.
LEMMA UpwardsStep ==
  ASSUME NEW t \in Trees, NEW i \in DOMAIN t \ {0}, NEW d \in Nat
  PROVE  Upwards(t, i, d + 1) = Append(Upwards(t, t[i].parent, d), t[i].name)
<1>1. i \in Places /\ ~(i <= 0)
  BY TreeFacts, IdFacts DEF Places
<1>2. d + 1 \in 1 .. d + 1 /\ d + 1 - 1 = d /\ d + 1 \in Nat /\ d \in 0 .. d
  OBVIOUS
<1> DEFINE next(w) == [j \in Places |-> IF j <= 0 \/ j \notin DOMAIN t THEN <<>>
                                       ELSE Append(w[t[j].parent], t[j].name)]
<1>3. /\ \A k \in 1 .. d + 1 : Up(t, d + 1)[k] = next(Up(t, d + 1)[k - 1])
      /\ \A k \in 1 .. d : Up(t, d)[k] = next(Up(t, d)[k - 1])
      /\ Up(t, d + 1)[0] = Up(t, d)[0]
  BY <1>2, UpIs
<1>4. Up(t, d + 1)[d] = Up(t, d)[d]
  <2> DEFINE T == {k \in 0 .. d : Up(t, d + 1)[k] = Up(t, d)[k]}
  <2> HIDE DEF next
  <2>1. 0 \in T
    BY <1>3
  <2>2. ASSUME NEW k \in 1 .. d, k - 1 \in T PROVE k \in T
    <3>1. k \in 1 .. d + 1
      OBVIOUS
    <3>2. QED
      BY <1>3, <2>2, <3>1
  <2>3. 0 .. d \subseteq T
    <3> HIDE DEF T
    <3> QED BY <2>1, <2>2, UpTo
  <2>4. QED
    BY <1>2, <2>3
<1>5. Up(t, d + 1)[d + 1] = next(Up(t, d)[d])
  <2> HIDE DEF next
  <2> QED BY <1>2, <1>3, <1>4
<1>6. QED
  BY <1>1, <1>5, Unfolded

(* The tree: every node is found under its path *)

\* Ranks count distinct nodes on the way to the root, so they are below the
\* number of ids: no tree is deeper than its table.
LEMMA Ranked ==
  ASSUME NEW t \in Trees, NEW r, Ranks(t, r), NEW i \in DOMAIN t
  PROVE  r[i] \in 0 .. VFS_MAX_NODES - 1
<1>1. /\ r \in [DOMAIN t -> Nat] /\ r[i] \in Nat /\ r[0] = 0
      /\ \A j \in DOMAIN t \ {0} : t[j].parent \in DOMAIN t /\ r[j] = r[t[j].parent] + 1
  BY TreeFacts DEF Ranks, Rooted
<1> DEFINE I == {r[j] : j \in DOMAIN t}
           T == {k \in 0 .. r[i] : r[i] - k \in I}
<1>2. 0 \in T
  BY <1>1
<1>3. ASSUME NEW k \in 1 .. r[i], k - 1 \in T PROVE k \in T
  <2>1. PICK j \in DOMAIN t : r[j] = r[i] - (k - 1)
    BY <1>3
  <2>2. CASE j # 0
    <3>1. r[t[j].parent] = r[i] - k /\ t[j].parent \in DOMAIN t
      BY <1>1, <2>1, <2>2
    <3>2. QED
      BY <3>1
  <2>3. CASE j = 0
    BY <1>1, <2>1, <2>3
  <2>4. QED
    BY <2>2, <2>3
<1>4. \A k \in 0 .. r[i] : r[i] - k \in I
  <2>1. 0 .. r[i] \subseteq T
    <3> HIDE DEF T
    <3> QED BY <1>1, <1>2, <1>3, UpTo
  <2>2. QED
    BY <2>1
<1>5. 0 .. r[i] \subseteq I
  <2>1. ASSUME NEW k \in 0 .. r[i] PROVE k \in I
    <3>1. r[i] - k \in 0 .. r[i] /\ r[i] - (r[i] - k) = k
      BY <1>1
    <3> HIDE DEF I
    <3>2. QED
      BY <1>4, <3>1
  <2>2. QED
    BY <2>1
<1>6. IsFiniteSet(DOMAIN t) /\ Cardinality(DOMAIN t) <= VFS_MAX_NODES
  <2>1. IsFiniteSet(Ids) /\ Cardinality(Ids) = VFS_MAX_NODES
    BY IdFacts, FS_Interval DEF Ids
  <2>2. DOMAIN t \subseteq Ids
    BY TreeFacts
  <2>3. QED
    BY <2>1, <2>2, FS_Subset
<1>7. IsFiniteSet(I) /\ Cardinality(I) <= Cardinality(DOMAIN t)
  <2>1. r \in Surjection(DOMAIN t, I)
    BY <1>1 DEF Surjection
  <2>2. QED
    <3> HIDE DEF I
    <3> QED BY <1>6, <2>1, FS_Surjection
<1>8. Cardinality(0 .. r[i]) = r[i] + 1 /\ Cardinality(0 .. r[i]) <= Cardinality(I)
  <2> HIDE DEF I
  <2>1. Cardinality(0 .. r[i]) = r[i] + 1
    BY <1>1, FS_Interval
  <2>2. QED
    BY <1>5, <1>7, <2>1, FS_Subset
<1>9. QED
  <2> HIDE DEF I
  <2>1. Cardinality(I) \in Nat /\ Cardinality(DOMAIN t) \in Nat
    BY <1>6, <1>7, FS_CardinalityType
  <2>2. QED
    BY <1>1, <1>6, <1>7, <1>8, <2>1, IdFacts

\* The names on the way up from a node lead down to it again.
LEMMA PathLeads ==
  ASSUME NEW t \in Trees, NEW r, Ranks(t, r), NEW n \in Nat
  PROVE  \A i \in DOMAIN t : r[i] <= n => Resolve(t, Upwards(t, i, n)) = i
<1> DEFINE T == {k \in 0 .. n : \A i \in DOMAIN t : r[i] <= k => Resolve(t, Upwards(t, i, k)) = i}
<1>1. ASSUME NEW d \in Nat PROVE Resolve(t, Upwards(t, 0, d)) = 0
  BY UpwardsRoot, ResolveEmpty
<1>2. \A i \in DOMAIN t : r[i] \in Nat /\ i \in Places
  BY TreeFacts DEF Ranks, Places
<1>3. \A i \in DOMAIN t \ {0} : t[i].parent \in DOMAIN t /\ r[i] = r[t[i].parent] + 1
  BY TreeFacts DEF Ranks, Rooted
<1>4. 0 \in T
  <2>1. ASSUME NEW i \in DOMAIN t, r[i] <= 0 PROVE i = 0
    BY <1>2, <1>3, <2>1
  <2>2. QED
    BY <1>1, <2>1
<1>5. ASSUME NEW k \in 1 .. n, k - 1 \in T PROVE k \in T
  <2>1. ASSUME NEW i \in DOMAIN t, r[i] <= k, i # 0
        PROVE  Resolve(t, Upwards(t, i, k)) = i
    <3> DEFINE p == t[i].parent
               s == t[i].name
    <3>1. p \in DOMAIN t /\ p \in Places /\ p # NONE /\ r[p] <= k - 1 /\ s \in Names
      <4>1. p \in DOMAIN t /\ r[i] = r[p] + 1 /\ s \in Names
        BY <1>3, <2>1, TreeFacts DEF Rooted
      <4>2. QED
        BY <1>2, <2>1, <4>1, TreeFacts, IdFacts
    <3>2. Resolve(t, Upwards(t, p, k - 1)) = p
      BY <1>5, <3>1
    <3>3. Upwards(t, i, k) = Append(Upwards(t, p, k - 1), s)
      <4>1. k - 1 \in Nat /\ k = (k - 1) + 1
        OBVIOUS
      <4>2. QED
        BY <2>1, <4>1, UpwardsStep
    <3>4. Upwards(t, p, k - 1) \in Seq(Names \cup {".."})
      BY <3>1, UpwardsIs
    <3>5. Resolve(t, Upwards(t, i, k)) = Step(t, p, s)
      <4> HIDE DEF p, s
      <4> QED BY <3>1, <3>2, <3>3, <3>4, ResolveAppend
    <3>6. Step(t, p, s) = Child(t, p, s)
      <4>1. s # ".."
        BY <3>1, IdFacts
      <4>2. QED
        BY <3>1, <4>1 DEF Step
    <3>7. Child(t, p, s) = i
      BY <2>1, <3>1, ChildIs
    <3>8. QED
      BY <3>5, <3>6, <3>7
  <2>2. QED
    BY <1>1, <2>1
<1>6. 0 .. n \subseteq T
  <2> HIDE DEF T
  <2> QED BY <1>4, <1>5, UpTo
<1>7. QED
  BY <1>6

\* So they do from every node.
LEMMA TreePaths ==
  ASSUME NEW t \in Trees, NEW i \in DOMAIN t
  PROVE  Resolve(t, Upwards(t, i, VFS_MAX_NODES)) = i
<1>1. PICK r : Ranks(t, r)
  BY TreeFacts DEF Rooted
<1>2. r[i] \in 0 .. VFS_MAX_NODES - 1
  BY <1>1, Ranked
<1>3. QED
  BY <1>1, <1>2, PathLeads, IdFacts

(* Directories are made and removed *)

\* alloc_node finds an id that nobody uses.
LEMMA FreshId ==
  ASSUME NEW t, AllocNode(t) # NONE
  PROVE  AllocNode(t) \in Ids \ DOMAIN t
<1> DEFINE S == Ids \ DOMAIN t
<1>1. S # {} /\ AllocNode(t) = Min(S)
  BY DEF AllocNode
<1>2. S \subseteq Nat
  BY IdFacts
<1>3. PICK n \in S : \A m \in S : n <= m
  <2> HIDE DEF S
  <2> QED BY <1>1, <1>2, LeastNatural
<1>4. Min(S) \in S
  <2> HIDE DEF S
  <2> QED BY <1>3 DEF Min
<1>5. QED
  BY <1>1, <1>4

Grown(t, new, p, s) == [i \in DOMAIN t \cup {new} |-> IF i = new THEN [parent |-> p, name |-> s] ELSE t[i]]

\* A new leaf under a node that has no child of that name keeps the tree one.
LEMMA TreeGrows ==
  ASSUME NEW t \in Trees, NEW p \in DOMAIN t, NEW s \in Names, NEW new \in Ids \ DOMAIN t,
         Child(t, p, s) = NONE,
         NEW u, u = Grown(t, new, p, s)
  PROVE  u \in Trees
<1>1. /\ DOMAIN u = DOMAIN t \cup {new} /\ u[new] = [parent |-> p, name |-> s]
      /\ \A i \in DOMAIN t : u[i] = t[i]
  BY DEF Grown
<1>2. u \in [DOMAIN u -> Node] /\ DOMAIN u \subseteq Ids
  <2>1. [parent |-> p, name |-> s] \in Node
    BY TreeFacts DEF Node
  <2>2. t \in [DOMAIN t -> Node] /\ DOMAIN t \subseteq Ids
    BY TreeFacts
  <2>3. u = [i \in DOMAIN u |-> u[i]]
    BY <1>1 DEF Grown
  <2>4. \A i \in DOMAIN u : u[i] \in Node
    BY <1>1, <2>1, <2>2
  <2>5. u \in [DOMAIN u -> Node]
    BY <2>3, <2>4
  <2>6. QED
    BY <1>1, <2>2, <2>5
<1>3. 0 \in DOMAIN t /\ new # 0 /\ t[0] = [parent |-> NONE, name |-> "/"]
  BY TreeFacts DEF Rooted
<1>4. \A i \in DOMAIN u \ {0} : u[i].parent \in DOMAIN u /\ u[i].name \in Names
  BY <1>1, TreeFacts DEF Rooted
<1>5. ASSUME NEW i \in DOMAIN u \ {0}, NEW j \in DOMAIN u \ {0},
             u[i].parent = u[j].parent, u[i].name = u[j].name
      PROVE  i = j
  <2>1. \A k \in DOMAIN t \ {0} : ~(t[k].parent = p /\ t[k].name = s)
    BY ChildIs, TreeFacts, IdFacts
  <2>2. CASE i = new /\ j # new
    BY <1>1, <1>5, <2>1, <2>2
  <2>3. CASE i # new /\ j = new
    BY <1>1, <1>5, <2>1, <2>3
  <2>4. CASE i # new /\ j # new
    BY <1>1, <1>5, <2>4, TreeFacts DEF Rooted
  <2>5. QED
    BY <2>2, <2>3, <2>4
<1>6. \E q : Ranks(u, q)
  <2>1. PICK r : Ranks(t, r)
    BY TreeFacts DEF Rooted
  <2> DEFINE q == [i \in DOMAIN u |-> IF i = new THEN r[p] + 1 ELSE r[i]]
  <2>2. \A i \in DOMAIN t : r[i] \in Nat
    BY <2>1 DEF Ranks
  <2>3. q \in [DOMAIN u -> Nat] /\ q[0] = 0
    BY <1>1, <1>3, <2>1, <2>2 DEF Ranks
  <2>4. ASSUME NEW i \in DOMAIN u \ {0} PROVE q[i] = q[u[i].parent] + 1
    <3>1. CASE i = new
      <4>1. u[i].parent = p /\ p # new
        BY <1>1, <3>1
      <4>2. QED
        BY <1>1, <3>1, <4>1
    <3>2. CASE i # new
      <4>1. /\ i \in DOMAIN t \ {0} /\ u[i] = t[i] /\ t[i].parent \in DOMAIN t
            /\ r[i] = r[t[i].parent] + 1
        BY <1>1, <2>1, <2>4, <3>2, TreeFacts DEF Rooted, Ranks
      <4>2. t[i].parent # new
        BY <4>1
      <4>3. QED
        BY <1>1, <3>2, <4>1, <4>2
    <3>3. QED
      BY <3>1, <3>2
  <2>5. Ranks(u, q)
    <3> HIDE DEF q
    <3> QED BY <2>3, <2>4 DEF Ranks
  <2>6. QED
    BY <2>5
<1>7. Rooted(u)
  BY <1>1, <1>3, <1>4, <1>5, <1>6 DEF Rooted
<1>8. QED
  BY <1>2, <1>7 DEF Trees

\* vfs_mkdir makes one directory in another, if at all: never a second of a
\* name, and never one that is called "..".
LEMMA MkdirIs ==
  ASSUME NEW t \in Trees, NEW path \in Seq(Names \cup {".."}), Mkdir(t, path) # t
  PROVE  /\ AllocNode(t) \in Ids \ DOMAIN t
         /\ Resolve(t, Front(path)) \in DOMAIN t /\ Last(path) \in Names
         /\ Child(t, Resolve(t, Front(path)), Last(path)) = NONE
         /\ Mkdir(t, path) = Grown(t, AllocNode(t), Resolve(t, Front(path)), Last(path))
<1> DEFINE p == Resolve(t, Front(path))
           s == Last(path)
           new == AllocNode(t)
<1>1. Resolve(t, path) = NONE /\ p # NONE /\ new # NONE
  BY DEF Mkdir
<1>2. Mkdir(t, path) = Grown(t, new, p, s)
  BY <1>1 DEF Mkdir, Grown
<1>3. new \in Ids \ DOMAIN t
  BY <1>1, FreshId
<1>4. path # <<>>
  BY <1>1, ResolveEmpty, IdFacts
<1>5. /\ Front(path) \in Seq(Names \cup {".."}) /\ s \in Names \cup {".."}
      /\ path = Append(Front(path), s)
  BY <1>4 DEF Front, Last
<1>6. p \in DOMAIN t /\ p # NONE /\ p \in Nat
  BY <1>1, <1>5, ResolveIs, TreeFacts
<1>7. Step(t, p, s) = NONE
  BY <1>1, <1>5, ResolveAppend
<1>8. s # ".."
  <2>1. ASSUME s = ".." PROVE Step(t, p, s) # NONE
    <3>1. Step(t, p, s) = IF t[p].parent >= 0 THEN t[p].parent ELSE 0
      BY <1>6, <2>1 DEF Step
    <3>2. QED
      BY <1>6, <3>1, TreeFacts, IdFacts
  <2>2. QED
    BY <1>7, <2>1
<1>9. s \in Names /\ Child(t, p, s) = NONE
  BY <1>5, <1>6, <1>7, <1>8 DEF Step
<1>10. QED
  BY <1>2, <1>3, <1>6, <1>9

\* mkdir keeps the tree one.
LEMMA MkdirKeeps ==
  ASSUME NEW t \in Trees, NEW path \in Seq(Names \cup {".."})
  PROVE  /\ Mkdir(t, path) \in Trees
         /\ DOMAIN t \subseteq DOMAIN Mkdir(t, path)
<1>1. CASE Mkdir(t, path) = t
  BY <1>1
<1>2. CASE Mkdir(t, path) # t
  <2>1. PICK new \in Ids \ DOMAIN t, p \in DOMAIN t, s \in Names :
          Child(t, p, s) = NONE /\ Mkdir(t, path) = Grown(t, new, p, s)
    BY <1>2, MkdirIs
  <2>2. Mkdir(t, path) \in Trees
    BY <2>1, TreeGrows
  <2>3. DOMAIN Mkdir(t, path) = DOMAIN t \cup {new}
    BY <2>1 DEF Grown
  <2>4. QED
    BY <2>2, <2>3
<1>3. QED
  BY <1>1, <1>2

Shrunk(t, id) == [i \in DOMAIN t \ {id} |-> t[i]]

\* Removing a leaf keeps the tree one.
LEMMA TreeShrinks ==
  ASSUME NEW t \in Trees, NEW id \in DOMAIN t \ {0}, \A i \in DOMAIN t : t[i].parent # id,
         NEW u, u = Shrunk(t, id)
  PROVE  u \in Trees
<1>1. /\ DOMAIN u = DOMAIN t \ {id} /\ \A i \in DOMAIN u : u[i] = t[i]
      /\ u \in [DOMAIN u -> Node] /\ DOMAIN u \subseteq Ids
  BY TreeFacts DEF Shrunk
<1>2. PICK r : Ranks(t, r)
  BY TreeFacts DEF Rooted
<1> DEFINE q == [i \in DOMAIN u |-> r[i]]
<1>3. /\ 0 \in DOMAIN u /\ u[0] = [parent |-> NONE, name |-> "/"]
      /\ \A i \in DOMAIN u \ {0} : u[i].parent \in DOMAIN u /\ u[i].name \in Names
      /\ \A i, j \in DOMAIN u \ {0} : u[i].parent = u[j].parent /\ u[i].name = u[j].name => i = j
  BY <1>1, TreeFacts DEF Rooted
<1>4. Ranks(u, q)
  <2>1. q \in [DOMAIN u -> Nat] /\ q[0] = 0
    BY <1>1, <1>2, <1>3 DEF Ranks
  <2>2. ASSUME NEW i \in DOMAIN u \ {0} PROVE q[i] = q[u[i].parent] + 1
    BY <1>1, <1>2, <1>3 DEF Ranks
  <2>3. QED
    <3> HIDE DEF q
    <3> QED BY <2>1, <2>2 DEF Ranks
<1>5. Rooted(u)
  <2> HIDE DEF q
  <2> QED BY <1>3, <1>4 DEF Rooted
<1>6. QED
  BY <1>1, <1>5 DEF Trees

\* The root alone is a tree.
LEMMA RootIsTree == Root \in Trees
<1>1. DOMAIN Root = {0} /\ Root[0] = [parent |-> NONE, name |-> "/"]
  BY DEF Root
<1>2. Root \in [{0} -> Node] /\ {0} \in SUBSET Ids
  BY IdFacts DEF Root, Node
<1> DEFINE r == [i \in {0} |-> 0]
<1>3. Ranks(Root, r)
  BY <1>1 DEF Ranks
<1>4. Rooted(Root)
  <2> HIDE DEF r
  <2> QED BY <1>1, <1>3 DEF Rooted
<1>5. QED
  BY <1>2, <1>4 DEF Trees

\* The function that Fresh applies.
Made ==
  CHOOSE made : made = [k \in 0 .. Len(DefaultDirs) |->
                          IF k = 0 THEN Root ELSE Mkdir(made[k - 1], DefaultDirs[k])]

\* vfs_init makes one directory after the other, each time a tree.
LEMMA MadeIs ==
  /\ Made \in [0 .. Len(DefaultDirs) -> Trees]
  /\ Made[0] = Root
  /\ \A k \in 1 .. Len(DefaultDirs) : Made[k] = Mkdir(Made[k - 1], DefaultDirs[k])
<1> DEFINE n == Len(DefaultDirs)
           step == [k \in 1 .. n |-> [x \in Trees |-> Mkdir(x, DefaultDirs[k])]]
           Body(made) == [k \in 0 .. n |-> IF k = 0 THEN Root ELSE Mkdir(made[k - 1], DefaultDirs[k])]
<1>1. n \in Nat /\ \A k \in 1 .. n : DefaultDirs[k] \in Seq(Names \cup {".."})
  <2>1. DefaultDirs \in Seq(Seq(Names))
    BY StorageAssumption
  <2>2. \A k \in 1 .. n : DefaultDirs[k] \in Seq(Names)
    BY <2>1
  <2>3. QED
    BY <2>1, <2>2
<1>2. step \in [1 .. n -> [Trees -> Trees]]
  <2>1. \A k \in 1 .. n : \A x \in Trees : Mkdir(x, DefaultDirs[k]) \in Trees
    BY <1>1, MkdirKeeps
  <2>2. QED
    BY <2>1
<1>3. PICK f \in [0 .. n -> Trees] : f[0] = Root /\ \A k \in 1 .. n : f[k] = step[k][f[k - 1]]
  <2> HIDE DEF step, n
  <2>1. Iterates(Trees)
    BY Recursion
  <2>2. QED
    BY <1>1, <1>2, <2>1, RootIsTree DEF Iterates
<1>4. f = Body(f)
  <2>1. ASSUME NEW k \in 0 .. n PROVE f[k] = Body(f)[k]
    <3>1. CASE k = 0
      BY <1>3, <3>1
    <3>2. CASE k # 0
      <4>1. k \in 1 .. n /\ k - 1 \in 0 .. n
        BY <1>1, <3>2
      <4>2. f[k] = step[k][f[k - 1]] /\ f[k - 1] \in Trees
        BY <1>3, <4>1
      <4>3. QED
        BY <4>1, <4>2
    <3>3. QED
      BY <3>1, <3>2
  <2>2. QED
    BY <2>1
<1>5. Made = Body(Made)
  <2> HIDE DEF Body
  <2>1. Made = CHOOSE made : made = Body(made)
    BY DEF Made, Body
  <2>2. QED
    BY <1>4, <2>1
<1>6. Made[0] = Root /\ \A k \in 1 .. n : Made[k] = Mkdir(Made[k - 1], DefaultDirs[k])
  BY <1>1, <1>5
<1>7. \A k \in 0 .. n : Made[k] \in Trees
  <2> DEFINE T == {k \in 0 .. n : Made[k] \in Trees}
  <2>1. 0 \in T
    BY <1>1, <1>6, RootIsTree
  <2>2. ASSUME NEW k \in 1 .. n, k - 1 \in T PROVE k \in T
    BY <1>1, <1>6, <2>2, MkdirKeeps
  <2>3. 0 .. n \subseteq T
    <3> HIDE DEF T, n
    <3> QED BY <1>1, <2>1, <2>2, UpTo
  <2>4. QED
    BY <2>3
<1>8. DOMAIN Made = 0 .. n
  BY <1>5
<1>9. QED
  BY <1>5, <1>6, <1>7, <1>8

\* The default tree is one.
LEMMA FreshIsTree == Fresh \in Trees
<1>1. Fresh = Made[Len(DefaultDirs)]
  BY DEF Fresh, Made
<1>2. QED
  BY <1>1, MadeIs, IdFacts

(* The image *)

Images == {NoImage, BadHeader} \cup [node_count : Nat, file_count : Nat, recs : Trees \cup {<<>>}]

\* The function that Loaded applies.
From ==
  CHOOSE from : from = [k \in 0 .. VFS_MAX_NODES |->
                          IF k = 0 THEN Fresh ELSE LoadRecord(from[k - 1], k - 1)]

\* One record of an image keeps the tree one.
LEMMA RecordKeeps ==
  ASSUME image \in Images, NEW t \in Trees, NEW id
  PROVE  LoadRecord(t, id) \in Trees
<1> DEFINE r == image.recs[id]
<1>1. CASE id = 0 \/ id \notin DOMAIN image.recs
  BY <1>1 DEF LoadRecord
<1>2. CASE ~(id = 0 \/ id \notin DOMAIN image.recs)
  <2>1. image.recs \in Trees
    <3>1. DOMAIN image.recs # {}
      BY <1>2
    <3>2. image.recs \in Trees \cup {<<>>}
      BY DEF Images, NoImage, BadHeader
    <3>3. QED
      BY <3>1, <3>2
  <2>2. r.parent \in Places /\ r.name \in Names
    BY <1>2, <2>1, TreeFacts DEF Rooted, Places
  <2>3. NodePath(t, r.parent) \in Seq(Names)
    <3> HIDE DEF r
    <3> QED BY <2>2, UpwardsIs, IdFacts DEF NodePath
  <2>4. Append(IF r.parent < 0 THEN <<>> ELSE NodePath(t, r.parent), r.name) \in Seq(Names \cup {".."})
    <3> HIDE DEF r
    <3>1. <<>> \in Seq(Names)
      OBVIOUS
    <3>2. QED BY <2>2, <2>3, <3>1
  <2>5. LoadRecord(t, id) = Mkdir(t, Append(IF r.parent < 0 THEN <<>> ELSE NodePath(t, r.parent), r.name))
    BY <1>2 DEF LoadRecord
  <2>6. QED
    <3> HIDE DEF r
    <3> QED BY <2>4, <2>5, MkdirKeeps
<1>3. QED
  BY <1>1, <1>2

\* vfs_persist_load reads one record after the other, each time a tree.
LEMMA FromIs ==
  ASSUME image \in Images
  PROVE  /\ From \in [0 .. VFS_MAX_NODES -> Trees]
         /\ From[0] = Fresh
         /\ \A k \in 1 .. VFS_MAX_NODES : From[k] = LoadRecord(From[k - 1], k - 1)
<1> DEFINE n == VFS_MAX_NODES
           step == [k \in 1 .. n |-> [x \in Trees |-> LoadRecord(x, k - 1)]]
           Body(from) == [k \in 0 .. n |-> IF k = 0 THEN Fresh ELSE LoadRecord(from[k - 1], k - 1)]
<1>1. n \in Nat
  BY IdFacts
<1>2. step \in [1 .. n -> [Trees -> Trees]]
  BY RecordKeeps
<1>3. PICK f \in [0 .. n -> Trees] : f[0] = Fresh /\ \A k \in 1 .. n : f[k] = step[k][f[k - 1]]
  <2> HIDE DEF step, n
  <2>1. Iterates(Trees)
    BY Recursion
  <2>2. QED
    BY <1>1, <1>2, <2>1, FreshIsTree DEF Iterates
<1>4. f = Body(f)
  <2>1. ASSUME NEW k \in 0 .. n PROVE f[k] = Body(f)[k]
    <3>1. CASE k = 0
      BY <1>3, <3>1
    <3>2. CASE k # 0
      <4>1. k \in 1 .. n /\ k - 1 \in 0 .. n
        BY <1>1, <3>2
      <4>2. f[k] = step[k][f[k - 1]] /\ f[k - 1] \in Trees
        BY <1>3, <4>1
      <4>3. QED
        BY <4>1, <4>2
    <3>3. QED
      BY <3>1, <3>2
  <2>2. QED
    BY <2>1
<1>5. From = Body(From)
  <2> HIDE DEF Body
  <2>1. From = CHOOSE from : from = Body(from)
    BY DEF From, Body
  <2>2. QED
    BY <1>4, <2>1
<1>6. From[0] = Fresh /\ \A k \in 1 .. n : From[k] = LoadRecord(From[k - 1], k - 1)
  BY <1>1, <1>5
<1>7. \A k \in 0 .. n : From[k] \in Trees
  <2> DEFINE T == {k \in 0 .. n : From[k] \in Trees}
  <2>1. 0 \in T
    BY <1>1, <1>6, FreshIsTree
  <2>2. ASSUME NEW k \in 1 .. n, k - 1 \in T PROVE k \in T
    BY <1>1, <1>6, <2>2, RecordKeeps
  <2>3. 0 .. n \subseteq T
    <3> HIDE DEF T, n
    <3> QED BY <1>1, <2>1, <2>2, UpTo
  <2>4. QED
    BY <2>3
<1>8. DOMAIN From = 0 .. n
  BY <1>5
<1>9. QED
  BY <1>5, <1>6, <1>7, <1>8

\* Whatever the image holds, a load ends in a tree.
LEMMA LoadKeepsTree ==
  ASSUME image \in Images, NEW t \in Trees
  PROVE  Loaded \in Trees /\ AfterLoad(t) \in Trees
<1>1. Loaded = From[VFS_MAX_NODES]
  BY DEF Loaded, From
<1>2. Loaded \in Trees
  BY <1>1, FromIs, IdFacts
<1>3. QED
  BY <1>2, FreshIsTree DEF AfterLoad

------------------------------------------------------------------------------
(* Files and permissions *)

Segment == Names \cup FileNames \cup {"/"}
Given == Seq(Segment) \ {<<>>}

File == [name : Seq(Segment), data : Data, owner : Users]
Entry == [resource : Seq(Segment), owner : Users]

StorageTypes ==
  /\ nodes \in Trees /\ cwd \in DOMAIN nodes /\ image \in Images
  /\ files \in [1 .. MAX_FILES -> File \cup {NoFile}]
  /\ perms \in [1 .. MAX_PERM_ENTRIES -> Entry \cup {NoEntry}]

\* The first place found is one of those found.
LEMMA FirstIs ==
  ASSUME NEW S, S \subseteq Nat
  PROVE  /\ First(S) = NONE <=> S = {}
         /\ First(S) # NONE => First(S) \in S
<1>1. CASE S = {}
  BY <1>1 DEF First
<1>2. CASE S # {}
  <2>1. PICK n \in S : \A m \in S : n <= m
    BY <1>2, LeastNatural
  <2>2. Min(S) \in S
    BY <2>1 DEF Min
  <2>3. QED
    BY <1>2, <2>2, IdFacts DEF First
<1>3. QED
  BY <1>1, <1>2

\* What is no file or entry has no owner.
LEMMA Unowned ==
  /\ NoFile \notin File /\ NoEntry \notin Entry
BY StorageAssumption DEF NoFile, NoEntry, File, Entry, NONE

\* A name that was cut is as long as names may be; the others stay as they are.
LEMMA CutIs ==
  ASSUME NEW name \in Given
  PROVE  /\ Cut(name) \in Seq(Segment)
         /\ Len(Cut(name)) < NAME_LEN => Cut(name) = name
<1>1. Len(name) \in Nat /\ NAME_LEN \in Nat /\ name \in Seq(Segment)
  BY StorageAssumption DEF Given
<1>2. CASE Len(name) < NAME_LEN
  <2>1. Cut(name) = SubSeq(name, 1, Len(name))
    BY <1>2 DEF Cut
  <2>2. SubSeq(name, 1, Len(name)) = name
    BY <1>1
  <2>3. QED
    BY <1>1, <2>1, <2>2
<1>3. CASE ~(Len(name) < NAME_LEN)
  <2>1. Cut(name) = SubSeq(name, 1, NAME_LEN)
    BY <1>3 DEF Cut
  <2>2. SubSeq(name, 1, NAME_LEN) \in Seq(Segment) /\ Len(SubSeq(name, 1, NAME_LEN)) = NAME_LEN
    BY <1>1, <1>3
  <2>3. QED
    BY <1>1, <2>1, <2>2
<1>4. QED
  BY <1>2, <1>3

\* What the searches of filesystem.c and perms.c return.
LEMMA Found ==
  ASSUME StorageTypes, NEW name
  PROVE  /\ FindFile(name) # NONE =>
              FindFile(name) \in 1 .. MAX_FILES /\ files[FindFile(name)] \in File
              /\ files[FindFile(name)].name = name
         /\ FindFile(name) = NONE => \A i \in 1 .. MAX_FILES : files[i] # NoFile => files[i].name # name
         /\ FreeFile # NONE => FreeFile \in 1 .. MAX_FILES
         /\ FindEntry(name) # NONE =>
              FindEntry(name) \in 1 .. MAX_PERM_ENTRIES /\ perms[FindEntry(name)] \in Entry
              /\ perms[FindEntry(name)].resource = name
         /\ FindEntry(name) = NONE =>
              \A i \in 1 .. MAX_PERM_ENTRIES : perms[i] # NoEntry => perms[i].resource # name
         /\ FreeEntry # NONE => FreeEntry \in 1 .. MAX_PERM_ENTRIES /\ perms[FreeEntry] = NoEntry
<1> DEFINE A == {i \in DOMAIN files : files[i] # NoFile /\ files[i].name = name}
           B == {i \in DOMAIN files : files[i] = NoFile}
           C == {i \in DOMAIN perms : perms[i] # NoEntry /\ perms[i].resource = name}
           D == {i \in DOMAIN perms : perms[i] = NoEntry}
<1>1. /\ DOMAIN files = 1 .. MAX_FILES /\ \A i \in DOMAIN files : files[i] # NoFile => files[i] \in File
      /\ DOMAIN perms = 1 .. MAX_PERM_ENTRIES
      /\ \A i \in DOMAIN perms : perms[i] # NoEntry => perms[i] \in Entry
  BY DEF StorageTypes
<1>2. A \subseteq Nat /\ B \subseteq Nat /\ C \subseteq Nat /\ D \subseteq Nat
  BY <1>1
<1>3. FindFile(name) = First(A) /\ FreeFile = First(B) /\ FindEntry(name) = First(C) /\ FreeEntry = First(D)
  BY DEF FindFile, FreeFile, FindEntry, FreeEntry
<1>4. /\ First(A) = NONE <=> A = {}
      /\ First(A) # NONE => First(A) \in A
      /\ First(B) # NONE => First(B) \in B
      /\ First(C) = NONE <=> C = {}
      /\ First(C) # NONE => First(C) \in C
      /\ First(D) # NONE => First(D) \in D
  <2> HIDE DEF A, B, C, D
  <2> QED BY <1>2, FirstIs
<1>5. QED
  BY <1>1, <1>3, <1>4

\* perms_register touches one entry at most: the one that decides about the
\* name, or a free one when there is none.
LEMMA RegisteredIs ==
  ASSUME StorageTypes, NEW name \in Given, NEW uid \in Users
  PROVE  Registered(name, uid) \in [1 .. MAX_PERM_ENTRIES -> Entry \cup {NoEntry}]
<1>1. perms \in [1 .. MAX_PERM_ENTRIES -> Entry \cup {NoEntry}]
  BY DEF StorageTypes
<1>2. [resource |-> Cut(name), owner |-> uid] \in Entry
  BY CutIs DEF Entry
<1>3. CASE FindEntry(name) # NONE
  <2> DEFINE k == FindEntry(name)
  <2>1. k \in 1 .. MAX_PERM_ENTRIES /\ perms[k] \in Entry
    BY <1>3, Found
  <2>2. [perms[k] EXCEPT !.owner = uid] \in Entry
    BY <2>1 DEF Entry
  <2>3. Registered(name, uid) = [perms EXCEPT ![k] = [perms[k] EXCEPT !.owner = uid]]
    BY <1>3 DEF Registered
  <2>4. QED
    <3> HIDE DEF k
    <3> QED BY <1>1, <2>2, <2>3
<1>4. CASE FindEntry(name) = NONE
  <2>1. Registered(name, uid) \in {[perms EXCEPT ![FreeEntry] = [resource |-> Cut(name), owner |-> uid]], perms}
    BY <1>4 DEF Registered
  <2>2. QED
    BY <1>1, <1>2, <2>1
<1>5. QED
  BY <1>3, <1>4

\* What a user may ask of the file system.
LEMMA Actions ==
  ASSUME StorageTypes, StorageNext
  PROVE  \/ \E path \in Seq(Names \cup {".."}) : VfsMkdir(path) \/ VfsRmdir(path) \/ VfsChdir(path)
         \/ \E name \in Given, d \in Data, u \in Users : FsCreate(name, d, u)
         \/ \E name \in Given, u \in Users : FsDelete(name, u)
         \/ Save \/ Load \/ Boot
<1>1. NodePath(nodes, cwd) \in Seq(Names)
  <2>1. cwd \in Places /\ nodes \in Trees
    BY TreeFacts DEF StorageTypes, Places
  <2>2. QED
    BY <2>1, UpwardsIs, IdFacts DEF NodePath
<1>2. \A p \in Paths : p \in Seq(Names \cup {".."})
  <2> TAKE p \in Paths
  <2>1. PICK m \in 0 .. PathBound : p \in [1 .. m -> Names \cup {".."}]
    BY DEF Paths, BoundedSeq, SeqOf
  <2>2. PathBound \in Nat
    BY StorageAssumption
  <2>3. m \in Nat
    BY <2>1, <2>2
  <2>4. QED
    BY <2>1, <2>3
<1>3. \A input \in Inputs : AbsoluteOf(input) \in Seq(Names \cup {".."})
  <2> TAKE input \in Inputs
  <2>1. PICK p \in Paths : input = <<TRUE, p>> \/ input = <<FALSE, p>>
    BY DEF Inputs
  <2>2. NodePath(nodes, cwd) \o p \in Seq(Names \cup {".."}) /\ p \in Seq(Names \cup {".."})
    <3>1. NodePath(nodes, cwd) \in Seq(Names \cup {".."}) /\ p \in Seq(Names \cup {".."})
      BY <1>1, <1>2
    <3>2. QED
      BY <3>1
  <2>3. CASE input = <<TRUE, p>>
    <3>1. AbsoluteOf(input) = p
      BY <2>3 DEF AbsoluteOf
    <3>2. QED
      BY <2>2, <3>1
  <2>4. CASE input = <<FALSE, p>>
    <3>1. AbsoluteOf(input) = NodePath(nodes, cwd) \o p
      BY <2>4 DEF AbsoluteOf, Absolute
    <3>2. QED
      BY <2>2, <3>1
  <2>5. QED
    BY <2>1, <2>3, <2>4
<1>4. \A n \in FileNames : <<n>> \in Given /\ Key(Absolute(<<n>>)) \in Given
  <2> TAKE n \in FileNames
  <2>1. <<n>> \in Seq(Segment) /\ <<n>> # <<>>
    BY DEF Segment
  <2>2. NodePath(nodes, cwd) \in Seq(Segment)
    BY <1>1 DEF Segment
  <2>3. Absolute(<<n>>) \in Seq(Segment)
    BY <2>1, <2>2 DEF Absolute
  <2>4. <<"/">> \in Seq(Segment) /\ Len(<<"/">>) = 1
    BY DEF Segment
  <2>5. Key(Absolute(<<n>>)) \in Seq(Segment) /\ Len(Key(Absolute(<<n>>))) >= 1
    BY <2>3, <2>4 DEF Key
  <2>6. QED
    BY <2>1, <2>5 DEF Given
<1>5. 0 \in Users
  BY StorageAssumption
<1>6. QED
  BY <1>3, <1>4, <1>5 DEF StorageNext, VfsWrite, VfsDelete

\* The initial state.
LEMMA StorageStarts ==
  ASSUME StorageInit
  PROVE  StorageTypes /\ PermissionsFollowOwner
<1>1. 0 \in DOMAIN Fresh
  BY FreshIsTree, TreeFacts DEF Rooted
<1>2. StorageTypes
  BY <1>1, FreshIsTree DEF StorageInit, StorageTypes, NoFiles, NoPerms, Images
<1>3. PermissionsFollowOwner
  BY DEF StorageInit, PermissionsFollowOwner, NoFiles
<1>4. QED
  BY <1>2, <1>3

\* A new file: the entry that decides about it is registered for its owner, and
\* no other file has its name.
LEMMA Created ==
  ASSUME StorageTypes, PermissionsFollowOwner, NEW name \in Given, NEW d \in Data, NEW u \in Users,
         NewFile(name, d, u)
  PROVE  /\ files' \in [1 .. MAX_FILES -> File \cup {NoFile}]
         /\ perms' \in [1 .. MAX_PERM_ENTRIES -> Entry \cup {NoEntry}]
         /\ PermissionsFollowOwner'
<1> DEFINE slot == FreeFile
           new == [name |-> Cut(name), data |-> d, owner |-> u]
<1>1. /\ FindFile(name) = NONE /\ slot \in 1 .. MAX_FILES
      /\ files' = [files EXCEPT ![slot] = new] /\ perms' = Registered(name, u)
  BY Found DEF NewFile
<1>2. new \in File
  BY CutIs DEF File
<1>3. files' \in [1 .. MAX_FILES -> File \cup {NoFile}]
  BY <1>1, <1>2 DEF StorageTypes
<1>4. perms' \in [1 .. MAX_PERM_ENTRIES -> Entry \cup {NoEntry}]
  BY <1>1, RegisteredIs
<1>5. \A i \in 1 .. MAX_FILES : i # slot => files'[i] = files[i] /\ (files[i] # NoFile => files[i].name # name)
  BY <1>1, Found DEF StorageTypes
<1>6. files'[slot] = new
  BY <1>1 DEF StorageTypes
<1> DEFINE Holds(n) == {k \in 1 .. MAX_PERM_ENTRIES : perms[k] # NoEntry /\ perms[k].resource = n}
           Held(n) == {k \in 1 .. MAX_PERM_ENTRIES : perms'[k] # NoEntry /\ perms'[k].resource = n}
<1>7. /\ \A n : FindEntry(n) = First(Holds(n))
      /\ \A n : FindEntry(n)' = First(Held(n))
  BY <1>4 DEF FindEntry, StorageTypes
\* Entries of other names stay, and the one of this name is its owner's.
<1>8. ASSUME NEW n, Len(n) < NAME_LEN
      PROVE  /\ n # name => Held(n) = Holds(n) /\ \A k \in Holds(n) : perms'[k].owner = perms[k].owner
             /\ n = name => \A k \in Held(n) : k = First(Held(n)) => perms'[k].owner = u
  <2>1. CASE FindEntry(name) # NONE
    <3> DEFINE e == FindEntry(name)
    <3>1. e \in 1 .. MAX_PERM_ENTRIES /\ perms[e] \in Entry /\ perms[e].resource = name
      BY <2>1, Found
    <3>2. perms' = [perms EXCEPT ![e].owner = u]
      BY <1>1, <2>1 DEF Registered
    <3>3. perms'[e] = [perms[e] EXCEPT !.owner = u] /\ \A k \in 1 .. MAX_PERM_ENTRIES \ {e} : perms'[k] = perms[k]
      BY <3>1, <3>2 DEF StorageTypes
    <3>4. perms'[e] \in Entry /\ perms'[e].resource = name /\ perms'[e].owner = u
      BY <3>1, <3>3 DEF Entry
    <3>5. \A m : Held(m) = Holds(m)
      <4>1. perms'[e] # NoEntry /\ perms[e] # NoEntry
        BY <3>1, <3>4, Unowned
      <4>2. \A k \in 1 .. MAX_PERM_ENTRIES : /\ perms'[k] # NoEntry <=> perms[k] # NoEntry
                                            /\ perms'[k].resource = perms[k].resource
        BY <3>1, <3>3, <3>4, <4>1
      <4>3. QED
        BY <4>2
    <3>6. First(Held(name)) = e
      BY <1>7, <3>5
    <3>7. QED
      <4>1. n # name => \A k \in Holds(n) : perms'[k].owner = perms[k].owner
        BY <3>1, <3>3
      <4>2. n = name => \A k \in Held(n) : k = First(Held(n)) => perms'[k].owner = u
        BY <3>4, <3>6
      <4>3. QED
        BY <3>5, <4>1, <4>2
  <2>2. CASE FindEntry(name) = NONE /\ FreeEntry # NONE
    <3> DEFINE e == FreeEntry
    <3>1. e \in 1 .. MAX_PERM_ENTRIES /\ perms[e] = NoEntry
      BY <2>2, Found
    <3>2. perms' = [perms EXCEPT ![e] = [resource |-> Cut(name), owner |-> u]]
      BY <1>1, <2>2 DEF Registered
    <3>3. /\ perms'[e] = [resource |-> Cut(name), owner |-> u]
          /\ \A k \in 1 .. MAX_PERM_ENTRIES \ {e} : perms'[k] = perms[k]
      BY <3>1, <3>2 DEF StorageTypes
    <3>4. perms'[e] # NoEntry
      <4>1. perms'[e] \in Entry
        BY <3>3, CutIs DEF Entry
      <4>2. QED
        BY <4>1, Unowned
    <3>5. Cut(name) = n => name = n
      BY <1>8, CutIs
    <3>6. n # name => Held(n) = Holds(n) /\ \A k \in Holds(n) : perms'[k].owner = perms[k].owner
      BY <3>1, <3>3, <3>4, <3>5
    <3>7. \A k \in 1 .. MAX_PERM_ENTRIES : perms[k] # NoEntry => perms[k].resource # name
      BY <2>2, Found
    <3>8. n = name => \A k \in Held(n) : k = e
      BY <3>3, <3>7
    <3>9. QED
      BY <3>3, <3>6, <3>8
  <2>3. CASE FindEntry(name) = NONE /\ FreeEntry = NONE
    <3>1. perms' = perms
      BY <1>1, <2>3 DEF Registered
    <3>2. \A k \in 1 .. MAX_PERM_ENTRIES : perms[k] # NoEntry => perms[k].resource # name
      BY <2>3, Found
    <3>3. QED
      BY <3>1, <3>2
  <2>4. QED
    BY <2>1, <2>2, <2>3
<1>9. ASSUME NEW i \in 1 .. MAX_FILES, NEW n, n = files'[i].name,
             files'[i] # NoFile, Len(n) < NAME_LEN, FindEntry(n)' # NONE
      PROVE  perms'[FindEntry(n)'].owner = files'[i].owner
  <2>1. First(Held(n)) \in Held(n) /\ FindEntry(n)' = First(Held(n))
    <3>1. Held(n) \subseteq Nat
      OBVIOUS
    <3>2. QED
      <4> HIDE DEF Held
      <4> QED BY <1>7, <1>9, <3>1, FirstIs
  <2>2. CASE i = slot
    <3>1. n = Cut(name) /\ files'[i].owner = u
      BY <1>6, <1>9, <2>2
    <3>2. n = name
      BY <1>9, <3>1, CutIs
    <3>3. QED
      <4> HIDE DEF Held, Holds, slot, new
      <4> QED BY <1>8, <1>9, <2>1, <3>1, <3>2
  <2>3. CASE i # slot
    <3>1. files'[i] = files[i] /\ n # name
      BY <1>5, <1>9, <2>3
    <3>2. Held(n) = Holds(n) /\ \A k \in Holds(n) : perms'[k].owner = perms[k].owner
      <4> HIDE DEF Held, Holds, slot, new
      <4> QED BY <1>8, <1>9, <3>1
    <3>3. FindEntry(n) = First(Held(n)) /\ FindEntry(n) # NONE
      <4> HIDE DEF Held, Holds, slot, new
      <4> QED BY <1>7, <1>9, <2>1, <3>2
    <3>4. perms[FindEntry(n)].owner = files[i].owner
      BY <1>9, <3>1, <3>3 DEF PermissionsFollowOwner, StorageTypes
    <3>5. QED
      <4> HIDE DEF Held, Holds, slot, new
      <4> QED BY <2>1, <3>1, <3>2, <3>3, <3>4
  <2>4. QED
    BY <2>2, <2>3
<1>10. PermissionsFollowOwner'
  BY <1>3, <1>9 DEF PermissionsFollowOwner
<1>11. QED
  BY <1>3, <1>4, <1>10

\* fs_create, whether it makes the file or overwrites it.
LEMMA CreateKeeps ==
  ASSUME StorageTypes, PermissionsFollowOwner, NEW name \in Given, NEW d \in Data, NEW u \in Users,
         FsCreate(name, d, u)
  PROVE  StorageTypes' /\ PermissionsFollowOwner'
<1>1. UNCHANGED <<nodes, cwd, image>>
  BY DEF FsCreate
<1>2. CASE NewFile(name, d, u)
  BY <1>1, <1>2, Created DEF StorageTypes
<1>3. CASE Overwrite(name, d, u)
  <2> DEFINE k == FindFile(name)
  <2>1. /\ k \in 1 .. MAX_FILES /\ files[k] \in File
        /\ files' = [files EXCEPT ![k].data = d] /\ perms' = perms
    BY <1>3, Found DEF Overwrite
  <2>2. /\ files'[k] = [files[k] EXCEPT !.data = d] /\ \A i \in 1 .. MAX_FILES \ {k} : files'[i] = files[i]
        /\ DOMAIN files' = 1 .. MAX_FILES /\ files' = [i \in 1 .. MAX_FILES |-> files'[i]]
    BY <2>1 DEF StorageTypes
  <2>3. files'[k] \in File /\ files'[k].name = files[k].name /\ files'[k].owner = files[k].owner
    BY <2>1, <2>2 DEF File
  <2>4. StorageTypes'
    BY <1>1, <2>1, <2>2, <2>3 DEF StorageTypes
  <2>5. \A i \in 1 .. MAX_FILES : files'[i] # NoFile =>
           files[i] # NoFile /\ files'[i].name = files[i].name /\ files'[i].owner = files[i].owner
    BY <2>1, <2>2, <2>3, Unowned
  <2>6. \A n : FindEntry(n)' = FindEntry(n)
    BY <2>1 DEF FindEntry
  <2>7. PermissionsFollowOwner'
    <3> HIDE DEF k
    <3>1. DOMAIN files = 1 .. MAX_FILES
      BY DEF StorageTypes
    <3>2. ASSUME NEW i \in 1 .. MAX_FILES, NEW n, n = files'[i].name,
                 files'[i] # NoFile, Len(n) < NAME_LEN, FindEntry(n)' # NONE
          PROVE  perms'[FindEntry(n)'].owner = files'[i].owner
      BY <2>1, <2>5, <2>6, <3>1, <3>2 DEF PermissionsFollowOwner
    <3>3. QED
      BY <2>2, <3>2 DEF PermissionsFollowOwner
  <2>8. QED
    BY <2>4, <2>7
<1>4. QED
  BY <1>2, <1>3 DEF FsCreate

\* fs_delete leaves the entry behind; no file has that name any longer.
LEMMA DeleteKeeps ==
  ASSUME StorageTypes, PermissionsFollowOwner, NEW name \in Given, NEW u \in Users, FsDelete(name, u)
  PROVE  StorageTypes' /\ PermissionsFollowOwner'
<1> DEFINE k == FindFile(name)
<1>1. /\ k \in 1 .. MAX_FILES /\ files' = [files EXCEPT ![k] = NoFile]
      /\ UNCHANGED <<nodes, cwd, perms, image>>
  BY Found DEF FsDelete
<1>2. StorageTypes'
  BY <1>1 DEF StorageTypes
<1>3. \A i \in 1 .. MAX_FILES : files'[i] # NoFile => files'[i] = files[i]
  BY <1>1 DEF StorageTypes
<1>4. \A n : FindEntry(n)' = FindEntry(n)
  BY <1>1 DEF FindEntry
<1>5. PermissionsFollowOwner'
  <2> HIDE DEF k
  <2>1. DOMAIN files = 1 .. MAX_FILES /\ DOMAIN files' = 1 .. MAX_FILES
    BY <1>2 DEF StorageTypes
  <2>2. ASSUME NEW i \in 1 .. MAX_FILES, NEW n, n = files'[i].name,
               files'[i] # NoFile, Len(n) < NAME_LEN, FindEntry(n)' # NONE
        PROVE  perms'[FindEntry(n)'].owner = files'[i].owner
    BY <1>1, <1>3, <1>4, <2>1, <2>2 DEF PermissionsFollowOwner
  <2>3. QED
    BY <2>1, <2>2 DEF PermissionsFollowOwner
<1>6. QED
  BY <1>2, <1>5

\* With no files there is nobody to follow.
LEMMA NothingToFollow ==
  ASSUME files' = NoFiles
  PROVE  PermissionsFollowOwner'
BY DEF PermissionsFollowOwner, NoFiles

\* Actions on the tree touch no file.
LEMMA FilesStay ==
  ASSUME PermissionsFollowOwner, UNCHANGED <<files, perms>>
  PROVE  PermissionsFollowOwner'
BY DEF PermissionsFollowOwner, FindEntry

\* Actions on the tree keep it one, and the working directory in it.
LEMMA TreeKeeps ==
  ASSUME StorageTypes, RemovesRoot = FALSE, NEW path \in Seq(Names \cup {".."}),
         VfsMkdir(path) \/ VfsRmdir(path) \/ VfsChdir(path)
  PROVE  StorageTypes' /\ UNCHANGED <<files, perms>>
<1>1. nodes \in Trees /\ cwd \in DOMAIN nodes /\ 0 \in DOMAIN nodes
  BY TreeFacts DEF StorageTypes, Rooted
<1>2. CASE VfsMkdir(path)
  BY <1>1, <1>2, MkdirKeeps DEF VfsMkdir, StorageTypes
<1>3. CASE VfsRmdir(path)
  <2> DEFINE id == Resolve(nodes, path)
  <2>1. /\ id \in DOMAIN nodes \ {0} /\ \A i \in DOMAIN nodes : nodes[i].parent # id
        /\ nodes' = Shrunk(nodes, id)
        /\ cwd' = IF cwd = id THEN 0 ELSE cwd
        /\ UNCHANGED <<files, perms, image>>
    BY <1>3 DEF VfsRmdir, Shrunk
  <2>2. nodes' \in Trees
    <3> HIDE DEF id
    <3> QED BY <1>1, <2>1, TreeShrinks
  <2>3. cwd' \in DOMAIN nodes'
    BY <1>1, <2>1 DEF Shrunk
  <2>4. QED
    BY <2>1, <2>2, <2>3 DEF StorageTypes
<1>4. CASE VfsChdir(path)
  BY <1>4 DEF VfsChdir, StorageTypes
<1>5. QED
  BY <1>2, <1>3, <1>4

\* The header's counts are counts.
LEMMA CountsAre ==
  ASSUME StorageTypes
  PROVE  IsFiniteSet(DOMAIN nodes) /\ Cardinality(DOMAIN nodes) \in Nat /\ FsCount \in Nat
<1>1. IsFiniteSet(DOMAIN nodes)
  <2>1. DOMAIN nodes \subseteq Ids
    BY TreeFacts DEF StorageTypes
  <2>2. IsFiniteSet(Ids)
    BY IdFacts, FS_Interval DEF Ids
  <2>3. QED
    BY <2>1, <2>2, FS_Subset
<1>2. IsFiniteSet({i \in DOMAIN files : files[i] # NoFile})
  <2>1. IsFiniteSet(1 .. MAX_FILES)
    BY StorageAssumption, FS_Interval
  <2>2. {i \in DOMAIN files : files[i] # NoFile} \subseteq 1 .. MAX_FILES
    BY DEF StorageTypes
  <2>3. QED
    BY <2>1, <2>2, FS_Subset
<1>3. Cardinality(DOMAIN nodes) \in Nat /\ FsCount \in Nat
  BY <1>1, <1>2, FS_CardinalityType DEF FsCount
<1>4. QED
  BY <1>1, <1>3

\* A save leaves an image of the tree, or of none of it.
LEMMA SaveKeepsTypes ==
  ASSUME StorageTypes, Save
  PROVE  StorageTypes'
<1>1. image' \in Images
  BY CountsAre DEF Save, Images, StorageTypes
<1>2. QED
  BY <1>1 DEF Save, StorageTypes

\* A load or a restart ends in a tree without files.
LEMMA LoadKeepsTypes ==
  ASSUME StorageTypes, Load \/ Boot
  PROVE  StorageTypes' /\ files' = NoFiles
<1>1. nodes \in Trees /\ image \in Images
  BY DEF StorageTypes
<1>2. AfterLoad(nodes) \in Trees /\ AfterLoad(Fresh) \in Trees
  BY <1>1, LoadKeepsTree, FreshIsTree
<1>3. nodes' \in Trees /\ cwd' = 0 /\ image' = image /\ files' = NoFiles /\ perms' \in {perms, NoPerms}
  BY <1>2 DEF Load, Boot
<1>4. 0 \in DOMAIN nodes'
  BY <1>3, TreeFacts DEF Rooted
<1>5. NoFiles \in [1 .. MAX_FILES -> File \cup {NoFile}] /\ NoPerms \in [1 .. MAX_PERM_ENTRIES -> Entry \cup {NoEntry}]
  BY DEF NoFiles, NoPerms
<1>6. QED
  BY <1>1, <1>3, <1>4, <1>5 DEF StorageTypes

\* The two invariants together are inductive.
LEMMA StorageStep ==
  ASSUME RemovesRoot = FALSE, StorageTypes, PermissionsFollowOwner, [StorageNext]_storageVars
  PROVE  StorageTypes' /\ PermissionsFollowOwner'
<1>1. CASE UNCHANGED storageVars
  <2>1. UNCHANGED <<nodes, cwd, files, perms, image>>
    BY <1>1 DEF storageVars
  <2>2. QED
    BY <2>1, FilesStay DEF StorageTypes
<1>2. CASE StorageNext
  <2>1. CASE \E path \in Seq(Names \cup {".."}) : VfsMkdir(path) \/ VfsRmdir(path) \/ VfsChdir(path)
    BY <2>1, TreeKeeps, FilesStay
  <2>2. CASE \E name \in Given, d \in Data, u \in Users : FsCreate(name, d, u)
    BY <2>2, CreateKeeps
  <2>3. CASE \E name \in Given, u \in Users : FsDelete(name, u)
    BY <2>3, DeleteKeeps
  <2>4. CASE Save
    BY <2>4, SaveKeepsTypes, FilesStay DEF Save
  <2>5. CASE Load \/ Boot
    BY <2>5, LoadKeepsTypes, NothingToFollow
  <2>6. QED
    BY <1>2, <2>1, <2>2, <2>3, <2>4, <2>5, Actions
<1>3. QED
  BY <1>1, <1>2

\* The entry of perms.c that decides about a file is its owner's, for tables of
\* any size: fs_create registers what perms_register finds by name, and no
\* deletion, load or restart leaves the old owner in charge of a new file.
THEOREM PermissionsCorrect ==
  ASSUME RemovesRoot = FALSE
  PROVE  StorageSpec => []PermissionsFollowOwner
<1>1. StorageTypes /\ PermissionsFollowOwner /\ [StorageNext]_storageVars
        => StorageTypes' /\ PermissionsFollowOwner'
  BY StorageStep
<1>2. StorageInit => StorageTypes /\ PermissionsFollowOwner
  BY StorageStarts
<1>3. QED
  BY <1>1, <1>2, PTL DEF StorageSpec

\* In a tree every node is found under its path.
LEMMA TypesTellPaths ==
  ASSUME StorageTypes
  PROVE  EveryNodeHasItsPath
BY TreePaths, TreeFacts DEF StorageTypes, Rooted, EveryNodeHasItsPath

\* Whatever was made, removed, saved and loaded, every node of vfs.c is found
\* under its path and its parent is in use, for a table of any size.
THEOREM PathsCorrect ==
  ASSUME RemovesRoot = FALSE
  PROVE  StorageSpec => []EveryNodeHasItsPath
<1>1. StorageTypes /\ PermissionsFollowOwner /\ [StorageNext]_storageVars
        => StorageTypes' /\ PermissionsFollowOwner'
  BY StorageStep
<1>2. StorageInit => StorageTypes /\ PermissionsFollowOwner
  BY StorageStarts
<1>3. StorageTypes => EveryNodeHasItsPath
  BY TypesTellPaths
<1>4. QED
  BY <1>1, <1>2, <1>3, PTL DEF StorageSpec

------------------------------------------------------------------------------
(* The tree is saved and loaded *)

Path(t, i) == Upwards(t, i, VFS_MAX_NODES)

\* The way up ends at the root: no look beyond it finds more.
LEMMA WayEnds ==
  ASSUME NEW t \in Trees, NEW r, Ranks(t, r), NEW i \in DOMAIN t, NEW d \in Nat, r[i] <= d
  PROVE  Upwards(t, i, d) = Upwards(t, i, r[i]) /\ Len(Upwards(t, i, d)) = r[i]
<1> DEFINE Ends(k) == \A j \in DOMAIN t : r[j] = k =>
                        \A e \in Nat : k <= e => /\ Upwards(t, j, e) = Upwards(t, j, k)
                                                /\ Len(Upwards(t, j, e)) = k
           T == {k \in 0 .. r[i] : Ends(k)}
<1>1. /\ \A j \in DOMAIN t : r[j] \in Nat /\ j \in Places
      /\ \A j \in DOMAIN t \ {0} : t[j].parent \in DOMAIN t /\ r[j] = r[t[j].parent] + 1
  BY TreeFacts DEF Ranks, Rooted, Places
<1>2. 0 \in T
  <2>1. ASSUME NEW j \in DOMAIN t, r[j] = 0 PROVE j = 0
    BY <1>1, <2>1
  <2>2. \A e \in Nat : Upwards(t, 0, e) = <<>>
    BY UpwardsRoot
  <2>3. QED
    BY <1>1, <2>1, <2>2
<1>3. ASSUME NEW k \in 1 .. r[i], k - 1 \in T PROVE k \in T
  <2>1. ASSUME NEW j \in DOMAIN t, r[j] = k, NEW e \in Nat, k <= e
        PROVE  Upwards(t, j, e) = Upwards(t, j, k) /\ Len(Upwards(t, j, e)) = k
    <3> DEFINE p == t[j].parent
    <3>1. j # 0 /\ p \in DOMAIN t /\ r[p] = k - 1 /\ p \in Places
      BY <1>1, <2>1 DEF Ranks
    <3>2. e - 1 \in Nat /\ k - 1 \in Nat /\ k - 1 <= e - 1 /\ e = (e - 1) + 1 /\ k = (k - 1) + 1
      BY <2>1
    <3>3. Upwards(t, p, e - 1) = Upwards(t, p, k - 1) /\ Len(Upwards(t, p, e - 1)) = k - 1
      BY <1>3, <3>1, <3>2
    <3>4. /\ Upwards(t, j, e) = Append(Upwards(t, p, e - 1), t[j].name)
          /\ Upwards(t, j, k) = Append(Upwards(t, p, k - 1), t[j].name)
      BY <2>1, <3>1, <3>2, UpwardsStep
    <3>5. Upwards(t, p, e - 1) \in Seq(Names)
      BY <3>1, <3>2, UpwardsIs
    <3>6. QED
      BY <3>3, <3>4, <3>5
  <2>2. QED
    BY <2>1
<1>4. r[i] \in T
  <2>1. 0 .. r[i] \subseteq T
    <3> HIDE DEF T
    <3> QED BY <1>1, <1>2, <1>3, UpTo
  <2>2. QED
    BY <1>1, <2>1
<1>5. QED
  BY <1>1, <1>4

\* A node's path: of its own, and its parent's with its name.
LEMMA PathIs ==
  ASSUME NEW t \in Trees
  PROVE  /\ Path(t, 0) = <<>>
         /\ \A i \in DOMAIN t : Path(t, i) \in Seq(Names) /\ Resolve(t, Path(t, i)) = i
         /\ \A i \in DOMAIN t \ {0} : Path(t, i) = Append(Path(t, t[i].parent), t[i].name)
<1>1. Path(t, 0) = <<>>
  BY UpwardsRoot, IdFacts DEF Path
<1>2. \A i \in DOMAIN t : Path(t, i) \in Seq(Names) /\ Resolve(t, Path(t, i)) = i
  BY UpwardsIs, TreePaths, TreeFacts, IdFacts DEF Path, Places
<1>3. ASSUME NEW i \in DOMAIN t \ {0}
      PROVE  Path(t, i) = Append(Path(t, t[i].parent), t[i].name)
  <2> DEFINE p == t[i].parent
             n == VFS_MAX_NODES - 1
  <2>1. PICK r : Ranks(t, r)
    BY TreeFacts DEF Rooted
  <2>2. p \in DOMAIN t /\ r[i] = r[p] + 1 /\ r[p] \in Nat
    BY <2>1, TreeFacts DEF Rooted, Ranks
  <2>3. r[i] \in 0 .. n
    BY <2>1, Ranked
  <2>4. n \in Nat /\ VFS_MAX_NODES = n + 1 /\ r[p] <= n /\ r[p] <= VFS_MAX_NODES /\ VFS_MAX_NODES \in Nat
    BY <2>2, <2>3, IdFacts
  <2>5. Upwards(t, p, n) = Upwards(t, p, VFS_MAX_NODES)
    <3> HIDE DEF n, p
    <3> QED BY <2>1, <2>2, <2>4, WayEnds
  <2>6. Upwards(t, i, n + 1) = Append(Upwards(t, p, n), t[i].name)
    <3> HIDE DEF n
    <3> QED BY <2>4, UpwardsStep
  <2>7. QED
    BY <2>4, <2>5, <2>6 DEF Path
<1>4. QED
  BY <1>1, <1>2, <1>3

\* Nodes keep their paths when others come and go.
LEMMA PathStays ==
  ASSUME NEW t \in Trees, NEW u \in Trees, DOMAIN t \subseteq DOMAIN u, \A i \in DOMAIN t : u[i] = t[i],
         NEW i \in DOMAIN t
  PROVE  Path(u, i) = Path(t, i)
<1>1. PICK r : Ranks(t, r)
  BY TreeFacts DEF Rooted
<1> DEFINE T == {k \in 0 .. r[i] : \A j \in DOMAIN t : r[j] = k => Path(u, j) = Path(t, j)}
<1>2. /\ \A j \in DOMAIN t : r[j] \in Nat
      /\ \A j \in DOMAIN t \ {0} : t[j].parent \in DOMAIN t /\ r[j] = r[t[j].parent] + 1
      /\ r[0] = 0
  BY <1>1, TreeFacts DEF Ranks, Rooted
<1>3. 0 \in T
  <2>1. ASSUME NEW j \in DOMAIN t, r[j] = 0 PROVE j = 0
    BY <1>2, <2>1
  <2>2. QED
    BY <1>2, <2>1, PathIs
<1>4. ASSUME NEW k \in 1 .. r[i], k - 1 \in T PROVE k \in T
  <2>1. ASSUME NEW j \in DOMAIN t, r[j] = k PROVE Path(u, j) = Path(t, j)
    <3>1. j # 0 /\ t[j].parent \in DOMAIN t /\ r[t[j].parent] = k - 1 /\ u[j] = t[j]
      BY <1>2, <2>1
    <3>2. Path(u, t[j].parent) = Path(t, t[j].parent)
      BY <1>4, <3>1
    <3>3. Path(t, j) = Append(Path(t, t[j].parent), t[j].name)
      BY <3>1, PathIs
    <3>4. j \in DOMAIN u \ {0}
      BY <3>1
    <3>5. Path(u, j) = Append(Path(u, u[j].parent), u[j].name)
      BY <3>4, PathIs
    <3>6. QED
      BY <3>1, <3>2, <3>3, <3>5
  <2>2. QED
    BY <2>1
<1>5. r[i] \in T
  <2>1. 0 .. r[i] \subseteq T
    <3> HIDE DEF T
    <3> QED BY <1>2, <1>3, <1>4, UpTo
  <2>2. QED
    BY <1>2, <2>1
<1>6. QED
  BY <1>2, <1>5

\* The paths of a tree.
LEMMA PathsAre ==
  ASSUME NEW t
  PROVE  PathsOf(t) = {Path(t, i) : i \in DOMAIN t}
BY DEF PathsOf, Path

\* A new leaf adds its path and changes no other.
LEMMA PathsGrow ==
  ASSUME NEW t \in Trees, NEW p \in DOMAIN t, NEW s \in Names, NEW new \in Ids \ DOMAIN t,
         Child(t, p, s) = NONE
  PROVE  PathsOf(Grown(t, new, p, s)) = PathsOf(t) \cup {Append(Path(t, p), s)}
<1> DEFINE u == Grown(t, new, p, s)
<1>1. u \in Trees
  BY TreeGrows
<1>2. DOMAIN u = DOMAIN t \cup {new} /\ u[new] = [parent |-> p, name |-> s] /\ \A i \in DOMAIN t : u[i] = t[i]
  BY DEF Grown
<1> HIDE DEF u
<1>3. \A i \in DOMAIN t : Path(u, i) = Path(t, i)
  BY <1>1, <1>2, PathStays
<1>4. new # 0
  BY TreeFacts DEF Rooted
<1>5. new \in DOMAIN u \ {0} /\ u[new].parent = p /\ u[new].name = s
  BY <1>2, <1>4
<1>6. Path(u, new) = Append(Path(t, p), s)
  <2>1. Path(u, new) = Append(Path(u, u[new].parent), u[new].name)
    BY <1>1, <1>5, PathIs
  <2>2. QED
    BY <1>3, <1>5, <2>1
<1>7. PathsOf(u) = PathsOf(t) \cup {Append(Path(t, p), s)}
  BY <1>2, <1>3, <1>6, PathsAre
<1>8. QED
  BY <1>7 DEF u

\* A leaf that is removed takes its path along and no other.
LEMMA PathsShrink ==
  ASSUME NEW t \in Trees, NEW id \in DOMAIN t \ {0}, \A i \in DOMAIN t : t[i].parent # id
  PROVE  /\ PathsOf(Shrunk(t, id)) = PathsOf(t) \ {Path(t, id)}
         /\ Path(t, id) \in PathsOf(t) \ {<<>>}
         /\ \A q \in PathsOf(t) : q # <<>> => Front(q) # Path(t, id)
<1> DEFINE u == Shrunk(t, id)
<1>1. u \in Trees
  BY TreeShrinks
<1>2. DOMAIN u = DOMAIN t \ {id} /\ \A i \in DOMAIN u : t[i] = u[i]
  BY DEF Shrunk
<1> HIDE DEF u
<1>3. \A i \in DOMAIN u : Path(t, i) = Path(u, i)
  BY <1>1, <1>2, PathStays
<1>4. \A i, j \in DOMAIN t : Path(t, i) = Path(t, j) => i = j
  BY PathIs
<1>5. PathsOf(u) = PathsOf(t) \ {Path(t, id)}
  BY <1>2, <1>3, <1>4, PathsAre
<1>6. 0 \in DOMAIN t /\ Path(t, 0) = <<>>
  BY PathIs, TreeFacts DEF Rooted
<1>7. Path(t, id) \in PathsOf(t) \ {<<>>}
  BY <1>4, <1>6, PathsAre
<1>8. ASSUME NEW q \in PathsOf(t), q # <<>> PROVE Front(q) # Path(t, id)
  <2>1. PICK i \in DOMAIN t : q = Path(t, i)
    BY PathsAre
  <2>2. i # 0 /\ t[i].parent \in DOMAIN t /\ t[i].parent # id
    BY <1>6, <1>8, <2>1, TreeFacts DEF Rooted
  <2>3. q = Append(Path(t, t[i].parent), t[i].name) /\ Path(t, t[i].parent) \in Seq(Names)
    BY <2>1, <2>2, PathIs
  <2>4. Front(q) = Path(t, t[i].parent)
    <3> HIDE DEF Path
    <3> QED BY <2>3, FrontOfAppend
  <2>5. QED
    BY <1>4, <2>2, <2>4
<1>9. QED
  BY <1>5, <1>7, <1>8 DEF u

\* The paths of a tree are closed under parents.
LEMMA PathsClosed ==
  ASSUME NEW t \in Trees
  PROVE  Tree!IsTree(PathsOf(t))
<1>1. <<>> \in PathsOf(t)
  BY PathIs, PathsAre, TreeFacts DEF Rooted
<1>2. ASSUME NEW q \in PathsOf(t), q # <<>> PROVE Front(q) \in PathsOf(t)
  <2>1. PICK i \in DOMAIN t : q = Path(t, i)
    BY PathsAre
  <2>2. i # 0 /\ t[i].parent \in DOMAIN t
    BY <1>2, <2>1, PathIs, TreeFacts DEF Rooted
  <2>3. q = Append(Path(t, t[i].parent), t[i].name) /\ Path(t, t[i].parent) \in Seq(Names)
    BY <2>1, <2>2, PathIs
  <2>4. QED
    BY <2>2, <2>3, FrontOfAppend, PathsAre
<1>3. QED
  BY <1>1, <1>2 DEF Tree!IsTree, Tree!Front, Front

\* A directory that is not too deep is found again by its path.
LEMMA NotTooDeep ==
  ASSUME NEW t \in Trees, NEW i \in DOMAIN t, Len(Path(t, i)) <= VFS_MAX_DEPTH
  PROVE  NodePath(t, i) = Path(t, i)
<1>1. PICK r : Ranks(t, r)
  BY TreeFacts DEF Rooted
<1>2. r[i] \in 0 .. VFS_MAX_NODES - 1
  BY <1>1, Ranked
<1>3. r[i] \in Nat /\ r[i] <= VFS_MAX_NODES /\ VFS_MAX_NODES \in Nat /\ VFS_MAX_DEPTH \in Nat
  BY <1>2, IdFacts
<1>4. Path(t, i) = Upwards(t, i, r[i]) /\ Len(Path(t, i)) = r[i]
  BY <1>1, <1>3, WayEnds DEF Path
<1>5. Upwards(t, i, VFS_MAX_DEPTH) = Upwards(t, i, r[i])
  BY <1>1, <1>3, <1>4, WayEnds
<1>6. QED
  BY <1>4, <1>5 DEF NodePath

\* What a load has rebuilt before the record of node k.
Part(k) == [i \in {i \in DOMAIN image.recs : i \in DOMAIN Fresh \/ i < k} |-> image.recs[i]]

\* In an image that is in order, the next record is made where it was: the id
\* that alloc_node finds is its own, and its parent is there already.
LEMMA RecordAdds ==
  ASSUME image \in Images, InOrder(image.recs), NEW id \in 0 .. VFS_MAX_NODES - 1, Part(id) \in Trees
  PROVE  LoadRecord(Part(id), id) = Part(id + 1)
<1> DEFINE recs == image.recs
           t == Part(id)
           r == recs[id]
<1>1. /\ \A i \in DOMAIN recs : 0 .. i \subseteq DOMAIN recs
      /\ \A i \in DOMAIN Fresh : i \in DOMAIN recs /\ recs[i] = Fresh[i]
      /\ \A i \in DOMAIN recs : recs[i].parent < i
      /\ \A i \in DOMAIN recs : Len(Path(recs, i)) <= VFS_MAX_DEPTH
  BY DEF InOrder, Path
<1>2. 0 \in DOMAIN Fresh
  BY FreshIsTree, TreeFacts DEF Rooted
<1>3. recs \in Trees
  <2>1. recs \in Trees \cup {<<>>}
    BY DEF Images, NoImage, BadHeader
  <2>2. DOMAIN recs # {}
    BY <1>1, <1>2
  <2>3. QED
    BY <2>1, <2>2
<1>4. /\ DOMAIN t = {i \in DOMAIN recs : i \in DOMAIN Fresh \/ i < id}
      /\ \A i \in DOMAIN t : t[i] = recs[i]
      /\ t \in Trees
  BY DEF Part
<1>5. id \in Nat /\ id + 1 \in Nat /\ id \in Ids /\ \A i \in DOMAIN recs : i \in Nat
  BY <1>3, TreeFacts, IdFacts DEF Ids
<1>6. CASE id = 0 \/ id \notin DOMAIN recs
  <2>1. LoadRecord(t, id) = t
    BY <1>6 DEF LoadRecord
  <2>2. {i \in DOMAIN recs : i \in DOMAIN Fresh \/ i < id + 1} = {i \in DOMAIN recs : i \in DOMAIN Fresh \/ i < id}
    BY <1>2, <1>5, <1>6
  <2>3. QED
    BY <2>1, <2>2 DEF Part
<1>7. CASE id # 0 /\ id \in DOMAIN recs
  <2> DEFINE p == r.parent
             s == r.name
             path == Append(NodePath(t, p), s)
  <2>1. p \in DOMAIN recs /\ p < id /\ s \in Names /\ p \in Nat
    BY <1>1, <1>3, <1>5, <1>7, TreeFacts DEF Rooted
  <2>2. p \in DOMAIN t /\ ~(p < 0) /\ p # NONE
    BY <1>4, <2>1, IdFacts
  <2>3. Path(t, p) = Path(recs, p)
    <3> HIDE DEF t, recs, p
    <3>1. DOMAIN t \subseteq DOMAIN recs /\ \A i \in DOMAIN t : recs[i] = t[i]
      BY <1>4
    <3>2. QED
      BY <1>3, <1>4, <2>2, <3>1, PathStays
  <2>4. Len(Path(t, p)) <= VFS_MAX_DEPTH
    BY <1>1, <2>1, <2>3
  <2>5. NodePath(t, p) = Path(t, p) /\ Resolve(t, NodePath(t, p)) = p /\ NodePath(t, p) \in Seq(Names)
    <3> HIDE DEF t, p
    <3> QED BY <1>4, <2>2, <2>4, NotTooDeep, PathIs
  <2>6. /\ path \in Seq(Names \cup {".."}) /\ Front(path) = NodePath(t, p) /\ Last(path) = s
        /\ Resolve(t, path) = Child(t, p, s)
    <3> HIDE DEF t, p, s
    <3>1. NodePath(t, p) \in Seq(Names \cup {".."}) /\ s \in Names \cup {".."} /\ s # ".."
      BY <2>1, <2>5, IdFacts
    <3>2. Resolve(t, path) = Step(t, p, s)
      BY <1>4, <2>5, <3>1, ResolveAppend
    <3>3. Step(t, p, s) = Child(t, p, s)
      BY <2>2, <3>1 DEF Step
    <3>4. Last(path) = s
      BY <3>1 DEF Last
    <3>5. path \in Seq(Names \cup {".."}) /\ Front(path) = NodePath(t, p)
      BY <3>1, FrontOfAppend
    <3>6. QED
      BY <3>2, <3>3, <3>4, <3>5
  <2>7. LoadRecord(t, id) = Mkdir(t, path)
    BY <1>7, <2>2 DEF LoadRecord
  <2>8. CASE id \in DOMAIN Fresh
    <3>1. id \in DOMAIN t \ {0} /\ t[id].parent = p /\ t[id].name = s
      BY <1>4, <1>7, <2>8
    <3>2. Child(t, p, s) = id
      <4> HIDE DEF t, p, s
      <4> QED BY <1>4, <2>1, <3>1, ChildIs
    <3>3. Mkdir(t, path) = t
      <4> HIDE DEF t, p, s, path
      <4> QED BY <1>5, <2>6, <3>2, IdFacts DEF Mkdir
    <3>4. {i \in DOMAIN recs : i \in DOMAIN Fresh \/ i < id + 1} = {i \in DOMAIN recs : i \in DOMAIN Fresh \/ i < id}
      BY <1>5, <2>8
    <3>5. QED
      BY <2>7, <3>3, <3>4 DEF Part
  <2>9. CASE id \notin DOMAIN Fresh
    <3>1. id \notin DOMAIN t
      BY <1>4, <1>5, <2>9
    <3>2. Child(t, p, s) = NONE
      <4> DEFINE c == Child(t, p, s)
      <4>1. ASSUME c # NONE PROVE FALSE
        <5>1. c \in DOMAIN t /\ t[c].parent = p /\ t[c].name = s
          <6> HIDE DEF t, p, s
          <6> QED BY <1>4, <2>1, <4>1, ChildIs
        <5>2. c # 0
          BY <1>4, <2>2, <5>1, TreeFacts DEF Rooted
        <5>3. c \in DOMAIN recs \ {0} /\ recs[c].parent = p /\ recs[c].name = s
          BY <1>4, <5>1, <5>2
        <5>4. c = id
          <6> HIDE DEF c, t
          <6> QED BY <1>3, <1>7, <5>3, TreeFacts DEF Rooted
        <5>5. QED
          BY <3>1, <5>1, <5>4
      <4>2. QED
        BY <4>1
    <3>3. AllocNode(t) = id
      <4> DEFINE S == Ids \ DOMAIN t
      <4>1. id \in S
        BY <1>5, <3>1
      <4>2. ASSUME NEW j \in S PROVE id <= j
        <5>1. j \in Nat
          BY IdFacts
        <5>2. j < id => j \in DOMAIN recs
          BY <1>1, <1>5, <1>7, <5>1
        <5>3. QED
          BY <1>4, <1>5, <5>1, <5>2
      <4>3. S \subseteq Nat
        BY IdFacts
      <4>4. Min(S) = id
        <5> HIDE DEF S
        <5>1. Min(S) \in S /\ \A j \in S : Min(S) <= j
          BY <4>1, <4>2 DEF Min
        <5>2. Min(S) <= id /\ id <= Min(S) /\ Min(S) \in Nat /\ id \in Nat
          BY <4>1, <4>2, <4>3, <5>1
        <5>3. QED
          BY <5>2
      <4>5. QED
        BY <4>1, <4>4 DEF AllocNode
    <3>4. Mkdir(t, path) = Grown(t, id, p, s)
      <4> HIDE DEF t, p, s, path
      <4> QED BY <1>5, <2>2, <2>5, <2>6, <3>2, <3>3, IdFacts DEF Mkdir, Grown
    <3>5. Grown(t, id, p, s) = Part(id + 1)
      <4> DEFINE D == {i \in DOMAIN recs : i \in DOMAIN Fresh \/ i < id + 1}
      <4>1. D = DOMAIN t \cup {id}
        BY <1>4, <1>5, <1>7
      <4>2. r = [parent |-> p, name |-> s]
        <5>1. r \in Node
          BY <1>3, <1>7, TreeFacts
        <5>2. QED
          BY <5>1 DEF Node
      <4>3. \A i \in D : recs[i] = IF i = id THEN [parent |-> p, name |-> s] ELSE t[i]
        <5> HIDE DEF t, p, s
        <5> QED BY <1>4, <4>1, <4>2
      <4>4. Part(id + 1) = [i \in D |-> recs[i]]
        BY DEF Part
      <4>5. Grown(t, id, p, s) = [i \in D |-> IF i = id THEN [parent |-> p, name |-> s] ELSE t[i]]
        <5> HIDE DEF t, p, s, D
        <5> QED BY <4>1 DEF Grown
      <4>6. QED
        <5> HIDE DEF t, p, s, D, recs
        <5> QED BY <4>3, <4>4, <4>5
    <3>6. QED
      BY <2>7, <3>4, <3>5
  <2>10. QED
    BY <2>8, <2>9
<1>8. QED
  BY <1>6, <1>7

\* A whole image in order is loaded as it was saved.
LEMMA LoadedIsSaved ==
  ASSUME image \in Images, InOrder(image.recs)
  PROVE  Loaded = image.recs
<1> DEFINE n == VFS_MAX_NODES
           T == {k \in 0 .. n : From[k] = Part(k)}
<1>1. 0 \in T
  <2>1. /\ \A i \in DOMAIN Fresh : i \in DOMAIN image.recs /\ image.recs[i] = Fresh[i]
        /\ \A i \in DOMAIN image.recs : 0 .. i \subseteq DOMAIN image.recs
    BY DEF InOrder
  <2>2. image.recs \in Trees \cup {<<>>}
    BY DEF Images, NoImage, BadHeader
  <2>3. \A i \in DOMAIN image.recs : i \in Nat
    BY <2>2, TreeFacts
  <2>4. {i \in DOMAIN image.recs : i \in DOMAIN Fresh \/ i < 0} = DOMAIN Fresh
    BY <2>1, <2>3
  <2>5. Fresh = [i \in DOMAIN Fresh |-> Fresh[i]]
    BY FreshIsTree, TreeFacts
  <2>6. Part(0) = Fresh
    BY <2>1, <2>4, <2>5 DEF Part
  <2>7. QED
    BY <2>6, FromIs, IdFacts
<1>2. ASSUME NEW k \in 1 .. n, k - 1 \in T PROVE k \in T
  <2>1. k - 1 \in 0 .. n - 1 /\ k - 1 + 1 = k /\ k - 1 \in 0 .. n /\ k \in 0 .. n
    BY IdFacts
  <2>2. From[k - 1] = Part(k - 1) /\ From[k - 1] \in Trees
    BY <1>2, <2>1, FromIs
  <2>3. From[k] = LoadRecord(From[k - 1], k - 1)
    BY FromIs
  <2>4. LoadRecord(Part(k - 1), k - 1) = Part(k)
    BY <2>1, <2>2, RecordAdds
  <2>5. QED
    BY <2>1, <2>2, <2>3, <2>4
<1>3. From[n] = Part(n)
  <2>1. 0 .. n \subseteq T /\ n \in Nat
    <3> HIDE DEF T, n
    <3> QED BY <1>1, <1>2, UpTo, IdFacts DEF n
  <2>2. QED
    BY <2>1
<1>4. Part(n) = image.recs
  <2>1. image.recs \in Trees \cup {<<>>}
    BY DEF Images, NoImage, BadHeader
  <2>2. \A i \in DOMAIN image.recs : i < n
    BY <2>1, TreeFacts, IdFacts DEF Ids
  <2>3. {i \in DOMAIN image.recs : i \in DOMAIN Fresh \/ i < n} = DOMAIN image.recs
    BY <2>2
  <2>4. image.recs = [i \in DOMAIN image.recs |-> image.recs[i]]
    BY <2>1, TreeFacts
  <2>5. QED
    BY <2>3, <2>4 DEF Part
<1>5. QED
  BY <1>3, <1>4 DEF Loaded, From

------------------------------------------------------------------------------
(* The refinement *)

\* The disk changes with the image only.
LEMMA DiskStays ==
  ASSUME UNCHANGED image
  PROVE  UNCHANGED DiskOf
<1>1. Short' = Short
  BY DEF Short
<1>2. QED
  BY <1>1 DEF DiskOf

\* vfs_mkdir makes one path, or nothing.
LEMMA MkdirMakes ==
  ASSUME StorageTypes, NEW path \in Seq(Names \cup {".."}), VfsMkdir(path)
  PROVE  [Tree!Next]_<<PathsOf(nodes), DiskOf>>
<1>1. nodes \in Trees /\ nodes' = Mkdir(nodes, path) /\ UNCHANGED DiskOf
  BY DiskStays DEF StorageTypes, VfsMkdir
<1>2. CASE Mkdir(nodes, path) = nodes
  <2>1. nodes' = nodes
    BY <1>1, <1>2
  <2>2. UNCHANGED PathsOf(nodes)
    BY <2>1 DEF PathsOf
  <2>3. QED
    BY <1>1, <2>2
<1>3. CASE Mkdir(nodes, path) # nodes
  <2>1. PICK new \in Ids \ DOMAIN nodes, p \in DOMAIN nodes, s \in Names :
          Child(nodes, p, s) = NONE /\ nodes' = Grown(nodes, new, p, s)
    BY <1>1, <1>3, MkdirIs
  <2>2. PathsOf(nodes') = PathsOf(nodes) \cup {Append(Path(nodes, p), s)}
    BY <1>1, <2>1, PathsGrow
  <2>3. Path(nodes, p) \in PathsOf(nodes)
    BY <2>1, PathsAre
  <2>4. PathsOf(nodes)' = PathsOf(nodes')
    BY DEF PathsOf
  <2>5. Tree!Make
    BY <1>1, <2>1, <2>2, <2>3, <2>4 DEF Tree!Make
  <2>6. QED
    BY <2>5 DEF Tree!Next
<1>4. QED
  BY <1>2, <1>3

\* vfs_rmdir removes one path that no other goes through.
LEMMA RmdirUnmakes ==
  ASSUME StorageTypes, RemovesRoot = FALSE, NEW path \in Seq(Names \cup {".."}), VfsRmdir(path)
  PROVE  Tree!Unmake
<1> DEFINE id == Resolve(nodes, path)
<1>1. /\ id \in DOMAIN nodes \ {0} /\ \A i \in DOMAIN nodes : nodes[i].parent # id
      /\ nodes' = Shrunk(nodes, id) /\ nodes \in Trees /\ UNCHANGED DiskOf
  BY DiskStays DEF VfsRmdir, Shrunk, StorageTypes
<1> HIDE DEF id
<1>2. /\ PathsOf(nodes') = PathsOf(nodes) \ {Path(nodes, id)}
      /\ Path(nodes, id) \in PathsOf(nodes) \ {<<>>}
      /\ \A q \in PathsOf(nodes) : q # <<>> => Front(q) # Path(nodes, id)
  BY <1>1, PathsShrink
<1>3. PathsOf(nodes)' = PathsOf(nodes')
  BY DEF PathsOf
<1>4. \A q \in PathsOf(nodes) : Tree!Front(q) = Front(q)
  BY DEF Tree!Front, Front
<1>5. QED
  BY <1>1, <1>2, <1>3, <1>4 DEF Tree!Unmake

\* What a save can leave on the disk.
LEMMA SaveSaves ==
  ASSUME StorageTypes, Save
  PROVE  Tree!Save
<1>1. nodes \in Trees /\ UNCHANGED nodes /\ 0 \in DOMAIN nodes
  BY TreeFacts DEF StorageTypes, Save, Rooted
<1>2. UNCHANGED PathsOf(nodes)
  BY <1>1 DEF PathsOf
<1>3. IsFiniteSet(DOMAIN nodes) /\ Cardinality(DOMAIN nodes) \in Nat /\ FsCount \in Nat
  BY CountsAre
<1>4. DiskOf' \in {Tree!Of(PathsOf(nodes)), Tree!Other("nothing"), Tree!Other("cut"), Tree!Other("untrusted")}
  <2>1. CASE image' = BadHeader
    BY <2>1 DEF DiskOf, Tree!Other
  <2> DEFINE written(r) == [node_count |-> Cardinality(DOMAIN nodes), file_count |-> FsCount, recs |-> r]
  <2>2. CASE image' = written(<<>>)
    <3>1. Cardinality(DOMAIN nodes) # 0
      BY <1>1, <1>3, FS_EmptySet
    <3>2. Cardinality(DOMAIN image'.recs) = 0
      BY <2>2, FS_EmptySet
    <3>3. Short'
      BY <1>3, <2>2, <3>1, <3>2 DEF Short
    <3>4. image' \notin {NoImage, BadHeader}
      BY <1>3, <2>2 DEF NoImage, BadHeader, NONE
    <3>5. QED
      BY <3>3, <3>4 DEF DiskOf, Tree!Other
  <2>3. CASE image' = written(nodes)
    <3>1. image'.recs = nodes
      BY <2>3
    <3>2. CASE DiskOf' # [is |-> "tree", tree |-> PathsOf(image'.recs)]
      BY <3>2 DEF DiskOf, Tree!Other
    <3>3. CASE DiskOf' = [is |-> "tree", tree |-> PathsOf(image'.recs)]
      BY <3>1, <3>3 DEF Tree!Of
    <3>4. QED
      BY <3>2, <3>3
  <2>4. QED
    BY <2>1, <2>2, <2>3 DEF Save
<1>5. QED
  BY <1>2, <1>4 DEF Tree!Save

\* A load reads back what the disk holds.
LEMMA LoadLoads ==
  ASSUME StorageTypes, image \notin {NoImage, BadHeader}, UNCHANGED image,
         NEW t, nodes' = AfterLoad(t)
  PROVE  Tree!Load
<1>1. image \in Images /\ UNCHANGED DiskOf /\ PathsOf(nodes)' = PathsOf(nodes')
  BY DiskStays DEF StorageTypes, PathsOf
<1>2. CASE Short
  <2>1. nodes' = Fresh /\ DiskOf = [is |-> "cut", tree |-> {}]
    BY <1>2 DEF AfterLoad, DiskOf
  <2>2. QED
    BY <1>1, <2>1 DEF Tree!Load
<1>3. CASE ~Short /\ ~InOrder(image.recs)
  <2>1. nodes' = Loaded /\ DiskOf = [is |-> "untrusted", tree |-> {}]
    BY <1>3 DEF AfterLoad, DiskOf
  <2>2. Loaded \in Trees
    BY <1>1, FreshIsTree, LoadKeepsTree
  <2>3. Tree!IsTree(PathsOf(Loaded))
    BY <2>2, PathsClosed
  <2>4. Tree!IsTree(PathsOf(nodes)')
    BY <1>1, <2>1, <2>3
  <2>5. QED
    BY <1>1, <2>1, <2>4 DEF Tree!Load, Tree!IsTree
<1>4. CASE ~Short /\ InOrder(image.recs)
  <2>1. nodes' = Loaded /\ DiskOf = [is |-> "tree", tree |-> PathsOf(image.recs)]
    BY <1>4 DEF AfterLoad, DiskOf
  <2>2. Loaded = image.recs
    BY <1>1, <1>4, LoadedIsSaved
  <2>3. QED
    BY <1>1, <2>1, <2>2 DEF Tree!Load
<1>5. QED
  BY <1>2, <1>3, <1>4

\* A restart loads what the disk holds, if anything.
LEMMA BootRestarts ==
  ASSUME StorageTypes, Boot
  PROVE  Tree!Restart
<1>1. CASE image \in {NoImage, BadHeader}
  <2>1. nodes' = Fresh /\ UNCHANGED DiskOf /\ DiskOf = [is |-> "nothing", tree |-> {}]
    BY <1>1, DiskStays DEF Boot, AfterLoad, DiskOf
  <2>2. PathsOf(nodes)' = PathsOf(Fresh)
    BY <2>1 DEF PathsOf
  <2>3. QED
    BY <2>1, <2>2 DEF Tree!Restart
<1>2. CASE image \notin {NoImage, BadHeader}
  BY <1>2, LoadLoads DEF Boot, Tree!Restart
<1>3. QED
  BY <1>1, <1>2

\* The other operations are not seen.
LEMMA TreeStutters ==
  ASSUME UNCHANGED <<nodes, image>>
  PROVE  UNCHANGED <<PathsOf(nodes), DiskOf>>
BY DiskStays DEF PathsOf

\* Every step of the file system is a step of the abstract tree, or a stutter.
LEMMA StepIsSnapshot ==
  ASSUME RemovesRoot = FALSE, StorageTypes, [StorageNext]_storageVars
  PROVE  [Tree!Next]_<<PathsOf(nodes), DiskOf>>
<1>1. CASE UNCHANGED storageVars
  BY <1>1, TreeStutters DEF storageVars
<1>2. CASE StorageNext
  <2>1. CASE \E path \in Seq(Names \cup {".."}) : VfsMkdir(path) \/ VfsRmdir(path) \/ VfsChdir(path)
    <3>1. ASSUME NEW path \in Seq(Names \cup {".."}), VfsChdir(path) PROVE UNCHANGED <<nodes, image>>
      BY <3>1 DEF VfsChdir
    <3>2. QED
      BY <2>1, <3>1, MkdirMakes, RmdirUnmakes, TreeStutters DEF Tree!Next
  <2>2. CASE \E name \in Given, d \in Data, u \in Users : FsCreate(name, d, u)
    BY <2>2, TreeStutters DEF FsCreate
  <2>3. CASE \E name \in Given, u \in Users : FsDelete(name, u)
    BY <2>3, TreeStutters DEF FsDelete
  <2>4. CASE Save
    BY <2>4, SaveSaves DEF Tree!Next
  <2>5. CASE Load
    BY <2>5, LoadLoads DEF Load, Tree!Next
  <2>6. CASE Boot
    BY <2>6, BootRestarts DEF Tree!Next
  <2>7. QED
    BY <1>2, <2>1, <2>2, <2>3, <2>4, <2>5, <2>6, Actions
<1>3. QED
  BY <1>1, <1>2

\* The file system behaves as a tree that is saved and loaded: what
\* vfs_persist_load builds is the tree that vfs_persist_save wrote, or the
\* default one when the image was cut, for tables and trees of any size.
THEOREM StorageImplementsSnapshot ==
  ASSUME RemovesRoot = FALSE
  PROVE  StorageSpec => SnapshotSpec
<1>1. StorageTypes /\ PermissionsFollowOwner /\ [StorageNext]_storageVars
        => StorageTypes' /\ PermissionsFollowOwner'
  BY StorageStep
<1>2. StorageInit => StorageTypes /\ PermissionsFollowOwner
  BY StorageStarts
<1>3. StorageInit => Tree!Init
  BY DEF StorageInit, Tree!Init, Tree!Other, DiskOf
<1>4. StorageTypes /\ [StorageNext]_storageVars => [Tree!Next]_<<PathsOf(nodes), DiskOf>>
  BY StepIsSnapshot
<1>5. QED
  BY <1>1, <1>2, <1>3, <1>4, PTL DEF StorageSpec, SnapshotSpec, Tree!Spec
=============================================================================
