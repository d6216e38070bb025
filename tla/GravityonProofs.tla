--------------------------- MODULE GravityonProofs ---------------------------
(***************************************************************************)
(* Of the compute jobs: no pointer outlives a job, and destruction leaves  *)
(* none, whatever the number of clients and jobs.  Of the pipeline cache:  *)
(* it and its file hold the keys touched, each once.  Of the images: what  *)
(* is loaded from a file is the picture that was saved in it.              *)
(*                                                                         *)
(* NoDangling is not inductive by itself: that Join may free a job rests   *)
(* on every holder of a pointer knowing which list its job is in.  IInv    *)
(* adds where the job of each client is (Holders), that no two clients     *)
(* hold the same job (OneHolder), that ids not yet given are untouched     *)
(* (Unused), that a thread whose job is known was created and one whose    *)
(* job is listed was not joined (Known), which list is empty in which      *)
(* phase of the device (Phases) and                                        *)
(* that a job dispatched is somewhere until it is freed (Conserved).       *)
(*                                                                         *)
(* KeysAsTouched says of the cache only what AssetsInv also says of a      *)
(* whole file: what is loaded from it must be as good as what was saved.   *)
(* LoadedAsSaved needs of every file, from the moment it is written, which *)
(* bytes it has (ImagesInv): between the save and the load the image may   *)
(* be drawn on or destroyed.                                               *)
(***************************************************************************)
EXTENDS Compute, Assets, Texture, SequenceTheorems, TLAPS

OneHolder ==
  \A c, d \in Clients : c # d /\ at[c] # NoJob => at[c] # at[d]

Holder(c) ==
  /\ at[c] = NoJob <=> pc[c] \in {"idle", "drain"}
  /\ pc[c] \in {"create", "unlink"} => thread[at[c]] = "none"
  /\ pc[c] \in {"tell", "join"} => thread[at[c]] \in {"running", "ended"}
  /\ Dispatching(c) => at[c] \in linked \ told
  /\ pc[c] = "join" => at[c] \notin linked \cup taken

Holders == \A c \in Clients : Holder(c)

Unused ==
  \A j \in Ids : j >= nextJobId =>
    j \notin linked \cup taken \cup freed \cup told /\ thread[j] = "none"

Known ==
  /\ \A j \in told : thread[j] # "none"
  /\ \A j \in linked \cup taken : thread[j] # "joined"

Phases ==
  /\ device # "open" => linked = {}
  /\ device # "closing" => taken = {}
  /\ \A c \in Clients : pc[c] = "drain" => device # "open"

Conserved ==
  \A j \in Ids : j < nextJobId =>
    \/ j \in freed \cup linked \cup taken
    \/ \E c \in Clients : at[c] = j /\ pc[c] = "join"

IInv ==
  /\ TypeOK /\ NoDangling /\ OneHolder /\ Holders
  /\ Unused /\ Known /\ Phases /\ Conserved

LEMMA GoesType ==
  ASSUME TypeOK, NEW c \in Clients, NEW where, NEW job, Goes(c, where, job),
         where \in {"idle", "create", "unlink", "tell", "join", "drain"},
         job \in Ids \cup {NoJob}
  PROVE  /\ pc' \in [Clients -> {"idle", "create", "unlink", "tell", "join", "drain"}]
         /\ at' \in [Clients -> Ids \cup {NoJob}]
BY DEF TypeOK, Goes

\* A client with a job holds a real one.
LEMMA HeldIsId ==
  ASSUME IInv, NEW c \in Clients, pc[c] \notin {"idle", "drain"}
  PROVE  at[c] \in Ids
BY DEF IInv, TypeOK, Holders, Holder

LEMMA InitIInv == Init => IInv
BY JobsAssumption DEF Init, IInv, TypeOK, NoDangling, Reachable, OneHolder, Holders, Holder, Dispatching, Unused, Known, Phases, Conserved, Ids, NoJob

LEMMA DispatchIInv ==
  ASSUME IInv, NEW c \in Clients, NEW g \in Groups, Dispatch(c, g)
  PROVE IInv'
<1>1. TypeOK'
  <2>1. Total(g) \in Nat
    <3>1. AtLeastOne(g[1]) \in Nat /\ AtLeastOne(g[2]) \in Nat /\ AtLeastOne(g[3]) \in Nat
      BY CountsAssumption DEF AtLeastOne, Groups
    <3>2. \A x, y, z \in Nat : x * y * z \in Nat
      OBVIOUS
    <3>3. QED
      BY <3>1, <3>2 DEF Total
  <2>2. nextJobId \in Ids /\ nextJobId' \in Ids \cup {MAX_JOBS + 1}
    BY JobsAssumption DEF Dispatch, Ids
  <2>3. QED
    BY <2>1, <2>2, GoesType DEF IInv, TypeOK, Dispatch
<1>2. NoDangling'
  BY JobsAssumption DEF Dispatch, Goes, IInv, TypeOK, NoDangling, Reachable, OneHolder, Holders, Holder, Dispatching, Unused, Known, Phases, Conserved, Ids, NoJob
<1>3. OneHolder'
  BY JobsAssumption DEF Dispatch, Goes, IInv, TypeOK, NoDangling, Reachable, OneHolder, Holders, Holder, Dispatching, Unused, Known, Phases, Conserved, Ids, NoJob
<1>4. Holders'
  BY JobsAssumption DEF Dispatch, Goes, IInv, TypeOK, NoDangling, Reachable, OneHolder, Holders, Holder, Dispatching, Unused, Known, Phases, Conserved, Ids, NoJob
<1>5. Unused'
  BY JobsAssumption DEF Dispatch, Goes, IInv, TypeOK, NoDangling, Reachable, OneHolder, Holders, Holder, Dispatching, Unused, Known, Phases, Conserved, Ids, NoJob
<1>6. Known'
  BY JobsAssumption DEF Dispatch, Goes, IInv, TypeOK, NoDangling, Reachable, OneHolder, Holders, Holder, Dispatching, Unused, Known, Phases, Conserved, Ids, NoJob
<1>7. Phases'
  BY JobsAssumption DEF Dispatch, Goes, IInv, TypeOK, NoDangling, Reachable, OneHolder, Holders, Holder, Dispatching, Unused, Known, Phases, Conserved, Ids, NoJob
<1>8. Conserved'
  BY JobsAssumption DEF Dispatch, Goes, IInv, TypeOK, NoDangling, Reachable, OneHolder, Holders, Holder, Dispatching, Unused, Known, Phases, Conserved, Ids, NoJob
<1> QED BY <1>1, <1>2, <1>3, <1>4, <1>5, <1>6, <1>7, <1>8 DEF IInv

LEMMA CreateThreadIInv ==
  ASSUME IInv, NEW c \in Clients, CreateThread(c)
  PROVE IInv'
<1>1. TypeOK'
  BY JobsAssumption DEF CreateThread, Goes, IInv, TypeOK, NoDangling, Reachable, OneHolder, Holders, Holder, Dispatching, Unused, Known, Phases, Conserved, Ids, NoJob
<1>2. NoDangling'
  BY JobsAssumption DEF CreateThread, Goes, IInv, TypeOK, NoDangling, Reachable, OneHolder, Holders, Holder, Dispatching, Unused, Known, Phases, Conserved, Ids, NoJob
<1>3. OneHolder'
  BY JobsAssumption DEF CreateThread, Goes, IInv, TypeOK, NoDangling, Reachable, OneHolder, Holders, Holder, Dispatching, Unused, Known, Phases, Conserved, Ids, NoJob
<1>4. Holders'
  BY JobsAssumption DEF CreateThread, Goes, IInv, TypeOK, NoDangling, Reachable, OneHolder, Holders, Holder, Dispatching, Unused, Known, Phases, Conserved, Ids, NoJob
<1>5. Unused'
  BY JobsAssumption DEF CreateThread, Goes, IInv, TypeOK, NoDangling, Reachable, OneHolder, Holders, Holder, Dispatching, Unused, Known, Phases, Conserved, Ids, NoJob
<1>6. Known'
  BY JobsAssumption DEF CreateThread, Goes, IInv, TypeOK, NoDangling, Reachable, OneHolder, Holders, Holder, Dispatching, Unused, Known, Phases, Conserved, Ids, NoJob
<1>7. Phases'
  BY JobsAssumption DEF CreateThread, Goes, IInv, TypeOK, NoDangling, Reachable, OneHolder, Holders, Holder, Dispatching, Unused, Known, Phases, Conserved, Ids, NoJob
<1>8. Conserved'
  BY JobsAssumption DEF CreateThread, Goes, IInv, TypeOK, NoDangling, Reachable, OneHolder, Holders, Holder, Dispatching, Unused, Known, Phases, Conserved, Ids, NoJob
<1> QED BY <1>1, <1>2, <1>3, <1>4, <1>5, <1>6, <1>7, <1>8 DEF IInv

LEMMA CreateFailsIInv ==
  ASSUME IInv, NEW c \in Clients, CreateFails(c)
  PROVE IInv'
<1>1. TypeOK'
  BY JobsAssumption DEF CreateFails, Goes, IInv, TypeOK, NoDangling, Reachable, OneHolder, Holders, Holder, Dispatching, Unused, Known, Phases, Conserved, Ids, NoJob
<1>2. NoDangling'
  BY JobsAssumption DEF CreateFails, Goes, IInv, TypeOK, NoDangling, Reachable, OneHolder, Holders, Holder, Dispatching, Unused, Known, Phases, Conserved, Ids, NoJob
<1>3. OneHolder'
  BY JobsAssumption DEF CreateFails, Goes, IInv, TypeOK, NoDangling, Reachable, OneHolder, Holders, Holder, Dispatching, Unused, Known, Phases, Conserved, Ids, NoJob
<1>4. Holders'
  BY JobsAssumption DEF CreateFails, Goes, IInv, TypeOK, NoDangling, Reachable, OneHolder, Holders, Holder, Dispatching, Unused, Known, Phases, Conserved, Ids, NoJob
<1>5. Unused'
  BY JobsAssumption DEF CreateFails, Goes, IInv, TypeOK, NoDangling, Reachable, OneHolder, Holders, Holder, Dispatching, Unused, Known, Phases, Conserved, Ids, NoJob
<1>6. Known'
  BY JobsAssumption DEF CreateFails, Goes, IInv, TypeOK, NoDangling, Reachable, OneHolder, Holders, Holder, Dispatching, Unused, Known, Phases, Conserved, Ids, NoJob
<1>7. Phases'
  BY JobsAssumption DEF CreateFails, Goes, IInv, TypeOK, NoDangling, Reachable, OneHolder, Holders, Holder, Dispatching, Unused, Known, Phases, Conserved, Ids, NoJob
<1>8. Conserved'
  BY JobsAssumption DEF CreateFails, Goes, IInv, TypeOK, NoDangling, Reachable, OneHolder, Holders, Holder, Dispatching, Unused, Known, Phases, Conserved, Ids, NoJob
<1> QED BY <1>1, <1>2, <1>3, <1>4, <1>5, <1>6, <1>7, <1>8 DEF IInv

LEMMA UnlinkIInv ==
  ASSUME IInv, NEW c \in Clients, Unlink(c)
  PROVE IInv'
<1>1. TypeOK'
  <2>1. at[c] \in Ids
    BY HeldIsId DEF Unlink
  <2>2. QED
    BY <2>1, GoesType DEF IInv, TypeOK, Unlink
<1>2. NoDangling'
  BY JobsAssumption DEF Unlink, Goes, IInv, TypeOK, NoDangling, Reachable, OneHolder, Holders, Holder, Dispatching, Unused, Known, Phases, Conserved, Ids, NoJob
<1>3. OneHolder'
  BY JobsAssumption DEF Unlink, Goes, IInv, TypeOK, NoDangling, Reachable, OneHolder, Holders, Holder, Dispatching, Unused, Known, Phases, Conserved, Ids, NoJob
<1>4. Holders'
  BY JobsAssumption DEF Unlink, Goes, IInv, TypeOK, NoDangling, Reachable, OneHolder, Holders, Holder, Dispatching, Unused, Known, Phases, Conserved, Ids, NoJob
<1>5. Unused'
  BY JobsAssumption DEF Unlink, Goes, IInv, TypeOK, NoDangling, Reachable, OneHolder, Holders, Holder, Dispatching, Unused, Known, Phases, Conserved, Ids, NoJob
<1>6. Known'
  BY JobsAssumption DEF Unlink, Goes, IInv, TypeOK, NoDangling, Reachable, OneHolder, Holders, Holder, Dispatching, Unused, Known, Phases, Conserved, Ids, NoJob
<1>7. Phases'
  BY JobsAssumption DEF Unlink, Goes, IInv, TypeOK, NoDangling, Reachable, OneHolder, Holders, Holder, Dispatching, Unused, Known, Phases, Conserved, Ids, NoJob
<1>8. Conserved'
  BY JobsAssumption DEF Unlink, Goes, IInv, TypeOK, NoDangling, Reachable, OneHolder, Holders, Holder, Dispatching, Unused, Known, Phases, Conserved, Ids, NoJob
<1> QED BY <1>1, <1>2, <1>3, <1>4, <1>5, <1>6, <1>7, <1>8 DEF IInv

LEMMA TellIInv ==
  ASSUME IInv, NEW c \in Clients, Tell(c)
  PROVE IInv'
<1>1. TypeOK'
  <2>1. at[c] \in Ids
    BY HeldIsId DEF Tell
  <2>2. QED
    BY <2>1, GoesType DEF IInv, TypeOK, Tell
<1>2. NoDangling'
  BY JobsAssumption DEF Tell, Goes, IInv, TypeOK, NoDangling, Reachable, OneHolder, Holders, Holder, Dispatching, Unused, Known, Phases, Conserved, Ids, NoJob
<1>3. OneHolder'
  BY JobsAssumption DEF Tell, Goes, IInv, TypeOK, NoDangling, Reachable, OneHolder, Holders, Holder, Dispatching, Unused, Known, Phases, Conserved, Ids, NoJob
<1>4. Holders'
  BY JobsAssumption DEF Tell, Goes, IInv, TypeOK, NoDangling, Reachable, OneHolder, Holders, Holder, Dispatching, Unused, Known, Phases, Conserved, Ids, NoJob
<1>5. Unused'
  BY JobsAssumption DEF Tell, Goes, IInv, TypeOK, NoDangling, Reachable, OneHolder, Holders, Holder, Dispatching, Unused, Known, Phases, Conserved, Ids, NoJob
<1>6. Known'
  BY JobsAssumption DEF Tell, Goes, IInv, TypeOK, NoDangling, Reachable, OneHolder, Holders, Holder, Dispatching, Unused, Known, Phases, Conserved, Ids, NoJob
<1>7. Phases'
  BY JobsAssumption DEF Tell, Goes, IInv, TypeOK, NoDangling, Reachable, OneHolder, Holders, Holder, Dispatching, Unused, Known, Phases, Conserved, Ids, NoJob
<1>8. Conserved'
  BY JobsAssumption DEF Tell, Goes, IInv, TypeOK, NoDangling, Reachable, OneHolder, Holders, Holder, Dispatching, Unused, Known, Phases, Conserved, Ids, NoJob
<1> QED BY <1>1, <1>2, <1>3, <1>4, <1>5, <1>6, <1>7, <1>8 DEF IInv

LEMMA WaitIInv ==
  ASSUME IInv, NEW c \in Clients, NEW id \in Ids, Wait(c, id)
  PROVE IInv'
<1>1. TypeOK'
  BY JobsAssumption DEF Wait, Goes, IInv, TypeOK, NoDangling, Reachable, OneHolder, Holders, Holder, Dispatching, Unused, Known, Phases, Conserved, Ids, NoJob
<1>2. NoDangling'
  BY JobsAssumption DEF Wait, Goes, IInv, TypeOK, NoDangling, Reachable, OneHolder, Holders, Holder, Dispatching, Unused, Known, Phases, Conserved, Ids, NoJob
<1>3. OneHolder'
  BY JobsAssumption DEF Wait, Goes, IInv, TypeOK, NoDangling, Reachable, OneHolder, Holders, Holder, Dispatching, Unused, Known, Phases, Conserved, Ids, NoJob
<1>4. Holders'
  BY JobsAssumption DEF Wait, Goes, IInv, TypeOK, NoDangling, Reachable, OneHolder, Holders, Holder, Dispatching, Unused, Known, Phases, Conserved, Ids, NoJob
<1>5. Unused'
  BY JobsAssumption DEF Wait, Goes, IInv, TypeOK, NoDangling, Reachable, OneHolder, Holders, Holder, Dispatching, Unused, Known, Phases, Conserved, Ids, NoJob
<1>6. Known'
  BY JobsAssumption DEF Wait, Goes, IInv, TypeOK, NoDangling, Reachable, OneHolder, Holders, Holder, Dispatching, Unused, Known, Phases, Conserved, Ids, NoJob
<1>7. Phases'
  BY JobsAssumption DEF Wait, Goes, IInv, TypeOK, NoDangling, Reachable, OneHolder, Holders, Holder, Dispatching, Unused, Known, Phases, Conserved, Ids, NoJob
<1>8. Conserved'
  BY JobsAssumption DEF Wait, Goes, IInv, TypeOK, NoDangling, Reachable, OneHolder, Holders, Holder, Dispatching, Unused, Known, Phases, Conserved, Ids, NoJob
<1> QED BY <1>1, <1>2, <1>3, <1>4, <1>5, <1>6, <1>7, <1>8 DEF IInv

LEMMA JoinIInv ==
  ASSUME IInv, NEW c \in Clients, Join(c)
  PROVE IInv'
<1>1. TypeOK'
  <2>1. at[c] \in Ids
    BY HeldIsId DEF Join
  <2>2. QED
    BY <2>1, GoesType DEF IInv, TypeOK, Join
<1>2. NoDangling'
  BY JobsAssumption DEF Join, Goes, IInv, TypeOK, NoDangling, Reachable, OneHolder, Holders, Holder, Dispatching, Unused, Known, Phases, Conserved, Ids, NoJob
<1>3. OneHolder'
  BY JobsAssumption DEF Join, Goes, IInv, TypeOK, NoDangling, Reachable, OneHolder, Holders, Holder, Dispatching, Unused, Known, Phases, Conserved, Ids, NoJob
<1>4. Holders'
  BY JobsAssumption DEF Join, Goes, IInv, TypeOK, NoDangling, Reachable, OneHolder, Holders, Holder, Dispatching, Unused, Known, Phases, Conserved, Ids, NoJob
<1>5. Unused'
  BY JobsAssumption DEF Join, Goes, IInv, TypeOK, NoDangling, Reachable, OneHolder, Holders, Holder, Dispatching, Unused, Known, Phases, Conserved, Ids, NoJob
<1>6. Known'
  BY JobsAssumption DEF Join, Goes, IInv, TypeOK, NoDangling, Reachable, OneHolder, Holders, Holder, Dispatching, Unused, Known, Phases, Conserved, Ids, NoJob
<1>7. Phases'
  BY JobsAssumption DEF Join, Goes, IInv, TypeOK, NoDangling, Reachable, OneHolder, Holders, Holder, Dispatching, Unused, Known, Phases, Conserved, Ids, NoJob
<1>8. Conserved'
  BY JobsAssumption DEF Join, Goes, IInv, TypeOK, NoDangling, Reachable, OneHolder, Holders, Holder, Dispatching, Unused, Known, Phases, Conserved, Ids, NoJob
<1> QED BY <1>1, <1>2, <1>3, <1>4, <1>5, <1>6, <1>7, <1>8 DEF IInv

LEMMA DetachIInv ==
  ASSUME IInv, NEW c \in Clients, Detach(c)
  PROVE IInv'
<1>1. TypeOK'
  BY JobsAssumption DEF Detach, Goes, IInv, TypeOK, NoDangling, Reachable, OneHolder, Holders, Holder, Dispatching, Unused, Known, Phases, Conserved, Ids, NoJob
<1>2. NoDangling'
  BY JobsAssumption DEF Detach, Goes, IInv, TypeOK, NoDangling, Reachable, OneHolder, Holders, Holder, Dispatching, Unused, Known, Phases, Conserved, Ids, NoJob
<1>3. OneHolder'
  BY JobsAssumption DEF Detach, Goes, IInv, TypeOK, NoDangling, Reachable, OneHolder, Holders, Holder, Dispatching, Unused, Known, Phases, Conserved, Ids, NoJob
<1>4. Holders'
  BY JobsAssumption DEF Detach, Goes, IInv, TypeOK, NoDangling, Reachable, OneHolder, Holders, Holder, Dispatching, Unused, Known, Phases, Conserved, Ids, NoJob
<1>5. Unused'
  BY JobsAssumption DEF Detach, Goes, IInv, TypeOK, NoDangling, Reachable, OneHolder, Holders, Holder, Dispatching, Unused, Known, Phases, Conserved, Ids, NoJob
<1>6. Known'
  BY JobsAssumption DEF Detach, Goes, IInv, TypeOK, NoDangling, Reachable, OneHolder, Holders, Holder, Dispatching, Unused, Known, Phases, Conserved, Ids, NoJob
<1>7. Phases'
  BY JobsAssumption DEF Detach, Goes, IInv, TypeOK, NoDangling, Reachable, OneHolder, Holders, Holder, Dispatching, Unused, Known, Phases, Conserved, Ids, NoJob
<1>8. Conserved'
  BY JobsAssumption DEF Detach, Goes, IInv, TypeOK, NoDangling, Reachable, OneHolder, Holders, Holder, Dispatching, Unused, Known, Phases, Conserved, Ids, NoJob
<1> QED BY <1>1, <1>2, <1>3, <1>4, <1>5, <1>6, <1>7, <1>8 DEF IInv

LEMMA DrainIInv ==
  ASSUME IInv, NEW c \in Clients, Drain(c)
  PROVE IInv'
<1>1. TypeOK'
  BY JobsAssumption DEF Drain, IInv, TypeOK, NoDangling, Reachable, OneHolder, Holders, Holder, Dispatching, Unused, Known, Phases, Conserved, Ids, NoJob
<1>2. NoDangling'
  <2>1. PICK j \in taken : /\ thread[j] = "ended"
                           /\ thread' = [thread EXCEPT ![j] = "joined"]
                           /\ freed' = freed \cup {j}
                           /\ taken' = taken \ {j}
    BY DEF Drain
  <2>2. linked = {} /\ j \in Ids
    BY DEF Drain, IInv, TypeOK, Phases
  <2>3. \A d \in Clients : at[d] # j
    BY <2>2 DEF IInv, TypeOK, Holders, Holder, Dispatching, Ids, NoJob
  <2>4. \A k \in freed : k # j /\ ~ Reachable(k)
    BY <2>1 DEF IInv, NoDangling, Reachable
  <2>5. QED
    BY <2>1, <2>2, <2>3, <2>4 DEF Drain, IInv, TypeOK, NoDangling, Reachable
<1>3. OneHolder'
  BY JobsAssumption DEF Drain, IInv, TypeOK, NoDangling, Reachable, OneHolder, Holders, Holder, Dispatching, Unused, Known, Phases, Conserved, Ids, NoJob
<1>4. Holders'
  BY JobsAssumption DEF Drain, IInv, TypeOK, NoDangling, Reachable, OneHolder, Holders, Holder, Dispatching, Unused, Known, Phases, Conserved, Ids, NoJob
<1>5. Unused'
  BY JobsAssumption DEF Drain, IInv, TypeOK, NoDangling, Reachable, OneHolder, Holders, Holder, Dispatching, Unused, Known, Phases, Conserved, Ids, NoJob
<1>6. Known'
  BY JobsAssumption DEF Drain, IInv, TypeOK, NoDangling, Reachable, OneHolder, Holders, Holder, Dispatching, Unused, Known, Phases, Conserved, Ids, NoJob
<1>7. Phases'
  BY JobsAssumption DEF Drain, IInv, TypeOK, NoDangling, Reachable, OneHolder, Holders, Holder, Dispatching, Unused, Known, Phases, Conserved, Ids, NoJob
<1>8. Conserved'
  BY JobsAssumption DEF Drain, IInv, TypeOK, NoDangling, Reachable, OneHolder, Holders, Holder, Dispatching, Unused, Known, Phases, Conserved, Ids, NoJob
<1> QED BY <1>1, <1>2, <1>3, <1>4, <1>5, <1>6, <1>7, <1>8 DEF IInv

LEMMA DrainedIInv ==
  ASSUME IInv, NEW c \in Clients, Drained(c)
  PROVE IInv'
<1>1. TypeOK'
  BY JobsAssumption DEF Drained, Goes, IInv, TypeOK, NoDangling, Reachable, OneHolder, Holders, Holder, Dispatching, Unused, Known, Phases, Conserved, Ids, NoJob
<1>2. NoDangling'
  BY JobsAssumption DEF Drained, Goes, IInv, TypeOK, NoDangling, Reachable, OneHolder, Holders, Holder, Dispatching, Unused, Known, Phases, Conserved, Ids, NoJob
<1>3. OneHolder'
  BY JobsAssumption DEF Drained, Goes, IInv, TypeOK, NoDangling, Reachable, OneHolder, Holders, Holder, Dispatching, Unused, Known, Phases, Conserved, Ids, NoJob
<1>4. Holders'
  BY JobsAssumption DEF Drained, Goes, IInv, TypeOK, NoDangling, Reachable, OneHolder, Holders, Holder, Dispatching, Unused, Known, Phases, Conserved, Ids, NoJob
<1>5. Unused'
  BY JobsAssumption DEF Drained, Goes, IInv, TypeOK, NoDangling, Reachable, OneHolder, Holders, Holder, Dispatching, Unused, Known, Phases, Conserved, Ids, NoJob
<1>6. Known'
  BY JobsAssumption DEF Drained, Goes, IInv, TypeOK, NoDangling, Reachable, OneHolder, Holders, Holder, Dispatching, Unused, Known, Phases, Conserved, Ids, NoJob
<1>7. Phases'
  BY JobsAssumption DEF Drained, Goes, IInv, TypeOK, NoDangling, Reachable, OneHolder, Holders, Holder, Dispatching, Unused, Known, Phases, Conserved, Ids, NoJob
<1>8. Conserved'
  BY JobsAssumption DEF Drained, Goes, IInv, TypeOK, NoDangling, Reachable, OneHolder, Holders, Holder, Dispatching, Unused, Known, Phases, Conserved, Ids, NoJob
<1> QED BY <1>1, <1>2, <1>3, <1>4, <1>5, <1>6, <1>7, <1>8 DEF IInv

LEMMA InvokeIInv ==
  ASSUME IInv, NEW j \in Ids, Invoke(j)
  PROVE IInv'
<1>1. TypeOK'
  BY JobsAssumption DEF Invoke, IInv, TypeOK, NoDangling, Reachable, OneHolder, Holders, Holder, Dispatching, Unused, Known, Phases, Conserved, Ids, NoJob
<1>2. NoDangling'
  BY JobsAssumption DEF Invoke, IInv, TypeOK, NoDangling, Reachable, OneHolder, Holders, Holder, Dispatching, Unused, Known, Phases, Conserved, Ids, NoJob
<1>3. OneHolder'
  BY JobsAssumption DEF Invoke, IInv, TypeOK, NoDangling, Reachable, OneHolder, Holders, Holder, Dispatching, Unused, Known, Phases, Conserved, Ids, NoJob
<1>4. Holders'
  BY JobsAssumption DEF Invoke, IInv, TypeOK, NoDangling, Reachable, OneHolder, Holders, Holder, Dispatching, Unused, Known, Phases, Conserved, Ids, NoJob
<1>5. Unused'
  BY JobsAssumption DEF Invoke, IInv, TypeOK, NoDangling, Reachable, OneHolder, Holders, Holder, Dispatching, Unused, Known, Phases, Conserved, Ids, NoJob
<1>6. Known'
  BY JobsAssumption DEF Invoke, IInv, TypeOK, NoDangling, Reachable, OneHolder, Holders, Holder, Dispatching, Unused, Known, Phases, Conserved, Ids, NoJob
<1>7. Phases'
  BY JobsAssumption DEF Invoke, IInv, TypeOK, NoDangling, Reachable, OneHolder, Holders, Holder, Dispatching, Unused, Known, Phases, Conserved, Ids, NoJob
<1>8. Conserved'
  BY JobsAssumption DEF Invoke, IInv, TypeOK, NoDangling, Reachable, OneHolder, Holders, Holder, Dispatching, Unused, Known, Phases, Conserved, Ids, NoJob
<1> QED BY <1>1, <1>2, <1>3, <1>4, <1>5, <1>6, <1>7, <1>8 DEF IInv

LEMMA EndIInv ==
  ASSUME IInv, NEW j \in Ids, End(j)
  PROVE IInv'
<1>1. TypeOK'
  BY JobsAssumption DEF End, IInv, TypeOK, NoDangling, Reachable, OneHolder, Holders, Holder, Dispatching, Unused, Known, Phases, Conserved, Ids, NoJob
<1>2. NoDangling'
  BY JobsAssumption DEF End, IInv, TypeOK, NoDangling, Reachable, OneHolder, Holders, Holder, Dispatching, Unused, Known, Phases, Conserved, Ids, NoJob
<1>3. OneHolder'
  BY JobsAssumption DEF End, IInv, TypeOK, NoDangling, Reachable, OneHolder, Holders, Holder, Dispatching, Unused, Known, Phases, Conserved, Ids, NoJob
<1>4. Holders'
  BY JobsAssumption DEF End, IInv, TypeOK, NoDangling, Reachable, OneHolder, Holders, Holder, Dispatching, Unused, Known, Phases, Conserved, Ids, NoJob
<1>5. Unused'
  BY JobsAssumption DEF End, IInv, TypeOK, NoDangling, Reachable, OneHolder, Holders, Holder, Dispatching, Unused, Known, Phases, Conserved, Ids, NoJob
<1>6. Known'
  BY JobsAssumption DEF End, IInv, TypeOK, NoDangling, Reachable, OneHolder, Holders, Holder, Dispatching, Unused, Known, Phases, Conserved, Ids, NoJob
<1>7. Phases'
  BY JobsAssumption DEF End, IInv, TypeOK, NoDangling, Reachable, OneHolder, Holders, Holder, Dispatching, Unused, Known, Phases, Conserved, Ids, NoJob
<1>8. Conserved'
  BY JobsAssumption DEF End, IInv, TypeOK, NoDangling, Reachable, OneHolder, Holders, Holder, Dispatching, Unused, Known, Phases, Conserved, Ids, NoJob
<1> QED BY <1>1, <1>2, <1>3, <1>4, <1>5, <1>6, <1>7, <1>8 DEF IInv

LEMMA NextIInv == IInv /\ [Next]_vars => IInv'
<1> SUFFICES ASSUME IInv, [Next]_vars PROVE IInv'
  OBVIOUS
<1>1. ASSUME NEW c \in Clients, Client(c) PROVE IInv'
  BY <1>1, DispatchIInv, CreateThreadIInv, CreateFailsIInv, UnlinkIInv, TellIInv,
     WaitIInv, JoinIInv, DetachIInv, DrainIInv, DrainedIInv DEF Client
<1>2. ASSUME NEW j \in Ids, Worker(j) PROVE IInv'
  BY <1>2, InvokeIInv, EndIInv DEF Worker
<1>3. CASE UNCHANGED vars
  BY <1>3 DEF vars, IInv, TypeOK, NoDangling, Reachable, OneHolder, Holders, Holder,
     Dispatching, Unused, Known, Phases, Conserved
<1>4. QED
  BY <1>1, <1>2, <1>3 DEF Next

THEOREM Invariance == Spec => []IInv
BY InitIInv, NextIInv, PTL DEF Spec

-----------------------------------------------------------------------------
\* The program's variables keep their types.
THEOREM TypeCorrect == Spec => []TypeOK
<1>1. IInv => TypeOK
  BY DEF IInv
<1>2. QED
  BY <1>1, Invariance, PTL

\* No list, no client and no thread keeps a pointer to a job once
\* gravWaitCompute, gravDestroyDevice or a failed dispatch has freed it,
\* however many clients call and jobs are dispatched.
THEOREM NeverDangling == Spec => []NoDangling
<1>1. IInv => NoDangling
  BY DEF IInv
<1>2. QED
  BY <1>1, Invariance, PTL

\* A job is joined by one caller: two clients never hold the same job.
THEOREM JoinedByOne == Spec => []OneHolder
<1>1. IInv => OneHolder
  BY DEF IInv
<1>2. QED
  BY <1>1, Invariance, PTL

\* gravDestroyDevice and the waits in progress leave no job and no thread.
THEOREM LeavesNothing == Spec => []NothingLeft
<1>1. IInv => NothingLeft
  <2> SUFFICES ASSUME IInv, device = "gone", \A c \in Clients : pc[c] = "idle",
                      NEW j \in 1..(nextJobId - 1)
               PROVE  j \in freed /\ thread[j] \in {"none", "joined"}
    BY DEF NothingLeft
  <2>1. j \in Ids /\ j < nextJobId
    BY JobsAssumption DEF IInv, TypeOK, Ids
  <2>2. linked = {} /\ taken = {}
    BY DEF IInv, Phases
  <2>3. j \in freed
    BY <2>1, <2>2 DEF IInv, Conserved
  <2>4. QED
    BY <2>1, <2>3 DEF IInv, TypeOK, NoDangling, Reachable
<1>2. QED
  BY <1>1, Invariance, PTL

----------------------------------------------------------------------------
(* The pipeline cache. *)

\* What a sequence has, it has with more behind it.
LEMMA HasMore ==
  ASSUME NEW s \in Seq(Nat), NEW t \in Seq(Nat), NEW key, Has(s, key)
  PROVE  Has(s \o t, key)
<1>1. PICK i, j \in DOMAIN s : i <= j /\ SubSeq(s, i, j) = key
  BY DEF Has
<1>2. SubSeq(s \o t, i, j) = SubSeq(s, i, j)
  BY <1>1
<1>3. i \in DOMAIN (s \o t) /\ j \in DOMAIN (s \o t)
  BY <1>1
<1> QED BY <1>1, <1>2, <1>3 DEF Has

\* A key is found in what it was written behind.
LEMMA HasLast ==
  ASSUME NEW s \in Seq(Nat), NEW key \in Seq(Nat), key # <<>>
  PROVE  Has(s \o Append(key, NEWLINE), key)
<1> DEFINE t == s \o Append(key, NEWLINE)
<1>1. SubSeq(t, Len(s) + 1, Len(s) + Len(key)) = key
  BY DEF NEWLINE
<1>2. Len(s) + 1 \in DOMAIN t /\ Len(s) + Len(key) \in DOMAIN t /\ Len(key) >= 1
  BY DEF NEWLINE
<1>3. Len(s) + 1 <= Len(s) + Len(key)
  BY <1>2
<1> HIDE DEF t
<1>4. Has(t, key)
  BY <1>1, <1>2, <1>3 DEF Has
<1> QED BY <1>4 DEF t

\* grav_bytes_contain finds what is there ...
LEMMA Contained ==
  ASSUME NEW s \in Seq(Nat), NEW i \in DOMAIN s, NEW j \in DOMAIN s, i <= j
  PROVE  grav_bytes_contain(s, SubSeq(s, i, j))
<1>1. i \in 1..Len(s) /\ j \in 1..Len(s) /\ Len(s) \in Nat
  OBVIOUS
<1>2. Len(SubSeq(s, i, j)) = j - i + 1
  BY <1>1
<1>3. i + (j - i + 1) - 1 = j /\ i \in 1..(Len(s) + 1 - (j - i + 1))
  BY <1>1
<1> QED
  BY <1>1, <1>2, <1>3 DEF grav_bytes_contain

LEMMA SubSeqSame ==
  ASSUME NEW s \in Seq(Nat), NEW t \in Seq(Nat), NEW m \in Nat, NEW n \in 0..Len(s), m >= 1
  PROVE  SubSeq(s \o t, m, n) = SubSeq(s, m, n)
OBVIOUS

\* ... and nothing else.
LEMMA HasIsContained ==
  ASSUME NEW s \in Seq(Nat), NEW key \in Seq(Nat), key # <<>>
  PROVE  grav_bytes_contain(s, key) <=> Has(s, key)
<1>1. ASSUME Has(s, key) PROVE grav_bytes_contain(s, key)
  BY <1>1, Contained DEF Has
<1>2. ASSUME grav_bytes_contain(s, key) PROVE Has(s, key)
  <2>1. PICK i \in 1..(Len(s) + 1 - Len(key)) : SubSeq(s, i, i + Len(key) - 1) = key
    BY <1>2 DEF grav_bytes_contain
  <2>2. Len(key) >= 1 /\ Len(key) \in Nat /\ Len(s) \in Nat
    OBVIOUS
  <2>3. i \in DOMAIN s /\ i + Len(key) - 1 \in DOMAIN s /\ i <= i + Len(key) - 1
    BY <2>2
  <2> QED BY <2>1, <2>3 DEF Has
<1> QED BY <1>1, <1>2

\* The keys: not empty, and of one line.
Key == {key \in Seq(Nat) : key # <<>> /\ \A i \in DOMAIN key : key[i] # NEWLINE}

\* The lines of a cache that has grown are the old ones and the new one.
LEMMA LinesMore ==
  ASSUME NEW s \in Seq(Nat), NEW key \in Key, s # <<>> => s[Len(s)] = NEWLINE,
         NEW l \in Lines(s \o Append(key, NEWLINE))
  PROVE  \/ l \in Lines(s) /\ l[2] <= Len(s)
         \/ l = <<Len(s), Len(s) + Len(key) + 1>>
<1> DEFINE t == s \o Append(key, NEWLINE)
<1>1. t \in Seq(Nat) /\ Len(t) = Len(s) + Len(key) + 1 /\ key \in Seq(Nat)
  BY DEF Key, NEWLINE
<1>2. \A i \in 1..Len(s) : t[i] = s[i]
  BY <1>1
<1>3. \A i \in (Len(s) + 1)..(Len(s) + Len(key)) : t[i] # NEWLINE
  BY <1>1 DEF Key
<1> HIDE DEF t
<1>4. Newlines(t) \subseteq Newlines(s) \cup {Len(s) + Len(key) + 1}
  <2> SUFFICES ASSUME NEW i \in DOMAIN t, t[i] = NEWLINE, i # Len(s) + Len(key) + 1  PROVE i \in Newlines(s)
    BY DEF Newlines
  <2> DEFINE m == Len(s)
             n == Len(key)
  <2>1. i \in 1..(m + n + 1) /\ m \in Nat /\ n \in Nat /\ i \notin (m + 1)..(m + n) /\ i # m + n + 1
    BY <1>1, <1>3
  <2> HIDE DEF m, n
  <2>2. i \in 1..m
    BY <2>1
  <2> USE DEF m
  <2> QED BY <2>2, <1>2 DEF Newlines
<1>5. l \in LineEnds(t) \X Newlines(t) /\ l[1] < l[2] /\ \A k \in (l[1] + 1)..(l[2] - 1) : t[k] # NEWLINE
  BY DEF Lines, t
<1>6. Newlines(s) \subseteq 1..Len(s) /\ l[1] \in Nat /\ l[2] \in Nat /\ l = <<l[1], l[2]>>
  BY <1>1, <1>5 DEF Newlines, LineEnds
<1>7. CASE l[2] \in Newlines(s)
  <2>1. l[1] \in LineEnds(s)
    BY <1>4, <1>5, <1>6, <1>7, <1>1 DEF LineEnds
  <2>2. \A k \in (l[1] + 1)..(l[2] - 1) : s[k] # NEWLINE
    <3>1. \A k \in (l[1] + 1)..(l[2] - 1) : k \in 1..Len(s)
      BY <1>6, <1>7
    <3> QED BY <3>1, <1>2, <1>5
  <2> QED BY <2>1, <2>2, <1>5, <1>6, <1>7 DEF Lines
<1>8. CASE l[2] = Len(s) + Len(key) + 1
  <2>1. l[1] \in 0..Len(s)
    BY <1>4, <1>5, <1>6, <1>8, <1>1 DEF LineEnds
  <2>2. ASSUME l[1] # Len(s) PROVE FALSE
    <3>1. Len(s) \in (l[1] + 1)..(l[2] - 1) /\ s # <<>> /\ Len(s) \in 1..Len(s)
      BY <2>1, <2>2, <1>8, <1>1
    <3> QED BY <3>1, <1>2, <1>5
  <2> QED BY <2>2, <1>6, <1>8
<1> QED BY <1>4, <1>5, <1>7, <1>8

\* A key that is not there is written behind what is there.
LEMMA WrittenBehind ==
  ASSUME NEW s \in Seq(Nat), NEW key \in Key, NEW keys, LinesOnce(s, keys), ~Has(s, key)
  PROVE  LinesOnce(s \o Append(key, NEWLINE), keys \cup {key})
<1> DEFINE t == s \o Append(key, NEWLINE)
<1>1. t \in Seq(Nat) /\ Len(t) = Len(s) + Len(key) + 1 /\ key \in Seq(Nat) /\ Len(t) \in Nat
  BY DEF Key, NEWLINE
<1>2. Last(t) = NEWLINE
  BY <1>1 DEF Key, NEWLINE, Last
<1>3. s # <<>> => s[Len(s)] = NEWLINE
  BY DEF LinesOnce, Last
<1>4. SubSeq(t, Len(s) + 1, Len(s) + Len(key)) = key /\ SubSeq(t, 1, Len(s)) = s
  BY <1>1 DEF NEWLINE
<1>5. Append(key, NEWLINE) \in Seq(Nat)
  BY DEF Key, NEWLINE
<1>6. ASSUME NEW l \in Lines(t)
      PROVE  /\ SubSeq(t, l[1] + 1, l[2] - 1) \in keys \cup {key}
             /\ ~Has(SubSeq(t, 1, l[1]), SubSeq(t, l[1] + 1, l[2] - 1))
  <2>1. CASE l = <<Len(s), Len(s) + Len(key) + 1>>
    <3>1. l[1] = Len(s) /\ l[2] - 1 = Len(s) + Len(key)
      BY <2>1, <1>1
    <3> QED BY <3>1, <1>4
  <2>2. CASE l \in Lines(s) /\ l[2] <= Len(s)
    <3>1. l[1] \in 0..Len(s) /\ l[2] \in 1..Len(s)
      BY <2>2 DEF Lines, LineEnds, Newlines
    <3>2. l[1] + 1 \in Nat /\ l[1] + 1 >= 1 /\ l[2] - 1 \in 0..Len(s) /\ l[1] \in 0..Len(s)
      BY <3>1
    <3>3. SubSeq(t, l[1] + 1, l[2] - 1) = SubSeq(s, l[1] + 1, l[2] - 1)
      BY <3>2, <1>5, SubSeqSame
    <3>4. SubSeq(t, 1, l[1]) = SubSeq(s, 1, l[1])
      BY <3>2, <1>5, 1 \in Nat, 1 >= 1, SubSeqSame, Zenon
    <3> QED BY <3>3, <3>4, <2>2 DEF LinesOnce
  <2> QED BY <2>1, <2>2, <1>3, LinesMore
<1> HIDE DEF t
<1>7. LinesOnce(t, keys \cup {key})
  BY <1>2, <1>6 DEF LinesOnce
<1> QED BY <1>7 DEF t

Cache == [open : BOOLEAN, keys : Seq(Nat)]
CacheFile == [there : BOOLEAN, bytes : Seq(Nat), whole : BOOLEAN]

\* What the cache holds, and what its file holds, in case it is loaded.
AssetsInv ==
  /\ cache \in Cache /\ file \in CacheFile /\ torn \in BOOLEAN
  /\ KnownIsThere
  /\ cache.open /\ ~torn => LinesOnce(cache.keys, touched)
  /\ file.there /\ file.whole => LinesOnce(file.bytes, touched)

\* An empty cache has no lines.
LEMMA NoLines == ASSUME NEW keys PROVE LinesOnce(<<>>, keys)
BY DEF LinesOnce, Lines, Newlines

\* A client's keys have no newline.
LEMMA KeysAreKeys == Keys \subseteq Key
<1> SUFFICES ASSUME NEW key \in Keys PROVE key \in Key
  OBVIOUS
<1>1. PICK n \in 1..MAX_KEY : key \in [1..n -> Letters]
  BY DEF Keys
<1>2. n \in Nat /\ n >= 1 /\ Letters \subseteq Nat
  BY AssetsAssumption
<1>3. key \in [1..n -> Nat]
  BY <1>1, <1>2
<1>4. key \in Seq(Nat) /\ DOMAIN key = 1..n
  BY <1>2, <1>3, IsASeq
<1>5. key # <<>>
  BY <1>2, <1>4
<1>6. \A i \in DOMAIN key : key[i] # NEWLINE
  BY <1>1, <1>4, AssetsAssumption
<1> QED BY <1>4, <1>5, <1>6 DEF Key

\* gravPipelineCacheTouch: the new key is behind the others, or was there.
LEMMA TouchKeeps ==
  ASSUME AssetsInv, PipelineCacheTouch PROVE AssetsInv'
<1>1. PICK key \in Keys \cup {<<>>} :
        \/ UNCHANGED <<cache, known, touched>>
        \/ /\ key # <<>>
           /\ cache' = [cache EXCEPT !.keys = Touched(@, key)]
           /\ known' = known \cup {key} /\ touched' = touched \cup {key}
  BY DEF PipelineCacheTouch
<1>2. CASE UNCHANGED <<cache, known, touched>>
  BY <1>2 DEF AssetsInv, PipelineCacheTouch, KnownIsThere
<1>3. CASE /\ key # <<>>
           /\ cache' = [cache EXCEPT !.keys = Touched(@, key)]
           /\ known' = known \cup {key} /\ touched' = touched \cup {key}
  <2>1. key \in Key /\ key \in Seq(Nat) /\ cache.keys \in Seq(Nat)
    BY <1>3, KeysAreKeys DEF Key, AssetsInv, Cache
  <2>2. UNCHANGED <<file, saved, torn>> /\ cache.open
    BY DEF PipelineCacheTouch
  <2>3. LinesOnce(cache.keys, touched) => LinesOnce(cache.keys, touched')
    BY <1>3 DEF LinesOnce
  <2>4. LinesOnce(file.bytes, touched) => LinesOnce(file.bytes, touched')
    BY <1>3 DEF LinesOnce
  <2>5. CASE grav_bytes_contain(cache.keys, key)
    <3>1. Has(cache.keys, key)
      BY <2>1, <2>5, HasIsContained, <1>3
    <3>2. cache' = cache
      BY <1>3, <2>5 DEF Touched, AssetsInv, Cache
    <3>3. KnownIsThere'
      BY <1>3, <2>2, <3>1, <3>2 DEF AssetsInv, KnownIsThere
    <3> QED BY <2>2, <2>3, <2>4, <3>2, <3>3 DEF AssetsInv
  <2>6. CASE ~grav_bytes_contain(cache.keys, key)
    <3>1. cache' = [cache EXCEPT !.keys = @ \o Append(key, NEWLINE)]
      BY <1>3, <2>6 DEF Touched
    <3>2. Append(key, NEWLINE) \in Seq(Nat) /\ cache.keys \o Append(key, NEWLINE) \in Seq(Nat)
      BY <2>1 DEF NEWLINE
    <3>3. cache' \in Cache /\ cache'.keys = cache.keys \o Append(key, NEWLINE) /\ cache'.open
      BY <2>1, <2>2, <3>1, <3>2 DEF AssetsInv, Cache
    <3>4. ASSUME NEW k \in known' PROVE Has(cache'.keys, k)
      <4>1. CASE k = key
        BY <4>1, <2>1, <1>3, <3>3, HasLast
      <4>2. CASE k \in known
        BY <4>2, <2>1, <3>2, <3>3, HasMore DEF AssetsInv, KnownIsThere
      <4> QED BY <4>1, <4>2, <1>3
    <3>5. ~Has(cache.keys, key)
      BY <2>1, <2>6, HasIsContained, <1>3
    <3>6. ~torn => LinesOnce(cache'.keys, touched')
      BY <2>1, <2>2, <3>3, <3>5, <1>3, WrittenBehind DEF AssetsInv
    <3>7. KnownIsThere'
      BY <2>2, <3>4 DEF AssetsInv, KnownIsThere
    <3> QED BY <2>2, <2>4, <3>3, <3>6, <3>7 DEF AssetsInv
  <2> QED BY <2>5, <2>6
<1> QED BY <1>1, <1>2, <1>3

\* gravPipelineCacheSave: a whole file is as the cache is.
LEMMA SaveKeeps ==
  ASSUME AssetsInv, PipelineCacheSave PROVE AssetsInv'
<1>1. CASE UNCHANGED <<file, saved>>
  BY <1>1 DEF AssetsInv, PipelineCacheSave, KnownIsThere
<1>2. CASE ~UNCHANGED <<file, saved>>
  <2>1. PICK bytes \in Prefixes(cache.keys) :
          /\ file' = [there |-> TRUE, bytes |-> bytes, whole |-> bytes = cache.keys /\ ~torn]
          /\ saved' = IF bytes = cache.keys THEN known ELSE {}
    BY <1>2 DEF PipelineCacheSave
  <2>2. UNCHANGED <<cache, known, touched, torn>> /\ cache.open
    BY DEF PipelineCacheSave
  <2>3. bytes \in Seq(Nat)
    BY <2>1 DEF Prefixes, AssetsInv, Cache
  <2>4. file' \in CacheFile /\ file'.bytes = bytes /\ file'.whole = (bytes = cache.keys /\ ~torn)
    BY <2>1, <2>3 DEF CacheFile
  <2>5. KnownIsThere'
    BY <2>1, <2>2, <2>4 DEF AssetsInv, KnownIsThere
  <2>6. file'.whole => LinesOnce(file'.bytes, touched')
    BY <2>2, <2>4 DEF AssetsInv
  <2> QED BY <2>2, <2>4, <2>5, <2>6 DEF AssetsInv
<1> QED BY <1>1, <1>2

\* gravPipelineCacheLoad: what is loaded was saved.
LEMMA LoadKeeps ==
  ASSUME AssetsInv, PipelineCacheLoad PROVE AssetsInv'
<1>1. UNCHANGED <<file, saved, touched>>
  BY DEF PipelineCacheLoad
<1>2. CASE UNCHANGED <<cache, known, torn>>
  BY <1>1, <1>2 DEF AssetsInv, KnownIsThere
<1>3. CASE /\ file.there /\ cache' = [cache EXCEPT !.keys = file.bytes]
           /\ known' = saved /\ torn' = ~file.whole
  <2>1. cache' \in Cache /\ cache'.keys = file.bytes /\ torn' \in BOOLEAN
    BY <1>3 DEF AssetsInv, Cache, CacheFile
  <2>2. KnownIsThere'
    BY <1>1, <1>3, <2>1 DEF AssetsInv, KnownIsThere
  <2> QED BY <1>1, <1>3, <2>1, <2>2 DEF AssetsInv
<1>4. CASE /\ cache' = [cache EXCEPT !.keys = <<>>]
           /\ known' = {} /\ torn' = FALSE
  <2>1. <<>> \in Seq(Nat)
    OBVIOUS
  <2>2. cache' \in Cache /\ cache'.keys = <<>>
    BY <1>4, <2>1 DEF AssetsInv, Cache
  <2>3. KnownIsThere'
    BY <1>1, <1>4 DEF AssetsInv, KnownIsThere
  <2> QED BY <1>1, <1>4, <2>2, <2>3, NoLines DEF AssetsInv
<1> QED BY <1>2, <1>3, <1>4 DEF PipelineCacheLoad

LEMMA AssetsStep == AssetsInv /\ [AssetsNext]_assetsVars => AssetsInv'
<1> SUFFICES ASSUME AssetsInv, [AssetsNext]_assetsVars PROVE AssetsInv'
  OBVIOUS
<1>e. <<>> \in Seq(Nat)
  OBVIOUS
<1>1. ASSUME UNCHANGED <<cache, file, known, saved, touched, torn>> PROVE AssetsInv'
  BY <1>1 DEF AssetsInv, KnownIsThere
<1>2. CASE CompressVertices \/ DecompressVertices \/ Replied \/ UNCHANGED assetsVars
  BY <1>1, <1>2 DEF CompressVertices, DecompressVertices, Replied, assetsVars
<1>3. CASE CreatePipelineCache
  <2>1. cache' = [open |-> TRUE, keys |-> <<>>] /\ known' = {} /\ torn' = FALSE
        /\ UNCHANGED <<file, saved, touched>>
    BY <1>3 DEF CreatePipelineCache
  <2> QED BY <2>1, <1>e, NoLines DEF AssetsInv, KnownIsThere, Cache
<1>4. CASE DestroyPipelineCache
  <2>1. cache' = Closed /\ known' = {} /\ torn' = FALSE
        /\ UNCHANGED <<file, saved, touched>>
    BY <1>4 DEF DestroyPipelineCache
  <2> QED BY <2>1, <1>e DEF AssetsInv, KnownIsThere, Cache, Closed
<1> QED BY <1>2, <1>3, <1>4, TouchKeeps, SaveKeeps, LoadKeeps DEF AssetsNext

(* gravPipelineCacheTouch, -Save, -Load: the cache and a file that was     *)
(* written whole hold every key that they should, each line of theirs is a *)
(* key once touched, and none is stored twice, for keys of any letters and *)
(* length and in any order of calls, runs and failures.                    *)
THEOREM KeysCorrect == AssetsSpec => []KeysAsTouched
<1>1. ASSUME AssetsInit PROVE AssetsInv
  <2>1. <<>> \in Seq(Nat)
    OBVIOUS
  <2> QED BY <1>1, <2>1 DEF AssetsInit, AssetsInv, KnownIsThere, Closed, NoCacheFile, Cache, CacheFile
<1>2. AssetsInv => KeysAsTouched
  BY DEF AssetsInv, KeysAsTouched
<1> QED BY <1>1, <1>2, AssetsStep, PTL DEF AssetsSpec
----------------------------------------------------------------------------
\* Rows and columns: the quotient and remainder of a place in rows of n.
LEMMA RowAndColumn ==
  ASSUME NEW n \in Nat \ {0}, NEW q \in Nat, NEW r \in 0 .. n - 1
  PROVE  (q * n + r) \div n = q /\ (q * n + r) % n = r /\ q * n + r \in Nat
OBVIOUS

\* The k-th place of h rows of n is in a row and a column.
LEMMA PlaceInRows ==
  ASSUME NEW n \in Nat \ {0}, NEW h \in Nat, NEW k \in 1 .. n * h
  PROVE  /\ (k - 1) \div n \in 0 .. h - 1 /\ (k - 1) % n \in 0 .. n - 1
         /\ k = ((k - 1) \div n) * n + ((k - 1) % n) + 1
OBVIOUS

\* And each row and column has its place.
LEMMA PlaceIsInside ==
  ASSUME NEW n \in Nat \ {0}, NEW h \in Nat, NEW y \in 0 .. h - 1, NEW x \in 0 .. n - 1
  PROVE  y * n + x + 1 \in 1 .. n * h
OBVIOUS

\* What is made of an image is one.
Pixel == Int \X Int \X Int \X Int
IsImage(i) ==
  /\ i = [w |-> i.w, h |-> i.h, px |-> i.px]
  /\ i.w \in Nat \ {0} /\ i.h \in Nat \ {0}
  /\ i.px \in [1 .. i.w * i.h -> Pixel]
Opaqued(i) == [i EXCEPT !.px = [p \in DOMAIN @ |-> Opaque(@[p])]]

\* A pixel made opaque keeps its colour.
LEMMA OpaqueIs ==
  ASSUME NEW p \in Pixel
  PROVE  Opaque(p) = <<p[1], p[2], p[3], 255>> /\ Opaque(p) \in Pixel
BY DEF Opaque, Pixel

\* An image made opaque has the same sides, and opaque pixels.
LEMMA OpaquedIs ==
  ASSUME NEW i, IsImage(i)
  PROVE  /\ IsImage(Opaqued(i)) /\ Opaqued(i).w = i.w /\ Opaqued(i).h = i.h
         /\ \A k \in 1 .. i.w * i.h : Opaqued(i).px[k] = Opaque(i.px[k])
<1>1. Opaqued(i) = [w |-> i.w, h |-> i.h, px |-> [p \in 1 .. i.w * i.h |-> Opaque(i.px[p])]]
  <2>1. \A w, h, px, f : [[w |-> w, h |-> h, px |-> px] EXCEPT !.px = f] = [w |-> w, h |-> h, px |-> f]
    OBVIOUS
  <2>2. Opaqued([w |-> i.w, h |-> i.h, px |-> i.px])
          = [w |-> i.w, h |-> i.h, px |-> [p \in DOMAIN i.px |-> Opaque(i.px[p])]]
    BY <2>1 DEF Opaqued
  <2>3. DOMAIN i.px = 1 .. i.w * i.h /\ i = [w |-> i.w, h |-> i.h, px |-> i.px]
    BY DEF IsImage
  <2>4. QED
    BY <2>2, <2>3
<1>2. \A k \in 1 .. i.w * i.h : Opaque(i.px[k]) \in Pixel
  BY OpaqueIs DEF IsImage
<1>3. QED
  BY <1>1, <1>2 DEF IsImage

\* What is at a column and a row of an image.
LEMMA PixelAt ==
  ASSUME NEW i, IsImage(i), NEW x \in 0 .. i.w - 1, NEW y \in 0 .. i.h - 1
  PROVE  At(i, x, y) = i.px[y * i.w + x + 1] /\ At(i, x, y) \in Pixel
<1>1. y * i.w + x + 1 \in 1 .. i.w * i.h
  BY PlaceIsInside DEF IsImage
<1>2. QED
  BY <1>1 DEF At, IsImage

\* A row takes as many bytes as its pixels at least.
LEMMA StrideIs ==
  ASSUME NEW w \in Nat \ {0}
  PROVE  /\ Stride(w, 24) \in Nat \ {0} /\ Stride(w, 24) >= w * 3 /\ Stride(w, 32) = w * 4
BY DEF Stride

\* The bytes of a bitmap.
LEMMA BitmapIs ==
  ASSUME NEW i, IsImage(i)
  PROVE  LET n == Stride(i.w, 24)
         IN  /\ Bitmap(i) = [size |-> HEADER + i.h * n, w |-> i.w, h |-> -i.h, bpp |-> 24, compr |-> 0,
                             dib |-> 40, data |-> Bitmap(i).data]
             /\ Bitmap(i).data \in Seq(Int) /\ Len(Bitmap(i).data) = i.h * n
             /\ \A y \in 0 .. i.h - 1, k \in 1 .. n :
                  Bitmap(i).data[y * n + k] = SavedByte(i, y, k)
<1> DEFINE n == Stride(i.w, 24)
           data == [k \in 1 .. (i.h * n) |-> SavedRow(i, (k - 1) \div n)[((k - 1) % n) + 1]]
<1>1. n \in Nat \ {0} /\ i.w \in Nat \ {0} /\ i.h \in Nat \ {0} /\ i.h * n \in Nat /\ n * i.h = i.h * n
  BY StrideIs DEF IsImage
<1>2. ASSUME NEW y \in 0 .. i.h - 1, NEW k \in 1 .. n PROVE SavedByte(i, y, k) \in Int
  <2>1. CASE k <= i.w * 3
    <3>1. (k - 1) \div 3 \in 0 .. i.w - 1 /\ 3 - ((k - 1) % 3) \in 1 .. 3
      BY <1>1, <2>1
    <3>2. At(i, (k - 1) \div 3, y) \in Pixel
      BY <3>1, PixelAt
    <3>3. \A p \in Pixel : \A c \in 1 .. 3 : p[c] \in Int
      BY DEF Pixel
    <3>4. QED
      BY <2>1, <3>1, <3>2, <3>3 DEF SavedByte
  <2>2. CASE ~(k <= i.w * 3)
    BY <2>2 DEF SavedByte
  <2>3. QED
    BY <2>1, <2>2
<1>3. \A y \in 0 .. i.h - 1 : SavedRow(i, y) \in Seq(Int) /\ Len(SavedRow(i, y)) = n
  <2> TAKE y \in 0 .. i.h - 1
  <2>1. SavedRow(i, y) = [k \in 1 .. n |-> SavedByte(i, y, k)]
    BY DEF SavedRow
  <2>2. SavedRow(i, y) \in [1 .. n -> Int]
    <3> HIDE DEF n
    <3> QED BY <1>2, <2>1
  <2>3. QED
    <3> HIDE DEF n
    <3> QED BY <1>1, <2>2, LenProperties
<1>4. \A k \in 1 .. i.h * n : (k - 1) \div n \in 0 .. i.h - 1 /\ ((k - 1) % n) + 1 \in 1 .. n
  <2> HIDE DEF n
  <2> TAKE k \in 1 .. i.h * n
  <2>1. (k - 1) \div n \in 0 .. i.h - 1 /\ (k - 1) % n \in 0 .. n - 1
    BY <1>1, PlaceInRows
  <2>2. QED
    BY <1>1, <2>1
<1>5. data \in [1 .. i.h * n -> Int]
  <2>1. \A y \in 0 .. i.h - 1, k \in 1 .. n : SavedRow(i, y)[k] = SavedByte(i, y, k)
    BY DEF SavedRow
  <2>2. QED
    <3> HIDE DEF n
    <3> QED BY <1>2, <1>4, <2>1
<1>6. data \in Seq(Int) /\ Len(data) = i.h * n
  <2> HIDE DEF n, data
  <2> QED BY <1>1, <1>5, LenProperties
<1>7. Bitmap(i) = [size |-> HEADER + i.h * n, w |-> i.w, h |-> -i.h, bpp |-> 24, compr |-> 0,
                  dib |-> 40, data |-> data]
  <2>1. Len(SavedRow(i, 0)) = n
    BY <1>1, <1>3
  <2>2. QED
    BY <1>6, <2>1 DEF Bitmap
<1>8. ASSUME NEW y \in 0 .. i.h - 1, NEW k \in 1 .. n PROVE data[y * n + k] = SavedByte(i, y, k)
  <2>1. PICK z \in 1 .. i.h * n : z = y * n + k /\ (z - 1) \div n = y /\ (z - 1) % n = k - 1
    <3> HIDE DEF n
    <3>1. y * n + (k - 1) + 1 \in 1 .. i.h * n
      BY <1>1, PlaceIsInside
    <3> DEFINE r == k - 1
    <3>6. r \in 0 .. n - 1 /\ y \in Nat
      BY <1>1
    <3>7. (y * n + r) \div n = y /\ (y * n + r) % n = r
      <4> HIDE DEF r
      <4> QED BY <1>1, <3>6, RowAndColumn
    <3>2. (y * n + (k - 1)) \div n = y /\ (y * n + (k - 1)) % n = k - 1
      BY <3>7
    <3>3. PICK m \in Int : m = y * n
      BY <1>1
    <3>4. m + (k - 1) + 1 = m + k /\ m + (k - 1) + 1 - 1 = m + (k - 1)
      BY <1>1
    <3>5. QED
      BY <3>1, <3>2, <3>3, <3>4
  <2>2. data[z] = SavedRow(i, (z - 1) \div n)[((z - 1) % n) + 1]
    OBVIOUS
  <2>3. k - 1 + 1 = k
    BY <1>1
  <2>4. data[z] = SavedRow(i, y)[k]
    <3> HIDE DEF n, data
    <3> QED BY <2>1, <2>2, <2>3
  <2>5. data[y * n + k] = SavedRow(i, y)[k]
    <3> HIDE DEF n, data
    <3> QED BY <2>1, <2>4
  <2>6. QED
    BY <2>5 DEF SavedRow
<1>9. QED
  <2> HIDE DEF n, data
  <2> QED BY <1>6, <1>7, <1>8 DEF n

\* It is the picture when each of its pixels is.
LEMMA LoadedIs ==
  ASSUME NEW f, NEW i, IsImage(i), f.w = i.w, f.h = i.h \/ f.h = -i.h,
         \A x \in 0 .. i.w - 1, y \in 0 .. i.h - 1 : LoadedPixel(f, i.h, x, y) = At(i, x, y)
  PROVE  Loaded(f) = i
<1>1. i.w \in Nat \ {0} /\ i.h \in Nat \ {0} /\ (IF f.h < 0 THEN -f.h ELSE f.h) = i.h
  BY DEF IsImage
<1>2. Loaded(f) = [w |-> i.w, h |-> i.h,
                   px |-> [k \in 1 .. i.w * i.h |-> LoadedPixel(f, i.h, X(k, i.w), Y(k, i.w))]]
  BY <1>1, Zenon DEF Loaded
<1>3. ASSUME NEW k \in 1 .. i.w * i.h PROVE LoadedPixel(f, i.h, X(k, i.w), Y(k, i.w)) = i.px[k]
  <2>1. /\ Y(k, i.w) \in 0 .. i.h - 1 /\ X(k, i.w) \in 0 .. i.w - 1
        /\ k = Y(k, i.w) * i.w + X(k, i.w) + 1
    BY <1>1, PlaceInRows DEF X, Y
  <2>2. At(i, X(k, i.w), Y(k, i.w)) = i.px[Y(k, i.w) * i.w + X(k, i.w) + 1]
    BY DEF At
  <2>3. QED
    <3> HIDE DEF X
    <3> QED BY <2>1, <2>2
<1>4. [k \in 1 .. i.w * i.h |-> LoadedPixel(f, i.h, X(k, i.w), Y(k, i.w))] = i.px
  BY <1>3 DEF IsImage
<1>5. QED
  BY <1>2, <1>4 DEF IsImage

\* What is saved is loaded, but for the alpha that a row has no room for.
LEMMA SavedIsLoaded ==
  ASSUME NEW i, IsImage(i), NEW f, f.w = i.w, f.h = -i.h, f.bpp = 24, f.data = Bitmap(i).data
  PROVE  Loaded(f) = Opaqued(i)
<1> DEFINE o == Opaqued(i)
           n == Stride(i.w, 24)
<1>1. IsImage(o) /\ o.w = i.w /\ o.h = i.h /\ i.w \in Nat \ {0} /\ i.h \in Nat \ {0}
  BY OpaquedIs DEF IsImage
<1>2. ASSUME NEW x \in 0 .. i.w - 1, NEW y \in 0 .. i.h - 1
      PROVE  LoadedPixel(f, o.h, x, y) = At(o, x, y)
  <2>1. At(o, x, y) = Opaque(At(i, x, y)) /\ At(i, x, y) \in Pixel
    <3>1. y * i.w + x + 1 \in 1 .. i.w * i.h
      BY <1>1, PlaceIsInside
    <3>2. o.px[y * i.w + x + 1] = Opaque(i.px[y * i.w + x + 1])
      BY <3>1, OpaquedIs
    <3>3. QED
      BY <1>1, <3>2, PixelAt DEF At
  <2>2. ASSUME NEW c \in 1 .. 3 PROVE f.data[y * n + x * 3 + c] = At(i, x, y)[4 - c]
    <3>1. /\ x * 3 + c \in 1 .. n /\ x * 3 + c <= i.w * 3
          /\ (x * 3 + c - 1) \div 3 = x /\ 3 - ((x * 3 + c - 1) % 3) = 4 - c
      <4>1. n \in Nat /\ n >= i.w * 3
        BY <1>1, StrideIs
      <4>2. QED
        <5> HIDE DEF n
        <5> QED BY <1>1, <4>1
    <3>2. PICK k \in 1 .. n : k = x * 3 + c
      BY <3>1
    <3>3. f.data[y * n + k] = SavedByte(i, y, k)
      BY BitmapIs
    <3>4. SavedByte(i, y, k) = At(i, x, y)[4 - c]
      BY <3>1, <3>2 DEF SavedByte
    <3>5. y * n + k = y * n + x * 3 + c
      <4>1. y * n \in Int
        BY <1>1, StrideIs
      <4>2. QED
        <5> HIDE DEF n
        <5> QED BY <1>1, <3>2, <4>1
    <3>6. QED
      <4> HIDE DEF n
      <4> QED BY <3>3, <3>4, <3>5
  <2>3. LoadedPixel(f, o.h, x, y) = <<f.data[y * n + x * 3 + 3], f.data[y * n + x * 3 + 2], f.data[y * n + x * 3 + 1], 255>>
    <3>1. ~(f.h > 0) /\ f.bpp \div 8 = 3 /\ f.bpp = 24 /\ f.w = i.w
      BY <1>1
    <3>2. QED
      BY <3>1 DEF LoadedPixel
  <2>4. LoadedPixel(f, o.h, x, y) = <<At(i, x, y)[1], At(i, x, y)[2], At(i, x, y)[3], 255>>
    <3> HIDE DEF n
    <3>1. f.data[y * n + x * 3 + 3] = At(i, x, y)[1] /\ f.data[y * n + x * 3 + 2] = At(i, x, y)[2]
            /\ f.data[y * n + x * 3 + 1] = At(i, x, y)[3]
      <4>1. 4 - 3 = 1 /\ 4 - 2 = 2 /\ 4 - 1 = 3 /\ 1 \in 1 .. 3 /\ 2 \in 1 .. 3 /\ 3 \in 1 .. 3
        OBVIOUS
      <4>2. QED
        BY <2>2, <4>1
    <3>2. QED
      BY <2>3, <3>1
  <2>5. QED
    BY <2>1, <2>4, OpaqueIs
<1>3. QED
  <2> HIDE DEF o
  <2>1. Loaded(f) = o
    BY <1>1, <1>2, LoadedIs
  <2>2. QED
    BY <2>1 DEF o

\* What another program saves, 32 bits to a pixel and the rows from the bottom, is loaded.
LEMMA ForeignIsLoaded ==
  ASSUME NEW i, IsImage(i), NEW f, f.w = i.w, f.h = i.h, f.bpp = 32, f.data = ForeignBitmap(i).data
  PROVE  Loaded(f) = i
<1> DEFINE byte(k, m) == At(i, X(m, i.w), i.h - 1 - Y(m, i.w))[<<3, 2, 1, 4>>[((k - 1) % 4) + 1]]
<1>1. i.w \in Nat \ {0} /\ i.h \in Nat \ {0}
  BY DEF IsImage
<1>2. f.data = [k \in 1 .. i.w * i.h * 4 |-> byte(k, (k + 3) \div 4)]
  BY DEF ForeignBitmap
<1>3. ASSUME NEW x \in 0 .. i.w - 1, NEW y \in 0 .. i.h - 1
      PROVE  LoadedPixel(f, i.h, x, y) = At(i, x, y)
  <2> DEFINE row == i.h - 1 - y
  <2>1. row \in 0 .. i.h - 1 /\ i.h - 1 - row = y
    BY <1>1
  <2>2. PICK m \in 1 .. i.w * i.h : m = row * i.w + x + 1 /\ X(m, i.w) = x /\ Y(m, i.w) = row
    <3> HIDE DEF row
    <3>1. row * i.w + x + 1 \in 1 .. i.w * i.h
      BY <1>1, <2>1, PlaceIsInside
    <3>2. (row * i.w + x) \div i.w = row /\ (row * i.w + x) % i.w = x
      <4>1. i.w \in Nat \ {0} /\ row \in Nat /\ x \in 0 .. i.w - 1
        BY <1>1, <2>1
      <4> HIDE DEF row
      <4>2. QED
        BY ONLY <4>1, RowAndColumn
    <3>3. PICK r \in Int : r = row * i.w
      BY <1>1, <2>1
    <3>4. r + x + 1 - 1 = r + x
      BY <1>1
    <3>5. QED
      BY <3>1, <3>2, <3>3, <3>4 DEF X, Y
  <2>3. ASSUME NEW c \in 1 .. 4
        PROVE  f.data[row * (i.w * 4) + x * 4 + c] = At(i, x, y)[<<3, 2, 1, 4>>[c]]
    <3> HIDE DEF row
    <3>1. PICK k \in Int : k = (m - 1) * 4 + c
      BY <1>1
    <3>2. k \in 1 .. i.w * i.h * 4 /\ (k + 3) \div 4 = m /\ ((k - 1) % 4) + 1 = c
      <4>1. PICK t \in Nat : t = i.w * i.h
        BY <1>1
      <4>2. k \in 1 .. t * 4
        BY <3>1, <4>1
      <4>3. (k + 3) \div 4 = m
        BY <3>1
      <4>4. (k - 1) % 4 = c - 1
        <5>1. k - 1 = (m - 1) * 4 + (c - 1) /\ c - 1 \in 0 .. 3 /\ m - 1 \in Nat
          BY <3>1
        <5>2. QED
          BY ONLY <5>1, RowAndColumn
      <4>5. QED
        BY <4>1, <4>2, <4>3, <4>4
    <3>3. f.data[k] = byte(k, m)
      BY <1>2, <3>2
    <3>4. byte(k, m) = At(i, x, i.h - 1 - row)[<<3, 2, 1, 4>>[c]]
      BY <2>2, <3>2
    <3>5. row * (i.w * 4) + x * 4 + c = k
      <4>1. PICK r \in Int : r = row * i.w /\ row * (i.w * 4) = r * 4
        BY <1>1, <2>1
      <4>2. QED
        BY <1>1, <2>2, <3>1, <4>1
    <3>6. QED
      BY <2>1, <3>3, <3>4, <3>5
  <2>4. LoadedPixel(f, i.h, x, y) =
          <<f.data[row * (i.w * 4) + x * 4 + 3], f.data[row * (i.w * 4) + x * 4 + 2],
            f.data[row * (i.w * 4) + x * 4 + 1], f.data[row * (i.w * 4) + x * 4 + 4]>>
    <3>1. f.h > 0 /\ f.bpp \div 8 = 4 /\ f.bpp # 24 /\ Stride(f.w, f.bpp) = i.w * 4
      BY <1>1, StrideIs
    <3>2. QED
      BY <3>1 DEF LoadedPixel
  <2>5. LoadedPixel(f, i.h, x, y) = <<At(i, x, y)[1], At(i, x, y)[2], At(i, x, y)[3], At(i, x, y)[4]>>
    <3> HIDE DEF row
    <3>1. <<3, 2, 1, 4>>[1] = 3 /\ <<3, 2, 1, 4>>[2] = 2 /\ <<3, 2, 1, 4>>[3] = 1 /\ <<3, 2, 1, 4>>[4] = 4
      OBVIOUS
    <3>2. 1 \in 1 .. 4 /\ 2 \in 1 .. 4 /\ 3 \in 1 .. 4 /\ 4 \in 1 .. 4
      OBVIOUS
    <3>3. f.data[row * (i.w * 4) + x * 4 + 3] = At(i, x, y)[1]
      BY <2>3, <3>1, <3>2
    <3>4. f.data[row * (i.w * 4) + x * 4 + 2] = At(i, x, y)[2]
      BY <2>3, <3>1, <3>2
    <3>5. f.data[row * (i.w * 4) + x * 4 + 1] = At(i, x, y)[3]
      BY <2>3, <3>1, <3>2
    <3>6. f.data[row * (i.w * 4) + x * 4 + 4] = At(i, x, y)[4]
      BY <2>3, <3>1, <3>2
    <3>7. QED
      BY <2>4, <3>3, <3>4, <3>5, <3>6
  <2>6. At(i, x, y) \in Pixel
    BY PixelAt
  <2>7. QED
    BY <2>5, <2>6 DEF Pixel
<1>4. QED
  BY <1>3, LoadedIs

(* The inductive invariant: the image is one, and the file is of the       *)
(* picture shown, as much of it as was written (SaveImageBMP), or what     *)
(* another program makes of it, its header sound or not.                   *)
CutFile(i, f) ==
  \/ f.size \in 0 .. HEADER - 1 /\ f = [size |-> f.size]
  \/ f.size \in HEADER .. Bitmap(i).size /\ f = CutTo(Bitmap(i), f.size)
Foreign(i) ==
  LET f == ForeignBitmap(i)
  IN  {f, [f EXCEPT !.compr = 1], [f EXCEPT !.bpp = 8], [f EXCEPT !.dib = 12], [f EXCEPT !.h = 0]}

ImagesInv ==
  /\ image = NoImage \/ IsImage(image)
  /\ disk # NoFile => /\ IsImage(shown)
                      /\ \/ CutFile(shown, disk) /\ Opaqued(shown) = shown
                         \/ disk \in Foreign(shown)

(* A file of a picture, whole, cut short or of a header that is refused:   *)
(* either the picture is loaded or the file is not a whole one.            *)
LEMMA FileIsRead ==
  ASSUME NEW i, IsImage(i), NEW f, (CutFile(i, f) /\ Opaqued(i) = i) \/ f \in Foreign(i)
  PROVE  /\ f # NoFile
         /\ LoadResult(f) = "success" => Loaded(f) = i
         /\ LoadResult(f) # "success" => f # ForeignBitmap(i) /\ (f.size # Bitmap(i).size \/ f.bpp # 24)
         /\ LoadResult(f) \in {"io", "invalid", "success"}
<1> DEFINE n == Stride(i.w, 24)
           full == HEADER + i.h * n
<1>1. i.w \in Nat \ {0} /\ i.h \in Nat \ {0} /\ n \in Nat \ {0} /\ i.h * n \in Nat \ {0} /\ n * i.h = i.h * n
  BY StrideIs DEF IsImage
<1>2. /\ Bitmap(i) = [size |-> full, w |-> i.w, h |-> -i.h, bpp |-> 24, compr |-> 0,
                     dib |-> 40, data |-> Bitmap(i).data]
      /\ Bitmap(i).data \in Seq(Int) /\ Len(Bitmap(i).data) = i.h * n
  BY BitmapIs
<1>3. PICK d : ForeignBitmap(i) = [size |-> HEADER + i.w * i.h * 4, w |-> i.w, h |-> i.h, bpp |-> 32, compr |-> 3,
                                  dib |-> 40, data |-> d]
  BY DEF ForeignBitmap
<1>4. PICK m \in Nat \ {0} : m = i.w * i.h * 4 /\ i.w * 4 * i.h = m
  BY <1>1
<1> HIDE DEF n
<1>5. CASE f.size \in 0 .. HEADER - 1 /\ f = [size |-> f.size]
  <2>1. LoadResult(f) = "io"
    BY <1>5 DEF LoadResult, HEADER
  <2>2. f # NoFile /\ f # ForeignBitmap(i) /\ f.size # Bitmap(i).size
    <3>1. f.size # -1 /\ f.size # ForeignBitmap(i).size /\ f.size # Bitmap(i).size
      <4>1. ForeignBitmap(i).size = HEADER + m /\ Bitmap(i).size = full
        BY <1>2, <1>3, <1>4
      <4>2. PICK z \in Int : z = f.size /\ full > z /\ HEADER + m > z /\ z >= 0 /\ full \in Int /\ HEADER + m \in Int
        BY <1>1, <1>4, <1>5 DEF HEADER
      <4>3. QED
        <5> HIDE DEF full
        <5> QED BY <4>1, <4>2
    <3>2. NoFile.size = -1
      BY DEF NoFile
    <3>3. QED
      BY <3>1, <3>2
  <2>3. QED
    BY <2>1, <2>2
<1>6. CASE f.size \in HEADER .. Bitmap(i).size /\ f = CutTo(Bitmap(i), f.size) /\ Opaqued(i) = i
  <2>1. /\ f = [size |-> f.size, w |-> i.w, h |-> -i.h, bpp |-> 24, compr |-> 0, dib |-> 40, data |-> f.data]
        /\ f.data = SubSeq(Bitmap(i).data, 1, f.size - HEADER)
    <3>1. \A b, c, e, w, h :
            [[size |-> b, w |-> w, h |-> h, bpp |-> 24, compr |-> 0, dib |-> 40, data |-> c] EXCEPT !.size = e]
              = [size |-> e, w |-> w, h |-> h, bpp |-> 24, compr |-> 0, dib |-> 40, data |-> c]
      OBVIOUS
    <3>2. \A c, e, g, w, h :
            [[size |-> e, w |-> w, h |-> h, bpp |-> 24, compr |-> 0, dib |-> 40, data |-> c] EXCEPT !.data = g]
              = [size |-> e, w |-> w, h |-> h, bpp |-> 24, compr |-> 0, dib |-> 40, data |-> g]
      OBVIOUS
    <3>3. \A r, e, g : [r EXCEPT !.size = e, !.data = g] = [[r EXCEPT !.size = e] EXCEPT !.data = g]
      OBVIOUS
    <3>4. PICK b, c, w, h :
            /\ Bitmap(i) = [size |-> b, w |-> w, h |-> h, bpp |-> 24, compr |-> 0, dib |-> 40, data |-> c]
            /\ b = full /\ w = i.w /\ h = -i.h /\ c = Bitmap(i).data
      BY <1>2
    <3>5. f = [size |-> f.size, w |-> w, h |-> h, bpp |-> 24, compr |-> 0, dib |-> 40,
               data |-> SubSeq(c, 1, f.size - HEADER)]
      <4>1. f = [Bitmap(i) EXCEPT !.size = f.size, !.data = SubSeq(c, 1, f.size - HEADER)]
        BY <1>6, <3>4 DEF CutTo
      <4>2. PICK e, g : e = f.size /\ g = SubSeq(c, 1, f.size - HEADER)
        OBVIOUS
      <4>3. f = [[Bitmap(i) EXCEPT !.size = e] EXCEPT !.data = g]
        BY <3>3, <4>1, <4>2
      <4>4. [Bitmap(i) EXCEPT !.size = e]
              = [size |-> e, w |-> w, h |-> h, bpp |-> 24, compr |-> 0, dib |-> 40, data |-> c]
        BY <3>1, <3>4
      <4>5. f = [size |-> e, w |-> w, h |-> h, bpp |-> 24, compr |-> 0, dib |-> 40, data |-> g]
        BY <3>2, <4>3, <4>4
      <4>6. QED
        BY <4>2, <4>5
    <3>6. QED
      BY <3>4, <3>5
  <2>2. CASE f.size < full
    <3>1. LoadResult(f) = "io"
      <4>1. f.w = i.w /\ f.h = -i.h /\ f.bpp = 24 /\ f.compr = 0 /\ f.dib = 40 /\ f.size \in Int /\ f.size >= HEADER
        BY <1>1, <1>2, <1>6, <2>1 DEF HEADER
      <4>2. HEADER + Stride(f.w, f.bpp) * (IF f.h < 0 THEN -f.h ELSE f.h) > f.size
        <5>1. (IF f.h < 0 THEN -f.h ELSE f.h) = i.h /\ Stride(f.w, f.bpp) = n
          BY <1>1, <4>1 DEF n
        <5>2. full > f.size
          BY <1>1, <2>2, <4>1 DEF HEADER
        <5>3. QED
          BY <1>1, <5>1, <5>2
      <4>3. QED
        BY <1>1, <4>1, <4>2 DEF LoadResult, HEADER
    <3>2. f # ForeignBitmap(i) /\ f.size # Bitmap(i).size
      <4>1. f.bpp = 24 /\ ForeignBitmap(i).bpp = 32
        BY <1>3, <2>1
      <4>2. f.size # Bitmap(i).size
        BY <1>1, <1>2, <2>2, <1>6 DEF HEADER
      <4>3. QED
        BY <4>1, <4>2
    <3>3. f # NoFile
      BY <1>6, <1>1, <1>2 DEF NoFile, HEADER
    <3>4. QED
      BY <3>1, <3>2, <3>3
  <2>3. CASE f.size = full
    <3>1. f.data = Bitmap(i).data
      <4>1. f.size - HEADER = Len(Bitmap(i).data)
        BY <1>1, <1>2, <2>3 DEF HEADER
      <4>2. \A s \in Seq(Int) : SubSeq(s, 1, Len(s)) = s
        OBVIOUS
      <4>3. QED
        BY <1>2, <2>1, <4>1, <4>2
    <3>2. Loaded(f) = i
      <4>1. f.w = i.w /\ f.h = -i.h /\ f.bpp = 24
        BY <2>1
      <4>2. QED
        BY <1>6, <3>1, <4>1, SavedIsLoaded
    <3>3. LoadResult(f) = "success"
      <4>1. f.w = i.w /\ f.h = -i.h /\ f.bpp = 24 /\ f.compr = 0 /\ f.dib = 40
        BY <2>1
      <4>2. (IF f.h < 0 THEN -f.h ELSE f.h) = i.h /\ Stride(f.w, f.bpp) = n /\ f.h # 0
        BY <1>1, <4>1 DEF n
      <4>3. ~(HEADER + Stride(f.w, f.bpp) * (IF f.h < 0 THEN -f.h ELSE f.h) > f.size)
        BY <1>1, <2>3, <4>2 DEF HEADER
      <4>4. f.size >= HEADER /\ f.size \in Int
        BY <1>1, <2>3 DEF HEADER
      <4>5. QED
        BY <1>1, <4>1, <4>2, <4>3, <4>4 DEF LoadResult, HEADER
    <3>4. f # NoFile
      BY <1>1, <2>3 DEF NoFile, HEADER
    <3>5. QED
      BY <3>2, <3>3, <3>4
  <2>4. QED
    BY <1>1, <1>2, <1>6, <2>2, <2>3 DEF HEADER
<1>7. CASE f \in Foreign(i)
  <2> DEFINE g(h, bpp, compr, dib) == [size |-> HEADER + i.w * i.h * 4, w |-> i.w, h |-> h, bpp |-> bpp,
                                      compr |-> compr, dib |-> dib, data |-> d]
  <2>1. f \in {g(i.h, 32, 3, 40), g(i.h, 32, 1, 40), g(i.h, 8, 3, 40), g(i.h, 32, 3, 12), g(0, 32, 3, 40)}
    BY <1>3, <1>7 DEF Foreign
  <2>2. f.size = HEADER + m /\ f.w = i.w /\ f # NoFile /\ f.bpp # 24 /\ f.data = d
    BY <1>1, <1>4, <2>1 DEF NoFile, HEADER
  <2>3. CASE f = g(i.h, 32, 3, 40)
    <3>1. f.h = i.h /\ f.bpp = 32 /\ f.compr = 3 /\ f.dib = 40 /\ f.data = ForeignBitmap(i).data
      BY <1>3, <2>3
    <3>2. Loaded(f) = i
      BY <2>2, <3>1, ForeignIsLoaded
    <3>3. LoadResult(f) = "success"
      <4>1. Stride(f.w, f.bpp) = i.w * 4 /\ (IF f.h < 0 THEN -f.h ELSE f.h) = i.h
        BY <1>1, <2>2, <3>1, StrideIs
      <4>2. ~(HEADER + Stride(f.w, f.bpp) * (IF f.h < 0 THEN -f.h ELSE f.h) > f.size)
        BY <1>4, <2>2, <4>1 DEF HEADER
      <4>3. QED
        BY <1>1, <1>4, <2>2, <3>1, <4>2 DEF LoadResult, HEADER
    <3>4. QED
      BY <2>2, <3>2, <3>3
  <2>4. CASE f # g(i.h, 32, 3, 40)
    <3>1. f # ForeignBitmap(i)
      BY <1>3, <2>4
    <3>2. f.compr \notin {0, 3} \/ f.bpp \notin {24, 32} \/ f.dib < 40 \/ f.h = 0
      BY <2>1, <2>4
    <3>3. /\ f.h = 0 \/ f.h = i.h
          /\ f.bpp \in {8, 32} /\ f.compr \in {1, 3} /\ f.dib \in {12, 40}
      BY <2>1
    <3>4. f.w > 0 /\ f.size >= HEADER
      BY <1>1, <1>4, <2>2 DEF HEADER
    <3>5. LoadResult(f) \in {"io", "invalid"}
      BY <1>1, <2>2, <3>2, <3>3, <3>4 DEF LoadResult
    <3>6. QED
      BY <2>2, <3>1, <3>5
  <2>5. QED
    BY <2>3, <2>4
<1>8. QED
  BY <1>5, <1>6, <1>7 DEF CutFile

\* A bitmap has no alpha.
LEMMA BitmapOpaqued ==
  ASSUME NEW i, IsImage(i)
  PROVE  Bitmap(Opaqued(i)) = Bitmap(i)
<1> DEFINE o == Opaqued(i)
           n == Stride(i.w, 24)
<1>1. o.w = i.w /\ o.h = i.h /\ i.w \in Nat \ {0} /\ i.h \in Nat \ {0} /\ n \in Nat \ {0}
  BY OpaquedIs, StrideIs DEF IsImage
<1>2. ASSUME NEW y \in 0 .. i.h - 1, NEW k \in 1 .. n
      PROVE  SavedByte(o, y, k) = SavedByte(i, y, k)
  <2>1. CASE k <= i.w * 3
    <3>1. PICK x \in 0 .. i.w - 1, c \in 1 .. 3 : x = (k - 1) \div 3 /\ c = 3 - ((k - 1) % 3)
      <4> HIDE DEF n
      <4>1. (k - 1) \div 3 \in 0 .. i.w - 1 /\ 3 - ((k - 1) % 3) \in 1 .. 3
        BY <1>1, <2>1
      <4>2. QED
        BY <4>1
    <3>2. y * i.w + x + 1 \in 1 .. i.w * i.h
      BY <1>1, PlaceIsInside
    <3>3. At(o, x, y) = Opaque(At(i, x, y)) /\ At(i, x, y) \in Pixel
      BY <1>1, <3>2, OpaquedIs, PixelAt DEF At
    <3>4. At(o, x, y)[c] = At(i, x, y)[c]
      <4>1. Opaque(At(i, x, y)) = <<At(i, x, y)[1], At(i, x, y)[2], At(i, x, y)[3], 255>>
        BY <3>3, OpaqueIs
      <4>2. c = 1 \/ c = 2 \/ c = 3
        OBVIOUS
      <4>3. QED
        BY <3>3, <4>1, <4>2
    <3>5. QED
      <4> HIDE DEF o
      <4> QED BY <1>1, <2>1, <3>1, <3>4 DEF SavedByte
  <2>2. CASE ~(k <= i.w * 3)
    BY <1>1, <2>2 DEF SavedByte
  <2>3. QED
    BY <2>1, <2>2
<1>3. \A y \in 0 .. i.h - 1 : SavedRow(o, y) = SavedRow(i, y)
  BY <1>1, <1>2 DEF SavedRow
<1>4. Len(SavedRow(o, 0)) = Len(SavedRow(i, 0)) /\ Len(SavedRow(i, 0)) = n
  <2>1. 0 \in 0 .. i.h - 1
    BY <1>1
  <2>2. SavedRow(i, 0) = [k \in 1 .. n |-> SavedByte(i, 0, k)]
    BY DEF SavedRow
  <2>3. Len(SavedRow(i, 0)) = n
    <3> DEFINE b(k) == SavedByte(i, 0, k)
    <3> HIDE DEF n, b
    <3>1. SavedRow(i, 0) = [k \in 1 .. n |-> b(k)]
      BY <2>2 DEF b
    <3>2. QED
      BY <1>1, <3>1
  <2>4. QED
    BY <1>3, <2>1, <2>3
<1>5. \A k \in 1 .. i.h * n : (k - 1) \div n \in 0 .. i.h - 1
  <2> HIDE DEF n
  <2>1. n * i.h = i.h * n
    BY <1>1
  <2>2. QED
    BY <1>1, <2>1, PlaceInRows
<1>6. [k \in 1 .. (i.h * n) |-> SavedRow(o, (k - 1) \div n)[((k - 1) % n) + 1]]
        = [k \in 1 .. (i.h * n) |-> SavedRow(i, (k - 1) \div n)[((k - 1) % n) + 1]]
  <2> HIDE DEF n, o
  <2> QED BY <1>3, <1>5
<1>7. QED
  <2> HIDE DEF n, o
  <2>1. Bitmap(o) = Bitmap(i)
    BY <1>1, <1>4, <1>6 DEF Bitmap
  <2>2. QED
    BY <2>1 DEF o

\* An opaque image is made no different.
LEMMA OpaquedTwice ==
  ASSUME NEW i, IsImage(i)
  PROVE  Opaqued(Opaqued(i)) = Opaqued(i)
<1> DEFINE o == Opaqued(i)
           p == Opaqued(o)
<1>1. IsImage(o) /\ o.w = i.w /\ o.h = i.h
  BY OpaquedIs
<1>2. IsImage(p) /\ p.w = i.w /\ p.h = i.h
  <2> HIDE DEF o
  <2> QED BY <1>1, OpaquedIs
<1>3. ASSUME NEW k \in 1 .. i.w * i.h PROVE p.px[k] = o.px[k]
  <2>1. o.px[k] = Opaque(i.px[k]) /\ i.px[k] \in Pixel
    BY OpaquedIs DEF IsImage
  <2>2. o.px[k] = <<i.px[k][1], i.px[k][2], i.px[k][3], 255>> /\ o.px[k] \in Pixel
    BY <2>1, OpaqueIs
  <2>3. p.px[k] = Opaque(o.px[k])
    <3> HIDE DEF o
    <3> QED BY <1>1, OpaquedIs
  <2>4. Opaque(o.px[k]) = <<o.px[k][1], o.px[k][2], o.px[k][3], 255>>
    BY <2>2, OpaqueIs
  <2>5. QED
    <3> HIDE DEF o, p
    <3> QED BY <2>2, <2>3, <2>4
<1>4. p.px = o.px
  <2> HIDE DEF o, p
  <2>1. p.px \in [1 .. i.w * i.h -> Pixel] /\ o.px \in [1 .. i.w * i.h -> Pixel]
    BY <1>1, <1>2 DEF IsImage
  <2>2. PICK K, u, v : K = 1 .. i.w * i.h /\ u = p.px /\ v = o.px
    OBVIOUS
  <2>3. u \in [K -> Pixel] /\ v \in [K -> Pixel] /\ \A k \in K : u[k] = v[k]
    BY <1>3, <2>1, <2>2
  <2>4. u = v
    BY ONLY <2>3
  <2>5. QED
    BY <2>2, <2>4
<1>5. QED
  <2> HIDE DEF o, p
  <2>1. p = o
    BY <1>1, <1>2, <1>4 DEF IsImage
  <2>2. QED
    BY <2>1 DEF o, p

\* The pictures of the application are images.
LEMMA PictureIsImage ==
  ASSUME NEW i \in Pictures
  PROVE  IsImage(i) /\ i # NoImage
<1>1. PICK w \in Widths, h \in Heights : \E m \in Motifs(w, h), c \in Colours, d \in {<<0, 255, 9, 128>>} :
        i = [w |-> w, h |-> h, px |-> [k \in 1 .. (w * h) |-> IF k \in m THEN c ELSE d]]
  BY DEF Pictures
<1>2. w \in Nat \ {0} /\ h \in Nat \ {0}
  BY TextureAssumption
<1>3. PICK m \in Motifs(w, h), c \in Colours, d \in {<<0, 255, 9, 128>>} :
        i = [w |-> w, h |-> h, px |-> [k \in 1 .. (w * h) |-> IF k \in m THEN c ELSE d]]
  BY <1>1
<1>4. c \in Pixel /\ d \in Pixel
  BY TextureAssumption DEF Colours, Pixel
<1>5. QED
  BY <1>2, <1>3, <1>4 DEF IsImage, NoImage

\* An image drawn on is one, wherever the characters go.
LEMMA DrawnIsImage ==
  ASSUME NEW i, IsImage(i), NEW x, NEW y, NEW text, NEW scale, NEW bg \in {NoColour, Background}
  PROVE  IsImage([i EXCEPT !.px = TextDrawn(i, x, y, text, bg, scale)])
<1> DEFINE px == TextDrawn(i, x, y, text, bg, scale)
<1>1. Foreground \in Pixel /\ Background \in Pixel
  BY DEF Foreground, Background, Pixel
<1>2. ASSUME NEW k \in 1 .. i.w * i.h, NEW calls PROVE PixelDrawn(i, k, calls, bg, scale) \in Pixel
  <2>1. PixelDrawn(i, k, calls, bg, scale) \in {i.px[k], Foreground} \/ (bg # NoColour /\ PixelDrawn(i, k, calls, bg, scale) = bg)
    BY DEF PixelDrawn
  <2>2. QED
    BY <1>1, <2>1 DEF IsImage
<1>3. px \in [1 .. i.w * i.h -> Pixel]
  BY <1>2 DEF TextDrawn, IsImage
<1>4. [i EXCEPT !.px = px] = [w |-> i.w, h |-> i.h, px |-> px]
  <2> HIDE DEF px
  <2>1. \A w, h, p, q : [[w |-> w, h |-> h, px |-> p] EXCEPT !.px = q] = [w |-> w, h |-> h, px |-> q]
    OBVIOUS
  <2>2. QED
    BY <2>1 DEF IsImage
<1>5. QED
  <2> HIDE DEF px
  <2>1. IsImage([w |-> i.w, h |-> i.h, px |-> px])
    BY <1>3 DEF IsImage
  <2>2. QED
    BY <1>4, <2>1 DEF px

\* No image, no file.
LEMMA ImagesInit == TextureInit => ImagesInv /\ LoadedAsSaved
BY DEF TextureInit, ImagesInv, LoadedAsSaved, Idle

\* gravSaveImageBMP leaves a file of what is shown, as much of it as there was room for.
LEMMA SaveKeepsImages ==
  ASSUME ImagesInv, SaveImageBMP
  PROVE  ImagesInv'
<1>1. image' = image /\ IsImage(image)
  BY DEF SaveImageBMP, ImagesInv
<1>2. CASE UNCHANGED <<disk, shown>>
  BY <1>1, <1>2 DEF ImagesInv
<1>3. CASE ~ UNCHANGED <<disk, shown>>
  <2> DEFINE o == Opaqued(image)
             b == Bitmap(image)
  <2>1. PICK size \in {0, HEADER, b.size - 1, b.size} :
          /\ disk' = IF size < HEADER THEN [size |-> size] ELSE CutTo(b, size)
          /\ shown' = o
    BY <1>3 DEF SaveImageBMP, Opaqued
  <2>2. b.size \in Nat /\ b.size > HEADER /\ HEADER \in Nat
    <3>1. PICK n \in Nat \ {0} : n = Stride(image.w, 24)
      BY <1>1, StrideIs DEF IsImage
    <3>2. image.h * n \in Nat \ {0} /\ b.size = HEADER + image.h * n
      <4>1. image.h \in Nat \ {0}
        BY <1>1 DEF IsImage
      <4>2. b.size = HEADER + image.h * n
        BY <1>1, <3>1, BitmapIs
      <4>3. QED
        BY <3>1, <4>1, <4>2
    <3>3. QED
      <4> HIDE DEF b
      <4> QED BY <3>2 DEF HEADER
  <2>3. IsImage(o) /\ Bitmap(o) = b /\ Opaqued(o) = o
    BY <1>1, OpaquedIs, BitmapOpaqued, OpaquedTwice
  <2>4. CutFile(o, disk')
    <3>1. CASE size < HEADER
      BY <2>1, <2>2, <3>1 DEF CutFile, HEADER
    <3>2. CASE ~(size < HEADER)
      <4>1. disk' = CutTo(b, size)
        BY <2>1, <3>2
      <4>2. disk'.size = size
        <5>1. b = [size |-> b.size, w |-> b.w, h |-> b.h, bpp |-> 24, compr |-> 0, dib |-> 40, data |-> b.data]
          BY <1>1, BitmapIs
        <5>2. QED
          <6> HIDE DEF b
          <6> QED BY <4>1, <5>1 DEF CutTo
      <4>3. size \in HEADER .. b.size
        <5> HIDE DEF b
        <5> QED BY <2>1, <2>2, <3>2
      <4>4. QED
        <5> HIDE DEF b, o
        <5> QED BY <2>3, <4>1, <4>2, <4>3 DEF CutFile
    <3>3. QED
      BY <3>1, <3>2
  <2>5. QED
    <3> HIDE DEF b, o
    <3> QED BY <1>1, <2>1, <2>3, <2>4 DEF ImagesInv
<1>4. QED
  BY <1>2, <1>3

\* Every call keeps both.
LEMMA ImagesStep ==
  ASSUME ImagesInv, [TextureNext]_textureVars, LoadedAsSaved
  PROVE  ImagesInv' /\ LoadedAsSaved'
<1>1. CASE CreateImageFromRGBA
  BY <1>1, PictureIsImage DEF CreateImageFromRGBA, ImagesInv, LoadedAsSaved, Idle
<1>2. CASE DestroyImage
  BY <1>2 DEF DestroyImage, ImagesInv, LoadedAsSaved, Idle
<1>3. CASE SaveImageBMP
  <2>1. call'.op = "save"
    BY <1>3 DEF SaveImageBMP, Outcome
  <2>2. QED
    BY <1>3, <2>1, SaveKeepsImages DEF LoadedAsSaved
<1>4. CASE OtherProgramSaves
  <2>1. PICK pic \in Pictures : disk' \in Foreign(pic) /\ shown' = pic
    BY <1>4 DEF OtherProgramSaves, Foreign
  <2>2. image' = image /\ call' = call /\ call = Idle
    BY <1>4 DEF OtherProgramSaves
  <2>3. QED
    BY <2>1, <2>2, PictureIsImage DEF ImagesInv, LoadedAsSaved, Idle
<1>5. CASE LoadImageBMP
  <2>1. disk' = disk /\ shown' = shown
    BY <1>5 DEF LoadImageBMP
  <2>2. CASE disk = NoFile
    <3>1. image' = image /\ call' = Outcome("load", "io")
      BY <1>5, <2>2 DEF LoadImageBMP
    <3>2. QED
      BY <2>1, <2>2, <3>1 DEF ImagesInv, LoadedAsSaved, Outcome
  <2>3. CASE disk # NoFile
    <3>1. /\ call' = Outcome("load", LoadResult(disk))
          /\ image' = IF LoadResult(disk) = "success" THEN Loaded(disk) ELSE image
      BY <1>5, <2>3 DEF LoadImageBMP
    <3>2. IsImage(shown) /\ ((CutFile(shown, disk) /\ Opaqued(shown) = shown) \/ disk \in Foreign(shown))
      BY <2>3 DEF ImagesInv
    <3>3. /\ LoadResult(disk) = "success" => Loaded(disk) = shown
          /\ LoadResult(disk) # "success" =>
               disk # ForeignBitmap(shown) /\ (disk.size # Bitmap(shown).size \/ disk.bpp # 24)
      BY <3>2, FileIsRead
    <3>4. ImagesInv'
      BY <2>1, <3>1, <3>2, <3>3 DEF ImagesInv
    <3>5. LoadedAsSaved'
      BY <2>1, <3>1, <3>3 DEF LoadedAsSaved, Outcome
    <3>6. QED
      BY <3>4, <3>5
  <2>4. QED
    BY <2>2, <2>3
<1>6. CASE DrawText
  <2>1. disk' = disk /\ shown' = shown /\ call'.op = "text" /\ image # NoImage
    BY <1>6 DEF DrawText
  <2>2. PICK n \in Texts, place \in Places, scale \in Scales, bg \in {NoColour, Background} :
          image' = [image EXCEPT !.px = TextDrawn(image, place, place, TextOf(n), bg, scale)]
    BY <1>6 DEF DrawText
  <2>3. IsImage(image')
    BY <2>1, <2>2, DrawnIsImage DEF ImagesInv
  <2>4. QED
    BY <2>1, <2>3 DEF ImagesInv, LoadedAsSaved
<1>7. CASE GenerateMipmaps
  <2>1. \E result : call' = [op |-> "mips", result |-> result]
    BY <1>7, Zenon DEF GenerateMipmaps, Outcome
  <2>2. image' = image /\ disk' = disk /\ shown' = shown
    BY <1>7 DEF GenerateMipmaps
  <2>3. QED
    BY <2>1, <2>2 DEF ImagesInv, LoadedAsSaved
<1>8. CASE DestroyMipmaps
  BY <1>8 DEF DestroyMipmaps, ImagesInv, LoadedAsSaved, Idle
<1>9. CASE SampleTextureLod
  BY <1>9 DEF SampleTextureLod, ImagesInv, LoadedAsSaved
<1>10. CASE Return
  BY <1>10 DEF Return, ImagesInv, LoadedAsSaved, Idle
<1>11. CASE UNCHANGED textureVars
  BY <1>11 DEF textureVars, ImagesInv, LoadedAsSaved
<1>12. QED
  BY <1>1, <1>2, <1>3, <1>4, <1>5, <1>6, <1>7, <1>8, <1>9, <1>10, <1>11 DEF TextureNext

(* LoadedAsSaved of gravLoadImageBMP: for images of any size and colours,  *)
(* drawn on and saved in any order, files cut at any of the lengths a full *)
(* disk leaves and files of other programs, what is loaded is the picture  *)
(* that was saved, and a whole file is loaded.                             *)
THEOREM LoadedCorrect == TextureSpec => []LoadedAsSaved
<1>1. TextureInit => ImagesInv /\ LoadedAsSaved
  BY ImagesInit
<1>2. ImagesInv /\ LoadedAsSaved /\ [TextureNext]_textureVars => (ImagesInv /\ LoadedAsSaved)'
  BY ImagesStep
<1>3. QED
  BY <1>1, <1>2, PTL DEF TextureSpec
============================================================================
