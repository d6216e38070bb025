------------------------------- MODULE Compute -------------------------------
(***************************************************************************)
(* The asynchronous compute jobs of a gravityon device                     *)
(* (src/gravityon/gravityon.c): client threads dispatch jobs, each job     *)
(* runs on a thread of its own, a client that knows a job's id waits for   *)
(* it, and the device is destroyed with whatever jobs are left.            *)
(*                                                                         *)
(* What computeMutex encloses is one step; everything outside it (creating *)
(* the thread, joining it, handing the id to the caller) is a step of its  *)
(* own, so the clients interleave wherever the code lets go of the mutex.  *)
(* A job is named by its id, the pointer and the id being created together *)
(* and never reused.  New jobs go in front of the list, so the list is     *)
(* always in descending order of id and the set of its ids stands for it.  *)
(* gravDispatchCompute (the synchronous form) runs its job in the calling  *)
(* thread and shares nothing but the caller's own buffers: not modelled.   *)
(*                                                                         *)
(* Two contracts of the caller, which the code does not check, are in the  *)
(* guards: an id is waited for only once it was handed out, and            *)
(* gravDestroyDevice is not called while another thread is inside          *)
(* gravDispatchComputeAsync.  It may be called while another waits: after  *)
(* its critical section a wait no longer touches the device.               *)
(***************************************************************************)
EXTENDS Integers, FiniteSets

CONSTANTS
  Clients,        \* the threads that call the API
  MAX_JOBS,       \* bound on nextJobId: how many jobs are ever dispatched
  Counts,         \* the counts of groups a dispatch is tried with, each way
  MAX_TOTAL       \* bound: the invocations of one dispatch

ASSUME JobsAssumption == MAX_JOBS \in Nat
ASSUME CountsAssumption == Counts \subseteq Nat

VARIABLES
  nextJobId,      \* device->nextJobId
  linked,         \* the ids of device->computeJobs
  thread,         \* per job: its pthread
  left,           \* per job: the invocations its thread has yet to make
  freed,          \* the jobs whose memory was given back
  told,           \* the ids handed to callers
  pc, at,         \* per client: where it is in the API, the job it points to
  taken,          \* gravDestroyDevice: the list it detached
  device          \* "open", "closing" or "gone"

vars == <<nextJobId, linked, thread, left, freed, told, pc, at, taken, device>>

Ids == 1..MAX_JOBS
NoJob == 0

\* A group count of 0 means 1; one invocation per group.
AtLeastOne(n) == IF n = 0 THEN 1 ELSE n
Total(g) == AtLeastOne(g[1]) * AtLeastOne(g[2]) * AtLeastOne(g[3])
Groups == {g \in Counts \X Counts \X Counts : Total(g) <= MAX_TOTAL}

Init ==
  /\ nextJobId = 1
  /\ linked = {}
  /\ thread = [j \in Ids |-> "none"]
  /\ left = [j \in Ids |-> 0]
  /\ freed = {}
  /\ told = {}
  /\ pc = [c \in Clients |-> "idle"]
  /\ at = [c \in Clients |-> NoJob]
  /\ taken = {}
  /\ device = "open"

Goes(c, where, job) ==
  /\ pc' = [pc EXCEPT ![c] = where]
  /\ at' = [at EXCEPT ![c] = job]

-----------------------------------------------------------------------------
(* gravDispatchComputeAsync *)

\* The job is prepared, numbered and linked.
Dispatch(c, g) ==
  /\ pc[c] = "idle" /\ device = "open"
  /\ nextJobId \in Ids
  /\ nextJobId' = nextJobId + 1
  /\ linked' = linked \cup {nextJobId}
  /\ left' = [left EXCEPT ![nextJobId] = Total(g)]
  /\ Goes(c, "create", nextJobId)
  /\ UNCHANGED <<thread, freed, told, taken, device>>

\* pthread_create succeeds; the job already runs while its id is unknown.
CreateThread(c) ==
  /\ pc[c] = "create"
  /\ thread' = [thread EXCEPT ![at[c]] = "running"]
  /\ Goes(c, "tell", at[c])
  /\ UNCHANGED <<nextJobId, linked, left, freed, told, taken, device>>

\* MUTANT: returns GRAV_ERROR_BUSY and leaves the job in the list.
CreateFailsStaying(c) ==
  /\ pc[c] = "create"
  /\ Goes(c, "idle", NoJob)
  /\ UNCHANGED <<nextJobId, linked, thread, left, freed, told, taken, device>>

\* pthread_create fails: the job has to leave the list again.
CreateFails(c) ==
  /\ pc[c] = "create"
  /\ Goes(c, "unlink", at[c])
  /\ UNCHANGED <<nextJobId, linked, thread, left, freed, told, taken, device>>

\* MUTANT: looks for the job at the front of the list only.
UnlinkFront(c) ==
  /\ pc[c] = "unlink"
  /\ linked' = {j \in linked : j # at[c] \/ \E k \in linked : k > j}
  /\ freed' = freed \cup {at[c]}
  /\ Goes(c, "idle", NoJob)
  /\ UNCHANGED <<nextJobId, thread, left, told, taken, device>>

Unlink(c) ==
  /\ pc[c] = "unlink"
  /\ linked' = linked \ {at[c]}
  /\ freed' = freed \cup {at[c]}
  /\ Goes(c, "idle", NoJob)
  /\ UNCHANGED <<nextJobId, thread, left, told, taken, device>>

\* *jobId = job->id, through the pointer.
Tell(c) ==
  /\ pc[c] = "tell"
  /\ told' = told \cup {at[c]}
  /\ Goes(c, "idle", NoJob)
  /\ UNCHANGED <<nextJobId, linked, thread, left, freed, taken, device>>

(* grav_compute_worker *)

Invoke(j) ==
  /\ thread[j] = "running" /\ left[j] > 0
  /\ left' = [left EXCEPT ![j] = @ - 1]
  /\ UNCHANGED <<nextJobId, linked, thread, freed, told, pc, at, taken, device>>

End(j) ==
  /\ thread[j] = "running" /\ left[j] = 0
  /\ thread' = [thread EXCEPT ![j] = "ended"]
  /\ UNCHANGED <<nextJobId, linked, left, freed, told, pc, at, taken, device>>

(* gravWaitCompute *)

\* MUTANT: the front of the list becomes the job's successor in every case.
WaitCutting(c, id) ==
  /\ pc[c] = "idle" /\ device = "open"
  /\ id \in told \cap linked
  /\ linked' = {j \in linked : j < id}
  /\ Goes(c, "join", id)
  /\ UNCHANGED <<nextJobId, thread, left, freed, told, taken, device>>

\* The job is looked up and unlinked; an id not in the list is refused,
\* which changes nothing.
Wait(c, id) ==
  /\ pc[c] = "idle" /\ device = "open"
  /\ id \in told \cap linked
  /\ linked' = linked \ {id}
  /\ Goes(c, "join", id)
  /\ UNCHANGED <<nextJobId, thread, left, freed, told, taken, device>>

\* pthread_join returns when the thread has ended; the job is freed.
Join(c) ==
  /\ pc[c] = "join" /\ thread[at[c]] = "ended"
  /\ thread' = [thread EXCEPT ![at[c]] = "joined"]
  /\ freed' = freed \cup {at[c]}
  /\ Goes(c, "idle", NoJob)
  /\ UNCHANGED <<nextJobId, linked, left, told, taken, device>>

(* gravDestroyDevice *)

Dispatching(c) == pc[c] \in {"create", "unlink", "tell"}

Detach(c) ==
  /\ pc[c] = "idle" /\ device = "open"
  /\ \A d \in Clients : ~ Dispatching(d)
  /\ device' = "closing"
  /\ taken' = linked
  /\ linked' = {}
  /\ Goes(c, "drain", NoJob)
  /\ UNCHANGED <<nextJobId, thread, left, freed, told>>

\* The detached list is walked from its front, the newest job.
Drain(c) ==
  /\ pc[c] = "drain"
  /\ \E j \in taken :
       /\ \A k \in taken : k <= j
       /\ thread[j] = "ended"
       /\ thread' = [thread EXCEPT ![j] = "joined"]
       /\ freed' = freed \cup {j}
       /\ taken' = taken \ {j}
  /\ UNCHANGED <<nextJobId, linked, left, told, pc, at, device>>

Drained(c) ==
  /\ pc[c] = "drain" /\ taken = {}
  /\ device' = "gone"
  /\ Goes(c, "idle", NoJob)
  /\ UNCHANGED <<nextJobId, linked, thread, left, freed, told, taken>>

-----------------------------------------------------------------------------
Client(c) ==
  \/ \E g \in Groups : Dispatch(c, g)
  \/ CreateThread(c)
  \/ CreateFails(c)
  \/ Unlink(c)
  \/ Tell(c)
  \/ \E id \in Ids : Wait(c, id)
  \/ Join(c)
  \/ Detach(c)
  \/ Drain(c)
  \/ Drained(c)

Worker(j) == Invoke(j) \/ End(j)

Next ==
  \/ \E c \in Clients : Client(c)
  \/ \E j \in Ids : Worker(j)

Spec == Init /\ [][Next]_vars

\* The operating system runs every thread that can run; what a client does
\* next in a call is not its choice, whether it calls at all is.
InCall(c) == Join(c) \/ Drain(c) \/ Drained(c)
Fairness ==
  /\ \A j \in Ids : WF_vars(Worker(j))
  /\ \A c \in Clients : WF_vars(InCall(c))

FairSpec == Spec /\ Fairness

-----------------------------------------------------------------------------
(* Properties *)

TypeOK ==
  /\ nextJobId \in Ids \cup {MAX_JOBS + 1}
  /\ linked \subseteq Ids
  /\ thread \in [Ids -> {"none", "running", "ended", "joined"}]
  /\ left \in [Ids -> Nat]
  /\ freed \subseteq Ids
  /\ told \subseteq Ids
  /\ pc \in [Clients -> {"idle", "create", "unlink", "tell", "join", "drain"}]
  /\ at \in [Clients -> Ids \cup {NoJob}]
  /\ taken \subseteq Ids
  /\ device \in {"open", "closing", "gone"}

\* The pointers to job j: the list, the detached list, a client's, its thread.
Reachable(j) ==
  \/ j \in linked \cup taken
  \/ thread[j] \in {"running", "ended"}
  \/ \E c \in Clients : at[c] = j

\* No pointer to a job outlives it: once freed, a job is in no list, no client
\* still holds it, and its thread no longer reads the arguments in it
\* (gravityon.c:1675-1687 against 1692-1714 and 303-332).
NoDangling == \A j \in freed : ~ Reachable(j)

\* When the device is gone and no call is in progress, every job ever
\* dispatched was freed and no thread is left unjoined: the list surgery of a
\* failed dispatch, of the waits and of the destruction loses no job.
NothingLeft ==
  device = "gone" /\ (\A c \in Clients : pc[c] = "idle")
    => \A j \in 1..(nextJobId - 1) : j \in freed /\ thread[j] \in {"none", "joined"}

\* A wait, and a destruction, returns: no thread joins a thread that was never
\* created or that another already joined.
WaitReturns ==
  \A c \in Clients : pc[c] \in {"join", "drain"} ~> pc[c] = "idle"

=============================================================================
