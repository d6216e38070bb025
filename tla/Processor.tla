----------------------------- MODULE Processor -----------------------------
(***************************************************************************)
(* simulator/sim.c as it runs a program: the two-stage pipeline, which     *)
(* holds the next instruction while the current one executes, the normal   *)
(* path (cpu_step, one poll of the devices before every instruction) and   *)
(* the fast path of cpu_run, which polls once in BATCH instructions.       *)
(* Everything the machine does is in Isa; this module says when.           *)
(***************************************************************************)
EXTENDS Isa

CONSTANTS BATCH,          \* instructions in a row on the fast path (128)
          SelfModifying   \* may the program store into the word after the STORE?

ASSUME ProcessorAssumption == BATCH \in Nat /\ BATCH > 0 /\ SelfModifying \in BOOLEAN

VARIABLES
  pipe,   \* pipe_insn, or NoInsn when pipe_valid is 0
  path,   \* "fast" while use_fast holds, "normal" after
  at      \* instructions executed in the current batch

vars == <<isaVars, pipe, path, at>>

NoInsn == "none"

Fetched == IF pipe # NoInsn THEN pipe ELSE mem[pc]

(* Read before the instruction executes, whatever it may store. *)
Prefetched == IF pc + 1 < MEM_SIZE THEN mem[pc + 1] ELSE NoInsn

(* Mutant of Refill: the prefetch survives a jump. *)
RefillAlways(flush) == pipe' = Prefetched /\ flush \in BOOLEAN

(* The next instruction in the pipeline survives if the flow goes on. *)
Refill(flush) == pipe' = IF flush THEN NoInsn ELSE Prefetched

(* A program that keeps to the rule does not store into the next word. *)
Tame == ~SelfModifying /\ pc # Last => mem'[pc + 1] = mem[pc + 1]

Interrupt(p) ==
  /\ Pending(p.csr) /\ TakeInterrupt(p)
  /\ pipe' = IF Dropped(p.csr) THEN pipe ELSE NoInsn

Run(p) == \E flush \in BOOLEAN :
  ~waiting /\ Execute(p, Fetched, flush) /\ Refill(flush) /\ (flush \/ Tame)

(* cpu_step *)
Step ==
  /\ path = "normal" /\ ~halted
  /\ \E p \in Polls :
       \/ Interrupt(p)
       \/ waiting /\ ~Pending(p.csr) /\ Idle(p) /\ UNCHANGED pipe
       \/ ~Pending(p.csr) /\ Run(p)
  /\ UNCHANGED <<path, at>>

(* Mutant of FastStep: one instruction too many. *)
FastStepMore ==
  /\ path = "fast" /\ ~halted /\ at <= BATCH
  /\ Run(Now)
  /\ at' = at + 1
  /\ UNCHANGED path

(* One instruction of a batch *)
FastStep ==
  /\ path = "fast" /\ ~halted /\ at < BATCH
  /\ Run(Now)
  /\ at' = at + 1
  /\ UNCHANGED path

(* Mutant of FastPoll: after a batch the devices are polled, and a pending *)
(* interrupt is left alone.                                                *)
FastPollOnly ==
  /\ path = "fast" /\ ~halted /\ (at = BATCH \/ waiting)
  /\ \E p \in Polls :
       \/ waiting /\ Interrupt(p) /\ path' = "normal"
       \/ /\ waiting => ~Pending(p.csr)
          /\ Idle(p) /\ UNCHANGED pipe
          /\ path' = IF waiting THEN "normal" ELSE "fast"
  /\ at' = 0

(* The poll after a batch or after a WFI; a WFI and an interrupt leave the *)
(* fast path for good.                                                     *)
FastPoll ==
  /\ path = "fast" /\ ~halted /\ (at = BATCH \/ waiting)
  /\ \E p \in Polls :
       \/ Interrupt(p) /\ path' = "normal"
       \/ /\ ~Pending(p.csr) /\ Idle(p) /\ UNCHANGED pipe
          /\ path' = IF waiting THEN "normal" ELSE "fast"
  /\ at' = 0

Init ==
  /\ IsaInit
  /\ pipe = NoInsn /\ at = 0
  /\ path \in IF "ext" \in events THEN {"normal"} ELSE {"fast", "normal"}

Next == Step \/ FastStep \/ FastPoll

Spec == Init /\ [][Next]_vars

(* The processor keeps running, and time passes while it sleeps: cycles is *)
(* incremented in every cpu_step that waits.                               *)
TimeComes == waiting /\ Step /\ csr.mtimecmp = "armed" /\ csr'.mtimecmp = "due"

FairSpec == Spec /\ WF_vars(Next) /\ WF_vars(TimeComes)

----------------------------------------------------------------------------
(* Everything has its type, a batch is never longer than BATCH and only    *)
(* the fast path counts.                                                   *)
TypeOK ==
  /\ mem \in Images /\ pc \in Addr
  /\ priv \in Privs /\ csr \in Csrs
  /\ rx \in BOOLEAN /\ events \subseteq {"ext", "rx"}
  /\ waiting \in BOOLEAN /\ halted \in BOOLEAN
  /\ pipe \in Kinds \cup {NoInsn}
  /\ path \in {"fast", "normal"}
  /\ at \in 0..BATCH /\ (path = "normal" => at = 0)

(* trap(), take_interrupt(), ERET, csr_write: a program below the machine  *)
(* level gets there only through the vector the machine level has set (or  *)
(* the machine stops, when it has set none), and so does one that has been *)
(* given the reserved privilege 3 and returns.  And no instruction and no  *)
(* interrupt below it changes a machine register, except that entering the *)
(* machine level saves the state it comes from and the devices set bits of *)
(* MIP.                                                                    *)
ThroughVector == priv # Machine /\ priv' = Machine => pc' = csr.mtvec \/ halted'
MachineKept ==
  /\ \A name \in {"mtvec", "mie", "mideleg", "medeleg"} : csr'[name] = csr[name]
  /\ priv' # Machine =>
       /\ csr'.mepc = csr.mepc
       /\ \A f \in {"mie", "mpie", "mpp"} : csr'.mstatus[f] = csr.mstatus[f]
MachineProtected == [][ThroughVector /\ (priv \in {Supervisor, User} => MachineKept)]_vars

(* Interrupts for a supervisor that has no vector are dropped, one poll    *)
(* after the other, and before any interrupt of the machine level.         *)
Vectorless == priv # Machine /\ csr.mstatus.sie /\ csr.stvec = 0

(* cpu_run, take_interrupt: an interrupt that is pending and enabled does  *)
(* not stay so, on the fast path either, which polls after every batch.    *)
InterruptTaken == Pending(csr) ~> ~Pending(csr) \/ Vectorless \/ halted

(* The timer is set, enabled and has a vector. *)
Wakeable ==
  /\ csr.mtimecmp # "off" /\ csr.mstatus.mie /\ "timer" \in csr.mie
  /\ csr.mtvec # 0 /\ ~Vectorless

(* sim.c:1437-1456: a WFI hands the processor over to cpu_step, so that    *)
(* the event it waits for is not skipped: it wakes up.                     *)
WakesUp == waiting /\ Wakeable ~> ~waiting

=============================================================================
