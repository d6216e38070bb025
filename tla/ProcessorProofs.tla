--------------------------- MODULE ProcessorProofs ---------------------------
(***************************************************************************)
(* Proofs about Processor: types, privilege, and that the pipeline and the *)
(* fast path implement the machine of Isa, for a memory of any size,       *)
(* batches of any length, any programs and any control registers.          *)
(***************************************************************************)
EXTENDS Processor, TLAPS

(* What execution relies on besides TypeOK: the last word of a program is  *)
(* a jump also when it comes out of the pipeline.                          *)
PipeAtLast == pc = Last /\ pipe # NoInsn => pipe = "jump"

IInv == TypeOK /\ PipeAtLast

(* A program that leaves the next word alone finds in the pipeline what is *)
(* in memory.                                                              *)
PipeCoherent == pipe # NoInsn => pipe = mem[pc]

(* The level 3 is only reached by an MRET that finds it in MPP, and below  *)
(* the machine level nothing but a trap to the machine level changes MPP.  *)
ReservedStays == priv = 3 => csr.mstatus.mpp = 3

KeptByPolls == {"mepc", "mtvec", "sepc", "stvec", "mstatus", "mie", "sie", "mideleg", "medeleg"}

Looks == Polls \cup {Now}

----------------------------------------------------------------------------
(* Looking at the devices changes MIP and MTIMECMP and no other register.  *)
LEMMA LookFacts ==
  ASSUME csr \in Csrs, rx \in BOOLEAN, events \subseteq {"ext", "rx"}, NEW p \in Looks
  PROVE  /\ p.csr \in Csrs /\ p.rx \in BOOLEAN /\ p.events \subseteq {"ext", "rx"}
         /\ \A name \in KeptByPolls : p.csr[name] = csr[name]
<1>1. CASE p = Now
  BY <1>1 DEF Now
<1>2. CASE p \in Polls
  <2>1. PICK t \in {"off", "armed", "due"}, left \in SUBSET events,
             ext \in SUBSET (events \ {"rx"}) : p = Polled(t, left, ext)
    BY <1>2 DEF Polls, Csrs
  <2>2. csr.mip \subseteq Sources
    BY DEF Csrs
  <2>3. ext \ left \subseteq Sources
    BY DEF Sources
  <2>. DEFINE r == rx \/ "rx" \in events \ left
              m == csr.mip \cup {"tx"} \cup (ext \ left)
                     \cup (IF t = "due" THEN {"timer"} ELSE {}) \cup (IF r THEN {"rx"} ELSE {})
  <2>4. m \in SUBSET Sources
    BY <2>2, <2>3 DEF Sources
  <2>5. p = [csr |-> [csr EXCEPT !.mtimecmp = t, !.mip = m], rx |-> r, events |-> left]
    BY <2>1 DEF Polled
  <2>. HIDE DEF m, r
  <2>6. p.csr = [csr EXCEPT !.mtimecmp = t, !.mip = m] /\ p.rx = r /\ p.events = left
    BY <2>5
  <2>7. p.csr \in Csrs
    BY <2>4, <2>6 DEF Csrs
  <2>8. \A name \in KeptByPolls : p.csr[name] = csr[name]
    BY <2>6 DEF KeptByPolls, Csrs
  <2>9. p.rx \in BOOLEAN
    BY <2>6 DEF r
  <2>. QED
    BY <2>6, <2>7, <2>8, <2>9
<1>. QED
  BY <1>1, <1>2 DEF Looks

(* Entering a handler keeps the registers well formed. *)
LEMMA EnterFacts ==
  ASSUME NEW c \in Csrs, NEW ret \in Addr, priv \in Privs
  PROVE  EnterMachine(c, ret) \in Csrs /\ EnterSupervisor(c, ret) \in Csrs
<1>1. c.mstatus \in Status
  BY DEF Csrs
<1>. DEFINE m == [c.mstatus EXCEPT !.mpp = priv, !.mpie = c.mstatus.mie, !.mie = FALSE]
            s == [c.mstatus EXCEPT !.spp = (priv = Supervisor), !.spie = c.mstatus.sie, !.sie = FALSE]
<1>2. m \in Status
  BY <1>1 DEF Status
<1>3. s \in Status
  BY <1>1 DEF Status
<1>4. EnterMachine(c, ret) = [c EXCEPT !.mepc = ret, !.mstatus = m]
  BY DEF EnterMachine, Csrs
<1>5. EnterSupervisor(c, ret) = [c EXCEPT !.sepc = ret, !.mstatus = s]
  BY DEF EnterSupervisor, Csrs
<1>. HIDE DEF m, s
<1>6. EnterMachine(c, ret) \in Csrs
  BY <1>2, <1>4 DEF Csrs
<1>7. EnterSupervisor(c, ret) \in Csrs
  BY <1>3, <1>5 DEF Csrs
<1>. QED
  BY <1>6, <1>7

(* A trap keeps the state well formed, except at the end of memory.        *)
LEMMA TrapFacts ==
  ASSUME TypeOK, NEW p, p.csr \in Csrs, p.rx \in BOOLEAN, pc # Last,
         NEW cause, Trap(p, cause)
  PROVE  /\ pc' \in Addr /\ priv' \in Privs /\ csr' \in Csrs /\ rx' \in BOOLEAN
         /\ halted' \in BOOLEAN /\ UNCHANGED <<mem, waiting>>
<1>1. pc + 1 \in Addr
  BY IsaAssumption DEF TypeOK, Addr, Last
<1>2. EnterMachine(p.csr, pc + 1) \in Csrs /\ EnterSupervisor(p.csr, pc + 1) \in Csrs
  BY <1>1, EnterFacts DEF TypeOK
<1>3. p.csr.stvec \in Addr /\ p.csr.mtvec \in Addr
  BY DEF Csrs
<1>4. CASE Delegated(p.csr, cause)
  BY <1>2, <1>3, <1>4 DEF Trap, TypeOK, Privs, Supervisor
<1>5. CASE ~Delegated(p.csr, cause)
  BY <1>1, <1>2, <1>3, <1>5 DEF Trap, Privs, Machine
<1>. QED
  BY <1>4, <1>5

(* An instruction keeps the state well formed: only the one in the last    *)
(* word could leave memory, and that is a jump.                            *)
LEMMA ExecuteFacts ==
  ASSUME TypeOK, NEW p, p.csr \in Csrs, p.rx \in BOOLEAN, NEW flush \in BOOLEAN,
         NEW insn, pc = Last => insn = "jump", Execute(p, insn, flush)
  PROVE  /\ mem' \in Images /\ pc' \in Addr /\ priv' \in Privs /\ csr' \in Csrs
         /\ rx' \in BOOLEAN /\ halted' \in BOOLEAN /\ waiting' \in BOOLEAN
<1>. DEFINE Good == /\ mem' \in Images /\ pc' \in Addr /\ priv' \in Privs /\ csr' \in Csrs
                   /\ rx' \in BOOLEAN /\ halted' \in BOOLEAN /\ waiting' \in BOOLEAN
<1>1. pc # Last => pc + 1 \in Addr
  BY IsaAssumption DEF TypeOK, Addr, Last
<1>2. ASSUME NEW cause, pc # Last, Trap(p, cause)  PROVE Good
  BY <1>2, TrapFacts DEF TypeOK
<1>3. ASSUME pc # Last, Advance(p)  PROVE Good
  BY <1>1, <1>3 DEF Advance, TypeOK
<1>4. ASSUME NEW target \in Addr, JumpTo(p, target), mem' \in Images  PROVE Good
  BY <1>4 DEF JumpTo, TypeOK
<1>5. ASSUME NEW a \in Addr \ {Last}, NEW word \in Kinds, mem' = [mem EXCEPT ![a] = word]
      PROVE mem' \in Images
  <2>1. Last \in Addr
    BY IsaAssumption DEF Last, Addr
  <2>2. mem \in [Addr -> Kinds] /\ mem[Last] = "jump"
    BY DEF TypeOK, Images
  <2>3. mem' \in [Addr -> Kinds] /\ mem'[Last] = "jump"
    BY <1>5, <2>1, <2>2
  <2>. QED
    BY <2>3 DEF Images
<1>6. CASE insn = "jump" /\ Jump(p, flush)
  <2>1. PICK target \in Addr : JumpTo(p, target)
    BY <1>6 DEF Jump
  <2>2. mem' \in Images
    BY <1>5, <1>6 DEF Jump, Kinds, TypeOK
  <2>. QED
    BY <1>4, <2>1, <2>2
<1>. SUFFICES ASSUME pc # Last  PROVE Good
  BY <1>6 DEF Execute
<1>7. CASE Alu(p, flush)
  BY <1>3, <1>7 DEF Alu
<1>8. CASE Divide(p, flush)
  BY <1>2, <1>3, <1>8 DEF Divide
<1>9. CASE Store(p, flush)
  <2>1. mem' \in Images
    BY <1>5, <1>9, IsaAssumption DEF Store
  <2>. QED
    BY <1>1, <1>9, <2>1 DEF Store, TypeOK
<1>10. CASE Branch(p, flush)
  BY <1>3, <1>4, <1>10 DEF Branch, TypeOK
<1>11. CASE Halt(p, flush)
  BY <1>1, <1>11 DEF Halt, TypeOK
<1>12. CASE Ecall(p, flush)
  BY <1>2, <1>3, <1>12 DEF Ecall
<1>13. CASE Eret(p, flush)
  <2>1. CASE Trap(p, "privilege")
    BY <1>2, <2>1
  <2>2. CASE Sret(p) /\ rx' = p.rx /\ UNCHANGED <<mem, waiting, halted>>
    <3>1. p.csr.sepc \in Addr /\ p.csr.mstatus \in Status
      BY DEF Csrs
    <3>. DEFINE s == [p.csr.mstatus EXCEPT !.sie = p.csr.mstatus.spie, !.spie = TRUE, !.spp = FALSE]
    <3>2. s \in Status
      BY <3>1 DEF Status
    <3>3. csr' = [p.csr EXCEPT !.mstatus = s]
      BY <2>2 DEF Sret, Csrs
    <3>. HIDE DEF s
    <3>4. csr' \in Csrs
      BY <3>2, <3>3 DEF Csrs
    <3>. QED
      BY <2>2, <3>1, <3>4 DEF Sret, Privs, Supervisor, User, TypeOK
  <2>3. CASE Mret(p) /\ rx' = p.rx /\ UNCHANGED <<mem, waiting, halted>>
    <3>1. p.csr.mepc \in Addr /\ p.csr.mstatus \in Status
      BY DEF Csrs
    <3>. DEFINE m == [p.csr.mstatus EXCEPT !.mie = p.csr.mstatus.mpie, !.mpie = TRUE]
    <3>2. m \in Status /\ p.csr.mstatus.mpp \in Privs
      BY <3>1 DEF Status
    <3>3. csr' = [p.csr EXCEPT !.mstatus = m]
      BY <2>3 DEF Mret, Csrs
    <3>. HIDE DEF m
    <3>4. csr' \in Csrs
      BY <3>2, <3>3 DEF Csrs
    <3>. QED
      BY <2>3, <3>1, <3>2, <3>4 DEF Mret, TypeOK
  <2>. QED
    BY <1>13, <2>1, <2>2, <2>3 DEF Eret
<1>14. CASE Wfi(p, flush)
  BY <1>1, <1>2, <1>14 DEF Wfi, TypeOK
<1>15. CASE Csrw(p, flush)
  <2>1. PICK name \in SupervisorCsrs \cup MachineCsrs :
          \/ /\ \E v \in Written : csr' = [p.csr EXCEPT ![name] = v[name]]
             /\ pc' = pc + 1 /\ rx' = p.rx
             /\ UNCHANGED <<mem, priv, waiting, halted>>
          \/ Trap(p, "privilege")
    BY <1>15 DEF Csrw
  <2>2. ASSUME NEW v \in Written, csr' = [p.csr EXCEPT ![name] = v[name]]  PROVE csr' \in Csrs
    <3>1. v \in Csrs
      BY IsaAssumption
    <3>. QED
      BY <2>2, <3>1 DEF Csrs, SupervisorCsrs, MachineCsrs
  <2>. QED
    BY <1>1, <1>2, <2>1, <2>2 DEF TypeOK
<1>16. CASE Csrr(p, flush)
  BY <1>2, <1>3, <1>16 DEF Csrr
<1>17. CASE Io(p, flush)
  <2>1. CASE Trap(p, "privilege")
    BY <1>2, <2>1
  <2>2. CASE ~Trap(p, "privilege")
    <3>1. PICK done : csr' = [p.csr EXCEPT !.mip = @ \ done] /\ rx' \in BOOLEAN
      BY <1>17, <2>2 DEF Io
    <3>2. csr' \in Csrs
      BY <3>1 DEF Csrs
    <3>. QED
      BY <1>1, <1>17, <2>2, <3>1, <3>2 DEF Io, TypeOK
  <2>. QED
    BY <2>1, <2>2
<1>. QED
  BY <1>6, <1>7, <1>8, <1>9, <1>10, <1>11, <1>12, <1>13, <1>14, <1>15, <1>16, <1>17 DEF Execute

(* An interrupt keeps the state well formed, whether it is taken or not.   *)
LEMMA InterruptFacts ==
  ASSUME TypeOK, NEW p, p.csr \in Csrs, p.rx \in BOOLEAN, TakeInterrupt(p)
  PROVE  /\ pc' \in Addr /\ priv' \in Privs /\ csr' \in Csrs /\ rx' \in BOOLEAN
         /\ waiting' \in BOOLEAN /\ UNCHANGED <<mem, halted>>
<1>1. EnterMachine(p.csr, pc) \in Csrs /\ EnterSupervisor(p.csr, pc) \in Csrs
  BY EnterFacts DEF TypeOK
<1>2. p.csr.stvec \in Addr /\ p.csr.mtvec \in Addr
  BY DEF Csrs
<1>3. CASE EnterHandler(p.csr)
  <2>1. /\ csr' \in {EnterMachine(p.csr, pc), EnterSupervisor(p.csr, pc)}
        /\ priv' \in {Machine, Supervisor} /\ pc' \in {p.csr.mtvec, p.csr.stvec}
        /\ waiting' = FALSE
    BY <1>3 DEF EnterHandler
  <2>2. csr' \in Csrs /\ pc' \in Addr
    BY <1>1, <1>2, <2>1
  <2>3. priv' \in Privs
    BY <2>1 DEF Privs, Machine, Supervisor
  <2>4. rx' \in BOOLEAN /\ UNCHANGED <<mem, halted>>
    BY DEF TakeInterrupt
  <2>. QED
    BY <2>1, <2>2, <2>3, <2>4
<1>4. CASE DropInterrupt(p.csr)
  <2>1. PICK m \in SUBSET p.csr.mip : csr' = [p.csr EXCEPT !.mip = m]
    BY <1>4 DEF DropInterrupt
  <2>2. csr' \in Csrs
    BY <2>1 DEF Csrs
  <2>. QED
    BY <1>4, <2>2 DEF TakeInterrupt, DropInterrupt, TypeOK
<1>. QED
  BY <1>3, <1>4 DEF TakeInterrupt

(* Only an instruction that flushes the pipeline leaves the sequence.      *)
LEMMA NoFlush ==
  ASSUME NEW p, NEW insn, Execute(p, insn, FALSE)
  PROVE  pc' = pc + 1
BY DEF Execute, Alu, Divide, Store, Jump, Branch, Halt, Ecall, Eret, Wfi, Csrw, Csrr, Io, Advance

(* Both paths do one of three things.                                      *)
LEMMA StepCases ==
  ASSUME Next
  PROVE  /\ ~halted
         /\ \/ \E p \in Polls : Interrupt(p)
            \/ \E p \in Polls : ~Pending(p.csr) /\ Idle(p) /\ UNCHANGED pipe
            \/ \E p \in Polls : ~Pending(p.csr) /\ Run(p)
            \/ Run(Now)
<1>1. CASE Step
  BY <1>1 DEF Step
<1>2. CASE FastStep
  BY <1>2 DEF FastStep
<1>3. CASE FastPoll
  BY <1>3 DEF FastPoll
<1>. QED
  BY <1>1, <1>2, <1>3 DEF Next

(* The paths and the batch counter: FastStep stops at BATCH.               *)
LEMMA PathFacts ==
  ASSUME TypeOK, Next
  PROVE  path' \in {"fast", "normal"} /\ at' \in 0..BATCH /\ (path' = "normal" => at' = 0)
<1>1. CASE Step
  BY <1>1 DEF Step, TypeOK
<1>2. CASE FastStep
  BY <1>2, ProcessorAssumption DEF FastStep, TypeOK
<1>3. CASE FastPoll
  <2>1. path' \in {"fast", "normal"} /\ at' = 0
    BY <1>3 DEF FastPoll
  <2>. QED
    BY <2>1, ProcessorAssumption
<1>. QED
  BY <1>1, <1>2, <1>3 DEF Next

(* One instruction: what comes out of the pipeline at the end of memory is *)
(* a jump, and the refill is read before the instruction executes.         *)
LEMMA RunFacts ==
  ASSUME IInv, NEW p \in Looks, Run(p)
  PROVE  /\ mem' \in Images /\ pc' \in Addr /\ priv' \in Privs /\ csr' \in Csrs
         /\ rx' \in BOOLEAN /\ halted' \in BOOLEAN /\ waiting' \in BOOLEAN
         /\ events' \subseteq {"ext", "rx"}
         /\ pipe' \in Kinds \cup {NoInsn} /\ PipeAtLast'
<1>1. PICK flush \in BOOLEAN : Execute(p, Fetched, flush) /\ Refill(flush)
  BY DEF Run
<1>2. p.csr \in Csrs /\ p.rx \in BOOLEAN /\ p.events \subseteq {"ext", "rx"}
  BY LookFacts DEF IInv, TypeOK
<1>3. Last \in Addr /\ mem \in [Addr -> Kinds] /\ mem[Last] = "jump"
  BY IsaAssumption DEF IInv, TypeOK, Images, Last, Addr
<1>4. pc = Last => Fetched = "jump"
  BY <1>3 DEF IInv, PipeAtLast, Fetched
<1>5. /\ mem' \in Images /\ pc' \in Addr /\ priv' \in Privs /\ csr' \in Csrs
      /\ rx' \in BOOLEAN /\ halted' \in BOOLEAN /\ waiting' \in BOOLEAN
  BY <1>1, <1>2, <1>4, ExecuteFacts DEF IInv
<1>6. events' \subseteq {"ext", "rx"}
  BY <1>1, <1>2 DEF Execute
<1>7. pc + 1 < MEM_SIZE => pc + 1 \in Addr
  <2>1. pc \in Addr
    BY DEF IInv, TypeOK
  <2>. QED
    BY <2>1, IsaAssumption DEF Addr
<1>8. Prefetched \in Kinds \cup {NoInsn}
  BY <1>3, <1>7 DEF Prefetched
<1>9. pipe' \in Kinds \cup {NoInsn}
  BY <1>1, <1>8 DEF Refill
<1>10. PipeAtLast'
  <2>1. CASE flush
    BY <1>1, <2>1 DEF Refill, PipeAtLast
  <2>2. CASE ~flush
    <3>1. pc' = pc + 1
      BY <1>1, <2>2, NoFlush
    <3>2. pipe' = Prefetched
      BY <1>1, <2>2 DEF Refill
    <3>. QED
      BY <1>3, <3>1, <3>2 DEF Prefetched, PipeAtLast, Last
  <2>. QED
    BY <2>1, <2>2
<1>. QED
  BY <1>5, <1>6, <1>9, <1>10

LEMMA InitInvariant == Init => IInv
<1>. SUFFICES ASSUME Init  PROVE IInv
  OBVIOUS
<1>1. pc \in Addr /\ at \in 0..BATCH /\ at = 0
  BY IsaAssumption, ProcessorAssumption DEF Init, IsaInit, Addr
<1>2. mem \in Images /\ csr \in Csrs /\ events \subseteq {"ext", "rx"}
  BY IsaAssumption DEF Init, IsaInit
<1>3. path \in {"fast", "normal"}
  BY DEF Init
<1>4. priv \in Privs
  BY DEF Init, IsaInit, Privs, Machine
<1>5. rx \in BOOLEAN /\ waiting \in BOOLEAN /\ halted \in BOOLEAN
  BY DEF Init, IsaInit
<1>6. pipe = NoInsn
  BY DEF Init
<1>. QED
  BY <1>1, <1>2, <1>3, <1>4, <1>5, <1>6 DEF IInv, TypeOK, PipeAtLast

LEMMA NextInvariant == IInv /\ [Next]_vars => IInv'
<1>. SUFFICES ASSUME IInv, [Next]_vars  PROVE IInv'
  OBVIOUS
<1>1. CASE UNCHANGED vars
  BY <1>1 DEF vars, isaVars, IInv, TypeOK, PipeAtLast
<1>. SUFFICES ASSUME Next  PROVE IInv'
  BY <1>1
<1>2. path' \in {"fast", "normal"} /\ at' \in 0..BATCH /\ (path' = "normal" => at' = 0)
  BY PathFacts DEF IInv
<1>3. ASSUME NEW p \in Looks, Run(p)  PROVE IInv'
  BY <1>2, <1>3, RunFacts DEF IInv, TypeOK
<1>4. ASSUME NEW p \in Polls
      PROVE  p \in Looks /\ p.csr \in Csrs /\ p.rx \in BOOLEAN /\ p.events \subseteq {"ext", "rx"}
  BY LookFacts DEF Looks, IInv, TypeOK
<1>5. ASSUME NEW p \in Polls, Interrupt(p)  PROVE IInv'
  <2>1. /\ pc' \in Addr /\ priv' \in Privs /\ csr' \in Csrs /\ rx' \in BOOLEAN
        /\ waiting' \in BOOLEAN /\ UNCHANGED <<mem, halted>>
    BY <1>4, <1>5, InterruptFacts DEF IInv, Interrupt
  <2>2. events' = p.events
    BY <1>5 DEF Interrupt, TakeInterrupt
  <2>3. pipe' = NoInsn \/ (pipe' = pipe /\ pc' = pc)
    BY <1>5 DEF Interrupt, TakeInterrupt, DropInterrupt
  <2>4. PipeAtLast' /\ pipe' \in Kinds \cup {NoInsn}
    BY <2>3 DEF IInv, TypeOK, PipeAtLast
  <2>. QED
    BY <1>2, <1>4, <2>1, <2>2, <2>4 DEF IInv, TypeOK
<1>6. ASSUME NEW p \in Polls, Idle(p), UNCHANGED pipe  PROVE IInv'
  BY <1>2, <1>4, <1>6 DEF Idle, IInv, TypeOK, PipeAtLast
<1>. QED
  BY <1>3, <1>4, <1>5, <1>6, StepCases DEF Looks

(* The inductive invariant that every result below rests on.               *)
THEOREM Invariant == Spec => []IInv
<1>1. IInv /\ [Next]_vars => IInv'
  BY NextInvariant
<1>. QED
  BY InitInvariant, <1>1, PTL DEF Spec

(* The processor and its pipeline stay well formed: the program counter    *)
(* never leaves memory, and cpu_run never counts past its batch.           *)
THEOREM TypeCorrect == Spec => []TypeOK
<1>1. IInv => TypeOK
  BY DEF IInv
<1>. QED
  BY Invariant, <1>1, PTL

----------------------------------------------------------------------------
(* The prefetch *)

(* A step that goes on to the next instruction keeps the coherence of the  *)
(* pipeline, every other one empties it or leaves the program where it is. *)
LEMMA CoherentStep ==
  ASSUME ~SelfModifying, PipeCoherent, NEW p, Run(p) \/ Interrupt(p)
  PROVE  PipeCoherent'
<1>1. CASE Interrupt(p)
  <2>1. UNCHANGED mem
    BY <1>1 DEF Interrupt, TakeInterrupt
  <2>2. pipe' = NoInsn \/ (pipe' = pipe /\ pc' = pc)
    BY <1>1 DEF Interrupt, TakeInterrupt, DropInterrupt
  <2>. QED
    BY <2>1, <2>2 DEF PipeCoherent
<1>2. CASE Run(p)
  <2>1. PICK flush \in BOOLEAN : Execute(p, Fetched, flush) /\ Refill(flush) /\ (flush \/ Tame)
    BY <1>2 DEF Run
  <2>2. CASE flush
    BY <2>1, <2>2 DEF Refill, PipeCoherent
  <2>3. CASE ~flush
    <3>1. pc' = pc + 1
      BY <2>1, <2>3, NoFlush
    <3>2. pipe' = Prefetched
      BY <2>1, <2>3 DEF Refill
    <3>3. SUFFICES ASSUME pc + 1 < MEM_SIZE  PROVE PipeCoherent'
      BY <3>2 DEF Prefetched, PipeCoherent
    <3>4. pipe' = mem[pc + 1]
      BY <3>2, <3>3 DEF Prefetched
    <3>5. pc # Last => mem'[pc + 1] = mem[pc + 1]
      BY <2>1, <2>3 DEF Tame
    <3>. QED
      BY <3>1, <3>3, <3>4, <3>5, IsaAssumption DEF Last, PipeCoherent
  <2>. QED
    BY <2>2, <2>3
<1>. QED
  BY <1>1, <1>2

LEMMA CoherentInductive ==
  ASSUME ~SelfModifying
  PROVE  /\ Init => PipeCoherent
         /\ PipeCoherent /\ [Next]_vars => PipeCoherent'
<1>1. Init => PipeCoherent
  BY DEF Init, PipeCoherent
<1>2. ASSUME PipeCoherent, [Next]_vars  PROVE PipeCoherent'
  <2>1. CASE UNCHANGED vars
    BY <1>2, <2>1 DEF vars, isaVars, PipeCoherent
  <2>2. CASE Next
    <3>1. ASSUME NEW p, Idle(p), UNCHANGED pipe  PROVE PipeCoherent'
      BY <1>2, <3>1 DEF Idle, PipeCoherent
    <3>. QED
      BY <1>2, <2>2, <3>1, CoherentStep, StepCases
  <2>. QED
    BY <1>2, <2>1, <2>2
<1>. QED
  BY <1>1, <1>2

(* sim.c:1343-1361 and SPEC.md:773-775, for programs that do not store     *)
(* into the word after the STORE: prefetch, batches and the hand-over at a *)
(* WFI implement the machine that executes what is in memory.              *)
THEOREM ProcessorImplementsIsa ==
  ASSUME ~SelfModifying  PROVE Spec => IsaSpec
<1>1. Init => IsaInit /\ PipeCoherent
  BY CoherentInductive DEF Init
<1>2. PipeCoherent /\ [Next]_vars => PipeCoherent' /\ [IsaNext]_isaVars
  <2>1. ASSUME PipeCoherent, Next  PROVE IsaNext
    <3>1. Fetched = mem[pc]
      BY <2>1 DEF PipeCoherent, Fetched
    <3>2. ASSUME NEW p, Run(p)
          PROVE  ~waiting /\ \E flush \in BOOLEAN : Execute(p, mem[pc], flush)
      BY <3>1, <3>2 DEF Run
    <3>3. ASSUME NEW p, Interrupt(p)  PROVE Pending(p.csr) /\ TakeInterrupt(p)
      BY <3>3 DEF Interrupt
    <3>. QED
      BY <2>1, <3>2, <3>3, StepCases DEF IsaNext
  <2>2. UNCHANGED vars => UNCHANGED isaVars
    BY DEF vars
  <2>. QED
    BY <2>1, <2>2, CoherentInductive
<1>. QED
  BY <1>1, <1>2, PTL DEF Spec, IsaSpec

----------------------------------------------------------------------------
(* Levels *)

MachineOnly == {"mepc", "mtvec", "mstatus", "mie", "mideleg", "medeleg"}

(* The ways from one level to the next.                                    *)
Stays(p) ==
  /\ priv' = priv
  /\ priv # Machine => \A name \in MachineOnly : csr'[name] = p.csr[name]

Descends(p, ret) ==
  /\ priv # Machine /\ priv' = Supervisor
  /\ csr' = EnterSupervisor(p.csr, ret)

Ascends(p, ret) ==
  /\ priv' = Machine /\ csr' = EnterMachine(p.csr, ret)
  /\ pc' = p.csr.mtvec \/ halted'

Returns(p) ==
  \/ priv = Supervisor /\ Sret(p)
  \/ priv \notin {User, Supervisor} /\ Mret(p)

Moves(p, ret) ==
  /\ p.csr \in Csrs
  /\ \A name \in KeptByPolls : p.csr[name] = csr[name]
  /\ Stays(p) \/ Descends(p, ret) \/ Ascends(p, ret) \/ Returns(p)

(* An instruction stays at its level, is trapped, or is an ERET.           *)
LEMMA ExecuteLevels ==
  ASSUME NEW p, p.csr \in Csrs, NEW insn, NEW flush \in BOOLEAN, Execute(p, insn, flush)
  PROVE  Stays(p) \/ Descends(p, pc + 1) \/ Ascends(p, pc + 1) \/ Returns(p)
<1>. DEFINE Good == Stays(p) \/ Descends(p, pc + 1) \/ Ascends(p, pc + 1) \/ Returns(p)
<1>1. ASSUME NEW cause, Trap(p, cause)  PROVE Good
  BY <1>1 DEF Trap, Delegated, Descends, Ascends
<1>2. ASSUME priv' = priv, csr' = p.csr  PROVE Good
  BY <1>2 DEF Stays
<1>3. ASSUME Advance(p)  PROVE Good
  BY <1>2, <1>3 DEF Advance
<1>4. ASSUME NEW target, JumpTo(p, target)  PROVE Good
  BY <1>2, <1>4 DEF JumpTo
<1>5. CASE Alu(p, flush) \/ Divide(p, flush)
  BY <1>1, <1>3, <1>5 DEF Alu, Divide
<1>6. CASE Store(p, flush) \/ Halt(p, flush)
  BY <1>2, <1>6 DEF Store, Halt
<1>7. CASE Jump(p, flush) \/ Branch(p, flush)
  BY <1>3, <1>4, <1>7 DEF Jump, Branch
<1>8. CASE Ecall(p, flush)
  BY <1>1, <1>3, <1>8 DEF Ecall
<1>9. CASE Eret(p, flush)
  BY <1>1, <1>9 DEF Eret, Returns
<1>10. CASE Wfi(p, flush)
  BY <1>1, <1>2, <1>10 DEF Wfi
<1>11. CASE Csrw(p, flush)
  <2>1. PICK name \in SupervisorCsrs \cup MachineCsrs :
          \/ /\ Allowed(LevelOf(name)) /\ priv' = priv
             /\ \E v \in Written : csr' = [p.csr EXCEPT ![name] = v[name]]
          \/ Trap(p, "privilege")
    BY <1>11 DEF Csrw
  <2>2. SUFFICES ASSUME Allowed(LevelOf(name)), priv' = priv,
                        NEW v \in Written, csr' = [p.csr EXCEPT ![name] = v[name]]
                 PROVE  Stays(p)
    BY <1>1, <2>1
  <2>3. SUFFICES ASSUME priv # Machine
                 PROVE  \A other \in MachineOnly : csr'[other] = p.csr[other]
    BY <2>2 DEF Stays
  <2>4. name \in SupervisorCsrs
    BY <2>2, <2>3 DEF Allowed, LevelOf, Machine, Supervisor
  <2>. QED
    BY <2>2, <2>4 DEF SupervisorCsrs, MachineOnly, Csrs
<1>12. CASE Csrr(p, flush)
  BY <1>1, <1>3, <1>12 DEF Csrr
<1>13. CASE Io(p, flush)
  <2>1. SUFFICES ASSUME NEW done, priv' = priv, csr' = [p.csr EXCEPT !.mip = @ \ done]
                 PROVE  Stays(p)
    BY <1>1, <1>13 DEF Io
  <2>. QED
    BY <2>1 DEF Stays, MachineOnly, Csrs
<1>. QED
  BY <1>5, <1>6, <1>7, <1>8, <1>9, <1>10, <1>11, <1>12, <1>13 DEF Execute

(* An interrupt is dropped or enters a handler.                            *)
LEMMA InterruptLevels ==
  ASSUME NEW p, p.csr \in Csrs, TakeInterrupt(p)
  PROVE  Stays(p) \/ Descends(p, pc) \/ Ascends(p, pc)
<1>1. CASE EnterHandler(p.csr)
  BY <1>1 DEF EnterHandler, SupervisorPending, Descends, Ascends
<1>2. CASE DropInterrupt(p.csr)
  <2>1. PICK m : csr' = [p.csr EXCEPT !.mip = m]
    BY <1>2 DEF DropInterrupt
  <2>. QED
    BY <1>2, <2>1 DEF DropInterrupt, Stays, MachineOnly, Csrs
<1>. QED
  BY <1>1, <1>2 DEF TakeInterrupt

(* What every step of the processor does to levels and machine registers.  *)
LEMMA StepLevels ==
  ASSUME TypeOK, Next
  PROVE  \E p \in Looks : \E ret : Moves(p, ret)
<1>1. ASSUME NEW p \in Looks
      PROVE  p.csr \in Csrs /\ \A name \in KeptByPolls : p.csr[name] = csr[name]
  BY LookFacts DEF TypeOK
<1>2. CASE \E p \in Polls : Interrupt(p)
  BY <1>1, <1>2, InterruptLevels DEF Interrupt, Looks, Moves
<1>3. CASE \E p \in Polls : Idle(p)
  BY <1>1, <1>3 DEF Idle, Stays, Looks, Moves
<1>4. CASE \E p \in Looks : Run(p)
  BY <1>1, <1>4, ExecuteLevels DEF Run, Moves
<1>. QED
  BY <1>2, <1>3, <1>4, StepCases DEF Looks

(* What the steps between levels change, over well-formed registers.       *)
LEMMA LevelFacts ==
  ASSUME NEW p, p.csr \in Csrs, NEW ret
  PROVE  /\ Descends(p, ret) =>
              /\ \A name \in MachineOnly \ {"mstatus"} : csr'[name] = p.csr[name]
              /\ \A f \in {"mie", "mpie", "mpp"} : csr'.mstatus[f] = p.csr.mstatus[f]
         /\ Ascends(p, ret) =>
              \A name \in MachineOnly \ {"mepc", "mstatus"} : csr'[name] = p.csr[name]
         /\ Sret(p) =>
              /\ \A name \in MachineOnly \ {"mstatus"} : csr'[name] = p.csr[name]
              /\ \A f \in {"mie", "mpie", "mpp"} : csr'.mstatus[f] = p.csr.mstatus[f]
         /\ Mret(p) => priv' = p.csr.mstatus.mpp /\ csr'.mstatus.mpp = p.csr.mstatus.mpp
<1>1. p.csr.mstatus \in Status
  BY DEF Csrs
<1>. DEFINE c == p.csr
            s == [c.mstatus EXCEPT !.spp = (priv = Supervisor), !.spie = c.mstatus.sie, !.sie = FALSE]
            m == [c.mstatus EXCEPT !.mpp = priv, !.mpie = c.mstatus.mie, !.mie = FALSE]
            sret == [c.mstatus EXCEPT !.sie = c.mstatus.spie, !.spie = TRUE, !.spp = FALSE]
            mret == [c.mstatus EXCEPT !.mie = c.mstatus.mpie, !.mpie = TRUE]
<1>2. \A f \in {"mie", "mpie", "mpp"} : s[f] = c.mstatus[f] /\ sret[f] = c.mstatus[f]
  BY <1>1 DEF Status
<1>3. mret.mpp = c.mstatus.mpp
  BY <1>1 DEF Status
<1>4. Descends(p, ret) => csr' = [c EXCEPT !.sepc = ret, !.mstatus = s]
  BY DEF Descends, EnterSupervisor, Csrs
<1>5. Ascends(p, ret) => csr' = [c EXCEPT !.mepc = ret, !.mstatus = m]
  BY DEF Ascends, EnterMachine, Csrs
<1>6. Sret(p) => csr' = [c EXCEPT !.mstatus = sret]
  BY DEF Sret, Csrs
<1>7. Mret(p) => csr' = [c EXCEPT !.mstatus = mret] /\ priv' = c.mstatus.mpp
  BY DEF Mret, Csrs
<1>. HIDE DEF s, m, sret, mret
<1>8. Descends(p, ret) =>
        /\ \A name \in MachineOnly \ {"mstatus"} : csr'[name] = c[name]
        /\ csr'.mstatus = s
  BY <1>4 DEF MachineOnly, Csrs
<1>9. Ascends(p, ret) => \A name \in MachineOnly \ {"mepc", "mstatus"} : csr'[name] = c[name]
  BY <1>5 DEF MachineOnly, Csrs
<1>10. Sret(p) =>
         /\ \A name \in MachineOnly \ {"mstatus"} : csr'[name] = c[name]
         /\ csr'.mstatus = sret
  BY <1>6 DEF MachineOnly, Csrs
<1>11. Mret(p) => csr'.mstatus = mret
  BY <1>7 DEF Csrs
<1>. QED
  BY <1>2, <1>3, <1>7, <1>8, <1>9, <1>10, <1>11

(* The reserved level is left only by a trap, which leads to another one.  *)
LEMMA ReservedInductive ==
  /\ Init => ReservedStays
  /\ TypeOK /\ ReservedStays /\ [Next]_vars => ReservedStays'
<1>1. Init => ReservedStays
  BY DEF Init, IsaInit, ReservedStays, Machine
<1>2. ASSUME TypeOK, ReservedStays, Next  PROVE ReservedStays'
  <2>1. PICK p \in Looks : \E ret : Moves(p, ret)
    BY <1>2, StepLevels
  <2>. PICK ret : Moves(p, ret)
    BY <2>1
  <2>. USE DEF Moves
  <2>2. p.csr.mstatus = csr.mstatus
    BY <2>1 DEF KeptByPolls
  <2>3. CASE Stays(p)
    BY <1>2, <2>2, <2>3 DEF Stays, MachineOnly, ReservedStays, Machine
  <2>4. CASE Descends(p, ret) \/ Ascends(p, ret)
    BY <2>4 DEF Descends, Ascends, ReservedStays, Machine, Supervisor
  <2>5. CASE Returns(p)
    BY <2>1, <2>5, LevelFacts DEF Returns, Sret, ReservedStays, Supervisor, User
  <2>. QED
    BY <2>1, <2>3, <2>4, <2>5
<1>3. ASSUME ReservedStays, UNCHANGED vars  PROVE ReservedStays'
  BY <1>3 DEF vars, isaVars, ReservedStays
<1>. QED
  BY <1>1, <1>2, <1>3

(* trap(), take_interrupt(), OP_ERET: from below, the machine level is     *)
(* entered only through its vector, for any programs and any registers     *)
(* that the boot code may leave, the reserved privilege 3 included.        *)
LEMMA EntersByVector ==
  ASSUME TypeOK, ReservedStays, Next PROVE ThroughVector
<1>. SUFFICES ASSUME priv # Machine, priv' = Machine  PROVE pc' = csr.mtvec \/ halted'
  BY DEF ThroughVector
<1>1. PICK p \in Looks : \E ret : Moves(p, ret)
  BY StepLevels
<1>. PICK ret : Moves(p, ret)
  BY <1>1
<1>. USE DEF Moves
<1>2. p.csr.mstatus = csr.mstatus /\ p.csr.mtvec = csr.mtvec
  BY <1>1 DEF KeptByPolls
<1>3. CASE Ascends(p, ret)
  BY <1>2, <1>3 DEF Ascends
<1>4. ~Stays(p) /\ ~Descends(p, ret)
  BY DEF Stays, Descends, Machine, Supervisor
<1>5. ~Returns(p)
  <2>1. ~Sret(p)
    BY DEF Sret, Machine, Supervisor, User
  <2>2. priv \notin {User, Supervisor} => priv = 3
    BY DEF TypeOK, Privs, Machine, Supervisor, User
  <2>3. priv = 3 => ~Mret(p)
    BY <1>2 DEF Mret, ReservedStays, Machine
  <2>. QED
    BY <2>1, <2>2, <2>3 DEF Returns
<1>. QED
  BY <1>1, <1>3, <1>4, <1>5

(* csr_write, trap(), take_interrupt(): no step of a Supervisor or a User  *)
(* changes what belongs to the machine level, but for the state that is    *)
(* saved on the way there.                                                 *)
LEMMA BelowMachine ==
  ASSUME TypeOK, Next, priv \in {Supervisor, User} PROVE MachineKept
<1>1. PICK p \in Looks : \E ret : Moves(p, ret)
  BY StepLevels
<1>. PICK ret : Moves(p, ret)
  BY <1>1
<1>. USE DEF Moves
<1>2. \A name \in MachineOnly : p.csr[name] = csr[name]
  BY <1>1 DEF KeptByPolls, MachineOnly
<1>3. priv # Machine
  BY DEF Machine, Supervisor, User
<1>4. CASE Stays(p)
  BY <1>2, <1>3, <1>4 DEF Stays, MachineOnly, MachineKept
<1>5. CASE Descends(p, ret) \/ Sret(p)
  BY <1>1, <1>2, <1>5, LevelFacts DEF MachineOnly, MachineKept
<1>6. CASE Ascends(p, ret)
  <2>1. priv' = Machine
    BY <1>6 DEF Ascends
  <2>. QED
    BY <1>1, <1>2, <1>6, <2>1, LevelFacts DEF MachineOnly, MachineKept
<1>. QED
  BY <1>1, <1>4, <1>5, <1>6 DEF Returns

(* The machine level is entered only through its vector, and what is its   *)
(* own changes only there.                                                 *)
THEOREM MachineCorrect == Spec => MachineProtected
<1>1. ASSUME TypeOK, ReservedStays, [Next]_vars
      PROVE  [ThroughVector /\ (priv \in {Supervisor, User} => MachineKept)]_vars
  BY <1>1, EntersByVector, BelowMachine
<1>2. IInv => TypeOK
  BY DEF IInv
<1>. QED
  BY <1>1, <1>2, Invariant, ReservedInductive, PTL DEF Spec, MachineProtected
=============================================================================
