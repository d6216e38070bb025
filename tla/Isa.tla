-------------------------------- MODULE Isa --------------------------------
(***************************************************************************)
(* The Oxalyn-64 processor as a program sees it (simulator/sim.c and       *)
(* SPEC.md): privilege levels, control registers, traps, interrupts, ERET, *)
(* WFI and the instruction at the program counter, which runs against the  *)
(* memory as it is at that moment.  Registers, flags and devices are       *)
(* abstracted: an instruction that depends on them may do any of the       *)
(* things it can do.  Processor.tla adds the prefetch and the fast path.   *)
(***************************************************************************)
EXTENDS Naturals

CONSTANTS MEM_SIZE,   \* words of memory
          Programs,   \* contents of memory a program may be loaded as
          Data,       \* the kinds of word a STORE may write
          Configs,    \* control registers as the boot code may leave them
          Written,    \* and values that CSRW may write to them later
          Arrivals    \* sets of device events that may come in one run

Machine == 0
Supervisor == 1
User == 2
Privs == 0..3         \* MPP is two bits wide and nothing checks it

Addr == 0..(MEM_SIZE - 1)
Last == MEM_SIZE - 1  \* holds a jump: a program does not run off its end
Kinds == {"alu", "divide", "store", "jump", "branch", "halt", "ecall", "eret",
          "wfi", "csrw", "csrr", "io"}

Images == {m \in [Addr -> Kinds] : m[Last] = "jump"}

Sources == {"timer", "ext", "rx", "tx"}
Causes == {"exception", "ecall_u", "ecall_s", "privilege"}

Status == [mie: BOOLEAN, mpie: BOOLEAN, mpp: Privs,
           sie: BOOLEAN, spie: BOOLEAN, spp: BOOLEAN]

(* A vector of 0 means that there is none.  MTIMECMP is off (0), armed     *)
(* with a time still to come, or due.                                      *)
Csrs == [mepc: Addr, mtvec: Addr, sepc: Addr, stvec: Addr, mstatus: Status,
         mie: SUBSET Sources, mip: SUBSET Sources, sie: SUBSET Sources,
         mideleg: SUBSET Sources, medeleg: SUBSET Causes,
         mtimecmp: {"off", "armed", "due"}]

SupervisorCsrs == {"sepc", "stvec", "sie"}
MachineCsrs == {"mepc", "mtvec", "mstatus", "mie", "mip", "mideleg", "medeleg",
                "mtimecmp"}

ASSUME IsaAssumption ==
  /\ MEM_SIZE \in Nat /\ MEM_SIZE > 1
  /\ Programs \subseteq Images /\ Data \subseteq Kinds
  /\ Configs \subseteq Csrs /\ Written \subseteq Csrs
  /\ Arrivals \subseteq SUBSET {"ext", "rx"}

VARIABLES
  mem,      \* address -> kind of the instruction there
  pc,
  priv,
  csr,
  rx,       \* uart_rx_pending
  events,   \* device events still to come
  waiting,  \* waiting_for_interrupt
  halted

isaVars == <<mem, pc, priv, csr, rx, events, waiting, halted>>

----------------------------------------------------------------------------
(* Devices *)

(* The devices as they stand, when nobody looks at them. *)
Now == [csr |-> csr, rx |-> rx, events |-> events]

(* What a poll may find: the timer has come due, an event has arrived (one *)
(* on a GPIO pin may not concern the program), the transmitter is ready.   *)
Polled(t, left, ext) ==
  LET r == rx \/ "rx" \in events \ left IN
  [csr |-> [csr EXCEPT !.mtimecmp = t,
                       !.mip = @ \cup {"tx"} \cup (ext \ left)
                                 \cup (IF t = "due" THEN {"timer"} ELSE {})
                                 \cup (IF r THEN {"rx"} ELSE {})],
   rx |-> r, events |-> left]

Polls == {Polled(t, left, ext) :
            t \in IF csr.mtimecmp = "armed" THEN {"armed", "due"} ELSE {csr.mtimecmp},
            left \in SUBSET events, ext \in SUBSET (events \ {"rx"})}

MachinePending(c) == c.mstatus.mie /\ c.mip \cap c.mie # {}
SupervisorPending(c) ==
  priv # Machine /\ c.mstatus.sie /\ c.mip \cap c.mideleg \cap c.sie # {}
Pending(c) == MachinePending(c) \/ SupervisorPending(c)

----------------------------------------------------------------------------
(* Traps and interrupts *)

EnterMachine(c, ret) ==
  [c EXCEPT !.mepc = ret, !.mstatus.mpp = priv,
            !.mstatus.mpie = c.mstatus.mie, !.mstatus.mie = FALSE]

EnterSupervisor(c, ret) ==
  [c EXCEPT !.sepc = ret, !.mstatus.spp = (priv = Supervisor),
            !.mstatus.spie = c.mstatus.sie, !.mstatus.sie = FALSE]

(* An interrupt without a vector is dropped: its sources are cleared. *)
Dropped(c) == IF SupervisorPending(c) THEN c.stvec = 0 ELSE c.mtvec = 0

DropInterrupt(c) ==
  /\ csr' = [c EXCEPT !.mip = IF SupervisorPending(c)
                              THEN @ \ (c.mideleg \cap c.sie) ELSE @ \ c.mie]
  /\ UNCHANGED <<pc, priv, waiting>>

(* Mutant of EnterHandler: the processor is not woken up. *)
EnterAsleep(c) ==
  /\ IF SupervisorPending(c)
     THEN csr' = EnterSupervisor(c, pc) /\ priv' = Supervisor /\ pc' = c.stvec
     ELSE csr' = EnterMachine(c, pc) /\ priv' = Machine /\ pc' = c.mtvec
  /\ UNCHANGED waiting

EnterHandler(c) ==
  /\ IF SupervisorPending(c)
     THEN csr' = EnterSupervisor(c, pc) /\ priv' = Supervisor /\ pc' = c.stvec
     ELSE csr' = EnterMachine(c, pc) /\ priv' = Machine /\ pc' = c.mtvec
  /\ waiting' = FALSE

TakeInterrupt(p) ==
  /\ IF Dropped(p.csr) THEN DropInterrupt(p.csr) ELSE EnterHandler(p.csr)
  /\ rx' = p.rx /\ events' = p.events
  /\ UNCHANGED <<mem, halted>>

Delegated(c, cause) == priv # Machine /\ cause \in c.medeleg /\ c.stvec # 0

(* The program counter is already past the instruction when it traps. *)
Trap(p, cause) ==
  /\ IF Delegated(p.csr, cause)
     THEN /\ csr' = EnterSupervisor(p.csr, pc + 1)
          /\ priv' = Supervisor /\ pc' = p.csr.stvec /\ UNCHANGED halted
     ELSE /\ csr' = EnterMachine(p.csr, pc + 1)
          /\ priv' = Machine
          /\ halted' = (p.csr.mtvec = 0)
          /\ pc' = IF p.csr.mtvec = 0 THEN pc + 1 ELSE p.csr.mtvec
  /\ rx' = p.rx
  /\ UNCHANGED <<mem, waiting>>

----------------------------------------------------------------------------
(* Instructions.  flush is pipe_flush as the instruction leaves it.        *)

(* SATP, STVEC, SEPC, SIE, the ports and WFI are closed to User only. *)
Allowed(level) == IF level = Machine THEN priv = Machine ELSE priv # User

Advance(p) ==
  /\ pc' = pc + 1 /\ csr' = p.csr /\ rx' = p.rx
  /\ UNCHANGED <<mem, priv, waiting, halted>>

JumpTo(p, target) ==
  /\ pc' = target /\ csr' = p.csr /\ rx' = p.rx
  /\ UNCHANGED <<priv, waiting, halted>>

(* Arithmetic, LOAD, LI, comparisons, bit operations, NOP, FENCE. *)
Alu(p, flush) == Advance(p) /\ ~flush

(* DIV, DIVU, REM, REMU trap on zero, an unknown opcode always. *)
Divide(p, flush) ==
  \/ Advance(p) /\ ~flush
  \/ Trap(p, "exception") /\ flush

Store(p, flush) ==
  /\ \E a \in Addr \ {Last}, word \in Data : mem' = [mem EXCEPT ![a] = word]
  /\ pc' = pc + 1 /\ csr' = p.csr /\ rx' = p.rx /\ ~flush
  /\ UNCHANGED <<priv, waiting, halted>>

(* JMP, JALR, RET, and CALL, which stores a return address; an address has *)
(* the opcode bits of a NOP.                                               *)
Jump(p, flush) ==
  /\ \E target \in Addr : JumpTo(p, target)
  /\ \/ UNCHANGED mem
     \/ \E a \in Addr \ {Last} : mem' = [mem EXCEPT ![a] = "alu"]
  /\ flush

(* JZ, JNZ *)
Branch(p, flush) ==
  \/ Advance(p) /\ ~flush
  \/ (\E target \in Addr : JumpTo(p, target)) /\ UNCHANGED mem /\ flush

Halt(p, flush) ==
  /\ halted' = TRUE /\ flush
  /\ pc' = pc + 1 /\ csr' = p.csr /\ rx' = p.rx
  /\ UNCHANGED <<mem, priv, waiting>>

Ecall(p, flush) ==
  \/ priv = User /\ Trap(p, "ecall_u") /\ flush
  \/ priv = Supervisor /\ Trap(p, "ecall_s") /\ flush
  \/ priv \notin {User, Supervisor} /\ Advance(p) /\ ~flush

Sret(p) ==
  /\ priv' = IF p.csr.mstatus.spp THEN Supervisor ELSE User
  /\ pc' = p.csr.sepc
  /\ csr' = [p.csr EXCEPT !.mstatus.sie = p.csr.mstatus.spie,
                          !.mstatus.spie = TRUE, !.mstatus.spp = FALSE]

(* Mutant of Mret: MPP goes back to 0, which is the machine level. *)
MretClearing(p) ==
  /\ priv' = p.csr.mstatus.mpp
  /\ pc' = p.csr.mepc
  /\ csr' = [p.csr EXCEPT !.mstatus.mie = p.csr.mstatus.mpie,
                          !.mstatus.mpie = TRUE, !.mstatus.mpp = Machine]

(* MPP keeps its value. *)
Mret(p) ==
  /\ priv' = p.csr.mstatus.mpp
  /\ pc' = p.csr.mepc
  /\ csr' = [p.csr EXCEPT !.mstatus.mie = p.csr.mstatus.mpie, !.mstatus.mpie = TRUE]

Eret(p, flush) ==
  /\ \/ priv = User /\ Trap(p, "privilege")
     \/ /\ \/ priv = Supervisor /\ Sret(p)
           \/ priv \notin {User, Supervisor} /\ Mret(p)
        /\ rx' = p.rx
        /\ UNCHANGED <<mem, waiting, halted>>
  /\ flush

Wfi(p, flush) ==
  \/ priv = User /\ Trap(p, "privilege") /\ flush
  \/ /\ priv # User /\ ~flush /\ waiting' = TRUE
     /\ pc' = pc + 1 /\ csr' = p.csr /\ rx' = p.rx
     /\ UNCHANGED <<mem, priv, halted>>

LevelOf(name) == IF name \in SupervisorCsrs THEN Supervisor ELSE Machine

(* A write to a read-only register is an "alu". *)
Csrw(p, flush) ==
  \E name \in SupervisorCsrs \cup MachineCsrs :
     \/ /\ Allowed(LevelOf(name)) /\ ~flush
        /\ \E v \in Written : csr' = [p.csr EXCEPT ![name] = v[name]]
        /\ pc' = pc + 1 /\ rx' = p.rx
        /\ UNCHANGED <<mem, priv, waiting, halted>>
     \/ ~Allowed(LevelOf(name)) /\ Trap(p, "privilege") /\ flush

(* CSRR; RAND, AESE and HASH are for the machine level, too. *)
Csrr(p, flush) ==
  \E level \in {Machine, Supervisor} :
     \/ Allowed(level) /\ Advance(p) /\ ~flush
     \/ ~Allowed(level) /\ Trap(p, "privilege") /\ flush

(* IN and OUT: sending a byte makes the transmitter busy, reading the one  *)
(* that is pending and clearing GPIO_INT_ST withdraw their interrupts.     *)
Io(p, flush) ==
  \/ priv = User /\ Trap(p, "privilege") /\ flush
  \/ /\ priv # User /\ ~flush
     /\ \E done \in {{}, {"tx"}, {"ext"}} \cup (IF p.rx THEN {{"rx"}} ELSE {}) :
          /\ csr' = [p.csr EXCEPT !.mip = @ \ done]
          /\ rx' = (p.rx /\ "rx" \notin done)
     /\ pc' = pc + 1
     /\ UNCHANGED <<mem, priv, waiting, halted>>

Execute(p, insn, flush) ==
  /\ \/ insn = "alu" /\ Alu(p, flush)
     \/ insn = "divide" /\ Divide(p, flush)
     \/ insn = "store" /\ Store(p, flush)
     \/ insn = "jump" /\ Jump(p, flush)
     \/ insn = "branch" /\ Branch(p, flush)
     \/ insn = "halt" /\ Halt(p, flush)
     \/ insn = "ecall" /\ Ecall(p, flush)
     \/ insn = "eret" /\ Eret(p, flush)
     \/ insn = "wfi" /\ Wfi(p, flush)
     \/ insn = "csrw" /\ Csrw(p, flush)
     \/ insn = "csrr" /\ Csrr(p, flush)
     \/ insn = "io" /\ Io(p, flush)
  /\ events' = p.events

(* Nothing to do but look at the devices. *)
Idle(p) ==
  /\ csr' = p.csr /\ rx' = p.rx /\ events' = p.events
  /\ UNCHANGED <<mem, pc, priv, waiting, halted>>

----------------------------------------------------------------------------
IsaInit ==
  /\ mem \in Programs
  /\ pc = 0 /\ priv = Machine
  /\ csr \in Configs
  /\ rx = FALSE /\ events \in Arrivals
  /\ waiting = FALSE /\ halted = FALSE

(* The machine takes a pending interrupt, or runs the instruction that is  *)
(* in memory at the program counter; when it looks at the devices is open. *)
IsaNext ==
  /\ ~halted
  /\ \/ \E p \in Polls : Pending(p.csr) /\ TakeInterrupt(p)
     \/ \E p \in Polls : ~Pending(p.csr) /\ Idle(p)
     \/ \E p \in Polls, flush \in BOOLEAN :
          ~waiting /\ ~Pending(p.csr) /\ Execute(p, mem[pc], flush)
     \/ \E flush \in BOOLEAN : ~waiting /\ Execute(Now, mem[pc], flush)

(* SPEC.md:773-775: the prefetch is thrown away when the flow changes and  *)
(* does not change what a program means.  As a property of Processor, this *)
(* says that prefetch, batches and the hand-over at a WFI implement the    *)
(* machine that executes what is in memory at the program counter.         *)
IsaSpec == IsaInit /\ [][IsaNext]_isaVars
=============================================================================
