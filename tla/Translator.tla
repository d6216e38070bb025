----------------------------- MODULE Translator -----------------------------
(***************************************************************************)
(* The translation of x86-64, ARM64 and RISC-V assembly, line by line      *)
(* (compiler/translator.c).  A guest line is a label or a mnemonic with its*)
(* operands: registers, numbers, names, and memory [base + offset].  What  *)
(* a line becomes is a sequence of assembler lines; Refused ends the       *)
(* translation.  Reading of text is left out.                              *)
(***************************************************************************)
EXTENDS Assembler

Operand0 == [k |-> "none", r |-> "", n |-> 0]
Reg(r) == [Operand0 EXCEPT !.k = "reg", !.r = r]
Num(n) == [Operand0 EXCEPT !.k = "num", !.n = n]
Name(t) == [Operand0 EXCEPT !.k = "name", !.r = t]
Mem(r, n) == [k |-> "mem", r |-> r, n |-> n]

\* att: registers are written with a %.
Guest(op, args) == [op |-> op, args |-> args, att |-> FALSE]
GuestLabel(t) == Guest("label", <<Name(t)>>)

-----------------------------------------------------------------------------
(* Registers *)

X86Names == <<"rax", "rbx", "rcx", "rdx", "rsi", "rdi", "r8", "r9", "r10", "r11", "r12", "r13", "r14", "r15",
              "rbp", "rsp", "eax", "ebx", "ecx", "edx", "esi", "edi", "ax", "bx", "cx", "dx">>
RiscvNames == <<"zero", "ra", "sp", "gp", "tp", "t0", "t1", "t2", "s0", "s1", "a0", "a1", "a2", "a3", "a4", "a5",
                "a6", "a7", "s2", "s3", "s4", "s5", "s6", "s7", "s8", "s9", "s10", "s11", "t3", "t4", "t5", "t6">>
Numbered == [k \in 0..31 |-> "x" \o ToString(k)]

NoRegister == -1
PlaceOf(names, r) == IF Contains(names, r) THEN SelectInSeq(names, LAMBDA x : x = r) - 1 ELSE NoRegister
IsNumbered(r, top) == \E k \in 0..top : Numbered[k] = r
NumberOf(r) == CHOOSE k \in 0..31 : Numbered[k] = r

\* The short names of x86 begin anew at R7.
x86_register(r) == IF Contains(X86Names, r) THEN (PlaceOf(X86Names, r) % 16) + 1 ELSE NoRegister
arm_register(r) ==
  CASE r = "sp" -> 31
    [] r = "x30" -> 30
    [] r # "x30" /\ IsNumbered(r, 29) -> NumberOf(r) + 1
    [] OTHER -> NoRegister
riscv_register(r) == IF IsNumbered(r, 31) THEN NumberOf(r) ELSE PlaceOf(RiscvNames, r)

\* source_register; normalize_operand takes the brackets off a plain [base],
\* but RISC-V writes number(base).
Arg(args, k) == IF k \in DOMAIN args THEN args[k] ELSE Operand0
register(arch, r) ==
  CASE arch = "x86" -> x86_register(r) [] arch = "arm" -> arm_register(r) [] arch = "riscv" -> riscv_register(r)
source_register(arch, o) ==
  CASE o.k = "reg" \/ (o.k = "mem" /\ o.n = 0 /\ arch # "riscv") -> register(arch, o.r)
    [] OTHER -> NoRegister
RegisterAt(arch, args, k) == source_register(arch, Arg(args, k))

Short(o) == o.k = "num" /\ o.n \in -1024..1023
ShiftAmount(o) == o.k = "num" /\ o.n \in 0..63

-----------------------------------------------------------------------------
(* Lines that the architectures share *)

SCRATCH == 30

Operation ==
  [add |-> "ADD", addi |-> "ADD", addw |-> "ADD", addiw |-> "ADD", sub |-> "SUB", subw |-> "SUB",
   and |-> "AND", andi |-> "AND", or |-> "OR", orr |-> "OR", ori |-> "OR", xor |-> "XOR", eor |-> "XOR", xori |-> "XOR",
   shl |-> "SHL", sal |-> "SHL", lsl |-> "SHL", slli |-> "SHL", sll |-> "SHL",
   shr |-> "SHR", sar |-> "SHR", lsr |-> "SHR", asr |-> "SHR", srli |-> "SHR", srai |-> "SHR", srl |-> "SHR", sra |-> "SHR",
   mul |-> "MUL", mulw |-> "MUL", imul |-> "MUL",
   div |-> "DIV", idiv |-> "DIV", sdiv |-> "DIV", udiv |-> "DIV", divu |-> "DIV", divw |-> "DIV", divuw |-> "DIV",
   slt |-> "CMPLT", sltu |-> "CMPLT", slti |-> "CMPLT"]

\* The assembler takes a register in place of a shift's number for a name.
RegisterText(r) == "R" \o ToString(r)
emit_three_register(op, d, a, b) ==
  IF op \in {"SHL", "SHR"} THEN <<Named(op, d, a, 0, RegisterText(b))>> ELSE <<Ins(op, d, a, b, 0)>>
emit_two_register(op, d, a) == <<Ins(op, d, a, 0, 0)>>
LoadShort(r, n) == Ins("LI", r, 0, 0, n)

\* An operation with a number goes through the scratch register.
WithNumber(op, d, a, n) == <<LoadShort(SCRATCH, n)>> \o emit_three_register(op, d, a, SCRATCH)

\* Operation on two registers, or on a register and a short number.
Combined(op, d, a, b, o) ==
  CASE b >= 0 -> emit_three_register(op, d, a, b)
    [] b < 0 /\ Short(o) -> WithNumber(op, d, a, o.n)
    [] OTHER -> Refused
Shifted(op, d, a, b, o) ==
  CASE ShiftAmount(o) -> <<Ins(op, d, a, 0, o.n)>>
    [] ~ShiftAmount(o) /\ b >= 0 -> emit_three_register(op, d, a, b)
    [] OTHER -> Refused
Moved(d, a, o) ==
  CASE a >= 0 -> emit_two_register("MOV", d, a)
    [] a < 0 /\ Short(o) -> <<LoadShort(d, o.n)>>
    [] OTHER -> Refused

\* Conditions are lost: both registers compared are R0.
BranchFor ==
  [je |-> "BEQ", jz |-> "BEQ", jne |-> "BNE", jnz |-> "BNE", jl |-> "BLT", jge |-> "BGE", jle |-> "BLE", jg |-> "BGT",
   beq |-> "BEQ", bne |-> "BNE", blt |-> "BLT", bge |-> "BGE", ble |-> "BLE", bgt |-> "BGT"]
Unconditional(op, t) == <<Named(BranchFor[op], 0, 0, 0, t)>>
StackLine(op, d) == <<Ins(IF op = "push" THEN "PUSH" ELSE "POP", d, 0, 0, 0)>>
JumpLine(op, t) == <<Named(op, 0, 0, 0, t)>>
Alone(op) == <<Ins(op, 0, 0, 0, 0)>>

\* How many operands a mnemonic must have, where the translator counts them.
Counted(arity, l) == l.op \in DOMAIN arity => Len(l.args) \in arity[l.op]
Each(ops, counts) == [op \in ops |-> counts]

-----------------------------------------------------------------------------
(* translate_x86 *)

Conditional == {"je", "jz", "jne", "jnz", "jl", "jge", "jle", "jg"}
X86Arity ==
  Each(Conditional \cup {"push", "pop", "jmp", "call", "not", "neg", "div", "idiv", "inc", "dec"}, {1})
  @@ Each({"mov", "add", "sub", "and", "or", "xor", "cmp", "test", "shl", "sal", "shr", "sar", "xchg"}, {2})
  @@ [imul |-> {1, 2}, mul |-> {1, 2}, lea |-> 2..7]

\* AT&T writes the source first; not every line is turned.
Turned(l) ==
  IF l.att /\ Len(l.args) = 2
     /\ l.op \in {"mov", "add", "sub", "and", "or", "xor", "cmp", "test", "shl", "sal", "shr", "sar"}
  THEN Reverse(l.args) ELSE l.args

\* Lines without registers.
x86Control(op, target) ==
  CASE op = "nop" -> Alone("NOP")
    [] op = "ret" -> Alone("RET")
    [] op \in {"syscall", "int"} -> Alone("ECALL")
    [] op \in {"hlt", "ud2"} -> Alone("HALT")
    [] op = "jmp" -> JumpLine("JMP", target)
    [] op = "call" -> JumpLine("CALL", target)
    [] op \in Conditional -> Unconditional(op, target)
X86Controls == {"nop", "ret", "syscall", "int", "hlt", "ud2", "jmp", "call"} \cup Conditional

\* Lines with one register, and with two or a register and a number.
x86OnOne(op, d) ==
  CASE op \in {"push", "pop"} -> StackLine(op, d)
    [] op = "not" -> emit_two_register("NOT", d, d)
    [] op = "neg" -> <<LoadShort(SCRATCH, 0)>> \o emit_three_register("SUB", d, SCRATCH, d)
    [] op = "inc" -> WithNumber("ADD", d, d, 1)
    [] op = "dec" -> WithNumber("ADD", d, d, -1)
    [] op \in {"mul", "imul", "div", "idiv"} -> emit_three_register(Operation[op], 1, 1, d)
    [] OTHER -> Refused

Swap(d, s) == emit_two_register("MOV", 1, d) \o emit_two_register("MOV", d, s) \o emit_two_register("MOV", s, 1)
x86OnTwo(op, d, s, o) ==
  CASE op \in {"mov", "lea"} -> Moved(d, s, o)
    [] op \in {"add", "sub", "and", "or", "xor"} -> Combined(Operation[op], d, d, s, o)
    [] op \in {"cmp", "test"} -> Combined("SUB", 0, d, s, o)
    [] op \in {"shl", "sal", "shr", "sar"} -> Shifted(Operation[op], d, d, s, o)
    [] op \in {"mul", "imul"} /\ s >= 0 -> emit_three_register("MUL", d, d, s)
    [] op = "xchg" /\ s >= 0 -> Swap(d, s)
    [] OTHER -> Refused

translate_x86(l) ==
  LET args == Turned(l)
      d == RegisterAt("x86", args, 1)
  IN IF ~Counted(X86Arity, l) THEN Refused
     ELSE IF l.op \in X86Controls THEN x86Control(l.op, Arg(args, 1).r)
     ELSE IF d < 0 THEN Refused
     ELSE IF Len(args) = 1 THEN x86OnOne(l.op, d) ELSE x86OnTwo(l.op, d, RegisterAt("x86", args, 2), Arg(args, 2))

-----------------------------------------------------------------------------
(* translate_arm *)

ArmConditional == {"beq", "bne", "blt", "bge", "ble", "bgt"}
ArmArity ==
  Each(ArmConditional \cup {"b", "bl", "push", "pop"}, {1})
  @@ Each({"mov", "movz", "cmp", "cmn", "neg", "mvn", "cbz", "cbnz"}, {2})
  @@ Each({"add", "sub", "and", "orr", "eor", "lsl", "lsr", "asr", "mul", "udiv", "sdiv"}, {3})
  @@ Each({"str", "ldr"}, 2..7)

armControl(op, target) ==
  CASE op \in {"nop", "brk", "wfi", "wfe", "msr", "mrs"} -> Alone("NOP")
    [] op = "ret" -> Alone("RET")
    [] op = "svc" -> Alone("ECALL")
    [] op = "b" -> JumpLine("JMP", target)
    [] op = "bl" -> JumpLine("CALL", target)
    [] op \in ArmConditional -> Unconditional(op, target)
ArmControls == {"nop", "brk", "wfi", "wfe", "msr", "mrs", "ret", "svc", "b", "bl"} \cup ArmConditional

armOnTwo(op, d, a, o) ==
  CASE op \in {"push", "pop"} -> StackLine(op, d)
    [] op \in {"mov", "movz"} -> Moved(d, a, o)
    [] op \in {"cmp", "cmn"} -> Combined("SUB", 0, d, a, o)
    [] op = "cbz" -> <<Named("BEQ", d, 0, 0, o.r)>>
    [] op = "cbnz" -> <<Named("BNE", d, 0, 0, o.r)>>
    [] op = "neg" /\ a >= 0 -> <<LoadShort(SCRATCH, 0)>> \o emit_three_register("SUB", d, SCRATCH, a)
    [] op = "mvn" /\ a >= 0 -> emit_two_register("NOT", d, a)
    [] op = "str" /\ a >= 0 -> <<Ins("STORE", d, a, 0, 0)>>
    [] op = "ldr" /\ a >= 0 -> <<Ins("LOAD", d, a, 0, 0)>>
    [] OTHER -> Refused

armOnThree(op, d, a, b, o) ==
  CASE op \in {"add", "sub", "and", "orr", "eor"} -> Combined(Operation[op], d, a, b, o)
    [] op \in {"lsl", "lsr", "asr"} -> Shifted(Operation[op], d, a, b, o)
    [] op \in {"mul", "udiv", "sdiv"} /\ b >= 0 -> emit_three_register(Operation[op], d, a, b)
    [] OTHER -> Refused

translate_arm(l) ==
  LET d == RegisterAt("arm", l.args, 1)
      a == RegisterAt("arm", l.args, 2)
  IN IF ~Counted(ArmArity, l) THEN Refused
     ELSE IF l.op \in ArmControls THEN armControl(l.op, Arg(l.args, 1).r)
     ELSE IF d < 0 THEN Refused
     ELSE IF Len(l.args) < 3 \/ l.op \in {"str", "ldr"} THEN armOnTwo(l.op, d, a, Arg(l.args, 2))
     ELSE IF a < 0 THEN Refused ELSE armOnThree(l.op, d, a, RegisterAt("arm", l.args, 3), Arg(l.args, 3))

-----------------------------------------------------------------------------
(* translate_riscv *)

Loads == {"lw", "ld", "lh", "lb", "lbu", "lhu", "lwu"}
Stores == {"sw", "sd", "sh", "sb"}
WithTwo == {"add", "sub", "and", "or", "xor", "sll", "srl", "sra", "mul", "mulw", "div", "divu", "divw", "divuw",
            "slt", "sltu", "addw", "subw"}
WithShort == {"addi", "andi", "ori", "xori", "slti", "addiw"}
Rests == {"rem", "remu", "remw", "remuw"}
Comparison ==
  [beq |-> "CMPEQ", bne |-> "CMPNE", blt |-> "CMPLT", bltu |-> "CMPLT", bge |-> "CMPLE", bgeu |-> "CMPLE"]
RiscvArity ==
  Each({"push", "pop"}, {1}) @@ Each({"j", "call", "jal"}, {1, 2}) @@ Each({"li", "mv", "lui"}, {2})
  @@ Each(WithTwo \cup WithShort \cup Rests \cup DOMAIN Comparison \cup {"slli", "srli", "srai"}, {3})
  @@ Each(Loads \cup Stores, 2..7)

riscvControl(op, target) ==
  CASE op \in {"nop", "auipc", "fence", "fence.i", "wfi", "csrr", "csrw"} -> Alone("NOP")
    [] op = "ret" -> Alone("RET")
    [] op \in {"ecall", "ebreak"} -> Alone("ECALL")
    [] op = "j" -> JumpLine("JMP", target)
    [] op \in {"call", "jal"} -> JumpLine("CALL", target)
RiscvControls ==
  {"nop", "auipc", "fence", "fence.i", "wfi", "csrr", "csrw", "ret", "ecall", "ebreak", "j", "call", "jal"}

OFFSET == 29

\* The base register, through a register of its own when there is an offset.
AccessLines(op, r, o) ==
  LET base == riscv_register(o.r)
  IN IF o.k \notin {"mem", "reg"} \/ base < 0 THEN Refused
     ELSE IF o.n = 0 THEN <<Ins(op, r, base, 0, 0)>>
     ELSE <<LoadShort(OFFSET, o.n)>> \o emit_three_register("ADD", OFFSET, base, OFFSET) \o <<Ins(op, r, OFFSET, 0, 0)>>

riscvOnOne(op, d, o) ==
  CASE op \in {"push", "pop"} -> StackLine(op, d)
    [] op = "li" /\ Short(o) -> <<LoadShort(d, o.n)>>
    [] op = "lui" /\ o.k = "num" -> <<LoadShort(d, o.n * 4096)>>
    [] op = "mv" /\ RegisterAt("riscv", <<o>>, 1) >= 0 -> emit_two_register("MOV", d, RegisterAt("riscv", <<o>>, 1))
    [] op \in Loads -> AccessLines("LOAD", d, o)
    [] op \in Stores -> AccessLines("STORE", d, o)
    [] OTHER -> Refused

\* MUTANT: the operands of the comparison change places.
CompareSwapped(op, a, b, t) == emit_three_register(Comparison[op], SCRATCH, b, a) \o <<Named("JNZ", SCRATCH, 0, 0, t)>>
CompareAndJump(op, a, b, t) == emit_three_register(Comparison[op], SCRATCH, a, b) \o <<Named("JNZ", SCRATCH, 0, 0, t)>>

\* What is left over: a - (a / b) * b.
RestLines(d, a, b) ==
  emit_three_register("DIV", OFFSET, a, b) \o emit_three_register("MUL", OFFSET, OFFSET, b)
  \o emit_three_register("SUB", d, a, OFFSET)

riscvOnThree(op, d, a, b, o) ==
  CASE op \in DOMAIN Comparison -> CompareAndJump(op, d, a, o.r)
    [] op \in WithShort /\ Short(o) -> WithNumber(Operation[op], d, a, o.n)
    [] op \in {"slli", "srli", "srai"} /\ ShiftAmount(o) -> Shifted(Operation[op], d, a, b, o)
    [] op \in WithTwo /\ b >= 0 -> emit_three_register(Operation[op], d, a, b)
    [] op \in Rests /\ b >= 0 -> RestLines(d, a, b)
    [] OTHER -> Refused

translate_riscv(l) ==
  LET d == RegisterAt("riscv", l.args, 1)
      a == RegisterAt("riscv", l.args, 2)
  IN IF ~Counted(RiscvArity, l) THEN Refused
     ELSE IF l.op = "jalr" /\ l.args = <<Reg("ra")>> THEN Alone("RET")
     ELSE IF l.op \in RiscvControls THEN riscvControl(l.op, Arg(l.args, Len(l.args)).r)
     ELSE IF d < 0 THEN Refused
     ELSE IF Len(l.args) < 3 \/ l.op \in Loads \cup Stores THEN riscvOnOne(l.op, d, Arg(l.args, 2))
     ELSE IF a < 0 THEN Refused ELSE riscvOnThree(l.op, d, a, RegisterAt("riscv", l.args, 3), Arg(l.args, 3))

-----------------------------------------------------------------------------
\* compiler_translate_source: labels are carried over, directives left out.
is_directive(l) == l.op = "directive"
Instruction(arch, l) ==
  CASE arch = "x86" -> translate_x86(l) [] arch = "arm" -> translate_arm(l) [] arch = "riscv" -> translate_riscv(l)
TranslatedLine(arch, l) == IF l.op = "label" THEN <<Label(l.args[1].r)>> ELSE Instruction(arch, l)
=============================================================================
