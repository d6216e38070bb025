------------------------------ MODULE MCForeign ------------------------------
(* Foreign programs.  They keep off what the translator changes: conditions *)
(* of x86 and ARM, the register that shares R1 with the assembler, those    *)
(* behind R7 and R27 to R30, and unsigned and arithmetic variants.  The     *)
(* WebAssembly modules keep off a result at the end of a function without   *)
(* return, values left under a branch or in both arms of an if, what shifts *)
(* leave, copies of more than nothing, i32 results that do not fit, initial *)
(* values of globals, and results of calls that are made with more than     *)
(* three values on the stack.                                               *)
EXTENDS Translator, Wasm

\* Every way to fill in two operands of a small program.
Crossed(Made(_, _), xs, ys) ==
  FoldLeft(LAMBDA made, x : made \o [k \in DOMAIN ys |-> Made(x, ys[k])], <<>>, xs)

Line(op, args) == Guest(op, args)
Att(op, args) == [Guest(op, args) EXCEPT !.att = TRUE]
r(x) == Reg(x)
num(v) == Num(v)
to(t) == Name(t)
Here(t) == GuestLabel(t)
Dot1 == Line("directive", <<>>)

X86(lines) == [arch |-> "x86", lines |-> <<Dot1>> \o lines \o <<Line("hlt", <<>>)>>]
Arm(lines) == [arch |-> "arm", lines |-> <<Dot1>> \o lines \o <<Here("end"), Line("b", <<to("end")>>)>>]
Riscv(lines) == [arch |-> "riscv", lines |-> <<Dot1>> \o lines \o <<Here("end"), Line("j", <<to("end")>>)>>]

X86Two(op, x, y) == X86(<<Line("mov", <<r("rbx"), num(x)>>), Line("mov", <<r("rcx"), num(y)>>), Line(op, <<r("rbx"), r("rcx")>>)>>)
X86Att(op, x, y) == X86(<<Att("mov", <<num(x), r("rbx")>>), Att("mov", <<num(y), r("rsi")>>), Att(op, <<r("rsi"), r("rbx")>>)>>)
X86Imm(op, x, y) == X86(<<Line("mov", <<r("r15"), num(x)>>), Line(op, <<r("r15"), num(y)>>), Line("mov", <<r("rdx"), r("r15")>>)>>)
X86Att2(op, x, y) == X86(<<Att("mov", <<num(x), r("rdi")>>), Att(op, <<num(y), r("rdi")>>), Att("mov", <<r("rdi"), r("r9")>>)>>)
X86One(op, x, y) == X86(<<Line("mov", <<r("rbp"), num(x)>>), Line(op, <<r("rbp")>>)>>)
X86Rax(op, x, y) == X86(<<Line("mov", <<r("rax"), num(x)>>), Line("mov", <<r("rbx"), num(y)>>), Line(op, <<r("rbx")>>)>>)

ArmThree(op, x, y) ==
  Arm(<<Line("mov", <<r("x1"), num(x)>>), Line("movz", <<r("x2"), num(y)>>), Line(op, <<r("x3"), r("x1"), r("x2")>>)>>)
ArmImm(op, x, y) == Arm(<<Line("mov", <<r("x8"), num(x)>>), Line(op, <<r("x9"), r("x8"), num(y)>>)>>)
ArmOne(op, x, y) == Arm(<<Line("mov", <<r("x4"), num(x)>>), Line(op, <<r("x5"), r("x4")>>), Line("mov", <<r("x25"), r("x5")>>)>>)
ArmZero(op, x, y) ==
  Arm(<<Line("mov", <<r("x1"), num(x)>>), Line("mov", <<r("x2"), num(y)>>), Line(op, <<r("x1"), to("over")>>),
        Line("add", <<r("x2"), r("x2"), num(9)>>), Here("over"), Line("sub", <<r("x2"), r("x2"), r("x1")>>)>>)

RiscvThree(op, x, y) ==
  Riscv(<<Line("li", <<r("a0"), num(x)>>), Line("li", <<r("a1"), num(y)>>), Line(op, <<r("a2"), r("a0"), r("a1")>>),
          Line("mv", <<r("x26"), r("a2")>>), Line(op, <<r("zero"), r("a0"), r("a1")>>)>>)
RiscvImm(op, x, y) == Riscv(<<Line("li", <<r("s0"), num(x)>>), Line(op, <<r("tp"), r("s0"), num(y)>>)>>)
RiscvUpper(op, x, y) == Riscv(<<Line("lui", <<r("a5"), num(1)>>), Line("addi", <<r("a5"), r("a5"), num(x)>>)>>)
RiscvBranch(op, x, y) ==
  Riscv(<<Line("li", <<r("t0"), num(x)>>), Line("li", <<r("t1"), num(y)>>), Line("j", <<to("test")>>),
          Here("back"), Line("add", <<r("a0"), r("t0"), r("t1")>>), Line("j", <<to("end")>>),
          Here("test"), Line(op, <<r("t0"), r("t1"), to("back")>>), Line("sub", <<r("a0"), r("t0"), r("t1")>>)>>)

\* Loops, calls, stacks and memory.
X86Calls ==
  X86(<<Line("mov", <<r("rbx"), num(3)>>), Line("call", <<to("f")>>), Line("call", <<to("g")>>), Line("jmp", <<to("out")>>),
        Here("f"), Line("add", <<r("rbx"), r("rbx")>>), Line("call", <<to("g")>>), Line("ret", <<>>),
        Here("g"), Line("inc", <<r("rbx")>>), Line("nop", <<>>), Line("ret", <<>>), Here("out")>>)
X86Stack ==
  X86(<<Line("mov", <<r("rbx"), num(3)>>), Line("mov", <<r("rdi"), num(-4)>>), Line("push", <<r("rbx")>>), Line("push", <<r("rdi")>>),
        Line("pop", <<r("rbx")>>), Line("pop", <<r("rcx")>>), Line("xchg", <<r("rcx"), r("rdi")>>), Line("lea", <<r("rsi"), r("rcx")>>),
        Line("lea", <<r("rbp"), num(100)>>), Line("cmp", <<r("rbx"), r("rcx")>>), Line("test", <<r("rbx"), num(1)>>)>>)
ArmFactorial ==
  Arm(<<Line("mov", <<r("x2"), num(7)>>), Line("mov", <<r("x3"), num(1)>>), Line("bl", <<to("times")>>), Line("b", <<to("end")>>),
        Here("times"), Line("mul", <<r("x3"), r("x3"), r("x2")>>), Line("sub", <<r("x2"), r("x2"), num(1)>>),
        Line("cbnz", <<r("x2"), to("times")>>), Line("ret", <<>>)>>)
ArmMemory ==
  Arm(<<Line("mov", <<r("x1"), num(800)>>), Line("mov", <<r("x2"), num(-9)>>), Line("str", <<r("x2"), Mem("x1", 0)>>),
        Line("add", <<r("x1"), r("x1"), num(8)>>), Line("str", <<r("x1"), Mem("x1", 0)>>), Line("ldr", <<r("x3"), Mem("x1", 0)>>),
        Line("sub", <<r("x1"), r("x1"), num(8)>>), Line("ldr", <<r("x4"), Mem("x1", 0)>>), Line("push", <<r("x3")>>),
        Line("push", <<r("x4")>>), Line("pop", <<r("x3")>>), Line("pop", <<r("x4")>>), Line("cmp", <<r("x3"), r("x4")>>),
        Line("nop", <<>>)>>)
RiscvGcd ==
  Riscv(<<Line("li", <<r("a0"), num(84)>>), Line("li", <<r("a1"), num(36)>>), Line("call", <<to("gcd")>>), Line("j", <<to("end")>>),
          Here("gcd"), Line("beq", <<r("a1"), r("zero"), to("done")>>), Line("rem", <<r("a2"), r("a0"), r("a1")>>),
          Line("mv", <<r("a0"), r("a1")>>), Line("mv", <<r("a1"), r("a2")>>), Line("j", <<to("gcd")>>),
          Here("done"), Line("ret", <<>>)>>)
RiscvSum ==
  Riscv(<<Line("li", <<r("s1"), num(800)>>), Line("li", <<r("t0"), num(0)>>), Here("fill"), Line("sd", <<r("t0"), Mem("s1", 8)>>),
          Line("addi", <<r("s1"), r("s1"), num(8)>>), Line("addi", <<r("t0"), r("t0"), num(5)>>), Line("li", <<r("t1"), num(20)>>),
          Line("blt", <<r("t0"), r("t1"), to("fill")>>), Line("li", <<r("a0"), num(0)>>), Here("sum"),
          Line("lw", <<r("a1"), Mem("s1", 0)>>), Line("add", <<r("a0"), r("a0"), r("a1")>>),
          Line("addi", <<r("s1"), r("s1"), num(-8)>>), Line("bne", <<r("a1"), r("zero"), to("sum")>>),
          Line("fence", <<>>), Line("push", <<r("a0")>>), Line("jal", <<r("ra"), to("f")>>), Line("pop", <<r("a3")>>),
          Line("j", <<to("end")>>), Here("f"), Line("slti", <<r("a4"), r("a0"), num(31)>>), Line("jalr", <<r("ra")>>)>>)

\* What the translator refuses: a number too long, a missing operand, an
\* unknown mnemonic, memory for x86.
RefusedLines ==
  <<X86(<<Line("mov", <<r("rbx"), num(1024)>>)>>), X86(<<Line("add", <<r("rbx")>>)>>), X86(<<Line("mov", <<Mem("rbx", 4), r("rcx")>>)>>),
    Arm(<<Line("madd", <<r("x1"), r("x2"), r("x3")>>)>>), Arm(<<Line("str", <<r("x1"), Mem("x2", 8)>>)>>),
    Riscv(<<Line("li", <<r("a0"), num(-1025)>>)>>), Riscv(<<Line("slli", <<r("a0"), r("a0"), num(64)>>)>>)>>

Small == <<<<5, 3>>, <<-7, 2>>, <<1023, -1024>>>>
Positive == <<<<5, 3>>, <<1023, 7>>, <<3, 1022>>>>
ShiftPairs == <<<<5, 3>>, <<1000, 1>>, <<7, 0>>>>

Programs ==
  <<X86Calls, X86Stack, ArmFactorial, ArmMemory, RiscvGcd, RiscvSum>> \o RefusedLines
  \o Crossed(LAMBDA op, v : X86Two(op, v[1], v[2]), <<"add", "sub", "and", "or", "xor", "mov", "imul">>, Small)
  \o Crossed(LAMBDA op, v : X86Att(op, v[1], v[2]), <<"add", "sub", "mov">>, Small)
  \o Crossed(LAMBDA op, v : X86Imm(op, v[1], v[2]), <<"add", "sub", "and", "or", "xor">>, Small)
  \o Crossed(LAMBDA op, v : X86Imm(op, v[1], v[2]), <<"shl", "sal", "shr">>, ShiftPairs)
  \o Crossed(LAMBDA op, v : X86Att2(op, v[1], v[2]), <<"sub", "shl">>, ShiftPairs)
  \o Crossed(LAMBDA op, v : X86One(op, v[1], v[2]), <<"neg", "not", "inc", "dec">>, Small)
  \o Crossed(LAMBDA op, v : X86Rax(op, v[1], v[2]), <<"mul", "imul", "div", "idiv">>, Positive)
  \o Crossed(LAMBDA op, v : ArmThree(op, v[1], v[2]), <<"add", "sub", "and", "orr", "eor", "mul", "sdiv">>, Small)
  \o Crossed(LAMBDA op, v : ArmThree(op, v[1], v[2]), <<"udiv">>, Positive)
  \o Crossed(LAMBDA op, v : ArmImm(op, v[1], v[2]), <<"add", "sub", "and", "orr", "eor">>, Small)
  \o Crossed(LAMBDA op, v : ArmImm(op, v[1], v[2]), <<"lsl", "lsr">>, ShiftPairs)
  \o Crossed(LAMBDA op, v : ArmOne(op, v[1], v[2]), <<"neg", "mvn", "mov">>, Small)
  \o Crossed(LAMBDA op, v : ArmZero(op, v[1], v[2]), <<"cbz", "cbnz">>, ShiftPairs \o <<<<0, 4>>>>)
  \o Crossed(LAMBDA op, v : RiscvThree(op, v[1], v[2]),
             <<"add", "sub", "and", "or", "xor", "mul", "mulw", "div", "rem", "slt", "addw", "subw">>, Small)
  \o Crossed(LAMBDA op, v : RiscvThree(op, v[1], v[2]), <<"divu", "remu", "sltu">>, Positive)
  \o Crossed(LAMBDA op, v : RiscvImm(op, v[1], v[2]), <<"addi", "andi", "ori", "xori", "slti", "addiw">>, Small)
  \o Crossed(LAMBDA op, v : RiscvImm(op, v[1], v[2]), <<"slli", "srli">>, ShiftPairs)
  \o Crossed(LAMBDA op, v : RiscvUpper(op, v[1], v[2]), <<"lui">>, Small)
  \o Crossed(LAMBDA op, v : RiscvBranch(op, v[1], v[2]), <<"beq", "bne", "blt">>, Small \o <<<<4, 4>>>>)
  \o Crossed(LAMBDA op, v : RiscvBranch(op, v[1], v[2]), <<"bltu">>, Positive)

-----------------------------------------------------------------------------
(* Modules *)

Const(n) == Instr("const", "i64", n)
Small32(n) == Instr("const", "i32", n)
Get(k) == Instr("local.get", "", k)
SetL(k) == Instr("local.set", "", k)
Tee(k) == Instr("local.tee", "", k)
GetG(k) == Instr("global.get", "", k)
SetG(k) == Instr("global.set", "", k)
Op(op) == Instr(op, "i64", 0)
Op32(op) == Instr(op, "i32", 0)
At(op, n) == Instr(op, "", n)
Cell(op, t, n) == Instr(op, t, n)
Return == At("return", 0)
EndOp == At("end", 0)

Type(p, res) == [params |-> p, results |-> res]
List(id, list) == [id |-> id, list |-> list]
Global(mutable) == [mutable |-> mutable, init |-> Const(0)]
Main(index) == List("export", <<[kind |-> "memory", name |-> "memory", index |-> 0],
                                [kind |-> "func", name |-> "kernel_main", index |-> index]>>)

\* A module of main alone, and one that has functions besides.
MainOf(locals, ops) ==
  <<List("type", <<Type(0, 1)>>), List("function", <<0>>), List("memory", <<1>>), List("global", <<Global(TRUE)>>),
    Main(0), List("code", <<Code(locals, ops \o <<Return, EndOp>>)>>)>>
With(types, funcs, codes) ==
  <<List("type", types), List("import", <<[kind |-> "global", type |-> 0]>>), List("function", funcs), List("memory", <<1>>),
    List("global", <<Global(TRUE), Global(TRUE)>>), Main(0), List("element", [active |-> TRUE, offset |-> Const(0), entries |-> <<1, 2>>]),
    List("code", codes)>>

Both(op, x, y) == MainOf(0, <<Const(x), Const(y), Op(op)>>)
Both32(op, x, y) == MainOf(0, <<Small32(x), Small32(y), Op32(op)>>)
\* The value is lost; what lies under it is not.
ShiftLost(op, x, k) == MainOf(0, <<Const(42), Const(x), Const(k), Op(op), At("drop", 0)>>)
ShiftLost32(op, x, k) == MainOf(0, <<Const(42), Small32(x), Small32(k), Op32(op), At("drop", 0)>>)

\* Choice by br_if, if and else, select, br_table.
Choosing(x) ==
  MainOf(2, <<Const(x), SetL(0), At("block", 0), Get(0), Const(3), Op("lt_s"), At("br_if", 0), Const(7), SetL(1), EndOp,
             Get(0), At("if", 0), Get(1), Const(10), Op("add"), SetL(1), At("else", 0), Const(50), SetL(1), EndOp,
             Get(0), Op("eqz"), At("if", 0), Const(60), SetG(0), EndOp,
             Get(1), Get(0), Get(0), Const(2), Op("gt_u"), At("select", 0)>>)
Cases(x) ==
  MainOf(1, <<At("block", 0), At("block", 0), At("block", 0), Const(x), BrTable(<<0, 1, 2>>), EndOp,
             Const(11), SetL(0), At("br", 1), EndOp, Const(22), SetL(0), EndOp, Get(0), Const(1), Op("add")>>)
\* Sum of squares with a loop in a block.
Squares(n) ==
  MainOf(2, <<Const(n), SetL(0), At("block", 0), At("loop", 0), Get(0), Op("eqz"), At("br_if", 1),
             Get(0), Get(0), Op("mul"), Get(1), Op("add"), SetL(1), Get(0), Const(1), Op("sub"), Tee(0), At("drop", 0),
             At("br", 0), EndOp, EndOp, At("nop", 0), Get(1)>>)
\* Words and parts of words, and a copy of nothing.
Memory ==
  MainOf(0, <<Const(3000), Const(-2), Cell("store", "i64", 4), Const(3000), Const(260), Cell("store32", "i64", 6),
             Const(3000), Small32(127), Cell("store", "i32", 8), Const(4000), Const(3000), Const(0), At("memory.copy", 0),
             Const(3004), Cell("load", "i64", 0), Const(3000), Cell("load32_s", "i64", 4), Op("sub"), SetG(0),
             Const(3000), Cell("load32_u", "i64", 4), Const(3002), Cell("load32_u", "i64", 4), Op("add"),
             Const(3000), Cell("load", "i32", 8), Op("extend_u"), Op("add"), GetG(0), Op("add")>>)
Narrow(x) ==
  MainOf(0, <<Const(x), Op("extend8_s"), Const(x), Op("extend16_s"), Op("add"), Const(x), Op("extend32_s"), Op("xor"),
             Const(x), Op("wrap"), Op("extend_s"), Op("sub"), Const(x), Op("wrap"), Op("extend_u"), Op("or")>>)

\* f(a, b, c, d, e, g) sets a - b + c - ..., with more parameters than registers.
Alternating ==
  Code(1, <<Get(0), Get(1), Op("sub"), Get(2), Op("add"), Get(3), Op("sub"), Get(4), Op("add"), Get(5), Op("sub"), SetG(1), Return, EndOp>>)
Calls ==
  With(<<Type(0, 1), Type(6, 0), Type(1, 0)>>, <<0, 1, 2>>,
       <<Code(1, <<Const(100), SetG(0), Const(9), Const(30), Const(1), At("call", 2), Const(2), Op("add"), SetL(0),
                   Const(7), Const(3), Const(20), Const(4), Const(5), Const(6), At("call", 1), GetG(1), Op("add"), Get(0), Op("add"), Return, EndOp>>),
         Alternating, Code(0, <<GetG(0), Get(0), Op("add"), SetG(0), EndOp>>)>>)
\* g(n) = h(n) + n, by way of the table.
Indirect(sel) ==
  With(<<Type(0, 1), Type(1, 1)>>, <<0, 1, 1>>,
       <<Code(0, <<Const(40), Const(5), Const(sel), At("call_indirect", 1), Op("sub"), Return, EndOp>>),
         Code(0, <<Get(0), Const(1), At("call_indirect", 1), Get(0), Op("add"), Return, EndOp>>),
         Code(0, <<Get(0), Const(3), Op("mul"), Return, EndOp>>)>>)
Recursion ==
  With(<<Type(0, 1), Type(1, 1)>>, <<0, 1, 1>>,
       <<Code(0, <<Const(2), At("call", 1), SetG(1), GetG(1), Return, EndOp>>),
         Code(0, <<Get(0), Op("eqz"), At("if", 0), Const(1), Return, EndOp, Get(0), Get(0), Const(1), Op("sub"), At("call", 2), Op("mul"), Return, EndOp>>),
         Code(0, <<Get(0), Const(1), Op("add"), Return, EndOp>>)>>)

Trap == MainOf(0, <<Const(1), At("unreachable", 0)>>)

\* What is refused: too many parameters or results, no main, a body missing,
\* an imported call, a local, global or depth there is not, a constant, an
\* initial value that is not constant, a stack too deep.
Refusals ==
  <<<<List("type", <<Type(17, 0)>>)>>, <<List("type", <<Type(0, 2)>>)>>,
    <<List("type", <<Type(0, 1)>>), List("function", <<0>>), List("code", <<Code(0, <<EndOp>>)>>)>>,
    <<List("type", <<Type(0, 1)>>), List("function", <<0>>), Main(0), List("code", <<>>)>>,
    <<List("type", <<Type(0, 1)>>), List("import", <<[kind |-> "func", type |-> 0]>>), List("function", <<0>>), Main(1),
      List("code", <<Code(0, <<At("call", 0), Return, EndOp>>)>>)>>,
    <<List("type", <<Type(0, 1)>>), List("function", <<1>>), Main(0), List("code", <<Code(0, <<EndOp>>)>>)>>,
    <<List("global", <<[mutable |-> TRUE, init |-> GetG(0)]>>)>>,
    <<List("element", [active |-> FALSE, offset |-> Const(0), entries |-> <<>>])>>,
    MainOf(1, <<Get(1)>>), MainOf(0, <<GetG(1)>>), MainOf(0, <<At("br", 1)>>), MainOf(0, <<At("call_indirect", 9)>>),
    MainOf(0, <<At("else", 0)>>), MainOf(0, <<At("drop", 0)>>), MainOf(1025, <<Const(0)>>), MainOf(0, <<Op("clz")>>),
    MainOf(0, <<At("select", 0)>>), MainOf(0, <<At("memory.copy", 0)>>), MainOf(0, <<At("if", 0)>>),
    MainOf(0, [k \in 1..21 |-> Const(k)])>>

Pairs == <<<<5, 3>>, <<-7, 2>>, <<1023, -1024>>, <<4, 4>>>>
Lows == <<<<5, 3>>, <<0, 100>>, <<4, 4>>>>

Modules ==
  <<Memory, Calls, Recursion, Trap>> \o Refusals
  \o Crossed(LAMBDA op, v : Both(op, v[1], v[2]),
             <<"add", "sub", "mul", "div_s", "div_u", "rem_s", "rem_u", "and", "or", "xor", "eq", "ne", "lt_s", "lt_u",
               "gt_s", "gt_u", "le_s", "le_u", "ge_s", "ge_u">>, Pairs)
  \o Crossed(LAMBDA op, v : Both32(op, v[1], v[2]),
             <<"div_s", "rem_u", "and", "or", "xor", "eq", "ne", "lt_s", "gt_s", "le_u", "ge_u">>, Lows)
  \o Crossed(LAMBDA op, x : ShiftLost(op, x, 3), <<"shl", "shr_s", "shr_u", "rotl", "rotr">>, <<5, -3>>)
  \o Crossed(LAMBDA op, x : ShiftLost32(op, x, 2), <<"shl", "shr_s", "shr_u", "rotl", "rotr">>, <<5, 100>>)
  \o [k \in 1..5 |-> Choosing(k - 1)] \o [k \in 1..5 |-> Cases(k - 1)] \o <<Squares(0), Squares(1), Squares(4)>>
  \o [k \in 1..4 |-> Narrow(<<3, -3, 1000, 170>>[k])] \o <<Indirect(0), Indirect(1)>>
=============================================================================
