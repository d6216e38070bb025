-------------------------- MODULE ForeignSemantics --------------------------
(***************************************************************************)
(* What the translator's inputs mean, by their own rules.                  *)
(* Programs of the three guest architectures: registers by name, numbers   *)
(* of 16 bits instead of 64, a stack of values and a stack of callers.     *)
(* Memory is a function of addresses.  Programs must not depend on where a *)
(* stack is, on flags, or on the names of parts of registers; "end" is the *)
(* label of the line where they rest.                                      *)
(* WebAssembly modules: structured control with a stack that is cut back   *)
(* at every branch, functions that return the values on top, numbers of    *)
(* BITS bits for i64 and half as many for i32, and a memory of bytes, the  *)
(* lowest first.  Traps are left out, and so is all that a module may ask  *)
(* for and the translator refuses.                                         *)
(***************************************************************************)
EXTENDS Translator, Wasm

-----------------------------------------------------------------------------
(* Guest programs *)

\* The return address is the callers' concern.
RegistersOf(lines) ==
  {a.r : a \in {x \in UNION {Range(lines[k].args) : k \in DOMAIN lines} : x.k \in {"reg", "mem"}}} \ {"ra"}

Begin(lines) ==
  [reg |-> [r \in RegistersOf(lines) |-> 0], mem |-> <<>>, stack |-> <<>>, callers |-> <<>>, at |-> 1, rests |-> FALSE]

HardZero == {"zero", "x0"}
Val(arch, s, o) == IF o.k = "num" THEN Wrap(o.n) ELSE s.reg[o.r]
Put(arch, s, r, v) == IF arch = "riscv" /\ r \in HardZero THEN s ELSE [s EXCEPT !.reg[r] = v]

\* AT&T lines name the source first.
Ordered(l) == IF l.att THEN Reverse(l.args) ELSE l.args

Computes(op, x, y) ==
  CASE op \in {"add", "addi", "addw", "addiw"} -> Wrap(x + y)
    [] op \in {"sub", "subw"} -> Wrap(x - y)
    [] op \in {"mul", "imul", "mulw"} -> Wrap(x * y)
    [] op \in {"div", "idiv", "sdiv", "divw"} -> Quotient(x, y)
    [] op \in {"divu", "divuw", "udiv"} -> x \div y
    [] op \in {"rem", "remw"} -> Remainder(x, y)
    [] op \in {"remu", "remuw"} -> x % y
    [] op \in {"and", "andi"} -> x & y
    [] op \in {"or", "orr", "ori"} -> x | y
    [] op \in {"xor", "eor", "xori"} -> x ^^ y
    [] op \in {"shl", "sal", "lsl", "slli"} -> Wrap(x * 2^y)
    [] op \in {"shr", "lsr", "srli"} -> x \div 2^y
    [] op \in {"slt", "slti"} -> Bit(Signed(x) < Signed(y))
    [] op = "sltu" -> Bit(x < y)
ComputingOps ==
  {"add", "addi", "addw", "addiw", "sub", "subw", "mul", "imul", "mulw", "div", "idiv", "sdiv", "divw", "divu", "divuw",
   "udiv", "rem", "remw", "remu", "remuw", "and", "andi", "or", "orr", "ori", "xor", "eor", "xori", "shl", "sal", "lsl",
   "slli", "shr", "lsr", "srli", "slt", "slti", "sltu"}

\* On one operand
Changes(op, x) ==
  CASE op = "neg" -> Wrap(-x)
    [] op \in {"not", "mvn"} -> Wrap(-1 - x)
    [] op = "inc" -> Wrap(x + 1)
    [] op = "dec" -> Wrap(x - 1)
    [] op = "lui" -> Wrap(x * 4096)
    [] op \in {"mov", "movz", "li", "mv", "lea"} -> x
ChangingOps == {"neg", "not", "mvn", "inc", "dec", "lui", "mov", "movz", "li", "mv", "lea"}

Decides(op, x, y) ==
  CASE op \in {"beq", "cbz"} -> x = y
    [] op \in {"bne", "cbnz"} -> x # y
    [] op = "blt" -> Signed(x) < Signed(y)
    [] op = "bltu" -> x < y
DecidingOps == {"beq", "bne", "blt", "bltu", "cbz", "cbnz"}

LineFor(lines, t) == CHOOSE k \in DOMAIN lines : lines[k] = GuestLabel(t)
Heading(s, lines, t) == [s EXCEPT !.at = LineFor(lines, t)]

Calculates(s, arch, op, args) ==
  CASE Len(args) = 3 -> Put(arch, s, args[1].r, Computes(op, Val(arch, s, args[2]), Val(arch, s, args[3])))
    [] Len(args) = 2 -> Put(arch, s, args[1].r, Computes(op, Val(arch, s, args[1]), Val(arch, s, args[2])))
    [] Len(args) = 1 -> Put(arch, s, "rax", Computes(op, s.reg["rax"], Val(arch, s, args[1])))

Decision(s, lines, arch, op, args) ==
  LET y == IF Len(args) = 3 THEN Val(arch, s, args[2]) ELSE 0
  IN IF Decides(op, Val(arch, s, args[1]), y) THEN Heading(s, lines, args[Len(args)].r) ELSE s

Cell(s, at) == IF at \in DOMAIN s.mem THEN s.mem[at] ELSE 0
Reaches(s, o) == Wrap(s.reg[o.r] + o.n)

\* s.at is the next line already.
Effect(s, lines, arch, op, args) ==
  CASE op \in ComputingOps -> Calculates(s, arch, op, args)
    [] op \in ChangingOps -> Put(arch, s, args[1].r, Changes(op, Val(arch, s, args[Len(args)])))
    [] op \in DecidingOps -> Decision(s, lines, arch, op, args)
    [] op = "xchg" -> [s EXCEPT !.reg[args[1].r] = s.reg[args[2].r], !.reg[args[2].r] = s.reg[args[1].r]]
    [] op \in {"jmp", "b", "j"} -> Heading(s, lines, args[1].r)
    [] op \in {"call", "bl", "jal"} -> Heading([s EXCEPT !.callers = <<s.at>> \o @], lines, args[Len(args)].r)
    [] op \in {"ret", "jalr"} -> [s EXCEPT !.at = Head(s.callers), !.callers = Tail(@)]
    [] op = "push" -> [s EXCEPT !.stack = <<s.reg[args[1].r]>> \o @]
    [] op = "pop" -> [Put(arch, s, args[1].r, Head(s.stack)) EXCEPT !.stack = Tail(@)]
    [] op \in {"str", "sw", "sd"} -> [s EXCEPT !.mem = (Reaches(s, args[2]) :> s.reg[args[1].r]) @@ @]
    [] op \in {"ldr", "lw", "ld"} -> Put(arch, s, args[1].r, Cell(s, Reaches(s, args[2])))
    [] OTHER -> s

Resting(l) == l.op = "hlt" \/ l = GuestLabel("end")

GuestStep(s, lines, arch) ==
  IF Resting(lines[s.at]) THEN [s EXCEPT !.rests = TRUE]
  ELSE Effect([s EXCEPT !.at = @ + 1], lines, arch, lines[s.at].op, Ordered(lines[s.at]))

RECURSIVE RunGuest(_, _, _)
RunGuest(s, lines, arch) == IF s.rests THEN s ELSE RunGuest(GuestStep(s, lines, arch), lines, arch)

\* The registers a program names, when it rests.
Outcome(guest) == RunGuest(Begin(guest.lines), guest.lines, guest.arch).reg

-----------------------------------------------------------------------------
(* WebAssembly modules *)

Listed(sections, id) ==
  LET found == SelectSeq(sections, LAMBDA s : s.id = id) IN IF found = <<>> THEN <<>> ELSE found[1].list

\* Functions by their places in the table.
TableOf(seg) == [k \in seg.offset.n..(seg.offset.n + Len(seg.entries) - 1) |-> seg.entries[k - seg.offset.n + 1]]
HasTable(sections) == \E k \in DOMAIN sections : sections[k].id = "element"

Module(sections) ==
  [types |-> Listed(sections, "type"),
   funcs |-> Typed(SelectSeq(Listed(sections, "import"), LAMBDA e : e.kind = "func")) \o Listed(sections, "function"),
   first |-> Len(SelectSeq(Listed(sections, "import"), LAMBDA e : e.kind = "func")),
   table |-> IF HasTable(sections) THEN TableOf(Listed(sections, "element")) ELSE <<>>,
   code |-> Listed(sections, "code"),
   main |-> SelectSeq(Listed(sections, "export"), LAMBDA e : e.name = "kernel_main")[1].index]

TypeOf(mod, index) == mod.types[mod.funcs[index + 1] + 1]
OpsOf(mod, index) == mod.code[index - mod.first + 1].ops

\* The end that belongs to the block that opens on line k, and its else.
Opens(op) == op \in {"block", "loop", "if"}
LevelAfter(ops, k, j) ==
  Cardinality({n \in k..j : Opens(ops[n].op)}) - Cardinality({n \in k..j : ops[n].op = "end"})
EndFor(ops, k) == CHOOSE j \in k..Len(ops) : LevelAfter(ops, k, j) = 0 /\ \A n \in k..(j - 1) : LevelAfter(ops, k, n) > 0
ElsesFor(ops, k) == {j \in k..EndFor(ops, k) : ops[j].op = "else" /\ LevelAfter(ops, k, j) = 1}

Lower(t, v) == v % 2^Width(t)
Sgn(t, v) == IF v < 2^(Width(t) - 1) THEN v ELSE v - 2^Width(t)
Toward0(x, y) == IF (x < 0) = (y < 0) THEN Abs(x) \div Abs(y) ELSE -(Abs(x) \div Abs(y))

Of2(op, t, x, y) ==
  CASE op = "add" -> Lower(t, x + y) [] op = "sub" -> Lower(t, x - y) [] op = "mul" -> Lower(t, x * y)
    [] op = "div_s" -> Lower(t, Toward0(Sgn(t, x), Sgn(t, y)))
    [] op = "rem_s" -> Lower(t, Sgn(t, x) - (Sgn(t, y) * Toward0(Sgn(t, x), Sgn(t, y))))
    [] op = "div_u" -> x \div y [] op = "rem_u" -> x % y
    [] op = "and" -> x & y [] op = "or" -> x | y [] op = "xor" -> x ^^ y
    [] op = "eq" -> Bit(x = y) [] op = "ne" -> Bit(x # y)
    [] op = "lt_u" -> Bit(x < y) [] op = "gt_u" -> Bit(x > y) [] op = "le_u" -> Bit(x <= y) [] op = "ge_u" -> Bit(x >= y)
    [] op = "lt_s" -> Bit(Sgn(t, x) < Sgn(t, y)) [] op = "gt_s" -> Bit(Sgn(t, x) > Sgn(t, y))
    [] op = "le_s" -> Bit(Sgn(t, x) <= Sgn(t, y)) [] op = "ge_s" -> Bit(Sgn(t, x) >= Sgn(t, y))
    [] op = "shl" -> Lower(t, x * 2^(y % Width(t)))
    [] op = "shr_u" -> x \div 2^(y % Width(t))
    [] op = "shr_s" -> Lower(t, Sgn(t, x) \div 2^(y % Width(t)))
    [] op = "rotl" -> Lower(t, x * 2^(y % Width(t))) + (x \div 2^(Width(t) - (y % Width(t))))
    [] op = "rotr" -> (x \div 2^(y % Width(t))) + Lower(t, x * 2^(Width(t) - (y % Width(t))))
Binaries == DOMAIN Operations \cup DOMAIN Reversed \cup Shifts

SignFrom(v, bits, t) == Lower(t, IF (v % 2^bits) < 2^(bits - 1) THEN v % 2^bits ELSE (v % 2^bits) - 2^bits)
Of1(op, t, x) ==
  CASE op = "eqz" -> Bit(x = 0)
    [] op = "wrap" -> x % 2^HALF
    [] op = "extend_u" -> x
    [] op = "extend_s" -> SignFrom(x, HALF, "i64")
    [] op \in DOMAIN NarrowBits -> SignFrom(x, NarrowBits[op], t)
Unaries == {"eqz", "wrap", "extend_u", "extend_s"} \cup DOMAIN NarrowBits

-----------------------------------------------------------------------------
(* A state: the frames of the functions that run, the last one on top. *)

Scope(to, height, keep) == [to |-> to, height |-> height, keep |-> keep]

FrameFor(mod, index, args) ==
  [index |-> index, locals |-> args \o [k \in 1..mod.code[index - mod.first + 1].locals |-> 0], at |-> 1,
   scopes |-> <<>>, stack |-> <<>>]
Fresh(mod, globals) ==
  [frames |-> <<FrameFor(mod, mod.main, <<>>)>>, globals |-> globals, mem |-> <<>>, result |-> <<>>, done |-> FALSE]

Topmost(s) == Last(s.frames)
Framed(s, fr) == [s EXCEPT !.frames = Append(Front(s.frames), fr)]
Take(seq, k) == SubSeq(seq, 1, Len(seq) - k)
Tops(seq, k) == SubSeq(seq, Len(seq) - k + 1, Len(seq))

\* Values that come back to the caller, or end the run.
Back(s, values) ==
  IF Len(s.frames) = 1 THEN [s EXCEPT !.done = TRUE, !.result = values]
  ELSE LET under == Front(s.frames)
       IN [s EXCEPT !.frames = Append(Front(under), [Last(under) EXCEPT !.stack = @ \o values])]
ReturnFrom(s, mod, fr) == Back(s, Tops(fr.stack, TypeOf(mod, fr.index).results))

\* A branch leaves the scopes inside its target and keeps what that carries.
Branched(s, mod, fr, n) ==
  IF n = Len(fr.scopes) THEN ReturnFrom(s, mod, fr)
  ELSE LET c == fr.scopes[Len(fr.scopes) - n]
       IN Framed(s, [fr EXCEPT !.at = c.to, !.scopes = SubSeq(@, 1, Len(@) - n - 1),
                               !.stack = SubSeq(@, 1, c.height) \o Tops(@, c.keep)])

Entered(s, mod, fr, index) ==
  LET k == TypeOf(mod, index).params
  IN [s EXCEPT !.frames = Front(@) \o <<[fr EXCEPT !.stack = Take(@, k)], FrameFor(mod, index, Tops(fr.stack, k))>>]

ByteHere(s, at) == IF at \in DOMAIN s.mem THEN s.mem[at] ELSE 0
WordHere(s, at, bytes) == IF bytes = 1 THEN ByteHere(s, at) ELSE ByteHere(s, at) + 256 * ByteHere(s, at + 1)
Storing(s, at, v, bytes) ==
  [s EXCEPT !.mem = [b \in at..(at + bytes - 1) |-> (v \div 256^(b - at)) % 256] @@ @]
CopiedBytes(s, dst, src, length) ==
  [s EXCEPT !.mem = [b \in dst..(dst + length - 1) |-> ByteHere(s, src + b - dst)] @@ @]

\* fr is the running frame, behind the instruction already; k is its line.
ControlOf(s, mod, fr, i, k) ==
  LET ops == OpsOf(mod, fr.index)
      top == Last(fr.stack)
      popped == [fr EXCEPT !.stack = Front(@)]
      inside(f, keep) == [f EXCEPT !.scopes = Append(@, Scope(EndFor(ops, k) + 1, Len(f.stack), keep))]
  IN CASE i.op = "block" -> Framed(s, inside(fr, i.n))
       [] i.op = "loop" -> Framed(s, [fr EXCEPT !.scopes = Append(@, Scope(k, Len(fr.stack), 0))])
       [] i.op = "if" /\ top # 0 -> Framed(s, inside(popped, i.n))
       [] i.op = "if" /\ top = 0 /\ ElsesFor(ops, k) = {} -> Framed(s, [popped EXCEPT !.at = EndFor(ops, k) + 1])
       [] i.op = "if" /\ top = 0 /\ ElsesFor(ops, k) # {} ->
            Framed(s, [inside(popped, i.n) EXCEPT !.at = (CHOOSE j \in ElsesFor(ops, k) : TRUE) + 1])
       [] i.op = "else" -> Framed(s, [fr EXCEPT !.at = Last(fr.scopes).to, !.scopes = Front(@)])
       [] i.op = "end" /\ fr.scopes # <<>> -> Framed(s, [fr EXCEPT !.scopes = Front(@)])
       [] i.op = "end" /\ fr.scopes = <<>> -> ReturnFrom(s, mod, fr)
       [] i.op = "return" -> ReturnFrom(s, mod, fr)
       [] i.op = "br" -> Branched(s, mod, fr, i.n)
       [] i.op = "br_if" -> IF top # 0 THEN Branched(s, mod, popped, i.n) ELSE Framed(s, popped)
       [] i.op = "br_table" -> Branched(s, mod, popped, IF top + 1 < Len(i.ns) THEN i.ns[top + 1] ELSE Last(i.ns))
       [] i.op = "call" -> Entered(s, mod, fr, i.n)
       [] i.op = "call_indirect" -> Entered(s, mod, popped, mod.table[top])
       [] i.op = "unreachable" -> [s EXCEPT !.done = TRUE]
Controls == {"block", "loop", "if", "else", "end", "return", "br", "br_if", "br_table", "call", "call_indirect", "unreachable"}

DataOf(s, fr, i) ==
  LET x == Last(fr.stack)
      y == fr.stack[Len(fr.stack) - 1]
      z == fr.stack[Len(fr.stack) - 2]
      push(f, v) == [f EXCEPT !.stack = Append(@, v)]
      less(k) == [fr EXCEPT !.stack = Take(@, k)]
  IN CASE i.op = "const" -> Framed(s, push(fr, Lower(i.t, i.n)))
       [] i.op \in Binaries -> Framed(s, push(less(2), Of2(i.op, i.t, y, x)))
       [] i.op \in Unaries -> Framed(s, push(less(1), Of1(i.op, i.t, x)))
       [] i.op = "local.get" -> Framed(s, push(fr, fr.locals[i.n + 1]))
       [] i.op = "local.set" -> Framed(s, [less(1) EXCEPT !.locals[i.n + 1] = x])
       [] i.op = "local.tee" -> Framed(s, [fr EXCEPT !.locals[i.n + 1] = x])
       [] i.op = "global.get" -> Framed(s, push(fr, s.globals[i.n + 1]))
       [] i.op = "global.set" -> Framed([s EXCEPT !.globals[i.n + 1] = x], less(1))
       [] i.op \in {"load", "load32_u"} -> Framed(s, push(less(1), WordHere(s, x + i.n, Bytes(i.op, i.t))))
       [] i.op = "load32_s" -> Framed(s, push(less(1), SignFrom(WordHere(s, x + i.n, 1), 8, "i64")))
       [] i.op \in {"store", "store32"} -> Framed(Storing(s, y + i.n, x, Bytes(i.op, i.t)), less(2))
       [] i.op = "memory.copy" -> Framed(CopiedBytes(s, z, y, x), less(3))
       [] i.op = "select" -> Framed(s, push(less(3), IF x # 0 THEN z ELSE y))
       [] i.op = "drop" -> Framed(s, less(1))
       [] i.op = "nop" -> s

InstrOf(s, mod) == OpsOf(mod, Topmost(s).index)[Topmost(s).at]
Behind(s) == Framed(s, [Topmost(s) EXCEPT !.at = @ + 1])
WasmStep(s, mod) ==
  IF InstrOf(s, mod).op \in Controls THEN ControlOf(s, mod, Topmost(Behind(s)), InstrOf(s, mod), Topmost(s).at)
  ELSE DataOf(Behind(s), Topmost(Behind(s)), InstrOf(s, mod))

RECURSIVE RunWasm(_, _)
RunWasm(s, mod) == IF s.done THEN s ELSE RunWasm(WasmStep(s, mod), mod)

\* What main returns, and what the globals hold then.
Wanted(s) == [result |-> s.result, globals |-> s.globals]
ModuleOutcome(sections) ==
  Wanted(RunWasm(Fresh(Module(sections), [k \in DOMAIN Listed(sections, "global") |-> Listed(sections, "global")[k].init.n]),
                 Module(sections)))

\* A number in so many bytes of seven bits, the lowest first.
InBytes(v, count) == [k \in 1..count |-> ((v \div 128^(k - 1)) % 128) + (IF k < count THEN 128 ELSE 0)]
=============================================================================
