---------------------------- MODULE AsmSemantics ----------------------------
(***************************************************************************)
(* What an assembler source means, line by line, whatever words its lines  *)
(* become (the comments on the instructions in src/asm.c).  A line is one  *)
(* step.  The address of a label is the number of its line for code, and a *)
(* place of its own for data: a program must not depend on more.  R1, R27  *)
(* and R28 belong to the assembler.                                        *)
(***************************************************************************)
EXTENDS Assembler

CONSTANTS MAX_BP, HISTORY_LEN, MAX_BREAKPOINTS  \* of the debuggers

DataBase == 4000
IsData(l) == l.op \in {"WORD", "ZERO"}

\* Where the data begins that stands on line k, and what a label means.
CellsOf(l) == CASE l.op = "WORD" -> 1 [] l.op = "ZERO" -> l.i [] OTHER -> 0
Place(lines, k) == FoldLeft(LAMBDA at, l : at + CellsOf(l), DataBase, SubSeq(lines, 1, k - 1))
Meaning(lines, t) ==
  LET k == CHOOSE n \in DOMAIN lines : lines[n] = Label(t)
      follows == {n \in k..Len(lines) : lines[n].op # "LABEL"}
      next == CHOOSE n \in follows : \A o \in follows : n <= o
  IN IF IsData(lines[next]) THEN Place(lines, k) ELSE k

Given(lines, l) == IF HasName(l) THEN Meaning(lines, l.t) ELSE l.i

Start(lines) ==
  LET data == {k \in DOMAIN lines : lines[k].op = "WORD"}
  IN [Reset EXCEPT !.pc = 1,
                   !.mem = [at \in {Place(lines, k) : k \in data} |->
                              Word(lines[CHOOSE k \in data : Place(lines, k) = at].i)]]

Holds(op, x, y) ==
  CASE op = "BGT" -> Signed(x) > Signed(y) [] op = "BLT" -> Signed(x) < Signed(y)
    [] op = "BGE" -> Signed(x) >= Signed(y) [] op = "BLE" -> Signed(x) <= Signed(y)
    [] op = "BEQ" -> x = y [] op = "BNE" -> x # y
    [] op = "JZ" -> x = 0 [] op = "JNZ" -> x # 0 [] op = "JMP" -> TRUE

\* s.pc is the next line already.  A distance in words counts from behind the
\* first word of the jump, of which a branch has two.
Going(s, lines, l) ==
  LET words == IF l.op \in Branches THEN l.i - 1 ELSE l.i
  IN IF ~Holds(l.op, s.reg[l.d], s.reg[l.a]) THEN s
     ELSE Goto(s, IF HasName(l) THEN Meaning(lines, l.t) ELSE s.pc + words)

LineStep(s0, lines) ==
  LET l == lines[s0.pc]
      s == [s0 EXCEPT !.pc = @ + 1]
      x == s.reg[l.a]
      d == s.reg[l.d]
      sp == s.reg[31]
  IN CASE l.op \in {"LABEL", "NOP"} \cup Sections -> s
       [] l.op = "MOV" -> Set(s, l.d, x)
       [] l.op = "CLR" -> Set(s, l.d, 0)
       [] l.op = "NEG" -> Set(s, l.d, Wrap(-x))
       [] l.op = "NOT" -> Set(s, l.d, Wrap(-1 - x))
       [] l.op = "INC" -> Set(s, l.d, Wrap(d + 1))
       [] l.op = "DEC" -> Set(s, l.d, Wrap(d - 1))
       [] l.op = "PUSH" -> [Write(s, sp, d) EXCEPT !.reg[31] = Wrap(sp - 1)]
       [] l.op = "POP" -> Set([s EXCEPT !.reg[31] = Wrap(sp + 1)], l.d, Read(s, Wrap(sp + 1)))
       [] l.op = "CALL.R" -> Goto(Set(s, l.d, s.pc), x)
       [] l.op = "RET.L" -> Goto(s, d)
       [] l.op \in {"LI", "MOVI"} -> Set(s, l.d, Wrap(Given(lines, l)))
       [] l.op \in Branches \cup {"JZ", "JNZ", "JMP"} -> Going(s, lines, l)
       [] l.op = "CALL" ->
            Goto(Write([s EXCEPT !.reg[7] = Wrap(@ - 1)], Wrap(s.reg[7] - 1), s.pc), Meaning(lines, l.t))
       [] l.op \in {"LOAD", "STORE"} /\ HasName(l) ->
            Access(s, [encode(l.op, l.d, l.a, 0, 0) EXCEPT !.i = Meaning(lines, l.t)])
       [] OTHER -> Execute(s, encode(l.op, l.d, l.a, l.b, l.i))

RECURSIVE RunLines(_, _)
RunLines(s, lines) == IF s.halted THEN s ELSE RunLines(LineStep(s, lines), lines)

\* What a source shows before it halts.
Shown(lines) == RunLines(Start(lines), lines).out

-----------------------------------------------------------------------------
(* How a line may be written: its fields in order, letters in either case, *)
(* numbers to three bases, with more or fewer blanks and a comment.        *)

Symbols == "0123456789abcdef"
RECURSIVE Numeral(_, _)
Numeral(n, base) ==
  (IF n < base THEN "" ELSE Numeral(n \div base, base)) \o SubSeq(Symbols, (n % base) + 1, (n % base) + 1)
NumberText(n, style) ==
  (IF n < 0 THEN "-" ELSE style.plus)
  \o (CASE style.base = 16 -> "0x" [] style.base = 8 -> "0" [] style.base = 2 -> "0b" [] OTHER -> "")
  \o Numeral(IF n < 0 THEN -n ELSE n, style.base)

FieldText(l, field, style) ==
  IF field = "i" THEN (IF HasName(l) THEN l.t ELSE NumberText(l.i, style)) ELSE style.r \o ToString(l[field])
Written(x, style) ==
  LET operand(k) == (IF k = 1 THEN " " ELSE style.comma) \o FieldText(x.item, x.fields[k], style)
  IN FoldLeft(LAMBDA t, k : t \o operand(k), style.before \o x.name, [k \in DOMAIN x.fields |-> k]) \o style.behind

\* A line for another machine: AT&T marks registers and numbers of x86, ARM
\* its numbers.
ForeignText(x, o) ==
  LET number == NumberText(o.n, x.style)
  IN CASE o.k = "reg" -> (IF x.l.att THEN "%" ELSE "") \o o.r
       [] o.k = "num" -> (IF x.l.att THEN "$" ELSE IF x.arch = "arm" THEN "#" ELSE "") \o number
       [] o.k = "mem" -> IF x.arch = "riscv" THEN number \o "(" \o o.r \o ")" ELSE "[" \o o.r \o "]"
       [] o.k = "name" -> o.r
WrittenForeign(x) ==
  LET operand(k) == (IF k = 1 THEN " " ELSE x.style.comma) \o ForeignText(x, x.l.args[k])
  IN FoldLeft(LAMBDA t, k : t \o operand(k), x.style.before \o x.name, [k \in DOMAIN x.l.args |-> k]) \o x.style.behind

-----------------------------------------------------------------------------
(* What a reader of an ELF file finds who follows the header to the table  *)
(* of sections, and the table to what it names.                            *)

Begin(file, k) == FileSize(SubSeq(file, 1, k - 1))
PartAt(file, at) == file[CHOOSE k \in DOMAIN file : Begin(file, k) = at].what
PartsWithin(file, s) ==
  LET inside == {k \in DOMAIN file : Begin(file, k) \in s.off..(s.off + s.size - 1)}
  IN [n \in 1..Cardinality(inside) |->
        file[CHOOSE k \in inside : Cardinality({j \in inside : j <= k}) = n].what]
SectionAt(file, n) == PartAt(file, PartAt(file, 0).shoff + 40 * n)
StringAt(file, s, at) == PartAt(file, s.off + at)
SectionNamed(file, name) ==
  CHOOSE s \in {SectionAt(file, n) : n \in 0..(PartAt(file, 0).shnum - 1)} :
    StringAt(file, SectionAt(file, PartAt(file, 0).shstrndx), s.name) = name
ElfText(file) == PartsWithin(file, SectionNamed(file, ".text"))
ElfSymbols(file) ==
  LET table == SectionNamed(file, ".symtab")
      symbols == Tail(PartsWithin(file, table))
  IN {<<StringAt(file, SectionAt(file, table.link), symbols[k].name), symbols[k].value>> : k \in DOMAIN symbols}

-----------------------------------------------------------------------------
(* What the user of a debugger expects to be shown: the program runs as it *)
(* does without one, up to the first place in a set of places, or the first*)
(* access to a set of ranges.  Commands are those of dbg.c (help text and  *)
(* README) and the packets of GDB's protocol (comments of gdb_stub.c).     *)
(* Every line of the programs debugged is one word.                        *)

(* dbg.c: ids numbers the places stopped at, from 0; seen the instructions *)
(* run.                                                                    *)

Begun(words) == [m |-> words, seen |-> <<>>, ports |-> [p \in {} |-> 0], ids |-> <<>>, cleared |-> {}, shown |-> <<>>]
Stops(u) == {u.ids[k] : k \in DOMAIN u.ids \ u.cleared}

Fields(op) ==
  CASE op \in {"HALT", "RET", "NOP"} -> <<>>
    [] op = "RFLAGS" -> <<"d">>
    [] op \in ThreeRegisters -> <<"d", "a", "b">>
    [] op \in {"SHL", "SHR", "LOAD", "STORE"} -> <<"d", "a", "i">>
    [] op \in {"LI", "OUT", "JZ", "JNZ"} -> <<"d", "i">>
    [] op \in {"JMP", "CALL"} -> <<"i">>
Target(l, at) == IF l.op \in {"JMP", "CALL", "JZ", "JNZ"} THEN <<at + 1 + l.i>> ELSE <<>>
\* An instruction is shown as it was written.
AsInSource(lines, at) ==
  LET l == IF at < Len(lines) THEN lines[at + 1] ELSE NOP
  IN <<l.op>> \o [k \in DOMAIN Fields(l.op) |-> l[Fields(l.op)[k]]] \o Target(l, at)

Outgoing(u) == LET w == WordAt(u.m, u.m.pc) IN IF w.op = "OUT" THEN (w.i :> u.m.reg[w.d]) @@ u.ports ELSE u.ports
Once(u) == [u EXCEPT !.m = StepOf(@), !.seen = Append(@, u.m.pc), !.ports = Outgoing(u)]

RECURSIVE Onward(_, _)
Onward(u, n) == IF n = 0 \/ u.m.halted \/ u.m.pc \in Stops(u) THEN u ELSE Onward(Once(u), n - 1)
Forever == -1

Tell(u, what) == [u EXCEPT !.shown = Append(@, what)]
\* Of several breakpoints at one place the oldest is named.
Numbered(u) == {k \in DOMAIN u.ids \ u.cleared : u.ids[k] = u.m.pc}
NumberHere(u) == IF Numbered(u) = {} THEN -1 ELSE (CHOOSE k \in Numbered(u) : \A j \in Numbered(u) : k <= j) - 1
Where(u, lines) ==
  Tell(u, IF u.m.halted THEN <<"halt", Len(u.seen)>>
          ELSE <<"at", u.m.pc, NumberHere(u), AsInSource(lines, u.m.pc)>>)
Running(u, lines, n) ==
  LET v == Onward(Once(u), n)
  IN IF u.m.halted THEN Tell(u, <<"stopped">>)
     ELSE Where(IF n = Forever /\ ~v.m.halted THEN Tell(v, <<"breakpoint", NumberHere(v), v.m.pc>>) ELSE v, lines)
Counted(u, lines, n) == IF n = 0 \/ u.m.halted THEN Where(u, lines) ELSE Where(Onward(Once(u), n - 1), lines)

Given1(x, default) == IF x = -1 THEN default ELSE x
Lines8(u, c, most) ==
  LET count == Given1(c.y, 8) IN [k \in 1..(IF count < most THEN count ELSE most) |-> Given1(c.x, u.m.pc) + k - 1]

\* The last instructions, the newest first.
Latest(u) == SubSeq(Reverse(u.seen), 1, IF Len(u.seen) < HISTORY_LEN THEN Len(u.seen) ELSE HISTORY_LEN)

\* The breakpoints there are, the oldest first.
Standing(u) == SelectSeq([k \in DOMAIN u.ids |-> k], LAMBDA k : k \notin u.cleared)

Answered(u, lines, c) ==
  CASE c.c \in {"", "s"} -> Running(u, lines, 0)
    [] c.c = "c" -> Running(u, lines, Forever)
    [] c.c = "n" -> Counted(u, lines, Given1(c.x, 1))
    [] c.c \in {"b", "bc", "p", "r"} /\ c.x = -1 -> Tell(u, <<"usage">>)
    [] c.c = "b" ->
         IF Len(u.ids) = MAX_BP THEN Tell(u, <<"full">>)
         ELSE Tell([u EXCEPT !.ids = Append(@, c.x)], <<"bp", Len(u.ids), c.x>>)
    [] c.c = "bc" ->
         IF c.x + 1 \notin DOMAIN u.ids THEN Tell(u, <<"invalid">>)
         ELSE Tell([u EXCEPT !.cleared = @ \cup {c.x + 1}], <<"cleared", c.x>>)
    [] c.c = "bl" -> Tell(u, <<"bps", [k \in DOMAIN Standing(u) |-> <<Standing(u)[k] - 1, [at |-> u.ids[Standing(u)[k]], active |-> TRUE]>>]>>)
    [] c.c = "d" -> Tell(u, <<"regs", u.m.reg, u.m.flags, u.m.pc, Len(u.seen), u.m.halted>>)
    [] c.c = "m" -> Tell(u, <<"mem", [k \in DOMAIN Lines8(u, c, 64) |-> <<Lines8(u, c, 64)[k], Read(u.m, Lines8(u, c, 64)[k])>>]>>)
    [] c.c = "r" -> IF c.x = 0 THEN Tell(u, <<"zero">>)
                    ELSE Tell([u EXCEPT !.m.reg[c.x] = Wrap(c.y)], <<"reg", c.x, Wrap(c.y)>>)
    [] c.c = "p" -> Tell(u, <<"port", c.x, IF c.x \in DOMAIN u.ports THEN u.ports[c.x] ELSE 0>>)
    [] c.c = "hist" ->
         Tell(u, <<"hist", [k \in DOMAIN Latest(u) |-> <<Latest(u)[k], AsInSource(lines, Latest(u)[k])>>]>>)
    [] c.c = "di" -> Tell(u, <<"disasm", [k \in DOMAIN Lines8(u, c, 32) |->
                              LET at == Lines8(u, c, 32)[k] IN <<at = u.m.pc /\ ~u.m.halted, at, AsInSource(lines, at)>>]>>)
    [] c.c = "rst" ->
         Where([Begun([Reset EXCEPT !.mem = u.m.mem]) EXCEPT !.ids = u.ids, !.cleared = u.cleared,
                                                             !.shown = Append(u.shown, <<"reset">>)], lines)
    [] c.c = "h" -> Tell(u, <<"help">>)
    [] OTHER -> Tell(u, <<"unknown">>)

-----------------------------------------------------------------------------
(* GDB: places and ranges of bytes.  A read that is watched stops as a     *)
(* write does, behind the instruction.                                     *)

Attached(words) == [m |-> words, stops |-> {}, watches |-> {}, hit |-> <<>>, shown |-> <<>>]

\* The bytes that the next instruction accesses, and how.
Reading == {"LOAD", "LOADB"}
Bytes(m) ==
  LET w == WordAt(m, m.pc)
      at == Wrap(m.reg[w.a] + w.i)
  IN CASE w.op \in {"LOAD", "STORE"} -> (at * WORD_BYTES)..(at * WORD_BYTES + WORD_BYTES - 1)
       [] w.op \in {"LOADB", "STOREB"} -> {at}
       [] OTHER -> {}
Meant(type, op) == type = 4 \/ (type = 3) = (op \in Reading)
Watched(u) ==
  \E w \in u.watches : Bytes(u.m) \cap (w.at..(w.at + w.n - 1)) # {} /\ Meant(w.type, WordAt(u.m, u.m.pc).op)
First1(bytes) == CHOOSE b \in bytes : \A c \in bytes : b <= c

Next1(u) == [u EXCEPT !.m = StepOf(@), !.hit = IF Watched(u) THEN <<First1(Bytes(u.m))>> ELSE <<>>]
RECURSIVE UpTo(_)
UpTo(u) == IF u.m.halted \/ u.m.pc \in u.stops \/ u.hit # <<>> THEN u ELSE UpTo(Next1(u))

Halting(u) == Tell(u, IF u.hit = <<>> THEN <<"S05">> ELSE <<"T05watch", u.hit[1]>>)
Fresh1(u) == [u EXCEPT !.hit = <<>>]
OK(u) == Tell(u, <<"OK">>)
Error(u) == Tell(u, <<"E01">>)

Placed(u, at) ==
  IF at \notin u.stops /\ Cardinality(u.stops) = MAX_BREAKPOINTS THEN Error(u) ELSE OK([u EXCEPT !.stops = @ \cup {at}])
Lifted(u, at) == IF at \in u.stops THEN OK([u EXCEPT !.stops = @ \ {at}]) ELSE Error(u)
Ended(u, w) == IF w \in u.watches THEN OK([u EXCEPT !.watches = @ \ {w}]) ELSE Error(u)

WordOf(p) == p.at \div WORD_BYTES
Range1(p) == [at |-> p.at, n |-> p.n, type |-> p.data]
\* The bytes of a word, from the most significant one.
BytesOf(m, at, n) == [k \in 1..n |-> LET b == at + k - 1 IN ByteOf(Read(m, b \div WORD_BYTES), b)]

\* What G gives: a prefix of registers, pc and flags.
Taken(m, values) ==
  [m EXCEPT !.reg = [r \in Registers |-> IF r = 0 THEN 0 ELSE IF r < Len(values) THEN values[r + 1] ELSE @[r]],
            !.pc = IF Len(values) < 33 THEN @ ELSE values[33] \div WORD_BYTES,
            !.flags = IF Len(values) < 34 THEN @ ELSE CHOOSE f \in SUBSET {"Z", "C", "V", "N"} : FlagBits(f) = values[34]]
\* The words in which bytes are given, each of what it holds behind them.
Overwritten(m, p) ==
  LET given == p.at..(p.at + Len(p.data) - 1)
      byte(b) == IF b \in given THEN p.data[b - p.at + 1] ELSE ByteOf(Read(m, b \div WORD_BYTES), b)
      words == {b \div WORD_BYTES : b \in given}
  IN [m EXCEPT !.mem = [w \in words |-> Word(byte(w * WORD_BYTES) * 256 + byte(w * WORD_BYTES + 1))] @@ @]

Replied(u, p) ==
  CASE p.c = "?" -> Tell(u, <<"S05">>)
    [] p.c = "g" -> Tell(u, <<"regs", u.m.reg, u.m.pc * WORD_BYTES, FlagBits(u.m.flags)>>)
    [] p.c = "G" -> OK([u EXCEPT !.m = Taken(@, p.data)])
    [] p.c = "m" -> Tell(u, <<"mem", BytesOf(u.m, p.at, p.n)>>)
    [] p.c = "M" -> OK([u EXCEPT !.m = Overwritten(@, p)])
    [] p.c = "Z" /\ p.data = 0 -> Placed(u, WordOf(p))
    [] p.c = "z" /\ p.data = 0 -> Lifted(u, WordOf(p))
    [] p.c = "Z" /\ p.data \in 2..4 -> OK([u EXCEPT !.watches = @ \cup {Range1(p)}])
    [] p.c = "z" /\ p.data \in 2..4 -> Ended(u, Range1(p))
    [] p.c \in {"s", "vCont;s"} -> Halting(IF u.m.halted THEN Fresh1(u) ELSE Next1(u))
    [] p.c \in {"c", "vCont;c"} -> Halting(IF u.m.halted THEN Fresh1(u) ELSE UpTo(Next1(u)))
    [] p.c = "qSupported" -> Tell(u, <<"PacketSize=3fff;hwbreak+;swbreak+;">>)
    [] p.c = "qAttached" -> Tell(u, <<"1">>)
    [] p.c = "vCont?" -> Tell(u, <<"vCont;c;s">>)
    [] p.c = "H" -> OK(u)
    [] OTHER -> Tell(u, <<"">>)

-----------------------------------------------------------------------------
\* What a session shows, given the image and what was asked, in order.
Session(front, words, lines, asked) ==
  IF front = "dbg" THEN FoldLeft(LAMBDA u, c : Answered(u, lines, c), Where(Begun(words), lines), asked).shown
  ELSE FoldLeft(LAMBDA u, p : Replied(u, p), Attached(words), asked).shown
=============================================================================
