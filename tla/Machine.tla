------------------------------ MODULE Machine ------------------------------
(***************************************************************************)
(* What the instructions of a program do to registers and memory           *)
(* (execute() of src/simulator/sim.c), at machine level, with no           *)
(* interrupts and no trap vector.  Isa has the privileged side.            *)
(*                                                                         *)
(* A word of memory is a record: an instruction by its fields, or data     *)
(* (op "WORD", value in i).  Words have 16 bits here instead of 64, and two*)
(* bytes instead of eight: products and sums wrap at 2^16.  The encoding   *)
(* of an instruction as a number is left out: a program that loads one     *)
(* gets Opaque, and one that runs into data other than 0 stops.            *)
(***************************************************************************)
EXTENDS Integers, Sequences, TLC, Bitwise

BITS == 16
Modulus == 2^BITS
WORD_BYTES == 2
MEM_SIZE == 65536
Opaque == 1

Wrap(v) == v % Modulus
Signed(v) == IF v < Modulus \div 2 THEN v ELSE v - Modulus
Bit(p) == IF p THEN 1 ELSE 0

\* The immediate of an instruction is the signed value of its lower 11 bits.
sign_extend11(v) == ((v + 1024) % 2048) - 1024

encode(op, d, a, b, i) == [op |-> op, d |-> d, a |-> a, b |-> b, i |-> sign_extend11(i)]
Word(v) == [op |-> "WORD", d |-> 0, a |-> 0, b |-> 0, i |-> Wrap(v)]
NOP == encode("NOP", 0, 0, 0, 0)

Registers == 0..31

\* cpu_reset
Reset == [reg |-> [r \in Registers |-> 0], mem |-> <<>>, pc |-> 0, flags |-> {}, out |-> <<>>, halted |-> FALSE]

\* load_bin
Loaded(words) == [Reset EXCEPT !.mem = [a \in 0..(Len(words) - 1) |-> words[a + 1]]]

WordAt(s, at) == IF at \in DOMAIN s.mem THEN s.mem[at] ELSE Word(0)
Value(w) == IF w.op = "WORD" THEN w.i ELSE Opaque
Read(s, at) == Value(WordAt(s, at))
Write(s, at, v) == [s EXCEPT !.mem = (at :> Word(v)) @@ @]
Set(s, r, v) == IF r = 0 THEN s ELSE [s EXCEPT !.reg[r] = v]

-----------------------------------------------------------------------------
(* Arithmetic and logic *)

Sum(x, y) == Wrap(x + y)
AddFlags(x, y) ==
  LET r == Sum(x, y)
  IN {f \in {"Z", "C", "V", "N"} :
        \/ f = "Z" /\ r = 0
        \/ f = "C" /\ r < x
        \/ f = "V" /\ (Signed(x) < 0) = (Signed(y) < 0) /\ (Signed(x) < 0) # (Signed(r) < 0)
        \/ f = "N" /\ Signed(r) < 0}

Difference(x, y) == Wrap(x - y)
SubFlags(x, y) ==
  LET r == Difference(x, y)
  IN {f \in {"Z", "C", "V", "N"} :
        \/ f = "Z" /\ r = 0
        \/ f = "C" /\ x < y
        \/ f = "V" /\ (Signed(x) < 0) # (Signed(y) < 0) /\ (Signed(x) < 0) # (Signed(r) < 0)
        \/ f = "N" /\ Signed(r) < 0}

Product(x, y) == Wrap(Signed(x) * Signed(y))
MulFlags(x, y) ==
  {f \in {"Z", "C", "V", "N"} :
     \/ f = "Z" /\ Product(x, y) = 0
     \/ f \in {"C", "V"} /\ x # 0 /\ y > (Modulus - 1) \div x
     \/ f = "N" /\ Signed(Product(x, y)) < 0}

FlagBits(flags) == Bit("Z" \in flags) + 2 * Bit("C" \in flags) + 4 * Bit("V" \in flags) + 8 * Bit("N" \in flags)

\* C's division goes towards zero.
Abs(v) == IF v < 0 THEN -v ELSE v
Quotient(x, y) ==
  LET q == Abs(Signed(x)) \div Abs(Signed(y))
  IN Wrap(IF (Signed(x) < 0) = (Signed(y) < 0) THEN q ELSE -q)
Remainder(x, y) ==
  LET r == Abs(Signed(x)) % Abs(Signed(y)) IN Wrap(IF Signed(x) < 0 THEN -r ELSE r)

\* A shift by more than the width leaves nothing: here it is 6 bits of the
\* immediate against 16 of the word.
ShiftBy(i) == i % 64
Left(x, n) == IF n >= BITS THEN 0 ELSE Wrap((x % 2^(BITS - n)) * 2^n)
Right(x, n) == IF n >= BITS THEN 0 ELSE x \div 2^n

Flagging == {"ADD", "SUB", "MUL"}
Dividing == {"DIV", "DIVU", "REM", "REMU"}
Logical == {"AND", "OR", "XOR", "SHL", "SHR", "LI", "RFLAGS", "BSET", "BCLR", "BTEST"}
Comparing == {"CMPEQ", "CMPNE", "CMPLT", "CMPLE", "CMPLTU", "CMPLEU"}

ArithmeticOf(op, x, y) ==
  CASE op = "ADD" -> [v |-> Sum(x, y), flags |-> AddFlags(x, y)]
    [] op = "SUB" -> [v |-> Difference(x, y), flags |-> SubFlags(x, y)]
    [] op = "MUL" -> [v |-> Product(x, y), flags |-> MulFlags(x, y)]

DivisionOf(op, x, y) ==
  CASE op = "DIV" -> Quotient(x, y)
    [] op = "DIVU" -> x \div y
    [] op = "REM" -> Remainder(x, y)
    [] op = "REMU" -> x % y

LogicOf(op, x, y, i, flags) ==
  CASE op = "AND" -> x & y
    [] op = "OR" -> x | y
    [] op = "XOR" -> x ^^ y
    [] op = "SHL" -> Left(x, ShiftBy(i))
    [] op = "SHR" -> Right(x, ShiftBy(i))
    [] op = "LI" -> Wrap(i)
    [] op = "RFLAGS" -> FlagBits(flags)
    [] op = "BSET" -> x | Left(1, ShiftBy(i))
    [] op = "BCLR" -> x - (x & Left(1, ShiftBy(i)))
    [] op = "BTEST" -> Right(x, ShiftBy(i)) % 2

ComparisonOf(op, x, y) ==
  Bit(CASE op = "CMPEQ" -> x = y
        [] op = "CMPNE" -> x # y
        [] op = "CMPLT" -> Signed(x) < Signed(y)
        [] op = "CMPLE" -> Signed(x) <= Signed(y)
        [] op = "CMPLTU" -> x < y
        [] op = "CMPLEU" -> x <= y)

Calculate(s, w) ==
  LET x == s.reg[w.a]
      y == s.reg[w.b]
  IN CASE w.op \in Flagging ->
            [Set(s, w.d, ArithmeticOf(w.op, x, y).v) EXCEPT !.flags = ArithmeticOf(w.op, x, y).flags]
       [] w.op \in Dividing /\ y = 0 -> [s EXCEPT !.halted = TRUE]
       [] w.op \in Dividing /\ y # 0 -> Set(s, w.d, DivisionOf(w.op, x, y))
       [] w.op \in Logical -> Set(s, w.d, LogicOf(w.op, x, y, w.i, s.flags))
       [] w.op \in Comparing -> Set(s, w.d, ComparisonOf(w.op, x, y))

-----------------------------------------------------------------------------
(* Memory *)

Accessing == {"LOAD", "STORE", "LOADB", "STOREB"}

\* Bytes are numbered from the most significant one.
ByteShift(at) == 8 * (WORD_BYTES - 1 - (at % WORD_BYTES))
ByteOf(v, at) == Right(v, ByteShift(at)) % 256
WithByte(v, at, byte) == v - ByteOf(v, at) * 2^ByteShift(at) + (byte % 256) * 2^ByteShift(at)

Access(s, w) ==
  LET at == Wrap(s.reg[w.a] + w.i) % MEM_SIZE
      cell == (at \div WORD_BYTES) % MEM_SIZE
  IN CASE w.op = "LOAD" -> Set(s, w.d, Read(s, at))
       [] w.op = "STORE" -> Write(s, at, s.reg[w.d])
       [] w.op = "LOADB" -> Set(s, w.d, ByteOf(Read(s, cell), at))
       [] w.op = "STOREB" -> Write(s, cell, WithByte(Read(s, cell), at, s.reg[w.d]))

-----------------------------------------------------------------------------
(* Jumps; s.pc is the next instruction's address already. *)

Jumping == {"JMP", "JZ", "JNZ", "JALR", "CALL", "RET"}

Goto(s, at) == [s EXCEPT !.pc = at % MEM_SIZE]

Jump(s, w) ==
  CASE w.op = "JMP" -> Goto(s, s.pc + w.i)
    [] w.op = "JZ" -> IF s.reg[w.d] = 0 THEN Goto(s, s.pc + w.i) ELSE s
    [] w.op = "JNZ" -> IF s.reg[w.d] # 0 THEN Goto(s, s.pc + w.i) ELSE s
    [] w.op = "JALR" -> Goto(Set(s, w.d, s.pc), s.reg[w.a] + w.i)
    [] w.op = "CALL" ->
         LET top == Wrap(s.reg[7] - 1)
         IN Goto(Write([s EXCEPT !.reg[7] = top], top % MEM_SIZE, s.pc), s.pc + w.i)
    [] w.op = "RET" ->
         Goto([s EXCEPT !.reg[7] = Wrap(@ + 1)], Read(s, s.reg[7] % MEM_SIZE))

\* OUT to a port that no device listens to: the value is shown.
Output(s, w) == [s EXCEPT !.out = Append(@, s.reg[w.d])]

Stopping(w) == w.op = "HALT" \/ (w.op = "WORD" /\ w.i # 0)

\* execute() of a word that has been fetched.
Execute(s, w) ==
  CASE w.op \in Flagging \cup Dividing \cup Logical \cup Comparing -> Calculate(s, w)
    [] w.op \in Accessing -> Access(s, w)
    [] w.op \in Jumping -> Jump(s, w)
    [] w.op = "OUT" -> Output(s, w)
    [] Stopping(w) -> [s EXCEPT !.halted = TRUE]
    [] OTHER -> s

\* fetch() and execute().
StepOf(s) == Execute([s EXCEPT !.pc = (@ + 1) % MEM_SIZE], WordAt(s, s.pc))
=============================================================================
