----------------------------- MODULE Assembler -----------------------------
(***************************************************************************)
(* The two passes of the assembler (src/asm.c).  A source line is a record:*)
(* mnemonic, registers, number, and the name t given in place of the       *)
(* number ("" if none); a label is a line of its own.  How the records are *)
(* read from text is in Lexer.                                             *)
(***************************************************************************)
EXTENDS Machine, SequencesExt

CONSTANTS MAX_LABELS, MAX_INSNS

Ins(op, d, a, b, i) == [op |-> op, d |-> d, a |-> a, b |-> b, i |-> i, t |-> ""]
Named(op, d, a, b, t) == [op |-> op, d |-> d, a |-> a, b |-> b, i |-> 0, t |-> t]
Label(t) == Named("LABEL", 0, 0, 0, t)
Directive(op, i) == Ins(op, 0, 0, 0, i)

HasName(l) == l.t # ""

\* Mnemonics by the operands they take; each is one instruction.
Plain == {"NOP", "HALT", "RET", "ECALL", "ERET", "WFI", "FENCE"}
ThreeRegisters == {"ADD", "SUB", "AND", "OR", "XOR", "MUL", "DIV", "DIVU", "REM", "REMU", "HASH"} \cup Comparing
WithImmediate == {"SHL", "SHR", "LOAD", "STORE", "LOADB", "STOREB", "ELOAD", "ESTORE", "OUT", "IN",
                  "CSRW", "CSRR", "LUI", "JALR", "BSET", "BCLR", "BTEST"}
OneOrTwoRegisters == {"RAND", "RFLAGS", "AESE"}

Sections == {"TEXT", "DATA", "RODATA", "BSS"}

-----------------------------------------------------------------------------
(* Labels *)

\* label_find_alias: names that the kernel's preprocessor leaves in calls.
Alias ==
  [MMIO_READ |-> "mmio_read", MMIO_WRITE |-> "mmio_write", printf |-> "kprintf",
   KPRINT |-> "kprintf", KGETCHAR |-> "uart_getchar", KPUTCHAR |-> "uart_putchar"]

\* label_find; NotFound is -1.
NotFound == -1
label_find(labels, t) == IF t \in DOMAIN labels THEN labels[t] ELSE NotFound
label_find_alias(labels, t) ==
  IF t \in DOMAIN labels \/ t \notin DOMAIN Alias THEN label_find(labels, t)
  ELSE label_find(labels, Alias[t])

\* Labels of the compiler: _L and a number.
IsDigit(c) == c \in {"0", "1", "2", "3", "4", "5", "6", "7", "8", "9"}
is_internal_label(t) ==
  Len(t) > 2 /\ SubSeq(t, 1, 2) = "_L" /\ \A k \in 3..Len(t) : IsDigit(SubSeq(t, k, k))

\* resolve_label_address: what nobody defines is linked to address 0.
Resolve(labels, t) ==
  IF label_find_alias(labels, t) = NotFound THEN 0 ELSE label_find_alias(labels, t)

\* The number that a line's operand stands for.
Operand(labels, l) == IF HasName(l) THEN Resolve(labels, l.t) ELSE l.i

-----------------------------------------------------------------------------
(* MOVI, and everything that has to load an address *)

\* movi_bytes: the fewest bytes that hold a signed number.
movi_bytes(v) ==
  CHOOSE n \in 1..4 : /\ -(2^(8 * n - 1)) <= v /\ v <= 2^(8 * n - 1) - 1
                      /\ \A m \in 1..(n - 1) : v < -(2^(8 * m - 1)) \/ v > 2^(8 * m - 1) - 1
movi_words(bytes) == 1 + 3 * (bytes - 1)

ByteAt(v, k) == (v \div 256^k) % 256

\* emit_movi_words: the top byte, then shift and add the next one.  LI takes
\* each byte as a positive number.
emit_movi_words(rd, v, bytes) ==
  LET temp == IF rd = 27 THEN 26 ELSE 27
      next(k) == <<encode("SHL", rd, rd, 0, 8), encode("LI", temp, 0, 0, ByteAt(v, k)),
                   encode("OR", rd, rd, temp, 0)>>
  IN FoldLeft(LAMBDA code, j : code \o next(bytes - j), <<encode("LI", rd, 0, 0, ByteAt(v, bytes - 1))>>,
              [j \in 1..(bytes - 1) |-> j + 1])

\* LI of a name, or of a number beyond 11 bits, becomes MOVI; an address has
\* two bytes whatever it is, so that both passes count the same.
LongLi(l) == l.op = "LI" /\ (HasName(l) \/ l.i < -1024 \/ l.i > 1023)
BytesFor(l) == IF HasName(l) THEN 2 ELSE movi_bytes(l.i)

Far(address) == emit_movi_words(28, address, 2) \o <<encode("JALR", 0, 28, 0, 0)>>

Branches == {"BGT", "BLT", "BGE", "BLE", "BEQ", "BNE"}
CompareFor(op) ==
  CASE op \in {"BGT", "BLT"} -> "CMPLT" [] op \in {"BGE", "BLE"} -> "CMPLE"
    [] op = "BEQ" -> "CMPEQ" [] op = "BNE" -> "CMPNE"

\* MUTANT: no comparison takes its operands in the other order.
SwappedNever(op) == FALSE
Swapped(op) == op \in {"BGT", "BGE"}

-----------------------------------------------------------------------------
(* process_line: how many words pass 1 counts for a line *)

\* MUTANT: a branch to a label is counted as the six words its comment names.
WordsSixForBranch(l) == IF l.op \in Branches /\ HasName(l) THEN 6 ELSE 1

Words(l) ==
  CASE l.op = "LABEL" \/ l.op \in Sections -> 0
    [] l.op = "ZERO" -> l.i
    [] l.op = "MOVI" \/ LongLi(l) -> movi_words(BytesFor(l))
    [] l.op = "JMP" /\ HasName(l) -> movi_words(2) + 1
    [] l.op \in {"JZ", "JNZ"} /\ HasName(l) -> 5 + 1
    [] l.op \in {"NOT", "INC", "DEC"} -> 1 + 1
    [] l.op \in {"PUSH", "POP"} -> 2 + 1
    [] l.op \in Branches -> IF HasName(l) THEN 1 + (movi_words(2) + 1) + 1 ELSE 1 + 1
    [] OTHER -> 1

(* process_line: the words that pass 2 writes for a line at an address *)

Pseudo(l) ==
  CASE l.op = "MOV" -> <<encode("ADD", l.d, l.a, 0, 0)>>
    [] l.op = "CLR" -> <<encode("ADD", l.d, 0, 0, 0)>>
    [] l.op = "NEG" -> <<encode("SUB", l.d, 0, l.a, 0)>>
    [] l.op = "NOT" -> <<encode("LI", 1, 0, 0, -1), encode("XOR", l.d, l.a, 1, 0)>>
    [] l.op = "INC" -> <<encode("LI", 1, 0, 0, 1), encode("ADD", l.d, l.d, 1, 0)>>
    [] l.op = "DEC" -> <<encode("LI", 1, 0, 0, -1), encode("ADD", l.d, l.d, 1, 0)>>
    [] l.op = "PUSH" ->
         <<encode("STORE", l.d, 31, 0, 0), encode("LI", 1, 0, 0, -1), encode("ADD", 31, 31, 1, 0)>>
    [] l.op = "POP" ->
         <<encode("LI", 1, 0, 0, 1), encode("ADD", 31, 31, 1, 0), encode("LOAD", l.d, 31, 0, 0)>>
    [] l.op = "CALL.R" -> <<encode("JALR", l.d, l.a, 0, 0)>>
    [] l.op = "RET.L" -> <<encode("JALR", 0, l.d, 0, 0)>>

Pseudos == {"MOV", "CLR", "NEG", "NOT", "INC", "DEC", "PUSH", "POP", "CALL.R", "RET.L"}

Branch(l, v) ==
  LET compare == IF Swapped(l.op) THEN encode(CompareFor(l.op), 1, l.a, l.d, 0)
                 ELSE encode(CompareFor(l.op), 1, l.d, l.a, 0)
  IN IF HasName(l) THEN <<compare, encode("JZ", 1, 0, 0, movi_words(2) + 1)>> \o Far(v)
     ELSE <<compare, encode("JNZ", 1, 0, 0, v - 1)>>

\* The opposite jump, over the five words that go far.
Opposite(op) == IF op = "JZ" THEN "JNZ" ELSE "JZ"

Emit(l, labels, at) ==
  LET v == Operand(labels, l)
  IN CASE l.op = "LABEL" \/ l.op \in Sections -> <<>>
       [] l.op = "WORD" -> <<Word(v)>>
       [] l.op = "ZERO" -> [k \in 1..l.i |-> Word(0)]
       [] l.op \in Plain -> <<encode(l.op, 0, 0, 0, 0)>>
       [] l.op \in ThreeRegisters \cup OneOrTwoRegisters -> <<encode(l.op, l.d, l.a, l.b, 0)>>
       [] l.op \in WithImmediate -> <<encode(l.op, l.d, l.a, 0, v)>>
       [] l.op = "MOVI" \/ LongLi(l) -> emit_movi_words(l.d, v, BytesFor(l))
       [] l.op = "LI" /\ ~LongLi(l) -> <<encode("LI", l.d, 0, 0, v)>>
       [] l.op = "JMP" -> IF HasName(l) THEN Far(v) ELSE <<encode("JMP", 0, 0, 0, v)>>
       [] l.op \in {"JZ", "JNZ"} ->
            IF HasName(l) THEN <<encode(Opposite(l.op), l.d, 0, 0, 5)>> \o Far(v)
            ELSE <<encode(l.op, l.d, 0, 0, v)>>
       [] l.op = "CALL" -> <<encode("CALL", 0, 0, 0, IF HasName(l) THEN v - (at + 1) ELSE v)>>
       [] l.op \in Pseudos -> Pseudo(l)
       [] l.op \in Branches -> Branch(l, v)

Mnemonics == Plain \cup ThreeRegisters \cup WithImmediate \cup OneOrTwoRegisters \cup Pseudos \cup Branches
             \cup Sections \cup {"LABEL", "WORD", "ZERO", "MOVI", "LI", "JMP", "JZ", "JNZ", "CALL"}

-----------------------------------------------------------------------------
(* run_pass *)

\* A line that is refused in both passes.
Malformed(l) == l.op \notin Mnemonics \/ {l.d, l.a, l.b} \notin SUBSET Registers
                \/ (l.op = "ZERO" /\ l.i \notin 0..MAX_INSNS)

Nothing == [t \in {} |-> 0]

NoLines == [at |-> 0, labels |-> Nothing, errors |-> 0, out |-> <<>>]
Refusing(st) == [st EXCEPT !.errors = @ + 1]

\* A line in pass 1.  A full table takes no label, and that is no error.
First(st, l) ==
  CASE Malformed(l) \/ (l.op = "LABEL" /\ l.t \in DOMAIN st.labels) -> Refusing(st)
    [] l.op = "LABEL" /\ Cardinality(DOMAIN st.labels) >= MAX_LABELS -> st
    [] l.op = "LABEL" -> [st EXCEPT !.labels = (l.t :> st.at) @@ @]
    [] OTHER -> [st EXCEPT !.at = @ + Words(l)]

\* Names for which pass 2 refuses a line: a label of the compiler that is
\* missing, and any that is missing in MOVI, which knows no alias.
Undefined(labels, l) ==
  /\ HasName(l) /\ l.op # "LABEL"
  /\ \/ l.op = "MOVI" /\ label_find(labels, l.t) = NotFound
     \/ l.op # "MOVI" /\ is_internal_label(l.t) /\ label_find_alias(labels, l.t) = NotFound

\* A line in pass 2.
Second(st, l) ==
  IF Malformed(l) \/ Undefined(st.labels, l) THEN Refusing(st)
  ELSE LET code == Emit(l, st.labels, st.at)
       IN IF Len(st.out) + Len(code) > MAX_INSNS THEN Refusing(st)
          ELSE [st EXCEPT !.at = @ + Words(l), !.out = @ \o code]

Refused == <<>>

-----------------------------------------------------------------------------
(* write_elf: the parts of the file in their order, each with its bytes *)

Part(bytes, what) == [bytes |-> bytes, what |-> what]
FileSize(parts) == FoldLeft(LAMBDA n, part : n + part.bytes, 0, parts)
NameParts(names) == <<Part(1, "")>> \o [k \in DOMAIN names |-> Part(Len(names[k]) + 1, names[k])]

\* The labels of the table, in the order in which they were found.
LabelNames(lines, labels) ==
  LET found == SelectSeq(lines, LAMBDA l : l.op = "LABEL" /\ l.t \in DOMAIN labels) IN [k \in DOMAIN found |-> found[k].t]

SectionHeader(name, off, size, link) == Part(40, [name |-> name, off |-> off, size |-> size, link |-> link])
write_elf(words, names, labels) ==
  LET strtab == NameParts(names)
      shstrtab == NameParts(<<".text", ".symtab", ".strtab", ".shstrtab">>)
      symbol(k) == [name |-> FileSize(SubSeq(strtab, 1, k)), value |-> 8 * labels[names[k]]]
      text_sz == 4 * Len(words)
      sym_sz == 16 * (1 + Len(names))
      off_text == 84
      off_symtab == off_text + text_sz
      off_strtab == off_symtab + sym_sz
      off_shstrtab == off_strtab + FileSize(strtab)
      off_shdrs == off_shstrtab + 33
  IN <<Part(52, [shoff |-> off_shdrs, shnum |-> 5, shstrndx |-> 4]), Part(32, [off |-> off_text, size |-> text_sz])>>
     \o [k \in DOMAIN words |-> Part(4, words[k])]
     \o <<Part(16, [name |-> 0, value |-> 0])>> \o [k \in DOMAIN names |-> Part(16, symbol(k))]
     \o strtab \o shstrtab
     \o <<SectionHeader(0, 0, 0, 0), SectionHeader(1, off_text, text_sz, 0), SectionHeader(7, off_symtab, sym_sz, 3),
          SectionHeader(15, off_strtab, FileSize(strtab), 0), SectionHeader(23, off_shstrtab, 33, 0)>>
=============================================================================
