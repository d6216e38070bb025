-------------------------------- MODULE Lexer --------------------------------
(***************************************************************************)
(* What the programs of the chain make of characters and bytes: the tokens *)
(* of the compiler (lex_next of cc.c), the lines of the assembler          *)
(* (process_line of asm.c), the lines of foreign assembly and the numbers  *)
(* of a WebAssembly module (translator.c), and what the simulator makes of *)
(* its command line (main of sim.c).  A character is a string of length    *)
(* one, and "" is what stands behind the last.                             *)
(***************************************************************************)
EXTENDS Assembler

CONSTANT MAX_IDENT

At(t, k) == IF k \in 1..Len(t) THEN SubSeq(t, k, k) ELSE ""
Chars(t) == {At(t, k) : k \in 1..Len(t)}
Place(c, t) == CHOOSE k \in 1..Len(t) : At(t, k) = c
\* The first place, from k on, of none of some characters.
Past(t, k, some) ==
  CHOOSE j \in k..(Len(t) + 1) : At(t, j) \notin some /\ \A n \in k..(j - 1) : At(t, n) \in some

Blank == {" ", "\t"}
Digit == Chars("0123456789")
Upper == "ABCDEFGHIJKLMNOPQRSTUVWXYZ"
Lower == "abcdefghijklmnopqrstuvwxyz"
WordChar == Chars(Upper) \cup Chars(Lower) \cup Digit \cup {"_"}

Quote == "\""
Backslash == "\\"
\* In the order of their codes; \f stands for the grave accent.
Ascii ==
  " !" \o Quote \o "#$%&'()*+,-./0123456789:;<=>?@" \o Upper \o "[" \o Backslash \o "]^_\f" \o Lower \o "{|}~"
Code(c) == CASE c = "\n" -> 10 [] c = "\t" -> 9 [] OTHER -> 31 + Place(c, Ascii)

hex_digit_value(c) ==
  CASE c \in Digit -> Place(c, "0123456789") - 1
    [] c \in Chars("abcdef") -> Place(c, "abcdef") + 9
    [] c \in Chars("ABCDEF") -> Place(c, "ABCDEF") + 9
    [] OTHER -> -1
HexDigit == {c \in WordChar : hex_digit_value(c) >= 0}
NumberIn(digits, base) == FoldLeft(LAMBDA n, k : n * base + hex_digit_value(At(digits, k)), 0, [k \in 1..Len(digits) |-> k])
Slice(t, k, j) == SubSeq(t, k, j - 1)

-----------------------------------------------------------------------------
(* cc.c *)

Died == 0
Newline(t, k) == CHOOSE j \in k..(Len(t) + 1) : At(t, j) \in {"\n", ""} /\ \A n \in k..(j - 1) : At(t, n) # "\n"
Closing(t, k) == {j \in k..(Len(t) - 1) : At(t, j) = "*" /\ At(t, j + 1) = "/"}

\* Blanks, lines of the preprocessor and comments; a comment that does not
\* close is the end of the compiler.
RECURSIVE skip_ws(_, _)
skip_ws(t, k) ==
  CASE At(t, k) \in Blank \cup {"\r", "\n"} -> skip_ws(t, k + 1)
    [] At(t, k) = "#" \/ (At(t, k) = "/" /\ At(t, k + 1) = "/") -> skip_ws(t, Newline(t, k))
    [] At(t, k) = "/" /\ At(t, k + 1) = "*" ->
         IF Closing(t, k + 2) = {} THEN Died ELSE skip_ws(t, Min(Closing(t, k + 2)) + 2)
    [] OTHER -> k

Tok(token, next) == [token |-> token, next |-> next]
Dies == Tok(<<"died">>, Died)
EndOfFile == <<"end">>

Simple == [c \in Chars("nrtbfva'") \cup {Quote, Backslash} |->
             CASE c = "n" -> 10 [] c = "r" -> 13 [] c = "t" -> 9 [] c = "b" -> 8 [] c = "f" -> 12
               [] c = "v" -> 11 [] c = "a" -> 7 [] OTHER -> Code(c)]
Octal == Chars("01234567")
\* decode_escape, from behind the backslash: the number and what follows.
decode_escape(t, k) ==
  LET octal == IF Past(t, k, Octal) < k + 3 THEN Past(t, k, Octal) ELSE k + 3
  IN CASE At(t, k) \in DOMAIN Simple -> Tok(Simple[At(t, k)], k + 1)
       [] At(t, k) = "x" ->
            IF {At(t, k + 1), At(t, k + 2)} \subseteq HexDigit THEN Tok(NumberIn(Slice(t, k + 1, k + 3), 16), k + 3)
            ELSE Dies
       [] At(t, k) \in Octal -> Tok(NumberIn(Slice(t, k, octal), 8), octal)
       [] OTHER -> Dies
Character(t, k) == IF At(t, k) = Backslash THEN decode_escape(t, k + 1) ELSE Tok(Code(At(t, k)), k + 1)

Keywords == {"void", "int", "char", "return", "if", "else", "while", "for", "break", "continue", "switch", "case",
             "default", "goto", "sizeof"}
\* A name keeps its first MAX_IDENT - 1 characters.
ReadName(t, k) ==
  LET end == Past(t, k, WordChar)
      name == SubSeq(t, k, (IF end - k < MAX_IDENT THEN end ELSE k + MAX_IDENT - 1) - 1)
  IN Tok(<<IF name \in Keywords THEN "keyword" ELSE "name", name>>, end)

ReadNumber(t, k) ==
  LET hex == At(t, k) = "0" /\ At(t, k + 1) \in {"x", "X"}
      from == IF hex THEN k + 2 ELSE k
      end == Past(t, from, IF hex THEN HexDigit ELSE Digit)
  IN Tok(<<"number", NumberIn(Slice(t, from, end), IF hex THEN 16 ELSE 10)>>, Past(t, end, {"u", "U", "l", "L"}))

ReadCharacter(t, k) ==
  IF At(t, k + 1) = "" THEN Dies
  ELSE LET c == Character(t, k + 1)
       IN IF c.next = Died \/ At(t, c.next) # "'" THEN Dies ELSE Tok(<<"number", c.token>>, c.next + 1)

RECURSIVE ReadString(_, _, _)
ReadString(t, k, codes) ==
  CASE At(t, k) = "" -> Dies
    [] At(t, k) = Quote -> Tok(<<"string", codes>>, k + 1)
    [] OTHER -> LET c == Character(t, k) IN IF c.next = Died THEN Dies ELSE ReadString(t, c.next, Append(codes, c.token))

Ones == Chars("+-*/%&|^~<>=!(){}[].;,?:")
Twos == {"++", "+=", "->", "--", "-=", "*=", "/=", "&&", "&=", "||", "|=", "^=", "<<", "<=", ">>", ">=", "==", "!="}
\* MUTANT: a shift does not look for a third character.
ThreesNone == {}
Threes == {"<<=", ">>="}
ReadSign(t, k) ==
  LET upTo(n) == At(t, k) \o At(t, k + 1) \o (IF n = 3 THEN At(t, k + 2) ELSE "")
  IN CASE upTo(3) \in Threes -> Tok(<<"sign", upTo(3)>>, k + 3)
       [] upTo(3) \notin Threes /\ upTo(2) \in Twos -> Tok(<<"sign", upTo(2)>>, k + 2)
       [] upTo(2) \notin Twos /\ At(t, k) \in Ones -> Tok(<<"sign", At(t, k)>>, k + 1)
       [] OTHER -> Tok(<<"error">>, k + 1)

\* lex_next: the token that begins behind k, and where the next one may.
lex_next(t, from) ==
  LET k == skip_ws(t, from)
      c == At(t, k)
  IN CASE k = Died -> Dies
       [] k # Died /\ c = "" -> Tok(EndOfFile, k)
       [] c \in WordChar \ Digit -> ReadName(t, k)
       [] c \in Digit -> ReadNumber(t, k)
       [] c = "'" -> ReadCharacter(t, k)
       [] c = Quote -> ReadString(t, k + 1, <<>>)
       [] OTHER -> ReadSign(t, k)

-----------------------------------------------------------------------------
(* asm.c *)

\* What stands before a comment or the end of the line, without blanks.
trim_line(t) ==
  LET end == CHOOSE j \in 1..(Len(t) + 1) :
               At(t, j) \in {";", "\n", "\r", ""} /\ \A n \in 1..(j - 1) : At(t, n) \notin {";", "\n", "\r"}
  IN SubSeq(t, 1, CHOOSE j \in 0..(end - 1) : At(t, j) \notin Blank /\ \A n \in (j + 1)..(end - 1) : At(t, n) \in Blank)

\* A word ends at a blank or a comma; one comma behind it is passed over.
next_token(t, from) ==
  LET k == Past(t, from, Blank)
      end == CHOOSE j \in k..(Len(t) + 1) :
               At(t, j) \in Blank \cup {",", ""} /\ \A n \in k..(j - 1) : At(t, n) \notin Blank \cup {","}
      next == Past(t, end, Blank)
  IN [word |-> Slice(t, k, end), next |-> IF At(t, next) = "," THEN next + 1 ELSE next]

ToUpper(c) == IF c \in Chars(Lower) THEN At(Upper, Place(c, Lower)) ELSE c
to_upper(t) == FoldLeft(LAMBDA s, k : s \o ToUpper(At(t, k)), "", [k \in 1..Len(t) |-> k])

\* Whether a word is a number, and which: <<>> if it is none.
Digits(digits, base) ==
  IF digits # "" /\ \A k \in 1..Len(digits) : hex_digit_value(At(digits, k)) \in 0..(base - 1)
  THEN <<NumberIn(digits, base)>> ELSE <<>>
parse_number64(word) ==
  LET signed == At(word, 1) \in {"-", "+"}
      rest == IF signed THEN SubSeq(word, 2, Len(word)) ELSE word
      prefix == At(rest, 1) \o At(rest, 2)
      base == CASE prefix \in {"0x", "0X"} -> 16 [] prefix \in {"0b", "0B"} -> 2 [] OTHER -> 10
      found == Digits(IF base = 10 THEN rest ELSE SubSeq(rest, 3, Len(rest)), base)
  IN IF found # <<>> /\ At(word, 1) = "-" THEN <<-found[1]>> ELSE found
\* The same words are numbers for parse_number, which keeps 32 bits; none
\* here has more.
parse_number(word) == parse_number64(word)

\* -1 if it is no register.
parse_reg(word) ==
  LET number == SubSeq(word, 2, Len(word))
      found == Digits(number, 10)
      named == /\ ToUpper(At(word, 1)) = "R" /\ found # <<>> /\ found[1] <= 31
               /\ Len(number) = 1 \/ (Len(number) = 2 /\ At(number, 1) # "0")
  IN IF named THEN found[1] ELSE -1

\* The operands of a mnemonic, in their order.
Operands(op) ==
  CASE op \in ThreeRegisters -> <<"d", "a", "b">>
    [] op \in {"SHL", "SHR", "LOAD", "STORE", "LOADB", "STOREB", "ELOAD", "ESTORE", "JALR", "BSET", "BCLR", "BTEST"}
              \cup Branches -> <<"d", "a", "i">>
    [] op \in {"OUT", "IN", "CSRW", "CSRR", "LUI", "LI", "MOVI", "JZ", "JNZ"} -> <<"d", "i">>
    [] op \in {"JMP", "CALL", ".WORD", ".ZERO"} -> <<"i">>
    [] op \in {"AESE", "MOV", "NEG", "NOT", "CALL.R"} -> <<"d", "a">>
    [] op \in {"RAND", "RFLAGS", "CLR", "INC", "DEC", "PUSH", "POP", "RET.L"} -> <<"d">>
    [] OTHER -> <<>>

Known == Plain \cup ThreeRegisters \cup WithImmediate \cup OneOrTwoRegisters \cup Pseudos \cup Branches
         \cup {"." \o section : section \in Sections} \cup {".WORD", ".ZERO", "MOVI", "LI", "JMP", "JZ", "JNZ", "CALL"}
Meaning(op) ==
  CASE op \in {"FENCE.I", "FENCE.RW"} -> "FENCE" [] At(op, 1) = "." -> SubSeq(op, 2, Len(op)) [] OTHER -> op

\* REQ_REG and REQ_IMM_OR_LABEL: an operand that is no number is a name, but
\* .ZERO takes none.
ReadOperand(t, st, field) ==
  LET token == next_token(t, st.next)
      after == [st EXCEPT !.next = token.next]
  IN IF token.word = "" \/ (field # "i" /\ parse_reg(token.word) = -1) THEN [st EXCEPT !.bad = TRUE]
     ELSE IF field # "i" THEN [after EXCEPT !.item[field] = parse_reg(token.word)]
     ELSE IF parse_number(token.word) # <<>> THEN [after EXCEPT !.item.i = parse_number(token.word)[1]]
     ELSE [after EXCEPT !.item.t = token.word, !.bad = @ \/ st.item.op = "ZERO"]

Bad == Ins("BAD", 0, 0, 0, 0)
ReadInstruction(t, from) ==
  LET token == next_token(t, from)
      op == to_upper(token.word)
      start == [item |-> Ins(Meaning(op), 0, 0, 0, 0), next |-> token.next, bad |-> Meaning(op) # "FENCE" /\ op \notin Known]
      st == FoldLeft(LAMBDA s, field : ReadOperand(t, s, field), start, Operands(op))
  IN IF token.word = "" THEN <<>> ELSE <<IF st.bad THEN Bad ELSE st.item>>

\* process_line: the lines that a line of text stands for, first its label.
process_line(raw) ==
  LET t == trim_line(raw)
      from == Past(t, 1, Blank)
      colon == Past(t, from, WordChar)
  IN IF At(t, colon) = ":" THEN <<Label(Slice(t, from, colon))>> \o ReadInstruction(t, colon + 1)
     ELSE ReadInstruction(t, from)

-----------------------------------------------------------------------------
(* translator.c: the low seven bits of each byte, until one is below 128 or *)
(* there are none *)

LastByte(bytes, k) ==
  CHOOSE j \in k..Len(bytes) : (bytes[j] < 128 \/ j = Len(bytes)) /\ \A n \in k..(j - 1) : bytes[n] >= 128
Sevens(bytes, k, j) ==
  FoldLeft(LAMBDA sum, n : sum + (bytes[n] % 128) * 128^(n - k), 0, [n \in 1..(j - k + 1) |-> k + n - 1])
read_uleb128(bytes, k) == Tok(Sevens(bytes, k, LastByte(bytes, k)), LastByte(bytes, k) + 1)
read_sleb128(bytes, k) ==
  LET j == LastByte(bytes, k)
      negative == bytes[j] % 128 >= 64
  IN Tok(Sevens(bytes, k, j) - (IF negative THEN 128^(j - k + 1) ELSE 0), j + 1)

-----------------------------------------------------------------------------
(* translator.c: a line of foreign assembly                                *)

G == INSTANCE Translator
TOKEN_CAP == 8

trim(t) ==
  LET from == Past(t, 1, Blank \cup {"\r", "\n"})
      kept == {j \in from..Len(t) : At(t, j) \notin Blank \cup {"\r", "\n"}}
  IN IF kept = {} THEN "" ELSE SubSeq(t, from, Max(kept))

\* On ARM the # comes before a number.
CommentAt(t, arch) ==
  {j \in 1..Len(t) : \/ At(t, j) = ";"
                     \/ At(t, j) = "/" /\ At(t, j + 1) = "/"
                     \/ At(t, j) = "#" /\ arch # "arm"}
remove_comment(t, arch) == trim(IF CommentAt(t, arch) = {} THEN t ELSE SubSeq(t, 1, Min(CommentAt(t, arch)) - 1))

ToLower(c) == IF c \in Chars(Upper) THEN At(Lower, Place(c, Upper)) ELSE c
lower(t) == FoldLeft(LAMBDA s, k : s \o ToLower(At(t, k)), "", [k \in 1..Len(t) |-> k])

RECURSIVE WordsFrom(_, _)
WordsFrom(t, from) ==
  LET k == Past(t, from, Blank \cup {","})
      end == Past(t, k, Chars(t) \ (Blank \cup {","}))
  IN IF At(t, k) = "" THEN <<>> ELSE <<Slice(t, k, end)>> \o WordsFrom(t, end)
tokenize(t) ==
  LET words == WordsFrom(t, 1) IN SubSeq(words, 1, Min({TOKEN_CAP, Len(words)}))

Bracketed(w) == Len(w) >= 2 /\ At(w, 1) = "[" /\ At(w, Len(w)) = "]"
Marked(w) == At(w, 1) \in {"%", "$", "#"}
normalize_operand(w) ==
  LET plain == IF Marked(w) THEN SubSeq(w, 2, Len(w)) ELSE w
  IN IF Bracketed(plain) THEN SubSeq(plain, 2, Len(plain) - 1) ELSE plain

\* As strtol reads it: a number that begins with 0 is octal.
foreign_number(w) ==
  LET rest == IF At(w, 1) \in {"-", "+"} THEN SubSeq(w, 2, Len(w)) ELSE w
      hex == At(rest, 1) \o At(rest, 2) = "0x"
      found == Digits(IF hex THEN SubSeq(rest, 3, Len(rest)) ELSE rest,
                      IF hex THEN 16 ELSE IF At(rest, 1) = "0" THEN 8 ELSE 10)
  IN IF found # <<>> /\ At(w, 1) = "-" THEN <<-found[1]>> ELSE found

\* A register, a number, or number(base) of RISC-V; what is none is a name.
foreign_operand(w, arch) ==
  LET plain == normalize_operand(w)
      open == Past(w, 1, Chars(w) \ {"("})
  IN CASE G!register(arch, plain) >= 0 -> IF Bracketed(w) THEN G!Mem(plain, 0) ELSE G!Reg(plain)
       [] G!register(arch, plain) < 0 /\ foreign_number(plain) # <<>> -> G!Num(foreign_number(plain)[1])
       [] arch = "riscv" /\ At(w, open) = "(" /\ At(w, Len(w)) = ")" ->
            G!Mem(Slice(w, open + 1, Len(w)), foreign_number(Slice(w, 1, open))[1])
       [] OTHER -> G!Name(plain)

Widths == {stem \o width : stem \in {"mov", "add", "sub", "and", "or", "xor"}, width \in {"b", "w", "l", "q"}}
strip_x86_width_suffix(op) == IF op \in Widths THEN SubSeq(op, 1, Len(op) - 1) ELSE op

ForeignInstruction(t, arch, att) ==
  LET words == tokenize(lower(t))
      op == IF arch = "x86" THEN strip_x86_width_suffix(Head(words)) ELSE Head(words)
  IN IF words = <<>> THEN <<>>
     ELSE <<[op |-> op, args |-> [k \in 1..(Len(words) - 1) |-> foreign_operand(words[k + 1], arch)], att |-> att]>>

\* compiler_translate_source: a label, and the instruction behind it.  That
\* registers have a % is looked for in the comment too.
foreign_line(raw, arch) ==
  LET t == remove_comment(raw, arch)
      colon == Past(t, 1, Chars(t) \ {":"})
      att == "%" \in Chars(raw)
  IN IF At(t, colon) = ":"
     THEN <<G!GuestLabel(Slice(t, 1, colon))>> \o ForeignInstruction(trim(SubSeq(t, colon + 1, Len(t))), arch, att)
     ELSE ForeignInstruction(t, arch, att)

-----------------------------------------------------------------------------
(* sim.c: the command line, read twice: what must be known before the      *)
(* machine is reset, and the rest.  Of an option there is what it sets, and*)
(* the next to be read.  Numbers have no width here.                       *)

IO_PORTS == 256
MAX_GPIO_EVENTS == 16

\* parse_uint_arg: <<>> if a word is no number.
UintPrefix(w) == NumberIn(Slice(w, 1, Past(w, 1, Digit)), 10)
parse_uint_arg(w) == IF w # "" /\ Chars(w) \subseteq Digit THEN <<UintPrefix(w)>> ELSE <<>>
AreUints(args, i, n) == i + n - 1 <= Len(args) /\ \A k \in i..(i + n - 1) : parse_uint_arg(args[k]) # <<>>
Uint(args, k) == parse_uint_arg(args[k])[1]
Value1(args, i) == i + 1 <= Len(args)
If(p, settings) == IF p THEN settings ELSE <<>>

\* Only --gdb and --frame-out pass over their value; that of --gdb is still
\* looked at as an option with a value.
EarlyValued(args, i) ==
  CASE args[i] = "-w" ->
         Tok(<<<<"resilient">>>> \o If(AreUints(args, i + 1, 1), <<<<"watchdog", Uint(args, i + 1)>>>>), i + 1)
    [] args[i] = "-e" -> Tok(If(Value1(args, i), <<<<"eeprom", args[i + 1]>>>>), i + 1)
    [] args[i] = "-i" -> Tok(If(AreUints(args, i + 1, 1), <<<<"irq", Uint(args, i + 1)>>>>), i + 1)
    [] args[i] = "--uart-rx" ->
         Tok(If(AreUints(args, i + 1, 2) /\ Uint(args, i + 2) < 256, <<<<"uart", Uint(args, i + 1), Uint(args, i + 2)>>>>), i + 1)
    [] args[i] = "--frame-ascii" -> Tok(<<<<"ascii">>>>, i + 1)
    [] args[i] = "--frame-out" /\ Value1(args, i) -> Tok(<<<<"frame", args[i + 1]>>>>, i + 2)
    [] OTHER -> Tok(<<>>, i + 1)
Switches == [q \in {"-q", "-b", "-r", "-h"} |->
               CASE q = "-q" -> "quiet" [] q = "-b" -> "bench" [] q = "-r" -> "resilient" [] q = "-h" -> "health"]
IsPort(w) == parse_uint_arg(w) # <<>> /\ parse_uint_arg(w)[1] \in 1..65535
EarlyOption(args, i) ==
  CASE args[i] \in DOMAIN Switches -> Tok(<<<<Switches[args[i]]>>>>, i + 1)
    [] args[i] = "--gdb" /\ Value1(args, i) ->
         LET rest == EarlyValued(args, i + 1)
         IN Tok(If(IsPort(args[i + 1]), <<<<"gdb", Uint(args, i + 1)>>>>) \o rest.token, rest.next)
    [] OTHER -> EarlyValued(args, i)

\* Whatever stands behind the digits is left out, and no digits are 0.
Cycles(w) ==
  LET negative == At(w, 1) = "-"
      n == UintPrefix(IF negative THEN SubSeq(w, 2, Len(w)) ELSE w)
  IN <<<<"cycles", IF negative THEN -n ELSE n>>>>
\* A digit of no number in hexadecimal counts as 0.
Pins(w) ==
  LET hex == At(w, 1) = "0" /\ At(w, 2) \in {"x", "X"}
      digit(k) == IF At(w, k) \in HexDigit THEN hex_digit_value(At(w, k)) ELSE 0
  IN IF hex THEN FoldLeft(LAMBDA n, k : 16 * n + digit(k), 0, [k \in 1..(Len(w) - 2) |-> k + 2]) ELSE UintPrefix(w)
IsEvent(args, i, events) == events < MAX_GPIO_EVENTS /\ AreUints(args, i + 1, 3) /\ Uint(args, i + 2) < 32
EventOf(args, i) == <<"event", Uint(args, i + 1), Uint(args, i + 2), IF Uint(args, i + 3) = 0 THEN 0 ELSE 1>>
Behind == [o \in {"-w", "-e", "-i", "--gdb", "--frame-out"} |-> 2] @@ [o \in {"--uart-rx"} |-> 3]

\* events: how many have been read.
LateOption(args, i, events) ==
  CASE args[i] = "-c" -> IF Value1(args, i) THEN Tok(Cycles(args[i + 1]), i + 2) ELSE Dies
    [] args[i] = "-p" -> IF AreUints(args, i + 1, 2) /\ Uint(args, i + 1) < IO_PORTS
                         THEN Tok(<<<<"port", Uint(args, i + 1), Uint(args, i + 2)>>>>, i + 3) ELSE Dies
    [] args[i] = "-G" -> IF Value1(args, i) THEN Tok(<<<<"pins", Pins(args[i + 1])>>>>, i + 2) ELSE Tok(<<>>, i + 1)
    [] args[i] = "-g" -> Tok(If(IsEvent(args, i, events), <<EventOf(args, i)>>), i + 4)
    [] args[i] \in DOMAIN Behind -> Tok(<<>>, i + Behind[args[i]])
    [] At(args[i], 1) # "-" -> Tok(Cycles(args[i]), i + 1)
    [] OTHER -> Tok(<<>>, i + 1)
=============================================================================
