------------------------------ MODULE Compiler ------------------------------
(***************************************************************************)
(* The C compiler (src/compiler/cc.c), from the tree of a program to lines *)
(* for the assembler.  The compiler emits while it parses; the tree says   *)
(* in which order.  Expressions, statements and declarations are records   *)
(* with a field k.  Characters and tokens are left out (Lexer has them),   *)
(* and so are the sizes of its tables.                                     *)
(*                                                                         *)
(* A state c of the compiler is a record:                                  *)
(*   out          the lines written so far                                 *)
(*   r, top       the register of the last expression and the number of    *)
(*                temporaries in use (reg_top)                             *)
(*   meta         what is known of the last expression (expr_meta)         *)
(*   syms         the symbol table, in order of declaration                *)
(*   structs      the layouts of structures and unions by name             *)
(*   typedefs     the words and the structure of the types with a name     *)
(*   macros, enums   the names that stand for numbers                      *)
(*   globals, strings   the data to be written at the end                  *)
(*   labels, used, defined   internal labels                               *)
(*   nparams, nlocals, end   the frame of the function, and its last label *)
(*   dead         the compiler has stopped with an error                   *)
(***************************************************************************)
EXTENDS Assembler

CONSTANTS MAX_MACROS, MAX_PP_DEPTH

-----------------------------------------------------------------------------
(* The preprocessor: conditional lines, headers and macros that stand for a*)
(* number.  A line is a record with a field k; a line that is no directive *)
(* carries a declaration d.  The value of a macro is a sequence of tokens, *)
(* since it is kept as text and read anew whenever its name is met.        *)

\* Tokens of a macro's value: a number n, a text with the characters n, or a
\* name, an operator or a parenthesis x.
Token(k, n, x) == [k |-> k, n |-> n, x |-> x]
Is(text, x) == text # <<>> /\ Head(text).k = "op" /\ Head(text).x = x

Wrappers == {"UINT32_C", "UINT64_C", "INT32_C", "INT64_C"}

-----------------------------------------------------------------------------
(* Numbers: the levels of the evaluator, from the one that binds least.    *)
(* They are not those of C, and | is not among them.                       *)

Levels == <<{"^"}, {"&"}, {"+", "-"}, {"*", "/"}, {"<<", ">>"}>>

TowardsZero(x, y) == IF (x < 0) = (y < 0) THEN Abs(x) \div Abs(y) ELSE -(Abs(x) \div Abs(y))

\* Constants are numbers with a sign, whose bits are those of a word.
Bits(op, x, y) ==
  Signed(CASE op = "&" -> Wrap(x) & Wrap(y) [] op = "^" -> Wrap(x) ^^ Wrap(y) [] op = "|" -> Wrap(x) | Wrap(y))
ConstOp(op, x, y) ==
  CASE op = "+" -> x + y [] op = "-" -> x - y [] op = "*" -> x * y
    [] op = "/" -> TowardsZero(x, y)
    [] op = "%" -> x - y * TowardsZero(x, y)
    [] op = "<<" -> x * 2^y [] op = ">>" -> x \div 2^y
    [] op \in {"&", "^", "|"} -> Bits(op, x, y)

\* A division by 0 leaves the value as it is.
ce_op(op, x, y) == IF op = "/" /\ y = 0 THEN x ELSE ConstOp(op, x, y)

RECURSIVE ce_level(_, _, _, _)
ce_bitxor(macros, text, depth) == ce_level(1, macros, text, depth)

\* Up to a closing parenthesis, which may be missing.
ce_parenthesis(macros, text, depth) ==
  LET inner == ce_bitxor(macros, Tail(text), depth)
  IN [inner EXCEPT !.rest = IF Is(@, ")") THEN Tail(@) ELSE @]

\* The value of a name takes the place of the text: what stands behind the
\* name is not read any more.
ce_name(macros, text, depth) ==
  LET x == Head(text).x
  IN IF depth < MAX_PP_DEPTH /\ x \in DOMAIN macros /\ macros[x] # <<>>
     THEN ce_bitxor(macros, macros[x], depth + 1) ELSE [v |-> 0, rest |-> Tail(text)]

ce_primary(macros, text, depth) ==
  LET signed == Is(text, "+") \/ Is(text, "-")
      t == IF signed THEN Tail(text) ELSE text
      wrapped == t # <<>> /\ Head(t).k = "name" /\ Head(t).x \in Wrappers
      found ==
        CASE Is(t, "(") -> ce_parenthesis(macros, t, depth)
          [] wrapped -> IF Is(Tail(t), "(") THEN ce_parenthesis(macros, Tail(t), depth) ELSE [v |-> 0, rest |-> Tail(t)]
          [] ~wrapped /\ t # <<>> /\ Head(t).k = "name" -> ce_name(macros, t, depth)
          [] t # <<>> /\ Head(t).k = "num" -> [v |-> Head(t).n, rest |-> Tail(t)]
          [] OTHER -> [v |-> 0, rest |-> t]
  IN [found EXCEPT !.v = IF Is(text, "-") THEN -@ ELSE @]

RECURSIVE ce_more(_, _, _, _)
ce_more(k, macros, left, depth) ==
  IF left.rest = <<>> \/ Head(left.rest).k # "op" \/ Head(left.rest).x \notin Levels[k] THEN left
  ELSE LET right == ce_level(k + 1, macros, Tail(left.rest), depth)
       IN ce_more(k, macros, [right EXCEPT !.v = ce_op(Head(left.rest).x, left.v, right.v)], depth)

ce_level(k, macros, text, depth) ==
  IF k > Len(Levels) THEN ce_primary(macros, text, depth)
  ELSE ce_more(k, macros, ce_level(k + 1, macros, text, depth), depth)

\* macro_value: whether a name stands for a number, and for which.
IsNumber(macros, x) ==
  /\ x \in DOMAIN macros /\ macros[x] # <<>>
  /\ LET t == Head(macros[x])
     IN CASE t.k = "name" -> t.x \in DOMAIN macros \/ (t.x \in Wrappers /\ Is(Tail(macros[x]), "("))
          [] t.k \in {"num", "text"} -> t.k = "num"
          [] t.k = "op" -> t.x \in {"+", "-", "(", "~"}
macro_value(macros, x) == ce_bitxor(macros, macros[x], 0).v

\* macro_string_value: what stands behind the text is not read.
IsText(macros, x) == x \in DOMAIN macros /\ macros[x] # <<>> /\ Head(macros[x]).k = "text"
macro_string_value(macros, x) == Head(macros[x]).n

-----------------------------------------------------------------------------
(* Lines.  A state pp is a record: the files that are open (name and next  *)
(* line, the innermost first) and those still to be read, the macros, the  *)
(* conditions around the line (what was active outside, and whether a      *)
(* branch has been taken), whether lines are active, and what is written.  *)

NoMacros == [x \in {} |-> <<>>]
PpFresh(inputs) ==
  [files |-> <<>>, inputs |-> inputs, macros |-> NoMacros, parents |-> <<>>, takens |-> <<>>,
   active |-> TRUE, out |-> <<>>, dead |-> FALSE]
PpDie(pp) == [pp EXCEPT !.dead = TRUE]

macro_define(pp, x, text) ==
  IF x \notin DOMAIN pp.macros /\ Cardinality(DOMAIN pp.macros) >= MAX_MACROS THEN PpDie(pp)
  ELSE [pp EXCEPT !.macros = (x :> text) @@ @]

\* pp_cond reads the first term of a condition only.
pp_cond(pp, l) ==
  CASE l.test = "defined" -> l.neg # (l.x \in DOMAIN pp.macros)
    [] l.test = "number" -> l.neg # (l.n # 0)
    [] l.test = "name" -> l.neg

Condition(pp, l) ==
  CASE l.k = "ifdef" -> l.x \in DOMAIN pp.macros
    [] l.k = "ifndef" -> l.x \notin DOMAIN pp.macros
    [] l.k = "if" -> pp_cond(pp, l)

Opening == {"ifdef", "ifndef", "if"}
Open(pp, l) ==
  IF Len(pp.parents) >= MAX_PP_DEPTH THEN PpDie(pp)
  ELSE [pp EXCEPT !.parents = Append(@, pp.active), !.takens = Append(@, Condition(pp, l)),
                  !.active = @ /\ Condition(pp, l)]

\* MUTANT: #else forgets the conditions around it.
ElseOfAny(pp) ==
  IF pp.parents = <<>> THEN PpDie(pp)
  ELSE [pp EXCEPT !.active = ~Last(pp.takens), !.takens = Append(Front(@), TRUE)]
Else(pp) ==
  IF pp.parents = <<>> THEN PpDie(pp)
  ELSE [pp EXCEPT !.active = Last(pp.parents) /\ ~Last(pp.takens), !.takens = Append(Front(@), TRUE)]

Endif(pp) ==
  IF pp.parents = <<>> THEN PpDie(pp)
  ELSE [pp EXCEPT !.active = Last(pp.parents), !.parents = Front(@), !.takens = Front(@)]

Include(pp, project, f) ==
  IF Len(pp.files) >= MAX_PP_DEPTH \/ f \notin DOMAIN project.files THEN PpDie(pp)
  ELSE [pp EXCEPT !.files = <<<<f, 1>>>> \o @]

\* A line of pp_process_file.  Any other directive, #undef and #elif among
\* them, leaves no trace.
Line(pp, project, l) ==
  CASE l.k \in Opening -> Open(pp, l)
    [] l.k = "else" -> Else(pp)
    [] l.k = "endif" -> Endif(pp)
    [] l.k = "define" /\ pp.active -> macro_define(pp, l.x, l.text)
    [] l.k = "include" /\ pp.active -> Include(pp, project, l.f)
    [] l.k = "text" /\ pp.active -> [pp EXCEPT !.out = Append(@, l.d)]
    [] OTHER -> pp

\* The loops of pp_process_file and main: a line, the end of a file, or the
\* next file.
Exhausted(pp) == pp.files = <<>> /\ pp.inputs = <<>>
PpStep(pp, project) ==
  IF pp.files = <<>> THEN Include([pp EXCEPT !.inputs = Tail(@)], project, Head(pp.inputs))
  ELSE LET f == Head(pp.files)[1]
           n == Head(pp.files)[2]
           rest == Tail(pp.files)
       IN IF n > Len(project.files[f]) THEN [pp EXCEPT !.files = rest]
          ELSE Line([pp EXCEPT !.files = <<<<f, n + 1>>>> \o rest], project, project.files[f][n])

-----------------------------------------------------------------------------
(* The compiler proper *)

TEMP_BASE == 5
TEMP_TOP == 27
REG_RET == 7
REG_SCRATCH == 28
REG_FP == 29
REG_SP == 30
REG_RA == 31
MAX_ARG_REGS == 4
FrameLocals == 32
StackTop == 1023

NoMeta == [lvalue |-> FALSE, addr |-> 0, ptr |-> FALSE, words |-> 0, dims |-> <<>>, st |-> ""]
Meta(st, ptr, words, lvalue, addr) ==
  [NoMeta EXCEPT !.st = st, !.ptr = ptr, !.words = IF words > 0 THEN words ELSE 1,
                 !.lvalue = lvalue, !.addr = addr]

Fresh ==
  [out |-> <<>>, r |-> 0, top |-> 0, meta |-> NoMeta, syms |-> <<>>, structs |-> [t \in {} |-> 0],
   typedefs |-> [x \in {} |-> 0], macros |-> NoMacros, enums |-> [x \in {} |-> 0], globals |-> <<>>, strings |-> <<>>, labels |-> 0, used |-> {}, defined |-> {},
   nparams |-> 0, nlocals |-> 0, end |-> -1, dead |-> FALSE]

die(c) == [c EXCEPT !.dead = TRUE]
emit(c, lines) == [c EXCEPT !.out = @ \o lines]
Clear(c) == [c EXCEPT !.meta = NoMeta]

-----------------------------------------------------------------------------
(* Temporaries, labels, symbols *)

alloc_reg(c) ==
  [c EXCEPT !.r = TEMP_BASE + c.top, !.top = @ + 1, !.dead = @ \/ TEMP_BASE + c.top > TEMP_TOP]
free_reg(c) == [c EXCEPT !.top = IF @ > 0 THEN @ - 1 ELSE 0]
free_regs_to(c, n) == [c EXCEPT !.top = n]

Name(n) == "_L" \o ToString(n)
new_label(c, k) == [c EXCEPT !.labels = @ + k]
emit_label(c, n) ==
  [emit(c, <<Label(Name(n))>>) EXCEPT !.defined = @ \cup {n}, !.dead = @ \/ n \in c.defined]
emit_jmp_label(c, n) == [emit(c, <<Named("JMP", 0, 0, 0, Name(n))>>) EXCEPT !.used = @ \cup {n}]
emit_jz_label(c, r, n) == [emit(c, <<Named("JZ", r, 0, 0, Name(n))>>) EXCEPT !.used = @ \cup {n}]

\* Internal labels that nothing has defined get a place to land on.
emit_missing_labels(c) ==
  FoldLeft(LAMBDA d, n : emit(emit_label(d, n), <<Ins("NOP", 0, 0, 0, 0)>>), c,
           SetToSortSeq(c.used \ c.defined, <))

NoSym == [x |-> "", func |-> FALSE, global |-> TRUE, off |-> 0, words |-> 1, ptr |-> FALSE,
          dims |-> <<>>, len |-> 1, st |-> ""]

\* sym_find: the latest of that name.
IsDeclared(c, x) == \E j \in DOMAIN c.syms : c.syms[j].x = x
sym_find(c, x) == IF IsDeclared(c, x) THEN SelectLastInSeq(c.syms, LAMBDA s : s.x = x) ELSE 0
SymOf(c, x) == IF IsDeclared(c, x) THEN c.syms[sym_find(c, x)] ELSE NoSym
AddSym(c, s) == [c EXCEPT !.syms = Append(@, s)]
sym_restore(c, mark) == [c EXCEPT !.syms = SubSeq(@, 1, mark)]

Times(dims) == FoldLeft(LAMBDA a, b : a * b, 1, dims)
IsArray(s) == s.dims # <<>> \/ s.len > 1
IsStruct(s) == s.st # ""

-----------------------------------------------------------------------------
(* Types and layouts.  A type is the words of a base type, a structure or  *)
(* the name of a type, whether a star follows, and the array bounds behind *)
(* the declared name: [words, st, name, ptr, dims].                        *)

Type(words, ptr, st, dims) == [words |-> words, ptr |-> ptr, st |-> st, dims |-> dims, name |-> ""]

MAX_ARRAY_DIMS == 8
MaxArray == 65536
DEFAULT_ARRAY_WORDS == 256

\* parse_array_bound: 0 stands for brackets with nothing between them, which
\* only the first ones may be.
parse_array_bound(n) == IF n = 0 THEN DEFAULT_ARRAY_WORDS ELSE n
IsBound(n, unsized) == n \in (IF unsized THEN 0 ELSE 1)..MaxArray
Dimensions(dims) == [k \in DOMAIN dims |-> parse_array_bound(dims[k])]
parse_array_dimensions(c, dims, unsized) ==
  IF /\ Len(dims) <= MAX_ARRAY_DIMS
     /\ \A k \in DOMAIN dims : IsBound(dims[k], unsized /\ k = 1)
     /\ Times(Dimensions(dims)) <= MaxArray
  THEN c ELSE die(c)

WordsOfStruct(c, st) == IF st \in DOMAIN c.structs THEN c.structs[st].words ELSE 1

\* The words of an object of this type: a pointer has one, whatever it
\* points to, and a named type has what it had when it got its name.
current_type_words(c, t) ==
  IF t.ptr THEN 1
  ELSE IF t.name # "" THEN c.typedefs[t.name].words
  ELSE IF t.st # "" THEN WordsOfStruct(c, t.st) ELSE t.words
current_type(c, t) == IF t.name # "" THEN c.typedefs[t.name].st ELSE t.st

\* parse_typedef_decl: the name must stand where a structure ends, and no
\* array behind it.  That a named type is a pointer is forgotten, and so is
\* what it points to.
typedef_add(c, x, words, st) ==
  [c EXCEPT !.typedefs = (x :> [words |-> IF words > 0 THEN words ELSE 1, st |-> st]) @@ @]
TypedefDecl(c, d) ==
  IF d.type.dims # <<>> \/ (d.type.ptr /\ d.type.st # "") THEN die(c)
  ELSE typedef_add(c, d.x, current_type_words(c, d.type), IF d.type.ptr THEN "" ELSE current_type(c, d.type))

\* parse_struct_body: a member is [x, type], an anonymous one has x = "" and
\* leaves its fields to the structure around it.  Fields of a union share
\* offset 0.  That a field is an array, of one dimension, is forgotten but
\* for its size.
SizeOfMember(c, t) == current_type_words(c, t) * Times(t.dims)
FieldOf(c, m, at) ==
  [x |-> m.x, off |-> at, ptr |-> m.type.ptr, st |-> current_type(c, m.type),
   words |-> IF m.type.ptr THEN 1 ELSE SizeOfMember(c, m.type)]
Promoted(c, m, at) ==
  LET fields == c.structs[current_type(c, m.type)].fields
  IN [k \in DOMAIN fields |-> [fields[k] EXCEPT !.off = @ + at]]
Layout(c, d) ==
  LET step(s, m) ==
        LET fields == IF m.x = "" THEN Promoted(c, m, s.at) ELSE <<FieldOf(c, m, s.at)>>
            words == IF m.x = "" THEN WordsOfStruct(c, current_type(c, m.type)) ELSE SizeOfMember(c, m.type)
        IN [fields |-> s.fields \o fields, at |-> IF d.union THEN s.at ELSE s.at + words]
      all == FoldLeft(step, [fields |-> <<>>, at |-> 0], d.members)
      widest == FoldLeft(LAMBDA w, f : IF f.words > w THEN f.words ELSE w, 1, all.fields)
  IN [fields |-> all.fields,
      words |-> IF d.union THEN widest ELSE IF all.at > 0 THEN all.at ELSE 1]
IsMember(m) == Len(m.type.dims) <= 1 /\ \A k \in DOMAIN m.type.dims : IsBound(m.type.dims[k], FALSE)
StructDecl(c, d) ==
  IF \A k \in DOMAIN d.members : IsMember(d.members[k]) THEN [c EXCEPT !.structs = (d.x :> Layout(c, d)) @@ @]
  ELSE die(c)

HasField(c, st, f) == st \in DOMAIN c.structs /\ \E k \in DOMAIN c.structs[st].fields : c.structs[st].fields[k].x = f
FieldNamed(c, st, f) ==
  LET fields == c.structs[st].fields IN fields[SelectInSeq(fields, LAMBDA g : g.x = f)]

-----------------------------------------------------------------------------
(* Lvalues *)

emit_addr_of(c, x) ==
  LET s == SymOf(c, x)
      d == alloc_reg(IF IsDeclared(c, x) THEN c ELSE die(c))
  IN emit(d, IF s.global THEN <<Named("LI", d.r, 0, 0, x)>>
             ELSE <<Ins("LI", REG_SCRATCH, 0, 0, s.off), Ins("ADD", d.r, REG_FP, REG_SCRATCH, 0)>>)

emit_load_addr(c, at) == LET d == alloc_reg(c) IN emit(d, <<Ins("LOAD", d.r, at, 0, 0)>>)
emit_store_addr(c, at, v) == emit(c, <<Ins("STORE", v, at, 0, 0)>>)

\* The value moves to the register of its address, so that an intermediate
\* result holds one register.
expr_as_value(c) ==
  IF c.meta.lvalue /\ c.meta.addr # c.r
  THEN [free_reg(emit(c, <<Ins("ADD", c.meta.addr, c.r, 0, 0)>>)) EXCEPT !.r = c.meta.addr, !.meta = NoMeta]
  ELSE Clear(c)

Mnemonic ==
  ("*" :> "MUL") @@ ("/" :> "DIV") @@ ("+" :> "ADD") @@ ("-" :> "SUB") @@ ("<<" :> "SHL") @@ (">>" :> "SHR")
  @@ ("==" :> "CMPEQ") @@ ("!=" :> "CMPNE") @@ ("<" :> "CMPLT") @@ ("<=" :> "CMPLE")
  @@ (">" :> "CMPLT") @@ (">=" :> "CMPLE") @@ ("&" :> "AND") @@ ("^" :> "XOR") @@ ("|" :> "OR")
  @@ ("+=" :> "ADD") @@ ("-=" :> "SUB") @@ ("*=" :> "MUL") @@ ("/=" :> "DIV") @@ ("&=" :> "AND")
  @@ ("|=" :> "OR") @@ ("^=" :> "XOR") @@ ("<<=" :> "SHL") @@ (">>=" :> "SHR")

\* A shift takes an immediate: the register given in its place is a name
\* for the assembler.
Binary(op, d, a, b) ==
  IF Mnemonic[op] \in {"SHL", "SHR"} THEN Named(Mnemonic[op], d, a, 0, "R" \o ToString(b)) ELSE Ins(Mnemonic[op], d, a, b, 0)

\* emit_binary_in_left, and the two comparisons with their operands swapped.
emit_binary_in_left(c, left, right, op) ==
  LET line == IF op \in {">", ">="} THEN Binary(op, left, right, left) ELSE Binary(op, left, left, right)
  IN [free_reg(emit(c, <<line>>)) EXCEPT !.r = left, !.meta = NoMeta]

-----------------------------------------------------------------------------
(* Expressions: Expr(c, e) leaves the value in register r.                 *)

RECURSIVE Expr(_, _)

Constant(c, n) == LET d == alloc_reg(c) IN Clear(emit(d, <<Ins("LI", d.r, 0, 0, n)>>))

\* string_add: equal strings share a label.
StringLabel(n) == "_STR_" \o ToString(n - 1)
string_add(c, text) ==
  IF \E j \in DOMAIN c.strings : c.strings[j] = text THEN c ELSE [c EXCEPT !.strings = Append(@, text)]
StringIndex(c, text) == SelectInSeq(c.strings, LAMBDA s : s = text)
StringLiteral(c, text) ==
  LET d == alloc_reg(string_add(c, text))
  IN Clear(emit(d, <<Named("LI", d.r, 0, 0, StringLabel(StringIndex(d, text)))>>))

\* lex_next: an enumerator before a macro, and both behind a macro that is
\* a text.
IsNumeric(c, x) == x \in DOMAIN c.enums \/ IsNumber(c.macros, x)
NumberOf(c, x) == IF x \in DOMAIN c.enums THEN c.enums[x] ELSE macro_value(c.macros, x)

\* An array or a structure stands for its address, anything else is loaded.
Variable(c, x) ==
  LET s == SymOf(c, x)
      a == emit_addr_of(c, x)
      v == emit_load_addr(a, a.r)
  IN IF IsText(c.macros, x) THEN StringLiteral(c, macro_string_value(c.macros, x))
     ELSE IF IsNumeric(c, x) THEN Constant(c, NumberOf(c, x))
     ELSE IF IsArray(s) THEN [a EXCEPT !.meta = [Meta(s.st, s.ptr, s.words, FALSE, a.r) EXCEPT !.dims = s.dims]]
     ELSE IF IsStruct(s) /\ ~s.ptr THEN [a EXCEPT !.meta = Meta(s.st, s.ptr, s.words, TRUE, a.r)]
     ELSE [v EXCEPT !.meta = Meta(s.st, s.ptr, s.words, TRUE, a.r)]

\* Arguments stay in temporaries until all are computed.
Arguments(c, args) ==
  FoldLeft(LAMBDA st, e : LET d == Expr(st.c, e) IN [c |-> d, regs |-> Append(st.regs, d.r)],
           [c |-> c, regs |-> <<>>], args)
IntoArgumentRegisters(regs) ==
  [j \in 1..(IF Len(regs) < MAX_ARG_REGS THEN Len(regs) ELSE MAX_ARG_REGS) |-> Ins("ADD", j, regs[j], 0, 0)]

\* Temporaries in use before the call go to the stack and come back, R7
\* among them when there are three.
MoveStack(n) == <<Ins("LI", REG_SCRATCH, 0, 0, n), Ins("ADD", REG_SP, REG_SP, REG_SCRATCH, 0)>>
\* MUTANT: temporaries in use are not saved.
SpillNothing(n) == <<>>
Spill(n) == IF n = 0 THEN <<>> ELSE MoveStack(-n) \o [j \in 1..n |-> Ins("STORE", TEMP_BASE + j - 1, REG_SP, 0, j - 1)]
Refill(n) == IF n = 0 THEN <<>> ELSE [j \in 1..n |-> Ins("LOAD", TEMP_BASE + j - 1, REG_SP, 0, j - 1)] \o MoveStack(n)

Call(c, f, args) ==
  LET a == Arguments(c, args)
      jump == <<Named("LI", REG_SCRATCH, 0, 0, f), Ins("JALR", REG_RA, REG_SCRATCH, 0, 0)>>
      d == alloc_reg(free_regs_to(emit(a.c, IntoArgumentRegisters(a.regs) \o Spill(c.top) \o jump \o Refill(c.top)),
                                  c.top))
  IN Clear(emit(d, <<Ins("ADD", d.r, REG_RET, 0, 0)>>))

\* A call of a value saves nothing.
CallOfValue(c, e, args) ==
  LET f == Expr(c, e)
      a == Arguments(f, args)
      d == free_regs_to(emit(a.c, IntoArgumentRegisters(a.regs) \o <<Ins("JALR", REG_RA, f.r, 0, 0)>>), f.top)
  IN Clear([emit(d, <<Ins("ADD", f.r, REG_RET, 0, 0)>>) EXCEPT !.r = f.r])

\* a[i]: the rest of a many-dimensional array and a structure stay
\* addresses; anything else is loaded next to its address.
Index(c, array, index) ==
  LET b == Expr(c, array)
      base == b.meta
      i == Expr(b, index)
      stride == base.words * Times(SubSeq(base.dims, 2, Len(base.dims)))
      scaled == IF base.dims # <<>> \/ base.words > 1
                THEN emit(i, <<Ins("LI", REG_SCRATCH, 0, 0, stride), Ins("MUL", i.r, i.r, REG_SCRATCH, 0)>>)
                ELSE i
      at == [free_reg(emit(scaled, <<Ins("ADD", b.r, b.r, i.r, 0)>>)) EXCEPT !.r = b.r]
      v == emit_load_addr(at, b.r)
  IN IF Len(base.dims) > 1
     THEN [at EXCEPT !.meta = [Meta(base.st, FALSE, base.words, TRUE, b.r) EXCEPT !.dims = Tail(base.dims)]]
     ELSE IF base.st # "" /\ base.words > 1
     THEN [at EXCEPT !.meta = Meta(base.st, FALSE, base.words, TRUE, b.r)]
     ELSE [v EXCEPT !.meta = Meta("", Len(base.dims) = 1 /\ base.ptr, 1, TRUE, b.r)]

Member(c, object, f, dot) ==
  LET b == Expr(c, object)
      g == FieldNamed(c, b.meta.st, f)
      at == emit(b, <<Ins("LI", REG_SCRATCH, 0, 0, g.off), Ins("ADD", b.r, b.r, REG_SCRATCH, 0)>>)
      v == emit_load_addr(at, b.r)
  IN IF ~HasField(c, b.meta.st, f) \/ (dot /\ b.meta.ptr) THEN die(b)
     ELSE IF g.st # "" /\ ~g.ptr THEN [at EXCEPT !.meta = Meta(g.st, FALSE, g.words, TRUE, b.r)]
     ELSE [v EXCEPT !.meta = Meta(g.st, g.ptr, g.words, TRUE, b.r)]

Change(op) == IF op = "++" THEN "ADD" ELSE "SUB"

\* x++ keeps the old value.  (Of the name of an array, which is not C, the
\* compiler lets it pass.)
PostChange(c, op, e) ==
  LET v == Expr(c, e)
      one == alloc_reg(v)
      new == alloc_reg(one)
      code == <<Ins("LI", one.r, 0, 0, 1), Ins(Change(op), new.r, v.r, one.r, 0)>>
      d == free_reg(free_reg(emit_store_addr(emit(new, code), v.meta.addr, new.r)))
  IN IF v.meta.lvalue THEN [d EXCEPT !.r = v.r] ELSE die(v)

PreChange(c, op, e) ==
  LET v == Expr(c, e)
      code == <<Ins("LI", REG_SCRATCH, 0, 0, 1), Ins(Change(op), v.r, v.r, REG_SCRATCH, 0)>>
  IN IF v.meta.lvalue THEN emit_store_addr(emit(v, code), v.meta.addr, v.r) ELSE die(v)

OnValue(c, op, e) ==
  LET v == expr_as_value(Expr(c, e))
  IN emit(v, CASE op = "-" -> <<Ins("SUB", v.r, 0, v.r, 0)>>
               [] op = "!" -> <<Ins("CMPEQ", v.r, v.r, 0, 0)>>
               [] op = "~" -> <<Ins("LI", REG_SCRATCH, 0, 0, -1), Ins("XOR", v.r, v.r, REG_SCRATCH, 0)>>)

Dereference(c, e) ==
  LET p == expr_as_value(Expr(c, e))
  IN [emit_load_addr(p, p.r) EXCEPT !.meta = Meta("", FALSE, 1, TRUE, p.r)]

AddressOf(c, e) ==
  LET v == Expr(c, e)
  IN IF ~v.meta.lvalue THEN die(v)
     ELSE [(IF v.r # v.meta.addr THEN free_reg(v) ELSE v) EXCEPT !.r = v.meta.addr]

\* The expression is compiled, and its code runs, only for its type.
SizeOf(c, e) ==
  LET v == Expr(c, e)
      words == IF v.meta.words > 0 THEN v.meta.words ELSE 1
  IN Constant(free_regs_to(v, c.top), words * Times(v.meta.dims))

\* A remainder is left with what is known of its right operand.
RemainderOf(c, left, right) ==
  LET a == expr_as_value(Expr(c, left))
      b == Expr(a, right)
      q == alloc_reg(b)
      code == <<Ins("DIV", q.r, a.r, b.r, 0), Ins("MUL", q.r, q.r, b.r, 0), Ins("SUB", a.r, a.r, q.r, 0)>>
  IN [free_reg(free_reg(emit(q, code))) EXCEPT !.r = a.r]

BinaryOf(c, op, left, right) ==
  LET a == expr_as_value(Expr(c, left))
      b == Expr(a, right)
  IN emit_binary_in_left(b, a.r, b.r, op)

\* && and || compute both sides.
BothOf(c, op, left, right) ==
  LET a == expr_as_value(Expr(c, left))
      b == Expr(a, right)
      code == IF op = "&&"
              THEN <<Ins("CMPNE", a.r, a.r, 0, 0), Ins("CMPNE", b.r, b.r, 0, 0), Ins("AND", a.r, a.r, b.r, 0)>>
              ELSE <<Ins("OR", a.r, a.r, b.r, 0), Ins("CMPNE", a.r, a.r, 0, 0)>>
  IN [free_reg(emit(b, code)) EXCEPT !.r = a.r, !.meta = NoMeta]

\* parse_cond: both branches end in the same register.
Choice(c, cond, yes, no) ==
  LET v == Expr(c, cond)
      l == v.labels
      result == alloc_reg(free_reg(emit_jz_label(new_label(v, 2), v.r, l)))
      branch(d, e) == LET b == Expr(d, e)
                      IN free_regs_to(emit(b, <<Ins("ADD", result.r, b.r, 0, 0)>>), result.top)
      first == emit_label(emit_jmp_label(branch(result, yes), l + 1), l)
  IN [emit_label(branch(first, no), l + 1) EXCEPT !.r = result.r, !.meta = NoMeta]

\* parse_expr: the target is compiled as a value too, and its address is
\* still in its register when the right side is known.
Assignment(c, op, target, e) ==
  LET a == Expr(c, target)
      v == Expr(a, e)
      new == alloc_reg(v)
      sum == IF op = "=" THEN v ELSE emit(new, <<Binary(op, new.r, a.r, v.r)>>)
  IN IF a.meta.lvalue THEN [emit_store_addr(sum, a.meta.addr, sum.r) EXCEPT !.meta = a.meta] ELSE die(a)

\* A compound literal lives on the stack, below whatever is there.
Compound(c, st, inits) ==
  LET b == alloc_reg(c)
      words == WordsOfStruct(c, st)
      room == emit(b, MoveStack(-words) \o <<Ins("ADD", b.r, REG_SP, 0, 0)>>
                      \o [j \in 1..words |-> Ins("STORE", 0, b.r, 0, j - 1)])
      value(d, e) == IF e.k = "var" /\ SymOf(d, e.x).func THEN emit_addr_of(d, e.x) ELSE Expr(d, e)
      one(d, j) == LET v == value(d, inits[j])
                   IN IF d.dead THEN d ELSE free_regs_to(emit(v, <<Ins("STORE", v.r, b.r, 0, j - 1)>>), c.top)
      d == FoldLeft(one, room, [j \in DOMAIN inits |-> j])
  IN IF Len(inits) > words THEN die(d) ELSE [d EXCEPT !.r = b.r, !.meta = Meta(st, FALSE, words, TRUE, b.r)]

\* A cast keeps the value and what is known of it; of braces behind a type
\* that is no structure nothing is kept.
Cast(c, e) == IF e.k = "braces" THEN Constant(c, 0) ELSE Expr(c, e)

Expr(c, e) ==
  CASE e.k = "num" -> Constant(c, e.n)
    [] e.k = "str" -> StringLiteral(c, e.text)
    [] e.k = "var" -> Variable(c, e.x)
    [] e.k = "call" -> Call(c, e.f, e.args)
    [] e.k = "callv" -> CallOfValue(c, e.e, e.args)
    [] e.k = "index" -> Index(c, e.a, e.i)
    [] e.k = "field" -> Member(c, e.e, e.f, e.dot)
    [] e.k = "post" -> PostChange(c, e.op, e.e)
    [] e.k = "pre" -> PreChange(c, e.op, e.e)
    [] e.k = "un" -> OnValue(c, e.op, e.e)
    [] e.k = "deref" -> Dereference(c, e.e)
    [] e.k = "addr" -> AddressOf(c, e.e)
    [] e.k = "sizeof" -> SizeOf(c, e.e)
    [] e.k = "sizet" ->
         Constant(parse_array_dimensions(c, e.type.dims, FALSE), current_type_words(c, e.type) * Times(Dimensions(e.type.dims)))
    [] e.k = "bin" /\ e.op = "%" -> RemainderOf(c, e.l, e.r)
    [] e.k = "bin" /\ e.op \in {"&&", "||"} -> BothOf(c, e.op, e.l, e.r)
    [] e.k = "bin" /\ e.op \in DOMAIN Mnemonic -> BinaryOf(c, e.op, e.l, e.r)
    [] e.k = "cond" -> Choice(c, e.c, e.a, e.b)
    [] e.k = "set" -> Assignment(c, e.op, e.l, e.r)
    [] e.k = "obj" -> Compound(c, e.st, e.inits)
    [] e.k = "cast" -> Cast(c, e.e)

-----------------------------------------------------------------------------
(* Statements: Stmt(c, s, break, cont), with the labels to leave for       *)

RECURSIVE Stmt(_, _, _, _)

NoLabel == -1

\* A local variable takes the next words of the frame, of which there are
\* FrameLocals whatever is declared; its place is not given back.
AddLocal(c, x, t) ==
  LET words == current_type_words(c, t)
      dims == Dimensions(t.dims)
      s == [x |-> x, func |-> FALSE, global |-> FALSE, off |-> 2 + c.nparams + c.nlocals, words |-> words,
            ptr |-> t.ptr, dims |-> dims, len |-> Times(dims), st |-> current_type(c, t)]
  IN [AddSym(parse_array_dimensions(c, t.dims, TRUE), s) EXCEPT !.nlocals = @ + words * s.len]

\* parse_local_init_values, and the initialiser that is one expression.
Stored(v, at, off, top) == free_regs_to(emit(v, <<Ins("STORE", v.r, at, 0, off)>>), top)
InitLocal(c, s, inits) ==
  IF Len(inits) > s.words * s.len THEN die(c)
  ELSE FoldLeft(LAMBDA d, j : IF d.dead THEN d ELSE Stored(Expr(d, inits[j]), REG_FP, s.off + j - 1, c.top), c,
                [j \in DOMAIN inits |-> j])

LocalDeclared(c, s) == InitLocal(c, SymOf(c, s.x), s.inits)
Declaration(c, s) == LocalDeclared(AddLocal(c, s.x, s.type), s)

\* Nothing is read behind an error.
Stmts(c, body, break, cont) == FoldLeft(LAMBDA d, s : IF d.dead THEN d ELSE Stmt(d, s, break, cont), c, body)

\* parse_compound: the names end with the block.
Block(c, body, break, cont) == sym_restore(Stmts(c, body, break, cont), Len(c.syms))

\* The case labels are read, and nothing is dispatched: the body is run from
\* its first statement.
Switch(c, s, cont) ==
  LET end == c.labels
  IN emit_label(Stmts(free_regs_to(Expr(new_label(c, 1), s.e), 0), s.body, end, cont), end)

Returned(v) == free_regs_to(emit(v, <<Ins("ADD", REG_RET, v.r, 0, 0)>>), 0)
Return(c, s) ==
  emit_jmp_label(IF s.es = <<>> THEN c ELSE Returned(FoldLeft(LAMBDA d, e : Expr(free_regs_to(d, 0), e), c, s.es)),
                 c.end)

\* On a condition v that is false control goes to a label.
Unless(v, l) == free_regs_to(emit_jz_label(v, v.r, l), 0)

If(c, s, break, cont) ==
  LET l == c.labels
      yes == Stmt(Unless(Expr(new_label(c, 2), s.e), l), s.a, break, cont)
  IN emit_label(Stmt(emit_label(emit_jmp_label(yes, l + 1), l), s.b, break, cont), l + 1)

While(c, s) ==
  LET l == c.labels
      tested == Unless(Expr(emit_label(new_label(c, 2), l), s.e), l + 1)
  IN emit_label(emit_jmp_label(Stmt(tested, s.a, l + 1, l), l), l + 1)

ExprList(c, es) == FoldLeft(LAMBDA d, e : IF d.dead THEN d ELSE free_regs_to(Expr(d, e), 0), c, es)

ForTest(c, e, end) == IF e.k = "none" THEN c ELSE Unless(Expr(c, e), end)

\* for: the body is written behind the increment, and four labels from l on
\* tie them: the condition, the body, the increment, the end.
ForHead(c, s, l) ==
  ForTest(emit_label(ExprList(FoldLeft(Declaration, new_label(c, 4), s.decls), s.init), l), s.e, l + 3)
ForStep(c, s, l) == emit_jmp_label(ExprList(emit_label(emit_jmp_label(c, l + 1), l + 2), s.step), l)
ForBody(c, s, l) == emit_jmp_label(Stmt(emit_label(c, l + 1), s.a, l + 3, l + 2), l + 2)
For(c, s) ==
  LET l == c.labels
  IN sym_restore(emit_label(ForBody(ForStep(ForHead(c, s, l), s, l), s, l), l + 3), Len(c.syms))

Leave(c, label) == IF label = NoLabel THEN die(c) ELSE emit_jmp_label(c, label)

\* Of a label the statement behind it is left, of a goto nothing.
Goto0(c) == c
Labelled(c, s, break, cont) == Stmt(c, s.a, break, cont)
Evaluated(c, e) == free_regs_to(Expr(c, e), 0)

\* Every statement starts with no temporary in use.
Stmt(d, s, break, cont) ==
  LET c == free_regs_to(d, 0)
  IN CASE s.k = "skip" -> c
       [] s.k = "block" -> Block(c, s.body, break, cont)
       [] s.k = "decl" -> Declaration(c, s)
       [] s.k = "return" -> Return(c, s)
       [] s.k = "if" -> If(c, s, break, cont)
       [] s.k = "switch" -> Switch(c, s, cont)
       [] s.k = "while" -> While(c, s)
       [] s.k = "for" -> For(c, s)
       [] s.k = "break" -> Leave(c, break)
       [] s.k = "continue" -> Leave(c, cont)
       [] s.k = "goto" -> Goto0(c)
       [] s.k = "label" -> Labelled(c, s, break, cont)
       [] s.k = "expr" -> Evaluated(c, s.e)

-----------------------------------------------------------------------------
(* Functions *)

AddFunc(c, f) == AddSym(c, [NoSym EXCEPT !.x = f.x, !.func = TRUE])

\* A parameter that is an array is a pointer; of a structure, the pointer to
\* it is forgotten.
AddParam(c, p, j) ==
  LET st == current_type(c, p.type)
  IN AddSym(parse_array_dimensions(c, p.type.dims, TRUE),
            [NoSym EXCEPT !.x = p.x, !.global = FALSE, !.off = 1 + j, !.ptr = p.type.dims # <<>>, !.st = st,
                          !.words = IF st # "" THEN WordsOfStruct(c, st) ELSE 1])

FrameTotal(n) == 2 + n + FrameLocals

Prologue(f, n) ==
  <<Label(f.x)>> \o MoveStack(-FrameTotal(n))
  \o <<Ins("STORE", REG_RA, REG_SP, 0, 0), Ins("STORE", REG_FP, REG_SP, 0, 1), Ins("ADD", REG_FP, REG_SP, 0, 0)>>
  \o [j \in 1..(IF n < MAX_ARG_REGS THEN n ELSE MAX_ARG_REGS) |-> Ins("STORE", j, REG_FP, 0, 1 + j)]

Epilogue(f, n) ==
  <<Ins("LOAD", REG_RA, REG_FP, 0, 0), Ins("LOAD", REG_FP, REG_FP, 0, 1)>> \o MoveStack(FrameTotal(n))
  \o <<IF f.x = "main" THEN Ins("HALT", 0, 0, 0, 0) ELSE Ins("JALR", 0, REG_RA, 0, 0)>>

\* parse_func: parameters are declared before the mark and so stay in the
\* table when the function ends; a prototype has no body and no parameters.
WithParams(c, f) == FoldLeft(LAMBDA d, j : AddParam(d, f.params[j], j), AddFunc(c, f), [j \in DOMAIN f.params |-> j])
FunctionBody(c, f) ==
  sym_restore(emit(emit_label(Stmts(emit(c, Prologue(f, c.nparams)), f.body, NoLabel, NoLabel), c.end),
                   Epilogue(f, c.nparams)),
              Len(c.syms))
Function(c, f) ==
  LET start == [new_label(c, 1) EXCEPT !.nparams = Len(f.params), !.nlocals = 0, !.top = 0, !.end = c.labels]
  IN IF f.proto THEN AddFunc(start, f) ELSE FunctionBody(WithParams(start, f), f)

-----------------------------------------------------------------------------
(* Constant expressions, global data, the program *)

\* parse_const_expr; a name that is no constant is 0.
RECURSIVE ConstValue(_, _)
ConstValue(c, e) ==
  CASE e.k = "num" -> e.n
    [] e.k = "var" -> IF IsNumeric(c, e.x) THEN NumberOf(c, e.x) ELSE 0
    [] e.k = "sizet" -> current_type_words(c, e.type) * Times(Dimensions(e.type.dims))
    [] e.k = "un" -> IF e.op = "-" THEN -ConstValue(c, e.e) ELSE -1 - ConstValue(c, e.e)
    [] e.k = "bin" -> ConstOp(e.op, ConstValue(c, e.l), ConstValue(c, e.r))

\* One word of an initialiser: the name of a global or a string for a
\* pointer, else a constant.
InitWord(c, t, e) ==
  CASE e.k = "addr" -> Named("WORD", 0, 0, 0, e.e.x)
    [] e.k = "var" /\ t.ptr /\ ~IsNumeric(c, e.x) -> Named("WORD", 0, 0, 0, e.x)
    [] e.k = "str" -> Named("WORD", 0, 0, 0, StringLabel(StringIndex(c, e.text)))
    [] OTHER -> Directive("WORD", ConstValue(c, e))

\* A name that stands for a text is read as this text.
AsRead(c, e) ==
  IF e.k = "var" /\ IsText(c.macros, e.x) THEN [k |-> "str", text |-> macro_string_value(c.macros, e.x)] ELSE e
WithStrings(c, inits) == FoldLeft(LAMBDA d, e : IF e.k = "str" THEN string_add(d, e.text) ELSE d, c, inits)

IsCharText(d) == d.inits # <<>> /\ d.inits[1].k = "str" /\ ~d.type.ptr
Words0(c, text) == [j \in DOMAIN text |-> Directive("WORD", text[j])] \o <<Directive("WORD", 0)>>

global_add(c, x, words, data) ==
  IF Len(data) > words THEN die(c) ELSE [c EXCEPT !.globals = Append(@, [x |-> x, words |-> words, data |-> data])]
sym_add_global(c, x, t) ==
  LET dims == Dimensions(t.dims)
  IN AddSym(c, [NoSym EXCEPT !.x = x, !.words = current_type_words(c, t), !.ptr = t.ptr, !.dims = dims,
                             !.len = Times(dims), !.st = current_type(c, t)])

\* parse_global_decl
GlobalDecl(c, written) ==
  LET d == [written EXCEPT !.inits = [j \in DOMAIN @ |-> AsRead(c, @[j])]]
      sized == parse_array_dimensions(c, d.type.dims, TRUE)
      known == IF IsCharText(d) THEN sized ELSE WithStrings(sized, d.inits)
      data == IF IsCharText(d) THEN Words0(c, d.inits[1].text)
              ELSE [j \in DOMAIN d.inits |-> InitWord(known, d.type, d.inits[j])]
      words == IF IsCharText(d) /\ d.type.dims = <<>> THEN Len(data)
               ELSE current_type_words(c, d.type) * Times(Dimensions(d.type.dims))
  IN sym_add_global(global_add(known, d.x, words, data), d.x, d.type)

\* emit_globals: of declarations of the same name the last one is written,
\* and what has no initialiser is zero.
IsZero(l) == l.op = "WORD" /\ l.t = "" /\ l.i = 0
\* A line stands for a word, or for all zeros up to the next line.
GlobalLines(g) ==
  LET word(j) == IF j <= Len(g.data) THEN g.data[j] ELSE Directive("WORD", 0)
      begins(j) == j = 1 \/ ~IsZero(word(j)) \/ ~IsZero(word(j - 1))
      first == SelectSeq([j \in 1..g.words |-> j], begins)
      next(k) == IF k < Len(first) THEN first[k + 1] ELSE g.words + 1
      line(k) == IF IsZero(word(first[k])) THEN Directive("ZERO", next(k) - first[k]) ELSE word(first[k])
  IN <<Label(g.x)>> \o [k \in DOMAIN first |-> line(k)]
IsLast(globals, j) == \A k \in (j + 1)..Len(globals) : globals[k].x # globals[j].x

emit_globals(c) ==
  LET step(d, j) == IF IsLast(c.globals, j) THEN emit(d, GlobalLines(c.globals[j])) ELSE d
      text(d, j) == emit(d, <<Label(StringLabel(j))>> \o Words0(c, c.strings[j]))
  IN FoldLeft(text, FoldLeft(step, c, [j \in DOMAIN c.globals |-> j]), [j \in DOMAIN c.strings |-> j])

\* parse_enum_specifier: an enumerator without a value is one more than the
\* one before it.
EnumDecl(c, d) ==
  LET step(st, e) ==
        LET v == IF e.e.k = "none" THEN st.next ELSE ConstValue(st.c, e.e)
        IN [c |-> [st.c EXCEPT !.enums = (e.x :> v) @@ @], next |-> v + 1]
  IN FoldLeft(step, [c |-> c, next |-> 0], d.members).c

Definition(c, d) ==
  CASE d.k = "func" -> Function(c, d)
    [] d.k = "global" -> GlobalDecl(c, d)
    [] d.k = "struct" -> StructDecl(c, d)
    [] d.k = "enum" -> EnumDecl(c, d)
    [] d.k = "typedef" -> TypedefDecl(c, d)

\* parse_program and main: the entry sets up the stack and jumps to main.
Entry(macros) ==
  emit([Fresh EXCEPT !.macros = macros], <<Ins("LI", REG_SP, 0, 0, StackTop), Named("JMP", 0, 0, 0, "main")>>)
HasMain(program) == \E j \in DOMAIN program : program[j].k = "func" /\ program[j].x = "main"
Compiled(c, program) ==
  IF c.dead \/ ~HasMain(program) THEN Refused ELSE emit_globals(emit_missing_labels(c)).out
=============================================================================
