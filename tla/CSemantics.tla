----------------------------- MODULE CSemantics -----------------------------
(***************************************************************************)
(* What a program of the C subset that src/compiler/cc.c lists at its head *)
(* computes, by the rules of C: the reference for the compiler.  It runs   *)
(* the trees of Compiler on a memory of cells, knows the types of all      *)
(* expressions, and has neither registers nor frames nor labels.           *)
(***************************************************************************)
EXTENDS Integers, Sequences, SequencesExt, TLC, Bitwise

CONSTANT Modulus        \* integers are kept modulo this

Integer == [k |-> "int"]
Pointer(t) == [k |-> "ptr", of |-> t]
Array(n, t) == [k |-> "arr", n |-> n, of |-> t]
Struct(st) == [k |-> "struct", st |-> st]

Mod(v) == v % Modulus
Signed(v) == IF v < Modulus \div 2 THEN v ELSE v - Modulus
Truth(p) == IF p THEN 1 ELSE 0

\* The type that a declaration [words, st, name, ptr, dims] gives.
TheTypedef(p, x) == p[SelectLastInSeq(p, LAMBDA d : d.k = "typedef" /\ d.x = x)]
RECURSIVE ArrayOf(_, _), Declared(_, _)
ArrayOf(dims, t) == IF dims = <<>> THEN t ELSE Array(Head(dims), ArrayOf(Tail(dims), t))
Declared(p, d) ==
  LET base == IF d.name # "" THEN Declared(p, TheTypedef(p, d.name).type)
              ELSE IF d.st = "" THEN Integer ELSE Struct(d.st)
  IN ArrayOf(d.dims, IF d.ptr THEN Pointer(base) ELSE base)

\* The declaration of a structure in a program.
TheStruct(p, st) == p[SelectInSeq(p, LAMBDA d : d.k = "struct" /\ d.x = st)]
TheFunction(p, f) == p[SelectLastInSeq(p, LAMBDA d : d.k = "func" /\ d.x = f /\ ~d.proto)]
FunctionBase == 20000
FunctionAt(p, v) == p[v - FunctionBase]
AddressOfFunction(p, f) == FunctionBase + SelectLastInSeq(p, LAMBDA d : d.k = "func" /\ d.x = f /\ ~d.proto)

RECURSIVE Size(_, _)
Widest(S) == CHOOSE n \in S : \A m \in S : m <= n
Size(p, t) ==
  CASE t.k \in {"int", "ptr"} -> 1
    [] t.k = "arr" -> t.n * Size(p, t.of)
    [] t.k = "struct" ->
         LET d == TheStruct(p, t.st)
             sizes == [j \in DOMAIN d.members |-> Size(p, Declared(p, d.members[j].type))]
         IN IF d.union THEN Widest({sizes[j] : j \in DOMAIN sizes}) ELSE FoldLeft(+, 0, sizes)

\* Where a field is and what it is; members without a name are looked into.
RECURSIVE Fields(_, _)
Fields(p, st) ==
  LET d == TheStruct(p, st)
      before(j) == IF d.union THEN 0
                   ELSE FoldLeft(+, 0, [i \in 1..(j - 1) |-> Size(p, Declared(p, d.members[i].type))])
      own(j) == LET m == d.members[j]
                IN IF m.x # "" THEN {[x |-> m.x, off |-> before(j), t |-> Declared(p, m.type)]}
                   ELSE {[f EXCEPT !.off = @ + before(j)] : f \in Fields(p, Declared(p, m.type).st)}
  IN UNION {own(j) : j \in DOMAIN d.members}
FieldIn(p, st, x) == CHOOSE f \in Fields(p, st) : f.x = x

-----------------------------------------------------------------------------
(* A state m: the cells of memory, what control does next, the value       *)
(* returned.  The environment e: the program, and where its names are.     *)

Value(m, v, t) == [m |-> m, v |-> v, at |-> 0, t |-> t]

\* An object: an array stands for the address of its first element.
Object(m, at, t) ==
  CASE t.k = "arr" -> [m |-> m, v |-> at, at |-> at, t |-> t]
    [] t.k = "struct" -> [m |-> m, v |-> at, at |-> at, t |-> t]
    [] OTHER -> [m |-> m, v |-> m.cells[at], at |-> at, t |-> t]

Room(m, n) == [m EXCEPT !.cells = @ \o [j \in 1..n |-> 0]]
Store(m, at, v) == [m EXCEPT !.cells[at] = v]
Allocated(e, m, x, t) ==
  [e |-> [e EXCEPT !.at = (x :> [at |-> Len(m.cells) + 1, t |-> t]) @@ @], m |-> Room(m, Size(e.p, t))]

Operation(op, x, y) ==
  CASE op = "+" -> Mod(x + y) [] op = "-" -> Mod(x - y) [] op = "*" -> Mod(Signed(x) * Signed(y))
    [] op = "/" -> LET a == Signed(x) b == Signed(y)
                       q == (IF a < 0 THEN -a ELSE a) \div (IF b < 0 THEN -b ELSE b)
                   IN Mod(IF (a < 0) = (b < 0) THEN q ELSE -q)
    [] op = "%" -> LET a == Signed(x) b == Signed(y)
                       r == (IF a < 0 THEN -a ELSE a) % (IF b < 0 THEN -b ELSE b)
                   IN Mod(IF a < 0 THEN -r ELSE r)
    [] op = "<<" -> Mod(x * 2^y) [] op = ">>" -> x \div 2^y
    [] op = "==" -> Truth(x = y) [] op = "!=" -> Truth(x # y)
    [] op = "<" -> Truth(Signed(x) < Signed(y)) [] op = "<=" -> Truth(Signed(x) <= Signed(y))
    [] op = ">" -> Truth(Signed(x) > Signed(y)) [] op = ">=" -> Truth(Signed(x) >= Signed(y))
    [] op = "&" -> x & y [] op = "^" -> x ^^ y [] op = "|" -> x | y

\* The operator of a compound assignment.
Plain(op) ==
  CASE op = "+=" -> "+" [] op = "-=" -> "-" [] op = "*=" -> "*" [] op = "/=" -> "/" [] op = "&=" -> "&"
    [] op = "|=" -> "|" [] op = "^=" -> "^" [] op = "<<=" -> "<<" [] op = ">>=" -> ">>"

IsAddress(t) == t.k \in {"ptr", "arr"}
Pointee(t) == t.of

-----------------------------------------------------------------------------
(* Expressions *)

RECURSIVE Ev(_, _, _), Do(_, _), Apply(_, _, _, _)

\* Sums with a pointer count in objects.
Binary(e, op, a, b) ==
  IF op \in {"+", "-"} /\ IsAddress(a.t)
  THEN Value(b.m, Operation(op, a.v, Mod(b.v * Size(e.p, Pointee(a.t)))), Pointer(Pointee(a.t)))
  ELSE Value(b.m, Operation(op, a.v, b.v), Integer)
BinaryOf(e, x, a) == Binary(e, x.op, a, Ev(e, a.m, x.r))

Decided(b) == Value(b.m, Truth(b.v # 0), Integer)
Shortcut(e, x, a) ==
  IF (x.op = "&&") = (a.v = 0) THEN Value(a.m, Truth(x.op = "||"), Integer) ELSE Decided(Ev(e, a.m, x.r))

Kept(m, a, new, v) == Value(Store(m, a.at, new), v, a.t)
Assigned(e, op, a, b) ==
  LET new == IF op = "=" THEN b.v ELSE Binary(e, Plain(op), Object(b.m, a.at, a.t), b).v
  IN Kept(b.m, a, new, new)
Assign(e, x, a) == Assigned(e, x.op, a, Ev(e, a.m, x.r))

Step(e, x, a) ==
  LET one == IF IsAddress(a.t) THEN Size(e.p, Pointee(a.t)) ELSE 1
      new == Operation(IF x.op = "++" THEN "+" ELSE "-", a.v, one)
  IN Kept(a.m, a, new, IF x.k = "post" THEN a.v ELSE new)

Unary(op, a) ==
  Value(a.m, CASE op = "-" -> Mod(-a.v) [] op = "!" -> Truth(a.v = 0) [] op = "~" -> Mod(-1 - a.v), Integer)

Element(e, a, i) == Object(i.m, a.v + Signed(i.v) * Size(e.p, Pointee(a.t)), Pointee(a.t))
IndexOf(e, x, a) == Element(e, a, Ev(e, a.m, x.i))
FieldOf(a, f) == Object(a.m, a.v + f.off, f.t)
Member(e, x, a) == FieldOf(a, FieldIn(e.p, IF x.dot THEN a.t.st ELSE Pointee(a.t).st, x.f))
Address(a) == Value(a.m, a.at, Pointer(a.t))
Target(a) == Object(a.m, a.v, Pointee(a.t))

\* A string is an array of its own; a compound literal too.
Fresh(m, values) == [m EXCEPT !.cells = @ \o values]
Filled(m, vs, size, st) ==
  Object(Fresh(m, [j \in 1..size |-> IF j \in DOMAIN vs THEN vs[j] ELSE 0]), Len(m.cells) + 1, Struct(st))

Argument(a, vs) == [m |-> a.m, vs |-> Append(vs, a.v)]
Args(e, m, xs) == FoldLeft(LAMBDA st, x : Argument(Ev(e, st.m, x), st.vs), [m |-> m, vs |-> <<>>], xs)
Run(e, f, a) == Apply(e, a.m, f, a.vs)
RunValue(e, x, f) == Run(e, FunctionAt(e.p, f.v), Args(e, f.m, x.args))

Variable(e, m, x) ==
  IF x \in DOMAIN e.consts THEN Value(m, e.consts[x], Integer)
  ELSE IF x \in DOMAIN e.at THEN Object(m, e.at[x].at, e.at[x].t) ELSE Value(m, AddressOfFunction(e.p, x), Integer)

\* A name that stands for a text is replaced by it.
Spelled(texts, x) == IF x.k = "var" /\ x.x \in DOMAIN texts THEN [k |-> "str", text |-> texts[x.x]] ELSE x

NamesFunction(e, x) == x.k = "var" /\ x.x \notin DOMAIN e.at
Choose(e, x, c) == Ev(e, c.m, IF c.v # 0 THEN x.a ELSE x.b)

Ev(e, m, x) ==
  CASE x.k = "num" -> Value(m, Mod(x.n), Integer)
    [] x.k = "str" -> Value(Fresh(m, Append(x.text, 0)), Len(m.cells) + 1, Pointer(Integer))
    [] x.k = "var" -> IF x.x \in DOMAIN e.texts THEN Ev(e, m, Spelled(e.texts, x)) ELSE Variable(e, m, x.x)
    [] x.k = "call" -> Run(e, TheFunction(e.p, x.f), Args(e, m, x.args))
    [] x.k = "callv" -> RunValue(e, x, Ev(e, m, x.e))
    [] x.k = "index" -> IndexOf(e, x, Ev(e, m, x.a))
    [] x.k = "field" -> Member(e, x, Ev(e, m, x.e))
    [] x.k \in {"post", "pre"} -> Step(e, x, Ev(e, m, x.e))
    [] x.k = "un" -> Unary(x.op, Ev(e, m, x.e))
    [] x.k = "deref" -> Target(Ev(e, m, x.e))
    [] x.k = "addr" -> IF NamesFunction(e, x.e) THEN Ev(e, m, x.e) ELSE Address(Ev(e, m, x.e))
    [] x.k = "sizeof" -> Value(m, Size(e.p, Ev(e, m, x.e).t), Integer)
    [] x.k = "sizet" -> Value(m, Size(e.p, Declared(e.p, x.type)), Integer)
    [] x.k = "bin" /\ x.op \in {"&&", "||"} -> Shortcut(e, x, Ev(e, m, x.l))
    [] x.k = "bin" /\ x.op \notin {"&&", "||"} -> BinaryOf(e, x, Ev(e, m, x.l))
    [] x.k = "cond" -> Choose(e, x, Ev(e, m, x.c))
    [] x.k = "set" -> Assign(e, x, Ev(e, m, x.l))
    [] x.k = "cast" -> LET a == Ev(e, m, x.e) IN Value(a.m, a.v, Integer)
    [] x.k = "obj" ->
         LET a == Args(e, m, x.inits) IN Filled(a.m, a.vs, Size(e.p, Struct(x.st)), x.st)

-----------------------------------------------------------------------------
(* Statements: Do(st, s) for st = [e, m].  m.next says where control goes. *)

Going(m) == m.next = "on"
In(st, m) == [st EXCEPT !.m = m]
Sequence(st, body) == FoldLeft(LAMBDA a, s : IF Going(a.m) THEN Do(a, s) ELSE a, st, body)
StoreValue(a, at) == Store(a.m, at, a.v)
Initialised(st, x, inits) ==
  In(st, FoldLeft(LAMBDA m, j : StoreValue(Ev(st.e, m, inits[j]), st.e.at[x].at + j - 1), st.m,
                  [j \in DOMAIN inits |-> j]))
\* An array without a bound is as long as its initialiser.
IsText(d) == d.inits # <<>> /\ d.inits[1].k = "str" /\ ~d.type.ptr
Length(p, d) ==
  IF IsText(d) THEN Len(d.inits[1].text) + 1
  ELSE Len(d.inits) \div Size(p, Declared(p, [d.type EXCEPT !.dims = Tail(@)]))
TypeOf(p, d) ==
  Declared(p, IF d.type.dims # <<>> /\ Head(d.type.dims) = 0 THEN [d.type EXCEPT !.dims[1] = Length(p, d)] ELSE d.type)
Declare(st, s) == Initialised(Allocated(st.e, st.m, s.x, TypeOf(st.e.p, s)), s.x, s.inits)
All(st, xs) == In(st, FoldLeft(LAMBDA m, x : Ev(st.e, m, x).m, st.m, xs))

\* A loop with its condition (or none), its step and its body.
RECURSIVE Loop(_, _, _, _)
Again(ran, st, cond, step, body) ==
  LET after == In(st, [ran.m EXCEPT !.next = IF @ = "return" THEN @ ELSE "on"])
  IN IF ran.m.next \in {"break", "return"} THEN after ELSE Loop(All(after, step), cond, step, body)
Tested(c, st, cond, step, body) ==
  IF c.v = 0 THEN In(st, c.m) ELSE Again(Do(In(st, c.m), body), st, cond, step, body)
Loop(st, cond, step, body) ==
  Tested(IF cond.k = "none" THEN Value(st.m, 1, Integer) ELSE Ev(st.e, st.m, cond), st, cond, step, body)

Return(st, a) ==
  In(st, [a.m EXCEPT !.next = "return", !.value = IF a.vs = <<>> THEN 0 ELSE Last(a.vs)])
If(st, s, c) == Do(In(st, c.m), IF c.v # 0 THEN s.a ELSE s.b)

\* All programs here have their labels right behind the goto; casts are to
\* integers as wide as a word.
Do(st, s) ==
  CASE s.k \in {"skip", "goto"} -> st
    [] s.k = "label" -> Do(st, s.a)
    [] s.k = "block" -> In(st, Sequence(st, s.body).m)
    [] s.k = "decl" -> Declare(st, s)
    [] s.k = "expr" -> All(st, <<s.e>>)
    [] s.k = "return" -> Return(st, Args(st.e, st.m, s.es))
    [] s.k = "if" -> In(st, If(st, s, Ev(st.e, st.m, s.e)).m)
    [] s.k = "while" -> Loop(st, s.e, <<>>, s.a)
    [] s.k = "for" -> In(st, Loop(All(FoldLeft(Declare, st, s.decls), s.init), s.e, s.step, s.a).m)
    [] s.k \in {"break", "continue"} -> In(st, [st.m EXCEPT !.next = s.k])

-----------------------------------------------------------------------------
(* Calls and programs *)

\* A parameter that is an array is a pointer.
ParameterType(p, t) ==
  IF t.dims = <<>> THEN Declared(p, t) ELSE Pointer(Declared(p, [t EXCEPT !.dims = Tail(@)]))

Bound(st, f, v, j) ==
  LET a == Allocated(st.e, st.m, f.params[j].x, ParameterType(st.e.p, f.params[j].type))
  IN In(a, Store(a.m, a.e.at[f.params[j].x].at, v))
Entered(e, m, f, vs) ==
  FoldLeft(LAMBDA st, j : Bound(st, f, vs[j], j), [e |-> [e EXCEPT !.at = e.globals], m |-> m],
           [j \in DOMAIN f.params |-> j])
Back(m) == Value([m EXCEPT !.next = "on"], m.value, Integer)
Apply(e, m, f, vs) == Back(Sequence(Entered(e, m, f, vs), f.body).m)

TypeOfGlobal(p, d) == IF IsText(d) /\ d.type.dims = <<>> THEN Array(Length(p, d), Integer) ELSE TypeOf(p, d)

Global(st, written) ==
  LET d == [written EXCEPT !.inits = [j \in DOMAIN @ |-> Spelled(st.e.texts, @[j])]]
      a == Allocated(st.e, st.m, d.x, TypeOfGlobal(st.e.p, d))
      b == [a EXCEPT !.e.globals = a.e.at]
      text == d.inits[1].text
  IN IF IsText(d)
     THEN In(b, FoldLeft(LAMBDA m, j : Store(m, b.e.at[d.x].at + j - 1, text[j]), b.m, [j \in DOMAIN text |-> j]))
     ELSE Initialised(b, d.x, d.inits)

\* The numbers that names stand for: those of macros, and enumerators.
NoProgram(consts) == [p |-> <<>>, at |-> <<>>, consts |-> consts, texts |-> <<>>]
Counted(st, x, v) == [consts |-> (x :> v) @@ st.consts, next |-> Mod(v + 1)]
Enumerators(known, d) ==
  FoldLeft(LAMBDA st, e : Counted(st, e.x, IF e.e.k = "none" THEN st.next ELSE Ev(NoProgram(st.consts), 0, e.e).v),
           [consts |-> known, next |-> 0], d.members).consts

\* The result of main, and what its names stand for when it has returned.
Started(p, macros, texts) ==
  [e |-> [p |-> p, at |-> [x \in {} |-> 0], globals |-> [x \in {} |-> 0],
          texts |-> texts,
          consts |-> FoldLeft(Enumerators, macros, SelectSeq(p, LAMBDA d : d.k = "enum"))],
   m |-> [cells |-> <<>>, next |-> "on", value |-> 0]]
Ended(e, run) ==
  [value |-> run.v,
   globals |-> [x \in DOMAIN e.globals |->
                  LET g == e.globals[x]
                  IN [t |-> g.t, cells |-> SubSeq(run.m.cells, g.at, g.at + Size(e.p, g.t) - 1)]]]
MainOf(st) == Ended(st.e, Apply(st.e, st.m, TheFunction(st.e.p, "main"), <<>>))
Outcome(p, macros, texts) ==
  MainOf(FoldLeft(Global, Started(p, macros, texts), SelectSeq(p, LAMBDA d : d.k = "global")))

-----------------------------------------------------------------------------
(* The preprocessor's language, by the structure of its blocks *)

Opens(l) == l.k \in {"ifdef", "ifndef", "if"}
Depth(lines, j) == Cardinality({i \in 1..j : Opens(lines[i])}) - Cardinality({i \in 1..j : lines[i].k = "endif"})
First(S) == CHOOSE j \in S : \A i \in S : j <= i
\* Of a block that begins on the first line.
EndOf(lines) == First({j \in DOMAIN lines : Depth(lines, j) = 0})
ElseOf(lines) == First({EndOf(lines)} \cup {j \in 1..EndOf(lines) : lines[j].k = "else" /\ Depth(lines, j) = 1})

Holds(macros, l) ==
  CASE l.k = "ifdef" -> l.x \in DOMAIN macros
    [] l.k = "ifndef" -> l.x \notin DOMAIN macros
    [] l.k = "if" -> l.neg # (IF l.test = "defined" THEN l.x \in DOMAIN macros ELSE l.test = "number" /\ l.n # 0)

RECURSIVE Reading(_, _, _)
Reading(st, files, lines) ==
  IF lines = <<>> THEN st
  ELSE LET l == Head(lines)
           on(new) == Reading(new, files, Tail(lines))
           block == IF Holds(st.macros, l) THEN SubSeq(lines, 2, ElseOf(lines) - 1)
                    ELSE SubSeq(lines, ElseOf(lines) + 1, EndOf(lines) - 1)
       IN CASE l.k = "text" -> on([st EXCEPT !.defs = Append(@, l.d)])
            [] l.k = "define" -> on([st EXCEPT !.macros = (l.x :> l.text) @@ @])
            [] l.k = "include" -> on(Reading(st, files, files[l.f]))
            [] Opens(l) -> Reading(Reading(st, files, block), files, SubSeq(lines, EndOf(lines) + 1, Len(lines)))
            [] OTHER -> on(st)
\* A project: the files to be read one after the other, and all there are.
Translated(project) ==
  FoldLeft(LAMBDA st, f : Reading(st, project.files, project.files[f]),
           [defs |-> <<>>, macros |-> [x \in {} |-> <<>>]], project.inputs)

\* The number that tokens are for C once all macros in them are replaced.
RECURSIVE Replaced(_, _), Number(_)
Replaced(macros, text) ==
  LET one(t) == IF t.k = "name" /\ t.x \in DOMAIN macros THEN Replaced(macros, macros[t.x]) ELSE <<t>>
  IN FoldLeft(LAMBDA s, t : s \o one(t), <<>>, text)

Precedences == <<{"|"}, {"^"}, {"&"}, {"<<", ">>"}, {"+", "-"}, {"*", "/"}>>
Paren(text, j) == Cardinality({i \in 1..j : text[i].x = "("}) - Cardinality({i \in 1..j : text[i].x = ")"})
\* Where an operator stands between two operands and outside parentheses.
Splits(text, ops) ==
  {j \in 2..Len(text) : text[j].x \in ops /\ Paren(text, j) = 0 /\ (text[j - 1].k = "num" \/ text[j - 1].x = ")")}
Number(text) ==
  LET weakest == {k \in DOMAIN Precedences : Splits(text, Precedences[k]) # {}}
      j == Widest(Splits(text, Precedences[First(weakest)]))
  IN CASE weakest # {} ->
            Operation(text[j].x, Number(SubSeq(text, 1, j - 1)), Number(SubSeq(text, j + 1, Len(text))))
       [] weakest = {} /\ text[1].k = "num" -> Mod(text[1].n)
       [] weakest = {} /\ text[1].k = "name" -> Number(Tail(text))
       [] weakest = {} /\ text[1].x = "(" -> Number(SubSeq(text, 2, Len(text) - 1))
       [] weakest = {} /\ text[1].x = "-" -> Mod(-Number(Tail(text)))
       [] weakest = {} /\ text[1].x = "+" -> Number(Tail(text))

\* A text of nothing but operators: each is as long as it can be.  C's %= and
\* its digraphs are not in the subset.
Signs == {"+", "-", "*", "/", "%", "&", "|", "^", "~", "<", ">", "=", "!", "(", ")", "{", "}", "[", "]", ".", ";", ",", "?",
          ":", "++", "--", "->", "<<", ">>", "<=", ">=", "==", "!=", "&&", "||", "+=", "-=", "*=", "/=", "&=", "|=", "^=",
          "<<=", ">>="}
RECURSIVE Munched(_)
Munched(text) ==
  IF text = "" THEN <<>>
  ELSE LET n == Widest({l \in 1..3 : l <= Len(text) /\ SubSeq(text, 1, l) \in Signs})
       IN <<<<"sign", SubSeq(text, 1, n)>>>> \o Munched(SubSeq(text, n + 1, Len(text)))
=============================================================================
