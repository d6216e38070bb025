---------------------------- MODULE MCToolchain ----------------------------
(* Programs for the chain: features of the compiler one by one, and all    *)
(* expressions of two operators.                                           *)
EXTENDS Toolchain

\* Trees
Num(n) == [k |-> "num", n |-> n]
Var(x) == [k |-> "var", x |-> x]
Bin(op, l, r) == [k |-> "bin", op |-> op, l |-> l, r |-> r]
Un(op, e) == [k |-> "un", op |-> op, e |-> e]
Call1(f, args) == [k |-> "call", f |-> f, args |-> args]
At(a, i) == [k |-> "index", a |-> a, i |-> i]
Dot(e, f) == [k |-> "field", e |-> e, f |-> f, dot |-> TRUE]
Arrow(e, f) == [k |-> "field", e |-> e, f |-> f, dot |-> FALSE]
Deref(e) == [k |-> "deref", e |-> e]
Addr(e) == [k |-> "addr", e |-> e]
Post(op, e) == [k |-> "post", op |-> op, e |-> e]
Pre(op, e) == [k |-> "pre", op |-> op, e |-> e]
SetTo(op, l, r) == [k |-> "set", op |-> op, l |-> l, r |-> r]
Cond(c, a, b) == [k |-> "cond", c |-> c, a |-> a, b |-> b]
None == [k |-> "none"]

Do1(e) == [k |-> "expr", e |-> e]
Decl(x, t, inits) == [k |-> "decl", x |-> x, type |-> t, inits |-> inits]
Ret(e) == [k |-> "return", es |-> <<e>>]
IfElse(e, a, b) == [k |-> "if", e |-> e, a |-> a, b |-> b]
Skip == [k |-> "skip"]
Body(body) == [k |-> "block", body |-> body]
WhileDo(e, a) == [k |-> "while", e |-> e, a |-> a]
ForDo(decls, init, e, step, a) == [k |-> "for", decls |-> decls, init |-> init, e |-> e, step |-> step, a |-> a]
Break == [k |-> "break"]
Continue == [k |-> "continue"]

IntT == Type(1, FALSE, "", <<>>)
PtrT == Type(1, TRUE, "", <<>>)
ArrT(dims) == Type(1, FALSE, "", dims)
StT(st) == Type(1, FALSE, st, <<>>)
PtrSt(st) == Type(1, TRUE, st, <<>>)
Alias0(x) == [IntT EXCEPT !.name = x]
Typedef(x, t) == [k |-> "typedef", x |-> x, type |-> t]
Param(x, t) == [x |-> x, type |-> t]
Func(x, params, body) == [k |-> "func", x |-> x, params |-> params, body |-> body, proto |-> FALSE]
Glob(x, t, inits) == [k |-> "global", x |-> x, type |-> t, inits |-> inits]
StructDef(x, members) == [k |-> "struct", x |-> x, members |-> members, union |-> FALSE]
UnionDef(x, members) == [k |-> "struct", x |-> x, members |-> members, union |-> TRUE]

a == Var("a")
b == Var("b")
i == Var("i")
j == Var("j")
t == Var("t")
p == Var("p")
q == Var("q")
n == Var("n")
g == Var("g")
v == Var("v")

\* int f(int n) { if (n < 2) return 1; return n * f(n - 1); }
Factorial ==
  <<Func("f", <<Param("n", IntT)>>,
         <<IfElse(Bin("<", n, Num(2)), Ret(Num(1)), Skip),
           Ret(Bin("*", n, Call1("f", <<Bin("-", n, Num(1))>>)))>>),
    Func("main", <<>>, <<Ret(Call1("f", <<Num(5)>>))>>)>>

\* Bubble sort of a global array, with continue and break.
Sorting ==
  LET order == IfElse(Bin("<=", At(v, j), At(v, Bin("+", j, Num(1)))), Continue, Skip)
      swap == <<SetTo("=", t, At(v, j)), SetTo("=", At(v, j), At(v, Bin("+", j, Num(1)))),
                SetTo("=", At(v, Bin("+", j, Num(1))), t), SetTo("=", g, Num(1))>>
  IN <<Glob("v", ArrT(<<3>>), <<Num(3), Num(1), Num(2)>>), Glob("g", IntT, <<>>),
       Func("main", <<>>,
         <<Decl("t", IntT, <<>>),
           ForDo(<<Decl("i", IntT, <<Num(0)>>)>>, <<>>, Bin("<", i, Num(2)), <<Post("++", i)>>,
             Body(<<Do1(SetTo("=", g, Num(0))),
                    ForDo(<<Decl("j", IntT, <<Num(0)>>)>>, <<>>, Bin("<", j, Bin("-", Num(2), i)), <<Post("++", j)>>,
                      Body(<<order>> \o [k \in DOMAIN swap |-> Do1(swap[k])])),
                    IfElse(Un("!", g), Break, Skip)>>)),
           Ret(At(v, Num(0)))>>)>>

\* Pointers as arguments, element pointers, and a two-dimensional array.
Pointers ==
  <<Func("swap", <<Param("p", PtrT), Param("q", PtrT)>>,
         <<Decl("t", IntT, <<Deref(p)>>), Do1(SetTo("=", Deref(p), Deref(q))), Do1(SetTo("=", Deref(q), t)),
           Ret(t)>>),
    Glob("v", ArrT(<<2, 2>>), <<Num(1), Num(2), Num(3), Num(4)>>), Glob("g", IntT, <<Num(9)>>),
    Func("main", <<>>,
         <<Decl("a", IntT, <<Num(7)>>), Decl("p", PtrT, <<Addr(a)>>),
           Do1(Call1("swap", <<p, Addr(g)>>)),
           Do1(Call1("swap", <<Addr(At(At(v, Num(0)), Num(1))), Addr(At(At(v, Num(1)), Num(0)))>>)),
           Do1(SetTo("+=", Deref(p), Num(20))),
           Do1(SetTo("=", p, Addr(At(At(v, Num(0)), Num(0))))),
           Do1(SetTo("=", At(p, Num(3)), Deref(Pre("++", p)))),
           Ret(a)>>)>>

\* A structure in a structure, members without a name, a union, a pointer.
Structures ==
  <<StructDef("in", <<Param("x", IntT), Param("y", IntT)>>),
    UnionDef("u", <<Param("w", IntT), Param("s", StT("in"))>>),
    StructDef("out", <<Param("k", IntT), Param("s", StT("in")), Param("", StT("u")), Param("z", IntT)>>),
    Glob("g", IntT, <<Num(0)>>),
    Func("main", <<>>,
         <<Decl("a", StT("out"), <<Num(1), Num(2), Num(3), Num(4), Num(5), Num(6)>>),
           Decl("p", PtrSt("out"), <<Addr(a)>>),
           Do1(SetTo("=", Dot(Dot(a, "s"), "y"), Bin("+", Arrow(p, "z"), Arrow(p, "w")))),
           Do1(SetTo("=", g, Bin("*", Arrow(p, "k"), Dot(Dot(a, "s"), "y")))),
           Do1(Post("--", Arrow(p, "z"))),
           Ret(Dot(a, "z"))>>)>>

\* Loops left and gone on with, conditions, and what changes a variable.
Control ==
  <<Glob("g", IntT, <<Num(1)>>),
    Func("main", <<>>,
         <<Decl("a", IntT, <<Num(0)>>), Decl("i", IntT, <<Num(10)>>),
           WhileDo(Num(1),
             Body(<<IfElse(Bin("==", Bin("%", i, Num(3)), Num(0)), Body(<<Do1(Post("--", i)), Continue>>), Skip),
                    IfElse(Bin("<", i, Num(4)), Break, Do1(SetTo("+=", a, Pre("--", i))))>>)),
           Do1(SetTo("*=", g, Cond(Bin("&&", a, Bin(">", a, i)), Bin("-", a, i), Un("-", i)))),
           Do1(SetTo("|=", g, Cond(Bin("||", Un("!", a), Bin("<", a, i)), Num(1), Un("~", Num(-9))))),
           Ret(Bin("-", Post("++", a), i))>>)>>

\* Texts, tables of pointers, sizes, a function called by its address.
Data ==
  <<Glob("s", ArrT(<<3>>), <<[k |-> "str", text |-> <<72, 105>>]>>),
    Glob("a", IntT, <<Bin("+", Num(2), Bin("*", Num(3), Un("-", Num(4))))>>),
    Glob("p", PtrT, <<Addr(a)>>), Glob("v", ArrT(<<4>>), <<Num(0), Num(0), Num(5)>>),
    Func("f", <<Param("n", IntT)>>, <<Ret(Bin("+", n, At(Var("s"), Num(1))))>>),
    Func("main", <<>>,
         <<Decl("q", PtrT, <<Addr(Var("f"))>>), Decl("t", PtrT, <<[k |-> "str", text |-> <<65, 66>>]>>),
           Do1(SetTo("=", At(v, Num(1)), At(t, Num(1)))),
           Do1(SetTo("=", At(v, Num(3)), [k |-> "sizeof", e |-> v])),
           Ret([k |-> "callv", e |-> q, args |-> <<Deref(p)>>])>>)>>

\* g = e for every expression of two operators over a, b and a number.  C
\* says nothing of a division by a comparison that is 0.
Operators == <<"*", "/", "+", "-", "==", "!=", "<", "<=", ">", ">=", "&", "^", "|", "&&", "||">>
PairsOf(ops) ==
  [k \in 1..(Len(ops) * Len(ops)) |-> <<ops[(k - 1) \div Len(ops) + 1], ops[((k - 1) % Len(ops)) + 1]>>]
OfExpression(e) ==
  <<Glob("g", IntT, <<>>),
    Func("main", <<>>, <<Decl("a", IntT, <<Num(-7)>>), Decl("b", IntT, <<Num(2)>>), Do1(SetTo("=", g, e)), Ret(b)>>)>>
OfExpressions ==
  LET pairs == PairsOf(Operators)
      divisible == SelectSeq(pairs, LAMBDA x : x[1] = "/" => x[2] \notin {"==", "<", "<="})
  IN [k \in DOMAIN pairs |-> OfExpression(Bin(pairs[k][1], Bin(pairs[k][2], a, b), Num(3)))]
     \o [k \in DOMAIN divisible |-> OfExpression(Bin(divisible[k][1], a, Bin(divisible[k][2], Num(3), b)))]
     \o [k \in DOMAIN Operators |-> OfExpression(Bin(Operators[k], Bin("%", a, Num(3)), b))]

\* Types with names: of a number, of a structure, of a type with a name; in
\* members, parameters, arrays, pointers and sizes.  An array without a bound.
PairT == Alias0("pair")
Types ==
  <<Typedef("word", IntT), StructDef("in", <<Param("x", Alias0("word")), Param("y", ArrT(<<2>>))>>),
    Typedef("first", StT("in")), Typedef("pair", Alias0("first")), Typedef("ref", PtrT),
    StructDef("out", <<Param("k", PairT), Param("", PairT), Param("z", Alias0("word"))>>),
    Glob("v", [Alias0("word") EXCEPT !.dims = <<0>>], <<Num(4), Num(6), Num(9)>>), Glob("g", Alias0("word"), <<>>),
    Glob("a", [Alias0("word") EXCEPT !.dims = <<2>>], <<[k |-> "sizet", type |-> PairT], Num(1)>>),
    Func("f", <<Param("w", [Alias0("word") EXCEPT !.dims = <<0>>]), Param("n", Alias0("word"))>>, <<Ret(At(Var("w"), n))>>),
    Func("main", <<>>,
         <<Decl("t", [PairT EXCEPT !.dims = <<2>>], <<Num(1), Num(2), Num(3), Num(4), Num(5), Num(8)>>),
           Decl("p", [PairT EXCEPT !.ptr = TRUE], <<Addr(At(t, Num(1)))>>), Decl("q", Alias0("ref"), <<Addr(g)>>),
           Decl("b", StT("out"), <<Num(1), Num(2), Num(3), Num(4), Num(5), Num(6), Num(7)>>),
           Do1(SetTo("=", Deref(q), Bin("+", Bin("*", Dot(b, "z"), Dot(b, "x")), Arrow(p, "x")))),
           Do1(SetTo("=", At(Var("a"), Num(1)), [k |-> "sizet", type |-> [PairT EXCEPT !.dims = <<3>>]])),
           Ret(Bin("+", Call1("f", <<v, Num(2)>>), [k |-> "sizeof", e |-> b]))>>)>>

\* Casts of values and of addresses, whose difference counts words; a goto
\* to the label behind it, in a loop that a label begins.
Casts ==
  LET word(e) == [k |-> "cast", e |-> e]
  IN <<Glob("v", ArrT(<<2, 3>>), <<Num(4)>>), Glob("g", IntT, <<>>),
       Func("main", <<>>,
         <<Decl("a", IntT, <<Num(0)>>), Decl("p", PtrT, <<Addr(At(At(v, Num(1)), Num(2)))>>),
           [k |-> "label", a |-> WhileDo(Bin("<", a, word(Num(3))),
              Body(<<Do1(SetTo("=", g, Bin("-", word(p), word(Addr(At(At(v, Num(0)), a)))))), [k |-> "goto"],
                     [k |-> "label", a |-> Do1(SetTo("=", Deref(p), word(Post("++", a))))]>>))],
           Ret(Bin("+", word(Bin("*", g, Num(8))), word(Deref(p))))>>)>>

\* A project of one file without directives.
Text(d) == [k |-> "text", d |-> d]
Plainly(program) == [inputs |-> <<"main.c">>, files |-> ("main.c" :> [k \in DOMAIN program |-> Text(program[k])])]

-----------------------------------------------------------------------------
(* Sources with directives *)

Ifdef(x) == [k |-> "ifdef", x |-> x]
Ifndef(x) == [k |-> "ifndef", x |-> x]
IfDefined(x, neg) == [k |-> "if", test |-> "defined", x |-> x, neg |-> neg]
IfNumber(number) == [k |-> "if", test |-> "number", n |-> number, neg |-> FALSE]
ElseLine == [k |-> "else"]
EndifLine == [k |-> "endif"]
Define(x, text) == [k |-> "define", x |-> x, text |-> text]
Including(f) == [k |-> "include", f |-> f]

TN(number) == Token("num", number, "")
TT(text) == Token("text", text, "")
TX(x) == Token("name", 0, x)
TO(x) == Token("op", 0, x)
Parens(text) == <<TO("(")>> \o text \o <<TO(")")>>

Returning(e) == Text(Func("main", <<>>, <<Ret(e)>>))
TestH(k) == Text(Glob("h", IntT, <<Num(k)>>))

\* Two inputs, of which the second needs what the first has defined, with a
\* header that both include, an enumeration and a table.
Headers ==
  [inputs |-> <<"a.c", "b.c">>,
   files |->
     ("a.c" :> <<Including("h.h"), Text(Func("f", <<Param("n", IntT)>>, <<Ret(Bin("*", n, Var("SCALE")))>>))>>)
     @@ ("b.c" :> <<Including("h.h"), Ifdef("SIZE"), Text(Glob("v", ArrT(<<3>>), <<Var("LOW"), Var("HIGH"), Var("MASK")>>)),
                    EndifLine, [k |-> "pragma"], Returning(Bin("+", Call1("f", <<Var("HIGH")>>), At(v, Num(2))))>>)
     @@ ("h.h" :> <<Ifndef("H"), Define("H", <<>>), Define("SIZE", <<TN(3)>>),
                    Define("SCALE", Parens(<<TN(4), TO("+"), TX("SIZE")>>)),
                    Define("MASK", <<TX("UINT32_C")>> \o Parens(<<TN(1), TO("<<"), TN(4)>>)),
                    Text([k |-> "enum", members |-> <<[x |-> "NIL", e |-> None], [x |-> "LOW", e |-> Num(5)],
                                                      [x |-> "HIGH", e |-> None]>>]), EndifLine>>)]

\* A macro that is a text, where a text may stand.
TextMacros ==
  [inputs |-> <<"main.c">>,
   files |->
     ("main.c" :> <<Define("S", <<TT(<<72, 105, 33>>)>>), Text(Glob("v", ArrT(<<0>>), <<Var("S")>>)),
                    Text(Glob("p", PtrT, <<Var("S")>>)), Text(Glob("g", IntT, <<>>)),
                    Text(Func("f", <<Param("q", PtrT), Param("n", IntT)>>, <<Ret(At(q, n))>>)),
                    Text(Func("main", <<>>,
                         <<Do1(SetTo("=", g, Bin("-", Call1("f", <<Var("S"), Num(2)>>), At(p, Num(1))))),
                           Ret(Bin("+", At(v, Num(0)), At(v, Num(3))))>>))>>)]

\* One condition in the branches of another.
Tests == <<Ifdef("A"), Ifndef("A"), IfDefined("A", TRUE), IfDefined("B", FALSE), IfNumber(0), IfNumber(1)>>
Nested(outer, inner) ==
  [inputs |-> <<"main.c">>,
   files |-> ("main.c" :> <<Define("A", <<>>), outer, inner, TestH(1), ElseLine, Define("B", <<TN(1)>>), TestH(2), EndifLine,
                            ElseLine, inner, TestH(3), ElseLine, TestH(4), EndifLine, EndifLine, Returning(Var("h"))>>)]

\* Macros of two operators, as C and the preprocessor both read them.
MacroOperators == <<"+", "-", "*", "/", "&", "^">>
Valued(text) ==
  [inputs |-> <<"main.c">>,
   files |-> ("main.c" :> <<Define("N", <<TN(6)>>), Define("M", text), Text(Glob("g", IntT, <<Var("M")>>)),
                            Returning(Bin("-", Var("M"), Num(1)))>>)]
OfMacro(op1, op2) == Valued(<<TN(13), TO(op1), TN(5), TO(op2), TX("N")>>)
OfParens(op1, op2) == Valued(<<TO("-")>> \o Parens(<<TN(13), TO(op1), TN(5)>>) \o <<TO(op2), TN(3)>>)

\* What each of a sequence of values makes, for each of another.
Crossed(Made(_, _), xs, ys) ==
  [k \in 1..(Len(xs) * Len(ys)) |-> Made(xs[(k - 1) \div Len(ys) + 1], ys[((k - 1) % Len(ys)) + 1])]

MCCPrograms ==
  LET plain == <<Factorial, Sorting, Pointers, Structures, Control, Data, Types>> \o OfExpressions
  IN [k \in DOMAIN plain |-> Plainly(plain[k])] \o <<Headers, TextMacros, Plainly(Casts)>> \o Crossed(Nested, Tests, Tests)
     \o Crossed(OfMacro, MacroOperators, MacroOperators) \o Crossed(OfParens, MacroOperators, MacroOperators)

-----------------------------------------------------------------------------
(* Assembler sources, as in src/tests/test_pseudo.asm, test_new_isa.asm and *)
(* muldiv_test.asm.                                                         *)

Li(d, number) == Ins("LI", d, 0, 0, number)
Show(d) == Ins("OUT", d, 0, 0, 0)
Halt == Ins("HALT", 0, 0, 0, 0)

\* The pseudo instructions, a stack and a function.
PseudoTest ==
  <<Directive("TEXT", 0), Label("start"), Li(31, 511),
    Ins("MOV", 2, 31, 0, 0), Show(2), Ins("CLR", 2, 0, 0, 0), Show(2), Li(4, 42), Ins("NEG", 5, 4, 0, 0), Show(5),
    Ins("NOT", 6, 5, 0, 0), Show(6), Ins("INC", 6, 0, 0, 0), Show(6), Ins("DEC", 4, 0, 0, 0), Show(4),
    Ins("PUSH", 4, 0, 0, 0), Ins("PUSH", 6, 0, 0, 0), Ins("POP", 8, 0, 0, 0), Ins("POP", 9, 0, 0, 0), Show(8), Show(9),
    Named("LI", 5, 0, 0, "f"), Ins("CALL.R", 30, 5, 0, 0), Show(10), Ins("JALR", 30, 5, 0, 0), Show(10), Halt,
    Label("f"), Ins("ADD", 10, 10, 4, 0), Ins("RET.L", 30, 0, 0, 0)>>

\* CALL pushes on R7.  It finds its function and falls through to the next.
CallTest ==
  <<Li(7, 511), Li(2, 3), Named("CALL", 0, 0, 0, "g"), Show(2), Named("CALL", 0, 0, 0, "h"), Show(2), Show(7), Halt,
    Label("g"), Ins("MUL", 2, 2, 2, 0), Named("CALL", 0, 0, 0, "h"),
    Label("h"), Ins("ADD", 2, 2, 2, 0), Ins("RET", 0, 0, 0, 0)>>

\* Data with labels, words and bytes, and numbers of every length.
DataTest ==
  <<Named("JMP", 0, 0, 0, "main"), Directive("DATA", 0), Label("x"), Directive("WORD", 300), Label("y"),
    Directive("ZERO", 3), Label("z"), Directive("WORD", 7), Directive("TEXT", 0), Label("main"),
    Named("LOAD", 2, 0, 0, "x"), Show(2), Named("MOVI", 3, 0, 0, "y"), Li(4, 5000), Ins("STORE", 4, 3, 0, 2),
    Named("LI", 5, 0, 0, "z"), Ins("LOAD", 6, 5, 0, 0), Show(6), Ins("LOAD", 6, 5, 0, -1), Show(6),
    Ins("MOVI", 8, 0, 0, 100), Show(8), Ins("MOVI", 27, 0, 0, 1000), Show(27), Li(8, -1024), Show(8),
    Li(9, 1023), Show(9), Li(9, 1024), Show(9), Ins("STOREB", 8, 0, 0, 1001), Ins("STOREB", 9, 0, 0, 1000),
    Ins("LOADB", 10, 0, 0, 1000), Show(10), Ins("NOP", 0, 0, 0, 0), Ins("LOAD", 10, 0, 0, 500), Show(10), Halt>>

\* One operation on x and y, shown; a division by 0 halts.
ThreeRegister(op, x, y) == <<Li(2, x), Li(3, y), Ins(op, 4, 2, 3, 0), Show(4), Ins("RFLAGS", 5, 0, 0, 0), Show(5), Halt>>
OnBits(op, x, bit) == <<Li(2, x), Ins(op, 4, 2, 0, bit), Show(4), Halt>>

\* A jump forward or back, taken or not, with a label and with a distance.
Forward(op, x, y) ==
  <<Li(2, x), Li(3, y), Named(op, 2, 3, 0, "there"), Show(2), Label("there"), Show(3), Halt>>
Distance(op, x, y) == <<Li(2, x), Li(3, y), Ins(op, 2, 3, 0, IF op \in Branches THEN 2 ELSE 1), Show(2), Show(3), Halt>>
Back(op, x, y) ==
  <<Li(2, x), Li(3, y), Named("JMP", 0, 0, 0, "test"), Label("back"), Show(2), Halt,
    Label("test"), Named(op, 2, 3, 0, "back"), Show(3), Halt>>

Operands == <<<<-1, 0>>, <<0, 0>>, <<1, 0>>, <<0, 1>>, <<-2, -1>>, <<1023, 77>>, <<-1024, 1023>>>>
Jumps == <<"BGT", "BLT", "BGE", "BLE", "BEQ", "BNE", "JZ", "JNZ", "JMP">>
Calculations == <<"ADD", "SUB", "MUL", "DIV", "DIVU", "REM", "REMU", "AND", "OR", "XOR",
                  "CMPEQ", "CMPNE", "CMPLT", "CMPLE", "CMPLTU", "CMPLEU">>
BitWork == <<"SHL", "SHR", "BSET", "BCLR", "BTEST">>

MCAsmPrograms ==
  <<PseudoTest, CallTest, DataTest>>
  \o Crossed(LAMBDA op, v2 : Forward(op, v2[1], v2[2]), Jumps, Operands)
  \o Crossed(LAMBDA op, v2 : Distance(op, v2[1], v2[2]), Jumps, Operands)
  \o Crossed(LAMBDA op, v2 : Back(op, v2[1], v2[2]), Jumps, Operands)
  \o Crossed(LAMBDA op, v2 : ThreeRegister(op, v2[1], v2[2]), Calculations, Operands)
  \o Crossed(LAMBDA op, v2 : OnBits(op, v2[1], v2[2]), BitWork, <<<<77, 0>>, <<77, 3>>, <<-2, 1>>, <<0, 15>>, <<1, 40>>>>)

P == INSTANCE MCForeign
MCGuestPrograms == P!Programs
MCWasmModules == P!Modules

(* Programs to be debugged, and what their users may ask.                  *)

\* A loop, a function that is called in it and data behind the program.
Sums ==
  <<Li(7, 60), Li(2, 3), Li(3, 0), Ins("CALL", 0, 0, 0, 5), Ins("OUT", 3, 0, 0, 2), Li(4, 1), Ins("SUB", 2, 2, 4, 0),
    Ins("JNZ", 2, 0, 0, -5), Halt,
    Ins("ADD", 3, 3, 2, 0), Ins("STORE", 3, 2, 0, 40), Ins("RET", 0, 0, 0, 0)>>

\* Its branches and operations, with a division that may be by 0.
Mixed ==
  <<Li(2, -3), Li(3, 5), Ins("MUL", 4, 2, 3, 0), Ins("RFLAGS", 5, 0, 0, 0), Ins("DIV", 6, 4, 3, 0), Ins("SHL", 6, 6, 0, 2),
    Ins("XOR", 8, 6, 3, 0), Ins("JZ", 5, 0, 0, 1), Ins("JMP", 0, 0, 0, 1), Ins("SHR", 8, 8, 0, 3), Ins("AND", 9, 8, 4, 0),
    Ins("OR", 9, 9, 2, 0), Ins("OUT", 9, 0, 0, 7), Ins("NOP", 0, 0, 0, 0), Halt>>

\* Words and bytes of three places that are far from each other.
Accesses ==
  <<Li(2, 3), Li(5, 400), Ins("STORE", 2, 0, 0, 100), Ins("LOAD", 3, 0, 0, 100), Ins("STOREB", 3, 5, 0, 1),
    Ins("LOADB", 4, 5, 0, 1), Ins("LOAD", 4, 0, 0, 300), Li(3, 1), Ins("SUB", 2, 2, 3, 0), Ins("JNZ", 2, 0, 0, -8), Halt>>

Ask(c) == D!Cmd(c, 0, 0)
B(at) == D!Cmd("b", at, 0)
Dbg(lines, asked) == [front |-> "dbg", lines |-> lines, asked |-> asked]

Packet(c) == D!Pkt(c, 0, 0, 0)
Z(type, word) == D!Pkt("Z", word * WORD_BYTES, WORD_BYTES, type)
UnZ(type, word) == D!Pkt("z", word * WORD_BYTES, WORD_BYTES, type)
Regs == [k \in 1..34 |-> CASE k = 33 -> 14 [] k = 34 -> 5 [] OTHER -> k]
Gdb(lines, asked) == [front |-> "gdb", lines |-> lines, asked |-> asked]

MCSessions ==
  <<Dbg(Sums, <<B(9), B(4), D!Cmd("bc", 0, 0), Ask("c"), D!Cmd("n", 7, 0), Ask("bl"), Ask("hist")>>),
    Dbg(Sums, <<Ask("c"), Ask("s"), B(7), D!Cmd("r", 2, 1), Ask("rst"), D!Cmd("m", 40, 4)>>),
    Dbg(Mixed, <<D!Cmd("n", 4, 0), D!Cmd("r", 3, 0), Ask("c"), Ask("d"), D!Cmd("di", D!Absent, D!Absent), D!Cmd("p", 7, 0), Ask("h")>>),
    Dbg(Mixed, <<D!Cmd("n", 0, 0), D!Cmd("n", 6, 0), Ask("hist"), Ask("bl"), B(6), D!Cmd("bc", 1, 0), D!Cmd("r", 0, 1), Ask("x")>>),
    Dbg(Mixed, <<Ask(""), D!Cmd("n", D!Absent, 0), B(D!Absent), D!Cmd("m", D!Absent, 70), D!Cmd("di", 2, 3), B(2), Ask("q")>>),
    Gdb(Sums, <<Z(0, 9), Z(0, 4), Z(0, 7), UnZ(0, 9), UnZ(0, 4), Packet("c")>>),
    Gdb(Sums, <<Packet("c"), Packet("s"), Packet("g"), Z(0, 10), D!Pkt("M", 83, 3, <<1, 2, 3>>), D!Pkt("m", 82, 6, 0)>>),
    Gdb(Sums, <<D!Pkt("G", 0, 0, Regs), D!Pkt("G", 0, 0, <<9, 8, 7>>), Packet("c"), Packet("g"), Packet("vCont;s"), Packet("q"), Packet("qAttached")>>),
    Gdb(Accesses, <<Z(2, 100), Z(3, 100), UnZ(2, 100), Z(4, 300), Packet("c"), Packet("s")>>),
    Gdb(Accesses, <<D!Pkt("Z", 401, 1, 4), Z(0, 6), Packet("vCont;c"), D!Pkt("m", 200, 3, 0), Z(1, 6), UnZ(3, 100)>>),
    Gdb(Accesses, <<Packet("?"), Packet("qSupported"), Packet("H"), Packet("vCont?"), Packet("k"), Packet("c")>>)>>

(* What a user may build and run.                                          *)

Bytes(head) == [k \in 0..99 |-> IF k \in DOMAIN head THEN head[k] ELSE 0]
FileOf(name, is, size, head, marks, accepts, sound, assembles) ==
  [name |-> <<name>>, size |-> size, byte |-> Bytes(head), marks |-> marks, is |-> is, bom |-> FALSE,
   accepts |-> accepts, sound |-> sound, assembles |-> assembles]
BinaryFile(name, is, size, head) == FileOf(name, is, size, head, {}, {}, {}, FALSE)
TextFile(name, marks, accepts, sound, assembles) ==
  FileOf(name, <<>>, 100, 0 :> 59, marks, accepts, sound, assembles)
WasmFile(name, accepts, sound) ==
  [BinaryFile(name, <<"WebAssembly", "wasm">>, 30, 0 :> 0 @@ 1 :> 97 @@ 2 :> 115 @@ 3 :> 109)
     EXCEPT !.accepts = accepts, !.sound = sound]
ElfFile(arch, m1, m2, data) ==
  BinaryFile("elf", <<"ELF", arch>>, 64,
             0 :> 127 @@ 1 :> 69 @@ 2 :> 76 @@ 3 :> 70 @@ 4 :> 2 @@ 5 :> data @@ 18 :> m1 @@ 19 :> m2)
PeFile(arch, m1, m2, at) ==
  BinaryFile("pe", <<"PE/COFF", arch>>, 90,
             0 :> 77 @@ 1 :> 90 @@ 60 :> at @@ at :> 80 @@ (at + 1) :> 69 @@ (at + 4) :> m1 @@ (at + 5) :> m2)
Given(ext, f) == [ext |-> ext, file |-> f]

MCInputs ==
  {Given(".s", TextFile("x86", {"rax"}, {"x86-64"}, {"x86-64"}, FALSE)),
   Given(".s", TextFile("arm", {"mov x"}, {"arm64"}, {}, FALSE)),
   Given(".txt", TextFile("riscv", {"addi"}, {"riscv64"}, {"riscv64"}, FALSE)),
   Given(".asm", TextFile("oxalyn", {"HALT"}, {}, {}, TRUE)),
   Given(".asm", TextFile("arm again", {"mov x"}, {"arm64"}, {"arm64"}, FALSE)),
   Given(".oxs", [TextFile("broken", {}, {}, {}, FALSE) EXCEPT !.bom = TRUE]),
   Given(".wasm", WasmFile("module", {"wasm"}, {"wasm"})),
   Given(".asm", WasmFile("large", {"wasm"}, {})),
   Given(".wasm", WasmFile("float", {}, {})),
   Given(".o", ElfFile("x86-64", 62, 0, 1)), Given(".s", ElfFile("riscv64", 0, 243, 2)),
   Given(".exe", PeFile("x86-64", 100, 134, 80)),
   Given(".bin", BinaryFile("raw", <<"raw binary", "unknown">>, 90, 0 :> 77 @@ 1 :> 90 @@ 60 :> 99)),
   Given("", BinaryFile("macho", <<>>, 32, 0 :> 207 @@ 1 :> 250 @@ 2 :> 237 @@ 3 :> 254 @@ 4 :> 7 @@ 7 :> 1))}
MCFlags == {"auto", "rv64", "aarch64", "wasm32", "oxalyn64", "z80"}
MCFlashWords == {<<0, 1>>, <<1, 2>>}

\* Each of these inputs is what its header says.
ASSUME InputsAreLinked == Linked

(* Texts for the readers.                                                  *)

Signs == <<"+", "-", "*", "/", "%", "&", "|", "^", "~", "<", ">", "=", "!", "(", ")", "{", "}", "[", "]", ".", ";", ",", "?",
           ":", "++", "--", "->", "<<", ">>", "<=", ">=", "==", "!=", "&&", "||", "+=", "-=", "*=", "/=", "&=", "|=", "^=",
           "<<=", ">>=">>
\* Comments begin with two signs, and %= is not in the subset.
Begins(x, starts) == \E y \in starts : SubSeq(x, 1, Len(y)) = y
Kept(pair) == ~(pair[1] = "/" /\ Begins(pair[2], {"/", "*"})) /\ ~(pair[1] = "%" /\ Begins(pair[2], {"="}))
SignTexts ==
  LET pairs == SelectSeq(Crossed(LAMBDA x, y : <<x, y>>, Signs, Signs), Kept)
  IN [k \in DOMAIN pairs |-> [reader |-> "signs", text |-> pairs[k][1] \o pairs[k][2], wrong |-> FALSE]]

A1(text, kind, x) == <<text, <<kind, x>>>>
Tokens ==
  <<A1("x", "name", "x"), A1("_L0a", "name", "_L0a"), A1("abcdefghijkl", "name", "abcdefghi"), A1("while", "keyword", "while"),
    A1("whiles", "name", "whiles"), A1("0", "number", 0), A1("1234", "number", 1234), A1("7u", "number", 7),
    A1("0x1fUL", "number", 31), A1("0Xab", "number", 171), A1("'a'", "number", 97), A1("'\"'", "number", 34),
    A1("'\\n'", "number", 10), A1("'\\''", "number", 39), A1("'\\\\'", "number", 92), A1("'\\x4a'", "number", 74),
    A1("'\\101'", "number", 65), A1("'\\0'", "number", 0), A1("\"\"", "string", <<>>),
    A1("\"/* '\"", "string", <<47, 42, 32, 39>>), A1("\"\\1019\\\"\"", "string", <<65, 57, 34>>), A1("->", "sign", "->")>>
Separators == <<" ", "\t/* + */ // 'x\n", "\n#if 0\n/**/ /* // */">>
TokenTexts ==
  Crossed(LAMBDA pair, between : [reader |-> "tokens", tokens |-> pair, between |-> between, wrong |-> FALSE],
          Crossed(LAMBDA x, y : <<x, y>>, Tokens, Tokens), Separators)

Wrong == <<"'ab'", "'\\x4'", "'\\q'", "'", "\"abc", "\"\\", "/* x", "/*/">>
WrongTexts ==
  [k \in DOMAIN Wrong |-> [reader |-> "tokens", tokens |-> <<Tokens[1], A1(Wrong[k], "died", 0)>>, between |-> " ", wrong |-> TRUE]]

AsmText(name, item, fields) == [name |-> name, item |-> item, fields |-> fields]
DAI == <<"d", "a", "i">>
DAB == <<"d", "a", "b">>
Lines ==
  <<AsmText("add", Ins("ADD", 1, 0, 31, 0), DAB), AsmText("CMPLEU", Ins("CMPLEU", 10, 9, 30, 0), DAB),
    AsmText("Load", Ins("LOAD", 29, 2, 0, -1024), DAI), AsmText("STORE", Ins("STORE", 5, 31, 0, 7), DAI),
    AsmText("JALR", Named("JALR", 30, 28, 0, "near"), DAI), AsmText("bge", Ins("BGE", 3, 4, 0, -2), DAI),
    AsmText("BNE", Named("BNE", 3, 20, 0, "r2x"), DAI), AsmText("li", Ins("LI", 7, 0, 0, 70000), <<"d", "i">>),
    AsmText("MOVI", Named("MOVI", 7, 0, 0, "R32"), <<"d", "i">>), AsmText("OUT", Ins("OUT", 6, 0, 0, 1), <<"d", "i">>),
    AsmText("jz", Named("JZ", 6, 0, 0, "0x"), <<"d", "i">>), AsmText("JMP", Named("JMP", 0, 0, 0, "12a"), <<"i">>),
    AsmText("CALL", Ins("CALL", 0, 0, 0, 9), <<"i">>), AsmText(".word", Ins("WORD", 0, 0, 0, -5), <<"i">>),
    AsmText(".ZERO", Ins("ZERO", 0, 0, 0, 12), <<"i">>), AsmText(".text", Ins("TEXT", 0, 0, 0, 0), <<>>),
    AsmText("mov", Ins("MOV", 19, 20, 0, 0), <<"d", "a">>), AsmText("call.r", Ins("CALL.R", 30, 8, 0, 0), <<"d", "a">>),
    AsmText("Push", Ins("PUSH", 11, 0, 0, 0), <<"d">>), AsmText("ret", Ins("RET", 0, 0, 0, 0), <<>>),
    AsmText("fence.rw", Ins("FENCE", 0, 0, 0, 0), <<>>)>>
WrongLines ==
  <<AsmText("ADD", Ins("ADD", 1, 0, 32, 0), DAB), AsmText("ADD", Ins("ADD", 1, 2, 0, 0), <<"d", "a">>), AsmText("ADX", Ins("ADX", 0, 0, 0, 0), <<>>),
    AsmText(".zero", Named("ZERO", 0, 0, 0, "n"), <<"i">>), AsmText("LI", Ins("LI", 1, 0, 0, 0), <<"d">>)>>

Style(before, comma, behind, base, plus, r, labels) ==
  [before |-> before, comma |-> comma, behind |-> behind, base |-> base, plus |-> plus, r |-> r, labels |-> labels]
Styles ==
  <<Style("", ", ", "", 10, "", "R", <<>>), Style("    ", ",", " ; R1, x: y", 16, "", "r", <<>>),
    Style("loop: ", " , ", "\t \r\n", 10, "+", "R", <<Label("loop")>>), Style("\t_L1:", "\t", ";", 2, "+", "r", <<Label("_L1")>>),
    Style("R1:\t", " ", ", ; a", 16, "+", "R", <<Label("R1")>>)>>
LineText(l, style, wrong) ==
  [reader |-> "line", name |-> l.name, item |-> l.item, fields |-> l.fields, style |-> style, labels |-> style.labels, wrong |-> wrong]
LineTexts ==
  Crossed(LAMBDA l, style : LineText(l, style, FALSE), Lines, Styles)
  \o Crossed(LAMBDA l, style : LineText(l, style, TRUE), WrongLines, Styles)

NumberTexts ==
  Crossed(LAMBDA ns, count : [reader |-> "unsigned", numbers |-> ns, count |-> count, wrong |-> FALSE],
          <<<<0, 1, 127>>, <<64, 63>>>>, <<1, 2, 4>>)
  \o Crossed(LAMBDA ns, count : [reader |-> "unsigned", numbers |-> ns, count |-> count, wrong |-> FALSE],
             <<<<128, 16383>>, <<300, 0>>>>, <<2, 3>>)
  \o Crossed(LAMBDA ns, count : [reader |-> "signed", numbers |-> ns, count |-> count, wrong |-> FALSE],
             <<<<0, -1, 63>>, <<-64, 5>>>>, <<1, 2, 4>>)
  \o Crossed(LAMBDA ns, count : [reader |-> "signed", numbers |-> ns, count |-> count, wrong |-> FALSE],
             <<<<64, -65, -8192>>, <<8191, -1>>>>, <<2, 3>>)

ForeignLine(arch, name, l) == [arch |-> arch, name |-> name, l |-> l]
AtAndT(l) == [l EXCEPT !.att = TRUE]
JumpNear(op) == T!Guest(op, <<T!Name("near_2")>>)
ForeignLines ==
  <<ForeignLine("x86", "ADDL", AtAndT(T!Guest("add", <<T!Num(-16), T!Reg("eax")>>))), ForeignLine("x86", "xorq", T!Guest("xor", <<T!Reg("r15"), T!Reg("rsp")>>)),
    ForeignLine("x86", "shl", AtAndT(T!Guest("shl", <<T!Num(9), T!Reg("rdx")>>))), ForeignLine("x86", "mov", T!Guest("mov", <<T!Reg("rax"), T!Mem("rbp", 0)>>)),
    ForeignLine("x86", "jne", JumpNear("jne")), ForeignLine("x86", "nop", T!Guest("nop", <<>>)),
    ForeignLine("arm", "ADD", T!Guest("add", <<T!Reg("x0"), T!Reg("x30"), T!Num(100)>>)), ForeignLine("arm", "ldr", T!Guest("ldr", <<T!Reg("x1"), T!Mem("sp", 0)>>)),
    ForeignLine("arm", "CBZ", T!Guest("cbz", <<T!Reg("x29"), T!Name("near_2")>>)),
    ForeignLine("riscv", "addi", T!Guest("addi", <<T!Reg("sp"), T!Reg("x31"), T!Num(-1024)>>)), ForeignLine("riscv", "LW", T!Guest("lw", <<T!Reg("a0"), T!Mem("sp", 8)>>)),
    ForeignLine("riscv", "movw", T!Guest("movw", <<T!Reg("s11"), T!Num(0)>>)), ForeignLine("riscv", "j", JumpNear("j"))>>
ForeignStyles ==
  <<Style("", ", ", "", 10, "", "", <<>>), Style("  ", ",", "\t; a: $1 # [b]", 16, "", "", <<>>),
    Style("Loop:", " , ", "// c; d\r\n", 8, "+", "", <<T!GuestLabel("Loop")>>), Style("\t.L1: ", "\t", " ;", 10, "+", "", <<T!GuestLabel(".L1")>>)>>
ForeignTexts ==
  Crossed(LAMBDA x, style : [reader |-> "foreign", arch |-> x.arch, name |-> x.name, l |-> x.l, style |-> style, labels |-> style.labels, wrong |-> FALSE],
          ForeignLines, ForeignStyles)

Option(args, sets) == [args |-> args, sets |-> sets]
Options ==
  <<Option(<<"-q">>, <<<<"quiet">>>>), Option(<<"-h">>, <<<<"health">>>>), Option(<<"-w", "500">>, <<<<"resilient">>, <<"watchdog", 500>>>>),
    Option(<<"-w", "-5">>, <<<<"resilient">>>>), Option(<<"-e", "12">>, <<<<"eeprom", "12">>>>), Option(<<"-i", "7">>, <<<<"irq", 7>>>>),
    Option(<<"-i", "7x">>, <<>>), Option(<<"--uart-rx", "5", "255">>, <<<<"uart", 5, 255>>>>), Option(<<"--uart-rx", "5", "256">>, <<>>),
    Option(<<"--gdb", "65535">>, <<<<"gdb", 65535>>>>), Option(<<"--gdb", "0">>, <<>>), Option(<<"--frame-ascii">>, <<<<"ascii">>>>),
    Option(<<"--frame-out", "-q">>, <<<<"frame", "-q">>>>), Option(<<"-c", "-30">>, <<<<"cycles", -30>>>>), Option(<<"-c", "9k">>, <<<<"cycles", 9>>>>),
    Option(<<"77">>, <<<<"cycles", 77>>>>), Option(<<"-p", "255", "1">>, <<<<"port", 255, 1>>>>), Option(<<"-G", "0xfF">>, <<<<"pins", 255>>>>),
    Option(<<"-G", "12">>, <<<<"pins", 12>>>>), Option(<<"-g", "4", "31", "9">>, <<<<"event", 4, 31, 1>>>>), Option(<<"-g", "4", "32", "0">>, <<>>),
    Option(<<"-z">>, <<>>)>>
WrongOptions == <<Option(<<"-c">>, <<>>), Option(<<"-p", "1">>, <<>>), Option(<<"-p", "256", "0">>, <<>>), Option(<<"-p", "1", "-q">>, <<>>)>>
\* What is left off at the end is no option; one event too many is not taken.
Unfinished == <<Option(<<"-w">>, <<<<"resilient">>>>), Option(<<"-e">>, <<>>), Option(<<"-g", "1", "2">>, <<>>), Option(<<"--gdb">>, <<>>), Option(<<"-G">>, <<>>)>>
Seventeen == [k \in 1..17 |-> Option(<<"-g", "8", "3", "0">>, IF k < 17 THEN <<<<"event", 8, 3, 0>>>> ELSE <<>>)]
OptionsText(given, wrong) == [reader |-> "options", given |-> given, wrong |-> wrong]
OptionTexts ==
  Crossed(LAMBDA x, y : OptionsText(<<x, y>>, FALSE), Options, Options \o Unfinished)
  \o Crossed(LAMBDA x, y : OptionsText(<<x, y>>, TRUE), Options, WrongOptions) \o <<OptionsText(Seventeen, FALSE)>>

MCTexts == SignTexts \o TokenTexts \o WrongTexts \o LineTexts \o NumberTexts \o ForeignTexts \o OptionTexts
=============================================================================
