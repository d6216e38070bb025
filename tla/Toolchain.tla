----------------------------- MODULE Toolchain -----------------------------
(***************************************************************************)
(* From a source to its run: the compiler (cc.c) or the translator of      *)
(* foreign assembly (translator.c) writes assembly, the assembler (asm.c)  *)
(* an image, and the simulator (sim.c) loads it and executes it word by    *)
(* word.  Each program of the chain reads one file, line by line, and      *)
(* writes another; the machine takes a step for each instruction.          *)
(***************************************************************************)
EXTENDS Compiler, Driver

CONSTANTS CPrograms,    \* sequence of C projects: input files, and all files as lines
          AsmPrograms,  \* sequence of assembler sources, as lines
          GuestPrograms, \* sequence of foreign assembler sources: architecture and lines
          WasmModules,  \* sequence of WebAssembly modules, as sections
          Sessions,     \* sequence of debugger sessions: which, lines, and what may be asked
          MAX_ASKED,    \* commands of a session
          MAX_BP, HISTORY_LEN, MAX_BREAKPOINTS, MAX_WATCHPOINTS,
          Texts,        \* sequence of texts and what is written in them: see TextOf
          MAX_IDENT

VARIABLES stage,        \* the file there is: source, assembly, image, or a run
          source,       \* [kind, n]: which of the programs it comes from
          pp,           \* what the preprocessor knows
          cc,           \* what the compiler knows
          asm,          \* lines of assembly
          line,         \* the next line or definition to be read
          pass,         \* what the assembler knows
          m,            \* the machine
          symbols,      \* of the run: where the labels of its source are
          calls,        \* of the run: what the functions called must give back
          wasm,         \* of a module: what its sections say, and the function being translated
          session       \* of a debugger: what has been asked, and the debugger

vars == <<stage, source, pp, cc, asm, line, pass, m, symbols, calls, wasm, session, hostvars>>

C == INSTANCE CSemantics
A == INSTANCE AsmSemantics
T == INSTANCE Translator
F == INSTANCE ForeignSemantics
W == INSTANCE Wasm
D == INSTANCE Debugger
L == INSTANCE Lexer

Sources ==
  ({"c"} \X DOMAIN CPrograms) \cup ({"asm"} \X DOMAIN AsmPrograms) \cup ({"guest"} \X DOMAIN GuestPrograms)
  \cup ({"wasm"} \X DOMAIN WasmModules) \cup ({"debug"} \X DOMAIN Sessions) \cup ({"text"} \X DOMAIN Texts)
  \cup {<<"host", 1>>}

SourceLines(s) ==
  CASE s[1] = "asm" -> AsmPrograms[s[2]] [] s[1] = "debug" -> Sessions[s[2]].lines [] OTHER -> <<>>
Assembled == {"asm", "debug"}

NoSession == [asked |-> <<>>, d |-> <<>>]
NoWasm == [info |-> W!NoModule, fn |-> W!NoFunction, bodies |-> 0]

Init ==
  /\ source \in Sources
  /\ stage = CASE source[1] = "c" -> "source" [] source[1] \in Assembled -> "assembly" [] OTHER -> source[1]
  /\ pp = PpFresh(IF source[1] = "c" THEN CPrograms[source[2]].inputs ELSE <<>>)
  /\ asm = SourceLines(source)
  /\ cc = Fresh /\ line = 1 /\ pass = NoLines
  /\ m = Reset /\ symbols = Nothing /\ calls = <<>>
  /\ wasm = NoWasm /\ session = NoSession
  /\ IF source[1] = "host" THEN HostInit ELSE NobodyWorks

ReadLine ==
  /\ stage = "source" /\ ~pp.dead /\ ~Exhausted(pp)
  /\ pp' = PpStep(pp, CPrograms[source[2]])
  /\ UNCHANGED <<stage, source, cc, asm, line, pass, m, symbols, calls, wasm, session, hostvars>>

\* The compiler refuses conditions that are still open.
EndOfSource ==
  /\ stage = "source" /\ (pp.dead \/ Exhausted(pp))
  /\ IF pp.dead \/ pp.parents # <<>> THEN stage' = "refused" /\ UNCHANGED cc
     ELSE stage' = "preprocessed" /\ cc' = Entry(pp.macros)
  /\ UNCHANGED <<source, pp, asm, line, pass, m, symbols, calls, wasm, session, hostvars>>

\* The compiler reads definition after definition, up to one it refuses.
CompileDefinition ==
  /\ stage = "preprocessed" /\ ~cc.dead /\ line <= Len(pp.out)
  /\ cc' = Definition(cc, pp.out[line])
  /\ line' = line + 1
  /\ UNCHANGED <<stage, source, pp, asm, pass, m, symbols, calls, wasm, session, hostvars>>
EndOfProgram ==
  /\ stage = "preprocessed" /\ (cc.dead \/ line > Len(pp.out))
  /\ asm' = Compiled(cc, pp.out)
  /\ stage' = IF asm' = Refused THEN "refused" ELSE "assembly"
  /\ pp' = PpFresh(<<>>) /\ cc' = Fresh
  /\ line' = 1
  /\ UNCHANGED <<source, pass, m, symbols, calls, wasm, session, hostvars>>

\* The translator leaves directives out, and ends at a line it cannot express.
TranslateLine ==
  /\ stage = "guest" /\ line <= Len(GuestPrograms[source[2]].lines)
  /\ ~T!is_directive(GuestPrograms[source[2]].lines[line])
  /\ \E lines \in {T!TranslatedLine(GuestPrograms[source[2]].arch, GuestPrograms[source[2]].lines[line])} :
       IF lines = Refused THEN stage' = "refused" /\ UNCHANGED <<asm, line>>
       ELSE asm' = asm \o lines /\ line' = line + 1 /\ UNCHANGED stage
  /\ UNCHANGED <<source, pp, cc, pass, m, symbols, calls, wasm, session, hostvars>>
SkipDirective ==
  /\ stage = "guest" /\ line <= Len(GuestPrograms[source[2]].lines)
  /\ T!is_directive(GuestPrograms[source[2]].lines[line])
  /\ line' = line + 1
  /\ UNCHANGED <<stage, source, pp, cc, asm, pass, m, symbols, calls, wasm, session, hostvars>>
TranslateDone ==
  /\ stage = "guest" /\ line > Len(GuestPrograms[source[2]].lines)
  /\ stage' = "assembly" /\ line' = 1
  /\ UNCHANGED <<source, pp, cc, asm, pass, m, symbols, calls, wasm, session, hostvars>>

\* A WebAssembly module is read section by section; line counts them.
ModuleSections == WasmModules[source[2]]
ReadSection ==
  /\ stage = "wasm" /\ line <= Len(ModuleSections) /\ ~wasm.info.bad
  /\ wasm' = [wasm EXCEPT !.info = W!Section(@, ModuleSections[line])]
  /\ line' = line + 1
  /\ UNCHANGED <<stage, source, pp, cc, asm, pass, m, symbols, calls, session, hostvars>>
ModuleRead ==
  /\ stage = "wasm" /\ (wasm.info.bad \/ line > Len(ModuleSections))
  /\ IF W!Complete(wasm.info) THEN stage' = "bodies" /\ asm' = W!StartLines(wasm.info.entry[1])
     ELSE stage' = "refused" /\ UNCHANGED asm
  /\ line' = 1
  /\ UNCHANGED <<source, pp, cc, pass, m, symbols, calls, wasm, session, hostvars>>

\* Then its bodies, instruction by instruction; line counts these.
BodyCode == wasm.info.code[wasm.bodies + 1]
BeginBody ==
  /\ stage = "bodies" /\ wasm.bodies < Len(wasm.info.code)
  /\ LET index == wasm.info.imported + wasm.bodies
     IN wasm' = [wasm EXCEPT !.fn = W!BeginFunction(index, W!wasm_function_type(wasm.info, index), BodyCode.locals)]
  /\ stage' = "body" /\ line' = 1
  /\ UNCHANGED <<source, pp, cc, asm, pass, m, symbols, calls, session, hostvars>>
TranslateInstruction ==
  /\ stage = "body" /\ ~wasm.fn.dead /\ line <= Len(BodyCode.ops)
  /\ wasm' = [wasm EXCEPT !.fn = W!Translate(wasm.info, @, BodyCode.ops[line])]
  /\ line' = line + 1
  /\ UNCHANGED <<stage, source, pp, cc, asm, pass, m, symbols, calls, session, hostvars>>
EndBody ==
  /\ stage = "body" /\ (wasm.fn.dead \/ line > Len(BodyCode.ops))
  /\ IF wasm.fn.dead THEN stage' = "refused" /\ UNCHANGED <<asm, wasm>>
     ELSE /\ stage' = "bodies"
          /\ asm' = asm \o wasm.fn.out \o W!Epilogue(wasm.fn)
          /\ wasm' = [wasm EXCEPT !.bodies = @ + 1, !.fn = W!NoFunction]
  /\ line' = 1
  /\ UNCHANGED <<source, pp, cc, pass, m, symbols, calls, session, hostvars>>
BodiesDone ==
  /\ stage = "bodies" /\ wasm.bodies = Len(wasm.info.code)
  /\ stage' = "assembly"
  /\ wasm' = NoWasm
  /\ UNCHANGED <<source, pp, cc, asm, line, pass, m, symbols, calls, session, hostvars>>

-----------------------------------------------------------------------------
(* The texts themselves, and the readers that they are written for; asm    *)
(* holds what has been read, line the place in the text.                   *)

Joined(pieces) == FoldLeft(LAMBDA t, piece : t \o piece, "", pieces)
TextOf(x) ==
  CASE x.reader = "signs" -> x.text
    [] x.reader = "tokens" -> Joined([k \in DOMAIN x.tokens |-> x.between \o x.tokens[k][1]]) \o x.between
    [] x.reader = "line" -> A!Written(x, x.style)
    [] x.reader = "foreign" -> A!WrittenForeign(x)
    [] x.reader = "options" -> FlattenSeq([k \in DOMAIN x.given |-> x.given[k].args])
    [] x.reader \in {"unsigned", "signed"} -> FlattenSeq([k \in DOMAIN x.numbers |-> F!InBytes(x.numbers[k], x.count)])
TheText == TextOf(Texts[source[2]])
Reader == Texts[source[2]].reader

Reads(found, next) ==
  /\ asm' = asm \o found
  /\ line' = next
  /\ UNCHANGED <<stage, source, pp, cc, pass, m, symbols, calls, wasm, session, hostvars>>
TextDone(next) ==
  /\ stage' = next
  /\ UNCHANGED <<source, pp, cc, asm, line, pass, m, symbols, calls, wasm, session, hostvars>>
NextToken == L!lex_next(TheText, line)
ReadToken ==
  /\ stage = "text" /\ Reader \in {"signs", "tokens"}
  /\ NextToken.next # L!Died /\ NextToken.token # L!EndOfFile
  /\ Reads(<<NextToken.token>>, NextToken.next)
NoToken ==
  /\ stage = "text" /\ Reader \in {"signs", "tokens"}
  /\ NextToken.next = L!Died \/ NextToken.token = L!EndOfFile
  /\ TextDone(IF NextToken.next = L!Died THEN "refused" ELSE "read")
ReadText == stage = "text" /\ Reader = "line" /\ line = 1 /\ Reads(L!process_line(TheText), 2)
ReadForeign ==
  /\ stage = "text" /\ Reader = "foreign" /\ line = 1
  /\ Reads(L!foreign_line(TheText, Texts[source[2]].arch), 2)
ReadNumber ==
  /\ stage = "text" /\ Reader \in {"unsigned", "signed"} /\ line <= Len(TheText)
  /\ \E n \in {IF Reader = "signed" THEN L!read_sleb128(TheText, line) ELSE L!read_uleb128(TheText, line)} :
       Reads(<<n.token>>, n.next)
TextRead ==
  /\ stage = "text"
  /\ \/ Reader \in {"line", "foreign"} /\ line = 2
     \/ Reader \in {"unsigned", "signed"} /\ line > Len(TheText)
  /\ TextDone(IF Reader = "line" /\ L!Bad \in Range(asm) THEN "refused" ELSE "read")

\* The simulator reads its command line twice.
EarlyOption ==
  /\ stage = "text" /\ Reader = "options" /\ line <= Len(TheText)
  /\ \E o \in {L!EarlyOption(TheText, line)} : Reads(o.token, o.next)
OptionsAgain ==
  /\ stage = "text" /\ Reader = "options" /\ line > Len(TheText)
  /\ stage' = "again" /\ line' = 1
  /\ UNCHANGED <<source, pp, cc, asm, pass, m, symbols, calls, wasm, session, hostvars>>
SetBefore(name) == SelectSeq(asm, LAMBDA setting : setting[1] = name)
LateRead == L!LateOption(TheText, line, Len(SetBefore("event")))
LateOption == stage = "again" /\ line <= Len(TheText) /\ LateRead.next # L!Died /\ Reads(LateRead.token, LateRead.next)
OptionsRead ==
  /\ stage = "again"
  /\ \/ line > Len(TheText) /\ TextDone("read")
     \/ line <= Len(TheText) /\ LateRead.next = L!Died /\ TextDone("refused")

-----------------------------------------------------------------------------
\* The assembler reads the file twice, line by line.
LineOf(step(_, _)) ==
  /\ line <= Len(asm)
  /\ pass' = step(pass, asm[line])
  /\ line' = line + 1
  /\ UNCHANGED <<stage, source, pp, cc, asm, m, symbols, calls, wasm, session, hostvars>>
FirstPass == stage = "assembly" /\ LineOf(First)
SecondPass == stage = "labelled" /\ LineOf(Second)

\* Neither a second pass nor a file after an error.
PassDone(next) ==
  /\ line > Len(asm)
  /\ stage' = IF pass.errors > 0 THEN "refused" ELSE next
  /\ line' = 1
  /\ UNCHANGED <<source, pp, cc, asm, m, symbols, calls, wasm, session, hostvars>>
Rewind == stage = "assembly" /\ PassDone("labelled") /\ pass' = [pass EXCEPT !.at = 0]
WriteBin == stage = "labelled" /\ PassDone("image") /\ UNCHANGED pass
\* A name that ends in .elf asks for a file with a table of the labels.
WriteElf ==
  /\ stage = "labelled" /\ source[1] = "asm" /\ line > Len(asm) /\ pass.errors = 0
  /\ asm' = write_elf(pass.out, LabelNames(asm, pass.labels), pass.labels)
  /\ stage' = "elf"
  /\ UNCHANGED <<source, pp, cc, line, pass, m, symbols, calls, wasm, session, hostvars>>

\* The files are not needed any more; only the checks need the labels.
LoadImage ==
  /\ stage = "image" /\ source[1] # "debug"
  /\ m' = Loaded(pass.out)
  /\ stage' = "run"
  /\ symbols' = pass.labels
  /\ asm' = <<>> /\ pass' = NoLines
  /\ UNCHANGED <<source, pp, cc, line, calls, wasm, session, hostvars>>

-----------------------------------------------------------------------------
(* A debugger loads the image and asks what to do, again and again; m stays*)
(* the image as it was loaded.                                             *)

FrontEnd == Sessions[source[2]].front
Askable == Sessions[source[2]].asked

Debug ==
  /\ stage = "image" /\ source[1] = "debug"
  /\ m' = Loaded(pass.out)
  /\ stage' = "debug"
  /\ session' = [asked |-> <<>>, d |-> IF FrontEnd = "dbg" THEN D!Prompted(m') ELSE D!Connected(m')]
  /\ asm' = <<>> /\ pass' = NoLines
  /\ UNCHANGED <<source, pp, cc, line, symbols, calls, wasm, hostvars>>

AtPrompt == stage = "debug" /\ session.d.mode = "prompt"
OnlySession == UNCHANGED <<stage, source, pp, cc, asm, line, pass, m, symbols, calls, wasm, hostvars>>

Command ==
  /\ AtPrompt /\ FrontEnd = "dbg" /\ Len(session.asked) < MAX_ASKED
  /\ \E k \in DOMAIN Askable : session' = [asked |-> Append(session.asked, k), d |-> D!Command(session.d, Askable[k])]
  /\ OnlySession
RunOn ==
  /\ stage = "debug" /\ FrontEnd = "dbg" /\ session.d.mode \in {"run", "count"}
  /\ session' = [session EXCEPT !.d = D!RunOn(@)]
  /\ OnlySession

Receive ==
  /\ AtPrompt /\ FrontEnd = "gdb" /\ Len(session.asked) < MAX_ASKED
  /\ \E k \in DOMAIN Askable : session' = [asked |-> Append(session.asked, k), d |-> D!Receive(session.d, Askable[k])]
  /\ OnlySession
\* A packet may be damaged, and is sent again.
Refusal == <<"-">>
ReceiveGarbled ==
  /\ AtPrompt /\ FrontEnd = "gdb" /\ Len(session.asked) < MAX_ASKED
  /\ ~(session.d.shown # <<>> /\ Last(session.d.shown) = Refusal)
  /\ session' = [session EXCEPT !.d = D!Receive(@, D!Garbled(Askable[1]))]
  /\ OnlySession
StubRunOn ==
  /\ stage = "debug" /\ FrontEnd = "gdb" /\ session.d.mode = "run"
  /\ session' = [session EXCEPT !.d = D!StubRunOn(@)]
  /\ OnlySession

-----------------------------------------------------------------------------
(* The machine: one action for each kind of instruction *)

Fetched == WordAt(m, m.pc)
Running == stage = "run" /\ ~m.halted

Run == m' = StepOf(m) /\ UNCHANGED <<stage, source, pp, cc, asm, line, pass, symbols, wasm, session, hostvars>>

CalculateStep ==
  /\ Running /\ Fetched.op \in Flagging \cup Dividing \cup Logical \cup Comparing
  /\ Run /\ UNCHANGED calls

AccessStep == Running /\ Fetched.op \in Accessing /\ Run /\ UNCHANGED calls
JumpStep == Running /\ Fetched.op \in Jumping \ {"JALR"} /\ Run /\ UNCHANGED calls
OutputStep == Running /\ Fetched.op = "OUT" /\ Run /\ UNCHANGED calls
StopStep == Running /\ Stopping(Fetched) /\ Run /\ UNCHANGED calls
IdleStep ==
  /\ Running /\ Fetched.op \in {"NOP", "WORD"} /\ ~Stopping(Fetched)
  /\ Run /\ UNCHANGED calls

\* JALR with the link register calls, and to go to it returns.  The compiler
\* links in R31 and the translator of modules in R30; each has registers of
\* its own for the stack and the frame.
Link == IF source[1] = "wasm" THEN 30 ELSE REG_RA
StackOf(s) == IF source[1] = "wasm" THEN s.reg[31] ELSE s.reg[REG_SP]
FrameOf(s) == IF source[1] = "wasm" THEN s.reg[29] ELSE s.reg[REG_FP]
Frame == [to |-> (m.pc + 1) % MEM_SIZE, sp |-> StackOf(m), fp |-> FrameOf(m)]
GoesBack == Fetched.d = 0 /\ Fetched.a = Link /\ calls # <<>>
CallStep ==
  /\ Running /\ Fetched.op = "JALR" /\ Fetched.d = Link
  /\ calls' = <<Frame>> \o calls
  /\ Run
ReturnStep ==
  /\ Running /\ Fetched.op = "JALR" /\ GoesBack
  /\ calls' = Tail(calls)
  /\ Run
GotoStep ==
  /\ Running /\ Fetched.op = "JALR" /\ Fetched.d # Link /\ ~GoesBack
  /\ Run /\ UNCHANGED calls

(* What a user does, one program at a time (Driver); the other variables   *)
(* belong to what a single file goes through.                              *)
OneFile == <<stage, source, pp, cc, asm, line, pass, m, symbols, calls, wasm, session>>
HostStep == stage = "host" /\ HostNext /\ UNCHANGED OneFile

Next ==
  \/ ReadLine \/ EndOfSource \/ CompileDefinition \/ EndOfProgram \/ TranslateLine \/ SkipDirective \/ TranslateDone
  \/ ReadSection \/ ModuleRead \/ BeginBody \/ TranslateInstruction \/ EndBody \/ BodiesDone
  \/ FirstPass \/ Rewind \/ SecondPass \/ WriteBin \/ WriteElf \/ LoadImage
  \/ Debug \/ Command \/ RunOn \/ Receive \/ ReceiveGarbled \/ StubRunOn
  \/ CalculateStep \/ AccessStep \/ JumpStep \/ OutputStep \/ StopStep \/ IdleStep
  \/ CallStep \/ ReturnStep \/ GotoStep
  \/ ReadToken \/ NoToken \/ ReadText \/ ReadNumber \/ TextRead
  \/ ReadForeign \/ EarlyOption \/ OptionsAgain \/ LateOption \/ OptionsRead
  \/ HostStep

Spec == Init /\ [][Next]_vars

-----------------------------------------------------------------------------
Stopped == stage = "run" /\ m.halted

IsNumbers(t) == t.k = "int" \/ (t.k = "arr" /\ t.of.k = "int")

\* What C makes of a project: its declarations, and the texts and numbers its
\* macros stand for.
Written(project) == C!Translated(project)
Strings(macros) ==
  [x \in {y \in DOMAIN macros : macros[y] # <<>> /\ Head(macros[y]).k = "text"} |-> Head(macros[x]).n]
Numbers(macros) ==
  [x \in {y \in DOMAIN macros \ DOMAIN Strings(macros) : macros[y] # <<>>} |-> C!Number(C!Replaced(macros, macros[x]))]

\* Of a source in which conditions close again the preprocessor keeps the
\* declarations that C keeps, whatever blocks and headers they stand in, and
\* its macros stand for the numbers and texts they stand for in C
\* (pp_process_file, ce_expr, macro_string_value).
PreprocessedAsWritten ==
  (stage = "preprocessed" /\ line = 1) =>
    LET want == Written(CPrograms[source[2]])
    IN /\ pp.out = want.defs
       /\ \A x \in DOMAIN Numbers(want.macros) :
            IsNumber(pp.macros, x) /\ Wrap(macro_value(pp.macros, x)) = Numbers(want.macros)[x]
       /\ \A x \in DOMAIN Strings(want.macros) :
            IsText(pp.macros, x) /\ macro_string_value(pp.macros, x) = Strings(want.macros)[x]

\* A program of the C subset leaves in R7 what its main returns, and in its
\* global integers and arrays what C says it stored there, whatever
\* registers, frames, spills, labels and jumps the compiler chose (cc.c,
\* asm.c, execute() of sim.c).
Leaves(want) ==
  /\ m.reg[REG_RET] = want.value
  /\ \A x \in DOMAIN want.globals :
       IsNumbers(want.globals[x].t) =>
         \A k \in DOMAIN want.globals[x].cells : Read(m, symbols[x] + k - 1) = want.globals[x].cells[k]
WantedOf(written) == C!Outcome(written.defs, Numbers(written.macros), Strings(written.macros))
RunsAsWritten == (Stopped /\ source[1] = "c") => Leaves(WantedOf(Written(CPrograms[source[2]])))

\* What an assembler source shows is what its lines mean, whatever words they
\* have become and wherever the labels have come to stand; and whoever
\* follows the header of an ELF file to its sections finds the words there
\* and each label with its address in bytes of memory (process_line,
\* run_pass and write_elf of asm.c, execute() of sim.c).
FileShows(file) ==
  /\ A!ElfText(file) = pass.out
  /\ A!ElfSymbols(file) = {<<t, 8 * pass.labels[t]>> : t \in DOMAIN pass.labels}
AssembledAsWritten ==
  /\ (Stopped /\ source[1] = "asm") => m.out = A!Shown(AsmPrograms[source[2]])
  /\ stage = "elf" => FileShows(asm)

\* A program in x86-64, ARM64 or RISC-V assembly, translated, leaves in the
\* registers it names what its own architecture would leave there, whatever
\* registers of the machine they are and whatever scratch registers and
\* stacks the translator and the assembler use besides (translate_x86,
\* translate_arm, translate_riscv of translator.c).
Resting == Stopped \/ (stage = "run" /\ "end" \in DOMAIN symbols /\ m.pc = symbols["end"])
LeavesRegisters(arch, want) == \A r \in DOMAIN want : m.reg[T!register(arch, r)] = want[r]
TranslatedAsWritten ==
  (Resting /\ source[1] = "guest") =>
    LeavesRegisters(GuestPrograms[source[2]].arch, F!Outcome(GuestPrograms[source[2]]))

\* A WebAssembly module, translated, leaves as the result of its main and in
\* its globals what WebAssembly leaves there, whatever registers its stack
\* has come to lie in and whatever frames hold it during calls
\* (wasm_translate_module of translator.c).
LeavesModule(want) ==
  /\ want.result # <<>> => m.reg[7] = want.result[1]
  /\ \A k \in DOMAIN want.globals : Read(m, W!GLOBAL_WORD_BASE + k - 1) = want.globals[k]
ModuleAsWritten ==
  (Stopped /\ source[1] = "wasm") => LeavesModule(F!ModuleOutcome(ModuleSections))

\* At every prompt a debugger has shown what a user asks for who knows only
\* the program: where it stops among the places and accesses named, however
\* often they were set and cleared, and what registers, memory, history and
\* instructions are there; a packet that was damaged counts for nothing
\* (main, cpu_step and disasm of dbg.c; rsp_loop of gdb_stub.c).
Acknowledged == SelectSeq(session.d.shown, LAMBDA r : r # <<"+">> /\ r # Refusal)
DebuggedAsAsked ==
  AtPrompt =>
    Acknowledged = A!Session(FrontEnd, m, Sessions[source[2]].lines, [k \in DOMAIN session.asked |-> Askable[session.asked[k]]])

\* A text is read as what is written in it: operators as long as they can
\* be, whatever comments and lines of the preprocessor stand between tokens;
\* lines of assembly in either case, with numbers to any base; lines of
\* foreign assembly with their marks; numbers of a module in as many bytes as
\* one likes; options in any order, each setting what it sets alone, although
\* they are read in two passes.  What nobody could have written is refused
\* (lex_next of cc.c, process_line of asm.c, compiler_translate_source,
\* read_uleb128 and read_sleb128 of translator.c, main of sim.c).
Meant(x) ==
  CASE x.reader = "signs" -> C!Munched(x.text)
    [] x.reader = "tokens" -> [k \in DOMAIN x.tokens |-> x.tokens[k][2]]
    [] x.reader = "line" -> x.labels \o <<x.item>>
    [] x.reader = "foreign" -> x.labels \o <<x.l>>
    [] x.reader = "options" -> FlattenSeq([k \in DOMAIN x.given |-> x.given[k].sets])
    [] x.reader \in {"unsigned", "signed"} -> x.numbers
\* Of settings the order counts among those of one name.
ByName(settings) ==
  [name \in {setting[1] : setting \in Range(settings)} |-> SelectSeq(settings, LAMBDA setting : setting[1] = name)]
Agree(x, found) == IF x.reader = "options" THEN ByName(found) = ByName(Meant(x)) ELSE found = Meant(x)
ReadAsWritten ==
  source[1] = "text" =>
    /\ stage = "read" => ~Texts[source[2]].wrong /\ Agree(Texts[source[2]], asm)
    /\ stage = "refused" => Texts[source[2]].wrong

=============================================================================
