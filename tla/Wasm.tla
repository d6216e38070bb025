-------------------------------- MODULE Wasm --------------------------------
(***************************************************************************)
(* The translation of a WebAssembly module (compiler/translator.c): its    *)
(* sections are read one by one, then each function body instruction by    *)
(* instruction.  The value stack lives in R4 to R24, by the depth known at *)
(* translation; locals in a frame of FRAME_WORDS; globals at fixed         *)
(* addresses.  A section is a record here, an instruction [op, t, n, ns] its*)
(* operator, type, number (index, constant, offset, results of a block)    *)
(* and, of br_table, its depths; Lexer reads the bytes that they are in.   *)
(* Numbers are scaled with the machine: i64 has BITS bits, i32 half of it. *)
(***************************************************************************)
EXTENDS Assembler

HALF == BITS \div 2

MAX_TYPES == 512
MAX_FUNCTIONS == 4096
MAX_PARAMS == 16
MAX_TABLE_ENTRIES == 1024
MAX_GLOBALS == 256
FRAME_WORDS == 1024
SCRATCH_BASE == 768
OUTGOING_BASE == 896
GLOBAL_WORD_BASE == 61440
MAX_DEPTH == 20
MAX_CONTROLS == 256

Instr(op, t, n) == [op |-> op, t |-> t, n |-> n, ns |-> <<>>]
BrTable(depths) == [op |-> "br_table", t |-> "", n |-> 0, ns |-> depths]
Code(locals, ops) == [locals |-> locals, ops |-> ops]

-----------------------------------------------------------------------------
(* wasm_parse_module *)

NoModule ==
  [types |-> <<>>, functions |-> <<>>, imported |-> 0, defined |-> 0, globals |-> <<>>, table |-> <<>>, entry |-> <<>>,
   code |-> <<>>, bad |-> FALSE]

Bad(info) == [info EXCEPT !.bad = TRUE]

\* Only constants initialise a global or place an element.
IsConstant(e) == e.op = "const"

\* Imports of tables, memories and globals are read over.
ImportedFunctions(list) == SelectSeq(list, LAMBDA e : e.kind = "func")
Typed(list) == [k \in DOMAIN list |-> list[k].type]

Imports(info, list) ==
  IF Len(info.functions) + Len(ImportedFunctions(list)) > MAX_FUNCTIONS THEN Bad(info)
  ELSE [info EXCEPT !.functions = @ \o Typed(ImportedFunctions(list)), !.imported = @ + Len(ImportedFunctions(list))]

Types(info, list) ==
  IF Len(list) > MAX_TYPES \/ (\E k \in DOMAIN list : list[k].params > MAX_PARAMS \/ list[k].results > 1) THEN Bad(info)
  ELSE [info EXCEPT !.types = list]

Functions1(info, list) ==
  IF Len(info.functions) + Len(list) > MAX_FUNCTIONS THEN Bad(info)
  ELSE [info EXCEPT !.functions = @ \o list, !.defined = Len(list)]

Globals(info, list) ==
  IF Len(list) > MAX_GLOBALS \/ (\E k \in DOMAIN list : ~IsConstant(list[k].init)) THEN Bad(info)
  ELSE [info EXCEPT !.globals = list]

\* The last export of that name counts.
Exports(info, list) ==
  LET mains == SelectSeq(list, LAMBDA e : e.kind = "func" /\ e.name = "kernel_main")
  IN IF mains = <<>> THEN info ELSE [info EXCEPT !.entry = <<Last(mains).index>>]

\* An active segment puts functions from its offset on; a gap keeps 0.
TableWith(table, at, entries) ==
  LET end == IF entries = <<>> THEN Len(table) ELSE Max({Len(table), at + Len(entries)})
  IN [k \in 1..end |-> CASE k \in (at + 1)..(at + Len(entries)) -> entries[k - at]
                         [] k \notin (at + 1)..(at + Len(entries)) /\ k \in DOMAIN table -> table[k]
                         [] OTHER -> 0]
Elements(info, seg) ==
  IF ~seg.active \/ ~IsConstant(seg.offset) \/ seg.offset.n < 0
     \/ seg.offset.n + Len(seg.entries) > MAX_TABLE_ENTRIES THEN Bad(info)
  ELSE [info EXCEPT !.table = TableWith(@, seg.offset.n, seg.entries)]

\* Sections of other kinds are skipped.
Section(info, s) ==
  CASE s.id = "import" -> Imports(info, s.list)
    [] s.id = "type" -> Types(info, s.list)
    [] s.id = "function" -> Functions1(info, s.list)
    [] s.id = "global" -> Globals(info, s.list)
    [] s.id = "export" -> Exports(info, s.list)
    [] s.id = "element" -> Elements(info, s.list)
    [] s.id = "code" -> [info EXCEPT !.code = s.list]
    [] OTHER -> info

\* A module that can be translated has a main, a body for every function it
\* defines, and a type for every function.
Complete(info) ==
  /\ ~info.bad /\ info.defined > 0 /\ info.entry # <<>>
  /\ Len(info.code) = info.defined
  /\ \A k \in DOMAIN info.functions : info.functions[k] < Len(info.types)

\* wasm_function_type; the type of a function there is not has no parameters.
HasType(info, index) == index < Len(info.functions)
wasm_function_type(info, index) == info.types[info.functions[index + 1] + 1]

-----------------------------------------------------------------------------
(* State of a function's translation *)

FunctionLabel(index) == "wasm_func_" \o ToString(index)
ReturnLabel(f) == "wasm_return_" \o ToString(f.index)
LabelOf(what, f, id) == "wasm_" \o what \o "_" \o ToString(f.index) \o "_" \o ToString(id)

Emitted(f, lines) == [f EXCEPT !.out = @ \o lines]
Failed(f) == [f EXCEPT !.dead = TRUE]
TOP(f) == 3 + f.depth
POP(f) == [f EXCEPT !.depth = Max({@ - 1, 0})]
Pushing(f, lines) == [f EXCEPT !.depth = @ + 1, !.out = @ \o lines]

Li(r, v) == Ins("LI", r, 0, 0, v)
Copied(r, a) == Ins("MOV", r, a, 0, 0)
Three(op, d, a, b) == Ins(op, d, a, b, 0)
To(op, r, t) == Named(op, r, 0, 0, t)
LoadAt(r, base, i) == Ins("LOAD", r, base, 0, i)
StoreAt(r, base, i) == Ins("STORE", r, base, 0, i)

\* wasm_emit_frame_load, wasm_emit_frame_store
FrameAccess(op, r, base, offset) ==
  IF offset <= 1023 THEN <<Ins(op, r, base, 0, offset)>>
  ELSE <<Ins("MOVI", 28, 0, 0, offset), Three("ADD", 28, base, 28), Ins(op, r, 28, 0, 0)>>

\* The first four parameters come in registers, the others in the caller's frame.
ParameterLines(i) ==
  IF i < 4 THEN <<StoreAt(i + 1, 29, 2 + i)>>
  ELSE FrameAccess("LOAD", 28, 31, FRAME_WORDS + OUTGOING_BASE + i) \o FrameAccess("STORE", 28, 29, 2 + i)
Prologue(params) ==
  <<Li(28, -FRAME_WORDS), Three("ADD", 31, 31, 28), StoreAt(30, 31, 0), StoreAt(29, 31, 1), Copied(29, 31)>>
  \o FoldLeft(LAMBDA lines, i : lines \o ParameterLines(i - 1), <<>>, [i \in 1..params |-> i])

Control(kind, id) == [kind |-> kind, id |-> id, else |-> FALSE]

NoFunction == [index |-> 0, params |-> 0, results |-> 0, locals |-> 0, depth |-> 0, labels |-> 0, serial |-> 0,
               controls |-> <<>>, out |-> <<>>, dead |-> FALSE]
BeginFunction(index, type, locals) ==
  [NoFunction EXCEPT !.index = index, !.params = type.params, !.results = type.results, !.locals = locals,
                     !.labels = 1, !.controls = <<Control("function", 0)>>,
                     !.out = <<Label(FunctionLabel(index))>> \o Prologue(type.params),
                     !.dead = locals > FRAME_WORDS]

Epilogue(f) ==
  <<Label(ReturnLabel(f)), LoadAt(30, 29, 0), LoadAt(28, 29, 1), Ins("MOVI", 1, 0, 0, FRAME_WORDS),
    Three("ADD", 31, 31, 1), Copied(29, 28), Ins("JALR", 0, 30, 0, 0)>>

StartLines(entry) ==
  <<Directive("TEXT", 0), Label("_wasm_start"), Named("MOVI", 28, 0, 0, FunctionLabel(entry)), Ins("JALR", 30, 28, 0, 0),
    Ins("HALT", 0, 0, 0, 0)>>

-----------------------------------------------------------------------------
(* Arithmetic *)

Operations ==
  [add |-> "ADD", sub |-> "SUB", mul |-> "MUL", div_s |-> "DIV", div_u |-> "DIVU", rem_s |-> "REM", rem_u |-> "REMU",
   and |-> "AND", or |-> "OR", xor |-> "XOR", eq |-> "CMPEQ", ne |-> "CMPNE", lt_s |-> "CMPLT", lt_u |-> "CMPLTU",
   le_s |-> "CMPLE", le_u |-> "CMPLEU"]
Reversed == [gt_s |-> "CMPLT", gt_u |-> "CMPLTU", ge_s |-> "CMPLE", ge_u |-> "CMPLEU"]

\* i32 and i64 alike: nothing is cut to 32 bits.
Combine(f, op) == POP(Emitted(f, <<Three(Operations[op], TOP(f) - 1, TOP(f) - 1, TOP(f))>>))
CombineReversed(f, op) == POP(Emitted(f, <<Three(Reversed[op], TOP(f) - 1, TOP(f), TOP(f) - 1)>>))
IsZero(f) == Emitted(f, <<Three("CMPEQ", TOP(f), TOP(f), 0)>>)

MaskLines(r) == <<Li(28, -1), Ins("SHR", 28, 28, 0, HALF), Three("AND", r, r, 28)>>
Masked(width, r) == IF width = HALF THEN MaskLines(r) ELSE <<>>

\* wasm_emit_variable_shift: a loop that moves one bit at a time.
OneBit(mode) == Ins(IF mode \in {"shl", "rotl"} THEN "SHL" ELSE "SHR", 27, 27, 0, 1)
Tested(mode, width) ==
  CASE mode = "rotl" -> <<Ins("BTEST", 25, 27, 0, width - 1)>> [] mode = "rotr" -> <<Ins("BTEST", 25, 27, 0, 0)>> [] OTHER -> <<>>
FilledBit(mode, width) == IF mode = "rotl" THEN 0 ELSE width - 1
Filled(mode, width, t) ==
  IF mode \in {"shl", "shr_u"} THEN <<>>
  ELSE <<To("JZ", 25, t), Ins("BSET", 27, 27, 0, FilledBit(mode, width)), Label(t)>>
ShiftLoop(mode, width, loop, nofill, end) ==
  <<Label(loop), Three("CMPEQ", 28, 26, 0), To("JNZ", 28, end)>>
  \o Tested(mode, width) \o <<OneBit(mode)>> \o Filled(mode, width, nofill)
  \o <<Ins("DEC", 26, 0, 0, 0), To("JMP", 0, loop), Label(end)>>
variable_shift(dst, value, count, width, mode, loop, nofill, end) ==
  <<Copied(26, count), Copied(27, value), Li(28, width - 1), Three("AND", 26, 26, 28)>>
  \o Masked(width, 27)
  \o (IF mode = "shr_s" THEN <<Ins("BTEST", 25, 27, 0, HALF - 1)>> ELSE <<>>)
  \o ShiftLoop(mode, width, loop, nofill, end)
  \o Masked(width, 27) \o <<Copied(dst, 27)>>

Shifts == {"shl", "shr_s", "shr_u", "rotl", "rotr"}
Width(t) == IF t = "i32" THEN HALF ELSE BITS
Shift(f, mode, t) ==
  [POP(Emitted(f, variable_shift(TOP(f) - 1, TOP(f) - 1, TOP(f), Width(t), mode,
                                 LabelOf("shift_loop", f, f.serial), LabelOf("shift_nofill", f, f.serial),
                                 LabelOf("shift_end", f, f.serial))))
     EXCEPT !.serial = @ + 1]

\* wasm_emit_narrow_sign_extend
narrow_sign_extend(r, bits, sign, done) ==
  <<Li(28, -1), Ins("SHR", 28, 28, 0, BITS - bits), Three("AND", r, r, 28), Ins("BTEST", 27, r, 0, bits - 1),
    To("JNZ", 27, sign), To("JMP", 0, done), Label(sign), Li(28, -1), Li(26, -1), Ins("SHR", 26, 26, 0, BITS - bits),
    Three("XOR", 28, 28, 26), Three("OR", r, r, 28), Label(done)>>
SignExtended(f, bits) ==
  [Emitted(f, narrow_sign_extend(TOP(f), bits, LabelOf("sign", f, f.serial), LabelOf("sign_done", f, f.serial)))
     EXCEPT !.serial = @ + 1]
NarrowBits == [extend8_s |-> BITS \div 8, extend16_s |-> BITS \div 4, extend32_s |-> HALF]

Extended(f) ==
  [Emitted(f, MaskLines(TOP(f))
              \o <<Ins("BTEST", 25, TOP(f), 0, HALF - 1), To("JNZ", 25, LabelOf("extend_sign", f, f.serial)),
                   To("JMP", 0, LabelOf("extend_done", f, f.serial)), Label(LabelOf("extend_sign", f, f.serial)),
                   Li(28, -1), Ins("SHL", 28, 28, 0, HALF), Three("OR", TOP(f), TOP(f), 28),
                   Label(LabelOf("extend_done", f, f.serial))>>)
     EXCEPT !.serial = @ + 1]

Constant(f, n) == Pushing(f, <<Ins(IF n \in -1024..1023 THEN "LI" ELSE "MOVI", TOP(f) + 1, 0, 0, n)>>)

-----------------------------------------------------------------------------
(* Locals, globals and memory *)

HasLocal(f, n) == n < f.params + f.locals
LocalGet(f, n) ==
  IF ~HasLocal(f, n) THEN Failed(f) ELSE Pushing(f, <<LoadAt(TOP(f) + 1, 29, 2 + n)>>)
LocalTee(f, n) ==
  IF ~HasLocal(f, n) \/ f.depth <= 0 THEN Failed(f) ELSE Emitted(f, <<StoreAt(TOP(f), 29, 2 + n)>>)

GlobalAddress(n) == Ins("MOVI", 28, 0, 0, GLOBAL_WORD_BASE + n)
GlobalGet(info, f, n) ==
  IF n >= Len(info.globals) THEN Failed(f) ELSE Pushing(f, <<GlobalAddress(n), LoadAt(TOP(f) + 1, 28, 0)>>)
GlobalSet(info, f, n) ==
  IF n >= Len(info.globals) \/ ~info.globals[n + 1].mutable \/ f.depth <= 0 THEN Failed(f)
  ELSE POP(Emitted(f, <<GlobalAddress(n), StoreAt(TOP(f), 28, 0)>>))

AddressLines(r, offset) == <<Ins("MOVI", 28, 0, 0, offset), Three("ADD", 28, r, 28)>>
Bytes(op, t) == IF t = "i64" /\ op \in {"load", "store"} THEN WORD_BYTES ELSE WORD_BYTES \div 2

\* wasm_emit_load_bytes: the byte at the lower address is the lower one.
LoadedByte(dst, i) ==
  <<Ins("LOADB", 25, 28, 0, i)>> \o (IF i = 0 THEN <<>> ELSE <<Ins("SHL", 25, 25, 0, 8 * i)>>) \o <<Three("OR", dst, dst, 25)>>
load_bytes(dst, bytes) ==
  <<Copied(28, 28), Ins("CLR", dst, 0, 0, 0)>>
  \o FoldLeft(LAMBDA lines, i : lines \o LoadedByte(dst, i - 1), <<>>, [i \in 1..bytes |-> i])
Loaded1(f, op, t, offset) ==
  Emitted(f, AddressLines(TOP(f), offset) \o load_bytes(TOP(f), Bytes(op, t)))
\* The number of labels grows for each load.
LoadWasm(f, op, t, offset) ==
  IF op = "load32_s" THEN SignExtended(Loaded1(f, op, t, offset), 8 * Bytes(op, t))
  ELSE [Loaded1(f, op, t, offset) EXCEPT !.serial = @ + 1]

\* wasm_emit_store_bytes
StoredByte(bytes, i) ==
  <<Ins("STOREB", 27, 28, 0, i)>> \o (IF i + 1 < bytes THEN <<Ins("SHR", 27, 27, 0, 8)>> ELSE <<>>)
store_bytes(value, bytes) ==
  <<Copied(28, 28), Copied(27, value)>>
  \o FoldLeft(LAMBDA lines, i : lines \o StoredByte(bytes, i - 1), <<>>, [i \in 1..bytes |-> i])
StoreWasm(f, op, t, offset) ==
  POP(POP(Emitted(f, AddressLines(TOP(f) - 1, offset) \o store_bytes(TOP(f), Bytes(op, t)))))

\* wasm_emit_memory_copy
memory_copy(dst, src, length, loop, done) ==
  <<Copied(25, dst), Copied(26, src), Copied(27, length), Label(loop), To("JZ", 27, done), Ins("LOADB", 28, 26, 0, 0),
    Ins("STOREB", 28, 25, 0, 0), Ins("INC", 25, 0, 0, 0), Ins("INC", 26, 0, 0, 0), Ins("DEC", 27, 0, 0, 0),
    To("JMP", 0, loop), Label(done)>>
MemoryCopy(f) ==
  IF f.depth < 3 THEN Failed(f)
  ELSE [POP(POP(POP(Emitted(f, memory_copy(TOP(f) - 2, TOP(f) - 1, TOP(f), LabelOf("memcpy_loop", f, f.labels),
                                           LabelOf("memcpy_done", f, f.labels))))))
          EXCEPT !.labels = @ + 1]

-----------------------------------------------------------------------------
(* Calls *)

\* All live values are kept in the frame, and read back after the call.
Preserved(depth) == [i \in 1..depth |-> StoreAt(3 + i, 29, SCRATCH_BASE + i - 1)]
\* MUTANT: what the callee did to the registers of the stack stays.
RestoredNever(depth) == <<>>
Restored(depth) == [i \in 1..depth |-> LoadAt(3 + i, 29, SCRATCH_BASE + i - 1)]

ArgumentLines(i, slot) ==
  IF i < 4 THEN <<LoadAt(i + 1, 29, SCRATCH_BASE + slot)>>
  ELSE <<LoadAt(28, 29, SCRATCH_BASE + slot), StoreAt(28, 29, OUTGOING_BASE + i)>>
Arguments(params, first) ==
  FoldLeft(LAMBDA lines, i : lines \o ArgumentLines(i - 1, first + i - 1), <<>>, [i \in 1..params |-> i])

\* The result comes in R7.
ResultLines(type, depth) == IF type.results > 0 THEN <<Copied(3 + depth, 7)>> ELSE <<>>
Returned1(f, type, depth, lines) == [Emitted(f, lines \o ResultLines(type, depth)) EXCEPT !.depth = depth]

CallOf(index) == <<Named("MOVI", 28, 0, 0, FunctionLabel(index)), Ins("JALR", 30, 28, 0, 0)>>
CallTyped(f, index, type) ==
  IF f.depth < type.params THEN Failed(f)
  ELSE Returned1(f, type, f.depth - type.params + type.results,
                 Preserved(f.depth) \o Arguments(type.params, f.depth - type.params) \o CallOf(index) \o Restored(f.depth))
CallWasm(info, f, index) ==
  IF index < info.imported \/ ~HasType(info, index) THEN Failed(f)
  ELSE CallTyped(f, index, wasm_function_type(info, index))

\* Each entry of the table is compared with the selector in turn.
DispatchLines(f, i, target, done, next) ==
  <<Li(25, i), Three("CMPEQ", 25, 26, 25), To("JZ", 25, next)>> \o CallOf(target) \o <<To("JMP", 0, done), Label(next)>>
Dispatch(f, table, done) ==
  FoldLeft(LAMBDA lines, i :
             lines \o DispatchLines(f, i - 1, table[i], done,
                                    LabelOf("indirect_next", f, f.labels + 1) \o "_" \o ToString(i)),
           <<>>, [i \in DOMAIN table |-> i])
CallSelected(f, type, table, done) ==
  IF f.depth < type.params + 1 THEN Failed(f)
  ELSE [Returned1(f, type, f.depth - type.params - 1 + type.results,
                  Preserved(f.depth) \o Arguments(type.params, f.depth - 1 - type.params)
                  \o <<LoadAt(26, 29, SCRATCH_BASE + f.depth - 1)>> \o Dispatch(f, table, done)
                  \o <<Ins("HALT", 0, 0, 0, 0), Label(done)>> \o Restored(f.depth))
          EXCEPT !.labels = @ + 1]
\* Every function of the table must have the type that is called.
Compatible(info, type) ==
  \A k \in DOMAIN info.table : HasType(info, info.table[k]) /\ wasm_function_type(info, info.table[k]) = type
CallIndirect(info, f, n) ==
  IF n >= Len(info.types) THEN Failed(f)
  ELSE IF ~Compatible(info, info.types[n + 1]) THEN Failed(f)
  ELSE CallSelected(f, info.types[n + 1], info.table, LabelOf("indirect_done", f, f.labels))

-----------------------------------------------------------------------------
(* Control *)

\* A branch goes to the start of a loop and to the end of anything else.
TargetLabel(f, c) ==
  CASE c.kind = "loop" -> LabelOf("start", f, c.id)
    [] c.kind = "function" -> ReturnLabel(f)
    [] OTHER -> LabelOf("end", f, c.id)
HasControl(f, n) == n < Len(f.controls)
BranchTarget(f, n) == TargetLabel(f, f.controls[Len(f.controls) - n])

Opened(f, kind, lines) ==
  IF Len(f.controls) >= MAX_CONTROLS THEN Failed(f)
  ELSE [Emitted(f, lines) EXCEPT !.controls = Append(@, Control(kind, f.labels)), !.labels = @ + 1]
Block(f, kind) == Opened(f, kind, IF kind = "loop" THEN <<Label(LabelOf("start", f, f.labels))>> ELSE <<>>)
If(f) ==
  IF f.depth <= 0 THEN Failed(f)
  ELSE POP(Opened(f, "if", <<Named("BEQ", TOP(f), 0, 0, LabelOf("else", f, f.labels))>>))

\* The depth goes on from the end of the first branch.
ElseOf(f, c) ==
  [Emitted(f, <<To("JMP", 0, LabelOf("end", f, c.id)), Label(LabelOf("else", f, c.id))>>)
     EXCEPT !.controls[Len(f.controls)].else = TRUE]
ElseWasm(f) ==
  IF Len(f.controls) <= 1 THEN Failed(f)
  ELSE IF Last(f.controls).kind # "if" \/ Last(f.controls).else THEN Failed(f)
  ELSE ElseOf(f, Last(f.controls))

EndLines(f, c) ==
  (IF c.kind = "if" /\ ~c.else THEN <<Label(LabelOf("else", f, c.id))>> ELSE <<>>)
  \o (IF c.kind = "function" THEN <<>> ELSE <<Label(LabelOf("end", f, c.id))>>)
End(f) ==
  IF f.controls = <<>> THEN Failed(f)
  ELSE [Emitted(f, EndLines(f, Last(f.controls))) EXCEPT !.controls = Front(@)]

Br(f, n) == IF ~HasControl(f, n) THEN Failed(f) ELSE Emitted(f, <<To("JMP", 0, BranchTarget(f, n))>>)
BrIf(f, n) ==
  IF f.depth <= 0 \/ ~HasControl(f, n) THEN Failed(f)
  ELSE POP(Emitted(f, <<Named("BNE", TOP(f), 0, 0, BranchTarget(f, n))>>))

\* The selector is compared with each index; the last depth is the default.
CaseLines(f, i, n) ==
  <<Ins("MOVI", 28, 0, 0, i), Three("CMPEQ", 28, TOP(f), 28), To("JNZ", 28, BranchTarget(f, n))>>
BrTableOf(f, ns) ==
  IF f.depth <= 0 \/ (\E k \in DOMAIN ns : ~HasControl(f, ns[k])) THEN Failed(f)
  ELSE POP(Emitted(f, FoldLeft(LAMBDA lines, i : lines \o CaseLines(f, i - 1, ns[i]), <<>>, [i \in 1..(Len(ns) - 1) |-> i])
                      \o <<To("JMP", 0, BranchTarget(f, Last(ns)))>>))

ReturnWasm(f) ==
  IF f.results > 0 /\ f.depth <= 0 THEN Failed(f)
  ELSE [Emitted(f, (IF f.results > 0 THEN <<Copied(7, TOP(f))>> ELSE <<>>) \o <<To("JMP", 0, ReturnLabel(f))>>)
          EXCEPT !.depth = 0]

SelectWasm(f) ==
  IF f.depth < 3 THEN Failed(f)
  ELSE [POP(POP(Emitted(f, <<To("JZ", TOP(f), LabelOf("select_false", f, f.labels)),
                             To("JMP", 0, LabelOf("select_done", f, f.labels)),
                             Label(LabelOf("select_false", f, f.labels)), Copied(TOP(f) - 2, TOP(f) - 1),
                             Label(LabelOf("select_done", f, f.labels))>>)))
          EXCEPT !.labels = @ + 1]

-----------------------------------------------------------------------------
(* wasm_translate_function: one instruction *)

Calculating(f, op, t, n) ==
  CASE op \in DOMAIN Operations -> Combine(f, op)
    [] op \in DOMAIN Reversed -> CombineReversed(f, op)
    [] op \in Shifts -> Shift(f, op, t)
    [] op = "eqz" -> IsZero(f)
    [] op = "const" -> Constant(f, n)
    [] op \in {"wrap", "extend_u"} -> Emitted(f, MaskLines(TOP(f)))
    [] op = "extend_s" -> Extended(f)
    [] op \in DOMAIN NarrowBits -> SignExtended(f, NarrowBits[op])
Calculations ==
  DOMAIN Operations \cup DOMAIN Reversed \cup Shifts \cup {"eqz", "const", "wrap", "extend_u", "extend_s"}
  \cup DOMAIN NarrowBits

Moving(info, f, op, t, n) ==
  CASE op = "local.get" -> LocalGet(f, n)
    [] op = "local.tee" -> LocalTee(f, n)
    [] op = "local.set" -> POP(LocalTee(f, n))
    [] op = "global.get" -> GlobalGet(info, f, n)
    [] op = "global.set" -> GlobalSet(info, f, n)
    [] op \in {"load", "load32_s", "load32_u"} -> LoadWasm(f, op, t, n)
    [] op \in {"store", "store32"} -> StoreWasm(f, op, t, n)
    [] op = "memory.copy" -> MemoryCopy(f)
    [] op = "select" -> SelectWasm(f)
    [] op = "drop" -> IF f.depth <= 0 THEN Failed(f) ELSE POP(f)
    [] op = "nop" -> Emitted(f, <<Ins("NOP", 0, 0, 0, 0)>>)
Moves == {"local.get", "local.tee", "local.set", "global.get", "global.set", "load", "load32_s", "load32_u",
          "store", "store32", "memory.copy", "select", "drop", "nop"}

Leading(info, f, op, n, ns) ==
  CASE op \in {"block", "loop"} -> Block(f, op)
    [] op = "if" -> If(f)
    [] op = "else" -> ElseWasm(f)
    [] op = "end" -> End(f)
    [] op = "br" -> Br(f, n)
    [] op = "br_if" -> BrIf(f, n)
    [] op = "br_table" -> BrTableOf(f, ns)
    [] op = "return" -> ReturnWasm(f)
    [] op = "call" -> CallWasm(info, f, n)
    [] op = "call_indirect" -> CallIndirect(info, f, n)
    [] op = "unreachable" -> Emitted(f, <<Ins("HALT", 0, 0, 0, 0)>>)

\* The operators that have a number; there is no half of a word below i32
\* here, and so no load or store of 8 or 16 bits.
Operators ==
  Calculations \cup Moves
  \cup {"block", "loop", "if", "else", "end", "br", "br_if", "br_table", "return", "call", "call_indirect", "unreachable"}

\* The value stack has as many places as there are registers for it.
Translate(info, f, i) ==
  IF f.depth > MAX_DEPTH \/ i.op \notin Operators THEN Failed(f)
  ELSE IF i.op \in Calculations THEN Calculating(f, i.op, i.t, i.n)
  ELSE IF i.op \in Moves THEN Moving(info, f, i.op, i.t, i.n)
  ELSE Leading(info, f, i.op, i.n, i.ns)
=============================================================================
