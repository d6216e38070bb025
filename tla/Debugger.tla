------------------------------ MODULE Debugger ------------------------------
(***************************************************************************)
(* The two debuggers.  The interactive one (src/dbg.c) loads an image into *)
(* a CPU of its own, and steps, runs up to breakpoints, shows and changes  *)
(* it.  The text of commands and of what is shown is left out: a command is*)
(* a record [c, x, y], and what it prints a sequence.  The other, the stub *)
(* of GDB, is in the second half.                                          *)
(***************************************************************************)
EXTENDS Machine, SequencesExt

CONSTANTS MAX_BP,      \* breakpoints there is room for
          HISTORY_LEN, \* instructions that are remembered
          MAX_BREAKPOINTS, MAX_WATCHPOINTS \* of the stub

\* pc has 32 bits in the code, more than an address has, and so it has here.
PC_SIZE == 2^20
IO_PORTS == 256

\* An argument that is not there leaves its default as it is.
Absent == -1
Cmd(c, x, y) == [c |-> c, x |-> x, y |-> y]
Default(x, default) == IF x = Absent THEN default ELSE x

\* cpu_reset and load_bin
Started(m) ==
  [cpu |-> m, ports |-> [p \in {} |-> 0], cycles |-> 0, bps |-> <<>>, hist |-> [k \in {} |-> <<>>], head |-> 0, size |-> 0]

-----------------------------------------------------------------------------
(* cpu_execute *)

Moved(m, distance) == [m EXCEPT !.pc = (@ + distance) % PC_SIZE]
InMemory(at) == at % MEM_SIZE
Top(m) == InMemory(m.reg[7])

\* On no flags, everything but memory, jumps and ports.
Computed(m, w, x, y) ==
  CASE w.op = "ADD" -> [Set(m, w.d, Sum(x, y)) EXCEPT !.flags = AddFlags(x, y)]
    [] w.op = "SUB" -> [Set(m, w.d, Difference(x, y)) EXCEPT !.flags = SubFlags(x, y)]
    [] w.op = "MUL" -> [Set(m, w.d, Product(x, y)) EXCEPT !.flags = MulFlags(x, y)]
    [] w.op = "DIV" -> IF y = 0 THEN [m EXCEPT !.halted = TRUE] ELSE Set(m, w.d, Quotient(x, y))
    [] w.op = "AND" -> Set(m, w.d, x & y)
    [] w.op = "OR" -> Set(m, w.d, x | y)
    [] w.op = "XOR" -> Set(m, w.d, x ^^ y)
    [] w.op = "SHL" -> Set(m, w.d, Left(x, w.i % 64))
    [] w.op = "SHR" -> Set(m, w.d, Right(x, w.i % 64))
    [] w.op = "RFLAGS" -> Set(m, w.d, FlagBits(m.flags))
    [] w.op = "LI" -> Set(m, w.d, Wrap(w.i))
Computing == {"ADD", "SUB", "MUL", "DIV", "AND", "OR", "XOR", "SHL", "SHR", "RFLAGS", "LI"}

Transferred(m, w) ==
  CASE w.op = "LOAD" -> Set(m, w.d, Read(m, InMemory(m.reg[w.a] + w.i)))
    [] w.op = "STORE" -> Write(m, InMemory(m.reg[w.a] + w.i), m.reg[w.d])
    [] w.op = "JMP" -> Moved(m, w.i)
    [] w.op = "JZ" -> IF m.reg[w.d] = 0 THEN Moved(m, w.i) ELSE m
    [] w.op = "JNZ" -> IF m.reg[w.d] # 0 THEN Moved(m, w.i) ELSE m
    [] w.op = "CALL" -> Moved(Write([m EXCEPT !.reg[7] = Wrap(@ - 1)], InMemory(m.reg[7] - 1), Wrap(m.pc)), w.i)
    [] w.op = "RET" -> [m EXCEPT !.pc = Read(m, Top(m)), !.reg[7] = Wrap(@ + 1)]
Transferring == {"LOAD", "STORE", "JMP", "JZ", "JNZ", "CALL", "RET"}

PortOf(s, p) == IF p \in DOMAIN s.ports THEN s.ports[p] ELSE 0
Skipping == {"NOP", "ELOAD", "ESTORE"}
IsNop(w) == w.op \in Skipping \/ (w.op = "WORD" /\ w.i = 0)

\* HALT, and any other instruction: there are many that only sim.c knows.
cpu_execute(s, w) ==
  CASE w.op \in Computing -> [s EXCEPT !.cpu = Computed(@, w, @.reg[w.a], @.reg[w.b])]
    [] w.op \in Transferring -> [s EXCEPT !.cpu = Transferred(@, w)]
    [] w.op = "OUT" -> [s EXCEPT !.ports = ((w.i % IO_PORTS) :> s.cpu.reg[w.d]) @@ @]
    [] w.op = "IN" -> [s EXCEPT !.cpu = Set(@, w.d, PortOf(s, w.i % IO_PORTS))]
    [] IsNop(w) -> s
    [] OTHER -> [s EXCEPT !.cpu.halted = TRUE]

\* cpu_step: the instruction goes into the ring of the last ones.
Here(m) == WordAt(m, InMemory(m.pc))
Remembered(s) ==
  [s EXCEPT !.hist = ((s.head % HISTORY_LEN) :> <<s.cpu.pc, Here(s.cpu)>>) @@ @, !.head = @ + 1,
            !.size = IF @ < HISTORY_LEN THEN @ + 1 ELSE @]
cpu_step(s) ==
  IF s.cpu.halted THEN s
  ELSE [cpu_execute([Remembered(s) EXCEPT !.cpu.pc = (@ + 1) % PC_SIZE], Here(s.cpu)) EXCEPT !.cycles = @ + 1]

\* The first breakpoint that is here, or -1; they are numbered from 0.
Hits(s) == {i \in DOMAIN s.bps : s.bps[i].active /\ s.bps[i].at = s.cpu.pc}
bp_hit(s) == IF Hits(s) = {} THEN -1 ELSE (CHOOSE i \in Hits(s) : \A j \in Hits(s) : i <= j) - 1

-----------------------------------------------------------------------------
(* What is shown *)

\* disasm: the fields an instruction has, and where a jump goes to.
disasm(w, at) ==
  CASE w.op \in {"NOP", "HALT", "RET"} -> <<w.op>>
    [] w.op = "RFLAGS" -> <<w.op, w.d>>
    [] w.op \in {"ADD", "SUB", "AND", "OR", "XOR", "MUL", "DIV"} -> <<w.op, w.d, w.a, w.b>>
    [] w.op \in {"SHL", "SHR", "LOAD", "STORE", "ELOAD", "ESTORE"} -> <<w.op, w.d, w.a, w.i>>
    [] w.op = "LI" -> <<w.op, w.d, w.i>>
    [] w.op \in {"JMP", "CALL"} -> <<w.op, w.i, at + 1 + w.i>>
    [] w.op \in {"JZ", "JNZ"} -> <<w.op, w.d, w.i, at + 1 + w.i>>
    [] w.op \in {"OUT", "IN"} -> <<w.op, w.d, w.i % IO_PORTS>>
    [] w.op = "WORD" /\ w.i = 0 -> <<"NOP">>
    [] OTHER -> <<"???", w.op>>

print_status(s) ==
  IF s.cpu.halted THEN <<"halt", s.cycles>> ELSE <<"at", s.cpu.pc, bp_hit(s), disasm(Here(s.cpu), s.cpu.pc)>>
print_regs(s) == <<"regs", s.cpu.reg, s.cpu.flags, s.cpu.pc, s.cycles, s.cpu.halted>>
print_mem(s, at, count) ==
  <<"mem", [k \in 1..count |-> LET a == InMemory(at + k - 1) IN <<a, Read(s.cpu, a)>>]>>
print_bps(s) == <<"bps", SelectSeq([i \in DOMAIN s.bps |-> <<i - 1, s.bps[i]>>], LAMBDA bp : bp[2].active)>>
\* From the newest to the oldest.
Index(s, i) == (s.head - i + (HISTORY_LEN * 2)) % HISTORY_LEN
print_history(s) ==
  <<"hist", [i \in 1..s.size |-> <<s.hist[Index(s, i)][1], disasm(s.hist[Index(s, i)][2], s.hist[Index(s, i)][1])>>]>>
\* An arrow points to the next instruction.
print_disasm(s, at, count) ==
  <<"disasm", [k \in 1..count |->
                 LET a == InMemory(at + k - 1)
                 IN <<a = s.cpu.pc /\ ~s.cpu.halted, a, disasm(WordAt(s.cpu, a), a)>>]>>

-----------------------------------------------------------------------------
(* main: a prompt, and the two commands that run on.  left counts the steps*)
(* that n still has to make.                                               *)

Show(t, what) == [t EXCEPT !.shown = Append(@, what)]
WithStatus(t) == Show([t EXCEPT !.mode = "prompt"], print_status(t.s))
Prompted(m) == WithStatus([s |-> Started(m), mode |-> "prompt", left |-> 0, shown |-> <<>>])
Stepped(t) == [t EXCEPT !.s = cpu_step(@)]

\* The first step gets away from a breakpoint.  n looks at a halt by itself.
Step(t) == IF t.s.cpu.halted THEN Show(t, <<"stopped">>) ELSE WithStatus(Stepped(t))
Continue(t) == IF t.s.cpu.halted THEN Show(t, <<"stopped">>) ELSE [Stepped(t) EXCEPT !.mode = "run"]
StepN(t, n) ==
  IF n = 0 \/ t.s.cpu.halted THEN WithStatus(t) ELSE [Stepped(t) EXCEPT !.mode = "count", !.left = n - 1]

\* One turn of the loops of c and of n.
\* c also says which breakpoint it is.
Arrived(t) ==
  IF t.mode = "run" /\ ~t.s.cpu.halted THEN Show(t, <<"breakpoint", bp_hit(t.s), t.s.cpu.pc>>) ELSE t
RunOn(t) ==
  IF t.s.cpu.halted \/ bp_hit(t.s) >= 0 \/ (t.mode = "count" /\ t.left = 0) THEN WithStatus(Arrived(t))
  ELSE [Stepped(t) EXCEPT !.left = IF t.mode = "count" THEN @ - 1 ELSE @]

AddBreakpoint(t, at) ==
  IF at = Absent THEN Show(t, <<"usage">>)
  ELSE IF Len(t.s.bps) >= MAX_BP THEN Show(t, <<"full">>)
  ELSE Show([t EXCEPT !.s.bps = Append(@, [at |-> at, active |-> TRUE])], <<"bp", Len(t.s.bps), at>>)
\* A place is not used again.
ClearBreakpoint(t, id) ==
  IF id = Absent THEN Show(t, <<"usage">>)
  ELSE IF id >= Len(t.s.bps) THEN Show(t, <<"invalid">>)
  ELSE Show([t EXCEPT !.s.bps[id + 1].active = FALSE], <<"cleared", id>>)

WriteRegister(t, r, v) ==
  IF Absent \in {r, v} THEN Show(t, <<"usage">>)
  ELSE IF r \notin Registers THEN Show(t, <<"invalid">>)
  ELSE IF r = 0 THEN Show(t, <<"zero">>)
  ELSE Show([t EXCEPT !.s.cpu.reg[r] = Wrap(v)], <<"reg", r, Wrap(v)>>)
ReadPort(t, p) ==
  IF p = Absent THEN Show(t, <<"usage">>)
  ELSE IF p >= IO_PORTS THEN Show(t, <<"invalid">>)
  ELSE Show(t, <<"port", p, PortOf(t.s, p)>>)

\* rst keeps memory, and the breakpoints, whose table it does not touch.
ResetCpu(t) ==
  WithStatus(Show([t EXCEPT !.s = [Started([Reset EXCEPT !.mem = t.s.cpu.mem]) EXCEPT !.bps = t.s.bps]], <<"reset">>))

Less(n, limit) == IF n > limit THEN limit ELSE n

Command(t, c) ==
  CASE c.c \in {"", "s"} -> Step(t)
    [] c.c = "n" -> StepN(t, Default(c.x, 1))
    [] c.c = "c" -> Continue(t)
    [] c.c = "b" -> AddBreakpoint(t, c.x)
    [] c.c = "bc" -> ClearBreakpoint(t, c.x)
    [] c.c = "bl" -> Show(t, print_bps(t.s))
    [] c.c = "d" -> Show(t, print_regs(t.s))
    [] c.c = "m" -> Show(t, print_mem(t.s, Default(c.x, t.s.cpu.pc), Less(Default(c.y, 8), 64)))
    [] c.c = "r" -> WriteRegister(t, c.x, c.y)
    [] c.c = "p" -> ReadPort(t, c.x)
    [] c.c = "hist" -> Show(t, print_history(t.s))
    [] c.c = "di" -> Show(t, print_disasm(t.s, Default(c.x, t.s.cpu.pc), Less(Default(c.y, 8), 32)))
    [] c.c = "rst" -> ResetCpu(t)
    [] c.c = "h" -> Show(t, <<"help">>)
    [] c.c = "q" -> [Show(t, <<"bye">>) EXCEPT !.mode = "closed"]
    [] OTHER -> Show(t, <<"unknown">>)

-----------------------------------------------------------------------------
(* The stub through which GDB drives the simulator                         *)
(* (src/simulator/gdb_stub.c, and the functions of sim.c it calls).  A     *)
(* packet is a record; hexadecimal text and sockets are left out.  GDB     *)
(* sends a packet again when it gets "-" for it.  The stub steps cpu_step, *)
(* with the instruction that is fetched ahead.                             *)

RSP_BUF_SIZE == 4096
SIZE_BYTES == MEM_SIZE * WORD_BYTES

Pkt(c, at, n, data) == [c |-> c, at |-> at, n |-> n, data |-> data, bad |-> FALSE]
Garbled(p) == [p EXCEPT !.bad = TRUE]

\* gdb_stub_run: the connection; hit is the address of the last access that
\* was watched.
Connected(m) ==
  [m |-> m, pipe |-> <<>>, bps |-> <<>>, wps |-> <<>>, hit |-> <<>>, mode |-> "prompt", shown |-> <<>>]

rsp_send(g, what) == [g EXCEPT !.shown = Append(@, what)]

-----------------------------------------------------------------------------
(* Breakpoints *)

Holds(g, at) == \E i \in DOMAIN g.bps : g.bps[i] = at
bp_add(g, at) ==
  IF Holds(g, at) THEN rsp_send(g, <<"OK">>)
  ELSE IF Len(g.bps) >= MAX_BREAKPOINTS THEN rsp_send(g, <<"E01">>)
  ELSE rsp_send([g EXCEPT !.bps = Append(@, at)], <<"OK">>)

\* The last entry takes the place of the one that goes.
\* MUTANT: the entries behind it go with it.
WithoutAndBehind(bps, i) == SubSeq(bps, 1, i - 1)
Without(bps, i) == SubSeq([bps EXCEPT ![i] = bps[Len(bps)]], 1, Len(bps) - 1)
FirstAt(bps, at) == CHOOSE i \in DOMAIN bps : bps[i] = at /\ \A j \in 1..(i - 1) : bps[j] # at
bp_remove(g, at) ==
  IF ~Holds(g, at) THEN rsp_send(g, <<"E01">>)
  ELSE rsp_send([g EXCEPT !.bps = Without(@, FirstAt(@, at))], <<"OK">>)

-----------------------------------------------------------------------------
(* Watchpoints *)

Watch(at, len, type) == [at |-> at, len |-> len, type |-> type, active |-> TRUE]
Watching(g, w) == {i \in DOMAIN g.wps : g.wps[i] = w}
wp_add(g, w) ==
  IF Watching(g, w) # {} THEN rsp_send(g, <<"OK">>)
  ELSE IF Len(g.wps) >= MAX_WATCHPOINTS THEN rsp_send(g, <<"E01">>)
  ELSE rsp_send([g EXCEPT !.wps = Append(@, w)], <<"OK">>)

\* The entry stays in the table, unused.
wp_remove(g, w) ==
  IF Watching(g, w) = {} THEN rsp_send(g, <<"E01">>)
  ELSE rsp_send([g EXCEPT !.wps[CHOOSE i \in Watching(g, w) : TRUE].active = FALSE], <<"OK">>)

\* gdb_watchpoint_check
Meets(w, at, len) == at + len > w.at /\ at < w.at + w.len
Types(write) == IF write THEN {2, 4} ELSE {3, 4}
Triggered(g, at, len, write) ==
  \E i \in DOMAIN g.wps : g.wps[i].active /\ Meets(g.wps[i], at, len) /\ g.wps[i].type \in Types(write)
Checked(g, at, len, write) == IF Triggered(g, at, len, write) THEN [g EXCEPT !.hit = <<at>>] ELSE g

\* What execute() reports before it accesses memory, in bytes.
AddressOf(m, w) == Wrap(m.reg[w.a] + w.i)
Reported(g, w) ==
  CASE w.op \in {"LOAD", "STORE"} ->
         Checked(g, (AddressOf(g.m, w) % MEM_SIZE) * WORD_BYTES, WORD_BYTES, w.op = "STORE")
    [] w.op \in {"LOADB", "STOREB"} -> Checked(g, AddressOf(g.m, w), 1, w.op = "STOREB")
    [] OTHER -> g

-----------------------------------------------------------------------------
(* cpu_step of sim.c *)

Flushing(m, w) ==
  CASE w.op = "JZ" -> m.reg[w.d] = 0 [] w.op = "JNZ" -> m.reg[w.d] # 0 [] OTHER -> w.op \in Jumping
Ahead(m) == IF m.pc + 1 < MEM_SIZE THEN <<WordAt(m, m.pc + 1)>> ELSE <<>>
Insn(g) == IF g.pipe # <<>> THEN g.pipe[1] ELSE WordAt(g.m, g.m.pc)
Executed(g, w, ahead) ==
  [Reported(g, w) EXCEPT !.m = Execute([g.m EXCEPT !.pc = (@ + 1) % MEM_SIZE], w),
                         !.pipe = IF Flushing(g.m, w) THEN <<>> ELSE ahead]
oxalyn_step(g) == IF g.m.halted THEN g ELSE Executed(g, Insn(g), Ahead(g.m))

-----------------------------------------------------------------------------
(* The commands *)

handle_read_regs(g) == rsp_send(g, <<"regs", g.m.reg, g.m.pc * WORD_BYTES, FlagBits(g.m.flags)>>)

\* The registers, the pc and the flags, as many as there are in the packet.
\* oxalyn_reg_set leaves R0 alone; a new pc empties the pipeline, whether it
\* is in memory or not.
FlagsOf(bits) ==
  {f \in {"Z", "C", "V", "N"} : (bits & FlagBits({f})) # 0}
oxalyn_pc_set(g, to) == [g EXCEPT !.m.pc = IF to < MEM_SIZE THEN to ELSE @, !.pipe = <<>>]
oxalyn_flags_set(g, bits) == [g EXCEPT !.m.flags = FlagsOf(bits)]
RegistersSet(g, values) ==
  [g EXCEPT !.m.reg = [r \in Registers |-> IF r > 0 /\ r < Len(values) THEN values[r + 1] ELSE @[r]]]
PcSet(g, values) == IF Len(values) > 32 THEN oxalyn_pc_set(g, values[33] \div WORD_BYTES) ELSE g
FlagsSet(g, values) == IF Len(values) > 33 THEN oxalyn_flags_set(g, values[34]) ELSE g
handle_write_regs(g, values) == rsp_send(FlagsSet(PcSet(RegistersSet(g, values), values), values), <<"OK">>)

\* A reply has room for so many bytes.
Room(n) == IF n > (RSP_BUF_SIZE - 1) \div 2 THEN (RSP_BUF_SIZE - 1) \div 2 ELSE n
ByteAt(m, b) == ByteOf(Read(m, b \div WORD_BYTES), b)
handle_read_mem(g, at, n) ==
  IF at + n > SIZE_BYTES THEN rsp_send(g, <<"E01">>)
  ELSE rsp_send(g, <<"mem", [k \in 1..Room(n) |-> ByteAt(g.m, at + k - 1)]>>)

\* The instruction that is fetched already stays as it was.
WithByteAt(m, b, byte) == Write(m, b \div WORD_BYTES, WithByte(Read(m, b \div WORD_BYTES), b, byte))
\* As many bytes as are announced, or as there are.
handle_write_mem(g, at, n, data) ==
  IF at + n > SIZE_BYTES THEN rsp_send(g, <<"E01">>)
  ELSE rsp_send([g EXCEPT !.m = FoldLeftDomain(LAMBDA m, k : WithByteAt(m, at + k - 1, data[k]), @,
                                               SubSeq(data, 1, Less(Len(data), n)))], <<"OK">>)

\* The stop is reported with the access that caused it.
Stop(g) ==
  rsp_send([g EXCEPT !.mode = "prompt"], IF g.hit = <<>> THEN <<"S05">> ELSE <<"T05watch", g.hit[1]>>)
handle_step(g) == Stop(oxalyn_step([g EXCEPT !.hit = <<>>]))
handle_continue(g) == [g EXCEPT !.hit = <<>>, !.mode = "run"]

\* One turn of the loop of handle_continue.
StopsHere(g) == Holds(g, g.m.pc) \/ g.hit # <<>>
Turned(g) == IF StopsHere(g) THEN Stop(g) ELSE g
StubRunOn(g) == IF g.m.halted THEN Stop(g) ELSE Turned(oxalyn_step(g))

\* parse_zpacket puts the hexadecimal digits of the length behind a 1.
Digits16(n) == CHOOSE k \in 1..8 : n < 16^k /\ (k = 1 \/ n >= 16^(k - 1))
LengthOf(n) == 16^Digits16(n) + n
handle_breakpoint(g, insert, type, at, n) ==
  CASE type = 0 -> IF insert THEN bp_add(g, at \div WORD_BYTES) ELSE bp_remove(g, at \div WORD_BYTES)
    [] type \in 2..4 ->
         IF insert THEN wp_add(g, Watch(at, LengthOf(n), type)) ELSE wp_remove(g, Watch(at, LengthOf(n), type))
    [] OTHER -> rsp_send(g, <<"">>)

Kill(g) == [rsp_send(g, <<"+">>) EXCEPT !.m.halted = TRUE, !.mode = "closed"]

\* rsp_recv_packet and rsp_loop; data of Z is its type.
Handle(g, p) ==
  CASE p.c = "?" -> rsp_send(g, <<"S05">>)
    [] p.c = "g" -> handle_read_regs(g)
    [] p.c = "G" -> handle_write_regs(g, p.data)
    [] p.c = "m" -> handle_read_mem(g, p.at, p.n)
    [] p.c = "M" -> handle_write_mem(g, p.at, p.n, p.data)
    [] p.c \in {"s", "vCont;s"} -> handle_step(g)
    [] p.c \in {"c", "vCont;c"} -> handle_continue(g)
    [] p.c \in {"Z", "z"} -> handle_breakpoint(g, p.c = "Z", p.data, p.at, p.n)
    [] p.c = "k" -> Kill(g)
    [] p.c = "qSupported" -> rsp_send(g, <<"PacketSize=3fff;hwbreak+;swbreak+;">>)
    [] p.c = "qAttached" -> rsp_send(g, <<"1">>)
    [] p.c = "vCont?" -> rsp_send(g, <<"vCont;c;s">>)
    [] p.c = "H" -> rsp_send(g, <<"OK">>)
    [] OTHER -> rsp_send(g, <<"">>)

Receive(g, p) == IF p.bad THEN rsp_send(g, <<"-">>) ELSE Handle(rsp_send(g, <<"+">>), p)
=============================================================================
