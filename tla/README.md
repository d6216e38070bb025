# A TLA+ model of Oxalyn and its HILAL_BIS kernel

Oxalyn-64 is a 64-bit processor with a simulator (`simulator/sim.c`), a small
kernel written in C (`kernel/`), a GPU API (`gravityon/`) and a toolchain:
compiler, binary translator, assembler, debuggers. This directory holds TLA+
modules for the parts whose correctness depends on the order of events or on
many steps fitting together, TLC configurations that check them on small
instances, and TLAPS proofs that ten of them (process core, heap, pipes, file
system, TCP, processor, window manager, graphics ring with its guard, compute
jobs, pipeline cache) are right for every size. Paths are relative to the
root of the repository.

Contents: 1 the system; 2 the modules; 3 the runs; 4 the proofs; 5 where code
and documents disagree; 6 what is not modelled; 7 plan.

## 1. The system

### Components, what they keep, what they do

| Component | State | Operations | What is hard about it |
|---|---|---|---|
| Process core (`kernel/kernel.c`, `kernel/scheduler.c`) | `process_table`, `current_pid`, `total_ticks`, `alarm_table` | `trap_dispatcher`, the timer interrupt, system calls, `signal_check`, `scheduler`, `process_create`, `process_kill` | handlers switch processes half-way; the shell calls `process_create` and `signal_deliver` with interrupts enabled; slots are reused |
| Heap (`kernel/memory.c`) | `blocks[]`, `block_count` | `kmalloc`, `kfree` | splitting and coalescing shift a sorted table in place |
| Pipes (`kernel/ipc.c`) | ring buffer, `head`, `tail`, `used` | `pipe_create/write/read/close` | no lock, preemptible anywhere, two processes |
| Message queues (`kernel/ipc.c`) | slots, `head`, `tail`, `count` | `mq_send`, `mq_recv` | both sides read-modify-write `count`; nothing calls them |
| TCP (`kernel/tcp.c`) | connection table, ISN generator | `tcp_connect/listen/send/recv/close`, `tcp_poll` | loss, duplication, delay; no retransmission; late segments of old connections |
| Network below TCP (`kernel/network.c`, `wifi.c`) | ARP and DNS caches, NIC registers | `eth_send`, `ip_send`, `ping`, `dns_resolve`, `http_get` | everybody polls one NIC, and drops what is not his |
| File system (`kernel/vfs.c`, `filesystem.c`, `perms.c`) and persistence (`vfs_persist.c`) | a tree of nodes, RAM files, permissions by name, an image on the host | mkdir, rmdir, chdir, create, write, delete, save, load | ids and names are reused; a save or a load that is cut in the middle |
| GUI guard (`kernel/gui_guard.c`) | per process: quotas, faults, quarantine | check, charge, fork, exec, reset | five paths change the same counters |
| Kernel graphics and the device (`kernel/gpu_hw.c`, `gravityon/gpu/gpu_sim.c`) | a ring of packets in guest memory, head and tail on both sides | write a packet, ring the doorbell, decode | the timer draws in the middle of an application's packet |
| Window manager and input (`kernel/wm.c`, `mouse.c`, `usb_hid.c`) | pointer, windows, focus, grab | reports, `wm_run`, commands of the shell | `wm_run` can be interrupted by itself |
| GPU API (`gravityon/gravityon.c`) | objects, command buffers, device job list, images, pipeline cache | recording, submission, tiled drawing, asynchronous compute jobs; images drawn on, reduced, sampled, saved and loaded; vertices packed; keys kept in a file | threads that may not be created, joins, a list shared with them; files cut short; boundaries of runs, rows and periods |
| Processor (`simulator/sim.c`) | memory, registers, control registers, pipeline, pending events, flash memory | `cpu_step`, `cpu_run`, traps, interrupts, `execute` | prefetch, two execution paths, interrupts against WFI, privilege levels |
| Debuggers (`dbg.c`, `simulator/gdb_stub.c`) | breakpoints, watchpoints, history | commands, packets | tables that move entries; an instruction already fetched; damaged packets |
| Compiler (`compiler/cc.c`) | macros, symbols, temporaries, frame | preprocess, parse, emit | one pass: what is emitted is never looked at again |
| Translator (`compiler/translator.c`) | value stack, labels | a line, a section, an instruction | scratch registers shared with the assembler and with the guest |
| Assembler (`asm.c`) | labels, words | two passes, `.bin` or `.elf` | both passes must agree on every length |
| Driver (`compiler/compiler.c`, `arch.c`) | files | recognize, copy or translate, assemble, report | several programs, several files, any may fail or be killed |
| Shell, login, applications | text | | sequential; the commands that act on processes are in `Kernel` |
| Devices (UART, RTC, sound, log, host I/O), SMP counters | registers | | device I/O and formatting |
| Voxel demo, Verilog | | | geometry; the Verilog has its own formal properties under `formal/` |

They interact in six ways. A **trap** runs a kernel handler with interrupts
disabled (`kernel/kernel.c:113-244`): it is one atomic step of the process that
is current. A **direct call** by the shell or a built-in application is a plain
C call with interrupts enabled, which a timer tick may cut anywhere. **Shared
memory** connects the two ends of a pipe, and the driver of the GPU with the
device. **Frames** connect two hosts. **Threads** of the host run compute jobs
and tiles. **Files** connect the programs of the toolchain and each run with
the one after it. Under the first two the processor decides when an interrupt
is seen.

`PROJECT.json` lists, under `hazards`, the places where this is hard to test,
each with the properties that cover it.

### What makes each modelled component correct

* Process core: `current_pid` names the only RUNNING process; it is never
  BLOCKED; no signal is lost; nobody has two alarms or is refused one; the
  process of highest priority gets the processor.
* Heap: it is an allocator (regions in use never overlap) and coalescing is
  complete.
* Pipes: whatever the interleaving, a bounded FIFO queue.
* TCP: the application gets a prefix of what the peer has sent on one
  connection, whatever the network does.
* Processor: pipeline and fast path are invisible; lower levels enter the
  machine level through its vector only and leave its registers alone; an
  interrupt is neither missed nor slept through.
* File system: the tree stays a tree; a new file belongs to who creates it; a
  load gives the tree saved last or a fresh one.
* Window manager: windows stay on the screen, only the one held moves, and no
  movement of the pointer is forgotten.
* Graphics: the device decodes what was sent, inside the ring; a process in
  quarantine stays there.
* GPU API: no job is used after it was freed, none is lost, every wait
  returns; tiles drawn by threads give the picture drawn in sequence; what is
  saved or packed comes back, or the failure is reported.
* Toolchain: each program keeps the meaning of what it reads: the text of a
  line, a macro, a C program, an assembler source, foreign assembly, a
  WebAssembly module; a debugger shows what the program does.
* Files: a build that reports success has built what it was given, one that
  reports failure leaves nothing unfinished; the flash memory keeps its words.

## 2. The modules

| Module | Stands for | Depends on |
|---|---|---|
| `Kernel`, `KernelProofs` | process table, scheduler, system calls, signals, alarms, timer | |
| `Allocator`, `Heap` (proofs in `KernelProofs`) | an abstract allocator; `memory.c` | `Heap` implements `Allocator` |
| `Fifo`, `Pipe` (proofs in `KernelProofs`) | an abstract queue; the ring buffer of `ipc.c` | `Pipe` implements `Fifo` |
| `Tcp`, `MCTcp`, `TcpProofs` | `tcp.c` on every host, and the network between them | |
| `Isa`, `Processor`, `MCProcessor`, `ProcessorProofs` | the processor as SPEC.md describes it; `sim.c` as it runs it | `Processor` implements `Isa` |
| `Snapshot`, `Storage`, `MCStorage`, `StorageProofs` | a tree that can be saved; `vfs.c`, `filesystem.c`, `perms.c`, `vfs_persist.c` | `Storage` implements `Snapshot` |
| `Desktop`, `MCDesktop`, `DesktopProofs` | `mouse.c`, `wm.c`, reports of the mouse | |
| `Graphics`, `MCGraphics`, `GraphicsProofs` | `gui_guard.c`, `gpu_hw.c`, decoding in `gpu_sim.c` | |
| `Compute`, `Texture`, `Assets`, `MCGravityon`, `GravityonProofs` | of `gravityon.c`: asynchronous jobs; images, text, mipmaps, samplers, bitmaps; packed vertices and the pipeline cache | `MCGravityon` composes the three |
| `Render`, `MCRender` | command buffers, submission and tiled rasteriser of `gravityon.c` | |
| `Machine` | `execute()` of `sim.c`: registers, flags, memory, output | |
| `Lexer` | characters, lines and numbers of `cc.c`, `asm.c`, `translator.c`; the command line of `sim.c` | `Assembler`, `Translator` |
| `Assembler`, `AsmSemantics` | `asm.c` with its two output formats; what a source means | `Machine` |
| `Compiler`, `CSemantics` | `cc.c` with its preprocessor; what C means | `Machine`, `Assembler` |
| `Translator`, `Wasm` | foreign assembly and modules in `translator.c` | `Assembler` |
| `ForeignSemantics` | what both mean | |
| `Debugger` | `dbg.c`, `gdb_stub.c` | `Machine`, `Assembler` |
| `Driver`, `DriverProofs` | `compiler.c`, `arch.c`, the flash file of `sim.c` | |
| `Toolchain`, `MCToolchain`, `MCForeign` | the composition of all from `Machine` on, and its inputs | |

Constants are the sizes and inputs; each module assumes of them, in a named
`ASSUME`, only what the code guarantees. A definition after the comment
"MUTANT" is a plausible mistake in the one that follows it; every property has
a mutant that it detects (`mutants` in `PROJECT.json`).

### Kernel

`state`, `priority`, `ticks`, `sigs` are the fields of `process_table` the code
decides by; `sigs` is `signal_mask` as a set of bits. `alarms` is
`alarm_table`, `clock` is `total_ticks`, which wraps (`TickMod`).

Every trap handler is one action with all that it calls: `TimerInterrupt`
charges the tick, handles a signal (which may kill and reschedule), fires
alarms and tests the quantum of whoever is current *then*, as
`timer_interrupt_handler` does. `Schedule` is `scheduler()`: the READY process
of highest priority, or else the first BLOCKED one, or else nobody.

`direct` holds the one call that the shell is in the middle of without a trap:
`CreateScan`/`CreateCommit` split `process_create` between the search for a
slot and the writing of it, `SignalLoad`/`SignalStore` split the
read-modify-write of `signal_deliver`. Anything may happen in between if the
timer strikes. The commands `alarm` and `yield` of the shell
(`kernel/shell.c:365-383`) and the direct calls of `sys_sleep` and `sys_exit`
in the applications (`kernel/apps.c:14,22`) are taken as the system calls.

Quirks kept as they are: a killed process that is still current goes on
executing, and a `fork` by it finds its own slot; `fork` copies pending
signals; ZOMBIEs are never collected.

### Heap

`blocks[0..count-1]` as in the code. A split (`Split`) inserts an entry; a
block that is larger than the request but not more than twice as large is cut
without one (`Shrink`), so the words beyond it belong to nobody any more. A
full table refuses every request (`memory.c:29`), also those that need no new
entry. `Kfree` joins the freed block with the one before, then with the one
after, with the index the first join leaves.

`Allocator` is what callers rely on: `Allocate` returns a region apart from all
regions in use, `Release` gives one back. The refinement mapping takes the
used blocks as the regions in use.

### Pipe

The granularity is the one of the machine: each turn of the loops in
`pipe_write` and `pipe_read` is a test, an access to the buffer, and the store
of an index, and the other process may run between any two. The test of the
writer reads `tail` and the one of the reader reads `head`, which is all they
share besides the bytes.

`EarlyClose` says whether one end may close while the other is still in use.
The shell, the only client in the tree, uses the pipe in an orderly way; run
and proofs are about such clients. `Fifo` is the abstract queue; the
refinement mapping takes the bytes published and not yet loaded.

### Tcp

Each host has a connection table and runs API calls and `tcp_poll`, one frame
an action. A frame is taken by the first entry a branch applies to
(`Takes`, `TakenBy`), as in the loop of `tcp_poll`. The network (`Lose`,
`Duplicate`, `Delay`) is external; `Lose` also stands for `ping` and
`dns_resolve`, which read the same NIC and throw away the frames they did not
wait for. `eth_send` refuses while the NIC is busy, and nobody looks at the
result: here, while `WIRE` frames are on their way.

A byte is identified by its sender, his ISN and its place in the stream. The
code never looks at a byte, so what holds of these holds of any bytes, and
"received the right byte" becomes a comparison. `TcpAssumption` asks that the
ISNs of one run lie further apart than the streams are long; the generator of
`tcp_next_isn` gives numbers some twenty million apart in its first draws. A
chunk of 1465 to 1478 bytes passes the limit of `tcp_send` and is refused by
the layer below; in the model what does not fit a frame is not sent.

### Isa and Processor

`Isa` is the machine of SPEC.md as `sim.c` implements it: privilege levels,
control registers, `trap()`, `take_interrupt()`, ERET, WFI, and `execute()` by
kind of instruction. Registers and flags are abstracted: an instruction whose
effect depends on them may do any of the things it can do. A program is a
function from addresses to kinds whose last word is a jump, since a program
that runs off the end of memory has no meaning in the code. A poll of the
devices (`Polled`) may find the timer due, an event arrived, the transmitter
ready. Time is abstracted to "armed" and "due".

`Processor` adds when things happen: the prefetched instruction (`pipe`), the
normal path that polls before every instruction, and the fast path that polls
once in `BATCH` (128) instructions and leaves for good at a WFI or an
interrupt. `Processor` executes `Fetched`, the word in the pipeline if there is
one; `Isa` executes `mem[pc]`. That the two agree is the property `IsaSpec`.

Details that are modelled as the code has them, where SPEC.md differs: MRET
keeps MPP (SPEC.md:506 says `MPP ← 0`; the mutant `MretClearing` does that, and
breaks `MachineProtected`, because 0 is the machine level and the value 3 of
MPP is not excluded); the fast path looks at the timer once in a batch
(SPEC.md:479 says in every cycle).

### Storage and Snapshot

`nodes` is `vfs_nodes` (the ids in use, each with parent and name), `cwd` the
working directory, `files` the flat table of RAM files, `perms` the table of
permissions, `image` the file on the host: the counts of its header and its
records, by id, since they are written and read by rising id. A path is a
sequence of segments. The loops of `resolve_path_id`, `node_path`, `vfs_init`
and `vfs_persist_load` are recursive functions of the number of turns.
`Save` leaves a whole image, or what a crash or a full disk makes of one: no
proper header, or a header without its records. `Load` builds the tree from
the records and starts afresh if the file ends before its counts; `Boot` is
`vfs_persist_auto_load` after a restart. A file system call is one action: the
kernel runs it in a trap or from the shell, with nobody beside it.

`Snapshot` says what a user expects: a set of paths closed under parents, and
a disk that holds the tree saved last, half of one, or nothing. The refinement
mapping reads the tree off the nodes and judges the image by its records. A
client that removes "/" is left out by `RemovesRoot` (see section 5).

### Desktop

The handler of the timer takes every report of the mouse (`Report`) and then
runs `wm_run` (`TimerRun`) in one step; the shell's commands "mouse" and
"click" run the same functions step by step (`RunTest`, `RunArgs`, `RunEvent`,
`RunClear`, `RunLast`), and the timer may come in between any two.
`wm_mouse_event` itself is one step: it runs in a few instructions on data
that the timer's own call leaves consistent. `disturbed` records that the
timer has overtaken an event whose arguments were already read; `CaughtUp` and
`HeldByButton` except that event, which is handled late.

### Graphics

`gui` holds what `process_table` keeps for the guard; draws, framebuffer
writes, faults, fork, exec and reset are the actions of processes. `ring`,
`ring_head` and `dev` are guest memory, driver and device. A system call or
the frame of the timer writes its packets and rings the doorbell in one step;
an application of the shell writes its packet word by word (`ShellTests` to
`ShellRings`). `torn` records that a frame came in between: what the ring
holds afterwards is described in section 5, and nothing more is sent.

### Compute

What `computeMutex` encloses is one step; creating a thread, joining it and
handing out an id are steps of their own. `linked` is the list, `thread` the
state of each job's thread, `pc` and `at` where each client is and the job it
holds. Two contracts of the caller are in the guards: an id is waited for only
once it was told, and the device is not destroyed during a dispatch.

### Texture

One client has one image at a time, and a call is one step whose outcome stays
in `call` until it is taken. `Bitmap` and `Loaded` are the BMP file as the code
writes it (24 bits, rows padded, from the top) and reads it (24 or 32 bits, from
the top or the bottom); a save may be cut anywhere by a full disk, which nobody
is told, and `LoadResult` are the guards of the load in their order. `DrawText`
is the loop of `gravDrawText` with the calls it makes of `gravDrawChar`;
`TextAsLaidOut` says where a text goes without that loop. `mips` are the levels
of `gravGenerateMipmaps`; level 0 is the image's own memory. A sample is an
exact fraction: coordinates are whole numbers of `DEN`-ths, and the rounding of
floats is left out.

### Assets

`packed` are the vertices as `gravCompressVertices` has packed them, `input`
what they were; `Unpack1` is one turn of `gravDecompressVertices`, which may be
given part of the bytes, too little room or a wrong size. `cache` and `file` are
the pipeline cache in memory and on disk, bytes with a newline behind each key;
touch, save and load are one step each, with what each leaves when memory,
`fwrite` or `fclose` fails. `known` and `saved` are the keys that cache and file
owe the application.

### Render

One client records commands and submits them; the submission is one step per
command. A draw on several threads creates workers, any of which may fail to
be created; each worker draws one triangle on one tile per step, in any order.
A pixel remembers the last triangle written and, when that one was blended,
the one below, which is enough for the order of writes to show. `before` keeps
the images from before the draw, from which `Sequential` draws again.

### The toolchain

`Toolchain` composes the programs as a user does. `source` is what is given
and `stage` the file there is; each action is one line read, one instruction
translated, one pass finished, or one instruction executed. The programs
themselves are operators of their modules:

* `Lexer` works on characters: `lex_next` of the compiler with comments,
  escapes and operators, `process_line` of the assembler with labels, numbers
  to three bases and operands in their order, LEB128 numbers of modules, lines
  of foreign assembly (comment, label, words, operands, width suffix), and the
  command line of the simulator, which `main` reads twice: the second pass
  steps over the values of options that the first one has taken.
* `Compiler` first keeps conditions, headers and macros: a macro's value is a
  sequence of tokens, read again whenever its name is met, as in `ce_expr`.
  Then it follows the parser: expressions leave a register, temporaries are
  counted (`reg_top`), calls spill them, frames are made and undone; types with
  a name, arrays without a bound, casts and labels are as the parser has them.
  `CompileDefinition` takes one declaration a step and `EndOfProgram` writes
  the data, so that `cc` holds the compiler's state in between.
* `Assembler` has both passes, the words every mnemonic becomes (`Words`,
  `Emit`), and the ELF file as a sequence of parts with their sizes.
* `Translator` turns lines of x86-64, ARM64 or RISC-V into assembler lines;
  `Wasm` sections and instructions, with the value stack in registers.
* `Machine` executes a word. The kinds of instruction are separate actions of
  `Toolchain`; `calls` remembers what each function must give back.
* `Debugger` drives a machine by the commands of a session, of `dbg` or of GDB.

Each has a reference that knows nothing of registers, frames or passes:
`CSemantics` runs the tree of a program by the rules of C on a memory of
cells, `AsmSemantics` runs a source line by line and says how a text may be
written, `ForeignSemantics` runs a guest's instructions on its own registers
and structured control on a stack; what a session of a debugger must show is in
`AsmSemantics`, beside what the program does. A property compares, when the machine has stopped, what the chain has
computed with what the reference says.

### Driver

`Driver` is what remains when files and runs are looked at from outside. A
file is a record with its first bytes, the words the heuristics look for, and
what its translator and the assembler would say of it. `job` is the run of the
compiler (`Start`, `OpenAssembly`, `WriteAssembly`, `OpenBinary`,
`WriteBinary`, `Finish`, and a way out at each), `sim` the run of the
simulator (`StartSimulator`, `EStore`, `OpenFlash`, `SaveWord`, `CloseFlash`).
Any file may not open and any program may be killed, `MAX_FAULTS` times.
`compiler_detect_bytes` is translated with its ELF, PE and Mach-O headers.
`Toolchain` takes it in as the source `<<"host", 1>>`.

## 3. The runs

| Run | States | Question |
|---|---|---|
| `kernel_two` | 595,468 | two slots, SIGKILL, sleep, alarms, wrapping clock: `AlarmNeverRefused`, `SignalsTakenOneByOne` |
| `kernel_three` | 43,959 | three slots, so that the scheduler has a choice: `CurrentRuns`, `HighestPriorityRuns` |
| `heap` | 149,623 | 14 words, 5 entries, requests of 1 to 4: `NoFreeNeighbours`, `RegionsSpec` |
| `pipe` | 23,830 | 4 bytes (3 usable), two byte values, calls of up to 2: `NeverTheSameByte`, `FifoSpec` |
| `tcp` | 1,123,259 | two hosts, two connections one after the other, one fault, wrapping sequence numbers: `Prefix` |
| `processor` | 123,813 | programs of 3 words on both paths: `IsaSpec`, `MachineProtected`, `InterruptTaken`, `WakesUp` |
| `storage` | 173,082 | three nodes, one file, two users, images cut by a crash: `EveryNodeHasItsPath`, `PermissionsFollowOwner`, `SnapshotSpec` |
| `desktop` | 3,874,506 | a screen of 3 by 3, two windows, timer and shell: `WindowsOnScreen`, `CaughtUp`, `HeldByButton`, `OnlyTheHeld` |
| `gravityon` | 217,785 | three clients and three jobs, threads that cannot be created: `NoDangling`, `NothingLeft`, `WaitReturns`; or one image through text, mipmaps, samplers and files: `LoadedAsSaved`, `TextAsLaidOut`, `FilteredAsPicture`; or vertices and a pipeline cache over runs of the application: `UnpackedAsPacked`, `KeysAsTouched` |
| `graphics` | 1,616,829 | a ring of 14 words, two processes, timer and shell: `RunsAsSent`, `QuarantineHolds` |
| `render` | 659,455 | 81 pixels in 4 tiles, two workers, two submissions: `TiledAsSequential` |
| `toolchain` | 636,550 | texts, C and assembler sources, guest programs, modules, debugger sessions, builds and runs: the nine properties below |

The properties of `toolchain`, by the kind of source they are about:

| Property | Source | What the chain is compared with |
|---|---|---|
| `ReadAsWritten` | texts: all pairs of the signs of C and of 22 tokens between three separators, 26 assembly lines in five styles, LEB128 numbers in up to four bytes, lines of three foreign assemblies, command lines of the simulator, texts nobody could have written | `Signs` and `Munched` of `CSemantics`, the items a text was made from, `InBytes`, for options the settings `Meant` |
| `PreprocessedAsWritten` | C projects with headers, conditions, macros | `C!Translated` |
| `RunsAsWritten` | C programs, from the text of their declarations to the halted machine | `C!Outcome` |
| `AssembledAsWritten` | assembler sources, run, and written as ELF | `A!Shown`; a reader of ELF that follows the header |
| `TranslatedAsWritten` | guest programs of three architectures | `G!Outcome` |
| `ModuleAsWritten` | WebAssembly modules | `V!Outcome` |
| `DebuggedAsAsked` | sessions of `dbg` and of GDB | `A!Session` |
| `BuiltAsReported` | builds of 14 inputs with 6 flags | the file the compiler was given |
| `FlashKept` | runs of the simulator | the words of the last run that ended by itself |

No run is expected to fail: what the code does other than its documents say is
in section 5.

### Bounds, and why they are enough

* `MAX_PROCESSES`: two processes suffice for everything that happens between a
  process and another one (lost signals, reused slots); the choice between two
  READY processes that are both not current needs three. The invariants are
  proved for any number. SIGKILL stands for all signals that terminate, which
  share their code; SIGALRM comes from the alarms.
* `TIMER_QUANTUM = 2` lets a process lose the processor in the middle of a
  slice; `TickMod = 2` makes the clock wrap all the time.
* Heap: 14 words and 5 entries let the table fill up before the heap does and
  the other way round, and let three neighbours be freed in every order.
* Pipe: 4 bytes make the indices wrap while both loops are in the middle.
* Tcp: one entry per host makes the second connection reuse it; one fault is
  enough to put a segment of the first connection into the second. A buffer of
  two bytes is overrun by a segment of two after one byte. The ISNs 4 and 14
  modulo 16 make the second stream wrap. `WIRE = 2` frames, `MaxBytes = 3`.
* Processor: three words are the shortest memory in which an instruction is
  followed by another one that is not yet the last, and a batch of two is the
  shortest one with an inside. The programs run any kind of instruction and
  return to it at another level; the control registers include a kernel with a
  timer, one that delegates, and one without vectors and with MPP = 3.
* Storage: three nodes are the root, the default directory and one that is
  made, removed and made again beside it or in it; one file and two entries of
  permissions let the name outlive its owner. `NAME_LEN = 2` cuts some names;
  the theorems are about any.
* Desktop: on 3 by 3 points with one line of task bar a window of 2 by 2 can
  be dragged against every edge and resized to all that the screen holds.
* Gravityon: the parts share no memory, so an application uses one of the three
  (`part`). Compute: three clients are one that dispatches, one that waits and one that
  destroys; three jobs give the list a front, a middle and an end; the group counts
  (`Counts`) include none, and `MAX_TOTAL` bounds their product. Texture: sides
  of 4 and 14 by 8 and 10 are powers of two and not, padded to rows of whole words
  and not, and wide enough for one character and for two; coordinates lie in the
  image and beyond it, levels of detail on a level and between two. Assets: runs
  of 1 to 6 of two bytes with `MAX_RUN = 4` meet every kind of record and the
  longest run; keys of one and two letters are parts of each other, and a cache
  of 7 bytes holds three of them.
* Graphics: in 14 words a frame and a request end at every offset, so that
  each size of packet meets each distance from the end. Two faults and two
  requests fill the quotas. A packet that has been torn ends the run.
* Render: tiles of 8 pixels are the smallest the API allows, so 9 by 9 pixels
  have four tiles, three of them cut. Six commands (`CAPACITY`) fill the
  buffer, two submissions (`MAX_SUBMITS`) let the second meet what the first
  has left.
* Toolchain: words have 16 bits instead of 64 (for modules, i64 has 16 and i32
  has 8), which keeps every wrap-around, sign and shift and lets TLC compute
  them. The sources are chosen by what they exercise: every operator with
  variables and constants at several depths, every statement in every other,
  calls with live temporaries, recursion, arrays, structures, pointers; every
  pseudo instruction before and after labels; every instruction of each guest
  alone and in short programs. `MAX_MACROS = 8`,
  `MAX_PP_DEPTH = 4`, `MAX_LABELS = 60` and `MAX_INSNS = 900` bound the tables of
  preprocessor and assembler.
  A session has up to `MAX_ASKED = 4` commands, chosen freely among
  those it names, with places for two breakpoints (`MAX_BP`,
  `MAX_BREAKPOINTS`), four watchpoints and a history of four; each good packet
  may follow a damaged one. Names have up to 9 characters (`MAX_IDENT = 10`).
* Driver: two builds (`MAX_BUILDS`), so that the second meets what the first
  has left; three runs (`MAX_RUNS`), so that one that fails lies between two
  that do not; one fault; a flash memory of two words, so that a file can be
  cut between them.

Deadlock is checked in the kernel, heap, pipe, storage, desktop, graphics and
render runs. It is not checked where the system may stop: the `tcp` run ends
when the ISNs are used up, the `processor` run when the program halts, the
`gravityon` run when the device is gone, the `toolchain` run when a source is
refused or its program has halted.

### Fairness

* `Kernel`: WF of `TimerInterrupt` only. The timer keeps interrupting; no
  process is assumed ever to make a system call.
* `Processor`: WF of `Next` (the simulator loops) and of `TimeComes`: each
  waiting `cpu_step` increments `cycles`, so a timer that is armed comes due.
* `Compute`: WF of `Worker(j)` for every job and of `InCall(c)` for every
  client inside a wait or a destruction: the operating system runs every
  thread that can run. No client is assumed ever to make a call.

The other specifications state none; their properties are safety properties.

### Liveness

`HighestPriorityRuns` says that the timer alone is enough to give the
processor to a READY process that outranks all others. It excepts the state in
which the current process has been killed: that one can `fork` onto itself and
get a fresh slice for ever. `InterruptTaken` says that a pending interrupt
does not stay pending, also on the fast path; it excepts a supervisor without
a vector, whose dropped interrupts keep those of the machine level away.
`WakesUp` says that a processor that sleeps with a timer set and enabled wakes.
`WaitReturns` says that who waits for a job, or destroys the device, gets out
again: nobody joins a thread that was never created or that another one has
joined.

## 4. The proofs

| Theorem | For every |
|---|---|
| `KernelProofs`: `TypeCorrect`, `CurrentCorrect`, `OneAlarmCorrect`, `AlarmCorrect`, `SignalsCorrect` | number of processes, quantum, set of signals, delays, clock width |
| `KernelProofs`: `HeapTypeCorrect`, `ApartCorrect`, `NeighboursCorrect`, `HeapImplementsAllocator` | heap, table and request sizes |
| `KernelProofs`: `PipeTypeCorrect`, `NoDataRace`, `PipeImplementsFifo` | buffer size, bytes, lengths of calls (of an orderly client) |
| `ProcessorProofs`: `TypeCorrect`, `ProcessorImplementsIsa`, `MachineCorrect` | memory, batch length, programs, control registers |
| `StorageProofs`: `PermissionsCorrect`, `PathsCorrect`, `StorageImplementsSnapshot` | tables of nodes, files and permissions, depth, names, users, default directories, paths (of clients that leave the root alone) |
| `GravityonProofs`: `TypeCorrect`, `NeverDangling`, `LeavesNothing`, `JoinedByOne` | clients, number of jobs, group counts |
| `GravityonProofs`: `KeysCorrect` | keys, sizes of the cache, saves and loads |
| `GravityonProofs`: `LoadedCorrect` | sizes and colours of images, texts drawn on them, files cut |
| `TcpProofs`: `Invariant`, `PrefixOfStream` | hosts and links, tables, buffers, frames, faults, ISNs further apart than a stream is long |
| `DesktopProofs`: `Invariant`, `OnScreen`, `NothingForgotten`, `HeldWhileDown`, `OthersStay` | screen, task bar and grips, number and sizes of windows, movements |
| `GraphicsProofs`: `Invariant`, `DecodedAsSent`, `QuarantineKept` | ring, frame of the timer, requests, processes, quotas |
| `DriverProofs`: `BuiltCorrect`, `FlashCorrect` | input files (whose headers name what they are), flags, flash, words, numbers of builds, runs and faults |

Each rests on an inductive invariant:

* **Kernel.** `Inv` joins the types with the two parts of `CurrentRuns`
  (`RunningIsCurrent`, `CurrentNeverBlocked`) and with `OneAlarmPerProcess`. They need each other: a
  handler that trusts `current_pid` keeps one RUNNING process only if there was
  one before, and `scheduler()` leaves a current process that is not BLOCKED
  only because it wakes somebody when nobody is READY. `ScheduleSound` proves
  this once for all callers. `AlarmCorrect` counts: as many entries as
  processes, one entry each, so there is one for the caller.
* **Heap.** `HeapInv` says that the table is sorted, its blocks apart and no two
  free neighbours in it. `Kfree` breaks and mends this in the middle, so the
  lemmas about `Joined` speak of any table (`Table`, `Lone`), not of the
  variables. The refinement follows from what the joins leave of the used
  blocks.
* **Pipe.** `PipeInv` adds to the types that a test that has passed stays true:
  the writer in "store" knows `Succ(head) # tail`, the reader in "load" knows
  `head # tail`, since the other side only moves away. The refinement then is
  arithmetic of the ring. Assumption: `~EarlyClose`.
* **Processor.** `IInv` adds to the types that what comes out of the pipeline
  for the last word is a jump, without which the program counter could leave
  memory. `PipeCoherent` (the pipeline holds `mem[pc]`) is inductive under the
  assumption `~SelfModifying`, and with it every step is one of `Isa`'s.
  That the machine level is entered through its vector only (`ThroughVector`,
  the first part of `MachineProtected`) needs `ReservedStays`: the reserved level 3 is only
  entered by an MRET that finds 3 in MPP, and nothing below the machine level
  changes MPP, so an MRET at level 3 goes to level 3 again. The lemma
  `StepLevels` reduces every instruction and interrupt to four ways between
  levels.
* **File system.** `StorageTypes` says that the nodes are a tree (`Trees`): every
  node but the root has a parent in use, no two siblings share a name, and there
  is a rank that grows by one from parent to child (`Ranks`), which excludes
  cycles. A rank is less than the number of ids (`Ranked` counts the nodes on the
  way up), so a path of `VFS_MAX_NODES` names always reaches the root, and
  `PathLeads` brings it down again: `EveryNodeHasItsPath`. `TreeGrows` and
  `TreeShrinks` are what mkdir and rmdir do; a load is a sequence of mkdirs, so
  it ends in a tree whatever the image holds (`LoadKeepsTree`).
  `PermissionsFollowOwner` is inductive with the types: `fs_create` makes no
  second file of a name, and what `perms_register` touches is the entry of that
  name or a free one, so no other file's entry (`Created`, `RegisteredIs`).
  The refinement follows paths: `PathsGrow` and `PathsShrink` give `Make` and
  `Unmake`; for a load, `RecordAdds` shows by induction that of an image in order
  each record is made at the id it had (`alloc_node` finds the smallest, and the
  parent is found by its path, which is not too deep), so that `LoadedIsSaved`.
  An image that is short gives the fresh tree, and one not in order a tree all
  the same. All three theorems have the hypothesis `RemovesRoot = FALSE`: with
  `rmdir "/"` they do not hold (section 5).
* **Compute.** `IInv` says who may hold a job: it is in the list, in the list
  a destruction has detached, or with exactly one call (`JoinedByOne`); a job
  whose thread was never created is with the dispatch that will unlink it; a
  freed job is nowhere. `Invariance` takes the actions one by one. That no two
  calls hold the same job is what makes the free of one of them safe and
  leaves none behind.
* **Pipeline cache.** `AssetsInv` is about two places at once, the keys in memory
  and the file: each consists of lines that were touched, none contained in what
  stands before it, unless a save was cut, which `torn` and `whole` record; and
  each contains what it owes (`known`, `saved`). `KeysAsTouched` says this of the
  cache only; a load makes what is known of the file be known of the cache. The
  theorem is about `AssetsSpec`, whose steps the run takes when `part` is
  "assets".
* **Images.** `ImagesInv` says of every file, from the moment it is written,
  which bytes it has: those of the bitmap of the picture shown up to the length
  the disk had room for (`CutFile`), or what another program makes of it
  (`Foreign`), since between the save and the load the image may be drawn on or
  destroyed. `BitmapIs` computes the bytes of a row from the place of a pixel,
  `LoadedIs` the pixels from the bytes, and `SavedIsLoaded` and
  `ForeignIsLoaded` that the one undoes the other but for the alpha, which
  `BitmapOpaqued` shows not to be in the file. `FileIsRead` takes the guards of
  the loader in their order for a file of each of these kinds, so
  `LoadedAsSaved`.
* **Tcp.** `Inv` follows a byte from one application to the other. A frame on
  the wire that carries data carries the bytes of the stream it names
  (`Genuine`); what an endpoint has handed out and what lies in its buffer
  continue each other, and `rcv_nxt` counts both from the ISN the endpoint has
  accepted (`Receiving`); `snd_nxt` counts what the application has sent
  (`Sending`); no two live connections of a host share an ISN, and one not yet
  drawn has an empty stream. Equality of sequence numbers is equality modulo
  `SEQ_MOD`: a segment of another connection is refused because
  `TcpAssumption` keeps the ISNs of a run further apart than the bytes sent
  (`MaxBytes`), and one of the same connection is placed right because a
  stream is shorter than `SEQ_MOD`. The lemmas about remainders come first.
* **Desktop.** `Inv` joins the types with `WindowsOnScreen`, with `Grip` (what
  is held is one window, by one handle, since a press) and with `Noted`, which
  says at each place of a call of the shell what the window manager has seen,
  as long as the timer has not overtaken it. `WindowsOnScreen` rests on what
  `DesktopAssumption` asks of the windows that programs open: that they fit the
  screen above the task bar and have the least size. `wm_create_window`
  (`kernel/wm.c:49`) does not look, so this is the caller's part.
* **Graphics.** `Inv` is `Guarded` (the counters and the record of the last
  step) with `torn \/ Driven`. `Driven` says at each store of the driver what
  stands in the ring from the device's tail on (`Written`) and that it does
  not pass the end. That a doorbell executes what was written is `DecodeFrom`:
  the device's loop is a recursive function of the place in the ring. The
  prover has to be told that such a function exists; then one packet decodes
  to its request (`CodeTells`, `PacketFacts`), and a frame of any length does
  by the least length for which it would not. That both sides stay in the ring
  (`InWindow`, a part of `RunsAsSent`) needs
  `RING_WORDS > 8`, the longest packet, as the driver's own constant is.
* **Driver.** `BuiltAsReported` speaks of the ends of a run of the compiler.
  `BuildInv` adds what holds in its middle (`Working`: which of the two files
  has what is expected, which is as it was before, what the detection told) and
  that each file which may become an input is recognized (`Provided`: an output
  of the driver can be the next input). `BuiltCorrect` has the hypothesis
  `Linked`: an input has the header its linker wrote, so it does not pretend to
  be of another kind; `MCToolchain` assumes it of the inputs of the run, where
  TLC evaluates it on bytes written out. `FlashInv` follows the words of the
  flash from memory to the file: what the file must give while nobody runs
  (`Holds`) and how far a save has come (`Saves`). Both theorems are about
  `HostSpec`, whose steps the run takes at the stage "host".

Assumptions on constants are named and stand in the modules that declare them
(`TcpAssumption`, `StorageAssumption`, `GraphicsAssumption` and so on); TLC evaluates each on every run of its module.

Induction over numbers is by the least counterexample: `LeastNatural`, from the
library's `WFMin` for the order of the naturals, since the induction theorems
that take an operator as parameter cannot be instantiated. `UpTo` (in
`StorageProofs`) states it for sets, and `Recursion` that a function exists each
value of which is made from the one before (`Iterates`): with it the recursive
functions of a module that count turns of a loop can be unfolded.

What stays with TLC, and why:

* the liveness properties (`HighestPriorityRuns`, `InterruptTaken`, `WakesUp`,
  `WaitReturns`): the proof system reasons neither about fairness nor about
  ENABLED;
* the toolchain but for `Driver`: its programs are trees, and the modules that
  walk them (`Compiler`, the references, `Lexer`) use RECURSIVE operators and
  `Bitwise`, which no module with a theorem may reach;
* `TiledAsSequential` of `Render`: that folds over triangles commute on disjoint
  tiles is an induction over data with an operator as a parameter;
* of `Texture`, `TextAsLaidOut` (the loop over a text is a fold, and the
  statement counts characters), and `FilteredAsPicture` (the mean over a part of
  a picture against the mean of means of a chain of levels is an induction over
  sums);
* `UnpackedAsPacked` of `Assets`: the runs of a packed mesh are found by a loop
  over the bytes, and what the unpacking gives back is an induction over them.

## 5. Where code and documents disagree

Modelling follows the code. What follows was found on the way; the models have
it as it is, and sources or clients that would run into it are left out of the
runs, or the property names the exception.

Kernel and devices

* A system call's result is stored for `current_pid` after the call: sleep,
  yield and exit have switched by then, and another process loses its R7
  (`kernel/kernel.c:243`; `tests/scheduler_verify.c:45` expects the context to
  be preserved).
* An alarm outlives its process and fires for the next one in the slot
  (`kernel/kernel.c:363,405`).
* `pipe_close` frees the pipe when the first end closes (`kernel/ipc.c:103`,
  `ipc.h:39`): `EarlyClose = TRUE` shows what happens to the other.
* Closing a connection needs ACK and FIN in one segment and gets two: the
  first to close stays in FIN_WAIT2 (`kernel/tcp.c:372`, `tcp.h:7`).
* `mq_send` and `mq_recv` change one count by ++ and -- from two processes
  (`kernel/ipc.c:168`).
* The instruction after a STORE has been fetched before it executes: a program
  that stores into its next word runs the old one (`simulator/sim.c:1344`;
  SPEC.md:773-775). With `SelfModifying = TRUE`, `IsaSpec` fails.
* An interrupt that a level cannot take is dropped but its source stays due,
  and keeps others away (`simulator/sim.c:637`).
* A frame of the timer inside an application's packet publishes half of it or
  resets the ring under it (`kernel/gpu_hw.c:57-67`, against the comment
  there). Packets of a system call are sent without the identity of their
  process (`kernel/kernel.c:318`, `gpu_hw.c:69`).
* The quota estimate of a circle of radius 1 is less than what is drawn
  (`kernel/gui_guard.c:70-75`).
* `rmdir "/"` frees the root (`kernel/vfs.c:201`); `RemovesRoot = TRUE` shows
  the tree lose its paths.
* Occlusion queries always count 0 (`gravityon/gravityon.c:808,1524,1531`).
  `grav_rle_size` counts three bytes for a run of two, which takes four, so
  `gravCompressVertices` may write past the room it has checked
  (`gravityon/gravityon.c:2121-2172`). The results of `fwrite` in a bitmap and of
  `fclose` are not looked at; a load of the cache that fails has dropped the keys
  already. Mipmaps are not made again when the image is drawn on; of an odd side
  the last row or column is in no mean; `gravMeasureTextWidth` counts a carriage
  return that `gravDrawText` leaves out.   A blended channel can wrap at 8 bits. A restart in a list of triangles drops
  the whole triple. The enumeration of `gpu_backend.c:102-115` lacks instanced,
  indirect, marker and query commands.

Compiler (`compiler/cc.c`)

* A call with three or more live temporaries restores R7 over the result
  (2074-2096, against "R7 remains the C result register").
* `a % b` leaves what is known of b: `a % b == 0` and `a % b + c` come out
  wrong. A shift by a variable is assembled as a shift by 0. `&&` and `||`
  evaluate both sides.
* Parameters that point to structures lose that; parameters stay in the symbol
  table and hide later globals; array fields are loaded as values; indirect
  calls save no temporaries; `switch` dispatches nothing and `goto` goes
  nowhere (2861-2869); more than 32 words of locals overflow the frame;
  compound literals move SP until the function ends, and one of a type that is
  no structure is 0 whatever stands in it (2147-2157).
* A `typedef` of a pointer to `struct S` is refused; a pointer type with a name
  forgets that it is a pointer, and a type named while its structure is
  incomplete keeps one word (1719-1774). `int v[] = {...}` takes 256 words
  whatever is between the braces (1303-1315), so `sizeof` is wrong and a local
  one overflows the frame. A cast leaves what is known of its operand, so a
  pointer keeps the size of what it pointed to (2159).
* Preprocessor: reading a macro's name inside another macro's value ends the
  reading there (`(A + 1)` gives A); a macro that names a macro with a text is
  0; shifts bind tighter than `*` and `+`; `|`
  and `~` are not evaluated; only the first term of `#if` is read; `#elif` and
  `#undef` are ignored; macros are expanded by the final table.
* Lexer: octal constants are read as decimal, `%=` is no token, hex escapes
  have exactly two digits.

Assembler (`asm.c`)

* Negative constants of MOVI and LI are not sign-extended (`MOVI r, -5` gives
  251); `check_imm11` accepts everything (445); a full table of labels is no
  error; a branch to a label is seven words where the comment says six (1200-1210);
  results of writes are not checked.
* In an ELF file the text has 4 bytes a word and symbols count 8 (1371, 1319):
  every symbol but the first lies beyond its word in the segment.

Driver (`compiler/compiler.c`, `arch.c`) and flash (`simulator/sim.c`)

* `read_macho_u32` reads in the wrong order: no real little-endian Mach-O file
  is recognized. x86 assembly with `movzx` and none of the other marks is taken
  for ARM. Marks in the last four bytes are missed.
* `compiler p.asm --arch arm64 -o p` empties its own input when it opens its
  output. A failed build of an Oxalyn source leaves the report and the binary
  of the one before; a failed translation leaves the binary.
* A word that is no number limits the run to 0 cycles, behind `-c` or alone
  (`sim.c:1891-1907,1980-1987`).
* The flash is saved with 32 of its 64 bits (SPEC.md:237-259), and a run that
  is killed while it saves leaves a short file.

Translator (`compiler/translator.c`)

* Conditional jumps of x86 and ARM test R0 against R0: never or always taken,
  by the mnemonic alone. Branches, PUSH, POP, NOT and xchg use R1, which is
  rax and x0 (NOT of rax gives 0); far jumps use R27 and R28 (x26, x27; s11,
  t3); R29 and R30 are scratch (x28 to x30, t4, t5).
* Two stacks, for CALL (in R7, which is r8, x6, t2) and for PUSH (R31), begin
  at the same address. `[rbx]` is read as a register; AT&T order is not turned
  for lea, imul and xchg; parts of registers are registers of their own.
* cmn and test are subtractions; unsigned compares and divisions are signed;
  arithmetic shifts are logical, and by a register shift by 0; idiv and mul
  leave rdx; 32-bit variants have full width; byte loads load words; bge
  compares the wrong way round.
* Jump targets are put in lower case and labels are not (2679-2695): a label
  with capitals is linked to address 0. A `%` in a comment makes the operands of
  its line AT&T's (2700).

WebAssembly (`compiler/translator.c`)

* Every far jump clobbers R27 and R28 (`asm.c:263`), so a variable shift or
  rotation loses its value and memory.copy of a byte or more never ends.
* A call at depth four or more reloads R7 over its result; the depth is not
  restored at else and behind branches; the value at an implicit end is not
  moved to R7.
* i32 results are not wrapped; i64.shr_s tests bit 31; negative constants below
  -1024 are zero-extended; initial values of globals and data segments are
  left out; linear memory begins over the code; the fourth nested frame
  reaches the globals; locals beyond 766 reach the scratch words;
  memory.copy copies forward when the ranges overlap; imported globals are not
  counted; `wasm_skip_limits` takes the upper limit for the lower one
  (1405-1408; nobody uses it).

Debuggers (`dbg.c`, `simulator/gdb_stub.c`)

* The length of a watchpoint starts from 1 and takes digits behind it
  (`gdb_stub.c:444`), so 4 becomes 20 and accesses behind the watched word stop
  too; entries of watchpoints are never used again and survive the connection.
* Memory written into the word that has been fetched is not seen by the next
  step. Replies longer than the buffer are cut.
* In `dbg` a breakpoint behind a wrapped address is missed, cleared places are
  not used again, opcodes above 0x1E halt, and `rst` keeps memory as the
  program has left it.

## 6. What is not modelled

* Kernel: register contents, system calls that only move data, calls of the
  scheduler by the shell outside a trap, host builds (`process_run_now`).
  Message queues: `mq_*` have no callers, so there is no client to model.
* Tcp: checksums, header layout, `rcv_wnd` (never read); the network below it,
  which is mostly formatting and device I/O.
* Processor: `mcause`/`scause`, the MPU (`mpu_check` has no caller), the
  resilient mode with its watchdog (`sim.c:1363-1389`), GPU ports.
* File system: reading and listing, time stamps, modes other than read and
  write.
* Window manager: the keyboard and its buffer, menus, themes, minimised
  windows (nothing sets the flag).
* Graphics: the pixels of the software copy, `gpu_cmd.c`, shaders and
  three-dimensional commands of the device, `gpu_backend.c`.
* GPU API: instanced and indirect draws, which repeat the others; wireframes,
  multisampling, shader stages, buffers as objects, the synchronous dispatch;
  PPM and PNG files, formats other than R8G8B8A8; the vendored `stb_image.h`.
* Toolchain: `hexdump.c`, `--inspect` and `--list-arch`, sizes of the
  compiler's tables, width of the numbers of a command line,
  byte and half-word variants of WebAssembly loads, hexadecimal text and
  sockets of the stub, `display.c` and `framebuffer.c`.
* Shell, login and applications, SMP counters (the kernel runs on one core),
  devices, the voxel demo, and the Verilog, which has its own properties.

`PROJECT.json` lists all components with their status and the reason.

## 7. Plan

Done, in this order: `Kernel`, `Heap`, `Pipe`, `Tcp`, `Processor`; persistence
(`Storage`, with proofs); compute jobs (`Compute`, with proofs); images and the
pipeline cache (`Texture`, `Assets`); the GUI guard and the ring
(`Graphics`), the window manager (`Desktop`), the rasteriser (`Render`); the
toolchain from text to run, the debuggers, the driver. What is left:

1. Message queues at the granularity of the loads and stores of `count`, once
   something calls them; the buffer of the keyboard.
2. Composition of `Kernel` and `Pipe`: preemption only where the timer allows.
3. Proofs: `TiledAsSequential` of `Render`, `TextAsLaidOut` of `Texture`,
   `UnpackedAsPacked` of `Assets`.
4. The adapter `gpu_backend.c`, and objects of the GPU API with their
   lifetimes.
