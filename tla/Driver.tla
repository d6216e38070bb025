------------------------------- MODULE Driver -------------------------------
(***************************************************************************)
(* The programs that a user starts one after another, and the files they   *)
(* leave: the compiler driver (compiler/compiler.c), which recognizes what *)
(* a file is (compiler/arch.c), has it copied or translated and runs the   *)
(* assembler; and the simulator, which keeps its flash memory in a file    *)
(* from run to run (simulator/sim.c).  Any of them may be killed, and any  *)
(* file may turn out not to open.                                          *)
(*                                                                         *)
(* A file is a record: name, what it is; size and byte, its first bytes;   *)
(* marks, the words in them that the heuristics look for; is, the format   *)
(* and the machine it has been written for, <<>> for a text; bom; accepts, *)
(* the architectures whose translator takes it; sound, those whose         *)
(* translation the assembler takes; assembles, whether it takes the file   *)
(* itself.                                                                 *)
(***************************************************************************)
EXTENDS Integers, Sequences, TLC

CONSTANTS Inputs,       \* what the user may have in a source file: extension and file
          Flags,        \* what may follow --arch
          MAX_BUILDS, MAX_RUNS, MAX_FAULTS,
          EEPROM_SIZE,
          FlashWords    \* of 64 bits: <<upper half, lower half>>

VARIABLES files,        \* those named after the prefix, the source and the flash
          job,          \* the run of the compiler, or the last one
          sim,          \* the run of the simulator, or the last one
          spent         \* builds, runs and faults so far

hostvars == <<files, job, sim, spent>>

-----------------------------------------------------------------------------
(* arch.c *)

Architectures == {"oxalyn64", "x86-64", "arm64", "riscv64", "wasm"}
Foreign == {"x86-64", "arm64", "riscv64"}
compiler_arch_from_name(name) ==
  CASE name \in Architectures -> name
    [] name \in {"amd64", "x86_64"} -> "x86-64"
    [] name = "aarch64" -> "arm64"
    [] name \in {"rv64", "riscv"} -> "riscv64"
    [] name = "wasm32" -> "wasm"
    [] OTHER -> "unknown"

Starts(f, bytes) == f.size >= Len(bytes) /\ \A k \in DOMAIN bytes : f.byte[k - 1] = bytes[k]

read_u16(f, at, little) ==
  IF little THEN f.byte[at] + 256 * f.byte[at + 1] ELSE 256 * f.byte[at] + f.byte[at + 1]
\* Four bytes, the most significant first.
read_u32(f, at, little) ==
  [k \in 1..4 |-> IF little THEN f.byte[at + 4 - k] ELSE f.byte[at + k - 1]]
read_macho_u32(f, at, swapped) == read_u32(f, at, ~swapped)

Detection(kind, arch, bits, little) == [kind |-> kind, arch |-> arch, bits |-> bits, little |-> little]
NoDetection == Detection("unknown", "unknown", 0, TRUE)
Known(table, key) == IF key \in DOMAIN table THEN table[key] ELSE "unknown"

ElfMachines == 62 :> "x86-64" @@ 183 :> "arm64" @@ 243 :> "riscv64"
IsElf(f) == f.size >= 20 /\ Starts(f, <<127, 69, 76, 70>>)
Elf(f) ==
  Detection("ELF", Known(ElfMachines, read_u16(f, 18, f.byte[5] = 1)),
            CASE f.byte[4] = 2 -> 64 [] f.byte[4] = 1 -> 32 [] OTHER -> 0, f.byte[5] = 1)

PeMachines == 34404 :> "x86-64" @@ 43620 :> "arm64"
PeOffset(f) ==
  LET v == read_u32(f, 60, TRUE) IN IF v[1] + v[2] > 0 THEN f.size ELSE 256 * v[3] + v[4]
IsPe(f) ==
  /\ f.size >= 64 /\ Starts(f, <<77, 90>>) /\ PeOffset(f) + 6 <= f.size
  /\ [k \in 1..4 |-> f.byte[PeOffset(f) + k - 1]] = <<80, 69, 0, 0>>
PeMachine(f) == read_u16(f, PeOffset(f) + 4, TRUE)
Pe(f) ==
  Detection("PE/COFF", Known(PeMachines, PeMachine(f)), IF PeMachine(f) \in DOMAIN PeMachines THEN 64 ELSE 32, TRUE)

MachoWide == {<<254, 237, 250, 207>>, <<207, 250, 237, 254>>}
MachoSwapped == {<<207, 250, 237, 254>>, <<206, 250, 237, 254>>}
IsMacho(f) == f.size >= 8 /\ read_u32(f, 0, FALSE) \in MachoWide \cup MachoSwapped \cup {<<254, 237, 250, 206>>}
MachoCpus == <<1, 0, 0, 7>> :> "x86-64" @@ <<1, 0, 0, 12>> :> "arm64"
Macho(f) ==
  LET magic == read_u32(f, 0, FALSE)
      swapped == magic \in MachoSwapped
  IN Detection("Mach-O", Known(MachoCpus, read_macho_u32(f, 4, swapped)), IF magic \in MachoWide THEN 64 ELSE 32,
               ~swapped)

\* Marks of the assemblers; the first that has one of its own is taken.
OxalynMarks == {"HALT", "LI ", "ADD ", "SUB ", "LOAD ", "STORE ", "JMP ", "JZ ", "JNZ ", "OUT ", "IN ", "R31"}
X86Marks == {"%rax", "%rsp", "rax", "syscall", "movq"}
RiscvMarks == {"addi", "ecall", " a0", "\na0", "li a", "jal"}
ArmMarks == {"mov x", "xzr", "w0", "movz", "stp ", "adrp"}
Marked(f, marks) == f.marks \cap marks # {}
looks_like_oxalyn_source(f) == Marked(f, OxalynMarks)
detect_assembly_arch(f) ==
  CASE Marked(f, X86Marks) -> "x86-64"
    [] ~Marked(f, X86Marks) /\ Marked(f, RiscvMarks) -> "riscv64"
    [] ~Marked(f, X86Marks) /\ ~Marked(f, RiscvMarks) /\ Marked(f, ArmMarks) -> "arm64"
    [] OTHER -> "unknown"

OfOxalyn(ext, f) == ext \in {".asm", ".oxs"} \/ looks_like_oxalyn_source(f)

\* compiler_detect_bytes: headers before extensions, extensions before marks.
compiler_detect_bytes(ext, f) ==
  IF Starts(f, <<0, 97, 115, 109>>) THEN Detection("WebAssembly", "wasm", 32, TRUE)
  ELSE IF IsElf(f) THEN Elf(f)
  ELSE IF IsPe(f) THEN Pe(f)
  ELSE IF IsMacho(f) THEN Macho(f)
  ELSE IF ext = ".s" \/ OfOxalyn(ext, f)
       THEN Detection("assembly", IF OfOxalyn(ext, f) THEN "oxalyn64" ELSE detect_assembly_arch(f), 64, TRUE)
  ELSE IF ext \in {".bin", ".raw"} THEN [NoDetection EXCEPT !.kind = "raw binary"]
  ELSE NoDetection

-----------------------------------------------------------------------------
(* Files *)

NoFile == [name |-> "none"]
AssemblyText(name, assembles) ==
  [name |-> name, size |-> 100, byte |-> [k \in 0..99 |-> 59], marks |-> {}, is |-> <<>>, bom |-> FALSE, accepts |-> Foreign,
   sound |-> Foreign, assembles |-> assembles]
\* What a file is between its opening for writing and its last line.
Empty == AssemblyText(<<"empty">>, TRUE)
Copied(f) == [f EXCEPT !.bom = FALSE]
Translation(f, arch) == AssemblyText(<<arch>> \o f.name, arch \in f.sound)
LinkedFrom(f) == [of |-> f]
Report(detection, ok) == [detection |-> detection, ok |-> ok]

NoJob ==
  [step |-> "idle", how |-> "none", path |-> "source", detection |-> NoDetection, input |-> NoFile, text |-> NoFile,
   before |-> <<NoFile, NoFile>>, forced |-> FALSE, exit |-> -1, faulty |-> FALSE]
NoFlash == [k \in 1..EEPROM_SIZE |-> <<0, 0>>]
NoRun == [on |-> FALSE, mem |-> NoFlash, dirty |-> FALSE, saving |-> FALSE, left |-> NoFlash, torn |-> FALSE]

\* The user builds, or runs what has been built.
HostInit ==
  /\ job = NoJob /\ sim = NoRun
  /\ \/ /\ spent = [builds |-> 0, runs |-> MAX_RUNS, faults |-> 0]
        /\ files = [p \in {"source", "asm", "bin", "report", "flash"} |-> NoFile]
     \/ /\ spent = [builds |-> MAX_BUILDS, runs |-> 0, faults |-> 0]
        /\ files = [p \in {"source", "asm", "bin", "report", "flash"} |->
                      IF p = "bin" THEN LinkedFrom(Empty) ELSE NoFile]

\* The header of a file that has one, as the linker wrote it.
Headed(i) ==
  LET f == i.file
  IN  \/ f.is = <<>>
      \/ f.is = <<"WebAssembly", "wasm">> /\ Starts(f, <<0, 97, 115, 109>>)
      \/ IsElf(f) /\ f.is = <<"ELF", Elf(f).arch>>
      \/ IsPe(f) /\ f.is = <<"PE/COFF", Pe(f).arch>>
      \/ IsMacho(f) /\ f.is = <<"Mach-O", Macho(f).arch>>
      \/ /\ f.is = <<"raw binary", "unknown">> /\ i.ext \in {".bin", ".raw"}
         /\ ~Starts(f, <<0, 97, 115, 109>>) /\ ~IsElf(f) /\ ~IsPe(f) /\ ~IsMacho(f) /\ ~OfOxalyn(i.ext, f)

Linked == \A i \in Inputs : "is" \in DOMAIN i.file /\ Headed(i)

NobodyWorks ==
  /\ job = NoJob /\ sim = NoRun
  /\ spent = [builds |-> 0, runs |-> 0, faults |-> 0]
  /\ files = [p \in {"source", "asm", "bin", "report", "flash"} |-> NoFile]

Idle == job.step = "idle"

\* A file does not open, or a program is killed.
Fails == spent.faults < MAX_FAULTS /\ spent' = [spent EXCEPT !.faults = @ + 1]

Ends(code, faulty) == job' = [job EXCEPT !.step = "idle", !.exit = code, !.faulty = faulty]

\* write_report, the last a run does: whether the file opens makes no
\* difference to the status.
write_report(fs, ok) == [fs EXCEPT !["report"] = Report(job.detection, ok)]
Reports(fs, ok, code) ==
  \/ files' = write_report(fs, ok) /\ Ends(code, FALSE) /\ UNCHANGED spent
  \/ files' = fs /\ Ends(code, TRUE) /\ Fails

-----------------------------------------------------------------------------
(* compiler.c *)

\* A file given by the user stands under a name of its own, or under that of
\* the assembly to be written.
Extension(path) == IF path = "asm" THEN ".asm" ELSE files["source"].ext
FileAt(path) == IF path = "asm" THEN files["asm"] ELSE files["source"].file

Provide ==
  /\ Idle /\ spent.builds < MAX_BUILDS
  /\ \E i \in Inputs :
       /\ i.ext # ".asm" /\ files["source"] # i
       /\ files' = [files EXCEPT !["source"] = i]
  /\ job' = NoJob
  /\ UNCHANGED <<sim, spent>>
ProvideAssembly ==
  /\ Idle /\ spent.builds < MAX_BUILDS
  /\ \E i \in Inputs : i.ext = ".asm" /\ files["asm"] # i.file /\ files' = [files EXCEPT !["asm"] = i.file]
  /\ job' = NoJob
  /\ UNCHANGED <<sim, spent>>

\* compile_input: which way a file goes.
How(detection) ==
  CASE detection.arch = "unknown" -> "none"
    [] detection.arch = "oxalyn64" /\ detection.kind = "assembly" -> "copy"
    [] detection.arch \in Foreign /\ detection.kind = "assembly" -> "translate"
    [] detection.kind = "WebAssembly" \/ detection.arch = "wasm" -> "module"
    [] OTHER -> "unsupported"

Start ==
  /\ Idle /\ spent.builds < MAX_BUILDS
  /\ \E path \in {"source", "asm"}, flag \in Flags :
       /\ files[path] # NoFile
       /\ flag = "auto" \/ compiler_arch_from_name(flag) # "unknown"
       /\ LET found == compiler_detect_bytes(Extension(path), FileAt(path))
              detection == IF flag = "auto" THEN found ELSE [found EXCEPT !.arch = compiler_arch_from_name(flag)]
          IN job' = [NoJob EXCEPT !.step = "detected", !.how = How(detection), !.path = path, !.detection = detection,
                                  !.input = FileAt(path), !.before = <<files["asm"], files["bin"]>>,
                                  !.forced = flag # "auto"]
  /\ spent' = [spent EXCEPT !.builds = @ + 1]
  /\ UNCHANGED <<files, sim>>
\* Nothing to read, or an architecture that nobody knows.
StartRefused ==
  /\ Idle /\ spent.builds < MAX_BUILDS
  /\ \/ files["source"] = NoFile
     \/ \E flag \in Flags : flag # "auto" /\ compiler_arch_from_name(flag) = "unknown"
  /\ job' = [NoJob EXCEPT !.exit = 1, !.before = <<files["asm"], files["bin"]>>]
  /\ spent' = [spent EXCEPT !.builds = @ + 1]
  /\ UNCHANGED <<files, sim>>

Unknown ==
  /\ job.step = "detected" /\ job.how \in {"none", "unsupported"}
  /\ Reports(files, FALSE, IF job.how = "none" THEN 1 ELSE 2)
  /\ UNCHANGED sim

\* The translator of assembly reads its input while it writes; the others
\* have read it before they open their output.
OpenAssembly ==
  /\ job.step = "detected" /\ job.how \in {"copy", "translate", "module"}
  /\ job.how = "module" => Starts(FileAt(job.path), <<0, 97, 115, 109>>)
  /\ files' = [files EXCEPT !["asm"] = Empty]
  /\ job' = [job EXCEPT !.step = "writing",
                        !.text = IF job.how = "translate" /\ job.path = "asm" THEN Empty ELSE FileAt(job.path)]
  /\ UNCHANGED <<sim, spent>>
NotAModule ==
  /\ job.step = "detected" /\ job.how = "module" /\ ~Starts(FileAt(job.path), <<0, 97, 115, 109>>)
  /\ Reports(files, FALSE, 2)
  /\ UNCHANGED sim
CannotOpenAssembly ==
  /\ job.step = "detected" /\ job.how \in {"copy", "translate", "module"}
  /\ files' = IF job.how = "copy" THEN files ELSE write_report(files, FALSE)
  /\ Ends(IF job.how = "copy" THEN 1 ELSE 2, TRUE)
  /\ Fails /\ UNCHANGED sim

\* compiler_translate_source and wasm_translate_module remove what they have
\* begun when they meet what they do not support.
WriteAssembly ==
  /\ job.step = "writing"
  /\ job.how = "copy" \/ job.detection.arch \in job.text.accepts
  /\ files' = [files EXCEPT !["asm"] = IF job.how = "copy" THEN Copied(job.text)
                                       ELSE Translation(job.text, job.detection.arch)]
  /\ job' = [job EXCEPT !.step = "assemble"]
  /\ UNCHANGED <<sim, spent>>
Untranslatable ==
  /\ job.step = "writing" /\ job.how # "copy" /\ job.detection.arch \notin job.text.accepts
  /\ Reports([files EXCEPT !["asm"] = NoFile], FALSE, 2)
  /\ UNCHANGED sim

\* main of asm.c opens its output when both passes are done.
OpenBinary ==
  /\ job.step = "assemble" /\ files["asm"].assembles
  /\ files' = [files EXCEPT !["bin"] = LinkedFrom(Empty)]
  /\ job' = [job EXCEPT !.step = "linking"]
  /\ UNCHANGED <<sim, spent>>
WriteBinary ==
  /\ job.step = "linking"
  /\ files' = [files EXCEPT !["bin"] = LinkedFrom(files["asm"])]
  /\ job' = [job EXCEPT !.step = "report"]
  /\ UNCHANGED <<sim, spent>>

\* MUTANT: a module's files stay when the assembler refuses them.
AfterRefusalKept(fs) == fs
\* Of a module nothing is left that was not finished; a copy leaves the
\* report as it was.
AfterRefusal(fs) == [fs EXCEPT !["asm"] = NoFile, !["bin"] = NoFile]
Code == IF job.how = "module" THEN 2 ELSE 1
LeftBehind == IF job.how = "module" THEN AfterRefusal(files) ELSE files
AssemblerRefuses ==
  /\ job.step = "assemble" /\ ~files["asm"].assembles
  /\ IF job.how = "copy" THEN Ends(Code, FALSE) /\ UNCHANGED <<files, spent>> ELSE Reports(LeftBehind, FALSE, Code)
  /\ UNCHANGED sim
CannotOpenBinary ==
  /\ job.step = "assemble" /\ files["asm"].assembles
  /\ files' = IF job.how = "copy" THEN files ELSE write_report(LeftBehind, FALSE)
  /\ Ends(Code, TRUE)
  /\ Fails /\ UNCHANGED sim

Finish ==
  /\ job.step = "report"
  /\ Reports(files, TRUE, 0)
  /\ UNCHANGED sim

KillCompiler ==
  /\ ~Idle
  /\ Fails /\ Ends(-1, TRUE)
  /\ UNCHANGED <<files, sim>>

-----------------------------------------------------------------------------
(* sim.c *)

\* eeprom_load: what the file has, zeros behind it.
FlashLoaded(file) ==
  [k \in 1..EEPROM_SIZE |-> IF file # NoFile /\ k <= Len(file.words) THEN <<0, file.words[k]>> ELSE <<0, 0>>]
\* eeprom_save writes four bytes of each word.
Low(w) == w[2]

StartSimulator ==
  /\ ~sim.on /\ Idle /\ spent.runs < MAX_RUNS /\ files["bin"] # NoFile
  /\ sim' = [sim EXCEPT !.on = TRUE, !.mem = FlashLoaded(files["flash"]), !.dirty = FALSE]
  /\ spent' = [spent EXCEPT !.runs = @ + 1]
  /\ UNCHANGED <<files, job>>
EStore ==
  /\ sim.on /\ ~sim.saving
  /\ \E k \in 1..EEPROM_SIZE, w \in FlashWords : sim' = [sim EXCEPT !.mem[k] = w, !.dirty = TRUE]
  /\ UNCHANGED <<files, job, spent>>

Ended == [sim EXCEPT !.on = FALSE, !.saving = FALSE]
\* A simulator that has stored nothing leaves the file alone.
StopClean ==
  /\ sim.on /\ ~sim.saving /\ ~sim.dirty
  /\ sim' = Ended
  /\ UNCHANGED <<files, job, spent>>
OpenFlash ==
  /\ sim.on /\ ~sim.saving /\ sim.dirty
  /\ files' = [files EXCEPT !["flash"] = [words |-> <<>>]]
  /\ sim' = [sim EXCEPT !.saving = TRUE, !.left = sim.mem, !.torn = TRUE]
  /\ UNCHANGED <<job, spent>>
CannotOpenFlash ==
  /\ sim.on /\ ~sim.saving /\ sim.dirty
  /\ sim' = Ended
  /\ Fails /\ UNCHANGED <<files, job>>

\* MUTANT: the last word is not written.
SavedShort(n) == n >= EEPROM_SIZE - 1
Saved(n) == n >= EEPROM_SIZE
SaveWord ==
  /\ sim.saving /\ ~Saved(Len(files["flash"].words))
  /\ files' = [files EXCEPT !["flash"].words = Append(@, Low(sim.mem[Len(@) + 1]))]
  /\ UNCHANGED <<job, sim, spent>>
CloseFlash ==
  /\ sim.saving /\ Saved(Len(files["flash"].words))
  /\ sim' = [Ended EXCEPT !.torn = FALSE]
  /\ UNCHANGED <<files, job, spent>>
KillSimulator ==
  /\ sim.on
  /\ sim' = Ended
  /\ Fails /\ UNCHANGED <<files, job>>

-----------------------------------------------------------------------------
HostNext ==
  \/ Provide \/ ProvideAssembly \/ Start \/ StartRefused \/ Unknown \/ OpenAssembly \/ NotAModule
  \/ CannotOpenAssembly \/ WriteAssembly \/ Untranslatable \/ OpenBinary \/ WriteBinary \/ AssemblerRefuses
  \/ CannotOpenBinary \/ Finish \/ KillCompiler \/ StartSimulator \/ EStore \/ StopClean \/ OpenFlash
  \/ CannotOpenFlash \/ SaveWord \/ CloseFlash \/ KillSimulator

HostSpec == HostInit /\ [][HostNext]_hostvars

-----------------------------------------------------------------------------
\* What the compiler has to leave when it says that all went well.
Expected == IF job.how = "copy" THEN Copied(job.input) ELSE Translation(job.input, job.detection.arch)
OntoItself == job.how = "translate" /\ job.path = "asm"

\* When the compiler says that all went well, both files are made of the
\* file it was given, and the report says so; when it says that something
\* did not, there is no binary but the one there was before, whatever did
\* not open and whatever the assembler refused, and behind status 2 there is
\* a report of it and no assembly that was not there before.  A file that
\* has a header is reported as what it has been written as, whatever its
\* name (compiler_detect_bytes, compile_oxalyn_source,
\* compile_generic_source, compile_input, main of asm.c).
BuiltAsReported ==
  /\ (Idle /\ job.exit = 0 /\ ~OntoItself) =>
       /\ files["asm"] = Expected /\ files["bin"] = LinkedFrom(Expected)
       /\ job.faulty \/ files["report"] = Report(job.detection, TRUE)
  /\ (Idle /\ job.exit \in {1, 2}) =>
       /\ files["bin"] \in {job.before[2], NoFile}
       /\ job.exit = 2 => files["asm"] \in {job.before[1], NoFile}
       /\ (job.exit = 2 /\ ~job.faulty) => files["report"] = Report(job.detection, FALSE)
  /\ (Idle /\ job.exit # -1 /\ job.input # NoFile /\ ~job.forced /\ ~job.faulty) =>
       \/ job.input.is = <<>>
       \/ <<files["report"].detection.kind, files["report"].detection.arch>> = job.input.is

\* A run of the simulator finds in its flash the words, each to 32 bits, that
\* the last run has stored which ended by itself, however many were killed
\* or could not open the file in between (eeprom_load, eeprom_save); only a
\* run that is killed while it saves is not kept.
FlashKept ==
  (sim.on /\ ~sim.dirty /\ ~sim.torn) => \A k \in 1..EEPROM_SIZE : sim.mem[k] = <<0, Low(sim.left[k])>>

=============================================================================
