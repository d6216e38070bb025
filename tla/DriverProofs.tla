---------------------------- MODULE DriverProofs ----------------------------
(***************************************************************************)
(* Proofs about Driver, for any inputs that are what their headers say,    *)
(* any flags, a flash of any size and any number of builds, runs and       *)
(* faults: what a run of the compiler leaves behind is what its status and *)
(* its report say, and the flash memory outlives the runs.                 *)
(*                                                                         *)
(* BuiltAsReported speaks of the ends of runs; BuildInv adds what is true  *)
(* in their middle (Working: how much of what is expected has been         *)
(* written, what is still as it was before), that every file which may     *)
(* become an input is recognized as what it is (Provided), and what the    *)
(* detection was (Told).  FlashKept speaks of a run that has stored        *)
(* nothing; FlashInv adds what the file must give while nobody runs        *)
(* (Holds) and how far a save has come (Saves).                            *)
(***************************************************************************)
EXTENDS Driver, TLAPS

Places == {"source", "asm", "bin", "report", "flash"}
Whole(fs) == fs = [p \in Places |-> fs[p]]

-----------------------------------------------------------------------------
(* Detection: what a file is taken for. *)
Recognized(ext, f) ==
  /\ "is" \in DOMAIN f
  /\ f.is # <<>> =>
       LET d == compiler_detect_bytes(ext, f) IN d.kind # "assembly" /\ f.is = <<d.kind, d.arch>>
IsDetection(d) == d = [kind |-> d.kind, arch |-> d.arch, bits |-> d.bits, little |-> d.little]

\* What is detected is a detection, whichever header was met.
LEMMA DetectionIs ==
  ASSUME NEW ext, NEW f
  PROVE  IsDetection(compiler_detect_bytes(ext, f))
<1>1. \A kind, arch, bits, little : IsDetection(Detection(kind, arch, bits, little))
  BY DEF IsDetection, Detection
<1>2. IsDetection(Elf(f)) /\ IsDetection(Pe(f)) /\ IsDetection(Macho(f)) /\ IsDetection(NoDetection)
  BY <1>1 DEF Elf, Pe, Macho, NoDetection
<1>3. IsDetection([NoDetection EXCEPT !.kind = "raw binary"])
  <2>1. \A k, l, a, b, c :
          [[kind |-> k, arch |-> a, bits |-> b, little |-> c] EXCEPT !.kind = l] = [kind |-> l, arch |-> a, bits |-> b, little |-> c]
    OBVIOUS
  <2>2. PICK k, a, b, c : NoDetection = [kind |-> k, arch |-> a, bits |-> b, little |-> c]
    BY DEF NoDetection, Detection
  <2>3. [NoDetection EXCEPT !.kind = "raw binary"] = [kind |-> "raw binary", arch |-> a, bits |-> b, little |-> c]
    <3>1. PICK l : l = "raw binary"
      OBVIOUS
    <3>2. [NoDetection EXCEPT !.kind = l] = [kind |-> l, arch |-> a, bits |-> b, little |-> c]
      BY <2>2
    <3>3. QED
      BY <3>1, <3>2
  <2>4. QED
    BY <2>3 DEF IsDetection
<1>4. QED
  BY <1>1, <1>2, <1>3 DEF compiler_detect_bytes

\* The headers differ in their first byte, so no file has two.
LEMMA FirstByte ==
  ASSUME NEW f
  PROVE  /\ Starts(f, <<0, 97, 115, 109>>) => f.byte[0] = 0
         /\ IsElf(f) => f.byte[0] = 127
         /\ IsPe(f) => f.byte[0] = 77
         /\ IsMacho(f) => f.byte[0] \in {254, 207, 206}
<1>1. \A n : Starts(f, n) /\ 1 \in DOMAIN n => f.byte[1 - 1] = n[1]
  BY DEF Starts
<1>2. 1 - 1 = 0
  OBVIOUS
<1>3. \A a, b, c, d : 1 \in DOMAIN <<a, b, c, d>> /\ <<a, b, c, d>>[1] = a
  OBVIOUS
<1>4. \A a, b : 1 \in DOMAIN <<a, b>> /\ <<a, b>>[1] = a
  OBVIOUS
<1>5. Starts(f, <<0, 97, 115, 109>>) => f.byte[0] = 0
  BY <1>1, <1>2, <1>3
<1>6. IsElf(f) => f.byte[0] = 127
  BY <1>1, <1>2, <1>3 DEF IsElf
<1>7. IsPe(f) => f.byte[0] = 77
  BY <1>1, <1>2, <1>4 DEF IsPe
<1>8. IsMacho(f) => f.byte[0] \in {254, 207, 206}
  <2>1. read_u32(f, 0, FALSE)[1] = f.byte[0]
    BY DEF read_u32
  <2>2. \A w \in MachoWide \cup MachoSwapped \cup {<<254, 237, 250, 206>>} : w[1] \in {254, 207, 206}
    BY DEF MachoWide, MachoSwapped
  <2>3. QED
    BY <2>1, <2>2 DEF IsMacho
<1>9. QED
  BY <1>5, <1>6, <1>7, <1>8

\* A file with a header is taken for what it was written as, whatever its
\* extension and its words.
LEMMA HeaderIsRecognized ==
  ASSUME NEW i, "is" \in DOMAIN i.file, Headed(i)
  PROVE  Recognized(i.ext, i.file)
<1> DEFINE f == i.file
           d == compiler_detect_bytes(i.ext, f)
<1>1. CASE f.is = <<>>
  BY <1>1 DEF Recognized
<1>2. CASE f.is = <<"WebAssembly", "wasm">> /\ Starts(f, <<0, 97, 115, 109>>)
  <2>1. d = Detection("WebAssembly", "wasm", 32, TRUE)
    BY <1>2 DEF compiler_detect_bytes
  <2>2. QED
    BY <1>2, <2>1 DEF Recognized, Detection
<1>3. CASE f.is = <<"ELF", Elf(f).arch>> /\ IsElf(f)
  <2>1. ~Starts(f, <<0, 97, 115, 109>>)
    BY <1>3, FirstByte
  <2>2. d = Elf(f) /\ Elf(f).kind = "ELF"
    BY <1>3, <2>1 DEF compiler_detect_bytes, Elf, Detection
  <2>3. QED
    <3> HIDE DEF d
    <3> QED BY <1>3, <2>2 DEF Recognized, d
<1>4. CASE f.is = <<"PE/COFF", Pe(f).arch>> /\ IsPe(f)
  <2>1. ~Starts(f, <<0, 97, 115, 109>>) /\ ~IsElf(f)
    BY <1>4, FirstByte
  <2>2. d = Pe(f) /\ Pe(f).kind = "PE/COFF"
    BY <1>4, <2>1 DEF compiler_detect_bytes, Pe, Detection
  <2>3. QED
    <3> HIDE DEF d
    <3> QED BY <1>4, <2>2 DEF Recognized, d
<1>5. CASE f.is = <<"Mach-O", Macho(f).arch>> /\ IsMacho(f)
  <2>1. ~Starts(f, <<0, 97, 115, 109>>) /\ ~IsElf(f) /\ ~IsPe(f)
    BY <1>5, FirstByte
  <2>2. d = Macho(f) /\ Macho(f).kind = "Mach-O"
    BY <1>5, <2>1 DEF compiler_detect_bytes, Macho, Detection
  <2>3. QED
    <3> HIDE DEF d
    <3> QED BY <1>5, <2>2 DEF Recognized, d
<1>6. CASE /\ f.is = <<"raw binary", "unknown">> /\ i.ext \in {".bin", ".raw"}
           /\ ~Starts(f, <<0, 97, 115, 109>>) /\ ~IsElf(f) /\ ~IsPe(f) /\ ~IsMacho(f) /\ ~OfOxalyn(i.ext, f)
  <2>1. d = [NoDetection EXCEPT !.kind = "raw binary"]
    BY <1>6 DEF compiler_detect_bytes
  <2>2. d.kind = "raw binary" /\ d.arch = "unknown"
    BY <2>1 DEF NoDetection, Detection
  <2>3. QED
    <3> HIDE DEF d
    <3> QED BY <1>6, <2>2 DEF Recognized, d
<1>7. QED
  BY <1>1, <1>2, <1>3, <1>4, <1>5, <1>6 DEF Headed

(* The files and the job *)
JobType(j) ==
  j = [step |-> j.step, how |-> j.how, path |-> j.path, detection |-> j.detection, input |-> j.input, text |-> j.text,
       before |-> j.before, forced |-> j.forced, exit |-> j.exit, faulty |-> j.faulty]

\* One file is written, the others stay.
LEMMA Written ==
  ASSUME NEW fs, Whole(fs), NEW p \in Places, NEW f
  PROVE  LET gs == [fs EXCEPT ![p] = f] IN Whole(gs) /\ gs[p] = f /\ \A q \in Places \ {p} : gs[q] = fs[q]
BY DEF Whole

SameJob(i, j) ==
  /\ j.how = i.how /\ j.path = i.path /\ j.detection = i.detection /\ j.input = i.input
  /\ j.before = i.before /\ j.forced = i.forced

\* A job that ends keeps what it was about.
LEMMA EndIs ==
  ASSUME JobType(job), NEW code, NEW faulty, Ends(code, faulty)
  PROVE  JobType(job') /\ SameJob(job, job') /\ job'.step = "idle" /\ job'.exit = code /\ job'.faulty = faulty
<1>1. \A r, x, y, z : [r EXCEPT !.step = x, !.exit = y, !.faulty = z]
                       = [[[r EXCEPT !.step = x] EXCEPT !.exit = y] EXCEPT !.faulty = z]
  OBVIOUS
<1>2. PICK j : j = [job EXCEPT !.step = "idle"]
  OBVIOUS
<1>3. JobType(j) /\ SameJob(job, j) /\ j.step = "idle"
  BY <1>2 DEF JobType, SameJob
<1>4. PICK k : k = [j EXCEPT !.exit = code]
  OBVIOUS
<1>5. JobType(k) /\ SameJob(job, k) /\ k.step = "idle" /\ k.exit = code
  BY <1>3, <1>4 DEF JobType, SameJob
<1>6. job' = [k EXCEPT !.faulty = faulty]
  BY <1>1, <1>2, <1>4 DEF Ends
<1>7. QED
  BY <1>5, <1>6 DEF JobType, SameJob

\* So does one that goes on.
LEMMA StepIs ==
  ASSUME JobType(job), NEW step, job' = [job EXCEPT !.step = step]
  PROVE  JobType(job') /\ SameJob(job, job') /\ job'.step = step /\ job'.text = job.text
BY DEF JobType, SameJob

\* A report is written, or its file does not open.
LEMMA ReportIs ==
  ASSUME JobType(job), NEW fs, Whole(fs), NEW ok, NEW code, Reports(fs, ok, code)
  PROVE  /\ Whole(files') /\ \A p \in Places \ {"report"} : files'[p] = fs[p]
         /\ \E faulty \in BOOLEAN : Ends(code, faulty) /\ (faulty \/ files'["report"] = Report(job.detection, ok))
<1>1. Whole(write_report(fs, ok)) /\ write_report(fs, ok)["report"] = Report(job.detection, ok)
      /\ \A p \in Places \ {"report"} : write_report(fs, ok)[p] = fs[p]
  BY Written DEF write_report, Places
<1>2. QED
  BY <1>1 DEF Reports

Told(j) ==
  /\ "is" \in DOMAIN j.input
  /\ j.input.is # <<>> =>
       /\ j.detection.kind # "assembly"
       /\ ~j.forced => j.input.is = <<j.detection.kind, j.detection.arch>>
Working ==
  job.step # "idle" =>
    /\ job.step \in {"detected", "writing", "assemble", "linking", "report"}
    /\ job.how = How(job.detection) /\ Told(job)
    /\ job.step = "detected" =>
         /\ job.path \in {"source", "asm"} /\ files[job.path] # NoFile
         /\ job.input = FileAt(job.path) /\ job.before[1] = files["asm"]
    /\ job.step \in {"detected", "writing", "assemble"} => job.before[2] = files["bin"]
    /\ job.step = "writing" => (OntoItself \/ job.text = job.input)
    /\ job.step \in {"assemble", "linking", "report"} => (OntoItself \/ files["asm"] = Expected)
    /\ job.step = "report" => (OntoItself \/ files["bin"] = LinkedFrom(Expected))

Provided(fs) ==
  /\ Whole(fs)
  /\ fs["source"] # NoFile => Recognized(fs["source"].ext, fs["source"].file)
  /\ fs["asm"] # NoFile => Recognized(".asm", fs["asm"])

BuildInv ==
  /\ Provided(files) /\ JobType(job) /\ Working /\ BuiltAsReported

\* How a run of the compiler may end.
EndsWell(code, faulty) ==
  /\ code = 0 => /\ OntoItself \/ (files'["asm"] = Expected /\ files'["bin"] = LinkedFrom(Expected))
                 /\ faulty \/ files'["report"] = Report(job.detection, TRUE)
  /\ code \in {1, 2} => files'["bin"] \in {job.before[2], NoFile}
  /\ code = 2 => /\ files'["asm"] \in {job.before[1], NoFile}
                 /\ faulty \/ files'["report"] = Report(job.detection, FALSE)
  /\ (code # -1 /\ ~faulty) => \/ files'["report"].detection = job.detection
                              \/ job.input.is = <<>>

\* A run that ends well keeps the invariant.
LEMMA EndsKeep ==
  ASSUME BuildInv, job.step # "idle", Provided(files'), NEW code \in {-1, 0, 1, 2}, NEW faulty \in BOOLEAN,
         Ends(code, faulty), EndsWell(code, faulty)
  PROVE  BuildInv'
<1>1. JobType(job') /\ SameJob(job, job') /\ job'.step = "idle" /\ job'.exit = code /\ job'.faulty = faulty
  BY EndIs DEF BuildInv
<1>2. Expected' = Expected /\ OntoItself' = OntoItself
  BY <1>1 DEF Expected, OntoItself, SameJob
<1>3. Told(job)
  BY DEF BuildInv, Working
<1>4. BuiltAsReported'
  <2>1. (job'.exit = 0 /\ ~OntoItself') =>
          /\ files'["asm"] = Expected' /\ files'["bin"] = LinkedFrom(Expected')
          /\ job'.faulty \/ files'["report"] = Report(job'.detection, TRUE)
    BY <1>1, <1>2 DEF EndsWell, SameJob
  <2>2. (job'.exit \in {1, 2}) =>
          /\ files'["bin"] \in {job'.before[2], NoFile}
          /\ job'.exit = 2 => files'["asm"] \in {job'.before[1], NoFile}
          /\ (job'.exit = 2 /\ ~job'.faulty) => files'["report"] = Report(job'.detection, FALSE)
    BY <1>1 DEF EndsWell, SameJob
  <2>3. (job'.exit # -1 /\ ~job'.forced /\ ~job'.faulty) =>
          \/ job'.input.is = <<>>
          \/ <<files'["report"].detection.kind, files'["report"].detection.arch>> = job'.input.is
    BY <1>1, <1>3 DEF EndsWell, SameJob, Told
  <2>4. QED
    BY <2>1, <2>2, <2>3 DEF BuiltAsReported
<1>5. QED
  BY <1>1, <1>4 DEF BuildInv, Working

\* An idle job that has said nothing yet.
LEMMA NothingSaid ==
  ASSUME Provided(files'), JobType(job'), job'.step = "idle", job'.exit = -1
  PROVE  BuildInv'
BY DEF BuildInv, Working, BuiltAsReported, Idle

\* Nothing has been built.
LEMMA BuildBegins == HostInit \/ NobodyWorks => BuildInv
<1> SUFFICES ASSUME HostInit \/ NobodyWorks PROVE BuildInv
  OBVIOUS
<1>1. job = NoJob /\ files = [p \in Places |-> files[p]] /\ files["source"] = NoFile /\ files["asm"] = NoFile
  BY DEF HostInit, NobodyWorks, Places
<1>2. JobType(job) /\ job.step = "idle" /\ job.exit = -1
  BY <1>1 DEF JobType, NoJob
<1>3. QED
  BY <1>1, <1>2 DEF BuildInv, Provided, Whole, Working, BuiltAsReported, Idle

\* The user gives a file.
LEMMA ProvideKeeps == ASSUME BuildInv, Linked, Provide \/ ProvideAssembly PROVE BuildInv'
<1>1. JobType(job') /\ job'.step = "idle" /\ job'.exit = -1
  BY DEF Provide, ProvideAssembly, JobType, NoJob
<1>2. \A i \in Inputs : Recognized(i.ext, i.file)
  BY HeaderIsRecognized DEF Linked
<1>3. Whole(files)
  BY DEF BuildInv, Provided
<1>4. CASE Provide
  <2>1. PICK i \in Inputs : files' = [files EXCEPT !["source"] = i]
    BY <1>4 DEF Provide
  <2>2. Whole(files') /\ files'["source"] = i /\ files'["asm"] = files["asm"]
    BY <1>3, <2>1 DEF Whole, Places
  <2>3. Provided(files')
    BY <1>2, <2>2 DEF BuildInv, Provided
  <2>4. QED
    BY <1>1, <2>3, NothingSaid
<1>5. CASE ProvideAssembly
  <2>1. PICK i \in Inputs : i.ext = ".asm" /\ files' = [files EXCEPT !["asm"] = i.file]
    BY <1>5 DEF ProvideAssembly
  <2>2. Whole(files') /\ files'["asm"] = i.file /\ files'["source"] = files["source"]
    BY <1>3, <2>1 DEF Whole, Places
  <2>3. Recognized(".asm", i.file)
    BY <1>2, <2>1
  <2>4. Provided(files')
    BY <2>2, <2>3 DEF BuildInv, Provided
  <2>5. QED
    BY <1>1, <2>4, NothingSaid
<1>6. QED
  BY <1>4, <1>5

\* The compiler reads its input and detects what it is.
LEMMA StartKeeps == ASSUME BuildInv, Start PROVE BuildInv'
<1>1. PICK path \in {"source", "asm"}, flag \in Flags :
        /\ files[path] # NoFile
        /\ LET found == compiler_detect_bytes(Extension(path), FileAt(path))
               detection == IF flag = "auto" THEN found ELSE [found EXCEPT !.arch = compiler_arch_from_name(flag)]
           IN job' = [NoJob EXCEPT !.step = "detected", !.how = How(detection), !.path = path, !.detection = detection,
                                   !.input = FileAt(path), !.before = <<files["asm"], files["bin"]>>,
                                   !.forced = flag # "auto"]
  BY DEF Start
<1> DEFINE found == compiler_detect_bytes(Extension(path), FileAt(path))
           detection == IF flag = "auto" THEN found ELSE [found EXCEPT !.arch = compiler_arch_from_name(flag)]
<1>2. PICK d : d = detection
  OBVIOUS
<1>3. PICK forced \in BOOLEAN : forced = (flag # "auto")
  OBVIOUS
<1>4. d = detection /\ forced = (flag # "auto")
  BY <1>2, <1>3
<1>5. d.kind = found.kind /\ (~forced => d = found)
  <2>1. IsDetection(found)
    BY DetectionIs
  <2>2. QED
    <3> HIDE DEF found
    <3> QED BY <1>4, <2>1 DEF IsDetection
<1>6. Recognized(Extension(path), FileAt(path))
  BY <1>1 DEF BuildInv, Provided, Extension, FileAt
<1>7. /\ JobType(job') /\ job'.step = "detected" /\ job'.how = How(d) /\ job'.path = path /\ job'.detection = d
      /\ job'.input = FileAt(path) /\ job'.before = <<files["asm"], files["bin"]>> /\ job'.forced = forced
  <2> HIDE DEF found, detection
  <2>1. job' = [NoJob EXCEPT !.step = "detected", !.how = How(d), !.path = path, !.detection = d,
                             !.input = FileAt(path), !.before = <<files["asm"], files["bin"]>>, !.forced = forced]
    BY <1>1, <1>4 DEF found, detection
  <2>2. PICK h, i, b : h = How(d) /\ i = FileAt(path) /\ b = <<files["asm"], files["bin"]>>
    OBVIOUS
  <2>3. job' = [step |-> "detected", how |-> h, path |-> path, detection |-> d, input |-> i, text |-> NoFile,
                before |-> b, forced |-> forced, exit |-> -1, faulty |-> FALSE]
    BY <2>1, <2>2 DEF NoJob
  <2>4. QED
    BY <2>2, <2>3 DEF JobType
<1>8. files' = files
  BY DEF Start
<1>9. Told(job')
  <2> HIDE DEF found
  <2> QED BY <1>5, <1>6, <1>7 DEF Told, Recognized, found
<1>10. FileAt(path)' = FileAt(path)
  BY <1>8 DEF FileAt
<1>11. Working'
  BY <1>1, <1>7, <1>8, <1>9, <1>10 DEF Working, FileAt
<1>12. BuiltAsReported'
  BY <1>7 DEF BuiltAsReported, Idle
<1>13. QED
  BY <1>7, <1>8, <1>11, <1>12 DEF BuildInv

\* Without input, or for an unknown architecture, nothing is touched.
LEMMA RefusedKeeps == ASSUME BuildInv, StartRefused PROVE BuildInv'
<1>1. /\ JobType(job') /\ job'.step = "idle" /\ job'.exit = 1 /\ job'.before = <<files["asm"], files["bin"]>>
      /\ job'.input = NoFile
  <2>1. PICK b : b = <<files["asm"], files["bin"]>>
    OBVIOUS
  <2>2. job' = [NoJob EXCEPT !.exit = 1, !.before = b]
    BY <2>1 DEF StartRefused
  <2>3. QED
    BY <2>1, <2>2 DEF NoJob, JobType
<1>2. files' = files
  BY DEF StartRefused
<1>3. BuiltAsReported'
  BY <1>1, <1>2 DEF BuiltAsReported, Idle
<1>4. QED
  BY <1>1, <1>2, <1>3 DEF BuildInv, Working

\* What is written as assembly has no header to be recognized by.
LEMMA PlainIsRecognized ==
  ASSUME NEW ext, NEW f, "is" \in DOMAIN f, f.is = <<>>
  PROVE  Recognized(ext, f)
BY DEF Recognized

\* What is to be written as assembly is no binary under another name.
LEMMA ExpectedIsPlain ==
  ASSUME Told(job), job.how = How(job.detection), job.how \in {"copy", "translate", "module"}
  PROVE  "is" \in DOMAIN Expected /\ Expected.is = <<>>
<1>1. CASE job.how = "copy"
  <2>1. job.detection.kind = "assembly"
    BY <1>1 DEF How
  <2>2. Expected = [job.input EXCEPT !.bom = FALSE] /\ job.input.is = <<>> /\ "is" \in DOMAIN job.input
    BY <1>1, <2>1 DEF Told, Expected, Copied
  <2>3. QED
    BY <2>2
<1>2. CASE job.how # "copy"
  BY <1>2 DEF Expected, Translation, AssemblyText
<1>3. QED
  BY <1>1, <1>2
\* Nor is a text.
LEMMA TextIsPlain ==
  ASSUME NEW name, NEW assembles
  PROVE  "is" \in DOMAIN AssemblyText(name, assembles) /\ AssemblyText(name, assembles).is = <<>>
BY DEF AssemblyText

\* A file of the compiler's is written.
LEMMA WritesProvided ==
  ASSUME Provided(files), NEW f,
         \/ files' = [files EXCEPT !["bin"] = f]
         \/ files' = [files EXCEPT !["asm"] = f] /\ (f = NoFile \/ Recognized(".asm", f))
  PROVE  Provided(files')
<1>1. Whole(files)
  BY DEF Provided
<1>2. CASE files' = [files EXCEPT !["bin"] = f]
  <2>1. Whole(files') /\ files'["source"] = files["source"] /\ files'["asm"] = files["asm"]
    BY <1>1, <1>2 DEF Whole, Places
  <2>2. QED
    BY <2>1 DEF Provided
<1>3. CASE files' = [files EXCEPT !["asm"] = f] /\ (f = NoFile \/ Recognized(".asm", f))
  <2>1. Whole(files') /\ files'["source"] = files["source"] /\ files'["asm"] = f
    BY <1>1, <1>3 DEF Whole, Places
  <2>2. QED
    BY <1>3, <2>1 DEF Provided
<1>4. QED
  BY <1>2, <1>3

\* The assembly is opened, and with that emptied.
LEMMA OpenKeeps == ASSUME BuildInv, OpenAssembly PROVE BuildInv'
<1> DEFINE text == IF job.how = "translate" /\ job.path = "asm" THEN Empty ELSE FileAt(job.path)
<1>1. job' = [job EXCEPT !.step = "writing", !.text = text] /\ files' = [files EXCEPT !["asm"] = Empty]
      /\ job.step = "detected"
  BY DEF OpenAssembly
<1>2. JobType(job') /\ SameJob(job, job') /\ job'.step = "writing" /\ job'.text = text
  <2>1. PICK j, t : j = [job EXCEPT !.step = "writing"] /\ t = text
    OBVIOUS
  <2>2. JobType(j) /\ SameJob(job, j) /\ j.step = "writing"
    BY <2>1 DEF BuildInv, JobType, SameJob
  <2>3. job' = [j EXCEPT !.text = t]
    BY <1>1, <2>1
  <2>4. QED
    <3> HIDE DEF text
    <3> QED BY <2>1, <2>2, <2>3 DEF JobType, SameJob
<1>3. Provided(files') /\ files'["bin"] = files["bin"]
  <2>1. Recognized(".asm", Empty)
    BY TextIsPlain, PlainIsRecognized DEF Empty
  <2>2. files'["bin"] = files["bin"]
    BY <1>1 DEF BuildInv, Provided, Whole, Places
  <2>3. QED
    BY <1>1, <2>1, <2>2, WritesProvided DEF BuildInv
<1>4. Working'
  <2>1. /\ job.how = How(job.detection) /\ Told(job) /\ job.before[2] = files["bin"] /\ job.input = FileAt(job.path)
    BY <1>1 DEF BuildInv, Working
  <2>2. OntoItself \/ text = job.input
    BY <2>1 DEF OntoItself
  <2>3. QED
    BY <1>2, <1>3, <2>1, <2>2 DEF Working, Told, SameJob, OntoItself
<1>5. QED
  BY <1>2, <1>3, <1>4 DEF BuildInv, BuiltAsReported, Idle

\* It is written as expected, unless it was read from itself.
LEMMA WriteKeeps == ASSUME BuildInv, WriteAssembly PROVE BuildInv'
<1> DEFINE f == IF job.how = "copy" THEN Copied(job.text) ELSE Translation(job.text, job.detection.arch)
<1>1. /\ files' = [files EXCEPT !["asm"] = f] /\ job' = [job EXCEPT !.step = "assemble"]
      /\ job.step = "writing"
  BY DEF WriteAssembly
<1>2. JobType(job') /\ SameJob(job, job') /\ job'.step = "assemble"
  BY <1>1, StepIs DEF BuildInv
<1>3. /\ job.how = How(job.detection) /\ Told(job) /\ job.before[2] = files["bin"]
      /\ OntoItself \/ job.text = job.input
  BY <1>1 DEF BuildInv, Working
<1>4. OntoItself \/ f = Expected
  BY <1>3 DEF Expected
<1>5. Recognized(".asm", f)
  <2>1. CASE job.how = "copy"
    <3>1. f = Expected
      BY <1>4, <2>1 DEF OntoItself
    <3>2. QED
      BY <1>3, <2>1, <3>1, ExpectedIsPlain, PlainIsRecognized
  <2>2. CASE job.how # "copy"
    <3>1. "is" \in DOMAIN f /\ f.is = <<>>
      BY <2>2, TextIsPlain DEF Translation
    <3>2. QED
      BY <3>1, PlainIsRecognized
  <2>3. QED
    BY <2>1, <2>2
<1>6. Provided(files') /\ files'["bin"] = files["bin"] /\ files'["asm"] = f
  <2> HIDE DEF f
  <2>1. files'["bin"] = files["bin"] /\ files'["asm"] = f
    BY <1>1 DEF BuildInv, Provided, Whole, Places
  <2>2. QED
    BY <1>1, <1>5, <2>1, WritesProvided DEF BuildInv
<1>7. Working'
  <2>1. Expected' = Expected /\ OntoItself' = OntoItself
    BY <1>2 DEF Expected, OntoItself, SameJob
  <2>2. QED
    <3> HIDE DEF f
    <3> QED BY <1>2, <1>3, <1>4, <1>6, <2>1 DEF Working, Told, SameJob
<1>8. QED
  BY <1>2, <1>6, <1>7 DEF BuildInv, BuiltAsReported, Idle

\* The binary is opened, then written from the assembly.
LEMMA BinaryKeeps == ASSUME BuildInv, OpenBinary \/ WriteBinary PROVE BuildInv'
<1>1. PICK step \in {"linking", "report"} : \E f :
        /\ files' = [files EXCEPT !["bin"] = f] /\ job' = [job EXCEPT !.step = step]
        /\ step = "report" => f = LinkedFrom(files["asm"])
        /\ job.step \in {"assemble", "linking"}
  BY DEF OpenBinary, WriteBinary
<1>2. PICK f :
        /\ files' = [files EXCEPT !["bin"] = f] /\ job' = [job EXCEPT !.step = step]
        /\ step = "report" => f = LinkedFrom(files["asm"])
        /\ job.step \in {"assemble", "linking"}
  BY <1>1
<1>3. JobType(job') /\ SameJob(job, job') /\ job'.step = step
  BY <1>2, StepIs DEF BuildInv
<1>4. /\ job.how = How(job.detection) /\ Told(job)
      /\ OntoItself \/ files["asm"] = Expected
  BY <1>2 DEF BuildInv, Working
<1>5. Provided(files') /\ files'["bin"] = f /\ files'["asm"] = files["asm"]
  <2>1. files'["bin"] = f /\ files'["asm"] = files["asm"]
    BY <1>2 DEF BuildInv, Provided, Whole, Places
  <2>2. QED
    BY <1>2, <2>1, WritesProvided DEF BuildInv
<1>6. Expected' = Expected /\ OntoItself' = OntoItself
  BY <1>3 DEF Expected, OntoItself, SameJob
<1>7. Working'
  BY <1>2, <1>3, <1>4, <1>5, <1>6 DEF Working, Told, SameJob
<1>8. QED
  BY <1>3, <1>5, <1>7 DEF BuildInv, BuiltAsReported, Idle

\* A run that ends with a report, whether or not its file opens.
LEMMA ReportKeeps ==
  ASSUME BuildInv, job.step # "idle", NEW fs, Provided(fs), NEW code \in {1, 2}, Reports(fs, FALSE, code),
         fs["bin"] \in {job.before[2], NoFile},
         code = 2 => fs["asm"] \in {job.before[1], NoFile}
  PROVE  BuildInv'
<1>1. JobType(job) /\ Whole(fs)
  BY DEF BuildInv, Provided
<1>2. PICK faulty \in BOOLEAN :
        Ends(code, faulty) /\ (faulty \/ files'["report"] = Report(job.detection, FALSE))
  BY <1>1, ReportIs
<1>3. Whole(files') /\ files'["source"] = fs["source"] /\ files'["asm"] = fs["asm"] /\ files'["bin"] = fs["bin"]
  BY <1>1, ReportIs DEF Places
<1>4. Provided(files')
  BY <1>3 DEF Provided
<1>5. Report(job.detection, FALSE).detection = job.detection
  BY DEF Report
<1>6. faulty \/ files'["report"].detection = job.detection
  BY <1>2, <1>5
<1>7. files'["bin"] \in {job.before[2], NoFile} /\ (code = 2 => files'["asm"] \in {job.before[1], NoFile})
  BY <1>3
<1>8. EndsWell(code, faulty)
  <2>1. code # 0 /\ code # -1
    OBVIOUS
  <2>2. QED
    BY <1>2, <1>6, <1>7, <2>1, Zenon DEF EndsWell
<1>9. QED
  BY <1>2, <1>4, <1>8, EndsKeep

\* A run that ends without one is known by its faults.
LEMMA FaultKeeps ==
  ASSUME BuildInv, job.step # "idle", Provided(files'), NEW code \in {-1, 1, 2}, Ends(code, TRUE),
         code # -1 => files'["bin"] \in {job.before[2], NoFile},
         code = 2 => files'["asm"] \in {job.before[1], NoFile}
  PROVE  BuildInv'
<1>1. EndsWell(code, TRUE)
  BY DEF EndsWell
<1>2. QED
  BY <1>1, EndsKeep

\* What a refusal leaves.
LEMMA LeftIsProvided ==
  ASSUME BuildInv
  PROVE  /\ Provided(LeftBehind) /\ LeftBehind["bin"] \in {files["bin"], NoFile}
         /\ LeftBehind["asm"] = IF job.how = "module" THEN NoFile ELSE files["asm"]
<1>1. CASE job.how = "module"
  <2>1. LeftBehind = [files EXCEPT !["asm"] = NoFile, !["bin"] = NoFile] /\ Whole(files)
    BY <1>1 DEF LeftBehind, AfterRefusal, BuildInv, Provided
  <2>2. Whole(LeftBehind) /\ LeftBehind["asm"] = NoFile /\ LeftBehind["bin"] = NoFile /\ LeftBehind["source"] = files["source"]
    BY <2>1 DEF Whole, Places
  <2>3. QED
    BY <1>1, <2>2 DEF BuildInv, Provided
<1>2. CASE job.how # "module"
  BY <1>2 DEF LeftBehind, BuildInv
<1>3. QED
  BY <1>1, <1>2

\* The report is a file of its own.
LEMMA ReportedIs ==
  ASSUME NEW fs, Provided(fs), NEW ok
  PROVE  LET gs == write_report(fs, ok) IN Provided(gs) /\ gs["asm"] = fs["asm"] /\ gs["bin"] = fs["bin"]
<1>1. Whole(write_report(fs, ok)) /\ \A p \in {"source", "asm", "bin"} : write_report(fs, ok)[p] = fs[p]
  BY DEF write_report, Provided, Whole, Places
<1>2. QED
  BY <1>1 DEF Provided

\* Inputs that cannot be translated leave no binary.
LEMMA UnfitKeeps == ASSUME BuildInv, Unknown \/ NotAModule \/ Untranslatable PROVE BuildInv'
<1>1. Provided(files) /\ Provided([files EXCEPT !["asm"] = NoFile])
  <2>1. Provided(files) /\ Whole(files)
    BY DEF BuildInv, Provided
  <2>2. Whole([files EXCEPT !["asm"] = NoFile]) /\ [files EXCEPT !["asm"] = NoFile]["asm"] = NoFile
          /\ [files EXCEPT !["asm"] = NoFile]["source"] = files["source"]
    BY <2>1 DEF Whole, Places
  <2>3. QED
    BY <2>1, <2>2 DEF Provided
<1>2. CASE Unknown \/ NotAModule
  <2>1. PICK code \in {1, 2} : Reports(files, FALSE, code)
    BY <1>2 DEF Unknown, NotAModule
  <2>2. job.step = "detected"
    BY <1>2 DEF Unknown, NotAModule
  <2>3. job.before[1] = files["asm"] /\ job.before[2] = files["bin"]
    BY <2>2 DEF BuildInv, Working
  <2>4. QED
    BY <1>1, <2>1, <2>2, <2>3, ReportKeeps
<1>3. CASE Untranslatable
  <2>1. Reports([files EXCEPT !["asm"] = NoFile], FALSE, 2) /\ job.step = "writing"
    BY <1>3 DEF Untranslatable
  <2>2. job.before[2] = files["bin"]
    BY <2>1 DEF BuildInv, Working
  <2>3. [files EXCEPT !["asm"] = NoFile]["bin"] = files["bin"] /\ [files EXCEPT !["asm"] = NoFile]["asm"] = NoFile
    BY DEF BuildInv, Provided, Whole, Places
  <2>4. QED
    BY <1>1, <2>1, <2>2, <2>3, ReportKeeps
<1>4. QED
  BY <1>2, <1>3

\* The assembly does not open.
LEMMA CannotOpenKeeps == ASSUME BuildInv, CannotOpenAssembly PROVE BuildInv'
<1>1. job.step = "detected" /\ files' \in {files, write_report(files, FALSE)}
      /\ \E code \in {1, 2} : Ends(code, TRUE)
  BY DEF CannotOpenAssembly
<1>2. Provided(files') /\ files'["asm"] = files["asm"] /\ files'["bin"] = files["bin"]
  BY <1>1, ReportedIs DEF BuildInv
<1>3. job.before[1] = files["asm"] /\ job.before[2] = files["bin"]
  BY <1>1 DEF BuildInv, Working
<1>4. QED
  BY <1>1, <1>2, <1>3, FaultKeeps

\* The assembler refuses: a copy goes without a report, so it had no header.
LEMMA RefusalKeeps == ASSUME BuildInv, AssemblerRefuses PROVE BuildInv'
<1>1. job.step = "assemble"
  BY DEF AssemblerRefuses
<1>2. job.before[2] = files["bin"] /\ job.how = How(job.detection) /\ Told(job)
  BY <1>1 DEF BuildInv, Working
<1>3. CASE job.how = "copy"
  <2>1. Ends(1, FALSE) /\ files' = files
    BY <1>3 DEF AssemblerRefuses, Code
  <2>2. job.detection.kind = "assembly"
    BY <1>2, <1>3 DEF How
  <2>3. job.input.is = <<>>
    BY <1>2, <2>2 DEF Told
  <2>4. EndsWell(1, FALSE)
    BY <1>2, <2>1, <2>3 DEF EndsWell
  <2>5. QED
    BY <1>1, <2>1, <2>4, EndsKeep DEF BuildInv
<1>4. CASE job.how # "copy"
  <2>1. Reports(LeftBehind, FALSE, Code)
    BY <1>4 DEF AssemblerRefuses
  <2>2. PICK code \in {1, 2} : code = Code /\ (code = 2 => job.how = "module")
    BY DEF Code
  <2>3. LeftBehind["bin"] \in {job.before[2], NoFile} /\ (code = 2 => LeftBehind["asm"] = NoFile)
    BY <1>2, <2>2, LeftIsProvided
  <2>4. Reports(LeftBehind, FALSE, code)
    BY <2>1, <2>2
  <2>5. QED
    BY <1>1, <2>3, <2>4, LeftIsProvided, ReportKeeps
<1>5. QED
  BY <1>3, <1>4

\* The binary does not open.
LEMMA CannotLinkKeeps == ASSUME BuildInv, CannotOpenBinary PROVE BuildInv'
<1>1. PICK code \in {1, 2} : code = Code /\ (code = 2 => job.how = "module")
  BY DEF Code
<1>2. job.step = "assemble" /\ Ends(code, TRUE)
  BY <1>1 DEF CannotOpenBinary
<1>3. files' = IF job.how = "copy" THEN files ELSE write_report(LeftBehind, FALSE)
  BY DEF CannotOpenBinary
<1>4. job.before[2] = files["bin"]
  BY <1>2 DEF BuildInv, Working
<1>5. CASE job.how = "copy"
  <2>1. files' = files /\ code # 2
    BY <1>1, <1>3, <1>5
  <2>2. QED
    BY <1>2, <1>4, <2>1, FaultKeeps DEF BuildInv
<1>6. CASE job.how # "copy"
  <2>1. Provided(LeftBehind) /\ files' = write_report(LeftBehind, FALSE)
    BY <1>3, <1>6, LeftIsProvided
  <2>2. Provided(files') /\ files'["asm"] = LeftBehind["asm"] /\ files'["bin"] = LeftBehind["bin"]
    BY <2>1, ReportedIs
  <2>3. files'["bin"] \in {job.before[2], NoFile} /\ (code = 2 => files'["asm"] = NoFile)
    BY <1>1, <1>4, <2>2, LeftIsProvided
  <2>4. QED
    BY <1>2, <2>2, <2>3, FaultKeeps
<1>7. QED
  BY <1>5, <1>6

\* All is written.
LEMMA FinishKeeps == ASSUME BuildInv, Finish PROVE BuildInv'
<1>1. job.step = "report" /\ Reports(files, TRUE, 0) /\ JobType(job) /\ Provided(files) /\ Whole(files)
  BY DEF Finish, BuildInv, Provided
<1>2. OntoItself \/ (files["asm"] = Expected /\ files["bin"] = LinkedFrom(Expected))
  BY <1>1 DEF BuildInv, Working
<1>3. PICK faulty \in BOOLEAN :
        Ends(0, faulty) /\ (faulty \/ files'["report"] = Report(job.detection, TRUE))
  BY <1>1, ReportIs
<1>4. Whole(files') /\ files'["source"] = files["source"] /\ files'["asm"] = files["asm"] /\ files'["bin"] = files["bin"]
  BY <1>1, ReportIs DEF Places
<1>5. Provided(files')
  BY <1>1, <1>4 DEF Provided
<1>6. Report(job.detection, TRUE).detection = job.detection
  BY DEF Report
<1>7. faulty \/ files'["report"].detection = job.detection
  BY <1>3, <1>6
<1>8. OntoItself \/ (files'["asm"] = Expected /\ files'["bin"] = LinkedFrom(Expected))
  BY <1>2, <1>4
<1>9. EndsWell(0, faulty)
  <2>1. 0 \notin {1, 2} /\ 0 # 2
    OBVIOUS
  <2>2. QED
    BY <1>3, <1>7, <1>8, <2>1, Zenon DEF EndsWell
<1>10. QED
  BY <1>1, <1>3, <1>5, <1>9, EndsKeep

\* A run that is killed promises nothing.
LEMMA KillKeeps == ASSUME BuildInv, KillCompiler PROVE BuildInv'
<1>1. job.step # "idle" /\ Ends(-1, TRUE) /\ files' = files
  BY DEF KillCompiler, Idle
<1>2. QED
  BY <1>1, FaultKeeps DEF BuildInv

\* The simulator has one file, its flash.
LEMMA SimulatorKeeps ==
  ASSUME BuildInv,
         \/ StartSimulator \/ EStore \/ StopClean \/ OpenFlash \/ CannotOpenFlash \/ SaveWord \/ CloseFlash
         \/ KillSimulator \/ UNCHANGED hostvars
  PROVE  BuildInv'
<1>1. job' = job
  BY DEF StartSimulator, EStore, StopClean, OpenFlash, CannotOpenFlash, SaveWord, CloseFlash, KillSimulator, hostvars
<1>2. files' = files \/ \E f : files' = [files EXCEPT !["flash"] = f]
  BY DEF StartSimulator, EStore, StopClean, OpenFlash, CannotOpenFlash, SaveWord, CloseFlash, KillSimulator, hostvars
<1>3. Whole(files') /\ \A p \in {"source", "asm", "bin", "report"} : files'[p] = files[p]
  BY <1>2 DEF BuildInv, Provided, Whole, Places
<1>4. Provided(files')
  BY <1>3 DEF BuildInv, Provided
<1>5. /\ Expected' = Expected /\ OntoItself' = OntoItself /\ Idle' = Idle
      /\ \A p \in {"source", "asm"} : FileAt(p)' = FileAt(p)
  BY <1>1, <1>3 DEF Expected, OntoItself, Idle, FileAt
<1>6. Working'
  BY <1>1, <1>3, <1>5 DEF BuildInv, Working
<1>7. BuiltAsReported'
  BY <1>1, <1>3, <1>5 DEF BuildInv, BuiltAsReported
<1>8. QED
  BY <1>1, <1>4, <1>6, <1>7 DEF BuildInv

\* Every step of the user, the compiler and the simulator.
LEMMA BuildStep == ASSUME BuildInv, Linked, [HostNext]_hostvars PROVE BuildInv'
BY ProvideKeeps, StartKeeps, RefusedKeeps, UnfitKeeps, OpenKeeps, CannotOpenKeeps, WriteKeeps, BinaryKeeps,
   RefusalKeeps, CannotLinkKeeps, FinishKeeps, KillKeeps, SimulatorKeeps DEF HostNext

(* BuiltAsReported of compile_input and main of asm.c: for any inputs that *)
(* are what their headers say, any flags, and any number of builds, files  *)
(* that do not open and runs that are killed.                              *)
THEOREM BuiltCorrect == ASSUME Linked PROVE HostSpec => []BuiltAsReported
<1>1. HostInit => BuildInv
  BY BuildBegins
<1>2. BuildInv /\ [HostNext]_hostvars => BuildInv'
  BY BuildStep
<1>3. BuildInv => BuiltAsReported
  BY DEF BuildInv
<1>4. QED
  BY <1>1, <1>2, <1>3, PTL DEF HostSpec

-----------------------------------------------------------------------------
(* What the flash file of the last whole run must give, and where a run    *)
(* that saves has come to.                                                 *)
Cells == 1 .. EEPROM_SIZE
RunType(r) ==
  /\ r = [on |-> r.on, mem |-> r.mem, dirty |-> r.dirty, saving |-> r.saving, left |-> r.left, torn |-> r.torn]
  /\ DOMAIN r.mem = Cells /\ DOMAIN r.left = Cells
FlashType(f) ==
  f # NoFile => f = [words |-> f.words] /\ Len(f.words) \in Nat /\ f.words = [k \in 1 .. Len(f.words) |-> f.words[k]]

Saves(r, f) ==
  r.saving =>
    /\ r.on /\ r.torn /\ r.left = r.mem
    /\ f # NoFile /\ Len(f.words) <= EEPROM_SIZE
    /\ \A k \in 1 .. Len(f.words) : f.words[k] = Low(r.mem[k])
Holds(r, f) == ~r.torn => \A k \in Cells : FlashLoaded(f)[k] = <<0, Low(r.left[k])>>
Keeps(r) == (r.on /\ ~r.dirty /\ ~r.torn) => \A k \in Cells : r.mem[k] = <<0, Low(r.left[k])>>

FlashInv ==
  /\ Whole(files)
  /\ RunType(sim) /\ FlashType(files["flash"])
  /\ Saves(sim, files["flash"]) /\ Holds(sim, files["flash"]) /\ Keeps(sim)

\* No file, and nothing kept.
LEMMA FlashBegins == (HostInit \/ NobodyWorks) => FlashInv
<1> SUFFICES ASSUME HostInit \/ NobodyWorks PROVE FlashInv
  OBVIOUS
<1>1. sim = NoRun /\ files = [p \in Places |-> files[p]] /\ files["flash"] = NoFile
  BY DEF HostInit, NobodyWorks, Places
<1>2. QED
  BY <1>1 DEF FlashInv, Whole, RunType, FlashType, Saves, Holds, Keeps, NoRun, NoFlash, FlashLoaded, Low, Cells

\* A run that ends otherwise than by closing the file it has written.
LEMMA RunEnds ==
  ASSUME FlashInv, sim' = Ended, files' = files
  PROVE  FlashInv'
<1>1. sim' = [on |-> FALSE, mem |-> sim.mem, dirty |-> sim.dirty, saving |-> FALSE,
              left |-> sim.left, torn |-> sim.torn]
  BY DEF FlashInv, Whole, RunType, Ended
<1>2. RunType(sim') /\ Saves(sim', files["flash"]) /\ Keeps(sim')
  BY <1>1 DEF FlashInv, Whole, RunType, Saves, Keeps
<1>3. Holds(sim', files["flash"])
  BY <1>1 DEF FlashInv, Whole, Holds
<1>4. QED
  BY <1>2, <1>3 DEF FlashInv, Whole

\* The compiler and the user leave both alone.
LEMMA FlashAlone ==
  ASSUME FlashInv, sim' = sim, files'["flash"] = files["flash"], files' = [p \in Places |-> files'[p]]
  PROVE  FlashInv'
<1>1. RunType(sim') /\ Keeps(sim') /\ FlashType(files'["flash"]) /\ Saves(sim', files'["flash"]) /\ Holds(sim', files'["flash"])
  BY DEF FlashInv, Whole
<1>2. QED
  BY <1>1 DEF FlashInv, Whole

\* A file has as many words as were written.
LEMMA LoadedIs ==
  ASSUME NEW s, NEW k \in Cells
  PROVE  FlashLoaded([words |-> s])[k] = IF k <= Len(s) THEN <<0, s[k]>> ELSE <<0, 0>>
BY DEF FlashLoaded, Cells, NoFile

\* A run begins with what the file gives.
LEMMA StartKeepsFlash == ASSUME FlashInv, StartSimulator PROVE FlashInv'
<1>1. /\ sim' = [on |-> TRUE, mem |-> FlashLoaded(files["flash"]), dirty |-> FALSE, saving |-> sim.saving,
                left |-> sim.left, torn |-> sim.torn]
      /\ ~sim.on /\ files' = files
  BY DEF StartSimulator, FlashInv, Whole, RunType
<1>2. DOMAIN FlashLoaded(files["flash"]) = Cells
  BY DEF FlashLoaded, Cells
<1>3. QED
  BY <1>1, <1>2 DEF FlashInv, Whole, RunType, Saves, Holds, Keeps

\* What it stores makes it dirty.
LEMMA EStoreKeepsFlash == ASSUME FlashInv, EStore PROVE FlashInv'
<1>1. PICK k \in Cells, w \in FlashWords : sim' = [sim EXCEPT !.mem[k] = w, !.dirty = TRUE]
  BY DEF EStore, Cells
<1>2. /\ sim' = [on |-> sim.on, mem |-> [sim.mem EXCEPT ![k] = w], dirty |-> TRUE, saving |-> sim.saving,
                left |-> sim.left, torn |-> sim.torn]
      /\ ~sim.saving /\ files' = files
  BY <1>1 DEF EStore, FlashInv, Whole, RunType
<1>3. QED
  BY <1>2 DEF FlashInv, Whole, RunType, Saves, Holds, Keeps

\* To save is to empty the file first.
LEMMA OpenKeepsFlash == ASSUME EEPROM_SIZE \in Nat, FlashInv, OpenFlash PROVE FlashInv'
<1>1. /\ sim' = [on |-> sim.on, mem |-> sim.mem, dirty |-> sim.dirty, saving |-> TRUE,
                left |-> sim.mem, torn |-> TRUE]
      /\ sim.on
  BY DEF OpenFlash, FlashInv, Whole, RunType
<1>2. files' = [p \in Places |-> files'[p]] /\ files'["flash"] = [words |-> <<>>]
  BY DEF OpenFlash, FlashInv, Whole, Places
<1>3. FlashType(files'["flash"]) /\ RunType(sim') /\ files'["flash"] # NoFile
  BY <1>1, <1>2 DEF FlashType, RunType, FlashInv, Whole, NoFile
<1>4. Saves(sim', files'["flash"])
  BY <1>1, <1>2, <1>3 DEF Saves
<1>5. QED
  BY <1>1, <1>2, <1>3, <1>4 DEF FlashInv, Whole, Holds, Keeps

\* Then word after word, the lower half of each.
LEMMA SaveWordKeepsFlash == ASSUME EEPROM_SIZE \in Nat, FlashInv, SaveWord PROVE FlashInv'
<1> DEFINE s == files["flash"].words
           n == Len(s)
           t == Append(s, Low(sim.mem[n + 1]))
<1>1. sim' = sim /\ sim.saving /\ n < EEPROM_SIZE /\ n \in Nat /\ files["flash"] = [words |-> s]
      /\ s = [k \in 1 .. n |-> s[k]]
  BY DEF SaveWord, Saved, FlashInv, Whole, FlashType, Saves
<1>2. files' = [p \in Places |-> files'[p]] /\ files'["flash"] = [words |-> t]
  <2>1. files' = [files EXCEPT !["flash"] = [files["flash"] EXCEPT !.words = t]]
    BY DEF SaveWord
  <2>2. [files["flash"] EXCEPT !.words = t] = [words |-> t]
    <3> HIDE DEF s, t
    <3> QED BY <1>1
  <2>3. QED
    <3> HIDE DEF t
    <3> QED BY <2>1, <2>2 DEF FlashInv, Whole, Places
<1>3. Len(t) = n + 1 /\ t = [k \in 1 .. n + 1 |-> t[k]] /\ (\A k \in 1 .. n : t[k] = s[k]) /\ t[n + 1] = Low(sim.mem[n + 1])
  OBVIOUS
<1>4. FlashType(files'["flash"])
  <2> HIDE DEF s, n, t
  <2> QED BY <1>1, <1>2, <1>3 DEF FlashType
<1>5. /\ sim.on /\ sim.torn /\ sim.left = sim.mem
      /\ \A k \in 1 .. n : s[k] = Low(sim.mem[k])
  BY <1>1 DEF FlashInv, Whole, Saves
<1>6. \A k \in 1 .. n + 1 : t[k] = Low(sim.mem[k])
  <2> HIDE DEF s, n, t
  <2> TAKE k \in 1 .. n + 1
  <2>1. CASE k \in 1 .. n
    BY <1>3, <1>5, <2>1
  <2>2. CASE k \notin 1 .. n
    <3>1. k = n + 1
      BY <1>1, <2>2
    <3>2. QED
      BY <1>3, <3>1
  <2>3. QED
    BY <2>1, <2>2
<1>7. Saves(sim', files'["flash"])
  <2> HIDE DEF s, n, t
  <2> QED BY <1>1, <1>2, <1>3, <1>5, <1>6 DEF Saves, NoFile
<1>8. QED
  BY <1>1, <1>2, <1>4, <1>5, <1>7 DEF FlashInv, Whole, Holds, Keeps

\* A file that is closed gives all of them.
LEMMA CloseKeepsFlash == ASSUME EEPROM_SIZE \in Nat, FlashInv, CloseFlash PROVE FlashInv'
<1> DEFINE s == files["flash"].words
<1>1. /\ sim' = [on |-> FALSE, mem |-> sim.mem, dirty |-> sim.dirty, saving |-> FALSE,
                left |-> sim.left, torn |-> FALSE]
      /\ files' = files /\ sim.saving
  BY DEF CloseFlash, Ended, FlashInv, Whole, RunType
<1>2. /\ files["flash"] = [words |-> s] /\ Len(s) = EEPROM_SIZE /\ sim.left = sim.mem
      /\ \A k \in Cells : s[k] = Low(sim.mem[k])
  <2>1. files["flash"] = [words |-> s] /\ Len(s) \in Nat /\ Len(s) <= EEPROM_SIZE /\ sim.left = sim.mem
    BY <1>1 DEF FlashInv, Whole, FlashType, Saves
  <2>2. Len(s) = EEPROM_SIZE
    <3> HIDE DEF s
    <3>1. Len(s) >= EEPROM_SIZE
      BY DEF CloseFlash, Saved, s
    <3>2. QED
      BY <2>1, <3>1
  <2>3. QED
    BY <1>1, <2>1, <2>2 DEF FlashInv, Whole, Saves, Cells
<1>3. \A k \in Cells : FlashLoaded(files["flash"])[k] = <<0, Low(sim.left[k])>>
  <2> HIDE DEF s
  <2> TAKE k \in Cells
  <2>1. k <= Len(s) /\ files["flash"] = [words |-> s]
    BY <1>2 DEF Cells
  <2>2. FlashLoaded([words |-> s])[k] = <<0, s[k]>>
    BY <2>1, LoadedIs
  <2>3. QED
    BY <1>2, <2>1, <2>2
<1>4. QED
  BY <1>1, <1>3 DEF FlashInv, Whole, RunType, Saves, Holds, Keeps

\* The user and the compiler write other files.
LEMMA CompilerKeepsFlash ==
  ASSUME FlashInv,
         \/ Provide \/ ProvideAssembly \/ Start \/ StartRefused \/ Unknown \/ OpenAssembly \/ NotAModule
         \/ CannotOpenAssembly \/ WriteAssembly \/ Untranslatable \/ OpenBinary \/ WriteBinary
         \/ AssemblerRefuses \/ CannotOpenBinary \/ Finish \/ KillCompiler
  PROVE  FlashInv'
<1> DEFINE Alike(fs) == fs["flash"] = files["flash"] /\ fs = [p \in Places |-> fs[p]]
<1>1. Alike(files)
  BY DEF FlashInv, Whole
<1>2. \A fs, p, f : Alike(fs) /\ p \in Places \ {"flash"} => Alike([fs EXCEPT ![p] = f])
  BY DEF Places
<1>3. \A fs, ok : Alike(fs) => Alike(write_report(fs, ok))
  <2> HIDE DEF Alike
  <2> QED BY <1>2 DEF write_report, Places
<1>4. \A fs, ok, code : Alike(fs) /\ Reports(fs, ok, code) => Alike(files')
  <2> HIDE DEF Alike
  <2> QED BY <1>3 DEF Reports
<1>5. Alike(LeftBehind)
  <2> HIDE DEF Alike
  <2> QED BY <1>1, <1>2 DEF LeftBehind, AfterRefusal, Places
<1>6. sim' = sim
  BY DEF Provide, ProvideAssembly, Start, StartRefused, Unknown, OpenAssembly, NotAModule, CannotOpenAssembly,
         WriteAssembly, Untranslatable, OpenBinary, WriteBinary, AssemblerRefuses, CannotOpenBinary, Finish,
         KillCompiler
<1>7. Alike(files')
  <2> HIDE DEF Alike
  <2>1. {"source", "asm", "bin", "report"} \subseteq Places \ {"flash"}
    BY DEF Places
  <2>2. CASE Provide \/ ProvideAssembly \/ Start \/ StartRefused
    <3>1. files' = files \/ \E p \in {"source", "asm"} : \E f : files' = [files EXCEPT ![p] = f]
      BY <2>2 DEF Provide, ProvideAssembly, Start, StartRefused
    <3>2. QED
      BY <1>1, <1>2, <2>1, <3>1
  <2>3. CASE Unknown \/ NotAModule \/ Untranslatable \/ Finish
    <3>1. Alike([files EXCEPT !["asm"] = NoFile])
      BY <1>1, <1>2, <2>1
    <3>2. \E fs, ok, code : Alike(fs) /\ Reports(fs, ok, code)
      BY <1>1, <2>3, <3>1, Zenon DEF Unknown, NotAModule, Untranslatable, Finish
    <3>3. QED
      BY <1>4, <3>2
  <2>4. CASE OpenAssembly \/ WriteAssembly \/ OpenBinary \/ WriteBinary \/ KillCompiler
    <3>1. files' = files \/ \E p \in {"asm", "bin"} : \E f : files' = [files EXCEPT ![p] = f]
      BY <2>4 DEF OpenAssembly, WriteAssembly, OpenBinary, WriteBinary, KillCompiler
    <3>2. QED
      BY <1>1, <1>2, <2>1, <3>1
  <2>5. CASE CannotOpenAssembly \/ CannotOpenBinary
    <3>1. files' \in {files, write_report(files, FALSE), write_report(LeftBehind, FALSE)}
      BY <2>5 DEF CannotOpenAssembly, CannotOpenBinary
    <3>2. QED
      BY <1>1, <1>3, <1>5, <3>1
  <2>6. CASE AssemblerRefuses
    <3>1. files' = files \/ Reports(LeftBehind, FALSE, Code)
      BY <2>6 DEF AssemblerRefuses
    <3>2. QED
      BY <1>1, <1>4, <1>5, <3>1
  <2>7. QED
    BY <2>2, <2>3, <2>4, <2>5, <2>6
<1>8. QED
  BY <1>6, <1>7, FlashAlone

\* Every step.
LEMMA FlashStep ==
  ASSUME EEPROM_SIZE \in Nat, FlashInv, [HostNext]_hostvars
  PROVE  FlashInv'
<1>1. CASE StopClean \/ CannotOpenFlash \/ KillSimulator
  <2>1. sim' = Ended /\ files' = files
    BY <1>1 DEF StopClean, CannotOpenFlash, KillSimulator
  <2>2. QED
    BY <2>1, RunEnds
<1>2. CASE UNCHANGED hostvars
  <2>1. sim' = sim /\ files' = files
    BY <1>2 DEF hostvars
  <2>2. QED
    BY <2>1, FlashAlone DEF FlashInv, Whole
<1>3. QED
  BY <1>1, <1>2, CompilerKeepsFlash, StartKeepsFlash, EStoreKeepsFlash, OpenKeepsFlash, SaveWordKeepsFlash,
     CloseKeepsFlash DEF HostNext

(* FlashKept of eeprom_load and eeprom_save: for a flash of any size and   *)
(* any words, any number of runs, whoever is killed and whatever does not  *)
(* open.                                                                   *)
THEOREM FlashCorrect == ASSUME EEPROM_SIZE \in Nat PROVE HostSpec => []FlashKept
<1>1. HostInit => FlashInv
  BY FlashBegins
<1>2. FlashInv /\ [HostNext]_hostvars => FlashInv'
  BY FlashStep
<1>3. FlashInv => FlashKept
  BY DEF FlashInv, Whole, Keeps, FlashKept, Cells
<1>4. QED
  BY <1>1, <1>2, <1>3, PTL DEF HostSpec

=============================================================================
