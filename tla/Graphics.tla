------------------------------- MODULE Graphics -------------------------------
(***************************************************************************)
(* Drawing: the GUI guard that admits the requests of processes            *)
(* (src/kernel/gui_guard.c, sys_gpu_draw and sys_write in kernel.c), the   *)
(* driver that writes packets of words into a ring (src/kernel/gpu_hw.c)   *)
(* and the device that decodes them when its doorbell is rung              *)
(* (src/gravityon/gpu/gpu_sim.c).                                          *)
(*                                                                         *)
(* A system call and the timer's frame (wm_render) run with interrupts     *)
(* off: one step each, doorbells included, since the device works when its *)
(* port is written.  The shell and its applications call gpu_* directly:   *)
(* their packet is written step by step, and both may come in between.     *)
(*                                                                         *)
(* The ring is the guest's memory from the ring's base on.  Behind its     *)
(* RING_WORDS words lies the framebuffer (0x6000 + 8192 = 0x8000); SLACK   *)
(* words of it are kept, to see what is written there.  The software copy  *)
(* that gpu_* draws before it sends the packet is left out.                *)
(***************************************************************************)
EXTENDS Integers, Sequences

CONSTANTS
  Procs,              \* process slots (positive numbers)
  Commands,           \* what sys_gpu_draw is asked for, see Request
  FbCounts,           \* pixel counts of sys_write to the framebuffer
  FRAME,              \* the packets of one wm_render, a sequence of types
  ShellTypes,         \* the packets an application sends by itself
  RING_WORDS,         \* OX_GPU_RING_WORDS
  GUI_FAULT_LIMIT, GUI_MAX_OPS, GUI_MAX_PIXELS

\* The packet types and the words of their payload, the owner not counted.
Payload == [pixel |-> 3, line |-> 5, rect |-> 5, circle |-> 4,
            fill_circle |-> 4, clear |-> 1, present |-> 0]
Types == DOMAIN Payload
Code == [pixel |-> 256, line |-> 257, rect |-> 258, circle |-> 259,
         fill_circle |-> 260, clear |-> 261, present |-> 262]
Known == {Code[t] : t \in Types}
TypeOf(code) == CHOOSE t \in Types : Code[t] = code

\* A request: its type and the pixels estimated for it; NoEstimate for one
\* whose coordinates or command number request_valid refuses.
NoEstimate == -1
Request == [type : Types, pixels : Nat \cup {NoEstimate}]

ASSUME GraphicsAssumption ==
  /\ RING_WORDS \in Nat /\ RING_WORDS > 8
  /\ Procs \subseteq Nat \ {0}
  /\ Commands \subseteq Request /\ FbCounts \subseteq Nat
  /\ FRAME \in Seq(Types) /\ ShellTypes \subseteq Types
  /\ GUI_FAULT_LIMIT \in Nat \ {0} /\ {GUI_MAX_OPS, GUI_MAX_PIXELS} \subseteq Nat

SLACK == 16
Words == 0..(RING_WORDS + SLACK - 1)
Coordinate == 0       \* the value of every payload word

VARIABLES
  gui,        \* per process: what process_table holds for the guard
  alive,      \* the slots in use
  ring,       \* guest memory from the ring on
  ring_head,  \* the driver's write position
  owner,      \* current_owner
  dev,        \* the device: ring.head, ring.tail
  done,       \* the packets the device decoded in the last step
  sent,       \* the packets handed to the driver in the last step
  by,         \* the process that made the last step, or None
  shell,      \* gpu_hw_packet in an application: where it is
  torn        \* history: a packet was sent in the middle of an application's

vars == <<gui, alive, ring, ring_head, owner, dev, done, sent, by, shell, torn>>

None == 0
NewGui == [enabled |-> TRUE, faults |-> 0, ops |-> 0, pixels |-> 0]
Resting == [pc |-> "rest"]

Init ==
  /\ gui = [p \in Procs |-> NewGui]
  /\ alive \in {{p} : p \in Procs}
  /\ ring = [w \in Words |-> 0]
  /\ ring_head = 0
  /\ owner = None
  /\ dev = [head |-> 0, tail |-> 0]
  /\ done = <<>> /\ sent = <<>> /\ by = None
  /\ shell = Resting
  /\ torn = FALSE

-----------------------------------------------------------------------------
(* The device *)

\* kernel_2d_payload: a packet is drawn when its payload is long enough.
Accepted(type, size) ==
  type \in Known /\ size >= 4 * (Payload[TypeOf(type)] + 1)

\* The packets of m from one position to another, in order.
Decode(m, from, to) ==
  LET At[pos \in 0..(RING_WORDS + SLACK)] ==
        IF pos >= to \/ pos + 1 \notin Words THEN <<>>
        ELSE LET type == m[pos]
                 size == m[pos + 1]
                 next == pos + 2 + (size + 3) \div 4
                 here == IF Accepted(type, size)
                           THEN <<[type |-> type, owner |-> m[pos + 2]]>> ELSE <<>>
             IN here \o (IF next \in Words THEN At[next] ELSE <<>>)
  IN IF from < to THEN At[from] ELSE <<>>

-----------------------------------------------------------------------------
(* The driver, when nothing comes in between: a record of what it changes. *)

Driver == [ring |-> ring, head |-> ring_head, tail |-> dev.tail, done |-> <<>>]

\* MUTANT: the size leaves out the word of the owner.
SizeWithoutOwner(type) == 4 * Payload[type]
SizeOf(type) == 4 * (Payload[type] + 1)

PacketWords(type, pid) ==
  <<Code[type], SizeOf(type), pid>> \o [i \in 1..Payload[type] |-> Coordinate]

DoesNotFit(head, type) == head + 3 + Payload[type] >= RING_WORDS

\* The words the device has passed are forgotten: only a torn packet reads
\* words that it did not write, and what it decodes then is not asked about.
Forget(m, end) == [a \in Words |-> IF a < end THEN 0 ELSE m[a]]

\* gpu_hw_packet and gpusim_process.
AfterPacket(d, type, pid) ==
  LET start == IF DoesNotFit(d.head, type) THEN 0 ELSE d.head
      tail == IF DoesNotFit(d.head, type) THEN 0 ELSE d.tail
      w == PacketWords(type, pid)
      end == start + Len(w)
      m == [a \in Words |-> IF a \in start..(end - 1) THEN w[a - start + 1] ELSE d.ring[a]]
  IN [ring |-> Forget(m, end), head |-> end, tail |-> end, done |-> d.done \o Decode(m, tail, end)]

AfterPackets(types, pid) ==
  LET After[n \in 0..Len(types)] ==
        IF n = 0 THEN Driver ELSE AfterPacket(After[n - 1], types[n], pid)
  IN After[Len(types)]

\* The packets of these types go out for process pid.  Nothing more is sent
\* after the first packet that tore another: this bounds the model.
Send(types, pid) ==
  LET d == AfterPackets(types, pid)
  IN /\ ~ torn
     /\ ring' = d.ring
     /\ ring_head' = d.head
     /\ dev' = [head |-> d.head, tail |-> d.tail]
     /\ done' = d.done
     /\ sent' = [i \in 1..Len(types) |-> [type |-> Code[types[i]], owner |-> pid]]
     /\ torn' = (torn \/ shell # Resting)

SendNothing ==
  /\ done' = <<>> /\ sent' = <<>>
  /\ UNCHANGED <<ring, ring_head, dev, torn>>

-----------------------------------------------------------------------------
(* The guard *)

\* MUTANT: the fault is counted, the process goes on drawing.
FaultKeptEnabled(g) ==
  [g EXCEPT !.faults = IF @ < GUI_FAULT_LIMIT THEN @ + 1 ELSE @]

\* gui_guard_record_fault
Fault(g) ==
  LET n == IF g.faults < GUI_FAULT_LIMIT THEN g.faults + 1 ELSE g.faults
  IN [enabled |-> g.enabled /\ n < GUI_FAULT_LIMIT, faults |-> n,
      ops |-> g.ops, pixels |-> g.pixels]

\* gui_guard_admit_pixels
InBudget(g, pixels) ==
  /\ pixels <= GUI_MAX_PIXELS
  /\ g.ops < GUI_MAX_OPS
  /\ g.pixels <= GUI_MAX_PIXELS - pixels
Charged(g, pixels) ==
  [enabled |-> g.enabled, faults |-> g.faults, ops |-> g.ops + 1, pixels |-> g.pixels + pixels]

\* The three ends of an admission: refused in quarantine, refused with a
\* fault, admitted and charged.
Quarantined(p) == ~ gui[p].enabled
Refuse(p) ==
  /\ gui' = IF Quarantined(p) THEN gui ELSE [gui EXCEPT ![p] = Fault(@)]
  /\ SendNothing
Charge(p, pixels) == gui' = [gui EXCEPT ![p] = Charged(@, pixels)]

Admitted(p, pixels) ==
  /\ ~ Quarantined(p)
  /\ pixels # NoEstimate
  /\ InBudget(gui[p], pixels)

Step(p) == p \in alive /\ by' = p /\ UNCHANGED <<alive, shell>>

\* sys_gpu_draw: the request and a present, under the caller's pid.
GpuDraw(p, r) ==
  /\ Step(p)
  /\ \/ /\ Admitted(p, r.pixels)
        /\ Charge(p, r.pixels)
        /\ owner' = p
        /\ Send(<<r.type, "present">>, p)
     \/ /\ ~ Admitted(p, r.pixels)
        /\ Refuse(p)
        /\ UNCHANGED owner

\* sys_write to the framebuffer: only the present goes to the device, and
\* nothing sets the owner.
WriteFb(p, count) ==
  /\ Step(p)
  /\ \/ Admitted(p, count) /\ Charge(p, count) /\ Send(<<"present">>, owner)
     \/ ~ Admitted(p, count) /\ Refuse(p)
  /\ UNCHANGED owner

\* A bad address: sys_gpu_draw and sys_write count the fault in quarantine too.
BadAddress(p) ==
  /\ Step(p)
  /\ gui' = [gui EXCEPT ![p] = Fault(@)]
  /\ SendNothing
  /\ UNCHANGED owner

\* sys_gui_reset and sys_exec
Reset(p) ==
  /\ Step(p)
  /\ gui' = [gui EXCEPT ![p] = NewGui]
  /\ SendNothing
  /\ UNCHANGED owner

\* sys_fork copies the whole entry, process_create starts afresh.
NewProcess(q, g) ==
  /\ q \in Procs \ alive
  /\ alive' = alive \cup {q}
  /\ gui' = [gui EXCEPT ![q] = g]
  /\ by' = None
  /\ SendNothing
  /\ UNCHANGED <<owner, shell>>
Fork(p, q) == p \in alive /\ NewProcess(q, gui[p])
Create(q) == NewProcess(q, NewGui)

\* The timer interrupt draws a frame, under whatever owner is set.
Timer ==
  /\ Send(FRAME, owner)
  /\ by' = None
  /\ UNCHANGED <<gui, alive, owner, shell>>

-----------------------------------------------------------------------------
(* gpu_hw_packet in an application, interrupts enabled *)

ShellGoes(s) ==
  /\ shell' = s
  /\ by' = None
  /\ UNCHANGED <<gui, alive, owner, torn>>

\* The test, and the three writes of a reset.
ShellTests(type) ==
  /\ shell = Resting
  /\ ShellGoes([pc |-> IF DoesNotFit(ring_head, type) THEN "ctrl" ELSE "slot",
                type |-> type, n |-> 1])
  /\ done' = <<>> /\ sent' = <<>>
  /\ UNCHANGED <<ring, ring_head, dev>>

ShellResets ==
  /\ shell.pc \in {"ctrl", "zero", "head"}
  /\ ring_head' = IF shell.pc = "zero" THEN 0 ELSE ring_head
  /\ dev' = CASE shell.pc = "ctrl" -> [head |-> 0, tail |-> 0]
              [] shell.pc = "zero" -> dev
              [] shell.pc = "head" -> [dev EXCEPT !.head = 0]
  /\ ShellGoes([shell EXCEPT !.pc = CASE @ = "ctrl" -> "zero" [] @ = "zero" -> "head"
                                      [] @ = "head" -> "slot"])
  /\ done' = <<>> /\ sent' = <<>>
  /\ UNCHANGED ring

\* ring_word(ring_head++, ...): the slot is taken, then written.
ShellTakesSlot ==
  /\ shell.pc = "slot"
  /\ ring_head' = ring_head + 1
  /\ ShellGoes([pc |-> "word", type |-> shell.type, n |-> shell.n, at |-> ring_head])
  /\ done' = <<>> /\ sent' = <<>>
  /\ UNCHANGED <<ring, dev>>

ShellWrites ==
  /\ shell.pc = "word"
  /\ LET w == PacketWords(shell.type, owner)
     IN /\ ring' = [a \in Words |-> IF a = shell.at THEN w[shell.n] ELSE ring[a]]
        /\ ShellGoes([pc |-> IF shell.n = Len(w) THEN "publish" ELSE "slot",
                      type |-> shell.type, n |-> shell.n + 1])
  /\ done' = <<>> /\ sent' = <<>>
  /\ UNCHANGED <<ring_head, dev>>

\* gpu_hw_doorbell: the head's port, then the doorbell's.
ShellPublishes ==
  /\ shell.pc = "publish"
  /\ dev' = [dev EXCEPT !.head = ring_head]
  /\ ShellGoes([pc |-> "bell", type |-> shell.type])
  /\ done' = <<>> /\ sent' = <<>>
  /\ UNCHANGED <<ring, ring_head>>

ShellRings ==
  /\ shell.pc = "bell"
  /\ dev' = [dev EXCEPT !.tail = dev.head]
  /\ done' = Decode(ring, dev.tail, dev.head)
  /\ sent' = <<[type |-> Code[shell.type], owner |-> owner]>>
  /\ ring' = Forget(ring, dev.head)
  /\ ShellGoes(Resting)
  /\ UNCHANGED ring_head

Shell ==
  \/ \E type \in ShellTypes : ShellTests(type)
  \/ shell # Resting /\ (ShellResets \/ ShellTakesSlot \/ ShellWrites
                         \/ ShellPublishes \/ ShellRings)

-----------------------------------------------------------------------------
Process(p) ==
  \/ \E r \in Commands : GpuDraw(p, r)
  \/ \E n \in FbCounts : WriteFb(p, n)
  \/ BadAddress(p)
  \/ Reset(p)
  \/ \E q \in Procs : Fork(p, q)

Next ==
  \/ \E p \in Procs : Process(p) \/ Create(p)
  \/ Timer
  \/ Shell

Spec == Init /\ [][Next]_vars

-----------------------------------------------------------------------------
(* Properties *)

\* The device decodes the packets the driver was given, each once, in order and
\* under the owner it was sent with, wherever in the ring they lie and whether
\* or not the ring was reset for them, as long as nothing was drawn in the
\* middle of an application's packet (gpu_hw.c:52-75, gpu_sim.c:727-770).  Both
\* sides stay inside the words reserved for the ring: behind them is the
\* framebuffer (gpu_hw.c:57-67).
InWindow == ring_head <= RING_WORDS /\ dev.head <= RING_WORDS
RunsAsSent == torn \/ (done = sent /\ InWindow)

\* A process in quarantine draws nothing and stays there, whatever it calls,
\* until sys_gui_reset or sys_exec (gui_guard.c:98-146).
QuarantineHolds ==
  [][\A p \in Procs : gui[p].faults >= GUI_FAULT_LIMIT /\ by' = p
       => sent' = <<>> /\ gui'[p] \in {gui[p], NewGui}]_vars

=============================================================================
