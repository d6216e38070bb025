---------------------------- MODULE MCProcessor ----------------------------
EXTENDS Processor

(* Any instruction and an ERET, or a WFI after those that prepare it; the  *)
(* jump at the end repeats or leaves out what it likes.                    *)
MCPrograms == {m \in Images :
                 \/ m[1] = "eret"
                 \/ m[1] = "wfi" /\ m[0] \in {"eret", "branch", "io"}}

MCStatus == [mie |-> FALSE, mpie |-> FALSE, mpp |-> Machine,
             sie |-> FALSE, spie |-> FALSE, spp |-> FALSE]

(* A kernel that is about to start its first User program with a timer. *)
Kernel == [mepc |-> 1, mtvec |-> 2, sepc |-> 0, stvec |-> 0,
           mstatus |-> [MCStatus EXCEPT !.mpie = TRUE, !.mpp = User],
           mie |-> {"timer"}, mip |-> {}, sie |-> {}, mideleg |-> {}, medeleg |-> {},
           mtimecmp |-> "armed"]

(* The same without a handler, without a timer, and with MPP = 3. *)
Bare == [Kernel EXCEPT !.mtvec = 0, !.mtimecmp = "off", !.mstatus.mpp = 3]

(* A kernel that leaves the console and the system calls of its User program *)
(* to a Supervisor.                                                        *)
Delegating == [Kernel EXCEPT !.mepc = 0, !.stvec = 1, !.mideleg = {"rx"}, !.sie = {"rx"},
                             !.medeleg = {"ecall_u", "exception"}, !.mstatus.mpp = Supervisor,
                             !.mstatus.spie = TRUE]

MCConfigs == {Bare, Kernel, Delegating}
MCWritten == {Kernel}
MCArrivals == {{}, {"rx"}, {"ext"}}

=============================================================================
