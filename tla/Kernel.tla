------------------------------- MODULE Kernel -------------------------------
(***************************************************************************)
(* The process core of the HILAL_BIS kernel: the process table, the        *)
(* priority scheduler, the system calls that change them, signals, alarms  *)
(* and the timer interrupt (src/kernel/kernel.c, src/kernel/scheduler.c).  *)
(*                                                                         *)
(* A trap runs with interrupts disabled, so a trap handler is one action.  *)
(* The shell is an ordinary process, the one of slot 0, that also calls    *)
(* process_create and signal_deliver directly, with interrupts enabled:    *)
(* these calls are split at the point where what they read may be stale.   *)
(***************************************************************************)
EXTENDS Integers, FiniteSets

CONSTANTS
  MAX_PROCESSES,   \* slots of the process table, and of the alarm table
  TIMER_QUANTUM,   \* ticks of a fresh time slice, and ms per tick
  Signals,         \* the signal numbers that are sent
  SleepMs,         \* the arguments of sys_sleep
  AlarmMs,         \* the arguments of sys_alarm; 0 cancels
  TickMod          \* total_ticks is an unsigned word: it counts modulo this

ASSUME KernelAssumption ==
  /\ MAX_PROCESSES \in Nat \ {0}
  /\ TIMER_QUANTUM \in Nat \ {0}
  /\ Signals \subseteq 1..31
  /\ SleepMs \subseteq Nat
  /\ AlarmMs \subseteq Nat
  /\ TickMod \in Nat \ {0}

Pid == 0 .. MAX_PROCESSES - 1
Slot == Pid
NoPid == -1
Shell == 0               \* the slot the boot code gives the shell

States == {"FREE", "READY", "RUNNING", "BLOCKED", "ZOMBIE"}

SIGKILL == 9
SIGALRM == 14
Terminating == {15, 2, 3}    \* SIGTERM, SIGINT, SIGQUIT

ShellPriority == 7
AppPriority == 5
Priorities == 0..7

VARIABLES
  state,       \* process_table[p].state
  priority,    \* process_table[p].priority
  ticks,       \* process_table[p].ticks_remaining
  sigs,        \* process_table[p].signal_mask, as the set of its bits
  current,     \* current_pid
  clock,       \* total_ticks
  alarms,      \* alarm_table: slot -> [pid, fire]
  direct       \* the call without a trap that slot 0 is in the middle of

proc == <<state, priority, ticks, sigs, current>>
vars == <<state, priority, ticks, sigs, current, clock, alarms, direct>>

NoAlarm == [pid |-> NoPid, fire |-> 0]
AlarmEntry == [pid : Pid \cup {NoPid}, fire : 0 .. TickMod - 1]

\* create: the slot found free.  signal: the target and the mask to store.
NoCall == [call |-> "none", pid |-> NoPid, mask |-> {}]
DirectCall == [call : {"none", "create", "signal"}, pid : Pid \cup {NoPid},
               mask : SUBSET (Signals \cup {SIGALRM})]

TypeOK ==
  /\ state \in [Pid -> States]
  /\ priority \in [Pid -> Priorities]
  /\ ticks \in [Pid -> Nat]
  /\ sigs \in [Pid -> SUBSET (Signals \cup {SIGALRM})]
  /\ current \in Pid
  /\ clock \in 0 .. TickMod - 1
  /\ alarms \in [Slot -> AlarmEntry]
  /\ direct \in DirectCall
  /\ direct.call # "none" => direct.pid \in Pid

-----------------------------------------------------------------------------
(***************************************************************************)
(* The scheduler.  Its result is given as the set of outcomes              *)
(* [state, current] it may leave, which always has exactly one element.    *)
(***************************************************************************)
Ready(st) == {p \in Pid : st[p] = "READY"}
Blocked(st) == {p \in Pid : st[p] = "BLOCKED"}

\* Mutant: the scan takes the first READY process it meets.
FirstReady(st) == {p \in Ready(st) : \A q \in Ready(st) : p <= q}

\* The READY process of highest priority, the first one in the table on ties.
Best(st) ==
  {p \in Ready(st) : \A q \in Ready(st) : \/ priority[q] < priority[p]
                                          \/ priority[q] = priority[p] /\ p <= q}

FirstBlocked(st) == {p \in Blocked(st) : \A q \in Blocked(st) : p <= q}

Outcome(st, cur) == [state |-> st, current |-> cur]

Demoted(st, from) == IF st[from] = "RUNNING" THEN [st EXCEPT ![from] = "READY"] ELSE st

ContextSwitch(st, from, to) ==
  Outcome([Demoted(st, from) EXCEPT ![to] = "RUNNING"], to)

SwitchIfOther(st, from, to) ==
  IF to = from THEN Outcome(st, from) ELSE ContextSwitch(st, from, to)

\* Mutant: nobody is woken when no process is READY.
ScheduleReadyOnly(st, cur) ==
  IF Ready(st) # {} THEN {SwitchIfOther(st, cur, p) : p \in Best(st)} ELSE {Outcome(st, cur)}

Schedule(st, cur) ==
  IF Ready(st) # {}
    THEN {SwitchIfOther(st, cur, p) : p \in Best(st)}
  ELSE IF Blocked(st) # {}
    THEN {SwitchIfOther([st EXCEPT ![p] = "READY"], cur, p) : p \in FirstBlocked(st)}
  ELSE {Outcome(st, cur)}

Becomes(o) == /\ state' = o.state
              /\ current' = o.current

\* The current process is not in the middle of a direct call.
InProgram == current = Shell => direct = NoCall

InShell == current = Shell /\ direct = NoCall

-----------------------------------------------------------------------------
Init ==
  /\ state = [p \in Pid |-> IF p = 0 THEN "READY" ELSE "FREE"]
  /\ priority = [p \in Pid |-> IF p = 0 THEN ShellPriority ELSE 4]
  /\ ticks = [p \in Pid |-> IF p = 0 THEN TIMER_QUANTUM ELSE 0]
  /\ sigs = [p \in Pid |-> {}]
  /\ current = 0
  /\ clock = 0
  /\ alarms = [i \in Slot |-> NoAlarm]
  /\ direct = NoCall

\* One turn of the loop the boot code ends in.
SchedulerRun ==
  /\ \E o \in Schedule(state, current) : Becomes(o)
  /\ UNCHANGED <<priority, ticks, sigs, clock, alarms, direct>>

(***************************************************************************)
(* The timer interrupt.                                                    *)
(***************************************************************************)
Lowest(S) == {s \in S : \A t \in S : s <= t}

\* Mutant: the countdown does not stop at zero.
ChargedPastZero == [ticks EXCEPT ![current] = @ - 1]

\* The tick is charged to the process that was running.
Charged == [ticks EXCEPT ![current] = IF @ > 0 THEN @ - 1 ELSE @]

\* Mutant: handling one signal clears the whole mask.
MaskCleared(sig) == [sigs EXCEPT ![current] = {}]

\* The bit of a signal is cleared before the signal is acted on.
Taken(sig) == [sigs EXCEPT ![current] = @ \ {sig}]

\* What acting on a signal does to the process table.
Handled(sig) ==
  IF sig = SIGKILL \/ sig \in Terminating
    THEN Schedule([state EXCEPT ![current] = "FREE"], current)
  ELSE IF sig = SIGALRM /\ state[current] = "BLOCKED"
    THEN {Outcome([state EXCEPT ![current] = "READY"], current)}
  ELSE {Outcome(state, current)}

\* signal_check(current_pid): at most one pending signal, the lowest, is handled.
SignalCheck ==
  IF state[current] = "FREE" \/ sigs[current] = {}
    THEN {[out |-> Outcome(state, current), sigs |-> sigs]}
  ELSE UNION
    {{[out |-> o, sigs |-> Taken(sig)] : o \in Handled(sig)} : sig \in Lowest(sigs[current])}

\* signal_deliver: a FREE process gets nothing.
Deliver(st, pending, targets, sig) ==
  [p \in Pid |-> IF p \in targets /\ st[p] # "FREE" THEN pending[p] \cup {sig} ELSE pending[p]]

Due(now) == {i \in Slot : alarms[i].pid # NoPid /\ now >= alarms[i].fire}

TimerInterrupt ==
  LET now == (clock + 1) % TickMod IN
  /\ clock' = now
  /\ \E s \in SignalCheck :
       LET st == s.out.state
           cur == s.out.current
       IN /\ sigs' = Deliver(st, s.sigs, {alarms[i].pid : i \in Due(now)}, SIGALRM)
          /\ alarms' = [i \in Slot |-> IF i \in Due(now) THEN NoAlarm ELSE alarms[i]]
          /\ IF Charged[cur] = 0
               THEN /\ ticks' = [Charged EXCEPT ![cur] = TIMER_QUANTUM]
                    /\ \E o \in Schedule(st, cur) : Becomes(o)
               ELSE /\ ticks' = Charged
                    /\ Becomes(s.out)
  /\ UNCHANGED <<priority, direct>>

-----------------------------------------------------------------------------
(***************************************************************************)
(* System calls of the current process.  The kernel does not look at the   *)
(* state of the caller: a process that exited or was killed while nobody   *)
(* else could run is still current, and still executes.                    *)
(***************************************************************************)
FirstFree == {p \in Pid : /\ state[p] = "FREE"
                          /\ \A q \in Pid : state[q] = "FREE" => p <= q}

\* sys_fork and sys_spawn: the child is a copy of its parent's table entry.
SysFork ==
  /\ InProgram
  /\ IF FirstFree = {}
       THEN UNCHANGED <<state, priority, ticks, sigs, direct>>
       ELSE \E child \in FirstFree :
              /\ state' = [state EXCEPT ![child] = "READY"]
              /\ priority' = [priority EXCEPT ![child] = priority[current]]
              /\ ticks' = [ticks EXCEPT ![child] = TIMER_QUANTUM]
              /\ sigs' = [sigs EXCEPT ![child] = sigs[current]]
              /\ direct' = IF child = Shell THEN NoCall ELSE direct
  /\ UNCHANGED <<current, clock, alarms>>

SysExit ==
  /\ InProgram
  /\ \E o \in Schedule([state EXCEPT ![current] = "ZOMBIE"], current) : Becomes(o)
  /\ UNCHANGED <<priority, ticks, sigs, clock, alarms, direct>>

SysSleep(ms) ==
  /\ InProgram
  /\ ticks' = [ticks EXCEPT ![current] = ms \div TIMER_QUANTUM + 1]
  /\ \E o \in Schedule([state EXCEPT ![current] = "BLOCKED"], current) : Becomes(o)
  /\ UNCHANGED <<priority, sigs, clock, alarms, direct>>

SysYield ==
  /\ InProgram
  /\ ticks' = [ticks EXCEPT ![current] = 0]
  /\ \E o \in Schedule(state, current) : Becomes(o)
  /\ UNCHANGED <<priority, sigs, clock, alarms, direct>>

SysKill(pid, sig) ==
  /\ InProgram
  /\ sigs' = Deliver(state, sigs, {pid}, sig)
  /\ UNCHANGED <<state, priority, ticks, current, clock, alarms, direct>>

\* Mutant: a second call keeps the alarm of the first.
NothingCancelled == alarms

\* The first alarm of the current process is cancelled.
Cancelled ==
  LET mine == {i \in Slot : alarms[i].pid = current}
  IN [i \in Slot |-> IF i \in Lowest(mine) THEN NoAlarm ELSE alarms[i]]

\* The first free entry is armed; with no free entry the call fails.
SysAlarm(ms) ==
  LET free == {i \in Slot : Cancelled[i].pid = NoPid}
      entry == [pid |-> current, fire |-> (clock + ms \div TIMER_QUANTUM) % TickMod]
  IN
  /\ InProgram
  /\ IF ms = 0 \/ free = {}
       THEN alarms' = Cancelled
       ELSE \E i \in Lowest(free) : alarms' = [Cancelled EXCEPT ![i] = entry]
  /\ UNCHANGED <<state, priority, ticks, sigs, current, clock, direct>>

\* exec, read, write, getpid, gettime and the GUI calls: nothing here changes.
SysOther ==
  /\ InProgram
  /\ UNCHANGED <<proc, clock, alarms, direct>>

\* A trap that is neither the timer nor a call kills the current process.
Fault ==
  /\ \E o \in Schedule([state EXCEPT ![current] = "FREE"], current) : Becomes(o)
  /\ UNCHANGED <<priority, ticks, sigs, clock, alarms, direct>>

-----------------------------------------------------------------------------
(***************************************************************************)
(* What the shell does without a trap.  Its commands alarm and yield, and  *)
(* the calls of sys_exit and sys_sleep in the built-in applications, are   *)
(* taken as the system calls above.                                        *)
(***************************************************************************)
\* process_create, up to the point where it has chosen a slot.
CreateScan ==
  /\ InShell
  /\ \E slot \in FirstFree : direct' = [NoCall EXCEPT !.call = "create", !.pid = slot]
  /\ UNCHANGED <<proc, clock, alarms>>

\* The rest of process_create: the slot is cleared and filled in, whoever
\* has taken it since.
CreateCommit ==
  /\ current = Shell /\ direct.call = "create"
  /\ state' = [state EXCEPT ![direct.pid] = "READY"]
  /\ priority' = [priority EXCEPT ![direct.pid] = AppPriority]
  /\ ticks' = [ticks EXCEPT ![direct.pid] = TIMER_QUANTUM]
  /\ sigs' = [sigs EXCEPT ![direct.pid] = {}]
  /\ direct' = NoCall
  /\ UNCHANGED <<current, clock, alarms>>

\* The command "kill": process_kill, without a call of the scheduler.
ShellKill(pid) ==
  /\ InShell
  /\ state' = [state EXCEPT ![pid] = "FREE"]
  /\ UNCHANGED <<priority, ticks, sigs, current, clock, alarms, direct>>

\* The commands "kill9" and "signal": signal_deliver reads the mask ...
SignalLoad(pid, sig) ==
  /\ InShell
  /\ state[pid] # "FREE"
  /\ direct' = [call |-> "signal", pid |-> pid, mask |-> sigs[pid] \cup {sig}]
  /\ UNCHANGED <<proc, clock, alarms>>

\* ... and stores it with one more bit, whatever happened to it since.
SignalStore ==
  /\ current = Shell /\ direct.call = "signal"
  /\ sigs' = [sigs EXCEPT ![direct.pid] = direct.mask]
  /\ direct' = NoCall
  /\ UNCHANGED <<state, priority, ticks, current, clock, alarms>>

-----------------------------------------------------------------------------
Next ==
  \/ SchedulerRun
  \/ TimerInterrupt
  \/ SysFork
  \/ SysExit
  \/ \E ms \in SleepMs : SysSleep(ms)
  \/ SysYield
  \/ \E pid \in Pid, sig \in Signals : SysKill(pid, sig)
  \/ \E ms \in AlarmMs : SysAlarm(ms)
  \/ SysOther
  \/ Fault
  \/ CreateScan
  \/ CreateCommit
  \/ \E pid \in Pid : ShellKill(pid)
  \/ \E pid \in Pid, sig \in Signals : SignalLoad(pid, sig)
  \/ SignalStore

Spec == Init /\ [][Next]_vars

\* The timer of the machine keeps interrupting; nothing else is promised.
FairSpec == Spec /\ WF_vars(TimerInterrupt)
-----------------------------------------------------------------------------
(***************************************************************************)
(* Properties.                                                             *)
(***************************************************************************)

RunningIsCurrent == \A p \in Pid : state[p] = "RUNNING" => p = current
CurrentNeverBlocked == state[current] # "BLOCKED"

\* At most one process is RUNNING, and it is the one current_pid names: the
\* handlers that trust current_pid (registers, ticks, signals) touch the
\* process that really runs.  And that process is never BLOCKED when a handler
\* starts: sys_sleep and scheduler() together guarantee it, even for a process
\* that sleeps alone; signal_check, which only looks at the current process,
\* relies on it.
CurrentRuns == RunningIsCurrent /\ CurrentNeverBlocked

\* A process has at most one entry in the alarm table: sys_alarm cancels one
\* entry only, and a second one could not be cancelled any more.
OneAlarmPerProcess ==
  \A i, j \in Slot : alarms[i].pid = alarms[j].pid /\ alarms[i].pid # NoPid => i = j

\* sys_alarm never has to answer -1: whoever calls it finds a free entry once
\* its own old one is cancelled, however the other processes use the table.
AlarmNeverRefused ==
  \A p \in Pid : \E i \in Slot : alarms[i].pid \in {NoPid, p}

\* A step takes at most one pending signal from a process that exists, and
\* only from the one that is current: the timer, alarms, system calls and
\* forks drop none.  Only the shell can, by the two stores of a direct call.
SignalsTakenOneByOne ==
  [][\A p \in Pid : state[p] # "FREE" /\ sigs[p] \ sigs'[p] # {} =>
       \/ p = current /\ Cardinality(sigs[p] \ sigs'[p]) = 1
       \/ p = direct.pid /\ direct' = NoCall]_vars

\* While p is the READY process of strictly highest priority, the timer alone
\* is enough to make it current: no sequence of calls of a live process keeps
\* it waiting.  (A killed process that is still current may: its sys_fork can
\* choose its own slot, and gives it a fresh time slice.)
Outranks(p) == /\ state[p] = "READY"
               /\ \A q \in Pid \ {p} : state[q] \in {"READY", "RUNNING", "BLOCKED"} =>
                                         priority[q] < priority[p]
HighestPriorityRuns ==
  \A p \in Pid : Outranks(p) ~> (current = p \/ ~Outranks(p) \/ state[current] = "FREE")

=============================================================================
