---------------------------- MODULE KernelProofs ----------------------------
(***************************************************************************)
(* Proofs about Kernel, for a table of any size, any time slice and any    *)
(* set of signals and delays; and about the pipes of its processes (Pipe), *)
(* for a buffer of any size, any bytes and any lengths, under the orderly  *)
(* client: an end is not closed while the other is used; and about its     *)
(* heap (Heap), for a heap and a block table of any size and any requests. *)
(***************************************************************************)
EXTENDS Kernel, Pipe, Heap, SequenceTheorems, FiniteSetTheorems, TLAPS

\* The inductive invariant: types, and the three facts about the tables.
Inv == TypeOK /\ RunningIsCurrent /\ CurrentNeverBlocked /\ OneAlarmPerProcess

\* A table and a current process that a handler may leave behind.
Sound(o) ==
  /\ o.state \in [Pid -> States]
  /\ o.current \in Pid
  /\ \A p \in Pid : o.state[p] = "RUNNING" => p = o.current
  /\ o.state[o.current] # "BLOCKED"

-----------------------------------------------------------------------------
\* context_switch keeps the old process from staying RUNNING.
LEMMA SwitchSound ==
  ASSUME NEW st \in [Pid -> States], NEW cur \in Pid, NEW to \in Pid,
         \A p \in Pid : st[p] = "RUNNING" => p = cur,
         st[to] = "READY"
  PROVE  Sound(SwitchIfOther(st, cur, to))
BY DEF Sound, SwitchIfOther, ContextSwitch, Outcome, Demoted, States

\* Whatever a handler did to the current process, scheduler() restores the
\* invariant: it needs only that nobody else was RUNNING.
LEMMA ScheduleSound ==
  ASSUME NEW st \in [Pid -> States], NEW cur \in Pid,
         \A p \in Pid : st[p] = "RUNNING" => p = cur,
         NEW o \in Schedule(st, cur)
  PROVE  Sound(o)
<1>1. CASE Ready(st) # {}
  <2>1. PICK p \in Best(st) : o = SwitchIfOther(st, cur, p)
    BY <1>1 DEF Schedule
  <2>2. p \in Pid /\ st[p] = "READY"
    BY DEF Best, Ready
  <2>3. QED
    BY <2>1, <2>2, SwitchSound
<1>2. CASE Ready(st) = {} /\ Blocked(st) # {}
  <2>1. PICK p \in FirstBlocked(st) : o = SwitchIfOther([st EXCEPT ![p] = "READY"], cur, p)
    BY <1>2 DEF Schedule
  <2> DEFINE woken == [st EXCEPT ![p] = "READY"]
  <2>2. p \in Pid
    BY DEF FirstBlocked, Blocked
  <2>3. /\ woken \in [Pid -> States]
        /\ woken[p] = "READY"
        /\ \A q \in Pid : woken[q] = "RUNNING" => q = cur
    BY <2>2 DEF States
  <2>4. Sound(SwitchIfOther(woken, cur, p))
    BY <2>2, <2>3, SwitchSound
  <2>5. QED
    BY <2>1, <2>4
<1>3. CASE Ready(st) = {} /\ Blocked(st) = {}
  <2>1. o = Outcome(st, cur)
    BY <1>3 DEF Schedule
  <2>2. st[cur] # "BLOCKED"
    BY <1>3 DEF Blocked
  <2>3. QED
    BY <2>1, <2>2 DEF Outcome, Sound
<1>4. QED
  BY <1>1, <1>2, <1>3

\* The same, when the handler has changed the state of the current process.
LEMMA RescheduleSound ==
  ASSUME Inv, NEW s \in States,
         NEW o \in Schedule([state EXCEPT ![current] = s], current)
  PROVE  Sound(o)
<1> DEFINE st == [state EXCEPT ![current] = s]
<1>1. /\ st \in [Pid -> States]
      /\ current \in Pid
      /\ \A p \in Pid : st[p] = "RUNNING" => p = current
  BY DEF Inv, TypeOK, RunningIsCurrent
<1>2. QED
  BY <1>1, ScheduleSound

\* A sound outcome, taken over as the new state, keeps the process part of
\* the invariant.
LEMMA BecomesSound ==
  ASSUME NEW o, Sound(o), Becomes(o)
  PROVE  /\ state' \in [Pid -> States]
         /\ current' \in Pid
         /\ RunningIsCurrent'
         /\ CurrentNeverBlocked'
BY DEF Sound, Becomes, RunningIsCurrent, CurrentNeverBlocked

-----------------------------------------------------------------------------
\* Signal masks stay masks, and signal_check leaves a sound table.
LEMMA SignalCheckSound ==
  ASSUME Inv, NEW s \in SignalCheck
  PROVE  /\ Sound(s.out)
         /\ s.sigs \in [Pid -> SUBSET (Signals \cup {SIGALRM})]
<1> USE DEF Inv, TypeOK
<1>0. Sound(Outcome(state, current))
  BY DEF Sound, Outcome, RunningIsCurrent, CurrentNeverBlocked
<1>1. CASE state[current] = "FREE" \/ sigs[current] = {}
  <2>1. s = [out |-> Outcome(state, current), sigs |-> sigs]
    BY <1>1 DEF SignalCheck
  <2>2. QED
    BY <2>1, <1>0
<1>2. CASE ~(state[current] = "FREE" \/ sigs[current] = {})
  <2>1. PICK sig \in Lowest(sigs[current]) :
          \E o \in Handled(sig) : s = [out |-> o, sigs |-> Taken(sig)]
    BY <1>2 DEF SignalCheck
  <2>2. PICK o \in Handled(sig) : s = [out |-> o, sigs |-> Taken(sig)]
    BY <2>1
  <2>3. Taken(sig) \in [Pid -> SUBSET (Signals \cup {SIGALRM})]
    BY DEF Taken
  <2>4. Sound(o)
    <3>1. CASE sig = SIGKILL \/ sig \in Terminating
      <4>1. o \in Schedule([state EXCEPT ![current] = "FREE"], current)
        BY <3>1 DEF Handled
      <4>2. "FREE" \in States
        BY DEF States
      <4>3. QED
        BY <4>1, <4>2, RescheduleSound
    <3>2. CASE ~(sig = SIGKILL \/ sig \in Terminating)
      <4>1. o = Outcome(state, current)
        BY <3>2 DEF Handled, CurrentNeverBlocked
      <4>2. QED
        BY <4>1, <1>0
    <3>3. QED
      BY <3>1, <3>2
  <2>5. QED
    BY <2>2, <2>3, <2>4
<1>3. QED
  BY <1>1, <1>2

LEMMA DeliverType ==
  ASSUME NEW st, NEW targets, NEW sig \in Signals \cup {SIGALRM},
         NEW pending \in [Pid -> SUBSET (Signals \cup {SIGALRM})]
  PROVE  Deliver(st, pending, targets, sig) \in [Pid -> SUBSET (Signals \cup {SIGALRM})]
BY DEF Deliver

\* A tick count wraps inside its range.
LEMMA WrapType ==
  ASSUME NEW n \in Nat
  PROVE  n % TickMod \in 0 .. TickMod - 1
BY KernelAssumption

\* Cancelling leaves nothing that names the caller: with one entry per
\* process, cancelling the first one is enough.
LEMMA CancelledFacts ==
  ASSUME Inv
  PROVE  /\ Cancelled \in [Slot -> AlarmEntry]
         /\ \A i \in Slot : Cancelled[i].pid # current
         /\ \A i \in Slot : Cancelled[i] = alarms[i] \/ Cancelled[i].pid = NoPid
<1> USE DEF Inv, TypeOK, AlarmEntry, NoAlarm, Slot, Pid, NoPid
<1>1. 0 \in 0 .. TickMod - 1
  BY KernelAssumption
<1>2. ASSUME NEW i \in Slot
      PROVE  Cancelled[i].pid # current
  <2>1. CASE alarms[i].pid = current
    <3>1. i \in Lowest({k \in Slot : alarms[k].pid = current})
      BY <2>1 DEF Lowest, OneAlarmPerProcess
    <3>2. Cancelled[i] = NoAlarm
      BY <3>1 DEF Cancelled
    <3>3. QED
      BY <3>2
  <2>2. CASE alarms[i].pid # current
    BY <2>2 DEF Cancelled
  <2>3. QED
    BY <2>1, <2>2
<1>3. QED
  BY <1>1, <1>2 DEF Cancelled

-----------------------------------------------------------------------------
LEMMA InitInv == Init => Inv
<1> SUFFICES ASSUME Init PROVE Inv
  OBVIOUS
<1>1. 0 \in Pid /\ 0 \in 0 .. TickMod - 1
  BY KernelAssumption DEF Pid
<1>2. TypeOK
  BY <1>1, KernelAssumption
     DEF Init, TypeOK, States, Priorities, ShellPriority, AlarmEntry, NoAlarm, Slot,
         DirectCall, NoCall
<1>3. RunningIsCurrent /\ CurrentNeverBlocked
  BY <1>1 DEF Init, RunningIsCurrent, CurrentNeverBlocked
<1>4. OneAlarmPerProcess
  BY DEF Init, OneAlarmPerProcess, NoAlarm
<1>5. QED
  BY <1>2, <1>3, <1>4 DEF Inv

\* The timer interrupt, the longest handler: it may schedule twice.
LEMMA TimerInv == Inv /\ TimerInterrupt => Inv'
<1> SUFFICES ASSUME Inv, TimerInterrupt PROVE Inv'
  OBVIOUS
<1> DEFINE now == (clock + 1) % TickMod
<1>1. now \in 0 .. TickMod - 1
  BY WrapType DEF Inv, TypeOK
<1>2. PICK s \in SignalCheck :
        /\ sigs' = Deliver(s.out.state, s.sigs, {alarms[i].pid : i \in Due(now)}, SIGALRM)
        /\ alarms' = [i \in Slot |-> IF i \in Due(now) THEN NoAlarm ELSE alarms[i]]
        /\ IF Charged[s.out.current] = 0
             THEN /\ ticks' = [Charged EXCEPT ![s.out.current] = TIMER_QUANTUM]
                  /\ \E o \in Schedule(s.out.state, s.out.current) : Becomes(o)
             ELSE /\ ticks' = Charged
                  /\ Becomes(s.out)
  BY DEF TimerInterrupt
<1>3. Sound(s.out) /\ s.sigs \in [Pid -> SUBSET (Signals \cup {SIGALRM})]
  BY SignalCheckSound
<1>4. /\ state' \in [Pid -> States]
      /\ current' \in Pid
      /\ RunningIsCurrent'
      /\ CurrentNeverBlocked'
  <2>1. CASE Charged[s.out.current] = 0
    <3>1. PICK o \in Schedule(s.out.state, s.out.current) : Becomes(o)
      BY <1>2, <2>1
    <3>2. Sound(o)
      BY <1>3, ScheduleSound DEF Sound
    <3>3. QED
      BY <3>1, <3>2, BecomesSound
  <2>2. CASE Charged[s.out.current] # 0
    BY <1>2, <1>3, <2>2, BecomesSound
  <2>3. QED
    BY <2>1, <2>2
<1>5. Charged \in [Pid -> Nat]
  BY DEF Charged, Inv, TypeOK
<1>6. ticks' \in [Pid -> Nat]
  BY <1>2, <1>3, <1>5, KernelAssumption DEF Sound
<1>7. sigs' \in [Pid -> SUBSET (Signals \cup {SIGALRM})]
  BY <1>2, <1>3, DeliverType
<1>8. alarms' \in [Slot -> AlarmEntry] /\ OneAlarmPerProcess'
  <2>1. NoAlarm \in AlarmEntry
    BY KernelAssumption DEF NoAlarm, AlarmEntry
  <2>2. QED
    BY <1>2, <2>1 DEF Inv, TypeOK, OneAlarmPerProcess, NoAlarm
<1>9. QED
  BY <1>1, <1>4, <1>6, <1>7, <1>8 DEF TimerInterrupt, Inv, TypeOK

\* Arming an alarm: the cancelled table has no entry of the caller left.
LEMMA AlarmInv == ASSUME NEW ms \in AlarmMs PROVE Inv /\ SysAlarm(ms) => Inv'
<1> SUFFICES ASSUME Inv, SysAlarm(ms) PROVE Inv'
  OBVIOUS
<1> DEFINE entry == [pid |-> current, fire |-> (clock + ms \div TIMER_QUANTUM) % TickMod]
<1>1. entry \in AlarmEntry
  <2>1. clock + ms \div TIMER_QUANTUM \in Nat
    BY KernelAssumption DEF Inv, TypeOK
  <2>2. QED
    BY <2>1, WrapType DEF AlarmEntry, Inv, TypeOK
<1>2. \/ alarms' = Cancelled
      \/ \E i \in Slot : Cancelled[i].pid = NoPid /\ alarms' = [Cancelled EXCEPT ![i] = entry]
  BY DEF SysAlarm, Lowest
<1>3. alarms' \in [Slot -> AlarmEntry]
  BY <1>1, <1>2, CancelledFacts
<1>4. OneAlarmPerProcess'
  <2>1. ASSUME NEW i \in Slot, NEW j \in Slot,
               Cancelled[i].pid = Cancelled[j].pid, Cancelled[i].pid # NoPid
        PROVE  i = j
    BY <2>1, CancelledFacts DEF Inv, OneAlarmPerProcess
  <2>2. CASE alarms' = Cancelled
    BY <2>1, <2>2 DEF OneAlarmPerProcess
  <2>3. ASSUME NEW k \in Slot, alarms' = [Cancelled EXCEPT ![k] = entry]
        PROVE  OneAlarmPerProcess'
    BY <2>1, <2>3, CancelledFacts DEF OneAlarmPerProcess
  <2>4. QED
    BY <1>2, <2>2, <2>3
<1>5. QED
  BY <1>3, <1>4 DEF SysAlarm, Inv, TypeOK, RunningIsCurrent, CurrentNeverBlocked

-----------------------------------------------------------------------------
(***************************************************************************)
(* The actions that end by calling the scheduler.                          *)
(***************************************************************************)
LEMMA SchedulerRunInv == Inv /\ SchedulerRun => Inv'
<1> SUFFICES ASSUME Inv, SchedulerRun PROVE Inv'
  OBVIOUS
<1>1. PICK o \in Schedule(state, current) : Becomes(o)
  BY DEF SchedulerRun
<1>2. Sound(o)
  BY ScheduleSound DEF Inv, TypeOK, RunningIsCurrent
<1>3. QED
  BY <1>1, <1>2, BecomesSound
     DEF SchedulerRun, Inv, TypeOK, OneAlarmPerProcess

LEMMA ExitInv == Inv /\ SysExit => Inv'
<1> SUFFICES ASSUME Inv, SysExit PROVE Inv'
  OBVIOUS
<1>1. PICK o \in Schedule([state EXCEPT ![current] = "ZOMBIE"], current) : Becomes(o)
  BY DEF SysExit
<1>2. Sound(o)
  BY RescheduleSound DEF States
<1>3. QED
  BY <1>1, <1>2, BecomesSound DEF SysExit, Inv, TypeOK, OneAlarmPerProcess

LEMMA SleepInv == ASSUME NEW ms \in SleepMs PROVE Inv /\ SysSleep(ms) => Inv'
<1> SUFFICES ASSUME Inv, SysSleep(ms) PROVE Inv'
  OBVIOUS
<1>1. PICK o \in Schedule([state EXCEPT ![current] = "BLOCKED"], current) : Becomes(o)
  BY DEF SysSleep
<1>2. Sound(o)
  BY RescheduleSound DEF States
<1>3. ms \div TIMER_QUANTUM + 1 \in Nat
  BY KernelAssumption
<1>4. ticks' \in [Pid -> Nat]
  BY <1>3 DEF SysSleep, Inv, TypeOK
<1>5. QED
  BY <1>1, <1>2, <1>4, BecomesSound DEF SysSleep, Inv, TypeOK, OneAlarmPerProcess

LEMMA YieldInv == Inv /\ SysYield => Inv'
<1> SUFFICES ASSUME Inv, SysYield PROVE Inv'
  OBVIOUS
<1>1. PICK o \in Schedule(state, current) : Becomes(o)
  BY DEF SysYield
<1>2. Sound(o)
  BY ScheduleSound DEF Inv, TypeOK, RunningIsCurrent
<1>3. ticks' \in [Pid -> Nat]
  BY DEF SysYield, Inv, TypeOK
<1>4. QED
  BY <1>1, <1>2, <1>3, BecomesSound
     DEF SysYield, Inv, TypeOK, OneAlarmPerProcess

LEMMA FaultInv == Inv /\ Fault => Inv'
<1> SUFFICES ASSUME Inv, Fault PROVE Inv'
  OBVIOUS
<1>1. PICK o \in Schedule([state EXCEPT ![current] = "FREE"], current) : Becomes(o)
  BY DEF Fault
<1>2. Sound(o)
  BY RescheduleSound DEF States
<1>3. QED
  BY <1>1, <1>2, BecomesSound DEF Fault, Inv, TypeOK, OneAlarmPerProcess

-----------------------------------------------------------------------------
(***************************************************************************)
(* The actions that leave current_pid alone.                               *)
(***************************************************************************)
LEMMA ForkInv == Inv /\ SysFork => Inv'
<1> SUFFICES ASSUME Inv, SysFork PROVE Inv'
  OBVIOUS
<1> USE DEF Inv, TypeOK, RunningIsCurrent, CurrentNeverBlocked, OneAlarmPerProcess
<1>1. CASE FirstFree = {}
  BY <1>1 DEF SysFork
<1>2. CASE FirstFree # {}
  <2>1. PICK child \in FirstFree :
          /\ state' = [state EXCEPT ![child] = "READY"]
          /\ priority' = [priority EXCEPT ![child] = priority[current]]
          /\ ticks' = [ticks EXCEPT ![child] = TIMER_QUANTUM]
          /\ sigs' = [sigs EXCEPT ![child] = sigs[current]]
          /\ direct' = IF child = Shell THEN NoCall ELSE direct
    BY <1>2 DEF SysFork
  <2>2. child \in Pid
    BY DEF FirstFree
  <2>3. direct' \in DirectCall /\ (direct'.call # "none" => direct'.pid \in Pid)
    BY <2>1 DEF DirectCall, NoCall
  <2>4. QED
    BY <2>1, <2>2, <2>3, KernelAssumption DEF SysFork, States
<1>3. QED
  BY <1>1, <1>2

\* Sending a signal, storing a mask and the calls that change no table.
LEMMA KillInv ==
  ASSUME NEW pid \in Pid, NEW sig \in Signals PROVE Inv /\ SysKill(pid, sig) => Inv'
<1> SUFFICES ASSUME Inv, SysKill(pid, sig) PROVE Inv'
  OBVIOUS
<1>1. sigs' \in [Pid -> SUBSET (Signals \cup {SIGALRM})]
  BY DeliverType DEF SysKill, Inv, TypeOK
<1>2. QED
  BY <1>1 DEF SysKill, Inv, TypeOK, RunningIsCurrent, CurrentNeverBlocked,
              OneAlarmPerProcess

LEMMA OtherInv == Inv /\ SysOther => Inv'
BY DEF SysOther, proc, Inv, TypeOK, RunningIsCurrent, CurrentNeverBlocked,
       OneAlarmPerProcess

LEMMA CreateScanInv == Inv /\ CreateScan => Inv'
<1> SUFFICES ASSUME Inv, CreateScan PROVE Inv'
  OBVIOUS
<1>1. direct' \in DirectCall /\ (direct'.call # "none" => direct'.pid \in Pid)
  BY DEF CreateScan, FirstFree, DirectCall, NoCall
<1>2. QED
  BY <1>1 DEF CreateScan, proc, Inv, TypeOK, RunningIsCurrent,
              CurrentNeverBlocked, OneAlarmPerProcess

\* The slot may be taken, and may even be the current one: it becomes READY.
LEMMA CreateCommitInv == Inv /\ CreateCommit => Inv'
<1> SUFFICES ASSUME Inv, CreateCommit PROVE Inv'
  OBVIOUS
<1> USE DEF Inv, TypeOK
<1>1. direct.pid \in Pid
  BY DEF CreateCommit
<1>2. direct' \in DirectCall /\ direct'.call = "none"
  BY DEF CreateCommit, DirectCall, NoCall
<1>3. AppPriority \in Priorities /\ TIMER_QUANTUM \in Nat /\ "READY" \in States
  BY KernelAssumption DEF AppPriority, Priorities, States
<1>4. TypeOK'
  BY <1>1, <1>2, <1>3 DEF CreateCommit
<1>5. RunningIsCurrent' /\ CurrentNeverBlocked' /\ OneAlarmPerProcess'
  BY <1>1 DEF CreateCommit, RunningIsCurrent, CurrentNeverBlocked, OneAlarmPerProcess
<1>6. QED
  BY <1>4, <1>5

LEMMA ShellKillInv == ASSUME NEW pid \in Pid PROVE Inv /\ ShellKill(pid) => Inv'
BY DEF ShellKill, Inv, TypeOK, RunningIsCurrent, CurrentNeverBlocked,
       OneAlarmPerProcess, States

LEMMA SignalLoadInv ==
  ASSUME NEW pid \in Pid, NEW sig \in Signals PROVE Inv /\ SignalLoad(pid, sig) => Inv'
<1> SUFFICES ASSUME Inv, SignalLoad(pid, sig) PROVE Inv'
  OBVIOUS
<1>1. direct' \in DirectCall /\ (direct'.call # "none" => direct'.pid \in Pid)
  BY DEF SignalLoad, DirectCall, Inv, TypeOK
<1>2. QED
  BY <1>1 DEF SignalLoad, proc, Inv, TypeOK, RunningIsCurrent,
              CurrentNeverBlocked, OneAlarmPerProcess

LEMMA SignalStoreInv == Inv /\ SignalStore => Inv'
<1> SUFFICES ASSUME Inv, SignalStore PROVE Inv'
  OBVIOUS
<1> USE DEF Inv, TypeOK
<1>1. direct.pid \in Pid /\ direct.mask \in SUBSET (Signals \cup {SIGALRM})
  BY DEF SignalStore, DirectCall
<1>2. direct' \in DirectCall /\ direct'.call = "none"
  BY DEF SignalStore, DirectCall, NoCall
<1>3. QED
  BY <1>1, <1>2 DEF SignalStore, RunningIsCurrent, CurrentNeverBlocked,
                    OneAlarmPerProcess

-----------------------------------------------------------------------------
\* Every step of the kernel, and stuttering, keeps the invariant.
LEMMA NextInv == Inv /\ [Next]_vars => Inv'
<1> SUFFICES ASSUME Inv, [Next]_vars PROVE Inv'
  OBVIOUS
<1>1. CASE UNCHANGED vars
  BY <1>1 DEF vars, Inv, TypeOK, RunningIsCurrent, CurrentNeverBlocked, OneAlarmPerProcess
<1>2. CASE Next
  BY <1>2, SchedulerRunInv, TimerInv, ForkInv, ExitInv, SleepInv, YieldInv, KillInv,
     AlarmInv, OtherInv, FaultInv, CreateScanInv, CreateCommitInv, ShellKillInv,
     SignalLoadInv, SignalStoreInv DEF Next
<1>3. QED
  BY <1>1, <1>2

LEMMA SpecInv == Spec => []Inv
BY InitInv, NextInv, PTL DEF Spec

\* The variables stay in their ranges: no count of ticks goes below zero.
THEOREM TypeCorrect == Spec => []TypeOK
<1>1. Inv => TypeOK
  BY DEF Inv
<1>2. QED
  BY <1>1, SpecInv, PTL

\* Only the process current_pid names is RUNNING, however the scheduler is
\* entered, and no handler starts with a BLOCKED one.
THEOREM CurrentCorrect == Spec => []CurrentRuns
<1>1. Inv => CurrentRuns
  BY DEF Inv, CurrentRuns
<1>2. QED
  BY <1>1, SpecInv, PTL

\* No process ever has two alarms.
THEOREM OneAlarmCorrect == Spec => []OneAlarmPerProcess
<1>1. Inv => OneAlarmPerProcess
  BY DEF Inv
<1>2. QED
  BY <1>1, SpecInv, PTL

-----------------------------------------------------------------------------
\* The pigeonhole behind sys_alarm: with as many entries as processes and at
\* most one entry for each, a process without an entry finds a free one.
LEMMA RoomForAlarm == Inv => AlarmNeverRefused
<1> SUFFICES ASSUME Inv, NEW p \in Pid,
                    \A i \in Slot : alarms[i].pid \notin {NoPid, p}
             PROVE  FALSE
  BY DEF AlarmNeverRefused
<1> DEFINE owner == [i \in Slot |-> alarms[i].pid]
<1>1. IsFiniteSet(Pid)
  <2>1. 0 \in Int /\ MAX_PROCESSES - 1 \in Int
    BY KernelAssumption
  <2>2. QED
    BY <2>1, FS_Interval DEF Pid
<1>2. IsFiniteSet(Pid \ {p}) /\ Cardinality(Pid \ {p}) = Cardinality(Pid) - 1
  BY <1>1, FS_RemoveElement
<1>3. Cardinality(Pid) \in Nat
  BY <1>1, FS_CardinalityType
<1>4. owner \in [Slot -> Pid \ {p}]
  BY DEF Inv, TypeOK, AlarmEntry
<1>5. \E i, j \in Slot : i # j /\ owner[i] = owner[j]
  <2>1. IsFiniteSet(Slot) /\ Cardinality(Pid \ {p}) < Cardinality(Slot)
    BY <1>1, <1>2, <1>3 DEF Slot
  <2> HIDE DEF owner
  <2>2. QED
    BY <2>1, <1>2, <1>4, FS_PigeonHole
<1>6. QED
  BY <1>5 DEF Inv, OneAlarmPerProcess

\* sys_alarm never answers that its table is full.
THEOREM AlarmCorrect == Spec => []AlarmNeverRefused
BY SpecInv, RoomForAlarm, PTL

-----------------------------------------------------------------------------
\* signal_check removes one bit of the current process and none of another.
LEMMA SignalCheckTakesOne ==
  ASSUME Inv, NEW s \in SignalCheck
  PROVE  \A p \in Pid : \/ s.sigs[p] = sigs[p]
                        \/ p = current /\ \E sig \in sigs[p] : s.sigs[p] = sigs[p] \ {sig}
<1> USE DEF Inv, TypeOK
<1>1. CASE state[current] = "FREE" \/ sigs[current] = {}
  BY <1>1 DEF SignalCheck
<1>2. CASE ~(state[current] = "FREE" \/ sigs[current] = {})
  <2>1. PICK sig \in Lowest(sigs[current]) :
          \E o \in Handled(sig) : s = [out |-> o, sigs |-> Taken(sig)]
    BY <1>2 DEF SignalCheck
  <2>2. sig \in sigs[current] /\ s.sigs = Taken(sig)
    BY <2>1 DEF Lowest
  <2>3. QED
    BY <2>2 DEF Taken
<1>3. QED
  BY <1>1, <1>2

\* What the property says of one step.
TakenOneByOne ==
  \A p \in Pid : state[p] # "FREE" /\ sigs[p] \ sigs'[p] # {} =>
    \/ p = current /\ Cardinality(sigs[p] \ sigs'[p]) = 1
    \/ p = direct.pid /\ direct' = NoCall

LEMMA TimerTakesOne == Inv /\ TimerInterrupt => TakenOneByOne
<1> SUFFICES ASSUME Inv, TimerInterrupt, NEW p \in Pid, sigs[p] \ sigs'[p] # {}
             PROVE  p = current /\ Cardinality(sigs[p] \ sigs'[p]) = 1
  BY DEF TakenOneByOne
<1>1. PICK s \in SignalCheck : \E st, targets :
        sigs' = Deliver(st, s.sigs, targets, SIGALRM)
  BY DEF TimerInterrupt
<1>2. s.sigs[p] \subseteq sigs'[p]
  BY <1>1 DEF Deliver
<1>3. PICK sig \in sigs[p] : p = current /\ s.sigs[p] = sigs[p] \ {sig}
  BY <1>2, SignalCheckTakesOne
<1>4. sigs[p] \ sigs'[p] = {sig}
  BY <1>2, <1>3
<1>5. QED
  BY <1>3, <1>4, FS_Singleton

LEMMA NextTakesOne == Inv /\ [Next]_vars => [TakenOneByOne]_vars
<1> SUFFICES ASSUME Inv, Next PROVE TakenOneByOne
  OBVIOUS
<1> USE DEF Inv, TypeOK
<1>1. CASE TimerInterrupt
  BY <1>1, TimerTakesOne
<1>2. CASE SysFork
  <2>1. \/ sigs' = sigs
        \/ \E child \in FirstFree : sigs' = [sigs EXCEPT ![child] = sigs[current]]
    BY <1>2 DEF SysFork
  <2>2. \A child \in FirstFree : state[child] = "FREE"
    BY DEF FirstFree
  <2>3. QED
    BY <2>1, <2>2 DEF TakenOneByOne
<1>3. CASE \E pid \in Pid, sig \in Signals : SysKill(pid, sig)
  BY <1>3 DEF SysKill, Deliver, TakenOneByOne
<1>4. CASE CreateCommit
  BY <1>4 DEF CreateCommit, TakenOneByOne
<1>5. CASE SignalStore
  BY <1>5 DEF SignalStore, TakenOneByOne
<1>6. CASE sigs' = sigs
  BY <1>6 DEF TakenOneByOne
<1>7. QED
  BY <1>1, <1>2, <1>3, <1>4, <1>5, <1>6
     DEF Next, SchedulerRun, SysExit, SysSleep, SysYield, SysAlarm, SysOther, Fault,
         CreateScan, ShellKill, SignalLoad, proc

\* No signal is dropped but by the two unprotected stores of the shell.
THEOREM SignalsCorrect == Spec => SignalsTakenOneByOne
<1>1. Spec => [][TakenOneByOne]_vars
  BY SpecInv, NextTakesOne, PTL DEF Spec
<1>2. QED
  BY <1>1 DEF TakenOneByOne, SignalsTakenOneByOne

-------------------------------------------------------------------------------
(***************************************************************************)
(* Pipes.                                                                  *)
(***************************************************************************)

\* What writer and reader rely on: a test that passed stays true until its
\* owner acts on it, since the other side only moves away.
PipeInv ==
  /\ PipeTypeOK
  /\ used <=> ends # {}
  /\ wpc # "idle" \/ rpc # "idle" => used
  /\ wpc \in {"store", "publish"} => Succ(head) # tail
  /\ rpc \in {"load", "release"} => head # tail
  /\ wpc = "store" => wleft # 0
  /\ rpc = "load" => rleft # 0

-----------------------------------------------------------------------------
(***************************************************************************)
(* The arithmetic of the ring.                                             *)
(***************************************************************************)
LEMMA ModFacts ==
  ASSUME NEW x \in Nat, x < 2 * PIPE_BUF_SIZE
  PROVE  x % PIPE_BUF_SIZE = IF x < PIPE_BUF_SIZE THEN x ELSE x - PIPE_BUF_SIZE
BY PipeAssumption

LEMMA SuccFacts ==
  ASSUME NEW i \in Pos
  PROVE  Succ(i) \in Pos /\ Succ(i) = IF i + 1 = PIPE_BUF_SIZE THEN 0 ELSE i + 1
<1>1. i + 1 \in Nat /\ i + 1 < 2 * PIPE_BUF_SIZE /\ i + 1 <= PIPE_BUF_SIZE
  BY PipeAssumption DEF Pos
<1>2. QED
  BY <1>1, ModFacts, PipeAssumption DEF Pos, Succ

LEMMA SuccInjective ==
  ASSUME NEW i \in Pos, NEW j \in Pos, i # j
  PROVE  Succ(i) # Succ(j)
<1>1. Succ(i) = IF i + 1 = PIPE_BUF_SIZE THEN 0 ELSE i + 1
  BY SuccFacts
<1>2. Succ(j) = IF j + 1 = PIPE_BUF_SIZE THEN 0 ELSE j + 1
  BY SuccFacts
<1>3. i \in Nat /\ j \in Nat /\ PIPE_BUF_SIZE \in Nat
  BY PipeAssumption DEF Pos
<1>4. QED
  BY <1>1, <1>2, <1>3

\* How many bytes lie between a tail and a head.
Distance(h, t) == (h - t + PIPE_BUF_SIZE) % PIPE_BUF_SIZE

LEMMA DistanceFacts ==
  ASSUME NEW h \in Pos, NEW t \in Pos
  PROVE  /\ Distance(h, t) = IF t <= h THEN h - t ELSE h - t + PIPE_BUF_SIZE
         /\ Distance(h, t) \in 0 .. PIPE_BUF_SIZE - 1
<1>1. h - t + PIPE_BUF_SIZE \in Nat /\ h - t + PIPE_BUF_SIZE < 2 * PIPE_BUF_SIZE
  BY PipeAssumption DEF Pos
<1>2. QED
  BY <1>1, ModFacts, PipeAssumption DEF Pos, Distance

\* Moving the head adds one byte, moving the tail takes one.
LEMMA DistanceSteps ==
  ASSUME NEW h \in Pos, NEW t \in Pos
  PROVE  /\ Succ(h) # t => Distance(Succ(h), t) = Distance(h, t) + 1
         /\ h # t => Distance(h, Succ(t)) = Distance(h, t) - 1
         /\ h # t => Distance(h, t) > 0
         /\ Succ(h) # t => Distance(h, t) < PIPE_BUF_SIZE - 1
<1>1. /\ Succ(h) \in Pos /\ Succ(h) = IF h + 1 = PIPE_BUF_SIZE THEN 0 ELSE h + 1
      /\ Succ(t) \in Pos /\ Succ(t) = IF t + 1 = PIPE_BUF_SIZE THEN 0 ELSE t + 1
  BY SuccFacts
<1>2. /\ Distance(h, t) = IF t <= h THEN h - t ELSE h - t + PIPE_BUF_SIZE
      /\ Distance(Succ(h), t) = IF t <= Succ(h) THEN Succ(h) - t ELSE Succ(h) - t + PIPE_BUF_SIZE
      /\ Distance(h, Succ(t)) = IF Succ(t) <= h THEN h - Succ(t) ELSE h - Succ(t) + PIPE_BUF_SIZE
  BY <1>1, DistanceFacts
<1>3. QED
  BY <1>1, <1>2, PipeAssumption DEF Pos

\* The byte at an offset from the tail.
At(t, j) == (t + j) % PIPE_BUF_SIZE

LEMMA AtFacts ==
  ASSUME NEW t \in Pos, NEW j \in 0 .. PIPE_BUF_SIZE - 1
  PROVE  /\ At(t, j) \in Pos
         /\ At(t, j) = IF t + j < PIPE_BUF_SIZE THEN t + j ELSE t + j - PIPE_BUF_SIZE
<1>1. t + j \in Nat /\ t + j < 2 * PIPE_BUF_SIZE
  BY PipeAssumption DEF Pos
<1>2. QED
  BY <1>1, ModFacts, PipeAssumption DEF Pos, At

\* The head is the byte behind the last one, and no byte before it.
LEMMA HeadIsBehind ==
  ASSUME NEW h \in Pos, NEW t \in Pos
  PROVE  /\ At(t, Distance(h, t)) = h
         /\ \A j \in 0 .. Distance(h, t) - 1 : At(t, j) # h
<1>1. Distance(h, t) \in 0 .. PIPE_BUF_SIZE - 1
  BY DistanceFacts
<1>2. /\ Distance(h, t) = IF t <= h THEN h - t ELSE h - t + PIPE_BUF_SIZE
      /\ \A j \in 0 .. PIPE_BUF_SIZE - 1 :
           At(t, j) = IF t + j < PIPE_BUF_SIZE THEN t + j ELSE t + j - PIPE_BUF_SIZE
  BY DistanceFacts, AtFacts
<1>3. ASSUME NEW j \in 0 .. Distance(h, t) - 1 PROVE At(t, j) # h
  <2>1. j \in 0 .. PIPE_BUF_SIZE - 1 /\ j < Distance(h, t)
    BY <1>1, PipeAssumption
  <2>2. QED
    BY <1>1, <1>2, <2>1, PipeAssumption DEF Pos
<1>4. At(t, Distance(h, t)) = h
  BY <1>1, <1>2, PipeAssumption DEF Pos
<1>5. QED
  BY <1>3, <1>4

\* One step on from the tail is one offset less.
LEMMA AtSucc ==
  ASSUME NEW t \in Pos, NEW j \in 0 .. PIPE_BUF_SIZE - 2
  PROVE  At(Succ(t), j) = At(t, j + 1)
<1>1. j \in 0 .. PIPE_BUF_SIZE - 1 /\ j + 1 \in 0 .. PIPE_BUF_SIZE - 1 /\ Succ(t) \in Pos
  BY SuccFacts, PipeAssumption
<1>2. /\ Succ(t) = IF t + 1 = PIPE_BUF_SIZE THEN 0 ELSE t + 1
      /\ At(Succ(t), j) = IF Succ(t) + j < PIPE_BUF_SIZE THEN Succ(t) + j
                          ELSE Succ(t) + j - PIPE_BUF_SIZE
      /\ At(t, j + 1) = IF t + (j + 1) < PIPE_BUF_SIZE THEN t + (j + 1)
                        ELSE t + (j + 1) - PIPE_BUF_SIZE
  BY <1>1, SuccFacts, AtFacts
<1>3. QED
  BY <1>1, <1>2, PipeAssumption DEF Pos

-----------------------------------------------------------------------------
LEMMA PipeInitInv == PipeInit => PipeInv
<1> SUFFICES ASSUME PipeInit PROVE PipeInv
  OBVIOUS
<1>1. 0 \in Pos /\ 0 \in 0 .. MaxLen
  BY PipeAssumption DEF Pos
<1>2. PipeTypeOK
  BY <1>1 DEF PipeInit, PipeTypeOK
<1>3. QED
  BY <1>2 DEF PipeInit, PipeInv

\* One step per action; the two loops meet in WritePublish and ReadRelease.
LEMMA PipeNextInv == ASSUME ~EarlyClose PROVE PipeInv /\ [PipeNext]_pipeVars => PipeInv'
<1> SUFFICES ASSUME PipeInv, [PipeNext]_pipeVars PROVE PipeInv'
  OBVIOUS
<1> USE DEF PipeInv, PipeTypeOK
<1>0. 0 \in Pos /\ head \in Pos /\ tail \in Pos /\ Succ(head) \in Pos /\ Succ(tail) \in Pos
  BY SuccFacts, PipeAssumption DEF Pos
<1>1. CASE UNCHANGED pipeVars
  BY <1>1 DEF pipeVars
<1>2. CASE Create
  BY <1>0, <1>2 DEF Create, writer, reader
<1>3. ASSUME NEW e \in {"w", "r"}, Close(e) PROVE PipeInv'
  BY <1>3 DEF Close, writer, reader
<1>4. ASSUME NEW len \in 0 .. MaxLen, WriteCall(len) PROVE PipeInv'
  BY <1>4 DEF WriteCall, reader
<1>5. CASE WriteTest
  BY <1>5 DEF WriteTest, reader
<1>6. CASE WriteStore
  <2>1. wleft - 1 \in 0 .. MaxLen
    BY <1>6, PipeAssumption DEF WriteStore
  <2>2. buf' \in [Pos -> Bytes]
    BY <1>6 DEF WriteStore
  <2>3. QED
    BY <1>6, <2>1, <2>2 DEF WriteStore, reader
<1>7. CASE WritePublish
  BY <1>0, <1>7 DEF WritePublish, reader
<1>8. ASSUME NEW maxlen \in 0 .. MaxLen, ReadCall(maxlen) PROVE PipeInv'
  BY <1>8 DEF ReadCall, writer
<1>9. CASE ReadTest
  BY <1>9 DEF ReadTest, writer
<1>10. CASE ReadLoad
  <2>1. rleft - 1 \in 0 .. MaxLen /\ buf[tail] \in Bytes
    BY <1>10, PipeAssumption DEF ReadLoad
  <2>2. QED
    BY <1>10, <2>1 DEF ReadLoad, writer
<1>11. CASE ReadRelease
  <2>1. Succ(head) # Succ(tail)
    <3>1. head # tail
      BY <1>11 DEF ReadRelease
    <3>2. QED
      BY <1>0, <3>1, SuccInjective
  <2>2. QED
    BY <1>0, <1>11, <2>1 DEF ReadRelease, writer
<1>12. QED
  BY <1>1, <1>2, <1>3, <1>4, <1>5, <1>6, <1>7, <1>8, <1>9, <1>10, <1>11 DEF PipeNext

LEMMA PipeSpecInv == ASSUME ~EarlyClose PROVE PipeSpec => []PipeInv
BY PipeInitInv, PipeNextInv, PTL DEF PipeSpec

\* Indices stay inside the buffer and calls inside their lengths.
THEOREM PipeTypeCorrect == ASSUME ~EarlyClose PROVE PipeSpec => []PipeTypeOK
<1>1. PipeInv => PipeTypeOK
  BY DEF PipeInv
<1>2. QED
  BY <1>1, PipeSpecInv, PTL

\* The two loops never touch the same byte at the same time.
THEOREM NoDataRace == ASSUME ~EarlyClose PROVE PipeSpec => []NeverTheSameByte
<1>1. PipeInv => NeverTheSameByte
  BY DEF PipeInv, NeverTheSameByte
<1>2. QED
  BY <1>1, PipeSpecInv, PTL

-----------------------------------------------------------------------------
(***************************************************************************)
(* The bytes in a ring, without the first l of them, as a sequence.        *)
(***************************************************************************)
Ring(b, h, t, l) == [k \in 1 .. Distance(h, t) - l |-> b[At(t, l + k - 1)]]

LEMMA RingFacts ==
  ASSUME NEW b \in [Pos -> Bytes], NEW h \in Pos, NEW t \in Pos, NEW l \in {0, 1},
         l <= Distance(h, t)
  PROVE  /\ Distance(h, t) - l \in Nat
         /\ Ring(b, h, t, l) \in Seq(Bytes)
         /\ Len(Ring(b, h, t, l)) = Distance(h, t) - l
         /\ \A k \in 1 .. Distance(h, t) - l :
              /\ l + k - 1 \in 0 .. Distance(h, t) - 1
              /\ l + k - 1 \in 0 .. PIPE_BUF_SIZE - 1
              /\ Ring(b, h, t, l)[k] = b[At(t, l + k - 1)]
<1> DEFINE n == Distance(h, t) - l
<1>1. Distance(h, t) \in 0 .. PIPE_BUF_SIZE - 1
  BY DistanceFacts
<1>2. n \in Nat
  BY <1>1, PipeAssumption
<1>3. \A k \in 1 .. n : l + k - 1 \in 0 .. Distance(h, t) - 1 /\ l + k - 1 \in 0 .. PIPE_BUF_SIZE - 1
  BY <1>1, PipeAssumption
<1>4. \A k \in 1 .. n : b[At(t, l + k - 1)] \in Bytes
  BY <1>3, AtFacts
<1> HIDE DEF n
<1>5. Ring(b, h, t, l) = [k \in 1 .. n |-> b[At(t, l + k - 1)]]
  BY DEF Ring, n
<1>6. Ring(b, h, t, l) \in Seq(Bytes) /\ Len(Ring(b, h, t, l)) = n
  BY <1>2, <1>4, <1>5
<1>7. QED
  BY <1>2, <1>3, <1>5, <1>6 DEF n

\* Writing behind the last byte changes none that waits.
LEMMA RingStore ==
  ASSUME NEW b \in [Pos -> Bytes], NEW h \in Pos, NEW t \in Pos, NEW l \in {0, 1},
         l <= Distance(h, t), NEW x \in Bytes
  PROVE  Ring([b EXCEPT ![h] = x], h, t, l) = Ring(b, h, t, l)
<1>1. \A k \in 1 .. Distance(h, t) - l :
        At(t, l + k - 1) \in Pos /\ At(t, l + k - 1) # h
  BY RingFacts, AtFacts, HeadIsBehind
<1>2. QED
  BY <1>1 DEF Ring

\* Moving the head on appends the byte that stood there.
LEMMA RingPut ==
  ASSUME NEW b \in [Pos -> Bytes], NEW h \in Pos, NEW t \in Pos, NEW l \in {0, 1},
         l <= Distance(h, t), Succ(h) # t
  PROVE  Ring(b, Succ(h), t, l) = Append(Ring(b, h, t, l), b[h])
<1> DEFINE n == Distance(h, t) - l
           q == Ring(b, h, t, l)
           r == Ring(b, Succ(h), t, l)
<1>1. Succ(h) \in Pos /\ Distance(Succ(h), t) = Distance(h, t) + 1
  BY SuccFacts, DistanceSteps
<1>2. Distance(h, t) \in Nat /\ n \in Nat /\ Distance(Succ(h), t) - l = n + 1
  BY <1>1, DistanceFacts, RingFacts
<1>3. l <= Distance(Succ(h), t)
  BY <1>1, <1>2
<1>4. /\ q \in Seq(Bytes) /\ Len(q) = n
      /\ \A k \in 1 .. n : q[k] = b[At(t, l + k - 1)]
  BY RingFacts
<1>5. /\ r \in Seq(Bytes) /\ Len(r) = n + 1
      /\ \A k \in 1 .. n + 1 : r[k] = b[At(t, l + k - 1)]
  BY <1>1, <1>2, <1>3, RingFacts
<1>6. l + (n + 1) - 1 = Distance(h, t) /\ At(t, Distance(h, t)) = h
  BY <1>2, HeadIsBehind
<1> HIDE DEF q, r, n
<1>7. r[n + 1] = b[h]
  BY <1>2, <1>5, <1>6
<1>8. b[h] \in Bytes
  OBVIOUS
<1>9. /\ Append(q, b[h]) \in Seq(Bytes) /\ Len(Append(q, b[h])) = n + 1
      /\ \A k \in 1 .. n + 1 : Append(q, b[h])[k] = r[k]
  BY <1>2, <1>4, <1>5, <1>7, <1>8
<1>10. r = Append(q, b[h])
  BY <1>2, <1>5, <1>9, SeqEqual
<1>11. QED
  BY <1>10 DEF q, r

\* Loading takes the first byte, releasing it changes nothing any more.
LEMMA RingGet ==
  ASSUME NEW b \in [Pos -> Bytes], NEW h \in Pos, NEW t \in Pos, h # t
  PROVE  /\ Ring(b, h, t, 0) # <<>>
         /\ Head(Ring(b, h, t, 0)) = b[t]
         /\ Tail(Ring(b, h, t, 0)) = Ring(b, h, t, 1)
<1> DEFINE d == Distance(h, t)
           q == Ring(b, h, t, 0)
           r == Ring(b, h, t, 1)
<1>1. d \in Nat /\ d > 0
  BY DistanceFacts, DistanceSteps
<1>2. /\ q \in Seq(Bytes) /\ Len(q) = d
      /\ \A k \in 1 .. d : q[k] = b[At(t, k - 1)]
  <2>1. 0 <= Distance(h, t) /\ 0 \in {0, 1}
    BY <1>1
  <2>2. /\ q \in Seq(Bytes) /\ Len(q) = d - 0
        /\ \A k \in 1 .. d - 0 : q[k] = b[At(t, 0 + k - 1)]
    BY <2>1, RingFacts
  <2> HIDE DEF q, d
  <2>3. d - 0 = d /\ \A k \in 1 .. d : 0 + k - 1 = k - 1
    BY <1>1
  <2>4. QED
    BY <2>2, <2>3
<1>3. /\ r \in Seq(Bytes) /\ Len(r) = d - 1
      /\ \A k \in 1 .. d - 1 : r[k] = b[At(t, k)]
  <2>1. 1 <= Distance(h, t) /\ 1 \in {0, 1}
    BY <1>1
  <2>2. /\ r \in Seq(Bytes) /\ Len(r) = d - 1
        /\ \A k \in 1 .. d - 1 : r[k] = b[At(t, 1 + k - 1)]
    BY <2>1, RingFacts
  <2> HIDE DEF r, d
  <2>3. \A k \in 1 .. d - 1 : 1 + k - 1 = k
    BY <1>1
  <2>4. QED
    BY <2>2, <2>3
<1>4. At(t, 0) = t
  BY AtFacts, PipeAssumption DEF Pos
<1> HIDE DEF q, r, d
<1>5. q # <<>> /\ Head(q) = b[t]
  BY <1>1, <1>2, <1>4
<1>6. /\ Tail(q) \in Seq(Bytes) /\ Len(Tail(q)) = d - 1
      /\ \A k \in 1 .. d - 1 : Tail(q)[k] = q[k + 1]
  BY <1>1, <1>2
<1>7. \A k \in 1 .. d - 1 : Tail(q)[k] = r[k]
  <2>1. SUFFICES ASSUME NEW k \in 1 .. d - 1 PROVE Tail(q)[k] = r[k]
    OBVIOUS
  <2>2. k + 1 \in 1 .. d /\ k + 1 - 1 = k
    BY <1>1
  <2>3. Tail(q)[k] = q[k + 1] /\ q[k + 1] = b[At(t, k + 1 - 1)]
    BY <1>2, <1>6, <2>2
  <2>4. r[k] = b[At(t, k)]
    BY <1>3
  <2>5. QED
    BY <2>2, <2>3, <2>4
<1>8. Tail(q) = r
  BY <1>1, <1>3, <1>6, <1>7, SeqEqual
<1>9. QED
  BY <1>5, <1>8 DEF q, r

LEMMA RingRelease ==
  ASSUME NEW b \in [Pos -> Bytes], NEW h \in Pos, NEW t \in Pos, h # t
  PROVE  Ring(b, h, Succ(t), 0) = Ring(b, h, t, 1)
<1>1. /\ Distance(h, t) \in 1 .. PIPE_BUF_SIZE - 1
      /\ Distance(h, Succ(t)) - 0 = Distance(h, t) - 1
  BY DistanceFacts, DistanceSteps, SuccFacts
<1>2. \A k \in 1 .. Distance(h, t) - 1 : At(Succ(t), 0 + k - 1) = At(t, 1 + k - 1)
  <2>1. \A k \in 1 .. Distance(h, t) - 1 :
          /\ k - 1 \in 0 .. PIPE_BUF_SIZE - 2
          /\ 0 + k - 1 = k - 1 /\ 1 + k - 1 = k - 1 + 1
    BY <1>1, PipeAssumption
  <2>2. QED
    BY <2>1, AtSucc
<1>3. QED
  BY <1>1, <1>2 DEF Ring

-----------------------------------------------------------------------------
(***************************************************************************)
(* The pipe implements the queue.                                          *)
(***************************************************************************)
LEMMA PendingIsRing ==
  /\ Pending = Ring(buf, head, tail, Loaded)
  /\ Pending' = Ring(buf', head', tail', Loaded')
BY DEF Pending, Waiting, Ring, Distance, At

\* A step that leaves buffer, indices and Loaded alone leaves the queue alone.
LEMMA PendingKept ==
  ASSUME UNCHANGED <<buf, head, tail, Loaded>>
  PROVE  Pending' = Pending
BY PendingIsRing

\* What is loaded still counts among the bytes in the buffer.
LEMMA LoadedFacts ==
  ASSUME PipeInv
  PROVE  /\ head \in Pos /\ tail \in Pos /\ buf \in [Pos -> Bytes]
         /\ Loaded \in {0, 1}
         /\ Loaded <= Distance(head, tail)
<1>1. head \in Pos /\ tail \in Pos /\ buf \in [Pos -> Bytes]
  BY DEF PipeInv, PipeTypeOK
<1>2. Loaded = 1 => head # tail
  BY DEF PipeInv, Loaded
<1>3. Distance(head, tail) \in Nat /\ (head # tail => Distance(head, tail) > 0)
  BY <1>1, DistanceFacts, DistanceSteps
<1>4. Loaded \in {0, 1}
  BY DEF Loaded
<1>5. QED
  BY <1>1, <1>2, <1>3, <1>4

LEMMA InitRefines == PipeInit => Queue!Init
<1> SUFFICES ASSUME PipeInit PROVE Queue!Init
  OBVIOUS
<1>1. 0 \in Pos /\ Distance(0, 0) = 0
  BY DistanceFacts, PipeAssumption DEF Pos
<1>2. Loaded = 0
  BY DEF PipeInit, Loaded
<1>3. Pending = <<>>
  BY <1>1, <1>2, PendingIsRing DEF PipeInit, Ring
<1>4. QED
  BY <1>3 DEF PipeInit, Queue!Init

LEMMA NextRefines ==
  ASSUME ~EarlyClose
  PROVE  PipeInv /\ [PipeNext]_pipeVars => [Queue!Next]_<<used, Pending, got>>
<1> SUFFICES ASSUME PipeInv, [PipeNext]_pipeVars PROVE Queue!Next \/ UNCHANGED <<used, Pending, got>>
  OBVIOUS
<1>0. /\ head \in Pos /\ tail \in Pos /\ buf \in [Pos -> Bytes]
      /\ Loaded \in {0, 1} /\ Loaded <= Distance(head, tail)
  BY LoadedFacts
<1>1. CASE UNCHANGED pipeVars
  BY <1>1, PendingKept DEF pipeVars, Loaded
<1>2. CASE Create
  <2>1. 0 \in Pos /\ Distance(0, 0) = 0
    BY DistanceFacts, PipeAssumption DEF Pos
  <2>2. Loaded' = 0
    BY <1>2 DEF Create, reader, PipeInv, Loaded
  <2>3. Pending' = <<>>
    BY <1>2, <2>1, <2>2, PendingIsRing DEF Create, Ring
  <2>4. QED
    BY <1>2, <2>3 DEF Create, Queue!Next, Queue!Open
<1>3. ASSUME NEW e \in {"w", "r"}, Close(e) PROVE Queue!Next
  <2>1. Pending' = Pending
    BY <1>3, PendingKept DEF Close, reader, Loaded
  <2>2. used
    BY <1>3 DEF Close, PipeInv
  <2>3. QED
    BY <1>3, <2>1, <2>2 DEF Close, Queue!Next, Queue!Shut
<1>4. ASSUME NEW len \in 0 .. MaxLen, WriteCall(len) PROVE UNCHANGED <<used, Pending, got>>
  BY <1>4, PendingKept DEF WriteCall, reader, Loaded
<1>5. CASE WriteTest
  BY <1>5, PendingKept DEF WriteTest, reader, Loaded
<1>6. CASE WriteStore
  <2>1. PICK b \in Bytes : buf' = [buf EXCEPT ![head] = b]
    BY <1>6 DEF WriteStore
  <2>2. UNCHANGED <<head, tail, Loaded>>
    BY <1>6 DEF WriteStore, reader, Loaded
  <2>3. Ring([buf EXCEPT ![head] = b], head, tail, Loaded) = Ring(buf, head, tail, Loaded)
    BY <1>0, RingStore
  <2>4. Pending' = Pending
    BY <2>1, <2>2, <2>3, PendingIsRing
  <2>5. QED
    BY <1>6, <2>4 DEF WriteStore
<1>7. CASE WritePublish
  <2>1. Succ(head) # tail /\ used /\ buf[head] \in Bytes
    BY <1>0, <1>7 DEF WritePublish, PipeInv
  <2>2. Ring(buf, Succ(head), tail, Loaded) = Append(Ring(buf, head, tail, Loaded), buf[head])
    BY <1>0, <2>1, RingPut
  <2>3. UNCHANGED <<buf, tail, Loaded>> /\ head' = Succ(head)
    BY <1>7 DEF WritePublish, reader, Loaded
  <2>4. Pending' = Append(Pending, buf[head])
    BY <2>2, <2>3, PendingIsRing
  <2>5. Len(Pending) < PIPE_BUF_SIZE - 1
    <3>1. Len(Ring(buf, head, tail, Loaded)) = Distance(head, tail) - Loaded
      BY <1>0, RingFacts
    <3>2. Distance(head, tail) \in Nat /\ Distance(head, tail) < PIPE_BUF_SIZE - 1
      BY <1>0, <2>1, DistanceFacts, DistanceSteps
    <3>3. QED
      BY <1>0, <3>1, <3>2, PendingIsRing, PipeAssumption
  <2>6. Queue!Put(buf[head])
    BY <1>7, <2>1, <2>4, <2>5 DEF WritePublish, reader, Queue!Put
  <2>7. QED
    BY <2>1, <2>6 DEF Queue!Next
<1>8. ASSUME NEW maxlen \in 0 .. MaxLen, ReadCall(maxlen) PROVE UNCHANGED <<used, Pending, got>>
  BY <1>8, PendingKept DEF ReadCall, writer, Loaded
<1>9. CASE ReadTest
  BY <1>9, PendingKept DEF ReadTest, writer, Loaded
<1>10. CASE ReadLoad
  <2>1. head # tail /\ used
    BY <1>10 DEF ReadLoad, PipeInv
  <2>2. Loaded = 0 /\ Loaded' = 1
    BY <1>10 DEF ReadLoad, Loaded
  <2>3. /\ Ring(buf, head, tail, 0) # <<>>
        /\ Head(Ring(buf, head, tail, 0)) = buf[tail]
        /\ Tail(Ring(buf, head, tail, 0)) = Ring(buf, head, tail, 1)
    BY <1>0, <2>1, RingGet
  <2>4. Pending # <<>> /\ Head(Pending) = buf[tail] /\ Pending' = Tail(Pending)
    BY <1>10, <2>2, <2>3, PendingIsRing DEF ReadLoad
  <2>5. QED
    BY <1>10, <2>1, <2>4 DEF ReadLoad, Queue!Next, Queue!Get
<1>11. CASE ReadRelease
  <2>1. head # tail
    BY <1>11 DEF ReadRelease, PipeInv
  <2>2. Loaded = 1 /\ Loaded' = 0
    BY <1>11 DEF ReadRelease, Loaded
  <2>3. Ring(buf, head, Succ(tail), 0) = Ring(buf, head, tail, 1)
    BY <1>0, <2>1, RingRelease
  <2>4. Pending' = Pending
    BY <1>11, <2>2, <2>3, PendingIsRing DEF ReadRelease
  <2>5. QED
    BY <1>11, <2>4 DEF ReadRelease
<1>12. QED
  BY <1>1, <1>2, <1>3, <1>4, <1>5, <1>6, <1>7, <1>8, <1>9, <1>10, <1>11 DEF PipeNext

\* Whatever the interleaving of the byte steps of the two loops, the pipe is a
\* bounded queue: order kept, nothing lost, nothing twice.
THEOREM PipeImplementsFifo == ASSUME ~EarlyClose PROVE PipeSpec => FifoSpec
<1>1. PipeInit => Queue!Init
  BY InitRefines
<1>2. PipeInv /\ [PipeNext]_pipeVars => [Queue!Next]_<<used, Pending, got>>
  BY NextRefines
<1>3. QED
  BY <1>1, <1>2, PipeSpecInv, PTL DEF PipeSpec, FifoSpec, Queue!Spec
-----------------------------------------------------------------------------
(* The heap. *)
HeapInv == HeapTypeOK /\ BlocksApart /\ NoFreeNeighbours

\* A table of n blocks in order, as BlocksApart says it of the current one.
Table(bs, n) ==
  /\ n \in 1 .. MAX_BLOCKS
  /\ bs \in [0 .. n - 1 -> Block]
  /\ \A i \in 0 .. n - 1 : /\ HEAP_START <= bs[i].ptr
                           /\ bs[i].ptr + bs[i].size <= HEAP_START + HEAP_SIZE
  /\ \A i, j \in 0 .. n - 1 : i < j => bs[i].ptr + bs[i].size <= bs[j].ptr

\* No two free neighbours in it, but for the blocks of S and those after them.
Lone(bs, n, S) ==
  \A i \in 0 .. n - 1 : i + 1 \in 0 .. n - 1 /\ i \notin S => bs[i].used \/ bs[i + 1].used

LEMMA TableIsInv ==
  HeapInv <=> Table(blocks, count) /\ Lone(blocks, count, {})
BY HeapAssumption DEF HeapInv, HeapTypeOK, BlocksApart, NoFreeNeighbours, Table, Lone, Index

\* What a joined table holds.
LEMMA JoinedFacts ==
  ASSUME NEW bs, NEW n, Table(bs, n), NEW i \in 1 .. n - 1, NEW k \in 0 .. n - 2
  PROVE  /\ Joined(bs, n, i)[k] \in Block
         /\ k < i - 1 => Joined(bs, n, i)[k] = bs[k]
         /\ k = i - 1 => Joined(bs, n, i)[k] = [ptr |-> bs[k].ptr,
                            size |-> bs[k].size + bs[i].size, used |-> bs[k].used]
         /\ k >= i => Joined(bs, n, i)[k] = bs[k + 1]
<1>1. n \in Nat /\ i \in 0 .. n - 1 /\ k \in 0 .. n - 1 /\ k + 1 \in 0 .. n - 1
  BY DEF Table
<1>2. bs[k] \in Block /\ bs[i] \in Block /\ bs[k + 1] \in Block
  BY <1>1 DEF Table
<1>3. [bs[k] EXCEPT !.size = @ + bs[i].size]
        = [ptr |-> bs[k].ptr, size |-> bs[k].size + bs[i].size, used |-> bs[k].used]
  BY <1>2 DEF Block
<1>4. [ptr |-> bs[k].ptr, size |-> bs[k].size + bs[i].size, used |-> bs[k].used] \in Block
  BY <1>2 DEF Block
<1>5. QED
  BY <1>1, <1>2, <1>3, <1>4 DEF Joined

\* Joining two neighbours keeps the order of the table: the joined block ends
\* no later than the second of the two did.
LEMMA JoinedTable ==
  ASSUME NEW bs, NEW n, Table(bs, n), NEW i \in 1 .. n - 1
  PROVE  Table(Joined(bs, n, i), n - 1)
<1> DEFINE js == Joined(bs, n, i)
           first(k) == IF k < i THEN k ELSE k + 1
           last(k) == IF k < i - 1 THEN k ELSE k + 1
<1>1. n \in 1 .. MAX_BLOCKS /\ n - 1 \in 1 .. MAX_BLOCKS /\ n \in Nat /\ n - 1 - 1 = n - 2
  BY HeapAssumption DEF Table
<1>2. js \in [0 .. n - 2 -> Block]
  BY JoinedFacts DEF Joined
<1>3. ASSUME NEW k \in 0 .. n - 2
      PROVE  /\ first(k) \in 0 .. n - 1 /\ last(k) \in 0 .. n - 1
             /\ js[k].ptr = bs[first(k)].ptr
             /\ js[k].ptr + js[k].size <= bs[last(k)].ptr + bs[last(k)].size
  <2>0. /\ k < i - 1 => js[k] = bs[k]
        /\ k = i - 1 => js[k] = [ptr |-> bs[k].ptr,
                            size |-> bs[k].size + bs[i].size, used |-> bs[k].used]
        /\ k >= i => js[k] = bs[k + 1]
    <3>1. /\ k < i - 1 => Joined(bs, n, i)[k] = bs[k]
          /\ k = i - 1 => Joined(bs, n, i)[k] = [ptr |-> bs[k].ptr,
                              size |-> bs[k].size + bs[i].size, used |-> bs[k].used]
          /\ k >= i => Joined(bs, n, i)[k] = bs[k + 1]
      BY JoinedFacts
    <3> QED
      BY <3>1 DEF js
  <2>1. \A m \in 0 .. n - 1 : bs[m].ptr \in Nat /\ bs[m].size \in Nat
    BY DEF Table, Block
  <2>2. bs[i - 1].ptr + bs[i - 1].size <= bs[i].ptr
    BY <1>1 DEF Table
  <2> HIDE DEF js
  <2>3. CASE k < i - 1
    <3>1. js[k] = bs[k]
      BY <2>3, <2>0
    <3>2. QED
      BY <1>1, <2>1, <2>3, <3>1
  <2>4. CASE k = i - 1
    <3>1. js[k].ptr = bs[k].ptr /\ js[k].size = bs[k].size + bs[i].size
      BY <2>4, <2>0
    <3>2. QED
      BY <1>1, <2>1, <2>2, <2>4, <3>1
  <2>5. CASE k >= i
    <3>1. js[k] = bs[k + 1]
      BY <2>5, <2>0
    <3>2. QED
      BY <1>1, <2>1, <2>5, <3>1
  <2>6. QED
    BY <1>1, <2>3, <2>4, <2>5
<1>4. ASSUME NEW k \in 0 .. n - 2
      PROVE  /\ HEAP_START <= js[k].ptr
             /\ js[k].ptr + js[k].size <= HEAP_START + HEAP_SIZE
  <2>1. js[k].ptr \in Nat /\ js[k].size \in Nat
    BY <1>2 DEF Block
  <2>2. bs[last(k)].ptr \in Nat /\ bs[last(k)].size \in Nat
    BY <1>3 DEF Table, Block
  <2>3. /\ HEAP_START <= bs[first(k)].ptr
        /\ bs[last(k)].ptr + bs[last(k)].size <= HEAP_START + HEAP_SIZE
    BY <1>3 DEF Table
  <2> HIDE DEF js, first, last
  <2>4. QED
    BY <1>3, <2>1, <2>2, <2>3, HeapAssumption
<1>5. ASSUME NEW k \in 0 .. n - 2, NEW l \in 0 .. n - 2, k < l
      PROVE  js[k].ptr + js[k].size <= js[l].ptr
  <2>1. last(k) < first(l) /\ last(k) \in 0 .. n - 1 /\ first(l) \in 0 .. n - 1
    BY <1>1, <1>3, <1>5
  <2> HIDE DEF first, last
  <2>2. bs[last(k)].ptr + bs[last(k)].size <= bs[first(l)].ptr
    BY <2>1 DEF Table
  <2>3. /\ js[k].ptr + js[k].size <= bs[last(k)].ptr + bs[last(k)].size
        /\ js[l].ptr = bs[first(l)].ptr
    BY <1>3
  <2>4. /\ js[k].ptr \in Nat /\ js[k].size \in Nat /\ js[l].ptr \in Nat
        /\ bs[last(k)].ptr \in Nat /\ bs[last(k)].size \in Nat
    BY <1>2, <2>1 DEF Table, Block
  <2> HIDE DEF js
  <2>5. QED
    BY <2>2, <2>3, <2>4
<1> HIDE DEF js, first, last
<1>6. QED
  BY <1>1, <1>2, <1>4, <1>5 DEF Table, js

\* It brings no free neighbours together but those of the joined block.
LEMMA JoinedLone ==
  ASSUME NEW bs, NEW n, Table(bs, n), NEW i \in 1 .. n - 1, NEW S, Lone(bs, n, S),
         bs[i - 1].used = bs[i].used
  PROVE  Lone(Joined(bs, n, i), n - 1,
              {k \in 0 .. n - 2 : IF k < i - 1 THEN k \in S ELSE k + 1 \in S})
<1> DEFINE js == Joined(bs, n, i)
<1>1. n \in Nat
  BY DEF Table
<1>2. ASSUME NEW k \in 0 .. n - 2
      PROVE  /\ k < i => js[k].used = bs[k].used
             /\ k >= i - 1 => js[k].used = bs[k + 1].used
  <2>1. /\ k < i - 1 => js[k] = bs[k]
        /\ k = i - 1 => js[k] = [ptr |-> bs[k].ptr,
                            size |-> bs[k].size + bs[i].size, used |-> bs[k].used]
        /\ k >= i => js[k] = bs[k + 1]
    BY JoinedFacts DEF js
  <2> HIDE DEF js
  <2>2. QED
    BY <1>1, <2>1
<1> HIDE DEF js
<1>3. ASSUME NEW k \in 0 .. n - 1 - 1, k + 1 \in 0 .. n - 1 - 1,
             IF k < i - 1 THEN k \notin S ELSE k + 1 \notin S
      PROVE  js[k].used \/ js[k + 1].used
  <2>1. k \in 0 .. n - 2 /\ k + 1 \in 0 .. n - 2 /\ k + 1 + 1 \in 0 .. n - 1
    BY <1>1, <1>3
  <2>2. CASE k < i - 1
    BY <1>1, <1>2, <1>3, <2>1, <2>2 DEF Lone
  <2>3. CASE k >= i - 1
    <3>1. bs[k + 1].used \/ bs[k + 1 + 1].used
      BY <1>1, <1>3, <2>1, <2>3 DEF Lone
    <3>2. QED
      BY <1>1, <1>2, <2>1, <2>3, <3>1
  <2>4. QED
    BY <1>1, <2>2, <2>3
<1>4. QED
  BY <1>1, <1>3 DEF Lone, js

\* The regions of a table that callers hold.
HeldOf(bs, n) ==
  {[ptr |-> bs[k].ptr, size |-> bs[k].size] : k \in {l \in 0 .. n - 1 : bs[l].used}}

\* Joining two free blocks concerns no caller.
LEMMA JoinedHeld ==
  ASSUME NEW bs, NEW n, Table(bs, n), NEW i \in 1 .. n - 1,
         ~bs[i - 1].used, ~bs[i].used
  PROVE  HeldOf(Joined(bs, n, i), n - 1) = HeldOf(bs, n)
<1> DEFINE js == Joined(bs, n, i)
<1>1. n \in Nat
  BY DEF Table
<1>2. ASSUME NEW k \in 0 .. n - 2
      PROVE  /\ k < i - 1 => js[k] = bs[k]
             /\ k = i - 1 => ~js[k].used
             /\ k >= i => js[k] = bs[k + 1]
  <2>1. /\ k < i - 1 => js[k] = bs[k]
        /\ k = i - 1 => js[k] = [ptr |-> bs[k].ptr,
                            size |-> bs[k].size + bs[i].size, used |-> bs[k].used]
        /\ k >= i => js[k] = bs[k + 1]
    BY JoinedFacts DEF js
  <2> HIDE DEF js
  <2>2. QED
    BY <2>1
<1> HIDE DEF js
<1>3. ASSUME NEW r \in HeldOf(js, n - 1) PROVE r \in HeldOf(bs, n)
  <2>1. PICK k \in 0 .. n - 2 : js[k].used /\ r = [ptr |-> js[k].ptr, size |-> js[k].size]
    BY <1>1, <1>3 DEF HeldOf
  <2>2. CASE k < i - 1
    BY <1>1, <1>2, <2>1, <2>2 DEF HeldOf
  <2>3. CASE k >= i
    <3>1. k + 1 \in 0 .. n - 1 /\ js[k] = bs[k + 1]
      BY <1>1, <1>2, <2>3
    <3>2. QED
      BY <2>1, <3>1 DEF HeldOf
  <2>4. QED
    BY <1>1, <1>2, <2>1, <2>2, <2>3
<1>4. ASSUME NEW r \in HeldOf(bs, n) PROVE r \in HeldOf(js, n - 1)
  <2>1. PICK k \in 0 .. n - 1 : bs[k].used /\ r = [ptr |-> bs[k].ptr, size |-> bs[k].size]
    BY <1>4 DEF HeldOf
  <2>2. CASE k < i - 1
    BY <1>1, <1>2, <2>1, <2>2 DEF HeldOf
  <2>3. CASE k > i
    <3>1. k - 1 \in 0 .. n - 2 /\ k - 1 \in 0 .. n - 1 - 1 /\ js[k - 1] = bs[k]
      BY <1>1, <1>2, <2>3
    <3>2. QED
      BY <2>1, <3>1 DEF HeldOf
  <2>4. QED
    BY <1>1, <2>1, <2>2, <2>3
<1>5. QED
  BY <1>3, <1>4 DEF js

-----------------------------------------------------------------------------
\* The second half of kfree leaves a table without free neighbours.
LEMMA JoinAfterFacts ==
  ASSUME NEW bs, NEW n, Table(bs, n), NEW x \in 0 .. n - 1, Lone(bs, n, {x}),
         ~bs[x].used, JoinAfter(bs, n, x)
  PROVE  /\ Table(blocks', count') /\ Lone(blocks', count', {})
         /\ HeldOf(blocks', count') = HeldOf(bs, n)
<1>1. n \in Nat
  BY DEF Table
<1>2. CASE FreeAfter(bs, n, x)
  <2>1. x + 1 \in 1 .. n - 1 /\ ~bs[x + 1].used /\ x + 1 - 1 = x
    BY <1>1, <1>2 DEF FreeAfter
  <2>2. blocks' = Joined(bs, n, x + 1) /\ count' = n - 1
    BY <1>2 DEF JoinAfter
  <2>3. Table(blocks', count') /\ HeldOf(blocks', count') = HeldOf(bs, n)
    BY <2>1, <2>2, JoinedTable, JoinedHeld
  <2>4. Lone(blocks', count',
             {k \in 0 .. n - 2 : IF k < x + 1 - 1 THEN k \in {x} ELSE k + 1 \in {x}})
    <3>1. bs[x + 1 - 1].used = bs[x + 1].used
      <4>1. bs[x].used \in BOOLEAN /\ bs[x + 1].used \in BOOLEAN
        BY <1>1, <2>1 DEF Table, Block
      <4>2. QED
        BY <2>1, <4>1
    <3>2. QED
      BY <2>1, <2>2, <3>1, JoinedLone
  <2>5. {k \in 0 .. n - 2 : IF k < x + 1 - 1 THEN k \in {x} ELSE k + 1 \in {x}} = {}
    BY <1>1
  <2>6. QED
    BY <2>3, <2>4, <2>5
<1>3. CASE ~FreeAfter(bs, n, x)
  <2>1. blocks' = bs /\ count' = n
    BY <1>3 DEF JoinAfter
  <2>2. Lone(bs, n, {})
    BY <1>1, <1>3 DEF Lone, FreeAfter
  <2>3. QED
    BY <2>1, <2>2
<1>4. QED
  BY <1>2, <1>3

\* Two blocks of a table are different regions.
LEMMA DistinctRegions ==
  ASSUME NEW bs, NEW n, Table(bs, n), NEW i \in 0 .. n - 1, NEW j \in 0 .. n - 1, i # j
  PROVE  bs[i].ptr # bs[j].ptr
<1>1. bs[i] \in Block /\ bs[j] \in Block
  BY DEF Table
<1>2. i < j \/ j < i
  BY DEF Table
<1>3. QED
  BY <1>1, <1>2 DEF Table, Block

\* kfree keeps the invariant and takes one region from the held ones.
LEMMA KfreeFacts ==
  ASSUME HeapInv, NEW ptr \in Address, Kfree(ptr)
  PROVE  /\ HeapInv'
         /\ \E r \in HeldOf(blocks, count) :
              HeldOf(blocks', count') = HeldOf(blocks, count) \ {r}
<1>1. PICK i \in Index :
        /\ blocks[i].ptr = ptr /\ blocks[i].used
        /\ IF FreeBefore([blocks EXCEPT ![i].used = FALSE], i)
             THEN JoinAfter(Joined([blocks EXCEPT ![i].used = FALSE], count, i), count - 1, i - 1)
             ELSE JoinAfter([blocks EXCEPT ![i].used = FALSE], count, i)
  BY DEF Kfree
<1> DEFINE freed == [blocks EXCEPT ![i].used = FALSE]
           region == [ptr |-> blocks[i].ptr, size |-> blocks[i].size]
<1>2. Table(blocks, count) /\ Lone(blocks, count, {}) /\ count \in Nat
  BY TableIsInv DEF Table
<1>3. /\ freed \in [0 .. count - 1 -> Block]
      /\ ~freed[i].used
      /\ \A k \in 0 .. count - 1 : /\ freed[k].ptr = blocks[k].ptr
                                   /\ freed[k].size = blocks[k].size
                                   /\ k # i => freed[k].used = blocks[k].used
  BY <1>2 DEF Table, Block, Index
<1> HIDE DEF freed
<1>4. Table(freed, count) /\ Lone(freed, count, {i - 1, i})
  BY <1>2, <1>3 DEF Table, Lone, Index
<1>5. region \in HeldOf(blocks, count) /\ HeldOf(freed, count) = HeldOf(blocks, count) \ {region}
  <2>1. region \in HeldOf(blocks, count)
    BY <1>1 DEF HeldOf, Index
  <2>2. ASSUME NEW r \in HeldOf(freed, count)
        PROVE  r \in HeldOf(blocks, count) /\ r # region
    <3>1. PICK k \in 0 .. count - 1 :
            freed[k].used /\ r = [ptr |-> freed[k].ptr, size |-> freed[k].size]
      BY <2>2 DEF HeldOf
    <3>2. k # i /\ blocks[k].used /\ r = [ptr |-> blocks[k].ptr, size |-> blocks[k].size]
      BY <1>3, <3>1
    <3>3. blocks[k].ptr # blocks[i].ptr
      BY <1>2, <3>2, DistinctRegions DEF Index
    <3>4. QED
      BY <3>2, <3>3 DEF HeldOf
  <2>3. ASSUME NEW r \in HeldOf(blocks, count), r # region
        PROVE  r \in HeldOf(freed, count)
    BY <1>3, <2>3 DEF HeldOf
  <2>4. QED
    BY <2>1, <2>2, <2>3
<1>6. /\ Table(blocks', count') /\ Lone(blocks', count', {})
      /\ HeldOf(blocks', count') = HeldOf(freed, count)
  <2>1. CASE FreeBefore(freed, i)
    <3> DEFINE js == Joined(freed, count, i)
    <3>1. i \in 1 .. count - 1 /\ ~freed[i - 1].used
      BY <1>2, <2>1 DEF FreeBefore, Index
    <3>2. JoinAfter(js, count - 1, i - 1)
      BY <1>1, <2>1 DEF freed, js
    <3>3. Table(js, count - 1) /\ HeldOf(js, count - 1) = HeldOf(freed, count)
      BY <1>3, <1>4, <3>1, JoinedTable, JoinedHeld DEF js
    <3>4. Lone(js, count - 1, {i - 1})
      <4>1. freed[i - 1].used = freed[i].used
        <5>1. freed[i - 1].used \in BOOLEAN /\ freed[i].used \in BOOLEAN
          BY <1>2, <1>3, <3>1 DEF Block, Index
        <5>2. QED
          BY <1>3, <3>1, <5>1
      <4> DEFINE S == {k \in 0 .. count - 2 : IF k < i - 1 THEN k \in {i - 1, i}
                                              ELSE k + 1 \in {i - 1, i}}
      <4>2. Lone(js, count - 1, S)
        BY <1>4, <3>1, <4>1, JoinedLone DEF js, S
      <4>3. S \subseteq {i - 1}
        BY <1>2, <3>1 DEF S
      <4> HIDE DEF S, js
      <4>4. QED
        BY <4>2, <4>3 DEF Lone
    <3>5. i - 1 \in 0 .. count - 1 - 1 /\ ~js[i - 1].used
      <4>1. js[i - 1] = [ptr |-> freed[i - 1].ptr,
                         size |-> freed[i - 1].size + freed[i].size,
                         used |-> freed[i - 1].used]
        <5>1. i - 1 \in 0 .. count - 2
          BY <1>2, <3>1
        <5>2. QED
          BY <1>4, <3>1, <5>1, JoinedFacts DEF js
      <4> HIDE DEF js
      <4>2. QED
        BY <1>2, <3>1, <4>1
    <3> HIDE DEF js
    <3>6. QED
      BY <3>2, <3>3, <3>4, <3>5, JoinAfterFacts
  <2>2. CASE ~FreeBefore(freed, i)
    <3>1. JoinAfter(freed, count, i)
      BY <1>1, <2>2 DEF freed
    <3>2. Lone(freed, count, {i})
      BY <1>2, <1>4, <2>2 DEF Lone, FreeBefore, Index
    <3>3. QED
      BY <1>3, <1>4, <3>1, <3>2, JoinAfterFacts DEF Index
  <2>3. QED
    BY <2>1, <2>2
<1>7. HeapInv'
  <2>1. HeapInv' <=> Table(blocks', count') /\ Lone(blocks', count', {})
    BY HeapAssumption DEF HeapInv, HeapTypeOK, BlocksApart, NoFreeNeighbours, Table, Lone, Index
  <2>2. QED
    BY <1>6, <2>1
<1>8. QED
  BY <1>5, <1>6, <1>7

-----------------------------------------------------------------------------
\* A request taken from block i: the block is cut, and the rest, if it makes
\* a block of its own, goes behind it.
LEMMA SplitFacts ==
  ASSUME HeapInv, NEW size \in Sizes \ {0}, NEW i \in Fits(size), count < MAX_BLOCKS,
         blocks[i].size > 2 * size, Split(i, size)
  PROVE  /\ HeapInv'
         /\ HeldOf(blocks', count')
              = HeldOf(blocks, count) \cup {[ptr |-> blocks[i].ptr, size |-> size]}
<1> USE HeapAssumption
<1>1. Table(blocks, count) /\ Lone(blocks, count, {}) /\ count \in Nat /\ size \in Nat \ {0}
  BY TableIsInv DEF Table
<1>2. i \in 0 .. count - 1 /\ ~blocks[i].used /\ blocks[i] \in Block
  BY <1>1 DEF Fits, Index, Table
<1>3. count' = count + 1
  BY DEF Split
<1>4. /\ blocks[i].ptr \in Nat /\ blocks[i].size \in Nat \ {0}
      /\ TakenBlock(i, size) = [ptr |-> blocks[i].ptr, size |-> size, used |-> TRUE]
      /\ Remainder(i, size) = [ptr |-> blocks[i].ptr + size, size |-> blocks[i].size - size,
                              used |-> FALSE]
  BY <1>2 DEF TakenBlock, Remainder, Block
<1>5. TakenBlock(i, size) \in Block /\ Remainder(i, size) \in Block
  BY <1>1, <1>4 DEF Block
<1>6. ASSUME NEW k \in 0 .. count
      PROVE  /\ k < i => k \in 0 .. count - 1 /\ blocks'[k] = blocks[k]
             /\ k = i => blocks'[k] = TakenBlock(i, size)
             /\ k = i + 1 => blocks'[k] = Remainder(i, size)
             /\ k > i + 1 => k - 1 \in 0 .. count - 1 /\ blocks'[k] = blocks[k - 1]
  BY <1>1, <1>2 DEF Split
<1>7. blocks' \in [0 .. count -> Block]
  <2>1. \A k \in 0 .. count : blocks'[k] \in Block
    BY <1>1, <1>2, <1>5, <1>6 DEF Table
  <2>2. QED
    BY <2>1 DEF Split
<1>8. \A k \in 0 .. count - 1 :
        /\ HEAP_START <= blocks[k].ptr
        /\ blocks[k].ptr \in Nat /\ blocks[k].size \in Nat \ {0}
        /\ blocks[k].ptr + blocks[k].size <= HEAP_START + HEAP_SIZE
        /\ k < i => blocks[k].ptr + blocks[k].size <= blocks[i].ptr
        /\ i < k => blocks[i].ptr + blocks[i].size <= blocks[k].ptr
  BY <1>1, <1>2 DEF Table, Block
<1>9. ASSUME NEW k \in 0 .. count
      PROVE  /\ HEAP_START <= blocks'[k].ptr
             /\ blocks'[k].ptr + blocks'[k].size <= HEAP_START + HEAP_SIZE
  BY <1>1, <1>2, <1>4, <1>6, <1>8
<1>10. ASSUME NEW k \in 0 .. count, NEW l \in 0 .. count, k < l
       PROVE  blocks'[k].ptr + blocks'[k].size <= blocks'[l].ptr
  <2>1. CASE l < i \/ k > i + 1
    BY <1>1, <1>2, <1>6, <1>10, <2>1 DEF Table
  <2>2. CASE k < i /\ l >= i
    <3>1. CASE l = i \/ l = i + 1
      BY <1>1, <1>2, <1>4, <1>6, <1>8, <2>2, <3>1
    <3>2. CASE l > i + 1
      <4>1. blocks'[k] = blocks[k] /\ blocks'[l] = blocks[l - 1]
        BY <1>1, <1>2, <1>6, <2>2, <3>2
      <4>2. k \in 0 .. count - 1 /\ l - 1 \in 0 .. count - 1 /\ k < l - 1
        BY <1>1, <1>2, <2>2, <3>2
      <4>3. QED
        BY <1>1, <4>1, <4>2 DEF Table
    <3>3. QED
      BY <1>2, <2>2, <3>1, <3>2
  <2>3. CASE k = i
    <3>1. blocks'[k].ptr = blocks[i].ptr /\ blocks'[k].size = size
      BY <1>4, <1>6, <2>3
    <3>2. CASE l = i + 1
      <4>1. blocks'[l].ptr = blocks[i].ptr + size
        BY <1>4, <1>6, <3>2
      <4>2. QED
        BY <1>1, <1>4, <3>1, <4>1
    <3>3. CASE l > i + 1
      <4>1. blocks'[l] = blocks[l - 1] /\ l - 1 \in 0 .. count - 1 /\ i < l - 1
        BY <1>2, <1>6, <3>3
      <4>2. blocks[i].ptr + blocks[i].size <= blocks'[l].ptr /\ blocks'[l].ptr \in Nat
        BY <1>8, <4>1
      <4>3. QED
        BY <1>1, <1>4, <3>1, <4>2
    <3>4. QED
      BY <1>2, <1>10, <2>3, <3>2, <3>3
  <2>4. CASE k = i + 1
    <3>1. /\ blocks'[k].ptr = blocks[i].ptr + size
          /\ blocks'[k].size = blocks[i].size - size
      BY <1>4, <1>6, <2>4
    <3>2. blocks'[l] = blocks[l - 1] /\ l - 1 \in 0 .. count - 1 /\ i < l - 1
      BY <1>2, <1>6, <1>10, <2>4
    <3>3. blocks[i].ptr + blocks[i].size <= blocks'[l].ptr /\ blocks'[l].ptr \in Nat
      BY <1>8, <3>2
    <3>4. QED
      BY <1>1, <1>4, <3>1, <3>3
  <2>5. QED
    BY <1>2, <1>10, <2>1, <2>2, <2>3, <2>4
<1>11. ASSUME NEW k \in 0 .. count, k + 1 \in 0 .. count
       PROVE  blocks'[k].used \/ blocks'[k + 1].used
  <2>1. CASE k + 1 < i
    BY <1>1, <1>2, <1>6, <1>11, <2>1 DEF Lone
  <2>2. CASE k = i \/ k + 1 = i
    BY <1>1, <1>2, <1>4, <1>6, <1>11, <2>2
  <2>3. CASE k = i + 1
    <3>1. i + 1 \in 0 .. count - 1 /\ blocks'[k + 1] = blocks[i + 1]
      BY <1>1, <1>2, <1>6, <1>11, <2>3
    <3>2. QED
      BY <1>1, <1>2, <3>1 DEF Lone
  <2>4. CASE k > i + 1
    <3>1. /\ k - 1 \in 0 .. count - 1 /\ k - 1 + 1 \in 0 .. count - 1 /\ k - 1 + 1 = k
          /\ blocks'[k] = blocks[k - 1] /\ blocks'[k + 1] = blocks[k]
      BY <1>1, <1>2, <1>6, <1>11, <2>4
    <3>2. QED
      BY <1>1, <3>1 DEF Lone
  <2>5. QED
    BY <1>2, <1>11, <2>1, <2>2, <2>3, <2>4
<1>12. HeapInv'
  <2>1. count' - 1 = count /\ count' \in 1 .. MAX_BLOCKS
    BY <1>1, <1>3
  <2>2. HeapTypeOK'
    BY <1>7, <2>1 DEF HeapTypeOK, Index
  <2>3. BlocksApart' /\ NoFreeNeighbours'
    BY <1>9, <1>10, <1>11, <2>1 DEF BlocksApart, NoFreeNeighbours, Index
  <2>4. QED
    BY <2>2, <2>3 DEF HeapInv
<1> DEFINE new == [ptr |-> blocks[i].ptr, size |-> size]
<1>13. ASSUME NEW r \in HeldOf(blocks', count') PROVE r \in HeldOf(blocks, count) \cup {new}
  <2>1. PICK k \in 0 .. count :
          blocks'[k].used /\ r = [ptr |-> blocks'[k].ptr, size |-> blocks'[k].size]
    BY <1>1, <1>3, <1>13 DEF HeldOf
  <2>2. CASE k < i
    BY <1>6, <2>1, <2>2 DEF HeldOf
  <2>3. CASE k = i \/ k = i + 1
    BY <1>4, <1>6, <2>1, <2>3
  <2>4. CASE k > i + 1
    BY <1>6, <2>1, <2>4 DEF HeldOf
  <2>5. QED
    BY <1>2, <2>2, <2>3, <2>4
<1>14. ASSUME NEW r \in HeldOf(blocks, count) PROVE r \in HeldOf(blocks', count')
  <2>1. PICK k \in 0 .. count - 1 :
          blocks[k].used /\ r = [ptr |-> blocks[k].ptr, size |-> blocks[k].size]
    BY <1>14 DEF HeldOf
  <2>2. CASE k < i
    BY <1>1, <1>3, <1>6, <2>1, <2>2 DEF HeldOf
  <2>3. CASE k > i
    <3>1. k + 1 \in 0 .. count' - 1 /\ blocks'[k + 1] = blocks[k]
      BY <1>1, <1>2, <1>3, <1>6, <2>3
    <3>2. QED
      BY <2>1, <3>1 DEF HeldOf
  <2>4. QED
    BY <1>2, <2>1, <2>2, <2>3
<1>15. new \in HeldOf(blocks', count')
  <2>1. i \in 0 .. count' - 1 /\ blocks'[i] = TakenBlock(i, size)
    BY <1>1, <1>2, <1>3, <1>6
  <2>2. QED
    BY <1>4, <2>1 DEF HeldOf
<1>16. QED
  BY <1>12, <1>13, <1>14, <1>15

LEMMA ShrinkFacts ==
  ASSUME HeapInv, NEW size \in Sizes \ {0}, NEW i \in Fits(size), Shrink(i, size)
  PROVE  /\ HeapInv'
         /\ HeldOf(blocks', count')
              = HeldOf(blocks, count) \cup {[ptr |-> blocks[i].ptr, size |-> size]}
<1> USE HeapAssumption
<1>1. Table(blocks, count) /\ Lone(blocks, count, {}) /\ count \in Nat /\ size \in Nat \ {0}
  BY TableIsInv DEF Table
<1>2. /\ i \in 0 .. count - 1 /\ ~blocks[i].used
      /\ blocks[i] \in Block /\ blocks[i].size >= size
  BY <1>1 DEF Fits, Index, Table
<1>3. /\ blocks[i].ptr \in Nat /\ blocks[i].size \in Nat \ {0}
      /\ TakenBlock(i, size) = [ptr |-> blocks[i].ptr, size |-> size, used |-> TRUE]
      /\ TakenBlock(i, size) \in Block
  BY <1>1, <1>2 DEF TakenBlock, Block
<1>4. /\ count' = count
      /\ blocks' \in [0 .. count - 1 -> Block]
      /\ blocks'[i] = TakenBlock(i, size)
      /\ \A k \in 0 .. count - 1 : k # i => blocks'[k] = blocks[k]
  BY <1>1, <1>2, <1>3 DEF Shrink, Table
<1>5. \A k \in 0 .. count - 1 : blocks[k].ptr \in Nat /\ blocks[k].size \in Nat
  BY <1>1 DEF Table, Block
<1>6. ASSUME NEW k \in 0 .. count - 1
      PROVE  /\ blocks'[k].ptr = blocks[k].ptr
             /\ blocks'[k].size <= blocks[k].size /\ blocks'[k].size \in Nat
  <2>1. CASE k = i
    <3>1. blocks'[k].ptr = blocks[i].ptr /\ blocks'[k].size = size
      BY <1>3, <1>4, <2>1
    <3>2. QED
      BY <1>1, <1>2, <2>1, <3>1
  <2>2. CASE k # i
    BY <1>4, <1>5, <2>2
  <2>3. QED
    BY <2>1, <2>2
<1>7. BlocksApart'
  <2>1. ASSUME NEW k \in 0 .. count - 1
        PROVE  /\ HEAP_START <= blocks'[k].ptr
               /\ blocks'[k].ptr + blocks'[k].size <= HEAP_START + HEAP_SIZE
    <3>1. /\ HEAP_START <= blocks[k].ptr
          /\ blocks[k].ptr + blocks[k].size <= HEAP_START + HEAP_SIZE
      BY <1>1 DEF Table
    <3>2. QED
      BY <1>5, <1>6, <3>1
  <2>2. ASSUME NEW k \in 0 .. count - 1, NEW l \in 0 .. count - 1, k < l
        PROVE  blocks'[k].ptr + blocks'[k].size <= blocks'[l].ptr
    <3>1. blocks[k].ptr + blocks[k].size <= blocks[l].ptr
      BY <1>1, <2>2 DEF Table
    <3>2. QED
      BY <1>5, <1>6, <3>1
  <2>3. QED
    BY <1>4, <2>1, <2>2 DEF BlocksApart, Index
<1>8. NoFreeNeighbours'
  BY <1>1, <1>3, <1>4 DEF Lone, NoFreeNeighbours, Index
<1>9. HeapTypeOK'
  BY <1>1, <1>4 DEF Table, HeapTypeOK, Index
<1>10. HeldOf(blocks', count')
         = HeldOf(blocks, count) \cup {[ptr |-> blocks[i].ptr, size |-> size]}
  BY <1>2, <1>3, <1>4 DEF HeldOf
<1>11. QED
  BY <1>7, <1>8, <1>9, <1>10 DEF HeapInv

\* kmalloc keeps the invariant and hands out a region apart from all others.
LEMMA KmallocFacts ==
  ASSUME HeapInv, NEW size \in Sizes, Kmalloc(size)
  PROVE  /\ HeapInv'
         /\ \E i \in Fits(size) :
              HeldOf(blocks', count')
                = HeldOf(blocks, count) \cup {[ptr |-> blocks[i].ptr, size |-> size]}
<1>1. size \in Sizes \ {0} /\ count < MAX_BLOCKS
  BY DEF Kmalloc
<1>2. PICK i \in FirstFit(size) :
        IF blocks[i].size > 2 * size THEN Split(i, size) ELSE Shrink(i, size)
  BY DEF Kmalloc
<1>3. i \in Fits(size)
  BY DEF FirstFit
<1>4. QED
  BY <1>1, <1>2, <1>3, SplitFacts, ShrinkFacts

-----------------------------------------------------------------------------
LEMMA HeapInitInv == HeapInit => HeapInv
<1> SUFFICES ASSUME HeapInit PROVE HeapInv
  OBVIOUS
<1>1. count = 1 /\ Index = {0}
  BY DEF HeapInit, Index
<1>2. blocks[0] = [ptr |-> HEAP_START, size |-> HEAP_SIZE, used |-> FALSE]
  BY DEF HeapInit
<1>3. HeapTypeOK
  BY <1>1, HeapAssumption DEF HeapInit, HeapTypeOK, Block
<1>4. QED
  BY <1>1, <1>2, <1>3, HeapAssumption DEF HeapInv, BlocksApart, NoFreeNeighbours

LEMMA HeapNextInv == HeapInv /\ [HeapNext]_heapVars => HeapInv'
<1> SUFFICES ASSUME HeapInv, [HeapNext]_heapVars PROVE HeapInv'
  OBVIOUS
<1>1. CASE UNCHANGED heapVars
  BY <1>1 DEF heapVars, HeapInv, HeapTypeOK, BlocksApart, NoFreeNeighbours, Index
<1>2. CASE HeapNext
  BY <1>2, KmallocFacts, KfreeFacts DEF HeapNext
<1>3. QED
  BY <1>1, <1>2

LEMMA HeapSpecInv == HeapSpec => []HeapInv
BY HeapInitInv, HeapNextInv, PTL DEF HeapSpec

\* The block table is well formed and never longer than its array.
THEOREM HeapTypeCorrect == HeapSpec => []HeapTypeOK
<1>1. HeapInv => HeapTypeOK
  BY DEF HeapInv
<1>2. QED
  BY <1>1, HeapSpecInv, PTL

\* No word of the heap is ever in two blocks, whatever the requests.
THEOREM ApartCorrect == HeapSpec => []BlocksApart
<1>1. HeapInv => BlocksApart
  BY DEF HeapInv
<1>2. QED
  BY <1>1, HeapSpecInv, PTL

\* kfree leaves no two free neighbours behind.
THEOREM NeighboursCorrect == HeapSpec => []NoFreeNeighbours
<1>1. HeapInv => NoFreeNeighbours
  BY DEF HeapInv
<1>2. QED
  BY <1>1, HeapSpecInv, PTL

-----------------------------------------------------------------------------
(***************************************************************************)
(* The heap implements the abstract allocator.                             *)
(***************************************************************************)
LEMMA HeldRegionsIsHeldOf == HeldRegions = HeldOf(blocks, count)
BY DEF HeldRegions, Held, RegionOf, HeldOf, Index

\* A free block that fits a request gives a region of the allocator.
LEMMA FitIsRegion ==
  ASSUME HeapInv, NEW size \in Sizes \ {0}, NEW i \in Fits(size)
  PROVE  LET r == [ptr |-> blocks[i].ptr, size |-> size] IN
         /\ r \in Regions!Region
         /\ Regions!InHeap(r)
         /\ \A s \in HeldRegions : Regions!Apart(r, s)
<1> DEFINE r == [ptr |-> blocks[i].ptr, size |-> size]
<1> USE HeapAssumption
<1>1. /\ i \in 0 .. count - 1 /\ ~blocks[i].used /\ blocks[i].size >= size
      /\ blocks[i].ptr \in Nat /\ blocks[i].size \in Nat \ {0} /\ size \in Nat \ {0}
      /\ count \in Nat
  BY DEF Fits, Index, HeapInv, HeapTypeOK, Block
<1>2. /\ HEAP_START <= blocks[i].ptr
      /\ blocks[i].ptr + blocks[i].size <= HEAP_START + HEAP_SIZE
  BY <1>1 DEF HeapInv, BlocksApart, Index
<1>3. r.ptr = blocks[i].ptr /\ r.size = size
  OBVIOUS
<1>4. r \in Regions!Region
  <2>1. blocks[i].ptr \in HEAP_START .. HEAP_START + HEAP_SIZE - 1
    BY <1>1, <1>2
  <2>2. QED
    BY <2>1 DEF Regions!Region
<1>5. Regions!InHeap(r)
  BY <1>1, <1>2 DEF Regions!InHeap
<1>6. ASSUME NEW s \in HeldRegions PROVE Regions!Apart(r, s)
  <2>1. PICK k \in 0 .. count - 1 :
          blocks[k].used /\ s.ptr = blocks[k].ptr /\ s.size = blocks[k].size
    BY <1>6 DEF HeldRegions, Held, RegionOf, Index
  <2>2. k # i /\ blocks[k].ptr \in Nat /\ blocks[k].size \in Nat
    BY <1>1, <2>1 DEF HeapInv, HeapTypeOK, Block, Index
  <2>3. \/ blocks[k].ptr + blocks[k].size <= blocks[i].ptr
        \/ blocks[i].ptr + blocks[i].size <= blocks[k].ptr
    BY <1>1, <2>2 DEF HeapInv, BlocksApart, Index
  <2>4. \/ r.ptr + r.size <= s.ptr
        \/ s.ptr + s.size <= r.ptr
    BY <1>1, <1>3, <2>1, <2>2, <2>3
  <2>5. QED
    BY <2>4 DEF Regions!Apart
<1>7. QED
  BY <1>4, <1>5, <1>6

LEMMA HeapNextRefines == HeapInv /\ [HeapNext]_heapVars => [Regions!Next]_HeldRegions
<1> SUFFICES ASSUME HeapInv, [HeapNext]_heapVars PROVE [Regions!Next]_HeldRegions
  OBVIOUS
<1>1. HeldRegions = HeldOf(blocks, count) /\ HeldRegions' = HeldOf(blocks', count')
  BY HeldRegionsIsHeldOf DEF HeldRegions, Held, RegionOf, HeldOf, Index
<1>2. CASE UNCHANGED heapVars
  BY <1>2 DEF heapVars, HeldRegions, Held, RegionOf, Index
<1>3. ASSUME NEW size \in Sizes, Kmalloc(size) PROVE Regions!Next
  <2>1. size # 0
    BY <1>3 DEF Kmalloc
  <2>2. PICK i \in Fits(size) :
          HeldRegions' = HeldRegions \cup {[ptr |-> blocks[i].ptr, size |-> size]}
    BY <1>1, <1>3, KmallocFacts
  <2> DEFINE r == [ptr |-> blocks[i].ptr, size |-> size]
  <2>3. /\ r \in Regions!Region
        /\ Regions!InHeap(r)
        /\ \A s \in HeldRegions : Regions!Apart(r, s)
    BY <2>1, FitIsRegion DEF r
  <2> HIDE DEF r
  <2>4. Regions!Allocate(r)
    BY <2>2, <2>3 DEF Regions!Allocate, r
  <2>5. QED
    BY <2>3, <2>4 DEF Regions!Next
<1>4. ASSUME NEW ptr \in Address, Kfree(ptr) PROVE Regions!Next
  <2>1. PICK r \in HeldRegions : HeldRegions' = HeldRegions \ {r}
    BY <1>1, <1>4, KfreeFacts
  <2>2. QED
    BY <2>1 DEF Regions!Next, Regions!Release
<1>5. QED
  BY <1>2, <1>3, <1>4 DEF HeapNext

\* Every behaviour of kmalloc and kfree is one of the abstract allocator:
\* nobody's region is handed out twice, cut or moved before it is released.
THEOREM HeapImplementsAllocator == HeapSpec => RegionsSpec
<1>1. HeapInit => Regions!Init
  <2>1. HeapInit => Index = {0} /\ ~blocks[0].used
    BY DEF HeapInit, Index
  <2>2. QED
    BY <2>1 DEF Regions!Init, HeldRegions, Held
<1>2. QED
  BY <1>1, HeapSpecInv, HeapNextRefines, PTL DEF HeapSpec, RegionsSpec, Regions!Spec

===============================================================================
