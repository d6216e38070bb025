--------------------------- MODULE DesktopProofs ---------------------------
(***************************************************************************)
(* Proofs about Desktop, for a screen of any size, any number of windows   *)
(* and any movements.                                                      *)
(***************************************************************************)
EXTENDS Desktop, WellFoundedInduction, TLAPS

Pointer == [x : 0 .. FB_WIDTH - 1, y : 0 .. FB_HEIGHT - 1, down : BOOLEAN]
Window == [x : Int, y : Int, w : Int, h : Int]

TypeOK ==
  /\ mouse \in Pointer
  /\ {changed, reported, timer, disturbed} \subseteq BOOLEAN
  /\ windows \in [Slots -> Window]
  /\ focus \in [win : Slots \cup {NONE}, flags : SUBSET Slots]
  /\ grab \in [drag : Slots \cup {NONE}, resize : Slots \cup {NONE}, point : Int \X Int]
  /\ last \in Pointer \cup {NoEvent}
  /\ seen \in Pointer \cup {NoEvent}
  /\ shell \in [todo : Seq({"run", "release"}), at : {"call", "args", "event", "clear", "last"},
                args : Pointer \cup {NoEvent}]
  /\ shell.at = "event" => shell.args \in Pointer
  /\ shell.at # "call" => shell.todo # <<>>

\* What is held is a window, held by one handle, since a press.
Held == {grab.drag, grab.resize} \ {NONE}
Grip ==
  /\ grab.drag = NONE \/ grab.resize = NONE
  /\ \A i \in Held : Active(i) /\ seen.down

\* What the manager has seen, while the shell is anywhere in its wm_run and
\* the timer has not overtaken it.  In "event" the timer would; after it, a
\* report leaves the mark, and the timer's own wm_run is still to come.
Noted ==
  ~disturbed =>
    /\ shell.at = "call" => last = seen
    /\ shell.at = "call" /\ ~changed /\ seen # NoEvent => seen = mouse
    /\ shell.at = "event" => ~timer /\ shell.args = mouse
    /\ shell.at \in {"clear", "last"} /\ ~(timer /\ changed) => seen = mouse

Inv == TypeOK /\ WindowsOnScreen /\ Grip /\ Noted

-----------------------------------------------------------------------------
(* Numbers and sets of them *)

LEMMA MinOfTwo ==
  ASSUME NEW a \in Int, NEW b \in Int
  PROVE  Min({a, b}) = IF a <= b THEN a ELSE b
BY DEF Min

LEMMA MaxOfTwo ==
  ASSUME NEW a \in Int, NEW b \in Int
  PROVE  Max({a, b}) = IF a >= b THEN a ELSE b
BY DEF Max

\* The least-number principle, for a set.
LEMMA LeastNatural ==
  ASSUME NEW S, S \subseteq Nat, S # {}
  PROVE  \E n \in S : \A m \in S : n <= m
<1> DEFINE R == {ss \in Nat \X Nat : ss[1] < ss[2]}
<1>1. IsWellFoundedOn(R, Nat)
  BY NatLessThanWellFounded DEF OpToRel
<1>2. \E x \in S : \A y \in S : <<y, x>> \notin R
  <2> HIDE DEF R
  <2> QED BY <1>1, WFMin
<1>3. PICK n \in S : \A m \in S : <<m, n>> \notin R
  BY <1>2
<1>4. ASSUME NEW m \in S PROVE n <= m
  <2>1. m \in Nat /\ n \in Nat /\ (m < n => <<m, n>> \in R)
    OBVIOUS
  <2>2. QED
    BY <2>1, <1>3
<1>5. QED
  BY <1>4

LEMMA MinOfNaturals ==
  ASSUME NEW S, S \subseteq Nat, S # {}
  PROVE  Min(S) \in S /\ \A y \in S : Min(S) <= y
BY LeastNatural DEF Min

LEMMA MaxOfNaturals ==
  ASSUME NEW S, NEW n \in Nat, S \subseteq 0 .. n, S # {}
  PROVE  Max(S) \in S /\ \A y \in S : Max(S) >= y
<1> DEFINE T == {n - x : x \in S}
<1>1. T \subseteq Nat /\ T # {}
  <2>1. PICK s \in S : TRUE
    OBVIOUS
  <2>2. n - s \in T
    BY <2>1
  <2>3. \A z \in S : z \in Int /\ z <= n
    OBVIOUS
  <2>4. QED
    BY <2>2, <2>3
<1>2. PICK t \in T : \A u \in T : t <= u
  <2> HIDE DEF T
  <2> QED BY <1>1, LeastNatural
<1>3. PICK s \in S : t = n - s
  OBVIOUS
<1>4. ASSUME NEW y \in S PROVE s >= y
  BY <1>2, <1>3
<1>5. QED
  BY <1>4 DEF Max

\* The clamps of wm_mouse_event.
LEMMA MinOfMax ==
  ASSUME NEW a \in Int, NEW low \in Int, NEW high \in Int, low <= high
  PROVE  Min({Max({a, low}), high}) \in low .. high
BY MinOfTwo, MaxOfTwo

-----------------------------------------------------------------------------
(* The types of what the operators return *)

LEMMA Constants ==
  /\ FB_WIDTH \in Nat /\ FB_WIDTH > 0 /\ FB_HEIGHT \in Nat /\ FB_HEIGHT > 0
  /\ MAX_WINDOWS \in Nat /\ MAX_WINDOWS > 0 /\ WIN_MIN_W \in Nat /\ WIN_MIN_W > 0
  /\ WIN_MIN_H \in Nat /\ WIN_MIN_H > 0 /\ Floor \in Int
BY DesktopAssumption DEF Floor

LEMMA MovedOnScreen ==
  ASSUME mouse \in Pointer, NEW dx \in Int, NEW dy \in Int
  PROVE  /\ Moved(dx, dy) \in Pointer
         /\ Moved(dx, dy).down = mouse.down
         /\ Moved(0, 0) = mouse
<1> DEFINE mx == Clamp(mouse.x + dx, 0, FB_WIDTH - 1)
           my == Clamp(mouse.y + dy, 0, FB_HEIGHT - 1)
<1>1. /\ mx \in 0 .. FB_WIDTH - 1 /\ my \in 0 .. FB_HEIGHT - 1
      /\ mouse.x \in Int /\ mouse.y \in Int /\ mouse.down \in BOOLEAN
  BY Constants DEF Clamp, Pointer
<1>2. mouse = [x |-> mouse.x, y |-> mouse.y, down |-> mouse.down]
  BY DEF Pointer
<1>3. Clamp(mouse.x + 0, 0, FB_WIDTH - 1) = mouse.x /\ Clamp(mouse.y + 0, 0, FB_HEIGHT - 1) = mouse.y
  BY Constants DEF Clamp, Pointer
<1>4. QED
  BY <1>1, <1>2, <1>3 DEF Moved, Pointer

LEMMA NoEventOutside == NoEvent \notin Pointer
BY DEF NoEvent, Pointer

-----------------------------------------------------------------------------
(* Handling an event *)

\* What an event, and a window that is opened, leaves true of the windows.
EventState ==
  /\ windows \in [Slots -> Window]
  /\ focus \in [win : Slots \cup {NONE}, flags : SUBSET Slots]
  /\ grab \in [drag : Slots \cup {NONE}, resize : Slots \cup {NONE}, point : Int \X Int]
  /\ WindowsOnScreen
  /\ Grip

\* What OnlyTheHeld says of one step.
HeldOnly ==
  \A i \in Slots : Active(i) /\ windows'[i] # windows[i] =>
    \/ i = grab.drag /\ windows'[i].w = windows[i].w /\ windows'[i].h = windows[i].h
    \/ i = grab.resize /\ windows'[i].x = windows[i].x /\ windows'[i].y = windows[i].y

\* A window on the screen is not the empty slot.
LEMMA LargeIsActive ==
  ASSUME NEW w, w.w >= WIN_MIN_W
  PROVE  w # NoWindow
BY Constants DEF NoWindow

LEMMA ReleaseStep ==
  ASSUME EventState, NEW e \in Pointer, Release(e), seen' = e
  PROVE  EventState' /\ HeldOnly
BY DEF EventState, Release, NoGrab, Grip, Held, HeldOnly, WindowsOnScreen, Active

LEMMA DragStep ==
  ASSUME EventState, NEW e \in Pointer, DragOn(e), seen' = e
  PROVE  EventState' /\ HeldOnly
<1> DEFINE i == grab.drag
           w == windows[i]
           nx == Min({Max({e.x - grab.point[1], 0}), FB_WIDTH - w.w})
           ny == Min({Max({e.y - grab.point[2], 0}), Floor - w.h})
           moved == [x |-> nx, y |-> ny, w |-> w.w, h |-> w.h]
<1>1. /\ i \in Slots /\ w \in Window /\ Active(i) /\ e.down
      /\ e.x \in Int /\ e.y \in Int /\ grab.point[1] \in Int /\ grab.point[2] \in Int
      /\ windows' = [windows EXCEPT ![i] = moved] /\ focus' = focus /\ grab' = grab
  BY DEF EventState, DragOn, Grip, Held, Pointer
<1>2. /\ w.x >= 0 /\ w.x + w.w <= FB_WIDTH /\ w.w >= WIN_MIN_W
      /\ w.y >= 0 /\ w.y + w.h <= Floor /\ w.h >= WIN_MIN_H
  BY <1>1 DEF EventState, WindowsOnScreen
<1>3. /\ nx \in Int /\ nx >= 0 /\ nx + w.w <= FB_WIDTH
      /\ ny \in Int /\ ny >= 0 /\ ny + w.h <= Floor
  <2>1. /\ w.x \in Int /\ w.w \in Int /\ w.y \in Int /\ w.h \in Int
        /\ FB_WIDTH - w.w \in Int /\ Floor - w.h \in Int
        /\ e.x - grab.point[1] \in Int /\ e.y - grab.point[2] \in Int
    BY <1>1, Constants DEF Window
  <2>2. 0 <= FB_WIDTH - w.w /\ 0 <= Floor - w.h
    BY <1>2, <2>1, Constants
  <2>3. \A a, high \in Int : 0 <= high => Min({Max({a, 0}), high}) \in 0 .. high
    BY MinOfMax
  <2>4. nx \in 0 .. FB_WIDTH - w.w /\ ny \in 0 .. Floor - w.h
    BY <2>1, <2>2, <2>3
  <2>5. QED
    BY <2>1, <2>3, <2>4, Constants
<1>4. moved \in Window /\ moved # NoWindow
  BY <1>1, <1>2, <1>3, LargeIsActive DEF Window
<1> HIDE DEF nx, ny
<1>5. WindowsOnScreen'
  BY <1>1, <1>2, <1>3 DEF WindowsOnScreen, Active, EventState
<1>6. Grip'
  BY <1>1, <1>4 DEF EventState, Grip, Held, Active
<1>7. HeldOnly
  BY <1>1 DEF HeldOnly, EventState
<1>8. QED
  BY <1>1, <1>4, <1>5, <1>6, <1>7 DEF EventState

LEMMA ResizeStep ==
  ASSUME EventState, NEW e \in Pointer, ResizeOn(e), seen' = e
  PROVE  EventState' /\ HeldOnly
<1> DEFINE i == grab.resize
           w == windows[i]
           nw == Min({Max({w.w + e.x - grab.point[1], WIN_MIN_W}), FB_WIDTH - w.x})
           nh == Min({Max({w.h + e.y - grab.point[2], WIN_MIN_H}), Floor - w.y})
           sized == [x |-> w.x, y |-> w.y, w |-> nw, h |-> nh]
<1>1. /\ i \in Slots /\ w \in Window /\ Active(i) /\ e.down
      /\ e.x \in Int /\ e.y \in Int /\ grab.point[1] \in Int /\ grab.point[2] \in Int
      /\ windows' = [windows EXCEPT ![i] = sized] /\ focus' = focus
      /\ grab' = [grab EXCEPT !.point = At(e)]
  BY DEF EventState, ResizeOn, Grip, Held, Pointer
<1>2. /\ w.x >= 0 /\ w.x + w.w <= FB_WIDTH /\ w.w >= WIN_MIN_W
      /\ w.y >= 0 /\ w.y + w.h <= Floor /\ w.h >= WIN_MIN_H
  BY <1>1 DEF EventState, WindowsOnScreen
<1>3. /\ nw \in Int /\ nw >= WIN_MIN_W /\ w.x + nw <= FB_WIDTH
      /\ nh \in Int /\ nh >= WIN_MIN_H /\ w.y + nh <= Floor
  <2>1. /\ w.x \in Int /\ w.w \in Int /\ w.y \in Int /\ w.h \in Int
        /\ FB_WIDTH - w.x \in Int /\ Floor - w.y \in Int
        /\ w.w + e.x - grab.point[1] \in Int /\ w.h + e.y - grab.point[2] \in Int
    BY <1>1, Constants DEF Window
  <2>2. WIN_MIN_W <= FB_WIDTH - w.x /\ WIN_MIN_H <= Floor - w.y
    BY <1>2, <2>1, Constants
  <2>3. nw \in WIN_MIN_W .. FB_WIDTH - w.x
    BY <2>1, <2>2, MinOfMax, Constants
  <2>4. nh \in WIN_MIN_H .. Floor - w.y
    BY <2>1, <2>2, MinOfMax, Constants
  <2>5. QED
    BY <2>1, <2>3, <2>4, Constants
<1>4. sized \in Window /\ sized # NoWindow
  BY <1>1, <1>3, LargeIsActive DEF Window
<1> HIDE DEF nw, nh
<1>5. WindowsOnScreen'
  BY <1>1, <1>2, <1>3 DEF WindowsOnScreen, Active, EventState
<1>6. /\ grab' \in [drag : Slots \cup {NONE}, resize : Slots \cup {NONE}, point : Int \X Int]
      /\ grab'.drag = grab.drag /\ grab'.resize = grab.resize
  BY <1>1 DEF EventState, At
<1>7. Grip'
  BY <1>1, <1>4, <1>6 DEF EventState, Grip, Held, Active
<1>8. HeldOnly
  BY <1>1 DEF HeldOnly, EventState
<1>9. QED
  BY <1>1, <1>4, <1>5, <1>6, <1>7, <1>8 DEF EventState

LEMMA PressStep ==
  ASSUME EventState, NEW e \in Pointer, Press(e), seen' = e
  PROVE  EventState' /\ HeldOnly
<1> DEFINE under == {i \in Slots : Hit(i, e)}
           i == Max(under)
           w == windows[i]
           resizing == [drag |-> NONE, resize |-> i, point |-> At(e)]
           dragging == [drag |-> i, resize |-> NONE, point |-> <<e.x - w.x, e.y - w.y>>]
<1>1. windows' = windows /\ e.down /\ HeldOnly
  BY DEF Press, HeldOnly
<1>2. CASE under = {}
  BY <1>1, <1>2 DEF Press, EventState, WindowsOnScreen, Grip, Held, Active
<1>3. CASE under # {}
  <2>1. i \in Slots /\ Hit(i, e)
    BY <1>3, MaxOfNaturals, Constants DEF Slots
  <2>2. Active(i) /\ w \in Window /\ e.x \in Int /\ e.y \in Int
    <3> HIDE DEF i
    <3> QED BY <2>1 DEF Hit, EventState, Pointer
  <2>3. focus' \in [win : Slots \cup {NONE}, flags : SUBSET Slots]
    BY <1>3, <2>1 DEF Press, EventState
  <2>4. grab' \in {resizing, dragging, grab}
    BY <1>3 DEF Press
  <2> HIDE DEF i
  <2>5. QED
    BY <1>1, <2>1, <2>2, <2>3, <2>4
    DEF EventState, WindowsOnScreen, Grip, Held, Active, At, Window
<1>4. QED
  BY <1>2, <1>3

LEMMA EventStep ==
  ASSUME EventState, NEW e \in Pointer, MouseEvent(e)
  PROVE  EventState' /\ HeldOnly /\ seen' = e
BY ReleaseStep, DragStep, ResizeStep, PressStep DEF MouseEvent

\* wm_create_window: an active slot is not touched.
LEMMA CreateStep ==
  ASSUME EventState, NEW o \in Opened, CreateWindow(o), seen' = seen
  PROVE  EventState' /\ HeldOnly
<1> DEFINE free == {i \in Slots : ~Active(i)}
           i == Min(free)
<1>1. free # {} /\ free \subseteq Nat
  BY Constants DEF CreateWindow, Slots
<1>2. i \in Slots /\ ~Active(i)
  <2>1. i \in free
    <3> HIDE DEF free
    <3> QED BY <1>1, MinOfNaturals
  <2>2. QED
    BY <2>1
<1>3. /\ windows' = [windows EXCEPT ![i] = o]
      /\ focus' = [win |-> i, flags |-> (focus.flags \cup {i}) \ {focus.win}]
      /\ grab' = grab
  BY DEF CreateWindow
<1> HIDE DEF i
<1>4. /\ o \in Window /\ o.x >= 0 /\ o.x + o.w <= FB_WIDTH /\ o.w >= WIN_MIN_W
      /\ o.y >= 0 /\ o.y + o.h <= Floor /\ o.h >= WIN_MIN_H
  BY DesktopAssumption DEF Window
<1>5. windows' \in [Slots -> Window]
  BY <1>3, <1>4 DEF EventState
<1>6. WindowsOnScreen'
  BY <1>2, <1>3, <1>4 DEF EventState, WindowsOnScreen, Active
<1>7. Grip'
  BY <1>2, <1>3 DEF EventState, Grip, Held, Active
<1>8. HeldOnly
  BY <1>2, <1>3 DEF EventState, HeldOnly, Active
<1>9. QED
  BY <1>2, <1>3, <1>5, <1>6, <1>7, <1>8 DEF EventState

\* A step that leaves the windows alone.
LEMMA SameWindows ==
  ASSUME EventState, UNCHANGED <<windows, focus, grab, seen>>
  PROVE  EventState' /\ HeldOnly
BY DEF EventState, WindowsOnScreen, Grip, Held, HeldOnly, Active

-----------------------------------------------------------------------------
(* Every step *)

LEMMA InitInv == Init => Inv
<1> SUFFICES ASSUME Init PROVE Inv
  OBVIOUS
<1> USE DEF Init
<1>1. mouse \in Pointer
  BY Constants DEF Pointer
<1>2. windows \in [Slots -> Window] /\ WindowsOnScreen
  BY DEF WindowsOnScreen, Active, NoWindow, Window
<1>3. Grip
  BY DEF Grip, Held, NoGrab
<1>4. Noted
  BY DEF Noted, Idle
<1>5. shell \in [todo : Seq({"run", "release"}), at : {"call", "args", "event", "clear", "last"},
                 args : Pointer \cup {NoEvent}]
  BY DEF Idle
<1>6. grab \in [drag : Slots \cup {NONE}, resize : Slots \cup {NONE}, point : Int \X Int]
  BY DEF NoGrab
<1>7. shell.at = "call"
  BY DEF Idle
<1>8. QED
  BY <1>1, <1>2, <1>3, <1>4, <1>5, <1>6, <1>7 DEF Inv, TypeOK

\* The steps of the timer's handler.
LEMMA TimerEntersStep == Inv /\ TimerEnters => Inv' /\ HeldOnly
<1> SUFFICES ASSUME Inv, TimerEnters PROVE Inv' /\ HeldOnly
  OBVIOUS
<1>1. EventState' /\ HeldOnly
  BY SameWindows DEF Inv, TypeOK, EventState, TimerEnters
<1>2. TypeOK'
  BY DEF Inv, TypeOK, TimerEnters
<1>3. Noted'
  BY DEF Inv, TypeOK, Noted, TimerEnters
<1>4. QED
  BY <1>1, <1>2, <1>3 DEF Inv, EventState

LEMMA ReportStep ==
  ASSUME Inv, NEW down \in BOOLEAN, NEW m \in Moves, Report(down, m[1], m[2])
  PROVE  Inv' /\ HeldOnly
<1>1. m[1] \in Int /\ m[2] \in Int
  BY DesktopAssumption
<1>2. EventState' /\ HeldOnly
  BY SameWindows DEF Inv, TypeOK, EventState, Report
<1>3. Moved(m[1], m[2]) \in Pointer /\ Moved(m[1], m[2]).down = mouse.down /\ Moved(0, 0) = mouse
  BY <1>1, MovedOnScreen DEF Inv, TypeOK
<1>4. mouse' \in Pointer
  BY <1>3 DEF Report, Pointer
<1>5. TypeOK'
  BY <1>4 DEF Inv, TypeOK, Report
<1>6. ~changed' => mouse' = mouse /\ ~changed
  <2>1. SUFFICES ASSUME ~changed' PROVE mouse' = mouse /\ ~changed
    OBVIOUS
  <2>2. ~changed /\ down = reported /\ m[1] = 0 /\ m[2] = 0
    BY <2>1 DEF Report
  <2>3. mouse' = [mouse EXCEPT !.down = mouse.down]
    BY <2>2, <1>3 DEF Report
  <2>4. QED
    BY <2>2, <2>3 DEF Inv, TypeOK, Pointer
<1>7. Noted'
  BY <1>6 DEF Inv, TypeOK, Noted, Report
<1>8. QED
  BY <1>2, <1>5, <1>7 DEF Inv, EventState

LEMMA TimerRunStep == Inv /\ TimerRun => Inv' /\ HeldOnly
<1> SUFFICES ASSUME Inv, TimerRun PROVE Inv' /\ HeldOnly
  OBVIOUS
<1>1. CASE Nothing
  <2>1. timer /\ timer' = FALSE /\ UNCHANGED <<mouse, changed, reported, windows, focus, grab, last, shell, seen, disturbed>>
    BY <1>1 DEF TimerRun
  <2>2. EventState' /\ HeldOnly
    BY <2>1, SameWindows DEF Inv, TypeOK, EventState
  <2>3. TypeOK'
    BY <2>1 DEF Inv, TypeOK
  <2>4. Noted'
    BY <2>1, <1>1 DEF Inv, Noted, Nothing
  <2>5. QED
    BY <2>2, <2>3, <2>4 DEF Inv, EventState
<1>2. CASE ~Nothing
  <2>1. /\ MouseEvent(mouse) /\ timer' = FALSE /\ changed' = FALSE /\ last' = mouse
        /\ disturbed' = (shell.at = "event") /\ UNCHANGED <<mouse, reported, shell>>
    BY <1>2 DEF TimerRun
  <2>2. mouse \in Pointer /\ EventState
    BY DEF Inv, TypeOK, EventState
  <2>3. EventState' /\ HeldOnly /\ seen' = mouse
    BY <2>1, <2>2, EventStep
  <2>4. TypeOK'
    BY <2>1, <2>2, <2>3 DEF Inv, TypeOK, EventState
  <2>5. Noted'
    BY <2>1, <2>3 DEF Noted
  <2>6. QED
    BY <2>3, <2>4, <2>5 DEF Inv, EventState
<1>3. QED
  BY <1>1, <1>2

\* The shell's commands, and where they are in wm_run.
LEMMA CommandStep ==
  Inv /\ (MouseCommand \/ ClickCommand \/ ShellReleases) => Inv' /\ HeldOnly
<1> SUFFICES ASSUME Inv, MouseCommand \/ ClickCommand \/ ShellReleases PROVE Inv' /\ HeldOnly
  OBVIOUS
<1>1. /\ UNCHANGED <<reported, windows, focus, grab, last, timer, seen, disturbed>>
      /\ changed' = TRUE /\ shell.at = "call" /\ ~timer
  BY DEF MouseCommand, ClickCommand, ShellReleases, Command, MouseMove, MouseButton, Calls, Idle
<1>2. EventState' /\ HeldOnly
  BY <1>1, SameWindows DEF Inv, TypeOK, EventState
<1>3. mouse' \in Pointer
  <2>1. CASE MouseCommand
    <3>1. PICK m \in Moves : mouse' = Moved(m[1], m[2])
      BY <2>1 DEF MouseCommand, Command, MouseMove
    <3>2. m[1] \in Int /\ m[2] \in Int
      BY DesktopAssumption
    <3>3. QED
      BY <3>1, <3>2, MovedOnScreen DEF Inv, TypeOK
  <2>2. CASE ClickCommand \/ ShellReleases
    BY <2>2 DEF Inv, TypeOK, Pointer, ClickCommand, ShellReleases, Command, MouseButton
  <2>3. QED
    BY <2>1, <2>2
<1>4. shell'.at = "call" /\ shell'.args = shell.args /\ shell'.todo \in Seq({"run", "release"})
  <2>1. /\ <<"run">> \in Seq({"run", "release"})
        /\ <<"run", "release", "run">> \in Seq({"run", "release"})
        /\ shell.todo # <<>> => Tail(shell.todo) \in Seq({"run", "release"})
    BY DEF Inv, TypeOK
  <2>2. PICK calls \in {<<"run">>, <<"run", "release", "run">>, Tail(shell.todo)} :
          /\ shell' = [shell EXCEPT !.todo = calls]
          /\ calls = Tail(shell.todo) => shell.todo # <<>> \/ calls \in Seq({"run", "release"})
    BY <2>1 DEF MouseCommand, ClickCommand, ShellReleases, Command, Calls
  <2>3. QED
    BY <1>1, <2>1, <2>2 DEF Inv, TypeOK
<1>5. shell' = [todo |-> shell'.todo, at |-> "call", args |-> shell.args]
  BY <1>1 DEF Inv, TypeOK, MouseCommand, ClickCommand, ShellReleases, Command, Calls
<1>6. TypeOK'
  BY <1>1, <1>3, <1>4, <1>5 DEF Inv, TypeOK
<1>7. Noted'
  BY <1>1, <1>4 DEF Inv, Noted
<1>8. QED
  BY <1>2, <1>6, <1>7 DEF Inv, EventState

LEMMA RunStep ==
  Inv /\ (RunTest \/ RunArgs \/ RunClear \/ RunLast) => Inv' /\ HeldOnly
<1> SUFFICES ASSUME Inv, RunTest \/ RunArgs \/ RunClear \/ RunLast PROVE Inv' /\ HeldOnly
  OBVIOUS
<1>1. UNCHANGED <<mouse, reported, windows, focus, grab, timer, seen>> /\ ~timer
  BY DEF RunTest, RunArgs, RunClear, RunLast, Calls
<1>2. EventState' /\ HeldOnly
  BY <1>1, SameWindows DEF Inv, TypeOK, EventState
<1>3. TypeOK'
  <2>1. shell.todo # <<>> => Tail(shell.todo) \in Seq({"run", "release"})
    BY DEF Inv, TypeOK
  <2>2. shell.at = "last" => shell.todo # <<>>
    BY DEF Inv, TypeOK
  <2>3. CASE RunTest
    BY <1>1, <2>1, <2>3 DEF Inv, TypeOK, RunTest, Calls
  <2>4. CASE RunArgs \/ RunClear
    BY <1>1, <2>4 DEF Inv, TypeOK, RunArgs, RunClear
  <2>5. CASE RunLast
    BY <1>1, <2>1, <2>2, <2>5 DEF Inv, TypeOK, RunLast
  <2>6. QED
    BY <2>3, <2>4, <2>5
<1>4. Noted'
  BY <1>1 DEF Inv, TypeOK, Noted, RunTest, RunArgs, RunClear, RunLast, Calls, Nothing
<1>5. QED
  BY <1>2, <1>3, <1>4 DEF Inv, EventState

LEMMA RunEventStep == Inv /\ RunEvent => Inv' /\ HeldOnly
<1> SUFFICES ASSUME Inv, RunEvent PROVE Inv' /\ HeldOnly
  OBVIOUS
<1>1. /\ ~timer /\ shell.at = "event" /\ MouseEvent(shell.args)
      /\ UNCHANGED <<mouse, changed, reported, last, timer, disturbed>>
      /\ shell' = [todo |-> shell.todo, at |-> "clear", args |-> NoEvent]
  BY DEF RunEvent, Inv, TypeOK
<1>2. shell.args \in Pointer /\ EventState
  BY <1>1 DEF Inv, TypeOK, EventState
<1>3. EventState' /\ HeldOnly /\ seen' = shell.args
  BY <1>1, <1>2, EventStep
<1>4. TypeOK'
  BY <1>1, <1>2, <1>3 DEF Inv, TypeOK, EventState
<1>5. Noted'
  BY <1>1, <1>3 DEF Inv, Noted
<1>6. QED
  BY <1>3, <1>4, <1>5 DEF Inv, EventState

LEMMA OpenStep == Inv /\ Open => Inv' /\ HeldOnly
<1> SUFFICES ASSUME Inv, Open PROVE Inv' /\ HeldOnly
  OBVIOUS
<1>1. EventState /\ UNCHANGED <<mouse, changed, reported, last, timer, shell, seen, disturbed>>
  BY DEF Inv, TypeOK, EventState, Open
<1>2. EventState' /\ HeldOnly
  BY <1>1, CreateStep DEF Open
<1>3. TypeOK' /\ Noted'
  BY <1>1, <1>2 DEF Inv, TypeOK, Noted, EventState
<1>4. QED
  BY <1>2, <1>3 DEF Inv, EventState

LEMMA StepInv == Inv /\ [Next]_vars => Inv' /\ HeldOnly
<1> SUFFICES ASSUME Inv, [Next]_vars PROVE Inv' /\ HeldOnly
  OBVIOUS
<1>1. CASE UNCHANGED vars
  <2>1. EventState' /\ HeldOnly
    BY <1>1, SameWindows DEF Inv, TypeOK, EventState, vars
  <2>2. QED
    BY <1>1, <2>1 DEF Inv, TypeOK, EventState, Noted, vars
<1>2. CASE Next
  BY <1>2, TimerEntersStep, TimerRunStep, ReportStep, CommandStep, RunStep, RunEventStep, OpenStep DEF Next
<1>3. QED
  BY <1>1, <1>2

THEOREM Invariant == Spec => []Inv
<1>1. Init => Inv
  BY InitInv
<1>2. Inv /\ [Next]_vars => Inv'
  BY StepInv
<1>3. QED
  BY <1>1, <1>2, PTL DEF Spec

\* Every window stays on the screen, above the task bar and large enough to
\* be grabbed, however it is dragged and resized: the clamps of
\* wm_mouse_event, applied in their order, never undo each other.
THEOREM OnScreen == Spec => []WindowsOnScreen
<1>1. Inv => WindowsOnScreen
  BY DEF Inv
<1>2. QED
  BY <1>1, Invariant, PTL

\* No movement is forgotten when the timer strikes inside the shell's wm_run.
THEOREM NothingForgotten == Spec => []CaughtUp
<1>1. Inv => CaughtUp
  BY DEF Inv, Noted, CaughtUp
<1>2. QED
  BY <1>1, Invariant, PTL

\* A window is held by one handle, and only while the button is believed down.
THEOREM HeldWhileDown == Spec => []HeldByButton
<1>1. Inv => HeldByButton
  BY DEF Inv, Grip, Held, Noted, HeldByButton
<1>2. QED
  BY <1>1, Invariant, PTL

\* An event moves or resizes the held window and no other.
THEOREM OthersStay == Spec => OnlyTheHeld
<1>1. Inv /\ [Next]_vars => HeldOnly
  BY StepInv
<1>2. QED
  BY <1>1, Invariant, PTL DEF Spec, OnlyTheHeld, HeldOnly

=============================================================================
