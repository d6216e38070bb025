------------------------------ MODULE Desktop ------------------------------
(***************************************************************************)
(* Pointer and window manager of the kernel (src/kernel/mouse.c, wm.c and  *)
(* the mouse part of usb_hid.c), as two parties use them: the handler of   *)
(* the timer interrupt, which takes all reports of the mouse and then runs *)
(* the window manager, and the shell, whose commands "mouse" and "click"   *)
(* do the same by themselves and can be interrupted.                       *)
(***************************************************************************)
EXTENDS Integers, Sequences, FiniteSets, FiniteSetsExt

CONSTANTS
  FB_WIDTH, FB_HEIGHT, TASKBAR,       \* the screen, and the 30 lines below
  MAX_WINDOWS, TITLE_H, RESIZE_GRIP, WIN_MIN_W, WIN_MIN_H,
  Moves,             \* <<dx, dy>> of a report or of a command
  Opened             \* [x, y, w, h] of the windows that programs open

Floor == FB_HEIGHT - TASKBAR

ASSUME DesktopAssumption ==
  /\ {FB_WIDTH, FB_HEIGHT, MAX_WINDOWS, TITLE_H, RESIZE_GRIP, WIN_MIN_W, WIN_MIN_H} \subseteq Nat \ {0}
  /\ TASKBAR \in Nat /\ Moves \subseteq Int \X Int
  /\ Opened \subseteq [x : Nat, y : Nat, w : Nat, h : Nat]
  /\ \A o \in Opened : /\ o.w >= WIN_MIN_W /\ o.x + o.w <= FB_WIDTH
                       /\ o.h >= WIN_MIN_H /\ o.y + o.h <= Floor

NONE == -1
Slots == 0 .. MAX_WINDOWS - 1

VARIABLES
  mouse,       \* [x, y, down]: down is the left button, the only one wm.c reads
  changed,     \* mouse.changed
  reported,    \* the button in the last report (g_usb_hid.mouse.buttons)
  windows,     \* windows[i]: [x, y, w, h], or NoWindow; none is ever closed
  focus,       \* [win |-> focused_win, flags |-> the windows whose flag focused is set]
  grab,        \* [drag |-> drag_win, resize |-> resize_win, point |-> drag_offset or prev_m]
  last,        \* last_x, last_y, last_buttons of wm_run
  timer,       \* whether the handler of the timer runs
  shell,       \* [todo |-> calls left of the command, at |-> where in wm_run, args |-> of the event]
  seen,        \* history: the arguments of the last wm_mouse_event
  disturbed    \* history: the event the shell is about to pass, or has passed, was overtaken

wmVars == <<windows, focus, grab>>
vars == <<mouse, changed, reported, windows, focus, grab, last, timer, shell, seen, disturbed>>

NoWindow == [x |-> 0, y |-> 0, w |-> 0, h |-> 0]
Active(i) == windows[i] # NoWindow
NoEvent == [x |-> -1, y |-> -1, down |-> FALSE]

Clamp(v, low, high) == IF v < low THEN low ELSE IF v > high THEN high ELSE v

------------------------------------------------------------------------------
(* mouse.c *)

Moved(dx, dy) == [x |-> Clamp(mouse.x + dx, 0, FB_WIDTH - 1),
                  y |-> Clamp(mouse.y + dy, 0, FB_HEIGHT - 1), down |-> mouse.down]

MouseMove(dx, dy) == mouse' = Moved(dx, dy) /\ changed' = TRUE

MouseButton(down) == mouse' = [mouse EXCEPT !.down = down] /\ changed' = TRUE

------------------------------------------------------------------------------
(* wm.c *)

Hit(i, e) ==
  /\ Active(i)
  /\ e.x \in windows[i].x .. windows[i].x + windows[i].w
  /\ e.y \in windows[i].y .. windows[i].y + windows[i].h

\* wm_create_window takes the first free slot; the new window has the focus.
CreateWindow(o) ==
  LET free == {i \in Slots : ~Active(i)}
      i == Min(free)
  IN /\ free # {}
     /\ windows' = [windows EXCEPT ![i] = o]
     /\ focus' = [win |-> i, flags |-> (focus.flags \cup {i}) \ {focus.win}]
     /\ UNCHANGED grab

At(e) == <<e.x, e.y>>

\* drag_offset is read only while a window is dragged, prev_m only while one is resized.
NoGrab == [drag |-> NONE, resize |-> NONE, point |-> <<0, 0>>]

\* Mutant: a window that is resized is not let go.
ReleaseDragOnly(e) ==
  /\ ~e.down
  /\ grab' = IF grab.drag # NONE THEN NoGrab ELSE grab
  /\ UNCHANGED <<windows, focus>>

Release(e) ==
  /\ ~e.down
  /\ grab' = NoGrab
  /\ UNCHANGED <<windows, focus>>

\* Mutant: whatever has the focus is dragged.
DragFocused(e) ==
  LET i == focus.win
  IN /\ e.down /\ grab.drag # NONE
     /\ windows' = [windows EXCEPT ![i].x = Min({Max({e.x - grab.point[1], 0}), FB_WIDTH - windows[i].w})]
     /\ UNCHANGED <<focus, grab>>

\* The window follows the pointer: first not beyond the left and upper edge,
\* then not beyond the others.
DragOn(e) ==
  LET i == grab.drag
      w == windows[i]
      nx == Min({Max({e.x - grab.point[1], 0}), FB_WIDTH - w.w})
      ny == Min({Max({e.y - grab.point[2], 0}), Floor - w.h})
  IN /\ e.down /\ i # NONE
     /\ windows' = [windows EXCEPT ![i] = [x |-> nx, y |-> ny, w |-> w.w, h |-> w.h]]
     /\ UNCHANGED <<focus, grab>>

\* Mutant: the minimum is not looked at.
ResizeSmall(e) ==
  LET i == grab.resize
      w == windows[i]
  IN /\ e.down /\ grab.drag = NONE /\ i # NONE
     /\ windows' = [windows EXCEPT ![i].w = Min({w.w + e.x - grab.point[1], FB_WIDTH - w.x}),
                                   ![i].h = Min({w.h + e.y - grab.point[2], Floor - w.y})]
     /\ grab' = [grab EXCEPT !.point = At(e)]
     /\ UNCHANGED focus

ResizeOn(e) ==
  LET i == grab.resize
      w == windows[i]
      nw == Max({w.w + e.x - grab.point[1], WIN_MIN_W})
      nh == Max({w.h + e.y - grab.point[2], WIN_MIN_H})
  IN /\ e.down /\ grab.drag = NONE /\ i # NONE
     /\ windows' = [windows EXCEPT ![i] = [x |-> w.x, y |-> w.y,
          w |-> Min({nw, FB_WIDTH - w.x}), h |-> Min({nh, Floor - w.y})]]
     /\ grab' = [grab EXCEPT !.point = At(e)]
     /\ UNCHANGED focus

\* A new press: the window with the highest index under the pointer takes the
\* focus; its lower right corner is for resizing, else its title for dragging.
Press(e) ==
  LET under == {i \in Slots : Hit(i, e)}
      i == Max(under)
      w == windows[i]
      corner == e.x >= w.x + w.w - RESIZE_GRIP /\ e.y >= w.y + w.h - RESIZE_GRIP
      title == e.y < w.y + TITLE_H
  IN /\ e.down /\ grab.drag = NONE /\ grab.resize = NONE
     /\ IF under = {} THEN UNCHANGED <<focus, grab>>
        ELSE /\ focus' = [win |-> i, flags |-> (focus.flags \ {focus.win}) \cup {i}]
             /\ grab' = IF corner THEN [drag |-> NONE, resize |-> i, point |-> At(e)]
                        ELSE IF title THEN [drag |-> i, resize |-> NONE, point |-> <<e.x - w.x, e.y - w.y>>]
                        ELSE grab
     /\ UNCHANGED windows

MouseEvent(e) ==
  /\ Release(e) \/ DragOn(e) \/ ResizeOn(e) \/ Press(e)
  /\ seen' = e

Nothing == ~changed /\ mouse = last

------------------------------------------------------------------------------
(* The handler of the timer interrupt: nothing else runs meanwhile. *)

TimerEnters ==
  /\ ~timer
  /\ timer' = TRUE
  /\ disturbed' = (disturbed \/ shell.at = "event")
  /\ UNCHANGED <<mouse, changed, reported, windows, focus, grab, last, shell, seen>>

\* usb_hid_process_mouse: a change of the button, then the movement.
Report(down, dx, dy) ==
  /\ timer
  /\ mouse' = [Moved(dx, dy) EXCEPT !.down = IF down # reported THEN down ELSE @]
  /\ changed' = (changed \/ down # reported \/ <<dx, dy>> # <<0, 0>>)
  /\ reported' = down
  /\ UNCHANGED <<windows, focus, grab, last, timer, shell, seen, disturbed>>

\* Mutant: the window manager is left to the shell.
TimerReturns ==
  /\ timer
  /\ timer' = FALSE
  /\ UNCHANGED <<mouse, changed, reported, windows, focus, grab, last, shell, seen, disturbed>>

\* wm_run, and the handler returns.
TimerRun ==
  /\ timer
  /\ timer' = FALSE
  /\ IF Nothing THEN UNCHANGED <<mouse, changed, reported, windows, focus, grab, last, shell, seen, disturbed>>
     ELSE /\ MouseEvent(mouse)
          /\ changed' = FALSE
          /\ last' = mouse
          /\ disturbed' = (shell.at = "event")
          /\ UNCHANGED <<mouse, reported, shell>>

------------------------------------------------------------------------------
(* The shell *)

Idle == [todo |-> <<>>, at |-> "call", args |-> NoEvent]

Command(first, calls) ==
  /\ ~timer /\ shell = Idle
  /\ first
  /\ shell' = [shell EXCEPT !.todo = calls]
  /\ UNCHANGED <<reported, windows, focus, grab, last, timer, seen, disturbed>>

MouseCommand == \E m \in Moves : Command(MouseMove(m[1], m[2]), <<"run">>)
ClickCommand == Command(MouseButton(TRUE), <<"run", "release", "run">>)

Calls(f) == ~timer /\ shell.at = "call" /\ shell.todo # <<>> /\ Head(shell.todo) = f

ShellReleases ==
  /\ Calls("release")
  /\ MouseButton(FALSE)
  /\ shell' = [shell EXCEPT !.todo = Tail(@)]
  /\ UNCHANGED <<reported, windows, focus, grab, last, timer, seen, disturbed>>

\* wm_run of the shell: it may return at once,
RunTest ==
  /\ Calls("run")
  /\ shell' = IF Nothing THEN [shell EXCEPT !.todo = Tail(@)] ELSE [shell EXCEPT !.at = "args"]
  /\ UNCHANGED <<mouse, changed, reported, windows, focus, grab, last, timer, seen, disturbed>>

\* reads the arguments of the event,
RunArgs ==
  /\ ~timer /\ shell.at = "args"
  /\ shell' = [shell EXCEPT !.at = "event", !.args = mouse]
  /\ disturbed' = FALSE
  /\ UNCHANGED <<mouse, changed, reported, windows, focus, grab, last, timer, seen>>

\* handles it,
RunEvent ==
  /\ ~timer /\ shell.at = "event"
  /\ MouseEvent(shell.args)
  /\ shell' = [shell EXCEPT !.at = "clear", !.args = NoEvent]
  /\ UNCHANGED <<mouse, changed, reported, last, timer, disturbed>>

\* and notes that it has.
RunClear ==
  /\ ~timer /\ shell.at = "clear"
  /\ changed' = FALSE
  /\ shell' = [shell EXCEPT !.at = "last"]
  /\ UNCHANGED <<mouse, reported, windows, focus, grab, last, timer, seen, disturbed>>

RunLast ==
  /\ ~timer /\ shell.at = "last"
  /\ last' = mouse
  /\ shell' = [shell EXCEPT !.at = "call", !.todo = Tail(@)]
  /\ UNCHANGED <<mouse, changed, reported, windows, focus, grab, timer, seen, disturbed>>

Open ==
  /\ ~timer /\ shell = Idle
  /\ \E o \in Opened : CreateWindow(o)
  /\ UNCHANGED <<mouse, changed, reported, last, timer, shell, seen, disturbed>>

Init ==
  /\ mouse = [x |-> FB_WIDTH \div 2, y |-> FB_HEIGHT \div 2, down |-> FALSE]
  /\ changed = FALSE /\ reported = FALSE
  /\ windows = [i \in Slots |-> NoWindow]
  /\ focus = [win |-> NONE, flags |-> {}]
  /\ grab = NoGrab
  /\ last = NoEvent /\ timer = FALSE /\ shell = Idle /\ seen = NoEvent /\ disturbed = FALSE

Next ==
  \/ TimerEnters \/ TimerRun
  \/ \E down \in BOOLEAN, m \in Moves : Report(down, m[1], m[2])
  \/ MouseCommand \/ ClickCommand \/ Open
  \/ ShellReleases \/ RunTest \/ RunArgs \/ RunEvent \/ RunClear \/ RunLast

Spec == Init /\ [][Next]_vars

------------------------------------------------------------------------------
(* Properties *)

\* However windows are dragged, resized and focused, by reports and commands
\* in any order: each stays on the screen above the task bar and large enough
\* to be grabbed again (the clamps of wm_mouse_event work one edge at a time,
\* and the last one wins).
WindowsOnScreen ==
  \A i \in Slots : Active(i) =>
    LET w == windows[i]
    IN /\ w.x >= 0 /\ w.x + w.w <= FB_WIDTH /\ w.w >= WIN_MIN_W
       /\ w.y >= 0 /\ w.y + w.h <= Floor /\ w.h >= WIN_MIN_H

\* Outside wm_run, and unless a movement is still to be handled, the window
\* manager has seen the pointer where it is: no report is forgotten when the
\* timer strikes inside the shell's own wm_run, which clears the mark that the
\* timer's events have set.  The exception is the event whose arguments
\* the timer overtakes: that one is handled late.
CaughtUp ==
  ~timer /\ shell.at = "call" /\ ~changed /\ ~disturbed /\ seen # NoEvent => seen = mouse

\* A window is held only while the manager believes the button down, and then
\* by one of the two handles; again unless the timer has overtaken the event.
HeldByButton ==
  /\ grab.drag = NONE \/ grab.resize = NONE
  /\ ~timer /\ shell.at = "call" /\ ~disturbed /\ {grab.drag, grab.resize} # {NONE} => last.down

\* A step changes the place or the size of no window but the one that was
\* held already when it began, and of that one only what the handle is for.
OnlyTheHeld ==
  [][\A i \in Slots : Active(i) /\ windows'[i] # windows[i] =>
       \/ i = grab.drag /\ windows'[i].w = windows[i].w /\ windows'[i].h = windows[i].h
       \/ i = grab.resize /\ windows'[i].x = windows[i].x /\ windows'[i].y = windows[i].y]_vars
=============================================================================
