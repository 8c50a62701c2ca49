----------------------------- MODULE WindowManager -----------------------------
(***************************************************************************)
(* The desktop: the icons (kernel.c), the windows (display/window.c) and   *)
(* the applications' init functions that open them.  The main loop goes    *)
(* round in frames: take the mouse packet, serve the icons, render the     *)
(* windows and see which of them the pointer hits.  Between any two of its *)
(* steps the keyboard interrupt may call the focused window's handler, and *)
(* the terminal's handler runs shell commands, three of which open windows *)
(* from inside the interrupt.                                              *)
(***************************************************************************)
EXTENDS Integers, Sequences, FiniteSets

CONSTANTS
  Apps,         (* the applications                                          *)
  Icons,        (* the application behind each icon of the desktop           *)
  ShellApps,    (* the ones a shell command opens                            *)
  KeylessApps,  (* the ones that never set a keyboard handler                *)
  Terminal,
  Width,        (* the width of an application's window                      *)
  Heights,      (* the heights it may have: the file editor changes its own  *)
  MouseStates,  (* what a packet may leave in mouse                          *)
  NWindows      (* length of the array windows                               *)

Vector == [x : Int, y : Int]

ASSUME AppsAssumption ==
  /\ Icons \in Seq(Apps)
  /\ ShellApps \subseteq Apps /\ KeylessApps \subseteq Apps
  /\ Terminal \in Apps \ KeylessApps /\ Apps \cap {"none", "garbage"} = {}

ASSUME SizeAssumption ==
  /\ IsFiniteSet(ShellApps)
  /\ NWindows \in Nat /\ NWindows >= Len(Icons) + Cardinality(ShellApps)

ASSUME ScreenAssumption ==
  /\ \A a \in Apps : Width[a] \in Nat /\ Width[a] >= 20 /\ Heights[a] \subseteq Nat
  /\ MouseStates \subseteq [position : Vector, left : BOOLEAN, right : BOOLEAN]

VARIABLES
  pc,             (* where the main loop is in the frame                     *)
  i,              (* its loop variable                                       *)
  mouse,
  icons,          (* the icons' positions                                    *)
  icon_dragging,  (* desktop_icon_dragging, as the icon's number             *)
  windows,
  window_count,
  dragging,       (* currently_dragging, as the window's slot                *)
  focused,        (* focused_window, as its slot                             *)
  loop_focus,     (* foucsed_loop_window                                     *)
  app_window,     (* calculator_window, terminal_window and so on            *)
  launch,         (* the init function under way in the main loop            *)
  raced           (* history: a command opened a window while the main loop  *)
                  (* was opening one itself or was going through the windows *)

desktop == <<icons, icon_dragging>>
manager == <<windows, window_count, focused, app_window>>
vars == <<pc, i, mouse, desktop, manager, dragging, loop_focus, launch, raced>>

NULL == -1
Slots == 0 .. NWindows - 1
NoLaunch == [app |-> Terminal, slot |-> NULL, todo |-> {}]

(* The handler a window may have: an application's, none, or whatever lay  *)
(* on the stack where window_init built the record.                        *)
Handler == Apps \cup {"none", "garbage"}

-----------------------------------------------------------------------------
(* What the pointer hits.  A box that only touches another one hits it.    *)

Collision(p1, s1, p2, s2) ==
  /\ p1.x + s1.x >= p2.x /\ p2.x + s2.x >= p1.x
  /\ p1.y + s1.y >= p2.y /\ p2.y + s2.y >= p1.y

Box(w, h) == [x |-> w, y |-> h]
At(p, x, y) == [x |-> p.x + x, y |-> p.y + y]
Hits(position, size) == Collision(position, size, mouse.position, Box(5, 5))

tb_height == 20
OnIcon(k)  == Hits(icons[k], Box(32, 32))
OnTitle(w) == Hits(windows[w].position, Box(Width[windows[w].app], tb_height))
OnBody(w, height) == Hits(windows[w].position, Box(Width[windows[w].app], height))
OnClose(w) == Hits(At(windows[w].position, Width[windows[w].app] - 20, 2), Box(16, 16))

Home == Box(150, 150)
IconHome(k) == Box(15 + 45 * (k - 1), 50)

(* The record window_init leaves in the array.                             *)
NewWindow(app, keys) == [app |-> app, position |-> Home, active |-> TRUE, keys |-> keys]
EmptySlot == [app |-> Terminal, position |-> Box(0, 0), active |-> FALSE, keys |-> "none"]

-----------------------------------------------------------------------------
(* The icons.                                                              *)

Goto(from, to) == pc = from /\ pc' = to

(* process_mouse_packet, as the rest of the frame sees it.                 *)
Packet ==
  /\ Goto("packet", "icon")
  /\ mouse' \in MouseStates \cup {mouse}
  /\ i' = 1
  /\ UNCHANGED <<desktop, manager, dragging, loop_focus, launch>>

Clicked == i \in DOMAIN icons /\ OnIcon(i) /\ mouse.left

IconIdle ==
  /\ i \in DOMAIN icons /\ ~Clicked
  /\ Goto("icon", "icon drag")
  /\ UNCHANGED <<i, mouse, desktop, manager, dragging, loop_focus, launch>>

(* The application has a window: it is shown again.                        *)
Reopen ==
  /\ Clicked /\ app_window[Icons[i]] # NULL
  /\ Goto("icon", "icon drag")
  /\ windows' = [windows EXCEPT ![app_window[Icons[i]]].active = TRUE]
  /\ UNCHANGED <<i, mouse, desktop, window_count, focused, app_window, dragging,
                 loop_focus, launch>>

(* The application has none.  window_init reads the counter once; then the *)
(* record and the counter are stored, in the order the compiler chose, and *)
(* after the call the init function's own stores, in some order as well.   *)
Inside == {"record", "count"}
After(app) == {"pointer", "focus"} \cup (IF app \in KeylessApps THEN {} ELSE {"keys"})

LaunchBegins ==
  /\ Clicked /\ app_window[Icons[i]] = NULL
  /\ Goto("icon", "launch")
  /\ launch' = [app |-> Icons[i], slot |-> window_count, todo |-> Inside \cup After(Icons[i])]
  /\ UNCHANGED <<i, mouse, desktop, manager, dragging, loop_focus>>

StoreRecord == \E keys \in {"none", "garbage"} :
  /\ windows' = [windows EXCEPT ![launch.slot] = NewWindow(launch.app, keys)]
  /\ UNCHANGED <<window_count, focused, app_window>>

StoreCount ==
  /\ window_count' = launch.slot + 1
  /\ UNCHANGED <<windows, focused, app_window>>

(* Mistaken form: window_init returns the counter, not the slot.           *)
StorePointerNext ==
  /\ app_window' = [app_window EXCEPT ![launch.app] = launch.slot + 1]
  /\ windows' = [windows EXCEPT ![launch.slot].active = TRUE]
  /\ UNCHANGED <<window_count, focused>>

StorePointer ==
  /\ app_window' = [app_window EXCEPT ![launch.app] = launch.slot]
  /\ windows' = [windows EXCEPT ![launch.slot].active = TRUE]
  /\ UNCHANGED <<window_count, focused>>

StoreKeys ==
  /\ windows' = [windows EXCEPT ![launch.slot].keys = launch.app]
  /\ UNCHANGED <<window_count, focused, app_window>>

StoreFocus ==
  /\ focused' = launch.slot
  /\ UNCHANGED <<windows, window_count, app_window>>

(* Mistaken form: the init function's stores may overtake window_init's.   *)
LaunchStepAnyOrder(store) ==
  /\ pc = "launch" /\ store \in launch.todo
  /\ \/ store = "record"  /\ StoreRecord
     \/ store = "count"   /\ StoreCount
     \/ store = "pointer" /\ StorePointer
     \/ store = "keys"    /\ StoreKeys
     \/ store = "focus"   /\ StoreFocus
  /\ launch' = [launch EXCEPT !.todo = @ \ {store}]
  /\ UNCHANGED <<pc, i, mouse, desktop, dragging, loop_focus>>

LaunchStep(store) ==
  /\ pc = "launch" /\ store \in launch.todo
  /\ store \in Inside \/ launch.todo \cap Inside = {}
  /\ \/ store = "record"  /\ StoreRecord
     \/ store = "count"   /\ StoreCount
     \/ store = "pointer" /\ StorePointer
     \/ store = "keys"    /\ StoreKeys
     \/ store = "focus"   /\ StoreFocus
  /\ launch' = [launch EXCEPT !.todo = @ \ {store}]
  /\ UNCHANGED <<pc, i, mouse, desktop, dragging, loop_focus>>

LaunchEnds ==
  /\ launch.todo = {}
  /\ Goto("launch", "icon drag")
  /\ launch' = NoLaunch
  /\ UNCHANGED <<i, mouse, desktop, manager, dragging, loop_focus>>

IconGrab ==
  /\ Goto("icon drag", "icon")
  /\ icon_dragging' = IF OnIcon(i) /\ mouse.right /\ icon_dragging = NULL THEN i ELSE icon_dragging
  /\ i' = i + 1
  /\ UNCHANGED <<mouse, icons, manager, dragging, loop_focus, launch>>

(* The position is set before the button is looked at.                     *)
IconMove ==
  /\ i > Len(Icons)
  /\ Goto("icon", "window")
  /\ icons' = [k \in DOMAIN icons |-> IF k = icon_dragging THEN mouse.position ELSE icons[k]]
  /\ icon_dragging' = IF mouse.right THEN icon_dragging ELSE NULL
  /\ i' = 0
  /\ UNCHANGED <<mouse, manager, dragging, loop_focus, launch>>

-----------------------------------------------------------------------------
(* The windows.  window_count is read again on each turn of the loop.      *)

(* Mistaken form: the loop does not get past a closed window.              *)
SkipClosedStays ==
  /\ i < window_count /\ ~windows[i].active
  /\ Goto("window", "window")
  /\ UNCHANGED <<i, mouse, desktop, manager, dragging, loop_focus, launch>>

SkipClosed ==
  /\ i < window_count /\ ~windows[i].active
  /\ Goto("window", "window")
  /\ i' = i + 1
  /\ UNCHANGED <<mouse, desktop, manager, dragging, loop_focus, launch>>

(* Mistaken form: a window is not closed while one is being dragged.       *)
RenderUnlessDragging ==
  /\ i < window_count /\ windows[i].active
  /\ Goto("window", "hit")
  /\ windows' = [windows EXCEPT ![i].active = ~(OnClose(i) /\ mouse.left /\ dragging = NULL)]
  /\ UNCHANGED <<i, mouse, desktop, window_count, focused, app_window, dragging,
                 loop_focus, launch>>

Render ==
  /\ i < window_count /\ windows[i].active
  /\ Goto("window", "hit")
  /\ windows' = [windows EXCEPT ![i].active = ~(OnClose(i) /\ mouse.left)]
  /\ UNCHANGED <<i, mouse, desktop, window_count, focused, app_window, dragging,
                 loop_focus, launch>>

(* A window that was closed in this very turn is hit all the same.  The    *)
(* title bar is tried first, and a drag keeps the focus from moving.       *)
(* Mistaken form: the focus moves although a drag has begun.               *)
HitFocusesDragged ==
  /\ Goto("hit", "window")
  /\ i' = i + 1
  /\ dragging' = IF OnTitle(i) /\ mouse.left /\ dragging = NULL THEN i ELSE dragging
  /\ \E height \in Heights[windows[i].app] :
       IF OnBody(i, height) /\ mouse.left
       THEN focused' = i /\ loop_focus' = i
       ELSE UNCHANGED <<focused, loop_focus>>
  /\ UNCHANGED <<mouse, desktop, windows, window_count, app_window, launch>>

Hit ==
  /\ Goto("hit", "window")
  /\ i' = i + 1
  /\ dragging' = IF OnTitle(i) /\ mouse.left /\ dragging = NULL THEN i ELSE dragging
  /\ \E height \in Heights[windows[i].app] :
       IF OnBody(i, height) /\ mouse.left /\ dragging' = NULL
       THEN focused' = i /\ loop_focus' = i
       ELSE UNCHANGED <<focused, loop_focus>>
  /\ UNCHANGED <<mouse, desktop, windows, window_count, app_window, launch>>

(* Mistaken form: a drag does not end with the button.                     *)
EndFrameKeepsDrag ==
  /\ i >= window_count
  /\ Goto("window", "packet")
  /\ focused' = IF loop_focus = NULL /\ mouse.left THEN NULL ELSE focused
  /\ dragging' = dragging
  /\ windows' = IF dragging' # NULL
                THEN [windows EXCEPT ![dragging].position = mouse.position] ELSE windows
  /\ loop_focus' = NULL
  /\ UNCHANGED <<i, mouse, desktop, window_count, app_window, launch>>

EndFrame ==
  /\ i >= window_count
  /\ Goto("window", "packet")
  /\ focused' = IF loop_focus = NULL /\ mouse.left THEN NULL ELSE focused
  /\ dragging' = IF mouse.left THEN dragging ELSE NULL
  /\ windows' = IF dragging' # NULL
                THEN [windows EXCEPT ![dragging].position = mouse.position] ELSE windows
  /\ loop_focus' = NULL
  /\ UNCHANGED <<i, mouse, desktop, window_count, app_window, launch>>

-----------------------------------------------------------------------------
(* The keyboard interrupt.  Interrupts are off in it, so an init function  *)
(* it reaches through the shell runs without a break.                      *)

frame == <<pc, i, mouse, desktop, dragging, loop_focus, launch>>

KeyHandler == IF focused = NULL THEN "none" ELSE windows[focused].keys

(* A call through a pointer nobody set: nothing is known after it.         *)
WildCall ==
  /\ pc # "lost" /\ KeyHandler = "garbage"
  /\ pc' = "lost"
  /\ UNCHANGED <<i, mouse, desktop, manager, dragging, loop_focus, launch>>

(* Mistaken form: a window is made whether the application has one or not. *)
ShellLaunchAlways(app) ==
  /\ pc # "lost" /\ KeyHandler = Terminal
  /\ windows' = [windows EXCEPT ![window_count] =
       NewWindow(app, IF app \in KeylessApps THEN "none" ELSE app)]
  /\ window_count' = window_count + 1
  /\ app_window' = [app_window EXCEPT ![app] = window_count]
  /\ focused' = window_count
  /\ UNCHANGED frame

ShellLaunch(app) ==
  /\ pc # "lost" /\ KeyHandler = Terminal
  /\ app_window[app] = NULL
  /\ \E keys \in IF app \in KeylessApps THEN {"none", "garbage"} ELSE {app} :
       windows' = [windows EXCEPT ![window_count] = NewWindow(app, keys)]
  /\ window_count' = window_count + 1
  /\ app_window' = [app_window EXCEPT ![app] = window_count]
  /\ focused' = window_count
  /\ UNCHANGED frame

ShellReopen(app) ==
  /\ pc # "lost" /\ KeyHandler = Terminal
  /\ app_window[app] # NULL
  /\ windows' = [windows EXCEPT ![app_window[app]].active = TRUE]
  /\ UNCHANGED <<window_count, app_window, focused, frame>>

(* The shell opens a window.                                               *)
ShellOpens == \E app \in ShellApps : ShellLaunch(app) \/ ShellReopen(app)

-----------------------------------------------------------------------------
Init ==
  /\ pc = "packet" /\ i = 0
  /\ mouse = [position |-> Box(0, 0), left |-> FALSE, right |-> FALSE]
  /\ icons = [k \in 1 .. Len(Icons) |-> IconHome(k)]
  /\ icon_dragging = NULL /\ dragging = NULL /\ focused = NULL /\ loop_focus = NULL
  /\ windows = [w \in Slots |-> EmptySlot]
  /\ window_count = 0
  /\ app_window = [a \in Apps |-> NULL]
  /\ launch = NoLaunch
  /\ raced = FALSE

Launching == (\E store \in launch.todo : LaunchStep(store)) \/ LaunchEnds

(* One step of the main loop.                                              *)
MainLoop ==
  /\ \/ Packet \/ IconIdle \/ Reopen \/ LaunchBegins \/ Launching \/ IconGrab \/ IconMove
     \/ SkipClosed \/ Render \/ Hit \/ EndFrame
  /\ UNCHANGED raced

(* One interrupt of the keyboard.                                          *)
Busy == pc \in {"launch", "window", "hit"}
keyboard_int_handler ==
  \/ ShellOpens /\ raced' = (raced \/ Busy)
  \/ WildCall /\ UNCHANGED raced

Next == MainLoop \/ keyboard_int_handler
Spec == Init /\ [][Next]_vars /\ WF_vars(MainLoop)

-----------------------------------------------------------------------------
(* Every variable has its type.                                            *)
LoopTyped ==
  /\ pc \in {"packet", "icon", "launch", "icon drag", "window", "hit", "lost"}
  /\ i \in Nat /\ raced \in BOOLEAN
  /\ mouse \in [position : Vector, left : BOOLEAN, right : BOOLEAN]
DesktopTyped ==
  /\ icons \in [1 .. Len(Icons) -> Vector]
  /\ icon_dragging \in {NULL} \cup 1 .. Len(Icons)
ManagerTyped ==
  /\ windows \in [Slots -> [app : Apps, position : Vector, active : BOOLEAN, keys : Handler]]
  /\ window_count \in 0 .. NWindows
  /\ {dragging, focused, loop_focus} \subseteq Slots \cup {NULL}
  /\ app_window \in [Apps -> Slots \cup {NULL}]
LaunchTyped ==
  launch \in [app : Apps, slot : Slots \cup {NULL}, todo : SUBSET (Inside \cup After(Terminal))]
TypeOK == LoopTyped /\ DesktopTyped /\ ManagerTyped /\ LaunchTyped

(* Even when the interrupt opens windows while the main loop does, which   *)
(* can make two for one application, the array never holds more than one   *)
(* for each icon and one for each command.                                 *)
WindowsFit == window_count <= Len(Icons) + Cardinality(ShellApps)

(* A window without a usable handler belongs to an application that never  *)
(* sets one, or to the init function that is running.                      *)
KeysBound == \A w \in Slots :
  windows[w].keys = "garbage" =>
    \/ windows[w].app \in KeylessApps
    \/ w = launch.slot /\ "keys" \in launch.todo

(* Between frames, what is being dragged is at the pointer and the button  *)
(* that drags it is down.                                                  *)
DragFollowsPointer == pc = "packet" =>
  /\ icon_dragging # NULL => mouse.right /\ icons[icon_dragging] = mouse.position
  /\ dragging # NULL => mouse.left /\ windows[dragging].position = mouse.position

(* The rest holds as long as no command opens a window while the main loop *)
(* opens one itself or is going through the windows.                       *)

(* Outside the loop over the windows, the keys go to a window that is      *)
(* open: the one that was closed by a click has lost the focus.            *)
FocusedIsOpen ==
  ~raced /\ pc \notin {"window", "hit", "lost"} /\ focused # NULL => windows[focused].active

(* Each application has a window of its own, made by its own init function *)
(* and counted.                                                            *)
AppOwnsWindow == ~raced => \A a \in Apps : app_window[a] # NULL =>
  /\ windows[app_window[a]].app = a
  /\ app_window[a] < window_count
  /\ \A b \in Apps \ {a} : app_window[b] # app_window[a]

(* Once the loop is through, a click on a close button has closed every    *)
(* window that has its button there, the covered ones too, whether or not  *)
(* something is being dragged.                                             *)
CloseWins ==
  ~raced /\ pc = "window" /\ i >= window_count /\ mouse.left =>
    \A w \in Slots : w < window_count /\ windows[w].active => ~OnClose(w)

(* A frame comes to its end, however many windows the shell opens in it,   *)
(* unless the kernel calls through a wild pointer.                         *)
FramesEnd == []<>(pc \in {"packet", "lost"})
=============================================================================
