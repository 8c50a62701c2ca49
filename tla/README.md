# PowwOS in TLA+

PowwOS is a single-core x86-64 hobby kernel with a UEFI boot loader: the
loader (`src/src/bootloader`) loads the kernel, a font and the memory map; the
kernel (`src/src/kernel`) sets up its page frame allocator, descriptor tables
and devices, and then runs one endless main loop that takes mouse packets
apart, lets desktop icons and windows react, and draws.  The only concurrency
is between that loop and three interrupt handlers (timer, keyboard, mouse),
which share plain globals with it: a handler runs with interrupts off, so it is
atomic, and it may run between any two instructions of the loop.

This directory holds TLA+ models of the parts, TLC runs that check them on
small instances, and theorems that TLAPS proves for every instance.  Paths
below are relative to `src/src/kernel/src` unless they say otherwise.

## 1. The system's parts

| Part | State | Operations | What is hard, and what makes it correct |
| --- | --- | --- | --- |
| Page frame allocator (`paging/page_frame_allocator.c`, `bitmap.c`) | bitmap, three counters | read map, request, free, lock, reserve, unreserve | calls in any order, holes in the map, bits beyond memory, wrapping counters: the bitmap says who holds a frame, the counters add up, nothing held is handed out |
| Mouse driver (`drivers/mouse.c`) | cycle, packet, ready flag, position, buttons | init, interrupt handler, process packet | handler between any two steps of the processing; answers mixed with movement bytes: packets do not tear, the pointer stays on the screen |
| Keyboard (`drivers/keyboard.c`), interrupt set-up (`interrupts/`) | shift, gates, the two interrupt controllers and the keyboard controller | set-up, three handlers | both devices share one data port, and neither handler asks whose byte it reads: each key types once, no device is left waiting |
| Desktop and windows (`kernel.c`, `desktop/`, `display/window.c`, the `*_init` of `app/`) | icons, windows, focus, drags, the applications' window pointers | icon click and drag, window open, close, focus, drag, key dispatch | the shell opens windows from the keyboard interrupt: each application owns one window, keys go to open windows |
| RAM files (`ramfs/fs.c`), file editor (`app/file_editor.c`), shell (`shell/shell.c`) | file array, edit buffer, text pointers | touch, write, select, type, save, discard | keys while a click is served, shared and dangling text: a save changes one file |
| Terminal (`app/terminal.c`) | 100 lines, cursor | keys, print, clear | the interrupt prints, the main loop clears |
| Calculator (`app/calculator.c`) | number buffer, operands, operator | digits, buttons | index wrap, sentinel operand, division |
| Paint (`app/paint.c`) | canvas, colour | brush, keys | the brush at the edges |
| Clock and timer (`time/rtc.c`, `pit/pit.c`) | RTC ports, tick count | get and set time, tick, wait | index port shared between loop and interrupt; roll-over while reading |
| Page tables (`paging/page_table_manager.c`) | four-level tables | map | tables from uncleared pages; a refused page |
| Heaps (`heap/heap.c`, `lib/memory.c`) | block bitmap; header list | add block, malloc, free | search bounds, wrapping indices |
| String library (`lib/string.c`) | static buffers | conversions, tokenising | loops on unsigned counters, shared buffers |
| AHCI, ACPI, PCI (`ahci/`, `acpi/`, `pci/`) | port records, command list and slot of each port | find the MCFG table, enumerate, probe, configure, read | controllers work on their own, a port is not waited for, polling has no limit: what a read says of its buffer is true |
| Boot loader (`bootloader/src`) | firmware buffers and pages, ELF segments, memory map, serial port | load, find ACPI, get the map, exit boot services, enter, print | every call may fail, a stale map key, a serial port that fails while its failure is reported: what is entered is a whole kernel with a true map |
| Drawing, the kernel's serial port, segment table, panic | pixels, ports | | no decision of the system depends on them |

They interact so: the keyboard handler calls the focused window's handler; the
terminal's handler calls the shell; the shell calls the RAM file system, the
clock and the applications' init functions, all inside the interrupt.  The
mouse handler fills the packet; the main loop takes it apart and then serves
icons, windows and, through the windows' update functions, buttons.  `mouse` is
written by the main loop only.

## 2. Plan

Done, in this order: `PageFrameAllocator` (with `FramePool`), `MouseDriver`
(with `MousePacket`, `MousePointer`), `WindowManager`, `FileEditor`, `Terminal`,
`Calculator`, `Rtc`, `Paint`, `PageTables` (with `AddressSpace`), `BootLoader`;
then the compositions `Interrupts` (mouse driver, `Keyboard`, the controllers)
and `SerialConsole` (boot loader and its messages), and `Ahci` with `PciBus`.
There are theorems about all of them, and every safety invariant of a passing
run is stated by one.

Next:

1. `Kernel`, composing the mouse driver with the window manager and the editor,
   so that the `mouse` of the one is the packet of the other.
2. `PageTables` composed with `PageFrameAllocator`, with frames that run out.
3. `Strings` (the conversions and the tokeniser against reference definitions).

Each brings its own theorems: that `Kernel` runs the driver and the window
manager as their own specifications say, that the mapping of addresses goes on
being right while the allocator serves others, and what each conversion returns
for every int (`ReadsBack` of the calculator is the first of that kind).

## 3. Modules

| Module | Models | Role |
| --- | --- | --- |
| `PageFrameAllocator` | `paging/page_frame_allocator.c`, `paging/bitmap.c` | component |
| `FramePool` | what the allocator promises | abstract specification |
| `MousePacket` | packet format and movement arithmetic of `drivers/mouse.c` | operators |
| `MouseDriver` | `drivers/mouse.c` | component |
| `MousePointer` | what the driver promises the main loop | abstract specification |
| `Keyboard` | `get_ascii_char` of `drivers/keyboard.c`, the shift key | operators |
| `Interrupts` | `interrupts/idt.c`, `interrupts/interrupts.c`, `init_mouse`, over `MouseDriver` and `Keyboard` | composition |
| `WindowManager` | the loop of `kernel.c`, `display/window.c`, `desktop/desktop.c`, key dispatch, the `*_init` of `app/` | component |
| `FileEditor` | `ramfs/fs.c`, `app/file_editor.c`, file commands of `shell/shell.c` | component |
| `Terminal` | `app/terminal.c`, what `shell/shell.c` prints in it, `strtok_r` | component |
| `Calculator` | `app/calculator.c`, `__strtoint` and `__itoa` of `lib/string.c` | component |
| `Rtc` | `time/rtc.c`, the top bar of `display/display.c`, the command `time` | component |
| `Paint` | `app/paint.c` | component |
| `PageTables` | `paging/page_table_manager.c`, `page_map_indexer.c`, `m_memset` | component |
| `AddressSpace` | what mapping memory promises | abstract specification |
| `PciBus` | `acpi/acpi.c`, `pci/pci.c` | operators |
| `Ahci` | `ahci/ahci.c`, `dumbass_malloc` of `lib/memory.c`, over `PciBus` | component |
| `BootLoader` | `bootloader/src`: `main.c`, `loader.c`, `elf.c` and the calls they make | component |
| `SerialConsole` | `debug_print_line`, `serial.c`, over `BootLoader` | composition |
| `MouseDriver_proofs` | `MouseDriver`, `Interrupts`, `Keyboard` | theorems |
| `Paging_proofs` | the page frame allocator and the page tables | theorems |
| `Applications_proofs` | calculator, paint and terminal | theorems |
| `WindowManager_proofs`, `FileEditor_proofs`, `Rtc_proofs`, `BootLoader_proofs`, `Ahci_proofs` | the component of that name (`BootLoader_proofs` with `SerialConsole`) | theorems |
| `MC*` | | values for TLC |

Modules that are proved about together share one name space, so the
specifications are called `CalculatorSpec`, `PaintSpec`, `TerminalSpec` and
`PagingSpec` where another module's is `Spec`, and the definitions that all have
(types, initial states) carry the component's name as well.

Each component module holds, before some definitions, *mistaken forms* of them:
the definition as a plausible bug would have it.  No specification uses them;
putting one in place of its definition makes a property fail, which shows that
the property depends on that code.

Some properties are true only as long as the keyboard interrupt stays out of a
certain stretch of the main loop.  A history variable says whether it ever came
there (`raced`; in the calculator `muddled`), and the property is conditioned on
it.  The specification itself lets the interrupt come anywhere.  Without the
condition those properties are false: these are races of the code.

### PageFrameAllocator

`taken` is the set of frames whose bit is 1, `free`, `used` and `reserved` the
counters in pages, wrapping at `CounterMod`.  Addresses are frame numbers.  Each
action is one function of the header; `ReadMemoryMap` is the whole of
`pg_alloc_read_memory_map` with the loops it calls.  `ledger` is history: who
took each frame, which the code records nowhere.  The map may have holes, and
the bitmap is `memory / 8 + 1` bytes long whatever the highest address is, so
`bits` and the frames that exist differ; the model keeps both.  `callers` is
history as well: it becomes `"anybody"` when a page is freed by someone who did
not request it, or reserved or given back from outside.  Nothing in the code
forbids that; `CountersExact` and `FirmwareFramesSafe` are about the behaviours
in which it has not happened, `Conservation` and `PoolSpec` about all.

Three odd traits of the code are kept: it locks the page of the bitmap
*structure*, not of the buffer (line 35); it counts a free of a reserved page
against `used_memory`; and frame 0, when it is free, is handed out as the
address that also means "no frame".

### MouseDriver

`Store` and `Drop` are `mouse_handle`.  `ReadFlags`, `MoveX`, `MoveY`,
`ClampPosition`, `ReadButtons` and `Release` are the steps of
`process_mouse_packet` in source order, with the handler enabled between them.
`WriteCommand` sends a command in `init_mouse`; its answer is read by the poll
(`ReadAnswer`) or by the handler (`AnswerByte`), whichever comes first.  The
module says what may happen to a byte without saying when: the handler may read
a byte of somebody else's (`StrayByte`), somebody else may read one of the
mouse's (`TakenElsewhere`), and the poll may find either, or nothing
(`TakeAnswer`, `TakeMovement`, `TakeNothing`).  The device's bytes carry a number
modulo 6, so that history variables can say which bytes were stored.
`MousePointer` is a mailbox for one packet: `Mailbox` is its safety part, and
`Spec` adds that a packet that is there is applied.

### Interrupts, Keyboard

The composition says when.  Keyboard, mouse and the controller's own answer
share one output register (`port`: whose byte it holds, and its value), and
raise interrupt 1 or 12.  `KeyboardInterrupt` and `MouseInterrupt` are
`keyboard_int_handler` and `mouse_int_handler`; they and the polls of
`init_mouse` read that register and do not ask whose byte it is.  Reading an
empty one gives the last byte again.  `PrepareInterrupts` is
`prepare_interrupts`: it forgets what was latched, and interrupts come on after
it.  `Gates` are the descriptors where the code writes them: the field that
holds the table's address has 16 bits, and `lidt` reads the same field, so that a
table above 64 KiB lies in another page and is still found.  `Dispatched` is the
processor and the two interrupt controllers, with masks, priorities and the ends
of interrupt that the handlers send.  `EnableSecondPort`, `AskConfig`,
`ReadConfig` and `WriteConfig` are the first half of `init_mouse`;
`SendCommand`, `PollAnswer` and `ProcessPacket` are the steps of `MouseDriver`.
`get_ascii_char` is the table of `drivers/keyboard.c` with the shift key.

Two things go wrong when bytes mix, and a history variable marks each: a poll or
the mouse's handler reads a key's byte, or the keyboard's handler takes another
byte for a key that matters (`strayed`); a key's byte comes before `init_mouse`
has read the configuration byte, and may be written back as it (`early`).
To keep the state space finite, `typing`, chosen once, says which of two bounded
environments there is: one in which keys are pressed `MaxPresses` times and the
mouse sends `MaxMoves` bytes, or one without keys in which the mouse sends on and
on, so that whole packets are taken apart.

### WindowManager

`pc` walks through one turn of `kernel_main`'s loop: the packet, each icon, the
drag of an icon, each window (`Render`, which may close it, then `Hit`), the end
of the frame.  Geometry is the code's: `Collision` with its closed comparisons,
the 5 by 5 pointer, the 32 by 32 icons, the 20 pixel title bar, the 16 by 16
close button.  An application's init function, when it makes a window, is
several stores (`LaunchStep`); the counter is read once, as the `-O2` build
does, and stores that the compiler may reorder (those before the return of
`window_init`, those after it) are taken in any order.  The keyboard interrupt
may come anywhere.  A window's `keys` field is an application's handler,
`"none"`, or `"garbage"`: `window_init` copies it from an uninitialised local.  A
call through garbage ends the modelled part of the behaviour (`pc = "lost"`),
which is why the run does not check deadlock.

`raced` becomes true when a shell command opens a window while the main loop is
opening one or going through the windows.  After that two applications can be
given one slot or the counter can go back (`window_init` from both sides), and a
window the shell has just focused can be closed and keep the focus.

The heights of a window are a set, since the file editor changes its own.  Each
frame the mouse holds one of `MouseStates` or what it held before.

### FileEditor

`files` holds, for each file, its name and *which memory its text pointer points
to*: the empty literal of `ramfs_create`, the one literal that all saves copy
to, or a dead stack frame, to which the shell's `write` leaves a pointer.
`select_btn_click` is the steps `SelectOpens` to `SelectEnds`; the keys are one
action each.  The buffer is modelled cell by cell because `strcpy` leaves what
lies behind the final zero.  A path is one value, and typing makes it any other.
What a copy that overruns the literal or a full buffer does to neighbouring
memory is not modelled.  Writing to the literal is taken to work: the loader
puts all segments in writable memory and the kernel keeps the firmware's page
tables.  `focus` stands for the window manager: it changes only between clicks,
because a click is served inside the main loop and needs the focus.  `raced`
says that a key came while a click was served.

### Terminal

The lines and the two counters; every key of `terminal_keyboard_int` is an
action, and `Enter` runs the command with everything it prints: `Output` says
what each kind of command prints, and `Printed` what the loop of `ls` makes of
the lines, two for each file and one more.  What is printed is one mark a call;
its wording and length are left out.  The commands are
kinds, given by their first word; when a line has no word the shell looks at
what the stack held, so any kind may run.  `strtok_r` writes its zeros into the
terminal's own line (`Tokenised`), which is why the text shown afterwards is
only the beginning of what was typed.  `terminal_update` clears line after line
in the main loop and then resets the counters in the compiler's order.  A line
written beyond the last ends the modelled part (`phase = "lost"`).  A prompt is a
flag of its line: clearing the screen leaves it as it was, and every text
that a command prints takes it away from the line it is printed on or from the
next, as `terminal_print` and `terminal_println` do.

### Calculator

Digits and backspace are the interrupt, at any step of a button; the buttons are
served by the main loop in steps (`step`): reading the number, wiping it,
setting the index back, and what the button is for.  Characters are numbers, their distance from the digit zero, so that
`__strtoint` and `__itoa` are arithmetic on them: `__itoa` of a negative number
makes characters below the digits, and `__strtoint` reads them back.
`Shortened` is the loop of `__itoa`, which divides by ten again and again; `Size`
is when nothing is left.  Indices
and integers wrap at their widths.  A division by zero, and the quotient that
does not fit (the least integer by -1), end in the panic screen.  The operand
-696969 stands for none, so a number typed with that value is not taken; the
model's `Unset` is a number that can be typed as well.

### Rtc

Every access to the clock's two ports is a step: select a register, read it.
`get_time` runs in the main loop for the top bar and, whole, in the interrupt
for the command `time`.  The two share the index port, the static buffer of
`__itoa` and, since both pass `get_time` a pointer that was never set, perhaps
the record it fills (`aliased`, chosen once).  The clock ticks at any time.
`raced` says that a command came while the top bar was drawn.  A clock that
ticks between two reads makes the time torn: it is never behind the time the
reading began (`NeverBehind`), but it may be ahead of the time it ended.  The
clock is its fields, and a tick (`Tick`) raises one of them and sets those
below it back, from whatever they were, since the months differ in length and
the model does not count days.  Times are compared field by field
(`NotBefore`).

### Paint

The brush is nine stores, one action each, with the colour read again for each
or kept in a register, as the compiler likes; keys change the colour or clear
the canvas in between.  The canvas is a row of memory with some memory before
and behind it, since at the edges the brush wraps to another row or leaves the
array; the properties are about strokes away from the edges.

### PageTables

A map is one step, for nothing runs beside it.  `Descend` goes from a table to
the one below and makes it if it is not there; `m_memset` does what the code
does, which is not to clear the table.  The refinement of `AddressSpace` holds
because the frames handed out hold nothing; that is what the constant
`Leftovers` says in the run, and without it stale entries look present.  `left`
is what the allocator has left; when nothing is, the null pointer is taken for a
table, as in the code.  Which frame is handed out does not matter here, so the
bitmap is left to `PageFrameAllocator`.

### BootLoader

`efi_main` is a sequence of firmware calls, and `pc` names the next.  Each may
fail for reasons of its own (`Fails`) or for those the model knows, and the
loader then gives up with what it has allocated.  The kernel's file is a record
of its program headers; loading a segment is allocating its pages, reading and
zeroing, with memory in cells so that a segment that is short or zeroed too far
shows.  The firmware may change its memory map between any two calls
(`disturbed`).  `AskSize` learns how large the map is, `AllocateMap` makes the
buffer, two descriptors larger, and may thereby add descriptors itself, and
`GetMap` fills it if the map still fits.

### SerialConsole

The same loader with the messages it prints between its steps.
`debug_print_line` writes to the serial port from `init_serial_service` on, and
to the firmware's console before.  `print_to_serial_out` reports that the port
fails by calling `debug_print_line`, so that the calls nest (`depth`) until a
write succeeds; each outer call then returns an error that its caller ignores,
and the loader goes on where it was.  What the messages say is left out.

### Ahci, PciBus

`PciBus` is the search for the MCFG table and the walk over buses, devices and
functions, with the indices the code uses: `find_table` compares the i-th table's
byte i four times, and the last bus of a segment is left out.  What it finds is
a set (`todo`), and the driver takes the controllers from it in the order of the
loops (`Precedes`).  `Ahci` is
`ahci/ahci.c`, one action per step of `ahci_driver_init` and `ahci_port_read` at
which a controller may act in between.  The port records come from
`dumbass_malloc`, whose heap was never given any room: it returns the null pointer
and all records are the one at address 0 (`records`), so that every
turn of the loop serves the disk probed last; `port_count` is never set back, so
that a second controller's loop begins with the first one's ports.  Where the
code goes on with what nobody has set (an array place that is no place, a table
that is not there, a page frame that could not be had), `pc` becomes
`"undefined"` and the modelled part ends.

The controllers are `Device`: a port notices some time after it was told that it
is to stop or to start, a command completes or fails, a busy device gets ready or
never does.  `ahci_port_stop_cmd` does not wait for the port to stop, so a port
may be started again without ever having stopped, with the firmware's command
list still in use; `missed` says that this happened.

`kernel_main`'s call of `prepare_acpi` is commented out (`kernel.c:188`): the
driver is complete and nothing reaches it at this commit.

## 4. Runs

| Run | Checks | Bounds |
| --- | --- | --- |
| `frames` | `Conservation`, `PoolSpec` under any calls; `CountersExact`, `FirmwareFramesSafe` while owners free their own pages | 5 frames, a bit per byte, counters modulo 6, three maps |
| `mouse` | `AdjacentBytes`, `StreamPhase`, `ShiftFollowsKey`, `PressTypesOnce`, `PointerSpec`, `KeepsListening`, `BytesAreRead`, `ConfigKept` | a 4 by 3 screen; two byte values; two presses of two keys and two movement bytes, or no keys and any number of bytes |
| `windows` | `WindowsFit`, `KeysBound`, `DragFollowsPointer`, `FocusedIsOpen`, `AppOwnsWindow`, `CloseWins`, `FramesEnd` | 3 applications, 2 icons, 2 commands, 5 mouse states, 4 slots |
| `editor` | `EditedFileOpens`, `BufferMatchesIndex`, `SelectIsServed` | 2 names, 2 files, 1 key, 3 cells |
| `editor_end` | violated: `EndWritesOneFile` | the same |
| `terminal` | `LinesSuffice`, `TypedOnly`, `ScreenIsCleared` | 6 lines of 4 cells, cleared above 2; 2 characters a line, 1 file, 3 keys during a clearing |
| `calculator` | `OperandsInOrder`, `DigitsOnly`, `ResultReadsBack` | digits 0 and 3, a buffer of 4, integers of 4 bits, an index modulo 6 |
| `rtc` | `NeverBehind`, `ShowsTime` | 3 fields with the values 9 and 10, two fields shown |
| `paint` | `BrushIsSquare`, `StrokeIsWhole` | a 4 by 3 canvas, two colours, a point inside and the last one |
| `page_tables` | `SpaceSpec` | 11 frames, exactly those the tables need, tables of 2, five addresses |
| `boot` | `KernelIsWhole`, `HandsOver`, `MapFits`, `LoaderEnds` | 7 kernels, 4 table lists, 5 pages of 2 cells, maps of up to 3 descriptors, a port that fails twice in a row |
| `ahci` | `VerdictsAreTrue`, `DmaStaysInBuffers`, `DriverEnds` | 7 machines with up to 4 disks on up to 2 controllers, 3 port places, 2 looks at a busy device |

Why the bounds are enough. *Frames*: five are enough for every order of the
statuses on neighbouring frames, for a hole, for a bit beyond memory and for
firmware pages above the bitmap. Counters modulo 6 make wrapping a matter of a
few calls. *Mouse*: the two bytes have both signs, an overflow and two of the
buttons; one of them is, as a code, the left shift key, so that a byte in the
wrong hands matters; the screen is smaller than a movement. Two presses allow
shift with a letter and the same key twice; two movement bytes and two answers
meet them at every point of `init_mouse`. The descriptor table is put above 64
KiB. *Windows*: the mouse states are points in real pixels that hit an icon,
the other icon, and at once the close button of one window and the title or
body of others; windows dragged to an icon's place put the third point in their
bodies. Two icons and two commands make up to four windows for three
applications, so an application can get two. *Editor*: three cells are overrun
by ENTER and a key; two names (one empty) and two files make duplicates and
saves of several files. *Terminal*: the screen is due for clearing after two
commands, the longest listing just fits behind the lines that are not, and a
key that comes at the wrong time goes beyond the last. *Calculator*: two digits
overflow an integer, one typed number is the one that stands for none, and the
index wraps after three backspaces. *Rtc*: the two values of a field are the
ones on which BCD and binary differ, a field can go up and set the others back,
and the clock can tick between any two ports. *Paint*: the first point has all its
neighbours, the last wraps and leaves the array. *Page tables*: the addresses
part at each of the four levels, and one table more would be one too many. *Boot*: the kernels are a good one, the other
class, one with nothing but zeros, one whose segments share a page, one without
segments, one for another byte order and a file that is no executable; two
failures in a row are the shortest nesting that is not just one call. *Ahci*: a
machine with one controller and two disks, one with two controllers, one with
more disks than places, one with the wrong table where the right one is looked
for, one without tables, and two on which the page frames run out, while a port
is configured and at a buffer.

Deadlock is not checked where the system may stop: a call through a wild
pointer, a lost terminal, the panic screen, a loader that has given up or
handed over, a disk driver that is through or undefined, keys and movement bytes
that have all been sent, and an allocator asked for nothing more.

### What the violated run shows

`editor_end`: END rewrites every file that was ever saved, since all saves copy
to one string literal; `src/README.md:68` says that END writes to file.

Other traits of the code that the models keep, without a run of their
own: frame 0 is the null pointer;
`write` leaves a file pointing into a dead stack frame; a keyless application's
window may have a wild handler; the least integer divided by -1 panics as a
division by zero does; a time may be read torn; the brush leaves the canvas at
its edges; a key pressed while `init_mouse` asks for the configuration byte
becomes the configuration; `drivers/mouse.c` checks bit 3 of a first byte with
an expression that is always 0, so a stream that is out of step stays so; the
disk driver's records are all at address 0, and it starts a port that may not
have stopped; a failing write to the serial port is reported by another write to
it, one call deeper each time, although the comment at
`src/src/bootloader/src/serial.c:118` speaks of the firmware's output.

## 5. Fairness

Liveness is checked under weak fairness of the one thread there is: `MainLoop` in
the window manager, `Select` in the editor, `terminal_update`, `KernelMain` of
`Interrupts`, `Driver` of `Ahci`, and in the boot loader `Thread` (`efi_main` and
its messages).  The code justifies it: each handler returns after finitely many
steps, the loops modelled step by step contain no wait but the two of
`ahci_port_read`, which are steps themselves, and the firmware's calls return.
It excludes only interrupts that come so fast that the thread never gets an
instruction in.

Hardware is assumed to do what hardware must: the processor takes a request that
it may take (`KeyboardInterrupt`, `MouseInterrupt`), the keyboard controller
delivers its own answer (`PutConfig`), a disk port that was started starts, and
one that works on a command completes or fails it.  A disk port need not notice
that it was stopped for a moment, and a busy device need not get ready.  Nothing
is assumed of keyboard, mouse and user.  `Calculator`, `Rtc`, `Paint` and
`PageTables` assume no fairness and check safety only.

`KeepsListening`: as long as the mouse sends, packets are completed and taken
apart again and again. `BytesAreRead`: a byte in the shared register is read,
so that the next one can come. `FramesEnd`: a frame ends however many windows
the shell opens in it. `SelectIsServed`: a click is served whatever is typed.
`ScreenIsCleared`: too long a screen is cleared. `LoaderEnds`: the loader hands
over or gives up, if the serial port fails only finitely often in a row
(`MaxFailures`). `DriverEnds`: the disk driver gets through, although its poll
has no limit, because a command that is not completed fails and an error bit is
looked at - unless a port was started again that had not stopped, which may
leave an old error halting it.

## 6. Proofs

All theorems hold for every value of the constants that satisfies the named
assumptions, which TLC evaluates in each run.

*Page frame allocator.*  `TypeCorrect`; `BitmapCorrect` (`BitmapMatchesLedger`),
which needs only types;
`MemoryConserved`, with the strengthening that nothing is counted before the map
is read, and the lemmas `WrapMultiple`, `WrapDecompose`, `WrapSum` that let
wrapped sums be compared; `ImplementsPool`, a refinement with
`BitmapMatchesLedger` and `HandedInBitmap` (a frame handed out has a bit in the
bitmap) as the invariant; `FirmwareFramesKept` and `CountersTellTheTruth` for
owners, the second with the lemmas `CountUnion` and `CountMinus` about
cardinalities.  `MapAssumption` says that a map fits in the frames modelled and
that a bitmap is found for it.

*Mouse driver.*  `TypeCorrect`; `PointerStaysOnScreen`; `PacketsDoNotTear`, whose
inductive invariant says that while the loop processes, the ready flag is up and
the packet is the one received; `PhaseCorrect`, an equation modulo 3 between the
stream's number, the driver's cycle and the bytes dropped, lost or added;
`PacketsAreAdjacentBytes`, from the numbers of the bytes stored so far.
`ImplementsPointer` is the refinement of the mailbox: every packet received is
applied to the pointer as a whole and once, before the next is received.  Its
invariant says how far the packet has been applied at each step of the processing
(`PartlyApplied`), so that the last step is the mailbox's and the others stutter.
That a packet is applied at all is `PointerSpec`'s fairness, which TLC checks.

*Interrupts.*  `MachineRunsDriver` carries them over to `Interrupts`: every step of the machine
is a step of the driver or a stutter, so what is proved of `MouseDriver` with any
order of bytes holds with the orders that can happen (for the
mailbox, `MachineImplementsPointer`).  `ConfigIsKept` proves
`ConfigKept`; its invariant says where the configuration byte is at each step of
the set-up (in the controller, on its way, in the register, read by a handler
and still in the register), which a key that comes early would overwrite.
`ShiftIsFollowed` and `PressesTypeOnce` are about the keyboard's bytes: those
underway, read one after the other, lead from the state the handler is in to where
the shift key is, and type what is owed (`KeysInv`; `Leads` and `Count` are over
the bytes in the keyboard and the one in the register that has not been read).
They hold with any keys and however the mouse's and the controller's bytes come
in between, until a byte goes astray.

*Window manager.*  `TypeCorrect` and `WindowsAlwaysFit` rest on one invariant.
Windows are opened from two sides, so the counter alone says nothing.  `Done` is
the number of icons whose application has had a window plus the number of
commands whose application has; `CountInv` says that the counter is at most
that, one more being allowed while the main loop has stored the counter but not
yet the pointer, unless the shell has meanwhile made a window for the same
application, which counts twice because it has an icon and a command.
`LaunchInv` (the order of the stores) and `IndexInv` (the loops stay in the
arrays) complete it.  `HandlersAreSet` needs that while `window_init`'s stores
are pending, all the init function's are.  `DragsFollowPointer` needs that what
is dragged is counted and older than the window being opened, so that no new
window takes its slot.  Until a command has come at the wrong moment:
`AppsOwnTheirWindows`, from what the window being opened has of its own
(`LaunchOwns`); `ClosesAlwaysWin`, from the windows already swept (`SweptInv`);
`FocusIsOpen`, from where a closed window can still have the focus inside the
loop (`FocusInv`) and from the geometry: a close button lies in its title bar
(`CloseInTitle`; windows are at least 20 pixels wide, an assumption).

*File editor.*  `TypeCorrect`; `FilesStayInUse`; and, until a key has come while
the button was served, `EditedFileIsFirst` (the file at hand is the first of its
name; `open` returns the least index, which the lemma `LeastOf` draws from
the well-founded order of the natural numbers), `TextIsBeforeIndex` and
`OpenedFileIsShown`, whose invariants say what the buffer holds at each step of
the button (`SelectInv`, `FirstInv`, `TextInv`).

*Calculator.*  `CalculatorTypeCorrect`; `OperandsComeInOrder`, whatever is typed
meanwhile, with the buttons' order as the strengthening (`ServedInv`);
`OnlyDigitsAreRead`, which says in addition where the buffer is blank
(`TypedInv`) and that the index of a key that is taken does not wrap
(`IndexCounts`).  `ResultsReadBack` rests on the lemma `ReadsBack`: what `__itoa`
and `strcpy` write over any text, `__strtoint` reads as the same int.  The
conversions are recursive functions; that these exist is the lemma
`RecursionExists`, and that the values read are the number without its last
digits is an induction over the digits (`UpTo`, from the least element of a set
of naturals).  The assumption `DigitsFit` says that the buffer has room for the
digits of any int: in the code 30 characters, for 10 digits.

*Terminal.*  One inductive invariant, `TerminalInv`, says what the last line and
those behind it hold, and how far a clearing has come, until a key has overtaken
the main loop; from it `TerminalTypeCorrect` and `LastLineIsTyped`.
`LinesAlwaysSuffice` has a hypothesis: what `cat` prints, and what `ls` prints of
all the files there may be, fits behind the lines that do not yet make the main
loop clear.  With 100 lines and clearing above 34 that is up to 32 files.  The
file system has room for 500, so with more files `ls` does run past the lines.

*Clock.*  `TypeCorrect`; `FieldsCorrect` and `TopBarShowsTime`, by following a
reading through its steps (`Progress`, `FieldsInv`, `ShowsInv`).
`ReadingNeverBehind` is about the time made of the fields read so far and of
those the clock still shows (`Mixed`): it is never before the time the reading
began, and neither a tick nor a read takes it back (`AheadInv`).

*Paint.*  `PaintTypeCorrect`; `BrushStaysSquare`; `StrokesAreWhole`, whose
invariant says which of the nine pixels have been painted (`StrokeInv`).

*Page tables.*  `MappingImplementsSpace`: after mapping in any order, every
address translates to the frame it was mapped to last, and mapping one does not
move another.  Its invariant, `TablesStaySeparate`, is that an entry above the
last level belongs to one table only, that no table is the null pointer or a frame
the allocator still has, and that every frame is left or holds a table that an
address needs.  Two hypotheses, both of which the code leaves to its surroundings:
frames are blank when they are requested (`m_memset` does not clear them), and
there is one for each table the addresses need (`EnoughFrames`; an exhausted
allocator returns the null pointer, which the code uses).

*Disk driver.*  `TypeCorrect`, `BuffersOnly` and `TrueVerdicts`, for any machines,
from one invariant, `AhciInv`: a port works on a command only while the driver
polls for it; its command lists are pages the driver requested; until a port was
started again that had not stopped, it follows the list it was given last, whose
command is the read in progress (`PortsOK`, `PortOK`); pages come in groups of 35
for each disk, so that a buffer is told from a list by its number (`PagesOK`); and
what has been written says what the port's registers will (`WrittenOK`).

*Boot loader.* `TypeCorrect`; `KeyStaysFresh`; `MapAlwaysFits`;
`LoaderHandsOver`; `RootPointerFound`; `KernelLoadedWhole`, whose invariant
says what each program header that is through has put in memory, on pages of
its own, and needs the geometry of pages and cells for any page size.
`ConsoleRunsLoader` says that every step of `SerialConsole` is a step of the
loader or a stutter, from which `KernelWholeWithMessages` and
`HandsOverWithMessages`.

The type invariants, `BitmapMatchesLedger`, `PacketStable`, `PointerOnScreen`,
`FilesInUse`, `OpenShowsFile`,
`FieldsInRange`, `KeyIsFresh`, `RsdpIsRootPointer` and the invariant of the page
tables are proved and not among the runs' properties.

Only model-checked: liveness (`KeepsListening`, `BytesAreRead`, `FramesEnd`,
`SelectIsServed`, `ScreenIsCleared`, `LoaderEnds`, `DriverEnds`) and the fairness
in `PointerSpec`.  `ENABLED` and liveness are out of the prover's reach.

## 7. Not modelled

Components: drawing, text layout and colours; the heap of `heap/heap.c`, of which
the kernel has none; the panic screen; the segment table, written once; the
kernel's serial port, which is only written to; the rest of `kernel_main`'s
start-up sequence.

Functions that nothing calls: `set_time`, `ramfs_delete`, `__free`,
`get_input_keycode`, `scan_keycode`, `read_mouse_movement`,
`get_mouse_down_once`, the interval timer's waits.

Inside the components: the shell's `panic` and `set`; text beyond a line's last
column; the memory before the calculator's buffer, into which backspace on an
empty number writes; the clock's update flag, which the code does not look at;
uninitialised pointers other than two that may be the same; page frames that run
out or hold stale entries while tables are built; the names the PCI walk prints;
short reads in the boot
loader, what its messages say, and its wait for a key after a fatal error.
`PROJECT.json` lists every part with the reason, and under `hazards` what each
exposes.
