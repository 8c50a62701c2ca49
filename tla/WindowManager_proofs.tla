------------------------- MODULE WindowManager_proofs --------------------------

(* Theorems about the desktop, for any applications, icons and commands,   *)
(* any windows on the screen and anything the mouse does.                  *)
EXTENDS WindowManager, FiniteSetTheorems, TLAPS

(* The constants' types.                                                   *)
LEMMA SizesTyped == NWindows \in Nat
BY SizeAssumption

(* Each icon has an application.                                           *)
LEMMA IconsTyped ==
  /\ Len(Icons) \in Nat /\ DOMAIN Icons = 1 .. Len(Icons)
  /\ \A k \in 1 .. Len(Icons) : Icons[k] \in Apps
BY AppsAssumption

(* The names and numbers that stand for none are none of them.             *)
LEMMA AppsTyped ==
  /\ Terminal \in Apps /\ Terminal \notin KeylessApps /\ ShellApps \subseteq Apps
  /\ "none" \notin Apps /\ "garbage" \notin Apps
  /\ NULL \notin Slots /\ Slots \subseteq Nat
<1>1. NULL \notin Slots /\ Slots \subseteq Nat
  BY SizesTyped DEF NULL, Slots
<1> QED
  BY <1>1, AppsAssumption

(* What is left to store is of the terminal's list, which is the longest.  *)
LEMMA AfterTyped == \A a \in Apps : Inside \cup After(a) \subseteq Inside \cup After(Terminal)
BY AppsTyped DEF After

-----------------------------------------------------------------------------

(* How many applications have had a window, by icon and by command.        *)

IconsOf(owners) == {k \in 1 .. Len(Icons) : owners[Icons[k]] # NULL}
ShellOf(owners) == {a \in ShellApps : owners[a] # NULL}
Done(owners) == Cardinality(IconsOf(owners)) + Cardinality(ShellOf(owners))

(* The figure has a bound.                                                 *)
LEMMA DoneTyped ==
  ASSUME NEW owners
  PROVE  /\ IsFiniteSet(IconsOf(owners)) /\ IsFiniteSet(ShellOf(owners))
         /\ Cardinality(IconsOf(owners)) \in 0 .. Len(Icons)
         /\ Cardinality(ShellOf(owners)) \in 0 .. Cardinality(ShellApps)
         /\ Cardinality(ShellApps) \in Nat
         /\ Done(owners) \in 0 .. NWindows
<1>1. IsFiniteSet(1 .. Len(Icons)) /\ Cardinality(1 .. Len(Icons)) = Len(Icons)
  BY FS_Interval, IconsTyped
<1>2. IsFiniteSet(ShellApps)
  BY SizeAssumption
<1>3. /\ IsFiniteSet(IconsOf(owners))
      /\ Cardinality(IconsOf(owners)) <= Len(Icons)
  BY <1>1, FS_Subset DEF IconsOf
<1>4. /\ IsFiniteSet(ShellOf(owners))
      /\ Cardinality(ShellOf(owners)) <= Cardinality(ShellApps)
  BY <1>2, FS_Subset DEF ShellOf
<1>5. /\ Cardinality(IconsOf(owners)) \in Nat /\ Cardinality(ShellOf(owners)) \in Nat
      /\ Cardinality(ShellApps) \in Nat
  BY <1>2, <1>3, <1>4, FS_CardinalityType
<1> DEFINE ci == Cardinality(IconsOf(owners))
           cs == Cardinality(ShellOf(owners))
           ca == Cardinality(ShellApps)
           n == Len(Icons)
<1>6. NWindows >= n + ca
  BY SizeAssumption
<1>7. n \in Nat
  BY IconsTyped
<1>8. ci <= n /\ cs <= ca /\ ci \in Nat /\ cs \in Nat /\ ca \in Nat
  BY <1>3, <1>4, <1>5
<1> HIDE DEF ci, cs, ca, n
<1>9. ci \in 0 .. n /\ cs \in 0 .. ca /\ ci + cs \in 0 .. NWindows
  BY <1>6, <1>7, <1>8, SizesTyped
<1> QED
  BY <1>3, <1>4, <1>8, <1>9 DEF Done, ci, cs, ca, n

(* Who has a window keeps it, so the figure never falls; it grows with     *)
(* each application that gets its first, once for its icon and once for    *)
(* its command.                                                            *)
LEMMA DoneGrows ==
  ASSUME NEW old, NEW new, \A a \in Apps : old[a] # NULL => new[a] # NULL
  PROVE  /\ Cardinality(IconsOf(old)) <= Cardinality(IconsOf(new))
         /\ Cardinality(ShellOf(old)) <= Cardinality(ShellOf(new))
<1>1. IconsOf(old) \subseteq IconsOf(new) /\ ShellOf(old) \subseteq ShellOf(new)
  BY IconsTyped, AppsTyped DEF IconsOf, ShellOf
<1> QED
  BY <1>1, DoneTyped, FS_Subset

(* An application's first window counts for its icon,                      *)
LEMMA IconCounts ==
  ASSUME NEW old, NEW new, \A a \in Apps : old[a] # NULL => new[a] # NULL,
         NEW k \in 1 .. Len(Icons), old[Icons[k]] = NULL, new[Icons[k]] # NULL
  PROVE  Cardinality(IconsOf(old)) + 1 <= Cardinality(IconsOf(new))
<1>1. k \in IconsOf(new) /\ IconsOf(old) \subseteq IconsOf(new) \ {k}
  BY IconsTyped DEF IconsOf
<1>2. IsFiniteSet(IconsOf(new) \ {k}) /\ Cardinality(IconsOf(new) \ {k}) = Cardinality(IconsOf(new)) - 1
  BY <1>1, DoneTyped, FS_RemoveElement
<1>3. Cardinality(IconsOf(old)) <= Cardinality(IconsOf(new) \ {k})
  BY <1>1, <1>2, FS_Subset
<1>4. Cardinality(IconsOf(old)) \in Nat /\ Cardinality(IconsOf(new)) \in Nat
  BY DoneTyped, FS_CardinalityType
<1> QED
  BY <1>2, <1>3, <1>4

(* and for its command.                                                    *)
LEMMA CommandCounts ==
  ASSUME NEW old, NEW new, \A a \in Apps : old[a] # NULL => new[a] # NULL,
         NEW b \in ShellApps, old[b] = NULL, new[b] # NULL
  PROVE  Cardinality(ShellOf(old)) + 1 <= Cardinality(ShellOf(new))
<1>1. b \in ShellOf(new) /\ ShellOf(old) \subseteq ShellOf(new) \ {b}
  BY AppsTyped DEF ShellOf
<1>2. IsFiniteSet(ShellOf(new) \ {b}) /\ Cardinality(ShellOf(new) \ {b}) = Cardinality(ShellOf(new)) - 1
  BY <1>1, DoneTyped, FS_RemoveElement
<1>3. Cardinality(ShellOf(old)) <= Cardinality(ShellOf(new) \ {b})
  BY <1>1, <1>2, FS_Subset
<1>4. Cardinality(ShellOf(old)) \in Nat /\ Cardinality(ShellOf(new)) \in Nat
  BY DoneTyped, FS_CardinalityType
<1> QED
  BY <1>2, <1>3, <1>4

(* As long as an application with an icon, or with a command, has none,    *)
(* the figure is below its bound.                                          *)
LEMMA IconLeft ==
  ASSUME NEW owners, NEW k \in 1 .. Len(Icons), owners[Icons[k]] = NULL
  PROVE  Done(owners) + 1 <= Len(Icons) + Cardinality(ShellApps)
<1>1. IsFiniteSet(1 .. Len(Icons)) /\ Cardinality(1 .. Len(Icons)) = Len(Icons)
  BY FS_Interval, IconsTyped
<1>2. IconsOf(owners) \subseteq (1 .. Len(Icons)) \ {k}
  BY DEF IconsOf
<1>3. IsFiniteSet((1 .. Len(Icons)) \ {k}) /\ Cardinality((1 .. Len(Icons)) \ {k}) = Len(Icons) - 1
  BY <1>1, FS_RemoveElement
<1>4. Cardinality(IconsOf(owners)) <= Len(Icons) - 1
  BY <1>2, <1>3, FS_Subset
<1> QED
  BY <1>4, DoneTyped, IconsTyped DEF Done

(* The same for a command.                                                 *)
LEMMA CommandLeft ==
  ASSUME NEW owners, NEW b \in ShellApps, owners[b] = NULL
  PROVE  Done(owners) + 1 <= Len(Icons) + Cardinality(ShellApps)
<1>1. ShellOf(owners) \subseteq ShellApps \ {b}
  BY DEF ShellOf
<1>2. IsFiniteSet(ShellApps \ {b}) /\ Cardinality(ShellApps \ {b}) = Cardinality(ShellApps) - 1
  BY SizeAssumption, FS_RemoveElement
<1>3. Cardinality(ShellOf(owners)) <= Cardinality(ShellApps) - 1
  BY <1>1, <1>2, FS_Subset
<1> QED
  BY <1>3, DoneTyped, IconsTyped DEF Done

-----------------------------------------------------------------------------

(* The counter.                                                            *)

(* Every window that is counted is some application's first: the one that  *)
(* the main loop is opening counts if the shell has not opened one for the *)
(* same application since.                                                 *)
Fresh(owners, l) == IF owners[l.app] = NULL THEN 1 ELSE 0
Counted(n, owners, l) ==
  /\ "pointer" \in l.todo => /\ \E k \in 1 .. Len(Icons) : Icons[k] = l.app
                             /\ l.slot + 1 <= Done(owners) + Fresh(owners, l)
  /\ n <= Done(owners) +
       (IF "pointer" \in l.todo /\ "count" \notin l.todo THEN Fresh(owners, l) ELSE 0)

(* The figures are numbers.                                                *)
LEMMA DoneIsNat ==
  ASSUME NEW owners, NEW l
  PROVE  Done(owners) \in Nat /\ Fresh(owners, l) \in 0 .. 1
<1>1. Done(owners) \in Nat
  BY DoneTyped, SizesTyped
<1> QED
  BY <1>1 DEF Fresh

(* The array is long enough.                                               *)
LEMMA CountedBound ==
  ASSUME NEW n \in Nat, NEW owners, NEW l, Counted(n, owners, l)
  PROVE  /\ n <= Len(Icons) + Cardinality(ShellApps) /\ n \in 0 .. NWindows
         /\ "pointer" \in l.todo /\ l.slot \in Nat => l.slot \in Slots
<1> DEFINE d == Done(owners)
           f == Fresh(owners, l)
           most == Len(Icons) + Cardinality(ShellApps)
<1>1. d \in Nat /\ f \in 0 .. 1 /\ most \in Nat /\ NWindows \in Nat /\ most <= NWindows
  BY DoneIsNat, DoneTyped, IconsTyped, SizeAssumption
<1>2. d <= most
  <2>1. /\ Cardinality(IconsOf(owners)) \in 0 .. Len(Icons) /\ Len(Icons) \in Nat
        /\ Cardinality(ShellOf(owners)) \in 0 .. Cardinality(ShellApps)
        /\ Cardinality(ShellApps) \in Nat
    BY DoneTyped, IconsTyped
  <2> QED
    BY <2>1 DEF Done
<1>3. "pointer" \in l.todo => d + f <= most
  <2> SUFFICES ASSUME "pointer" \in l.todo PROVE d + f <= most
    OBVIOUS
  <2>1. PICK k \in 1 .. Len(Icons) : Icons[k] = l.app
    BY DEF Counted
  <2>2. CASE owners[l.app] = NULL
    <3>1. d + 1 <= most
      BY <2>1, <2>2, IconLeft
    <3> QED
      BY <1>1, <2>2, <3>1 DEF Fresh
  <2>3. CASE owners[l.app] # NULL
    BY <1>1, <1>2, <2>3 DEF Fresh
  <2> QED
    BY <2>2, <2>3
<1>4. /\ "pointer" \in l.todo => l.slot + 1 <= d + f
      /\ n <= d \/ ("pointer" \in l.todo /\ n <= d + f)
  <2>1. "pointer" \in l.todo => l.slot + 1 <= d + f
    BY DEF Counted
  <2>2. CASE "pointer" \in l.todo /\ "count" \notin l.todo
    BY <2>1, <2>2 DEF Counted
  <2>3. CASE ~("pointer" \in l.todo /\ "count" \notin l.todo)
    <3>1. n <= d + 0
      BY <2>3 DEF Counted
    <3> QED
      BY <1>1, <2>1, <3>1
  <2> QED
    BY <2>2, <2>3
<1> HIDE DEF d, f, most
<1>5. n <= most
  BY <1>1, <1>2, <1>3, <1>4
<1>6. n \in 0 .. NWindows
  BY <1>1, <1>5
<1>7. ASSUME "pointer" \in l.todo, l.slot \in Nat
      PROVE  l.slot \in Slots
  <2>1. l.slot + 1 <= d + f /\ d + f <= most
    BY <1>3, <1>4, <1>7
  <2> HIDE DEF Slots
  <2>2. l.slot \in 0 .. NWindows - 1
    BY <1>1, <1>7, <2>1
  <2> QED
    BY <2>2 DEF Slots
<1> QED
  BY <1>5, <1>6, <1>7 DEF most

(* What each kind of step does to the counter and to those who are         *)
(* counted.                                                                *)
LEMMA CountedBegins ==
  ASSUME NEW n \in Nat, NEW owners, NEW l, l.todo = {}, Counted(n, owners, l),
         NEW k \in 1 .. Len(Icons), owners[Icons[k]] = NULL,
         NEW m, m = [app |-> Icons[k], slot |-> n, todo |-> Inside \cup After(Icons[k])]
  PROVE  Counted(n, owners, m)
<1> DEFINE d == Done(owners)
<1>1. d \in Nat
  BY DoneIsNat
<1>2. n <= d + 0
  BY DEF Counted
<1>3. Fresh(owners, m) = 1 /\ m.slot = n /\ m.app = Icons[k]
  BY DEF Fresh
<1>4. "count" \in m.todo
  BY DEF Inside
<1> HIDE DEF d
<1>5. n <= d + 0 /\ n + 1 <= d + 1
  BY <1>1, <1>2
<1>6. m.slot + 1 <= d + Fresh(owners, m)
  BY <1>3, <1>5
<1>7. n <= d + (IF "pointer" \in m.todo /\ "count" \notin m.todo THEN Fresh(owners, m) ELSE 0)
  BY <1>4, <1>5
<1> QED
  BY <1>3, <1>6, <1>7 DEF Counted, d

(* Storing the counter counts the window being opened.                     *)
LEMMA CountedStoresCount ==
  ASSUME NEW n \in Nat, NEW owners, NEW l, "pointer" \in l.todo, Counted(n, owners, l),
         NEW m, m.app = l.app, m.slot = l.slot, m.todo = l.todo \ {"count"}
  PROVE  Counted(l.slot + 1, owners, m)
<1>1. "pointer" \in m.todo /\ "count" \notin m.todo /\ Fresh(owners, m) = Fresh(owners, l)
  BY DEF Fresh
<1>2. (\E k \in 1 .. Len(Icons) : Icons[k] = l.app) /\ l.slot + 1 <= Done(owners) + Fresh(owners, l)
  BY DEF Counted
<1> QED
  BY <1>1, <1>2 DEF Counted

(* Storing the pointer makes its application one that has a window.        *)
LEMMA CountedStoresPointer ==
  ASSUME NEW n \in Nat, NEW old, NEW new, NEW l,
         "pointer" \in l.todo, "count" \notin l.todo, Counted(n, old, l),
         \A a \in Apps : old[a] # NULL => new[a] # NULL, new[l.app] # NULL,
         NEW m, m.todo = l.todo \ {"pointer"}
  PROVE  Counted(n, new, m)
<1> DEFINE ci == Cardinality(IconsOf(old))
           cs == Cardinality(ShellOf(old))
           di == Cardinality(IconsOf(new))
           ds == Cardinality(ShellOf(new))
           f  == Fresh(old, l)
<1>1. ci \in Nat /\ cs \in Nat /\ di \in Nat /\ ds \in Nat /\ f \in 0 .. 1
  BY DoneTyped, FS_CardinalityType, DoneIsNat
<1>2. ci <= di /\ cs <= ds
  BY DoneGrows
<1>3. n <= ci + cs + f
  BY DEF Counted, Done
<1>4. f = 1 => ci + 1 <= di
  <2> SUFFICES ASSUME f = 1 PROVE ci + 1 <= di
    OBVIOUS
  <2>1. old[l.app] = NULL
    BY DEF Fresh
  <2>2. PICK k \in 1 .. Len(Icons) : Icons[k] = l.app
    BY DEF Counted
  <2> QED
    BY <2>1, <2>2, IconCounts
<1> HIDE DEF ci, cs, di, ds, f
<1>5. n <= (di + ds) + 0
  BY <1>1, <1>2, <1>3, <1>4
<1>6. "pointer" \notin m.todo
  OBVIOUS
<1> QED
  BY <1>5, <1>6 DEF Counted, Done, di, ds

(* The other stores leave the counting alone.                              *)
LEMMA CountedStoresOther ==
  ASSUME NEW n \in Nat, NEW owners, NEW l, Counted(n, owners, l),
         NEW store \in {"record", "keys", "focus"},
         NEW m, m.app = l.app, m.slot = l.slot, m.todo = l.todo \ {store}
  PROVE  Counted(n, owners, m)
<1>1. /\ "pointer" \in m.todo <=> "pointer" \in l.todo
      /\ "count" \in m.todo <=> "count" \in l.todo
      /\ Fresh(owners, m) = Fresh(owners, l)
  BY DEF Fresh
<1> QED
  BY <1>1 DEF Counted

(* With nothing left to store, nothing is pending.                         *)
LEMMA CountedEnds ==
  ASSUME NEW n \in Nat, NEW owners, NEW l, l.todo = {}, Counted(n, owners, l), NEW m, m.todo = {}
  PROVE  Counted(n, owners, m)
BY DEF Counted

(* A window that the shell opens for the application the main loop is      *)
(* opening counts twice, since that application has an icon too.           *)
LEMMA CountedShell ==
  ASSUME NEW n \in Nat, NEW old, NEW new, NEW l, l.app \in Apps, l.slot \in Nat \cup {NULL},
         Counted(n, old, l), NEW b \in ShellApps, old[b] = NULL, new[b] # NULL,
         \A a \in Apps \ {b} : new[a] = old[a]
  PROVE  Counted(n + 1, new, l)
<1> DEFINE ci == Cardinality(IconsOf(old))
           cs == Cardinality(ShellOf(old))
           di == Cardinality(IconsOf(new))
           ds == Cardinality(ShellOf(new))
           f  == Fresh(old, l)
           g  == Fresh(new, l)
           s  == l.slot
<1>1. ci \in Nat /\ cs \in Nat /\ di \in Nat /\ ds \in Nat /\ f \in 0 .. 1 /\ g \in 0 .. 1
  BY DoneTyped, FS_CardinalityType, DoneIsNat
<1>2. s + 0 \in Int /\ s \in Int
  BY DEF NULL
<1>3. \A a \in Apps : old[a] # NULL => new[a] # NULL
  OBVIOUS
<1>4. ci <= di /\ cs + 1 <= ds
  BY <1>3, DoneGrows, CommandCounts
<1>5. l.app # b => f = g
  BY DEF Fresh
<1>6. l.app = b /\ "pointer" \in l.todo => ci + 1 <= di
  <2> SUFFICES ASSUME l.app = b, "pointer" \in l.todo PROVE ci + 1 <= di
    OBVIOUS
  <2>1. PICK k \in 1 .. Len(Icons) : Icons[k] = l.app
    BY DEF Counted
  <2> QED
    BY <1>3, <2>1, IconCounts
<1>7. "pointer" \in l.todo => ci + cs + f + 1 <= di + ds + g
  <2> SUFFICES ASSUME "pointer" \in l.todo PROVE ci + cs + f + 1 <= di + ds + g
    OBVIOUS
  <2>1. f = g \/ ci + 1 <= di
    BY <1>5, <1>6
  <2> HIDE DEF ci, cs, di, ds, f, g
  <2> QED
    BY <1>1, <1>4, <2>1
<1>8. "pointer" \in l.todo => s + 1 <= (ci + cs) + f
  BY DEF Counted, Done
<1>9. n <= (ci + cs) + (IF "pointer" \in l.todo /\ "count" \notin l.todo THEN f ELSE 0)
  BY DEF Counted, Done
<1>10. "pointer" \in l.todo => s + 1 <= (di + ds) + g
  <2> HIDE DEF ci, cs, di, ds, f, g, s
  <2> QED
    BY <1>1, <1>2, <1>7, <1>8
<1>11. n + 1 <= (di + ds) + (IF "pointer" \in l.todo /\ "count" \notin l.todo THEN g ELSE 0)
  <2> HIDE DEF ci, cs, di, ds, f, g, s
  <2>1. CASE "pointer" \in l.todo /\ "count" \notin l.todo
    <3>1. n <= (ci + cs) + f
      BY <1>9, <2>1
    <3>2. n + 1 <= (di + ds) + g
      BY <1>1, <1>7, <2>1, <3>1
    <3> QED
      BY <2>1, <3>2
  <2>2. CASE ~("pointer" \in l.todo /\ "count" \notin l.todo)
    <3>1. n <= (ci + cs) + 0
      BY <1>9, <2>2
    <3>2. n + 1 <= (di + ds) + 0
      BY <1>1, <1>4, <3>1
    <3> QED
      BY <2>2, <3>2
  <2> QED
    BY <2>1, <2>2
<1>12. "pointer" \in l.todo => \E k \in 1 .. Len(Icons) : Icons[k] = l.app
  BY DEF Counted
<1> QED
  BY <1>10, <1>11, <1>12 DEF Counted, Done, di, ds, g, s

-----------------------------------------------------------------------------

(* The inductive invariant.                                                *)

(* Stores are pending only inside an init function, and those of the init  *)
(* function itself wait for those of window_init.                          *)
LaunchInv ==
  /\ pc \notin {"launch", "lost"} => launch.todo = {}
  /\ launch.todo # {} => launch.slot # NULL
  /\ launch.todo \cap Inside # {} => After(launch.app) \subseteq launch.todo

(* The loops stay within the arrays.                                       *)
IndexInv ==
  /\ pc \in {"launch", "icon drag"} => i \in 1 .. Len(Icons)
  /\ pc = "hit" => i \in Slots /\ i < window_count

CountInv == Counted(window_count, app_window, launch)

Inv == TypeOK /\ LaunchInv /\ IndexInv /\ CountInv

(* What a step of the launch leaves to store.                              *)
LEMMA StepStores ==
  ASSUME NEW store, LaunchStep(store), TypeOK
  PROVE  /\ launch'.app = launch.app /\ launch'.slot = launch.slot
         /\ launch'.todo = launch.todo \ {store}
BY DEF LaunchStep, TypeOK, LaunchTyped

(* Every step keeps the counting.                                          *)
LEMMA CountNext ==
  ASSUME Inv, [Next]_vars
  PROVE  CountInv'
<1> USE DEF Inv
<1>0. window_count \in Nat /\ CountInv /\ launch.app \in Apps /\ launch.slot \in Nat \cup {NULL}
  <2>1. window_count \in 0 .. NWindows
    BY DEF TypeOK, ManagerTyped
  <2>2. launch.app \in Apps /\ launch.slot \in Slots \cup {NULL}
    BY DEF TypeOK, LaunchTyped
  <2>3. window_count \in Nat
    BY <2>1, SizesTyped
  <2>4. launch.slot \in Nat \cup {NULL}
    BY <2>2, AppsTyped
  <2>5. CountInv
    OBVIOUS
  <2> QED
    BY <2>2, <2>3, <2>4, <2>5
<1>1. ASSUME UNCHANGED <<window_count, app_window, launch>>
      PROVE  CountInv'
  BY <1>0, <1>1 DEF CountInv
<1>2. CASE LaunchBegins
  <2>1. i \in 1 .. Len(Icons) /\ app_window[Icons[i]] = NULL /\ launch.todo = {}
    BY <1>2 DEF LaunchBegins, Clicked, Goto, LaunchInv, TypeOK, DesktopTyped
  <2>2. /\ UNCHANGED <<window_count, app_window>>
        /\ launch' = [app |-> Icons[i], slot |-> window_count, todo |-> Inside \cup After(Icons[i])]
    BY <1>2 DEF LaunchBegins, manager
  <2>3. Counted(window_count, app_window, launch')
    BY <1>0, <2>1, <2>2, CountedBegins DEF CountInv
  <2> QED
    BY <2>2, <2>3 DEF CountInv
<1>3. ASSUME NEW store \in launch.todo, LaunchStep(store)
      PROVE  CountInv'
  <2>1. /\ launch'.app = launch.app /\ launch'.slot = launch.slot
        /\ launch'.todo = launch.todo \ {store}
    BY <1>3, StepStores
  <2>2. CASE store = "count" /\ StoreCount
    <3>1. "pointer" \in launch.todo
      BY <1>3, <2>2 DEF LaunchInv, Inside, After
    <3>2. Counted(launch.slot + 1, app_window, launch')
      BY <1>0, <2>1, <2>2, <3>1, CountedStoresCount DEF CountInv
    <3> QED
      BY <2>2, <3>2 DEF CountInv, StoreCount
  <2>3. CASE store = "pointer" /\ StorePointer
    <3>1. "pointer" \in launch.todo /\ "count" \notin launch.todo
      BY <1>3, <2>3 DEF LaunchStep, Inside
    <3>2. app_window' = [app_window EXCEPT ![launch.app] = launch.slot] /\ UNCHANGED window_count
      BY <2>3 DEF StorePointer
    <3>3. app_window \in [Apps -> Slots \cup {NULL}] /\ launch.slot # NULL
      BY <1>3 DEF TypeOK, ManagerTyped, LaunchInv
    <3>4. /\ \A a \in Apps : app_window[a] # NULL => app_window'[a] # NULL
          /\ app_window'[launch.app] # NULL
      BY <1>0, <3>2, <3>3
    <3>5. Counted(window_count, app_window', launch')
      BY <1>0, <2>1, <2>3, <3>1, <3>4, CountedStoresPointer DEF CountInv
    <3> QED
      BY <3>2, <3>5 DEF CountInv
  <2>4. CASE store \in {"record", "keys", "focus"} /\ UNCHANGED <<window_count, app_window>>
    <3>1. Counted(window_count, app_window, launch')
      BY <1>0, <2>1, <2>4, CountedStoresOther DEF CountInv
    <3> QED
      BY <2>4, <3>1 DEF CountInv
  <2> QED
    BY <1>3, <2>2, <2>3, <2>4 DEF LaunchStep, StoreRecord, StoreKeys, StoreFocus
<1>4. CASE LaunchEnds
  <2>1. launch.todo = {} /\ launch'.todo = {} /\ UNCHANGED <<window_count, app_window>>
    BY <1>4 DEF LaunchEnds, NoLaunch, manager
  <2>2. Counted(window_count, app_window, launch')
    BY <1>0, <2>1, CountedEnds DEF CountInv
  <2> QED
    BY <2>1, <2>2 DEF CountInv
<1>5. ASSUME NEW app \in ShellApps, ShellLaunch(app)
      PROVE  CountInv'
  <2>1. /\ app_window[app] = NULL /\ window_count' = window_count + 1
        /\ app_window' = [app_window EXCEPT ![app] = window_count] /\ UNCHANGED launch
    BY <1>5 DEF ShellLaunch, frame
  <2>2. app_window \in [Apps -> Slots \cup {NULL}] /\ app \in Apps
    BY <1>5, AppsTyped DEF TypeOK, ManagerTyped
  <2>3. app_window'[app] # NULL /\ \A a \in Apps \ {app} : app_window'[a] = app_window[a]
    <3>1. window_count # NULL
      BY <1>0 DEF NULL
    <3> QED
      BY <2>1, <2>2, <3>1
  <2>4. Counted(window_count + 1, app_window', launch)
    BY <1>0, <2>1, <2>3, CountedShell DEF CountInv
  <2> QED
    BY <2>1, <2>4 DEF CountInv
<1>6. ASSUME NEW app \in ShellApps, ShellReopen(app)
      PROVE  CountInv'
  BY <1>1, <1>6 DEF ShellReopen, frame
<1>7. CASE Packet \/ IconIdle \/ Reopen \/ IconGrab \/ IconMove
  BY <1>1, <1>7 DEF Packet, IconIdle, Reopen, IconGrab, IconMove, manager
<1>8. CASE SkipClosed \/ Render \/ Hit \/ EndFrame \/ WildCall
  BY <1>1, <1>8 DEF SkipClosed, Render, Hit, EndFrame, WildCall, manager
<1>9. CASE UNCHANGED vars
  BY <1>1, <1>9 DEF vars, manager
<1> QED
  BY <1>2, <1>3, <1>4, <1>5, <1>6, <1>7, <1>8, <1>9
     DEF Next, MainLoop, Launching, keyboard_int_handler, ShellOpens

(* Every step keeps the order of the stores.                               *)
LEMMA LaunchNext ==
  ASSUME Inv, [Next]_vars
  PROVE  LaunchInv'
<1> USE DEF Inv
<1>1. ASSUME UNCHANGED launch, pc' \in {"launch", "lost"} \/ (pc \notin {"launch", "lost"})
      PROVE  LaunchInv'
  BY <1>1 DEF LaunchInv
<1>2. CASE LaunchBegins
  <2>1. /\ pc' = "launch" /\ launch'.app = Icons[i] /\ launch'.slot = window_count
        /\ launch'.todo = Inside \cup After(Icons[i])
    BY <1>2 DEF LaunchBegins, Goto
  <2>2. window_count # NULL
    BY SizesTyped DEF TypeOK, ManagerTyped, NULL
  <2> QED
    BY <2>1, <2>2 DEF LaunchInv
<1>3. ASSUME NEW store \in launch.todo, LaunchStep(store)
      PROVE  LaunchInv'
  <2>1. /\ launch'.app = launch.app /\ launch'.slot = launch.slot
        /\ launch'.todo = launch.todo \ {store} /\ pc' = "launch"
    BY <1>3, StepStores DEF LaunchStep
  <2>2. launch'.todo \cap Inside # {} => store \in Inside /\ After(launch.app) \subseteq launch.todo
    BY <1>3, <2>1 DEF LaunchStep, LaunchInv
  <2>3. Inside \cap After(launch.app) = {}
    BY DEF Inside, After
  <2> QED
    BY <1>3, <2>1, <2>2, <2>3 DEF LaunchInv
<1>4. CASE LaunchEnds
  BY <1>4 DEF LaunchEnds, NoLaunch, LaunchInv
<1>5. ASSUME NEW app \in ShellApps, ShellLaunch(app) \/ ShellReopen(app)
      PROVE  LaunchInv'
  BY <1>5 DEF ShellLaunch, ShellReopen, frame, LaunchInv
<1>6. CASE Packet \/ IconIdle \/ Reopen \/ IconGrab \/ IconMove
  BY <1>1, <1>6 DEF Packet, IconIdle, Reopen, IconGrab, IconMove, Goto
<1>7. CASE SkipClosed \/ Render \/ Hit \/ EndFrame \/ WildCall
  BY <1>1, <1>7 DEF SkipClosed, Render, Hit, EndFrame, WildCall, Goto
<1>8. CASE UNCHANGED vars
  BY <1>8 DEF vars, LaunchInv
<1> QED
  BY <1>2, <1>3, <1>4, <1>5, <1>6, <1>7, <1>8
     DEF Next, MainLoop, Launching, keyboard_int_handler, ShellOpens

(* Every step keeps the loops in the arrays.                               *)
LEMMA IndexNext ==
  ASSUME Inv, [Next]_vars
  PROVE  IndexInv'
<1> USE DEF Inv
<1>0. window_count \in 0 .. NWindows /\ i \in Nat
  BY DEF TypeOK, LoopTyped, ManagerTyped
<1>1. ASSUME pc' \notin {"launch", "icon drag", "hit"}
      PROVE  IndexInv'
  BY <1>1 DEF IndexInv
<1>2. CASE IconIdle \/ Reopen \/ LaunchBegins
  BY <1>2 DEF IconIdle, Reopen, LaunchBegins, Clicked, Goto, IndexInv, TypeOK, DesktopTyped
<1>3. ASSUME LaunchEnds \/ \E store \in launch.todo : LaunchStep(store)
      PROVE  IndexInv'
  BY <1>3 DEF LaunchEnds, LaunchStep, Goto, IndexInv
<1>4. CASE Render
  <2>1. i < window_count /\ i' = i /\ pc' = "hit" /\ window_count' = window_count
    BY <1>4 DEF Render, Goto
  <2>2. i \in Slots
    BY <1>0, <2>1, SizesTyped DEF Slots
  <2> QED
    BY <2>1, <2>2 DEF IndexInv
<1>5. ASSUME NEW app \in ShellApps, ShellLaunch(app)
      PROVE  IndexInv'
  <2>1. window_count' = window_count + 1 /\ pc' = pc /\ i' = i
    BY <1>5 DEF ShellLaunch, frame
  <2>2. i < window_count => i < window_count'
    BY <1>0, <2>1
  <2> QED
    BY <2>1, <2>2 DEF IndexInv
<1>6. ASSUME NEW app \in ShellApps, ShellReopen(app)
      PROVE  IndexInv'
  BY <1>6 DEF ShellReopen, frame, IndexInv
<1>7. CASE Packet \/ IconGrab \/ IconMove \/ SkipClosed \/ Hit \/ EndFrame \/ WildCall
  BY <1>1, <1>7 DEF Packet, IconGrab, IconMove, SkipClosed, Hit, EndFrame, WildCall, Goto
<1>8. CASE UNCHANGED vars
  BY <1>8 DEF vars, manager, IndexInv
<1> QED
  BY <1>2, <1>3, <1>4, <1>5, <1>6, <1>7, <1>8
     DEF Next, MainLoop, Launching, keyboard_int_handler, ShellOpens


(* What a slot may hold.                                                   *)
Window == [app : Apps, position : Vector, active : BOOLEAN, keys : Handler]

(* The record window_init leaves is a window.                              *)
LEMMA NewTyped ==
  ASSUME NEW app \in Apps, NEW keys \in Handler
  PROVE  NewWindow(app, keys) \in Window
BY DEF NewWindow, Window, Home, Box, Vector

(* Changing a window or one of its fields leaves windows.                  *)
LEMMA WindowsTyped ==
  ASSUME NEW ws \in [Slots -> Window], NEW w
  PROVE  /\ \A record \in Window : [ws EXCEPT ![w] = record] \in [Slots -> Window]
         /\ \A open \in BOOLEAN : [ws EXCEPT ![w].active = open] \in [Slots -> Window]
         /\ \A p \in Vector : [ws EXCEPT ![w].position = p] \in [Slots -> Window]
         /\ \A h \in Handler : [ws EXCEPT ![w].keys = h] \in [Slots -> Window]
BY DEF Window

(* The steps of the system, one by one.                                    *)
LEMMA Steps ==
  ASSUME [Next]_vars
  PROVE  \/ Packet \/ IconIdle \/ Reopen \/ LaunchBegins
         \/ (\E store \in launch.todo : LaunchStep(store)) \/ LaunchEnds
         \/ IconGrab \/ IconMove \/ SkipClosed \/ Render \/ Hit \/ EndFrame
         \/ (\E app \in ShellApps : ShellLaunch(app))
         \/ (\E app \in ShellApps : ShellReopen(app))
         \/ WildCall
         \/ UNCHANGED vars
BY DEF Next, MainLoop, Launching, keyboard_int_handler, ShellOpens

(* The same, when no command opens a window at a wrong moment.             *)
LEMMA CalmSteps ==
  ASSUME Inv, [Next]_vars, ~raced'
  PROVE  \/ Packet \/ IconIdle \/ Reopen \/ LaunchBegins
         \/ (\E store \in launch.todo : LaunchStep(store)) \/ LaunchEnds
         \/ IconGrab \/ IconMove \/ SkipClosed \/ Render \/ Hit \/ EndFrame
         \/ (\E app \in ShellApps : ShellLaunch(app) /\ ~Busy /\ launch.todo = {})
         \/ (\E app \in ShellApps : ShellReopen(app) /\ ~Busy /\ launch.todo = {})
         \/ WildCall
         \/ UNCHANGED vars
<1>1. MainLoop => \/ Packet \/ IconIdle \/ Reopen \/ LaunchBegins
                 \/ (\E store \in launch.todo : LaunchStep(store)) \/ LaunchEnds
                 \/ IconGrab \/ IconMove \/ SkipClosed \/ Render \/ Hit \/ EndFrame
  BY DEF MainLoop, Launching
<1>2. keyboard_int_handler => WildCall \/ (ShellOpens /\ ~Busy)
  BY DEF keyboard_int_handler
<1>3. ASSUME ShellOpens, ~Busy
      PROVE  \E app \in ShellApps :
               (ShellLaunch(app) \/ ShellReopen(app)) /\ ~Busy /\ launch.todo = {}
  <2>1. PICK app \in ShellApps : ShellLaunch(app) \/ ShellReopen(app)
    BY <1>3 DEF ShellOpens
  <2>2. pc \notin {"launch", "lost"}
    BY <1>3, <2>1 DEF ShellLaunch, ShellReopen, Busy
  <2> QED
    BY <1>3, <2>1, <2>2 DEF Inv, LaunchInv
<1> QED
  BY <1>1, <1>2, <1>3 DEF Next

(* Every step keeps the types: of the loop,                                *)
LEMMA LoopNext ==
  ASSUME Inv, [Next]_vars
  PROVE  LoopTyped'
<1>0. LoopTyped
  BY DEF Inv, TypeOK
<1>1. raced' \in BOOLEAN
  BY <1>0 DEF Next, MainLoop, keyboard_int_handler, vars, LoopTyped
<1>2. i' \in Nat
  <2>1. i \in Nat
    BY <1>0 DEF LoopTyped
  <2>2. i' \in {i, i + 1, 0, 1}
    BY Steps DEF Packet, IconIdle, Reopen, LaunchBegins, LaunchStep, LaunchEnds, IconGrab, IconMove,
       SkipClosed, Render, Hit, EndFrame, ShellLaunch, ShellReopen, WildCall, frame, vars
  <2> QED
    BY <2>1, <2>2
<1>3. mouse' \in [position : Vector, left : BOOLEAN, right : BOOLEAN]
  <2>1. mouse \in [position : Vector, left : BOOLEAN, right : BOOLEAN]
    BY <1>0 DEF LoopTyped
  <2>2. mouse' = mouse \/ mouse' \in MouseStates
    BY Steps DEF Packet, IconIdle, Reopen, LaunchBegins, LaunchStep, LaunchEnds, IconGrab, IconMove,
       SkipClosed, Render, Hit, EndFrame, ShellLaunch, ShellReopen, WildCall, frame, vars
  <2> QED
    BY <2>1, <2>2, ScreenAssumption
<1>4. pc' \in {"packet", "icon", "launch", "icon drag", "window", "hit", "lost"}
  <2>1. pc \in {"packet", "icon", "launch", "icon drag", "window", "hit", "lost"}
    BY <1>0 DEF LoopTyped
  <2> QED
    BY <2>1, Steps DEF Packet, IconIdle, Reopen, LaunchBegins, LaunchStep, LaunchEnds, IconGrab,
       IconMove, SkipClosed, Render, Hit, EndFrame, ShellLaunch, ShellReopen, WildCall, frame,
       vars, Goto
<1> QED
  BY <1>1, <1>2, <1>3, <1>4 DEF LoopTyped

(* of the icons,                                                           *)
LEMMA DesktopNext ==
  ASSUME Inv, [Next]_vars
  PROVE  DesktopTyped'
<1>0. DesktopTyped /\ LoopTyped /\ IndexInv
  BY DEF Inv, TypeOK
<1>1. CASE IconGrab
  <2>1. i \in 1 .. Len(Icons)
    BY <1>0, <1>1 DEF IconGrab, Goto, IndexInv
  <2> QED
    BY <1>0, <1>1, <2>1 DEF IconGrab, DesktopTyped
<1>2. CASE IconMove
  <2>1. mouse.position \in Vector
    BY <1>0 DEF LoopTyped
  <2>2. icons' = [k \in DOMAIN icons |-> IF k = icon_dragging THEN mouse.position ELSE icons[k]]
        /\ (icon_dragging' = icon_dragging \/ icon_dragging' = NULL)
    BY <1>2 DEF IconMove
  <2> QED
    BY <1>0, <2>1, <2>2 DEF DesktopTyped
<1>3. CASE UNCHANGED desktop
  BY <1>0, <1>3 DEF desktop, DesktopTyped
<1> QED
  BY Steps, <1>1, <1>2, <1>3 DEF Packet, IconIdle, Reopen, LaunchBegins, LaunchStep, LaunchEnds,
     SkipClosed, Render, Hit, EndFrame, ShellLaunch, ShellReopen, WildCall, frame, vars

(* of the launch,                                                          *)
LEMMA StoresNext ==
  ASSUME Inv, [Next]_vars, CountInv'
  PROVE  LaunchTyped'
<1>0. LaunchTyped /\ ManagerTyped /\ DesktopTyped
  BY DEF Inv, TypeOK
<1>1. CASE LaunchBegins
  <2>1. /\ launch' = [app |-> Icons[i], slot |-> window_count, todo |-> Inside \cup After(Icons[i])]
        /\ UNCHANGED window_count /\ i \in 1 .. Len(Icons)
    BY <1>0, <1>1 DEF LaunchBegins, manager, Clicked, DesktopTyped
  <2>2. window_count \in Nat
    BY <1>0, SizesTyped DEF ManagerTyped
  <2>3. launch'.slot \in Slots
    <3>1. window_count' \in Nat /\ launch'.slot \in Nat /\ "pointer" \in launch'.todo
      BY <2>1, <2>2 DEF After
    <3> QED
      BY <3>1, CountedBound DEF CountInv
  <2>4. Icons[i] \in Apps /\ Inside \cup After(Icons[i]) \subseteq Inside \cup After(Terminal)
    BY <2>1, IconsTyped, AfterTyped
  <2> QED
    BY <2>1, <2>3, <2>4 DEF LaunchTyped
<1>2. ASSUME NEW store \in launch.todo, LaunchStep(store)
      PROVE  LaunchTyped'
  BY <1>0, <1>2 DEF LaunchStep, LaunchTyped
<1>3. CASE LaunchEnds
  BY <1>3, AppsTyped DEF LaunchEnds, NoLaunch, LaunchTyped
<1>4. CASE UNCHANGED launch
  BY <1>0, <1>4 DEF LaunchTyped
<1> QED
  BY Steps, <1>1, <1>2, <1>3, <1>4 DEF Packet, IconIdle, Reopen, IconGrab, IconMove,
     SkipClosed, Render, Hit, EndFrame, ShellLaunch, ShellReopen, WildCall, frame, vars

(* and of the windows.                                                     *)
LEMMA ManagerNext ==
  ASSUME Inv, [Next]_vars, CountInv'
  PROVE  ManagerTyped'
<1>0. LaunchTyped /\ ManagerTyped /\ DesktopTyped /\ LoopTyped /\ LaunchInv /\ IndexInv
  BY DEF Inv, TypeOK
<1>1. /\ windows \in [Slots -> Window] /\ window_count \in 0 .. NWindows
      /\ dragging \in Slots \cup {NULL} /\ focused \in Slots \cup {NULL}
      /\ loop_focus \in Slots \cup {NULL} /\ app_window \in [Apps -> Slots \cup {NULL}]
  BY <1>0 DEF ManagerTyped, Window
<1>2. window_count \in Nat
  BY <1>1, SizesTyped
<1>3. ASSUME windows' \in [Slots -> Window], window_count' \in 0 .. NWindows,
             dragging' \in Slots \cup {NULL}, focused' \in Slots \cup {NULL},
             loop_focus' \in Slots \cup {NULL}, app_window' \in [Apps -> Slots \cup {NULL}]
      PROVE  ManagerTyped'
  BY <1>3 DEF ManagerTyped, Window
<1>4. ASSUME windows' \in [Slots -> Window],
             UNCHANGED <<window_count, dragging, focused, loop_focus, app_window>>
      PROVE  ManagerTyped'
  BY <1>1, <1>3, <1>4
<1>5. ASSUME NEW store \in launch.todo, LaunchStep(store)
      PROVE  ManagerTyped'
  <2>1. launch.slot \in Slots /\ launch.app \in Apps
    BY <1>0, <1>5 DEF LaunchInv, LaunchTyped
  <2>2. UNCHANGED <<dragging, loop_focus>>
    BY <1>5 DEF LaunchStep
  <2>3. CASE StoreRecord
    <3>1. PICK keys \in {"none", "garbage"} :
            windows' = [windows EXCEPT ![launch.slot] = NewWindow(launch.app, keys)]
      BY <2>3 DEF StoreRecord
    <3>2. NewWindow(launch.app, keys) \in Window
      BY <2>1, NewTyped DEF Handler
    <3>3. windows' \in [Slots -> Window]
      BY <1>1, <3>1, <3>2, WindowsTyped
    <3> QED
      BY <1>4, <2>2, <2>3, <3>3 DEF StoreRecord
  <2>4. CASE StoreCount
    <3>1. window_count' \in Nat
      <4>1. launch.slot \in Nat
        BY <2>1, AppsTyped
      <4>2. window_count' = launch.slot + 1
        BY <2>4 DEF StoreCount
      <4> QED
        BY <4>1, <4>2
    <3>2. window_count' \in 0 .. NWindows
      BY <3>1, CountedBound DEF CountInv
    <3> QED
      BY <1>1, <1>3, <2>2, <2>4, <3>2 DEF StoreCount
  <2>5. CASE StorePointer
    <3>1. windows' \in [Slots -> Window]
      BY <1>1, <2>5, WindowsTyped DEF StorePointer
    <3>2. app_window' \in [Apps -> Slots \cup {NULL}]
      BY <1>1, <2>1, <2>5 DEF StorePointer
    <3> QED
      BY <1>1, <1>3, <2>2, <2>5, <3>1, <3>2 DEF StorePointer
  <2>6. CASE StoreKeys
    <3>1. windows' \in [Slots -> Window]
      BY <1>1, <2>1, <2>6, WindowsTyped DEF StoreKeys, Handler
    <3> QED
      BY <1>4, <2>2, <2>6, <3>1 DEF StoreKeys
  <2>7. CASE StoreFocus
    BY <1>1, <1>3, <2>1, <2>2, <2>7 DEF StoreFocus
  <2> QED
    BY <1>5, <2>3, <2>4, <2>5, <2>6, <2>7 DEF LaunchStep
<1>6. ASSUME NEW app \in ShellApps, ShellLaunch(app)
      PROVE  ManagerTyped'
  <2>1. /\ window_count' = window_count + 1 /\ focused' = window_count
        /\ app_window' = [app_window EXCEPT ![app] = window_count]
        /\ UNCHANGED <<dragging, loop_focus>> /\ app \in Apps
    BY <1>6, AppsTyped DEF ShellLaunch, frame
  <2>2. window_count' \in 0 .. NWindows
    BY <1>2, <2>1, CountedBound DEF CountInv
  <2>3. window_count \in Slots
    BY <1>2, <2>1, <2>2, SizesTyped DEF Slots
  <2>4. PICK keys \in IF app \in KeylessApps THEN {"none", "garbage"} ELSE {app} :
          windows' = [windows EXCEPT ![window_count] = NewWindow(app, keys)]
    BY <1>6 DEF ShellLaunch
  <2>5. NewWindow(app, keys) \in Window
    <3>1. keys \in Handler
      BY <2>1 DEF Handler
    <3> QED
      BY <2>1, <3>1, NewTyped
  <2>6. windows' \in [Slots -> Window]
    BY <1>1, <2>4, <2>5, WindowsTyped
  <2>7. app_window' \in [Apps -> Slots \cup {NULL}]
    BY <1>1, <2>1, <2>3
  <2> QED
    BY <1>1, <1>3, <2>1, <2>2, <2>3, <2>6, <2>7
<1>7. ASSUME NEW app \in ShellApps, ShellReopen(app)
      PROVE  ManagerTyped'
  BY <1>1, <1>4, <1>7, WindowsTyped DEF ShellReopen, frame
<1>8. CASE Reopen
  BY <1>1, <1>4, <1>8, WindowsTyped DEF Reopen
<1>9. CASE Render
  <2>1. PICK open \in BOOLEAN : windows' = [windows EXCEPT ![i].active = open]
    BY <1>9 DEF Render
  <2>2. windows' \in [Slots -> Window]
    BY <1>1, <2>1, WindowsTyped
  <2>3. UNCHANGED <<window_count, dragging, focused, loop_focus, app_window>>
    BY <1>9 DEF Render
  <2> QED
    BY <1>4, <2>2, <2>3
<1>10. CASE Hit
  <2>1. i \in Slots
    BY <1>0, <1>10 DEF Hit, Goto, IndexInv
  <2>2. /\ dragging' \in {i, dragging} /\ focused' \in {i, focused} /\ loop_focus' \in {i, loop_focus}
        /\ UNCHANGED <<windows, window_count, app_window>>
    BY <1>10 DEF Hit
  <2> QED
    BY <1>1, <1>3, <2>1, <2>2
<1>11. CASE EndFrame
  <2>1. /\ dragging' \in {NULL, dragging} /\ focused' \in {NULL, focused} /\ loop_focus' = NULL
        /\ UNCHANGED <<window_count, app_window>>
    BY <1>11 DEF EndFrame
  <2>2. mouse.position \in Vector
    BY <1>0 DEF LoopTyped
  <2>3. windows' = windows \/ windows' = [windows EXCEPT ![dragging].position = mouse.position]
    BY <1>11 DEF EndFrame
  <2>4. windows' \in [Slots -> Window]
    BY <1>1, <2>2, <2>3, WindowsTyped
  <2> QED
    BY <1>1, <1>3, <2>1, <2>4
<1>12. CASE UNCHANGED <<windows, window_count, dragging, focused, loop_focus, app_window>>
  BY <1>1, <1>4, <1>12
<1> QED
  BY Steps, <1>5, <1>6, <1>7, <1>8, <1>9, <1>10, <1>11, <1>12
     DEF Packet, IconIdle, LaunchBegins, LaunchEnds, IconGrab, IconMove, SkipClosed, WildCall,
         manager, vars

(* The invariant holds at first,                                           *)
LEMMA InvInit == Init => Inv
<1> SUFFICES ASSUME Init PROVE Inv
  OBVIOUS
<1>1. LoopTyped
  <2>1. mouse \in [position : Vector, left : BOOLEAN, right : BOOLEAN]
    BY DEF Init, Box, Vector
  <2>2. i \in Nat /\ raced \in BOOLEAN /\ pc = "packet"
    BY DEF Init
  <2> QED
    BY <2>1, <2>2 DEF LoopTyped
<1>2. DesktopTyped
  <2>1. \A k \in 1 .. Len(Icons) : IconHome(k) \in Vector
    BY IconsTyped DEF IconHome, Box, Vector
  <2> QED
    BY <2>1 DEF Init, DesktopTyped
<1>3. ManagerTyped
  <2>1. EmptySlot \in [app : Apps, position : Vector, active : BOOLEAN, keys : Handler]
    BY AppsTyped DEF EmptySlot, Box, Vector, Handler
  <2>2. window_count \in 0 .. NWindows
    BY SizesTyped DEF Init
  <2> QED
    BY <2>1, <2>2 DEF Init, ManagerTyped
<1>4. LaunchTyped
  BY AppsTyped DEF Init, NoLaunch, LaunchTyped
<1>5. LaunchInv /\ IndexInv
  BY DEF Init, NoLaunch, LaunchInv, IndexInv
<1>6. CountInv
  <2>1. launch.todo = {} /\ window_count = 0
    BY DEF Init, NoLaunch
  <2>2. Done(app_window) \in Nat
    BY DoneIsNat
  <2>3. 0 <= Done(app_window) + 0
    BY <2>2
  <2>4. "pointer" \notin launch.todo
    BY <2>1
  <2> QED
    BY <2>1, <2>3, <2>4 DEF CountInv, Counted
<1> QED
  BY <1>1, <1>2, <1>3, <1>4, <1>5, <1>6 DEF Inv, TypeOK

(* is kept by every step,                                                  *)
LEMMA InvNext == Inv /\ [Next]_vars => Inv'
<1> SUFFICES ASSUME Inv, [Next]_vars PROVE Inv'
  OBVIOUS
<1>1. CountInv'
  BY CountNext
<1>2. LaunchInv' /\ IndexInv'
  BY LaunchNext, IndexNext
<1>3. TypeOK'
  BY <1>1, LoopNext, DesktopNext, ManagerNext, StoresNext DEF TypeOK
<1> QED
  BY <1>1, <1>2, <1>3 DEF Inv

(* and so holds always.                                                    *)
LEMMA InvAlways == Spec => []Inv
BY InvInit, InvNext, PTL DEF Spec

(* Every variable has its type.                                            *)
THEOREM TypeCorrect == Spec => []TypeOK
<1>1. Inv => TypeOK
  BY DEF Inv
<1> QED
  BY <1>1, InvAlways, PTL

(* However the interrupt's windows and the main loop's interleave, there   *)
(* are never more windows than icons and commands, and the array holds     *)
(* them.                                                                   *)
THEOREM WindowsAlwaysFit == Spec => []WindowsFit
<1>1. Inv => WindowsFit
  <2> SUFFICES ASSUME Inv PROVE WindowsFit
    OBVIOUS
  <2>1. window_count \in 0 .. NWindows
    BY DEF Inv, TypeOK, ManagerTyped
  <2>2. window_count \in Nat
    BY <2>1, SizesTyped
  <2>3. Counted(window_count, app_window, launch)
    BY DEF Inv, CountInv
  <2> QED
    BY <2>2, <2>3, CountedBound DEF WindowsFit
<1> QED
  BY <1>1, InvAlways, PTL

-----------------------------------------------------------------------------

(* The handlers.                                                           *)

(* Every step keeps the handlers.                                          *)
LEMMA KeysNext ==
  ASSUME Inv, [Next]_vars, KeysBound
  PROVE  KeysBound'
<1>0. /\ windows \in [Slots -> Window] /\ LaunchInv /\ launch.app \in Apps
      /\ launch.slot \in Slots \cup {NULL}
  BY DEF Inv, TypeOK, ManagerTyped, LaunchTyped, Window
<1>1. ASSUME UNCHANGED launch, windows' \in [Slots -> Window],
             \A w \in Slots : windows'[w].keys = "garbage" =>
               \/ windows'[w].app \in KeylessApps
               \/ windows[w].keys = "garbage" /\ windows'[w].app = windows[w].app
      PROVE  KeysBound'
  BY <1>1 DEF KeysBound
<1>2. CASE LaunchBegins
  <2>1. launch.todo = {} /\ UNCHANGED windows
    BY <1>0, <1>2 DEF LaunchBegins, Goto, LaunchInv, manager
  <2> QED
    BY <2>1 DEF KeysBound
<1>3. CASE LaunchEnds
  BY <1>3 DEF LaunchEnds, KeysBound, manager
<1>4. ASSUME NEW store \in launch.todo, LaunchStep(store)
      PROVE  KeysBound'
  <2>1. /\ launch'.slot = launch.slot /\ launch'.todo = launch.todo \ {store}
        /\ launch.slot \in Slots
    BY <1>0, <1>4, StepStores DEF Inv, LaunchInv
  <2>2. CASE store = "record" /\ StoreRecord
    <3>1. PICK keys \in {"none", "garbage"} :
            windows' = [windows EXCEPT ![launch.slot] = NewWindow(launch.app, keys)]
      BY <2>2 DEF StoreRecord
    <3>2. launch.app \in KeylessApps \/ "keys" \in launch'.todo
      BY <1>0, <1>4, <2>1, <2>2 DEF LaunchInv, Inside, After
    <3>3. /\ windows'[launch.slot].app = launch.app
          /\ \A w \in Slots \ {launch.slot} : windows'[w] = windows[w]
      BY <1>0, <2>1, <3>1 DEF NewWindow
    <3> QED
      BY <2>1, <3>2, <3>3 DEF KeysBound
  <2>3. CASE store = "keys" /\ StoreKeys
    <3>1. windows' = [windows EXCEPT ![launch.slot].keys = launch.app]
      BY <2>3 DEF StoreKeys
    <3>2. windows'[launch.slot].keys # "garbage"
      BY <1>0, <2>1, <3>1, AppsTyped DEF Window
    <3>3. \A w \in Slots \ {launch.slot} : windows'[w] = windows[w]
      BY <1>0, <3>1
    <3> QED
      BY <2>1, <3>2, <3>3 DEF KeysBound
  <2>4. CASE store = "pointer" /\ StorePointer
    <3>1. windows' = [windows EXCEPT ![launch.slot].active = TRUE]
      BY <2>4 DEF StorePointer
    <3>2. \A w \in Slots : windows'[w].keys = windows[w].keys /\ windows'[w].app = windows[w].app
      BY <1>0, <3>1 DEF Window
    <3> QED
      BY <2>1, <2>4, <3>2 DEF KeysBound
  <2>5. CASE store \in {"count", "focus"} /\ UNCHANGED windows
    BY <2>1, <2>5 DEF KeysBound
  <2> QED
    BY <1>4, <2>2, <2>3, <2>4, <2>5 DEF LaunchStep, StoreCount, StoreFocus
<1>5. ASSUME NEW app \in ShellApps, ShellLaunch(app)
      PROVE  KeysBound'
  <2>1. PICK keys \in IF app \in KeylessApps THEN {"none", "garbage"} ELSE {app} :
          windows' = [windows EXCEPT ![window_count] = NewWindow(app, keys)]
    BY <1>5 DEF ShellLaunch
  <2>2. keys = "garbage" => app \in KeylessApps
    BY AppsTyped
  <2>3. UNCHANGED launch
    BY <1>5 DEF ShellLaunch, frame
  <2>4. \A w \in Slots :
          windows'[w] = windows[w] \/ (windows'[w].app = app /\ windows'[w].keys = keys)
    BY <1>0, <2>1 DEF NewWindow
  <2> QED
    BY <2>2, <2>3, <2>4 DEF KeysBound
<1>6. ASSUME UNCHANGED launch, NEW w, NEW open, windows' = [windows EXCEPT ![w].active = open]
      PROVE  KeysBound'
  <2>1. \A v \in Slots : windows'[v].keys = windows[v].keys /\ windows'[v].app = windows[v].app
    BY <1>0, <1>6 DEF Window
  <2> QED
    BY <1>6, <2>1 DEF KeysBound
<1>7. ASSUME NEW app \in ShellApps, ShellReopen(app)
      PROVE  KeysBound'
  BY <1>6, <1>7 DEF ShellReopen, frame
<1>8. CASE Reopen \/ Render
  BY <1>6, <1>8 DEF Reopen, Render
<1>9. CASE EndFrame
  <2>1. \A v \in Slots : windows'[v].keys = windows[v].keys /\ windows'[v].app = windows[v].app
    BY <1>0, <1>9 DEF Window, EndFrame
  <2> QED
    BY <1>9, <2>1 DEF KeysBound, EndFrame
<1>10. CASE UNCHANGED <<windows, launch>>
  BY <1>10 DEF KeysBound
<1> QED
  BY Steps, <1>2, <1>3, <1>4, <1>5, <1>7, <1>8, <1>9, <1>10
     DEF Packet, IconIdle, IconGrab, IconMove, SkipClosed, Hit, WildCall, manager, vars

(* A window without a usable handler is a keyless application's, or its    *)
(* init function has yet to set it.                                        *)
THEOREM HandlersAreSet == Spec => []KeysBound
<1>1. Init => KeysBound
  BY DEF Init, EmptySlot, KeysBound
<1>2. Inv /\ KeysBound /\ [Next]_vars => KeysBound'
  BY KeysNext
<1> QED
  BY <1>1, <1>2, InvAlways, PTL DEF Spec

-----------------------------------------------------------------------------

(* Dragging.                                                               *)

(* What is dragged is counted, and older than the window being opened; a   *)
(* dragged icon is at the pointer from its move until the next packet, and *)
(* a dragged window between frames.                                        *)
DragCounted ==
  dragging # NULL => /\ dragging < window_count
                     /\ launch.todo # {} => dragging < launch.slot
IconAtPointer ==
  pc \in {"packet", "window", "hit"} /\ icon_dragging # NULL =>
    mouse.right /\ icons[icon_dragging] = mouse.position
WindowAtPointer ==
  pc = "packet" /\ dragging # NULL => mouse.left /\ windows[dragging].position = mouse.position
DragInv == DragCounted /\ IconAtPointer /\ WindowAtPointer

(* Every step keeps what is dragged counted,                               *)
LEMMA DragCountedNext ==
  ASSUME Inv, [Next]_vars, DragCounted
  PROVE  DragCounted'
<1>0. /\ LaunchInv /\ IndexInv /\ launch.slot \in Slots \cup {NULL}
      /\ dragging \in Slots \cup {NULL} /\ window_count \in 0 .. NWindows
  BY DEF Inv, TypeOK, ManagerTyped, LaunchTyped
<1>1. window_count \in Nat /\ dragging \in Int /\ launch.slot \in Int
  <2>1. window_count \in Nat
    BY <1>0, SizesTyped
  <2>2. dragging \in Int /\ launch.slot \in Int
    <3>1. dragging \in Nat \cup {NULL} /\ launch.slot \in Nat \cup {NULL}
      BY <1>0, AppsTyped
    <3> QED
      BY <3>1 DEF NULL
  <2> QED
    BY <2>1, <2>2
<1>2. CASE LaunchBegins
  BY <1>2 DEF LaunchBegins, manager, DragCounted
<1>3. ASSUME NEW store \in launch.todo, LaunchStep(store)
      PROVE  DragCounted'
  <2>1. /\ launch'.slot = launch.slot /\ launch'.todo \subseteq launch.todo
        /\ launch.todo # {} /\ UNCHANGED dragging
    BY <1>3, StepStores DEF Inv, LaunchStep
  <2>2. window_count' = window_count \/ window_count' = launch.slot + 1
    BY <1>3 DEF LaunchStep, StoreRecord, StoreCount, StorePointer, StoreKeys, StoreFocus
  <2>3. dragging # NULL => dragging < window_count /\ dragging < launch.slot
    BY <2>1 DEF DragCounted
  <2>4. dragging # NULL => dragging < window_count'
    BY <1>1, <2>2, <2>3
  <2> QED
    BY <2>1, <2>3, <2>4 DEF DragCounted
<1>4. CASE LaunchEnds
  BY <1>4 DEF LaunchEnds, NoLaunch, manager, DragCounted
<1>5. CASE Hit
  <2>1. launch.todo = {} /\ i < window_count
    BY <1>0, <1>5 DEF Hit, Goto, LaunchInv, IndexInv
  <2> QED
    BY <1>5, <2>1 DEF Hit, DragCounted
<1>6. CASE EndFrame
  BY <1>6 DEF EndFrame, DragCounted
<1>7. ASSUME NEW app \in ShellApps, ShellLaunch(app)
      PROVE  DragCounted'
  <2>1. window_count' = window_count + 1 /\ UNCHANGED <<dragging, launch>>
    BY <1>7 DEF ShellLaunch, frame
  <2>2. dragging < window_count => dragging < window_count'
    BY <1>1, <2>1
  <2> QED
    BY <2>1, <2>2 DEF DragCounted
<1>8. CASE UNCHANGED <<window_count, dragging, launch>>
  BY <1>8 DEF DragCounted
<1> QED
  BY Steps, <1>2, <1>3, <1>4, <1>5, <1>6, <1>7, <1>8
     DEF Packet, IconIdle, Reopen, IconGrab, IconMove, SkipClosed, Render, ShellReopen, WildCall,
         frame, manager, vars

(* a dragged icon at the pointer,                                          *)
LEMMA IconAtPointerNext ==
  ASSUME Inv, [Next]_vars, IconAtPointer
  PROVE  IconAtPointer'
<1>1. CASE IconMove
  <2>1. icons \in [1 .. Len(Icons) -> Vector] /\ icon_dragging \in {NULL} \cup 1 .. Len(Icons)
    BY DEF Inv, TypeOK, DesktopTyped
  <2>2. icon_dragging' # NULL => icon_dragging' = icon_dragging /\ mouse.right
    BY <1>1 DEF IconMove
  <2>3. /\ icons' = [k \in DOMAIN icons |-> IF k = icon_dragging THEN mouse.position ELSE icons[k]]
        /\ UNCHANGED mouse
    BY <1>1 DEF IconMove
  <2> QED
    BY <2>1, <2>2, <2>3 DEF IconAtPointer
<1>2. ASSUME UNCHANGED <<icons, icon_dragging, mouse>>,
             pc' \in {"packet", "window", "hit"} => pc \in {"packet", "window", "hit"}
      PROVE  IconAtPointer'
  BY <1>2 DEF IconAtPointer
<1>3. CASE Packet \/ IconGrab
  BY <1>3 DEF Packet, IconGrab, Goto, IconAtPointer
<1> QED
  BY Steps, <1>1, <1>2, <1>3
     DEF IconIdle, Reopen, LaunchBegins, LaunchStep, LaunchEnds, SkipClosed, Render, Hit, EndFrame,
         ShellLaunch, ShellReopen, WildCall, frame, desktop, vars, Goto

(* and a dragged window.                                                   *)
LEMMA WindowAtPointerNext ==
  ASSUME Inv, [Next]_vars, DragCounted, WindowAtPointer
  PROVE  WindowAtPointer'
<1>0. /\ windows \in [Slots -> Window] /\ dragging \in Slots \cup {NULL}
      /\ window_count \in 0 .. NWindows
  BY DEF Inv, TypeOK, ManagerTyped, Window
<1>1. CASE EndFrame
  <2>1. dragging' # NULL => /\ dragging' = dragging /\ mouse.left /\ dragging \in Slots
                            /\ windows' = [windows EXCEPT ![dragging].position = mouse.position]
    BY <1>0, <1>1 DEF EndFrame
  <2>2. UNCHANGED mouse
    BY <1>1 DEF EndFrame
  <2>3. dragging' # NULL => windows'[dragging].position = mouse.position
    BY <1>0, <2>1 DEF Window
  <2> QED
    BY <2>1, <2>2, <2>3 DEF WindowAtPointer
<1>2. ASSUME NEW app \in ShellApps, ShellLaunch(app)
      PROVE  WindowAtPointer'
  <2>1. /\ UNCHANGED <<pc, mouse, dragging>>
        /\ \E record : windows' = [windows EXCEPT ![window_count] = record]
    BY <1>2 DEF ShellLaunch, frame
  <2>2. dragging # NULL => dragging # window_count
    <3>1. window_count \in Nat /\ dragging \in Int
      BY <1>0, SizesTyped, AppsTyped DEF NULL
    <3> QED
      BY <3>1 DEF DragCounted
  <2>3. dragging # NULL => windows'[dragging] = windows[dragging]
    BY <1>0, <2>1, <2>2
  <2> QED
    BY <2>1, <2>3 DEF WindowAtPointer
<1>3. ASSUME NEW app \in ShellApps, ShellReopen(app)
      PROVE  WindowAtPointer'
  <2>1. /\ UNCHANGED <<pc, mouse, dragging>>
        /\ windows' = [windows EXCEPT ![app_window[app]].active = TRUE]
    BY <1>3 DEF ShellReopen, frame
  <2>2. dragging # NULL => windows'[dragging].position = windows[dragging].position
    BY <1>0, <2>1 DEF Window
  <2> QED
    BY <2>1, <2>2 DEF WindowAtPointer
<1>4. CASE pc' # "packet"
  BY <1>4 DEF WindowAtPointer
<1>5. CASE UNCHANGED vars
  BY <1>5 DEF vars, manager, WindowAtPointer
<1> QED
  BY Steps, <1>1, <1>2, <1>3, <1>4, <1>5
     DEF Packet, IconIdle, Reopen, LaunchBegins, LaunchStep, LaunchEnds, IconGrab, IconMove,
         SkipClosed, Render, Hit, WildCall, Goto

(* Between frames, whatever is dragged is under the pointer and its button *)
(* is down, even when a command has opened windows since.                  *)
THEOREM DragsFollowPointer == Spec => []DragFollowsPointer
<1>1. Init => DragInv
  BY DEF Init, DragInv, DragCounted, IconAtPointer, WindowAtPointer
<1>2. Inv /\ DragInv /\ [Next]_vars => DragInv'
  BY DragCountedNext, IconAtPointerNext, WindowAtPointerNext DEF DragInv
<1>3. DragInv => DragFollowsPointer
  BY DEF DragInv, IconAtPointer, WindowAtPointer, DragFollowsPointer
<1> QED
  BY <1>1, <1>2, <1>3, InvAlways, PTL DEF Spec

-----------------------------------------------------------------------------

(* Who owns which window.                                                  *)

(* While no command interferes, the window being opened is the next one:   *)
(* its record is the application's once it is stored, it is counted once   *)
(* the counter is, and until the init function has it nobody else has.     *)
LaunchOwns == ~raced /\ launch.todo # {} =>
  /\ "record" \notin launch.todo =>
       windows[launch.slot].app = launch.app /\ windows[launch.slot].active
  /\ "count" \notin launch.todo => window_count = launch.slot + 1
  /\ "pointer" \in launch.todo =>
       \A b \in Apps : app_window[b] # NULL => app_window[b] < launch.slot

OwnInv == AppOwnsWindow /\ LaunchOwns

(* A window in a slot that nobody owns changes no owner.                   *)
LEMMA OwnersKept ==
  ASSUME Inv, OwnInv, ~raced, NEW slot \in Slots,
         \A b \in Apps : app_window[b] # NULL => app_window[b] < slot,
         NEW record \in Window, windows' = [windows EXCEPT ![slot] = record],
         UNCHANGED app_window, window_count' \in {window_count, window_count + 1}
  PROVE  AppOwnsWindow'
<1>0. /\ windows \in [Slots -> Window] /\ app_window \in [Apps -> Slots \cup {NULL}]
      /\ window_count \in 0 .. NWindows
  BY DEF Inv, TypeOK, ManagerTyped, Window
<1>1. ASSUME NEW a \in Apps, app_window[a] # NULL
      PROVE  windows'[app_window[a]].app = a /\ app_window[a] < window_count'
  <2>1. app_window[a] \in Slots /\ app_window[a] \in Nat /\ slot \in Nat /\ window_count \in Nat
    <3>1. app_window[a] \in Slots
      BY <1>0, <1>1
    <3>2. window_count \in Nat
      BY <1>0, SizesTyped
    <3> QED
      BY <3>1, <3>2, AppsTyped
  <2>2. app_window[a] # slot
    BY <1>1, <2>1
  <2>3. windows[app_window[a]].app = a /\ app_window[a] < window_count
    BY <1>1 DEF OwnInv, AppOwnsWindow
  <2>4. app_window[a] < window_count'
    BY <2>1, <2>3
  <2> QED
    BY <1>0, <2>1, <2>2, <2>3, <2>4
<1> QED
  BY <1>1 DEF OwnInv, AppOwnsWindow

(* Every step keeps the owners.                                            *)
LEMMA OwnNext ==
  ASSUME Inv, [Next]_vars, OwnInv
  PROVE  OwnInv'
<1>0. /\ windows \in [Slots -> Window] /\ app_window \in [Apps -> Slots \cup {NULL}]
      /\ window_count \in 0 .. NWindows /\ launch.app \in Apps
      /\ launch.slot \in Slots \cup {NULL} /\ LaunchInv
  BY DEF Inv, TypeOK, ManagerTyped, LaunchTyped, Window
<1>00. window_count \in Nat
  BY <1>0, SizesTyped
<1>1. ~raced' => ~raced
  BY DEF Next, MainLoop, keyboard_int_handler, vars
<1>2. CASE raced'
  BY <1>2 DEF OwnInv, AppOwnsWindow, LaunchOwns
<1>3. ASSUME ~raced', UNCHANGED <<app_window, window_count>>,
             windows' \in [Slots -> Window],
             \A w \in Slots : windows'[w].app = windows[w].app
      PROVE  AppOwnsWindow'
  <2>1. \A a \in Apps : app_window[a] # NULL => app_window[a] \in Slots
    BY <1>0
  <2> QED
    BY <1>1, <1>3, <2>1 DEF OwnInv, AppOwnsWindow
<1>4. CASE LaunchBegins /\ ~raced'
  <2>1. UNCHANGED <<windows, app_window, window_count>> /\ launch'.slot = window_count
        /\ launch'.todo = Inside \cup After(Icons[i])
    BY <1>4 DEF LaunchBegins, manager
  <2>2. \A b \in Apps : app_window[b] # NULL => app_window[b] < window_count
    BY <1>1, <1>4 DEF OwnInv, AppOwnsWindow
  <2>3. LaunchOwns'
    BY <2>1, <2>2 DEF LaunchOwns, Inside
  <2> QED
    BY <1>0, <1>3, <1>4, <2>1, <2>3 DEF OwnInv
<1>5. ASSUME NEW store \in launch.todo, LaunchStep(store), ~raced'
      PROVE  OwnInv'
  <2>1. /\ launch'.slot = launch.slot /\ launch'.todo = launch.todo \ {store}
        /\ launch'.app = launch.app /\ launch.slot \in Slots
    BY <1>0, <1>5, StepStores DEF Inv, LaunchInv
  <2>2. /\ "record" \notin launch.todo =>
             windows[launch.slot].app = launch.app /\ windows[launch.slot].active
        /\ "count" \notin launch.todo => window_count = launch.slot + 1
        /\ "pointer" \in launch.todo =>
             \A b \in Apps : app_window[b] # NULL => app_window[b] < launch.slot
    BY <1>1, <1>5 DEF OwnInv, LaunchOwns
  <2>3. store \in Inside => "pointer" \in launch.todo
    BY <1>0, <1>5 DEF LaunchInv, After
  <2>4. CASE store = "record" /\ StoreRecord
    <3>1. PICK keys \in {"none", "garbage"} :
            windows' = [windows EXCEPT ![launch.slot] = NewWindow(launch.app, keys)]
      BY <2>4 DEF StoreRecord
    <3>2. NewWindow(launch.app, keys) \in Window
      BY <1>0, NewTyped DEF Handler
    <3>3. UNCHANGED <<app_window, window_count>>
      BY <2>4 DEF StoreRecord
    <3>4. \A b \in Apps : app_window[b] # NULL => app_window[b] < launch.slot
      BY <2>2, <2>3, <2>4 DEF Inside
    <3>5. AppOwnsWindow'
      BY <1>1, <1>5, <2>1, <3>1, <3>2, <3>3, <3>4, OwnersKept
    <3>6. windows'[launch.slot].app = launch.app /\ windows'[launch.slot].active
      BY <1>0, <2>1, <3>1 DEF NewWindow
    <3>7. LaunchOwns'
      <4>1. "count" \notin launch'.todo => window_count' = launch'.slot + 1
        BY <2>1, <2>2, <2>4, <3>3
      <4>2. \A b \in Apps : app_window'[b] # NULL => app_window'[b] < launch'.slot
        BY <2>1, <3>3, <3>4
      <4> QED
        BY <2>1, <3>6, <4>1, <4>2 DEF LaunchOwns
    <3> QED
      BY <3>5, <3>7 DEF OwnInv
  <2>5. CASE store = "count" /\ StoreCount
    <3>1. window_count' = launch.slot + 1 /\ UNCHANGED <<windows, app_window>>
      BY <2>5 DEF StoreCount
    <3>2. \A b \in Apps : app_window[b] # NULL => app_window[b] < launch.slot
      BY <2>2, <2>3, <2>5 DEF Inside
    <3>3. \A b \in Apps : app_window[b] # NULL => app_window[b] < window_count'
      <4>1. launch.slot \in Nat /\ \A b \in Apps : app_window[b] # NULL => app_window[b] \in Nat
        BY <1>0, <2>1, AppsTyped
      <4> QED
        BY <3>1, <3>2, <4>1
    <3>4. AppOwnsWindow'
      BY <1>1, <1>5, <3>1, <3>3 DEF OwnInv, AppOwnsWindow
    <3>5. LaunchOwns'
      <4>1. window_count' = launch'.slot + 1
        BY <2>1, <3>1
      <4>2. \A b \in Apps : app_window'[b] # NULL => app_window'[b] < launch'.slot
        BY <2>1, <3>1, <3>2
      <4>3. "record" \notin launch'.todo =>
              windows'[launch'.slot].app = launch'.app /\ windows'[launch'.slot].active
        BY <2>1, <2>2, <2>5, <3>1
      <4> QED
        BY <4>1, <4>2, <4>3 DEF LaunchOwns
    <3> QED
      BY <3>4, <3>5 DEF OwnInv
  <2>6. CASE store = "pointer" /\ StorePointer
    <3>1. /\ app_window' = [app_window EXCEPT ![launch.app] = launch.slot]
          /\ windows' = [windows EXCEPT ![launch.slot].active = TRUE]
          /\ UNCHANGED window_count
      BY <2>6 DEF StorePointer
    <3>2. "record" \notin launch.todo /\ "count" \notin launch.todo
      BY <1>5, <2>6 DEF LaunchStep, Inside
    <3>3. /\ windows' \in [Slots -> Window]
          /\ \A w \in Slots : windows'[w].app = windows[w].app
          /\ windows'[launch.slot].active
      BY <1>0, <2>1, <3>1 DEF Window
    <3>4. \A b \in Apps : app_window[b] # NULL => app_window[b] < launch.slot
      BY <2>2, <2>6
    <3>5. launch.slot < window_count /\ \A b \in Apps : app_window[b] # launch.slot
      <4>1. launch.slot \in Nat /\ launch.slot # NULL
        BY <2>1, AppsTyped
      <4>2. window_count = launch.slot + 1
        BY <2>2, <3>2
      <4> QED
        BY <3>4, <4>1, <4>2
    <3>6. ASSUME NEW a \in Apps, app_window'[a] # NULL
          PROVE  /\ windows'[app_window'[a]].app = a
                 /\ app_window'[a] < window_count'
                 /\ \A b \in Apps \ {a} : app_window'[b] # app_window'[a]
      <4>1. CASE a = launch.app
        <5>1. app_window'[a] = launch.slot /\ \A b \in Apps \ {a} : app_window'[b] = app_window[b]
          BY <1>0, <3>1, <4>1
        <5> QED
          BY <2>1, <2>2, <3>1, <3>2, <3>3, <3>5, <4>1, <5>1
      <4>2. CASE a # launch.app
        <5>1. /\ app_window'[a] = app_window[a] /\ app_window[a] \in Slots
              /\ \A b \in Apps \ {a} : app_window'[b] \in {app_window[b], launch.slot}
          BY <1>0, <3>1, <3>6, <4>2
        <5>2. /\ windows[app_window[a]].app = a /\ app_window[a] < window_count
              /\ \A b \in Apps \ {a} : app_window[b] # app_window[a]
          BY <1>1, <1>5, <3>6, <5>1 DEF OwnInv, AppOwnsWindow
        <5> QED
          BY <3>1, <3>3, <3>5, <5>1, <5>2
      <4> QED
        BY <4>1, <4>2
    <3>7. AppOwnsWindow'
      BY <3>6 DEF AppOwnsWindow
    <3>8. LaunchOwns'
      BY <2>1, <2>2, <2>6, <3>1, <3>2, <3>3 DEF LaunchOwns
    <3> QED
      BY <3>7, <3>8 DEF OwnInv
  <2>7. CASE store = "keys" /\ StoreKeys
    <3>1. windows' = [windows EXCEPT ![launch.slot].keys = launch.app]
          /\ UNCHANGED <<window_count, app_window>>
      BY <2>7 DEF StoreKeys
    <3>2. /\ windows' \in [Slots -> Window]
          /\ \A w \in Slots : windows'[w].app = windows[w].app
          /\ \A w \in Slots : windows'[w].active = windows[w].active
      BY <1>0, <3>1 DEF Window, Handler
    <3>3. LaunchOwns'
      BY <2>1, <2>2, <2>7, <3>1, <3>2 DEF LaunchOwns
    <3> QED
      BY <1>3, <1>5, <3>1, <3>2, <3>3 DEF OwnInv
  <2>8. CASE store = "focus" /\ StoreFocus
    <3>1. UNCHANGED <<windows, window_count, app_window>>
      BY <2>8 DEF StoreFocus
    <3>2. LaunchOwns'
      BY <2>1, <2>2, <2>8, <3>1 DEF LaunchOwns
    <3> QED
      BY <1>0, <1>3, <1>5, <3>1, <3>2 DEF OwnInv
  <2> QED
    BY <1>5, <2>4, <2>5, <2>6, <2>7, <2>8 DEF LaunchStep
<1>6. CASE LaunchEnds /\ ~raced'
  <2>1. UNCHANGED <<windows, app_window, window_count>> /\ launch'.todo = {}
    BY <1>6 DEF LaunchEnds, NoLaunch, manager
  <2>2. LaunchOwns'
    BY <2>1 DEF LaunchOwns
  <2> QED
    BY <1>0, <1>3, <1>6, <2>1, <2>2 DEF OwnInv
<1>7. ASSUME launch.todo = {}, UNCHANGED <<launch, window_count, app_window>>, ~raced',
             NEW w, NEW open \in BOOLEAN, windows' = [windows EXCEPT ![w].active = open]
      PROVE  OwnInv'
  <2>1. windows' \in [Slots -> Window] /\ \A v \in Slots : windows'[v].app = windows[v].app
    BY <1>0, <1>7 DEF Window
  <2>2. LaunchOwns'
    BY <1>7 DEF LaunchOwns
  <2> QED
    BY <1>3, <1>7, <2>1, <2>2 DEF OwnInv
<1>8. ASSUME NEW app \in ShellApps, ShellLaunch(app), launch.todo = {}, ~raced'
      PROVE  OwnInv'
  <2>1. /\ window_count' = window_count + 1 /\ app_window[app] = NULL
        /\ app_window' = [app_window EXCEPT ![app] = window_count]
        /\ UNCHANGED launch /\ app \in Apps
    BY <1>8, AppsTyped DEF ShellLaunch, frame
  <2>2. PICK keys \in IF app \in KeylessApps THEN {"none", "garbage"} ELSE {app} :
          windows' = [windows EXCEPT ![window_count] = NewWindow(app, keys)]
    BY <1>8 DEF ShellLaunch
  <2>3. window_count \in Slots
    <3>1. CountInv'
      BY CountNext
    <3>2. window_count' \in Nat
      BY <1>00, <2>1
    <3>3. window_count' \in 0 .. NWindows
      BY <3>1, <3>2, CountedBound DEF CountInv
    <3> QED
      BY <1>00, <2>1, <3>3, SizesTyped DEF Slots
  <2>4. ASSUME NEW a \in Apps, app_window'[a] # NULL
        PROVE  /\ windows'[app_window'[a]].app = a
               /\ app_window'[a] < window_count'
               /\ \A b \in Apps \ {a} : app_window'[b] # app_window'[a]
    <3>1. \A b \in Apps : app_window[b] # NULL =>
            app_window[b] \in Nat /\ app_window[b] < window_count /\ app_window[b] \in Slots
      BY <1>0, <1>1, <1>8, AppsTyped DEF OwnInv, AppOwnsWindow
    <3>2. \A b \in Apps : app_window[b] # window_count
      <4>1. window_count # NULL
        BY <2>3, AppsTyped
      <4> QED
        BY <1>00, <3>1, <4>1
    <3>3. CASE a = app
      <4>1. app_window'[a] = window_count /\ \A b \in Apps \ {a} : app_window'[b] = app_window[b]
        BY <1>0, <2>1, <3>3
      <4>2. windows'[window_count].app = a
        BY <1>0, <2>2, <2>3, <3>3 DEF NewWindow
      <4> QED
        BY <1>00, <2>1, <3>2, <4>1, <4>2
    <3>4. CASE a # app
      <4>1. /\ app_window'[a] = app_window[a]
            /\ \A b \in Apps \ {a} : app_window'[b] \in {app_window[b], window_count}
        BY <1>0, <2>1, <3>4
      <4>2. windows'[app_window[a]] = windows[app_window[a]]
        BY <1>0, <2>2, <2>4, <3>1, <3>2, <4>1
      <4>3. /\ windows[app_window[a]].app = a
            /\ \A b \in Apps \ {a} : app_window[b] # app_window[a]
        BY <1>1, <1>8, <2>4, <4>1 DEF OwnInv, AppOwnsWindow
      <4>4. app_window[a] < window_count'
        BY <1>00, <2>1, <2>4, <3>1, <4>1
      <4> QED
        BY <3>2, <4>1, <4>2, <4>3, <4>4
    <3> QED
      BY <3>3, <3>4
  <2>5. AppOwnsWindow'
    BY <2>4 DEF AppOwnsWindow
  <2>6. LaunchOwns'
    BY <1>8, <2>1 DEF LaunchOwns
  <2> QED
    BY <2>5, <2>6 DEF OwnInv
<1>9. ASSUME NEW app \in ShellApps, ShellReopen(app), launch.todo = {}, ~raced'
      PROVE  OwnInv'
  BY <1>7, <1>9 DEF ShellReopen, frame
<1>10. CASE Reopen /\ ~raced'
  BY <1>0, <1>7, <1>10 DEF Reopen, Goto, LaunchInv
<1>11. CASE Render /\ ~raced'
  <2>1. PICK open \in BOOLEAN : windows' = [windows EXCEPT ![i].active = open]
    BY <1>11 DEF Render
  <2>2. launch.todo = {} /\ UNCHANGED <<launch, window_count, app_window>>
    BY <1>0, <1>11 DEF Render, Goto, LaunchInv
  <2> QED
    BY <1>7, <1>11, <2>1, <2>2
<1>12. CASE EndFrame /\ ~raced'
  <2>1. launch.todo = {} /\ UNCHANGED <<launch, window_count, app_window>>
    BY <1>0, <1>12 DEF EndFrame, Goto, LaunchInv
  <2>2. /\ windows' \in [Slots -> Window]
        /\ \A v \in Slots : windows'[v].app = windows[v].app
    <3>1. mouse.position \in Vector
      BY DEF Inv, TypeOK, LoopTyped
    <3> QED
      BY <1>0, <1>12, <3>1 DEF EndFrame, Window
  <2>3. LaunchOwns'
    BY <2>1 DEF LaunchOwns
  <2> QED
    BY <1>3, <1>12, <2>1, <2>2, <2>3 DEF OwnInv
<1>13. CASE UNCHANGED <<windows, window_count, app_window, launch>> /\ ~raced'
  BY <1>1, <1>13 DEF OwnInv, AppOwnsWindow, LaunchOwns
<1> QED
  BY CalmSteps, <1>2, <1>4, <1>5, <1>6, <1>8, <1>9, <1>10, <1>11, <1>12, <1>13
     DEF Packet, IconIdle, IconGrab, IconMove, SkipClosed, Hit, WildCall, manager, vars

(* As long as no command opens a window while the main loop opens one or   *)
(* goes through them, each application has a window of its own.            *)
THEOREM AppsOwnTheirWindows == Spec => []AppOwnsWindow
<1>1. Init => OwnInv
  BY DEF Init, NoLaunch, OwnInv, AppOwnsWindow, LaunchOwns
<1>2. Inv /\ OwnInv /\ [Next]_vars => OwnInv'
  BY OwnNext
<1>3. OwnInv => AppOwnsWindow
  BY DEF OwnInv
<1> QED
  BY <1>1, <1>2, <1>3, InvAlways, PTL DEF Spec

-----------------------------------------------------------------------------

(* Closing.                                                                *)

(* What a step that keeps a window's place and the mouse keeps of the      *)
(* pointer's hits.                                                         *)
LEMMA HitKept ==
  ASSUME NEW w, UNCHANGED mouse, windows'[w].position = windows[w].position,
         windows'[w].app = windows[w].app
  PROVE  OnClose(w)' <=> OnClose(w)
BY DEF OnClose, Hits

(* Opening or closing a window changes nothing else.                       *)
LEMMA OpenKeepsRest ==
  ASSUME NEW ws \in [Slots -> Window], NEW v, NEW open
  PROVE  LET new == [ws EXCEPT ![v].active = open]
         IN  /\ \A w \in Slots : new[w].position = ws[w].position /\ new[w].app = ws[w].app
             /\ \A w \in Slots \ {v} : new[w] = ws[w]
             /\ v \in Slots => new[v].active = open
BY DEF Window

(* The windows the loop has been through have no close button under a      *)
(* pressed pointer.                                                        *)
SweptInv == ~raced /\ pc \in {"window", "hit"} /\ mouse.left =>
  \A w \in Slots : (w < i \/ (pc = "hit" /\ w = i)) /\ windows[w].active => ~OnClose(w)

(* Every step keeps it.                                                    *)
LEMMA SweptNext ==
  ASSUME Inv, [Next]_vars, SweptInv
  PROVE  SweptInv'
<1>0. windows \in [Slots -> Window] /\ i \in Nat /\ Slots \subseteq Nat
  BY AppsTyped DEF Inv, TypeOK, ManagerTyped, LoopTyped, Window
<1>1. ~raced' => ~raced
  BY DEF Next, MainLoop, keyboard_int_handler, vars
<1>2. CASE raced' \/ pc' \notin {"window", "hit"}
  BY <1>2 DEF SweptInv
<1>3. CASE ~raced' /\ IconMove
  <2>1. \A w \in Slots : ~(w < i')
    BY <1>0, <1>3 DEF IconMove
  <2>2. pc' = "window"
    BY <1>3 DEF IconMove, Goto
  <2> QED
    BY <2>1, <2>2 DEF SweptInv
<1>4. CASE ~raced' /\ (SkipClosed \/ Hit)
  <2>1. pc' = "window" /\ i' = i + 1 /\ UNCHANGED <<windows, mouse>> /\ pc \in {"window", "hit"}
        /\ (pc = "hit" \/ ~windows[i].active)
    BY <1>4 DEF SkipClosed, Hit, Goto, manager
  <2>2. \A w \in Slots : w < i' => w < i \/ w = i
    BY <1>0, <2>1
  <2>3. \A w \in Slots : OnClose(w)' <=> OnClose(w)
    BY <2>1, HitKept
  <2> QED
    BY <1>1, <1>4, <2>1, <2>2, <2>3 DEF SweptInv
<1>5. CASE ~raced' /\ Render
  <2>1. /\ pc = "window" /\ pc' = "hit" /\ UNCHANGED <<i, mouse>>
        /\ windows' = [windows EXCEPT ![i].active = ~(OnClose(i) /\ mouse.left)]
    BY <1>5 DEF Render, Goto
  <2>2. \A w \in Slots : /\ windows'[w].position = windows[w].position
                         /\ windows'[w].app = windows[w].app
    BY <1>0, <2>1, OpenKeepsRest
  <2>3. \A w \in Slots : OnClose(w)' <=> OnClose(w)
    BY <2>1, <2>2, HitKept
  <2>4. \A w \in Slots \ {i} : windows'[w] = windows[w]
    BY <1>0, <2>1, OpenKeepsRest
  <2>5. i \in Slots => windows'[i].active = ~(OnClose(i) /\ mouse.left)
    BY <1>0, <2>1, OpenKeepsRest
  <2>6. ASSUME NEW w \in Slots, mouse.left, w < i \/ w = i, windows'[w].active
        PROVE  ~OnClose(w)
    <3>1. CASE w = i
      BY <2>5, <2>6, <3>1
    <3>2. CASE w # i
      <4>1. w < i /\ windows[w].active
        BY <2>4, <2>6, <3>2
      <4>2. ~raced /\ pc \in {"window", "hit"}
        BY <1>1, <1>5, <2>1
      <4>3. \A v \in Slots : v < i /\ windows[v].active => ~OnClose(v)
        BY <2>6, <4>2 DEF SweptInv
      <4> QED
        BY <4>1, <4>3
    <3> QED
      BY <3>1, <3>2
  <2> QED
    BY <2>1, <2>3, <2>6 DEF SweptInv
<1>6. CASE UNCHANGED vars
  <2>1. UNCHANGED <<raced, pc, mouse, i, windows>>
    BY <1>6 DEF vars, manager
  <2>2. \A w \in Slots : OnClose(w)' <=> OnClose(w)
    BY <2>1, HitKept
  <2> QED
    BY <2>1, <2>2 DEF SweptInv
<1>7. ASSUME ~Busy, UNCHANGED pc
      PROVE  SweptInv'
  BY <1>7 DEF Busy, SweptInv
<1>8. CASE ~raced'
  <2>1. ASSUME ~(pc' \notin {"window", "hit"})
        PROVE  \/ IconMove \/ SkipClosed \/ Hit \/ Render \/ UNCHANGED vars
               \/ (~Busy /\ UNCHANGED pc)
    BY <1>8, <2>1, CalmSteps DEF Packet, IconIdle, Reopen, LaunchBegins, LaunchStep, LaunchEnds,
       IconGrab, EndFrame, ShellLaunch, ShellReopen, WildCall, frame, Goto
  <2> QED
    BY <1>2, <1>3, <1>4, <1>5, <1>6, <1>7, <1>8, <2>1
<1> QED
  BY <1>2, <1>8

(* Once the loop is through, no open window has its close button under a   *)
(* pressed pointer.                                                        *)
THEOREM ClosesAlwaysWin == Spec => []CloseWins
<1>1. Init => SweptInv
  BY DEF Init, SweptInv
<1>2. Inv /\ SweptInv /\ [Next]_vars => SweptInv'
  BY SweptNext
<1>3. Inv /\ SweptInv => CloseWins
  <2> SUFFICES ASSUME Inv, SweptInv, ~raced, pc = "window", i >= window_count, mouse.left,
                      NEW w \in Slots, w < window_count, windows[w].active
               PROVE  ~OnClose(w)
    BY DEF CloseWins
  <2>1. w \in Nat /\ i \in Nat /\ window_count \in Nat
    <3>1. window_count \in 0 .. NWindows /\ i \in Nat
      BY DEF Inv, TypeOK, ManagerTyped, LoopTyped
    <3>2. window_count \in Nat
      BY <3>1, SizesTyped
    <3> QED
      BY <3>1, <3>2, AppsTyped
  <2>2. w < i
    BY <2>1
  <2>3. pc \in {"window", "hit"}
    OBVIOUS
  <2>4. \A v \in Slots : v < i /\ windows[v].active => ~OnClose(v)
    BY <2>3 DEF SweptInv
  <2> QED
    BY <2>2, <2>4
<1> QED
  BY <1>1, <1>2, <1>3, InvAlways, PTL DEF Spec

-----------------------------------------------------------------------------

(* The focus.                                                              *)

(* A close button lies in its window's title bar.                          *)
LEMMA CloseInTitle ==
  ASSUME Inv, NEW w \in Slots, OnClose(w)
  PROVE  OnTitle(w)
<1>1. windows[w].position \in Vector /\ windows[w].app \in Apps /\ mouse.position \in Vector
  BY DEF Inv, TypeOK, ManagerTyped, LoopTyped
<1> DEFINE p == windows[w].position
           m == mouse.position
           l == Width[windows[w].app]
<1>2. p.x \in Int /\ p.y \in Int /\ m.x \in Int /\ m.y \in Int
  BY <1>1 DEF Vector
<1>3. l \in Nat /\ l >= 20
  BY <1>1, ScreenAssumption
<1>4. /\ p.x + (l - 20) + 16 >= m.x /\ m.x + 5 >= p.x + (l - 20)
      /\ p.y + 2 + 16 >= m.y /\ m.y + 5 >= p.y + 2
  BY DEF OnClose, Hits, Collision, At, Box
<1>5. /\ p.x + l >= m.x /\ m.x + 5 >= p.x
      /\ p.y + 20 >= m.y /\ m.y + 5 >= p.y
  <2> HIDE DEF p, m, l
  <2> QED
    BY <1>2, <1>3, <1>4
<1> QED
  BY <1>5 DEF OnTitle, Hits, Collision, Box, tb_height

(* Inside the loop over the windows, the window that has been hit is open  *)
(* and lies behind; a closed window keeps the focus only if the button is  *)
(* down and nothing has been hit, so that the frame's end takes it away.   *)
FocusOutside == pc \notin {"window", "hit", "lost"} =>
  loop_focus = NULL /\ (focused # NULL => windows[focused].active)
FocusHit == pc \in {"window", "hit"} /\ loop_focus # NULL =>
  focused = loop_focus /\ windows[focused].active /\ focused < i
FocusClosed == pc \in {"window", "hit"} /\ loop_focus = NULL /\ focused # NULL =>
  windows[focused].active \/ mouse.left
ClosedByButton == pc = "hit" => windows[i].active \/ (OnClose(i) /\ mouse.left)
FocusInv == ~raced => FocusOutside /\ FocusHit /\ FocusClosed /\ ClosedByButton

(* Every step keeps the focus.                                             *)
LEMMA FocusNext ==
  ASSUME Inv, LaunchOwns, [Next]_vars, FocusInv
  PROVE  FocusInv'
<1>0. /\ windows \in [Slots -> Window] /\ i \in Nat /\ window_count \in 0 .. NWindows
      /\ focused \in Slots \cup {NULL} /\ LaunchInv /\ IndexInv
      /\ launch.slot \in Slots \cup {NULL}
  BY DEF Inv, TypeOK, ManagerTyped, LoopTyped, LaunchTyped, Window
<1>1. ~raced' => ~raced
  BY DEF Next, MainLoop, keyboard_int_handler, vars
<1>2. CASE raced'
  BY <1>2 DEF FocusInv
<1>3. ASSUME ~raced'
      PROVE  FocusInv'
  <2>0. FocusOutside /\ FocusHit /\ FocusClosed /\ ClosedByButton
    BY <1>1, <1>3 DEF FocusInv
  <2>1. ASSUME pc' \notin {"window", "hit", "lost"}, pc \notin {"window", "hit", "lost"},
               UNCHANGED loop_focus, focused' # NULL => windows'[focused'].active
        PROVE  FocusInv'
    BY <2>0, <2>1 DEF FocusInv, FocusOutside, FocusHit, FocusClosed, ClosedByButton
  <2>2. CASE pc' = "lost"
    BY <2>2 DEF FocusInv, FocusOutside, FocusHit, FocusClosed, ClosedByButton
  <2>3. CASE Packet \/ IconIdle \/ LaunchBegins \/ LaunchEnds \/ IconGrab
    <3>1. /\ pc' \notin {"window", "hit", "lost"} /\ pc \notin {"window", "hit", "lost"}
          /\ UNCHANGED <<loop_focus, focused, windows>>
      BY <2>3 DEF Packet, IconIdle, LaunchBegins, LaunchEnds, IconGrab, Goto, manager
    <3>2. focused' # NULL => windows'[focused'].active
      BY <2>0, <3>1 DEF FocusOutside
    <3> QED
      BY <2>1, <3>1, <3>2
  <2>4. ASSUME NEW w, windows' = [windows EXCEPT ![w].active = TRUE], UNCHANGED focused,
               pc \notin {"window", "hit", "lost"}
        PROVE  focused' # NULL => windows'[focused'].active
    <3>1. focused # NULL => windows[focused].active /\ focused \in Slots
      BY <1>0, <2>0, <2>4 DEF FocusOutside
    <3>2. CASE focused = w /\ focused # NULL
      BY <1>0, <2>4, <3>1, <3>2, OpenKeepsRest
    <3>3. CASE focused # w
      BY <1>0, <2>4, <3>1, <3>3, OpenKeepsRest
    <3> QED
      BY <2>4, <3>2, <3>3
  <2>5. CASE Reopen
    <3>1. /\ pc' = "icon drag" /\ pc = "icon" /\ UNCHANGED <<loop_focus, focused>>
          /\ windows' = [windows EXCEPT ![app_window[Icons[i]]].active = TRUE]
      BY <2>5 DEF Reopen, Goto
    <3> QED
      BY <2>1, <2>4, <3>1
  <2>6. ASSUME NEW store \in launch.todo, LaunchStep(store)
        PROVE  FocusInv'
    <3>0. pc = "launch" /\ pc' = "launch" /\ UNCHANGED loop_focus /\ launch.slot \in Slots
      BY <1>0, <2>6 DEF LaunchStep, LaunchInv
    <3>1. focused # NULL => windows[focused].active /\ focused \in Slots
      BY <1>0, <2>0, <3>0 DEF FocusOutside
    <3>2. CASE StoreRecord
      <4>1. PICK keys \in {"none", "garbage"} :
              windows' = [windows EXCEPT ![launch.slot] = NewWindow(launch.app, keys)]
        BY <3>2 DEF StoreRecord
      <4>2. UNCHANGED focused
        BY <3>2 DEF StoreRecord
      <4>3. focused # NULL => windows'[focused].active
        BY <1>0, <3>0, <3>1, <4>1 DEF NewWindow
      <4> QED
        BY <2>1, <3>0, <4>2, <4>3
    <3>3. CASE StoreCount
      BY <2>1, <3>0, <3>1, <3>3 DEF StoreCount
    <3>4. CASE StorePointer
      <4>1. windows' = [windows EXCEPT ![launch.slot].active = TRUE] /\ UNCHANGED focused
        BY <3>4 DEF StorePointer
      <4> QED
        BY <2>1, <2>4, <3>0, <4>1
    <3>5. CASE StoreKeys
      <4>1. windows' = [windows EXCEPT ![launch.slot].keys = launch.app] /\ UNCHANGED focused
        BY <3>5 DEF StoreKeys
      <4>2. focused # NULL => windows'[focused].active
        BY <1>0, <3>0, <3>1, <4>1 DEF Window
      <4> QED
        BY <2>1, <3>0, <4>1, <4>2
    <3>6. CASE store = "focus" /\ StoreFocus
      <4>1. "record" \notin launch.todo /\ launch.todo # {}
        BY <2>6, <3>6 DEF LaunchStep, Inside
      <4>2. windows[launch.slot].active
        BY <1>1, <1>3, <4>1 DEF LaunchOwns
      <4> QED
        BY <2>1, <3>0, <3>6, <4>2 DEF StoreFocus
    <3> QED
      BY <2>6, <3>2, <3>3, <3>4, <3>5, <3>6 DEF LaunchStep
  <2>7. CASE IconMove
    <3>1. pc = "icon" /\ pc' = "window" /\ UNCHANGED <<windows, focused, loop_focus>>
      BY <2>7 DEF IconMove, Goto, manager
    <3> QED
      BY <2>0, <3>1 DEF FocusInv, FocusOutside, FocusHit, FocusClosed, ClosedByButton
  <2>8. CASE SkipClosed
    <3>1. /\ pc = "window" /\ pc' = "window" /\ i' = i + 1
          /\ UNCHANGED <<windows, focused, loop_focus, mouse>>
      BY <2>8 DEF SkipClosed, Goto, manager
    <3>2. FocusHit'
      <4>1. ASSUME loop_focus # NULL
            PROVE  focused = loop_focus /\ windows[focused].active /\ focused < i
        BY <2>0, <3>1, <4>1 DEF FocusHit
      <4>2. loop_focus # NULL => focused < i'
        <5>1. focused < i /\ focused \in Int => focused < i'
          BY <1>0, <3>1
        <5>2. focused \in Int
          BY <1>0, AppsTyped DEF NULL
        <5> QED
          BY <4>1, <5>1, <5>2
      <4> QED
        BY <3>1, <4>1, <4>2 DEF FocusHit
    <3> QED
      BY <2>0, <3>1, <3>2 DEF FocusInv, FocusOutside, FocusClosed, ClosedByButton
  <2>9. CASE Render
    <3>1. /\ pc = "window" /\ pc' = "hit" /\ UNCHANGED <<i, mouse, focused, loop_focus>>
          /\ windows' = [windows EXCEPT ![i].active = ~(OnClose(i) /\ mouse.left)]
          /\ i < window_count
      BY <2>9 DEF Render, Goto
    <3>2. i \in Slots
      <4>1. i \in Nat /\ i < window_count /\ window_count \in 0 .. NWindows
        BY <1>0, <3>1
      <4> QED
        BY <4>1, SizesTyped DEF Slots
    <3>3. /\ windows'[i].active = ~(OnClose(i) /\ mouse.left)
          /\ windows'[i].position = windows[i].position /\ windows'[i].app = windows[i].app
          /\ \A w \in Slots \ {i} : windows'[w] = windows[w]
      BY <1>0, <3>1, <3>2, OpenKeepsRest
    <3>4. OnClose(i)' <=> OnClose(i)
      BY <3>1, <3>3 DEF OnClose, Hits
    <3>5. ClosedByButton'
      BY <3>1, <3>3, <3>4 DEF ClosedByButton
    <3>6. FocusHit'
      <4> SUFFICES ASSUME loop_focus # NULL
                   PROVE  focused = loop_focus /\ windows'[focused].active /\ focused < i
        BY <3>1 DEF FocusHit
      <4>1. focused = loop_focus /\ windows[focused].active /\ focused < i
        BY <2>0, <3>1 DEF FocusHit
      <4>2. focused # i
        BY <1>0, <4>1
      <4>3. focused \in Slots
        BY <1>0, <4>1
      <4> QED
        BY <3>3, <4>1, <4>2, <4>3
    <3>7. FocusClosed'
      <4> SUFFICES ASSUME loop_focus = NULL, focused # NULL
                   PROVE  windows'[focused].active \/ mouse.left
        BY <3>1 DEF FocusClosed
      <4>1. windows[focused].active \/ mouse.left
        BY <2>0, <3>1 DEF FocusClosed
      <4>2. focused \in Slots
        BY <1>0
      <4> QED
        BY <3>3, <4>1, <4>2
    <3> QED
      BY <3>1, <3>5, <3>6, <3>7 DEF FocusInv, FocusOutside
  <2>10. CASE Hit
    <3>1. /\ pc = "hit" /\ pc' = "window" /\ i' = i + 1 /\ UNCHANGED <<windows, mouse>>
          /\ dragging' = IF OnTitle(i) /\ mouse.left /\ dragging = NULL THEN i ELSE dragging
      BY <2>10 DEF Hit, Goto
    <3>2. i \in Slots /\ i # NULL
      BY <1>0, <3>1, AppsTyped DEF IndexInv
    <3>3. \/ mouse.left /\ dragging' = NULL /\ focused' = i /\ loop_focus' = i
          \/ UNCHANGED <<focused, loop_focus>>
      BY <2>10 DEF Hit
    <3>4. CASE mouse.left /\ dragging' = NULL /\ focused' = i /\ loop_focus' = i
      <4>1. ~OnTitle(i)
        BY <3>1, <3>2, <3>4
      <4>2. windows[i].active
        BY <2>0, <3>1, <3>2, <4>1, CloseInTitle DEF ClosedByButton
      <4>3. focused' < i'
        BY <1>0, <3>1, <3>4
      <4> QED
        BY <3>1, <3>2, <3>4, <4>2, <4>3
           DEF FocusInv, FocusOutside, FocusHit, FocusClosed, ClosedByButton
    <3>5. CASE UNCHANGED <<focused, loop_focus>>
      <4>1. loop_focus # NULL => focused = loop_focus /\ windows[focused].active /\ focused < i
        BY <2>0, <3>1 DEF FocusHit
      <4>2. loop_focus # NULL => focused < i'
        <5>1. focused \in Int
          BY <1>0, AppsTyped DEF NULL
        <5> QED
          BY <1>0, <3>1, <4>1, <5>1
      <4>3. FocusHit'
        BY <3>1, <3>5, <4>1, <4>2 DEF FocusHit
      <4> QED
        BY <2>0, <3>1, <3>5, <4>3 DEF FocusInv, FocusOutside, FocusClosed, ClosedByButton
    <3> QED
      BY <3>3, <3>4, <3>5
  <2>11. CASE EndFrame
    <3>1. /\ pc = "window" /\ pc' = "packet" /\ loop_focus' = NULL
          /\ focused' = IF loop_focus = NULL /\ mouse.left THEN NULL ELSE focused
          /\ \/ windows' = windows
             \/ windows' = [windows EXCEPT ![dragging].position = mouse.position]
      BY <2>11 DEF EndFrame, Goto
    <3>2. \A w \in Slots : windows'[w].active = windows[w].active
      BY <1>0, <3>1 DEF Window
    <3>3. focused' # NULL => focused' = focused /\ windows[focused].active
      BY <2>0, <3>1 DEF FocusHit, FocusClosed
    <3>4. focused' # NULL => windows'[focused'].active
      BY <1>0, <3>2, <3>3
    <3> QED
      BY <3>1, <3>4 DEF FocusInv, FocusOutside, FocusHit, FocusClosed, ClosedByButton
  <2>12. ASSUME NEW app \in ShellApps, ShellLaunch(app), ~Busy, launch.todo = {}
         PROVE  FocusInv'
    <3>1. /\ pc' = pc /\ pc \notin {"window", "hit", "lost"} /\ UNCHANGED loop_focus
          /\ focused' = window_count /\ window_count' = window_count + 1
      BY <2>12 DEF ShellLaunch, frame, Busy
    <3>2. PICK keys \in IF app \in KeylessApps THEN {"none", "garbage"} ELSE {app} :
            windows' = [windows EXCEPT ![window_count] = NewWindow(app, keys)]
      BY <2>12 DEF ShellLaunch
    <3>3. window_count \in Slots
      <4>1. CountInv'
        BY CountNext
      <4>2. window_count \in Nat
        BY <1>0, SizesTyped
      <4>3. window_count' \in Nat
        BY <3>1, <4>2
      <4>4. window_count' \in 0 .. NWindows
        BY <4>1, <4>3, CountedBound DEF CountInv
      <4> QED
        BY <3>1, <4>2, <4>4, SizesTyped DEF Slots
    <3>4. windows'[window_count].active
      BY <1>0, <3>2, <3>3 DEF NewWindow
    <3> QED
      BY <2>1, <3>1, <3>4
  <2>13. ASSUME NEW app \in ShellApps, ShellReopen(app), ~Busy, launch.todo = {}
         PROVE  FocusInv'
    <3>1. /\ pc' = pc /\ pc \notin {"window", "hit", "lost"} /\ UNCHANGED <<loop_focus, focused>>
          /\ windows' = [windows EXCEPT ![app_window[app]].active = TRUE]
      BY <2>13 DEF ShellReopen, frame, Busy
    <3> QED
      BY <2>1, <2>4, <3>1
  <2>14. CASE UNCHANGED vars
    <3>1. UNCHANGED <<raced, pc, mouse, i, windows, focused, loop_focus>>
      BY <2>14 DEF vars, manager
    <3>2. OnClose(i)' <=> OnClose(i)
      BY <3>1 DEF OnClose, Hits
    <3> QED
      BY <2>0, <3>1, <3>2 DEF FocusInv, FocusOutside, FocusHit, FocusClosed, ClosedByButton
  <2>15. CASE WildCall
    BY <2>2, <2>15 DEF WildCall
  <2> QED
    BY <1>3, CalmSteps, <2>3, <2>5, <2>6, <2>7, <2>8, <2>9, <2>10, <2>11, <2>12, <2>13, <2>14,
       <2>15
<1> QED
  BY <1>2, <1>3

(* As long as no command opens a window while the main loop opens one or   *)
(* goes through them, the keys go to an open window.                       *)
THEOREM FocusIsOpen == Spec => []FocusedIsOpen
<1>1. Init => OwnInv /\ FocusInv
  BY DEF Init, NoLaunch, OwnInv, AppOwnsWindow, LaunchOwns, FocusInv, FocusOutside, FocusHit,
         FocusClosed, ClosedByButton
<1>2. Inv /\ OwnInv /\ FocusInv /\ [Next]_vars => OwnInv' /\ FocusInv'
  BY OwnNext, FocusNext DEF OwnInv
<1>3. FocusInv => FocusedIsOpen
  BY DEF FocusInv, FocusOutside, FocusedIsOpen
<1> QED
  BY <1>1, <1>2, <1>3, InvAlways, PTL DEF Spec
===============================================================================
