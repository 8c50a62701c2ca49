----------------------------- MODULE MCBootLoader -----------------------------
(* Kernels of up to three program headers on five pages of two cells.      *)
EXTENDS SerialConsole

H(load, offset, filesz, memsz, paddr) ==
  [load |-> load, offset |-> offset, filesz |-> filesz, memsz |-> memsz, paddr |-> paddr]
Elf(class, headers) == [elf |-> TRUE, class |-> class, lsb |-> TRUE, headers |-> headers]

(* Text, a header that is not loaded, and data with zeros behind it.       *)
Kernel == << H(TRUE, 4, 3, 3, 2), H(FALSE, 0, 0, 1, 2), H(TRUE, 7, 1, 3, 6) >>

(* The kernel for either class; one with nothing but zeros; one whose      *)
(* segments share a page; one without segments; one for another byte       *)
(* order; and a file that is no executable.                                *)
MCImages ==
  { Elf(64, Kernel), Elf(32, Kernel), Elf(64, <<H(TRUE, 4, 0, 2, 8)>>),
    Elf(64, <<H(TRUE, 4, 2, 3, 2), H(TRUE, 6, 1, 1, 4)>>), Elf(64, <<H(FALSE, 0, 0, 1, 2)>>),
    [Elf(64, Kernel) EXCEPT !.lsb = FALSE], [Elf(64, Kernel) EXCEPT !.elf = FALSE] }

MCTables ==
  { <<"ACPI 2.0", "ACPI 1.0", "other">>, <<"other", "ACPI 1.0", "ACPI 2.0">>,
    <<"other", "other", "ACPI 2.0">>, <<"ACPI 2.0", "ACPI 1.0", "ACPI 2.0">> }
===============================================================================
