-------------------------------- MODULE Devices --------------------------------
(***************************************************************************)
(* How kernel_main comes from the boot loader's tags to the disk drives:   *)
(* load_tags (kernel/tags.c), acpi_init and acpi_find_table (acpi.c), and  *)
(* the walk of pci_enumerate over buses, devices and functions (pci.c).    *)
(*                                                                         *)
(* The configuration space of a function is one page; addresses count      *)
(* pages, and a pointer has them modulo Word (2^20).  What the pages hold  *)
(* is a machine: the tags, the tables of the RSDT, the MCFG's entries and  *)
(* the device in each page.                                                *)
(***************************************************************************)
EXTENDS Integers, SequencesExt

CONSTANTS
  Word,      \* pages that a pointer reaches
  DEVICES,   \* devices of a bus (32)
  FUNCTIONS, \* functions of a device (8)
  Machines   \* the machines the kernel may find itself on

TagKinds == {"acpi_old", "memory_map", "modules"}
Headers == {"absent", "ahci", "other"}   \* absent: device_id is 0 or 0xFFFF

(* base_addr, start_bus and end_bus of a device_config_t *)
Configs == [base : Nat, start : Nat, end : Nat]

IsMachine(m) ==
  /\ m.tags \in Seq(TagKinds)
  /\ m.tables \in Seq({"MCFG", "other"})
  /\ m.mcfg \in Seq(Configs)
  /\ m.low \in Seq(Configs)   \* what address 0 looks like, read as an MCFG
  /\ m.memory \in [0 .. Word - 1 -> Headers]

ASSUME DevicesAssumption ==
  /\ {Word, DEVICES, FUNCTIONS} \subseteq Nat \ {0}
  /\ \A m \in Machines : IsMachine(m)

VARIABLES
  machine,
  pc,     \* what is read next
  info,   \* multiboot_tags_info_t: for each kind, which tag it points to; 0 is NULL
  pos,    \* the tag, table or entry at hand
  at,     \* bus, device and function
  mcfg,   \* the entries pci_enumerate goes through
  mapped, \* pages given to ptm_map_addr
  found   \* pages given to ahci_driver_init, in order

vars == <<machine, pc, info, pos, at, mcfg, mapped, found>>
walk == <<at, mcfg, mapped, found>>

TypeOK ==
  /\ IsMachine(machine)
  /\ pc \in {"tag", "table", "entry", "bus", "device", "function", "done", "panic"}
  /\ info \in [TagKinds -> 0 .. Len(machine.tags)]
  /\ pos \in Nat \ {0}
  /\ at \in [bus : Nat, device : 0 .. DEVICES, function : 0 .. FUNCTIONS]
  /\ mcfg \in {<<>>, machine.mcfg, machine.low}
  /\ mapped \subseteq 0 .. Word - 1
  /\ found \in Seq(mapped)

Start(bus) == [bus |-> bus, device |-> 0, function |-> 0]

Init ==
  /\ machine \in Machines
  /\ pc = "tag"
  /\ info = [k \in TagKinds |-> 0]
  /\ pos = 1
  /\ at = Start(0)
  /\ mcfg = <<>> /\ mapped = {} /\ found = <<>>

-----------------------------------------------------------------------------
(* Mutant: a tag is taken for empty. *)
LoadTagStuck ==
  /\ pc = "tag" /\ pos <= Len(machine.tags)
  /\ info' = [info EXCEPT ![machine.tags[pos]] = pos]
  /\ UNCHANGED <<machine, pc, pos, walk>>

(* load_tags: of several tags of a kind the last one counts *)
LoadTag ==
  /\ pc = "tag" /\ pos <= Len(machine.tags)
  /\ info' = [info EXCEPT ![machine.tags[pos]] = pos]
  /\ pos' = pos + 1
  /\ UNCHANGED <<machine, pc, walk>>

(* acpi_init, the end of the tags reached *)
AcpiInit ==
  /\ pc = "tag" /\ pos > Len(machine.tags)
  /\ pc' = IF info["acpi_old"] = 0 THEN "panic" ELSE "table"
  /\ pos' = 1
  /\ UNCHANGED <<machine, info, walk>>

(* acpi_find_table.  Nobody looks whether it answers 0. *)
FindTable ==
  /\ pc = "table"
  /\ IF pos <= Len(machine.tables) /\ machine.tables[pos] # "MCFG"
       THEN pos' = pos + 1 /\ UNCHANGED <<pc, mcfg>>
       ELSE /\ pc' = "entry" /\ pos' = 1
            /\ mcfg' = IF pos <= Len(machine.tables) THEN machine.mcfg ELSE machine.low
  /\ UNCHANGED <<machine, info, at, mapped, found>>

-----------------------------------------------------------------------------
(* pci_enumerate *)

Address(config, a) ==
  config.base + (a.bus * DEVICES + a.device) * FUNCTIONS + a.function
Page(a) == Address(mcfg[pos], a) % Word
Present(a) == machine.memory[Page(a)] # "absent"

(* The page is mapped before the header in it is read. *)
Read == mapped' = mapped \cup {Page(at)} /\ UNCHANGED <<machine, info, mcfg>>

Entry ==
  /\ pc = "entry"
  /\ IF pos > Len(mcfg) THEN pc' = "done" /\ UNCHANGED at
                        ELSE pc' = "bus" /\ at' = Start(mcfg[pos].start)
  /\ UNCHANGED <<machine, info, pos, mcfg, mapped, found>>

NextEntry ==
  /\ pc = "bus" /\ at.bus >= mcfg[pos].end
  /\ pc' = "entry" /\ pos' = pos + 1
  /\ UNCHANGED <<machine, info, walk>>

(* Mutant: the bus after the last one as well. *)
EnumerateBusInclusive ==
  /\ pc = "bus" /\ at.bus <= mcfg[pos].end
  /\ Read
  /\ IF Present(at) THEN pc' = "device" /\ UNCHANGED at
                    ELSE pc' = "bus" /\ at' = Start(at.bus + 1)
  /\ UNCHANGED <<pos, found>>

EnumerateBus ==
  /\ pc = "bus" /\ at.bus < mcfg[pos].end
  /\ Read
  /\ IF Present(at) THEN pc' = "device" /\ UNCHANGED at
                    ELSE pc' = "bus" /\ at' = Start(at.bus + 1)
  /\ UNCHANGED <<pos, found>>

NextBus ==
  /\ pc = "device" /\ at.device = DEVICES
  /\ pc' = "bus" /\ at' = Start(at.bus + 1)
  /\ UNCHANGED <<machine, info, pos, mcfg, mapped, found>>

(* Mutant: a device that is absent ends the bus. *)
EnumerateDeviceOrReturn ==
  /\ pc = "device" /\ at.device < DEVICES
  /\ Read
  /\ IF Present(at) THEN pc' = "function" /\ UNCHANGED at
                    ELSE pc' = "bus" /\ at' = Start(at.bus + 1)
  /\ UNCHANGED <<pos, found>>

(* Mutant: the device is given to the driver as well. *)
EnumerateDeviceDriver ==
  /\ pc = "device" /\ at.device < DEVICES
  /\ Read
  /\ IF Present(at) THEN pc' = "function" /\ UNCHANGED at
                    ELSE pc' = "device" /\ at' = [at EXCEPT !.device = @ + 1]
  /\ found' = IF machine.memory[Page(at)] = "ahci" THEN Append(found, Page(at)) ELSE found
  /\ UNCHANGED pos

EnumerateDevice ==
  /\ pc = "device" /\ at.device < DEVICES
  /\ Read
  /\ IF Present(at) THEN pc' = "function" /\ UNCHANGED at
                    ELSE pc' = "device" /\ at' = [at EXCEPT !.device = @ + 1]
  /\ UNCHANGED <<pos, found>>

EnumerateFunction ==
  /\ pc = "function" /\ at.function < FUNCTIONS
  /\ Read
  /\ found' = IF machine.memory[Page(at)] = "ahci" THEN Append(found, Page(at)) ELSE found
  /\ at' = [at EXCEPT !.function = @ + 1]
  /\ UNCHANGED <<pc, pos>>

NextDevice ==
  /\ pc = "function" /\ at.function = FUNCTIONS
  /\ pc' = "device" /\ at' = [at EXCEPT !.device = @ + 1, !.function = 0]
  /\ UNCHANGED <<machine, info, pos, mcfg, mapped, found>>

Halted == pc \in {"done", "panic"} /\ UNCHANGED vars

Walk ==
  \/ LoadTag \/ AcpiInit \/ FindTable \/ Entry \/ NextEntry
  \/ EnumerateBus \/ NextBus \/ EnumerateDevice \/ NextDevice \/ EnumerateFunction

Next == Walk \/ Halted

Spec == Init /\ [][Next]_vars

(* kernel_main is alone: the walk goes on. *)
FairSpec == Spec /\ WF_vars(Walk)

-----------------------------------------------------------------------------
(* What should be found *)

Positions(config) ==
  [bus : config.start .. config.end - 1, device : 0 .. DEVICES - 1, function : 0 .. FUNCTIONS - 1]

Window(config) == {Address(config, a) : a \in Positions(config)}

(* PCI asks for a function 0 in every device; a root bus has a device 0. *)
Regular(config) ==
  \A a \in Positions(config) : machine.memory[Address(config, a)] # "absent" =>
    /\ machine.memory[Address(config, [a EXCEPT !.function = 0])] # "absent"
    /\ machine.memory[Address(config, Start(a.bus))] # "absent"

(* All windows are where pointers reach. *)
Reachable == \A i \in DOMAIN machine.mcfg : Window(machine.mcfg[i]) \subseteq 0 .. Word - 1

(* No two windows overlap. *)
Apart == \A i, j \in DOMAIN machine.mcfg : i # j => Window(machine.mcfg[i]) \cap Window(machine.mcfg[j]) = {}

Described == "acpi_old" \in ToSet(machine.tags) /\ "MCFG" \in ToSet(machine.tables)

(* On a machine that ACPI describes and whose windows lie below 4 GiB, the
   walk gives the driver every AHCI function that PCI's rules let it find. *)
AhciFound ==
  pc = "done" /\ Described /\ Reachable =>
    \A i \in DOMAIN machine.mcfg : Regular(machine.mcfg[i]) =>
      {p \in Window(machine.mcfg[i]) : machine.memory[p] = "ahci"} \subseteq ToSet(found)

(* No function is given to the driver before its page is mapped, and none is
   twice, unless two windows overlap. *)
FoundOnce ==
  /\ TypeOK
  /\ Described /\ Reachable /\ Apart => IsInjective(found)

(* Nothing but the windows is mapped, and so read, with the cache off. *)
OnlyWindowsRead ==
  Described /\ Reachable => mapped \subseteq UNION {Window(machine.mcfg[i]) : i \in DOMAIN machine.mcfg}

(* The walk ends, on every machine. *)
WalkEnds == <>(pc \in {"done", "panic"})

-----------------------------------------------------------------------------
(* The inductive invariant behind them. *)

(* What the walk comes to before it comes to b. *)
Before(a, b) ==
  \/ a.bus < b.bus
  \/ a.bus = b.bus /\ a.device < b.device
  \/ a.bus = b.bus /\ a.device = b.device /\ a.function < b.function

InEntry == pc \in {"bus", "device", "function"}

(* The positions of entry i that the walk is through with. *)
Passed(i) ==
  {a \in Positions(mcfg[i]) : i < pos \/ (InEntry /\ i = pos /\ Before(a, at))}

(* Where the walk is: at a position of the entry at hand, or behind one. *)
AtPosition ==
  /\ pc = "tag" => mcfg = <<>> /\ mapped = {} /\ found = <<>>
  /\ pc = "table" =>
       /\ mcfg = <<>> /\ mapped = {} /\ found = <<>>
       /\ \A k \in DOMAIN machine.tables : k < pos => machine.tables[k] # "MCFG"
  /\ pc \in {"entry", "bus", "device", "function", "done"} /\ "MCFG" \in ToSet(machine.tables) =>
       mcfg = machine.mcfg
  /\ InEntry => pos \in DOMAIN mcfg /\ at.bus >= mcfg[pos].start
  /\ pc = "bus" => at.device = 0 /\ at.function = 0
  /\ pc = "device" => at.bus < mcfg[pos].end /\ at.function = 0
  /\ pc = "function" => at.bus < mcfg[pos].end /\ at.device < DEVICES
  /\ pc = "done" => pos > Len(mcfg)

(* The driver has the AHCI functions of positions passed: of an entry that
   keeps PCI's rules all of them, and no other. *)
GivenInOrder ==
  /\ mapped \subseteq UNION {Window(machine.mcfg[i]) : i \in DOMAIN machine.mcfg}
  /\ \A p \in ToSet(found) : \E i \in DOMAIN mcfg : \E a \in Passed(i) : p = Address(mcfg[i], a)
  /\ Apart => IsInjective(found)
  /\ \A i \in DOMAIN mcfg : Regular(mcfg[i]) =>
       \A a \in Passed(i) :
         machine.memory[Address(mcfg[i], a)] = "ahci" => Address(mcfg[i], a) \in ToSet(found)

DevicesInv ==
  /\ TypeOK
  /\ AtPosition
  /\ Described /\ Reachable => GivenInOrder
===============================================================================
