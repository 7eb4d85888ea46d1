------------------------------- MODULE MCDevices -------------------------------
(***************************************************************************)
(* Machines for TLC.  A bus has three devices of two functions: six pages. *)
(* One window of one or two buses, one of them with every content, below   *)
(* and across the end of what a pointer reaches; two windows, apart or     *)
(* overlapping; and machines without the ACPI tag or an MCFG.              *)
(***************************************************************************)
EXTENDS Devices

Buses(b, s, e) == [base |-> b, start |-> s, end |-> e]

Machine(t, s, c, m) ==
  [tags |-> t, tables |-> s, mcfg |-> c, memory |-> m, low |-> <<Buses(6, 0, 1)>>]

Full == <<"memory_map", "acpi_old", "modules", "modules">>
Rsdt == <<"other", "MCFG", "MCFG">>

(* Every content of one bus (a second function is absent or AHCI), and for the
   other: nothing, a full one, one without a device 0. *)
AnyBus == {b \in [1 .. 6 -> Headers] : \A i \in {2, 4, 6} : b[i] # "other"}
OtherBus == {<<"absent", "absent", "absent", "absent", "absent", "absent">>,
             <<"other", "ahci", "ahci", "absent", "ahci", "ahci">>,
             <<"absent", "other", "ahci", "ahci", "other", "absent">>}

Memories == {a \o b : a \in AnyBus, b \in OtherBus} \cup {b \o a : a \in AnyBus, b \in OtherBus}

SomeMachines ==
  {Machine(Full, Rsdt, c, [p \in 0 .. 11 |-> m[p + 1]]) :
     c \in {<<Buses(0, 0, 1)>>, <<Buses(0, 0, 2)>>, <<Buses(6, 0, 2)>>,
            <<Buses(0, 0, 1), Buses(0, 0, 2)>>, <<Buses(0, 1, 2), Buses(0, 0, 1)>>},
     m \in Memories}
  \cup {Machine(t, <<"other">>, <<>>, [p \in 0 .. 11 |-> m[p + 1]]) :
          t \in {Full, <<"modules">>, <<>>}, m \in Memories}
===============================================================================
