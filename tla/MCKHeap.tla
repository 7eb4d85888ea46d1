------------------------------ MODULE MCKHeap -------------------------------
(***************************************************************************)
(* Instances of KHeap for TLC.  kernel.c makes a heap of 0x80000 bytes in  *)
(* blocks of 4; here it has 8 or 16 blocks.  Word is large enough that     *)
(* `used' does not wrap.                                                   *)
(***************************************************************************)
EXTENDS KHeap

(* Nothing, less than a block, three blocks. *)
MixedSizes == {0, 2, 12}

(* sizeof(ahci_port_t) is 16, the only size a caller asks for, in different
   spellings of four blocks. *)
PortSizes == {13, 16}

(* Four blocks divide the 16 of the configuration. *)
ASSUME PortsAreUniform == Sizes = PortSizes => Uniform(4)
=============================================================================
