--------------------------- MODULE InterruptsProofs ---------------------------
(***************************************************************************)
(* The safety properties of Interrupts, for every set of lines and keys.   *)
(* InterruptsInv is inductive: interrupts are enabled only with the tables *)
(* in place and no frame on the stack, the line in service is the one of   *)
(* the frame, and the letters printed lag behind those typed by what the   *)
(* keyboard still holds.                                                   *)
(***************************************************************************)
EXTENDS Interrupts, SequenceTheorems, TLAPS

(* An acknowledgement of the only line in service leaves none. *)
LEMMA ServedAlone ==
  ASSUME NEW l \in 0 .. 15, NEW S \in SUBSET {l}
  PROVE  Served(S) = {}
<1>1. \A x \in S : ~ \E k \in S : k < x
  <2> SUFFICES ASSUME NEW x \in S, NEW k \in S, k < x PROVE FALSE
    OBVIOUS
  <2>1. x = l /\ k = l
    OBVIOUS
  <2> QED
    BY <2>1
<1> QED
  BY <1>1 DEF Served

(* The invariant holds when the kernel is entered. *)
LEMMA InitInv == Init => InterruptsInv
<1> SUFFICES ASSUME Init PROVE InterruptsInv
  OBVIOUS
<1> USE InterruptsAssumption
<1>1. TypeOK
  <2>1. routines \in [0 .. 15 -> {"none", "timer", "keyboard"}]
    BY DEF Init
  <2>2. masked \cup requested \cup inService \subseteq 0 .. 15 /\ gates \subseteq 0 .. 47
    BY DEF Init
  <2>3. ticks \in 0 .. Word - 1
    BY DEF Init
  <2>4. kbd = Empty /\ frame = NoFrame /\ edi = Mine
    BY DEF Init
  <2>5. typed \in Seq(Letters) /\ printed \in Seq(Letters)
    BY DEF Init
  <2>6. stage = "gdt" /\ ifl = FALSE
    BY DEF Init
  <2> QED
    BY <2>1, <2>2, <2>3, <2>4, <2>5, <2>6 DEF TypeOK
<1>2. Installed /\ InService
  BY DEF Init, Installed, InService, NoFrame
<1>3. KeysEchoed
  BY DEF Init, KeysEchoed, Empty
<1> QED
  BY <1>1, <1>2, <1>3 DEF InterruptsInv, Init
-----------------------------------------------------------------------------
(* Steps that leave the keyboard and what was typed and printed alone. *)
LEMMA KeysUnchanged == KeysEchoed /\ UNCHANGED keys => KeysEchoed'
BY DEF KeysEchoed, keys

(* kernel_main's steps *)
LEMMA KernelStep ==
  ASSUME InterruptsInv,
         IdtInstall \/ InitTimer \/ InitKeyboard \/ Sti \/ Panic \/ Fault \/ MainStep
  PROVE  InterruptsInv'
<1> USE InterruptsAssumption DEF InterruptsInv
<1>1. CASE IdtInstall
  <2> USE <1>1 DEF IdtInstall, Booting, Remapped, FaultGates, IrqGates, cpu, keys
  <2>1. TypeOK'
    BY DEF TypeOK
  <2>2. Installed' /\ InService'
    BY DEF Installed, InService
  <2> QED
    BY <2>1, <2>2, KeysUnchanged
<1>2. CASE InitTimer
  <2> USE <1>2 DEF InitTimer, Booting, InstallHandler, cpu, pic, keys, TIMER, KEYBOARD
  <2>1. TypeOK'
    BY DEF TypeOK
  <2>2. Installed' /\ InService'
    BY DEF TypeOK, Installed, InService
  <2> QED
    BY <2>1, <2>2, KeysUnchanged
<1>3. CASE InitKeyboard
  <2> USE <1>3 DEF InitKeyboard, Booting, InstallHandler, cpu, pic, keys, TIMER, KEYBOARD
  <2>1. TypeOK'
    BY DEF TypeOK
  <2>2. Installed' /\ InService'
    BY DEF TypeOK, Installed, InService
  <2> QED
    BY <2>1, <2>2, KeysUnchanged
<1>4. CASE Sti
  <2> USE <1>4 DEF Sti, Booting, pic, keys
  <2>1. TypeOK'
    BY DEF TypeOK
  <2>2. Installed' /\ InService'
    BY DEF Installed, InService
  <2> QED
    BY <2>1, <2>2, KeysUnchanged
<1>5. CASE Panic
  <2> USE <1>5 DEF Panic, cpu, pic, keys
  <2>1. TypeOK'
    BY DEF TypeOK
  <2>2. Installed' /\ InService'
    BY DEF Installed, InService
  <2> QED
    BY <2>1, <2>2, KeysUnchanged
<1>6. CASE Fault
  <2> USE <1>6 DEF Fault, FaultGates, pic, keys
  <2>0. stage' = "panic"
    BY DEF Installed
  <2>1. TypeOK'
    BY <2>0 DEF TypeOK
  <2>2. Installed' /\ InService'
    BY <2>0 DEF Installed, InService
  <2> QED
    BY <2>0, <2>1, <2>2, KeysUnchanged
<1>7. CASE MainStep
  <2> USE <1>7 DEF MainStep, pic, keys
  <2>1. TypeOK'
    BY DEF TypeOK
  <2>2. Installed' /\ InService'
    BY DEF Installed, InService
  <2> QED
    BY <2>1, <2>2, KeysUnchanged
<1> QED
  BY <1>1, <1>2, <1>3, <1>4, <1>5, <1>6, <1>7

-----------------------------------------------------------------------------
(* The devices' steps *)

LEMMA RaiseStep ==
  ASSUME InterruptsInv, NEW l \in Lines, Raise(l)
  PROVE  InterruptsInv'
<1> USE InterruptsAssumption DEF InterruptsInv, Raise, cpu, keys
<1>1. TypeOK'
  BY DEF TypeOK
<1>2. Installed' /\ InService'
  BY DEF Installed, InService
<1> QED
  BY <1>1, <1>2, KeysUnchanged

(* A letter is typed when nothing is pending, so all before it are printed. *)
LEMMA KeyEventStep ==
  ASSUME InterruptsInv, NEW key \in Letters \cup Others, NEW up \in BOOLEAN, KeyEvent(key, up)
  PROVE  InterruptsInv'
<1> USE InterruptsAssumption DEF InterruptsInv, KeyEvent, cpu
<1>0. kbd' = [key |-> key, up |-> up] /\ printed' = printed
  OBVIOUS
<1>1. TypeOK'
  <2>1. typed' \in Seq(Letters)
    BY AppendProperties DEF TypeOK
  <2>2. kbd' \in [key : Letters \cup Others, up : BOOLEAN]
    BY <1>0
  <2>3. requested' \subseteq 0 .. 15
    BY DEF TypeOK, KEYBOARD
  <2> QED
    BY <2>1, <2>2, <2>3 DEF TypeOK
<1>2. Installed' /\ InService'
  BY DEF Installed, InService
<1>3. typed = printed
  BY ConcatEmptySeq DEF TypeOK, KeysEchoed, Empty
<1>4. KeysEchoed'
  <2>1. CASE key \in Letters /\ ~up
    <3>1. typed' = printed \o <<key>>
      BY <2>1, <1>3, AppendIsConcat DEF TypeOK
    <3> QED
      BY <3>1, <2>1, <1>0 DEF KeysEchoed
  <2>2. CASE ~(key \in Letters /\ ~up)
    <3>1. typed' = printed /\ printed \o <<>> = printed
      BY <2>2, <1>3, ConcatEmptySeq DEF TypeOK
    <3> QED
      BY <3>1, <2>2, <1>0 DEF KeysEchoed
  <2> QED
    BY <2>1, <2>2
<1> QED
  BY <1>1, <1>2, <1>4
-----------------------------------------------------------------------------
(* The processor's steps *)

(* Where interrupts are enabled every line has its gate. *)
LEMMA EnterStep ==
  ASSUME InterruptsInv, ifl, NEW l \in 0 .. 15, Enter(l)
  PROVE  /\ frame' = [irq |-> l, edi |-> edi, at |-> "entry"]
         /\ ifl' = FALSE
         /\ UNCHANGED <<stage, edi>>
         /\ inService = {}
BY DEF InterruptsInv, Enter, Installed, InService, NoFrame

LEMMA InterruptStep ==
  ASSUME InterruptsInv, NEW l \in 0 .. 15, Interrupt(l)
  PROVE  InterruptsInv'
<1> USE InterruptsAssumption DEF InterruptsInv, Interrupt, keys
<1>0. ifl
  BY DEF Accepts
<1>a. /\ frame' = [irq |-> l, edi |-> edi, at |-> "entry"] /\ ifl' = FALSE
      /\ UNCHANGED <<stage, edi>> /\ inService' = {l}
  BY <1>0, EnterStep
<1>1. TypeOK'
  BY <1>a DEF TypeOK, Mine, EOI
<1>2. Installed' /\ InService'
  BY <1>0, <1>a DEF Installed, InService
<1> QED
  BY <1>a, <1>1, <1>2, KeysUnchanged DEF keys

LEMMA SpuriousStep ==
  ASSUME InterruptsInv, Spurious
  PROVE  InterruptsInv'
<1> USE InterruptsAssumption DEF InterruptsInv, Spurious, pic, keys
<1>a. /\ frame' = [irq |-> 7, edi |-> edi, at |-> "entry"] /\ ifl' = FALSE
      /\ UNCHANGED <<stage, edi>> /\ inService' = {}
  BY EnterStep
<1>1. TypeOK'
  <2>1. frame' \in [irq : 0 .. 15, edi : {Mine, EOI}, at : {"entry", "handled", "acknowledged"}]
    <3>1. edi \in {Mine, EOI} /\ 7 \in 0 .. 15
      BY DEF TypeOK
    <3> QED
      BY <1>a, <3>1
  <2> QED
    BY <1>a, <2>1 DEF TypeOK
<1>2. Installed' /\ InService'
  BY <1>a DEF Installed, InService
<1> QED
  BY <1>a, <1>1, <1>2, KeysUnchanged DEF keys
-----------------------------------------------------------------------------
(* The handler's steps *)

(* While a routine is called there is a frame, and interrupts are disabled. *)
LEMMA CallStep ==
  ASSUME InterruptsInv, NEW routine, Calls(routine)
  PROVE  /\ frame \in [irq : 0 .. 15, edi : {Mine, EOI}, at : {"entry", "handled", "acknowledged"}]
         /\ frame' = [frame EXCEPT !.at = "handled"]
         /\ frame'.irq = frame.irq /\ frame'.at = "handled" /\ frame' # NoFrame
         /\ ~ifl
         /\ inService \subseteq {frame.irq}
<1>1. frame.at = "entry" /\ frame' = [frame EXCEPT !.at = "handled"]
  BY DEF Calls
<1>2. frame # NoFrame
  BY <1>1 DEF NoFrame
<1>3. frame \in [irq : 0 .. 15, edi : {Mine, EOI}, at : {"entry", "handled", "acknowledged"}]
  BY <1>2 DEF InterruptsInv, TypeOK
<1> QED
  BY <1>1, <1>2, <1>3 DEF InterruptsInv, InService, NoFrame

LEMMA RoutineStep ==
  ASSUME InterruptsInv, NoRoutine \/ TimerCallback
  PROVE  InterruptsInv'
<1> USE InterruptsAssumption DEF InterruptsInv, NoRoutine, TimerCallback, pic, keys
<1>a. \E routine : Calls(routine)
  OBVIOUS
<1>1. TypeOK'
  <2>1. frame' \in [irq : 0 .. 15, edi : {Mine, EOI}, at : {"entry", "handled", "acknowledged"}]
    BY <1>a, CallStep
  <2>2. ticks' \in 0 .. Word - 1
    BY DEF TypeOK
  <2> QED
    BY <2>1, <2>2 DEF TypeOK
<1>2. Installed' /\ InService'
  BY <1>a, CallStep DEF Installed, InService, NoFrame
<1> QED
  BY <1>1, <1>2, KeysUnchanged

(* What is pending is printed, and then nothing is. *)
LEMMA KeyboardStep ==
  ASSUME InterruptsInv, KeyboardCallback
  PROVE  InterruptsInv'
<1> USE InterruptsAssumption DEF InterruptsInv, KeyboardCallback, pic
<1>a. Calls("keyboard")
  OBVIOUS
<1>1. printed' = printed \o (IF kbd.key \in Letters /\ ~kbd.up THEN <<kbd.key>> ELSE <<>>)
  BY AppendIsConcat, ConcatEmptySeq DEF TypeOK
<1>2. printed' \in Seq(Letters) /\ typed' = printed'
  BY <1>1, AppendProperties DEF TypeOK, KeysEchoed
<1>3. KeysEchoed'
  <2>1. kbd' = Empty /\ "none" \notin Letters
    OBVIOUS
  <2>2. printed' \o <<>> = printed'
    BY <1>2, ConcatEmptySeq
  <2> QED
    BY <1>2, <2>1, <2>2 DEF KeysEchoed, Empty
<1>4. TypeOK'
  <2>1. frame' \in [irq : 0 .. 15, edi : {Mine, EOI}, at : {"entry", "handled", "acknowledged"}]
    BY <1>a, CallStep
  <2> QED
    BY <1>2, <2>1 DEF TypeOK
<1>5. Installed' /\ InService'
  <2>1. frame' # NoFrame /\ frame'.irq = frame.irq /\ frame'.at = "handled"
    BY <1>a, CallStep
  <2>2. frame # NoFrame /\ ~ifl /\ inService \subseteq {frame.irq}
    BY <1>a, CallStep DEF Calls, NoFrame
  <2>3. UNCHANGED <<stage, ifl, gates, masked, inService, routines>>
    OBVIOUS
  <2>4. Installed'
    BY <2>2, <2>3 DEF Installed
  <2>5. InService'
    BY <2>1, <2>2, <2>3 DEF InService
  <2> QED
    BY <2>4, <2>5
<1> QED
  BY <1>3, <1>4, <1>5

LEMMA AcknowledgeStep ==
  ASSUME InterruptsInv, Acknowledge
  PROVE  InterruptsInv'
<1> USE InterruptsAssumption DEF InterruptsInv, Acknowledge, keys
<1>1. frame.at = "handled" /\ frame # NoFrame
  BY DEF NoFrame
<1>2. frame \in [irq : 0 .. 15, edi : {Mine, EOI}, at : {"entry", "handled", "acknowledged"}]
  BY <1>1 DEF TypeOK
<1>3. PICK slot \in {frame.edi, EOI} : frame' = [frame EXCEPT !.edi = slot, !.at = "acknowledged"]
  OBVIOUS
<1>4. frame' \in [irq : 0 .. 15, edi : {Mine, EOI}, at : {"entry", "handled", "acknowledged"}]
  BY <1>2, <1>3
<1>5. inService' = {}
  <2>1. inService \in SUBSET {frame.irq} /\ frame.irq \in 0 .. 15
    BY <1>1, <1>2 DEF InService
  <2> QED
    BY <2>1, ServedAlone
<1>6. TypeOK'
  BY <1>4, <1>5 DEF TypeOK
<1>7. Installed' /\ InService'
  BY <1>1, <1>5 DEF Installed, InService
<1> QED
  BY <1>6, <1>7, KeysUnchanged

LEMMA IretStep ==
  ASSUME InterruptsInv, Iret
  PROVE  InterruptsInv'
<1> USE InterruptsAssumption DEF InterruptsInv, Iret, pic, keys
<1>1. frame.at = "acknowledged" /\ frame # NoFrame
  BY DEF NoFrame
<1>2. frame.edi \in {Mine, EOI} /\ inService = {}
  BY <1>1 DEF TypeOK, InService
<1>3. TypeOK'
  BY <1>2 DEF TypeOK
<1>4. Installed' /\ InService'
  BY <1>1, <1>2 DEF Installed, InService
<1> QED
  BY <1>3, <1>4, KeysUnchanged
-----------------------------------------------------------------------------
(* InterruptsInv is an invariant: interrupts are enabled only when everything
   is in place and no other one is being handled, and no letter is lost. *)
THEOREM InterruptsInvariant == Spec => []InterruptsInv
<1>1. Init => InterruptsInv
  BY InitInv
<1>2. InterruptsInv /\ [Next]_vars => InterruptsInv'
  <2> SUFFICES ASSUME InterruptsInv, [Next]_vars PROVE InterruptsInv'
    OBVIOUS
  <2>1. CASE IdtInstall \/ InitTimer \/ InitKeyboard \/ Sti \/ Panic \/ Fault \/ MainStep
    BY <2>1, KernelStep
  <2>2. CASE \E l \in Lines : Raise(l)
    BY <2>2, RaiseStep
  <2>3. CASE \E key \in Letters \cup Others, up \in BOOLEAN : KeyEvent(key, up)
    BY <2>3, KeyEventStep
  <2>4. CASE \E l \in 0 .. 15 : Interrupt(l)
    BY <2>4, InterruptStep
  <2>5. CASE Spurious
    BY <2>5, SpuriousStep
  <2>6. CASE Handler
    BY <2>6, RoutineStep, KeyboardStep, AcknowledgeStep, IretStep DEF Handler
  <2>7. CASE Halted \/ UNCHANGED vars
    <3>1. UNCHANGED vars
      BY <2>7 DEF Halted
    <3>2. TypeOK'
      BY <3>1 DEF vars, pic, cpu, keys, InterruptsInv, TypeOK
    <3>3. Installed' /\ InService'
      BY <3>1 DEF vars, pic, cpu, InterruptsInv, Installed, InService
    <3>4. KeysEchoed' /\ stage' # "dead"
      BY <3>1, KeysUnchanged DEF vars, InterruptsInv
    <3> QED
      BY <3>2, <3>3, <3>4 DEF InterruptsInv
  <2> QED
    BY <2>1, <2>2, <2>3, <2>4, <2>5, <2>6, <2>7 DEF Next
<1> QED
  BY <1>1, <1>2, PTL DEF Spec

(* No handler runs inside another, and none is entered with a line that was
   not acknowledged. *)
THEOREM HandlersNeverNest == Spec => []HandlersDoNotNest
<1>1. InterruptsInv => HandlersDoNotNest
  BY DEF InterruptsInv, InService, HandlersDoNotNest, NoFrame
<1> QED
  BY <1>1, InterruptsInvariant, PTL

(* Interrupts are enabled only when every vector has its gate and every line
   that may interrupt its routine: the processor never finds none. *)
THEOREM TablesReadyBeforeSti == Spec => []ReadyBeforeSti
<1>1. InterruptsInv => ReadyBeforeSti
  <2> SUFFICES ASSUME InterruptsInv, ifl, NEW l \in 0 .. 15 \ masked
               PROVE  stage # "dead" /\ routines[l] # "none"
    BY DEF ReadyBeforeSti, InterruptsInv
  <2>1. l \in {0, 1}
    BY DEF InterruptsInv, Installed
  <2> QED
    BY <2>1 DEF InterruptsInv, Installed, TIMER, KEYBOARD
<1> QED
  BY <1>1, InterruptsInvariant, PTL

(* Every letter is printed once and in order, whatever else interrupts. *)
THEOREM EveryKeyEchoed == Spec => []KeysEchoed
<1>1. InterruptsInv => KeysEchoed
  BY DEF InterruptsInv
<1> QED
  BY <1>1, InterruptsInvariant, PTL
===============================================================================
