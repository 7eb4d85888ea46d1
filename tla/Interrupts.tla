------------------------------ MODULE Interrupts ------------------------------
(***************************************************************************)
(* Interrupts from the devices to the handlers and back: the interrupt     *)
(* controllers, the gates and stubs (idt/idt.c, idt/isr.c, idt/irq.c,      *)
(* idt/interrupts.S), the timer's and the keyboard's handler (timer.c,     *)
(* keyboard.c) and the order in which kernel_main switches them on.        *)
(*                                                                         *)
(* A line is a number 0..15; the two controllers are one, with 16 lines    *)
(* and fixed priority.  Of the registers that a stub saves, `edi' stands   *)
(* for the one whose slot on the stack irq_handler reuses.                 *)
(***************************************************************************)
EXTENDS Integers, Sequences

CONSTANTS
  Lines,    \* the lines that devices other than the keyboard raise
  Letters,  \* keys that kbdus translates to a character
  Others,   \* keys that it translates to 0
  Word,     \* timer_tick counts modulo Word (2^32)
  MaxKeys   \* bound on the letters typed

ASSUME InterruptsAssumption ==
  /\ Lines \subseteq 0 .. 15 \ {1}
  /\ Letters \cap Others = {} /\ "none" \notin Letters \cup Others
  /\ Word \in Nat \ {0}
  /\ MaxKeys \in Nat

TIMER == 0
KEYBOARD == 1
EOI == 32   \* 0x20

VARIABLES
  stage,      \* how far kernel_main is; "main"; "panic"; "dead" (triple fault)
  ifl,        \* EFLAGS.IF
  gates,      \* the vectors with a gate in the IDT that lidt has loaded
  masked,     \* the controllers' mask registers
  requested,  \* lines raised and not yet taken
  inService,  \* lines taken and not yet acknowledged
  routines,   \* irq_routines
  frame,      \* what the stub has pushed for the interrupt being handled
  edi,        \* the register, as the interrupted code finds it
  ticks,      \* timer_tick
  kbd,        \* the keyboard's data register (port 0x60)
  typed,      \* letters pressed, as long as the keyboard had room for them
  printed     \* letters that keyboard_callback has printed

pic == <<masked, requested, inService>>
cpu == <<ifl, frame, edi>>
keys == <<kbd, typed, printed>>
vars == <<stage, pic, cpu, gates, routines, ticks, keys>>

NoFrame == [irq |-> -1, edi |-> 0, at |-> "none"]
Empty == [key |-> "none", up |-> FALSE]
Mine == 0   \* the value of the interrupted code

TypeOK ==
  /\ stage \in {"gdt", "idt", "timer", "keyboard", "main", "panic", "dead"}
  /\ ifl \in BOOLEAN
  /\ gates \subseteq 0 .. 47
  /\ masked \cup requested \cup inService \subseteq 0 .. 15
  /\ routines \in [0 .. 15 -> {"none", "timer", "keyboard"}]
  /\ frame \in [irq : 0 .. 15, edi : {Mine, EOI}, at : {"entry", "handled", "acknowledged"}]
               \cup {NoFrame}
  /\ edi \in {Mine, EOI}
  /\ ticks \in 0 .. Word - 1
  /\ kbd \in [key : Letters \cup Others, up : BOOLEAN] \cup {Empty}
  /\ typed \in Seq(Letters) /\ printed \in Seq(Letters)

(* The boot loader leaves interrupts disabled. *)
Init ==
  /\ stage = "gdt"
  /\ ifl = FALSE
  /\ gates = {}
  /\ masked = {} /\ requested = {} /\ inService = {}
  /\ routines = [l \in 0 .. 15 |-> "none"]
  /\ frame = NoFrame
  /\ edi = Mine
  /\ ticks = 0
  /\ kbd = Empty
  /\ typed = <<>> /\ printed = <<>>

-----------------------------------------------------------------------------
(* kernel_main *)

Booting(from, to) == stage = from /\ stage' = to

FaultGates == 0 .. 31   \* isr_install
IrqGates == 32 .. 47    \* irq_install

(* irq_remap starts the controllers anew, which forgets what was requested. *)
Remapped == requested' = {} /\ inService' = {}

InstallHandler(irq, handler) == routines' = [routines EXCEPT ![irq] = handler]

(* Mutant: the mask for the master is 0xf8. *)
IdtInstallCascade ==
  /\ Booting("gdt", "idt")
  /\ gates' = FaultGates \cup IrqGates
  /\ Remapped
  /\ masked' = 3 .. 15
  /\ UNCHANGED <<cpu, routines, ticks, keys>>

(* idt_install: the gates, lidt, and the masks 0xfc and 0xff. *)
IdtInstall ==
  /\ Booting("gdt", "idt")
  /\ gates' = FaultGates \cup IrqGates
  /\ Remapped
  /\ masked' = 2 .. 15
  /\ UNCHANGED <<cpu, routines, ticks, keys>>

InitTimer ==
  /\ Booting("idt", "timer")
  /\ InstallHandler(TIMER, "timer")
  /\ UNCHANGED <<cpu, pic, gates, ticks, keys>>

InitKeyboard ==
  /\ Booting("timer", "keyboard")
  /\ InstallHandler(KEYBOARD, "keyboard")
  /\ UNCHANGED <<cpu, pic, gates, ticks, keys>>

Sti ==
  /\ Booting("keyboard", "main")
  /\ ifl' = TRUE
  /\ UNCHANGED <<pic, frame, edi, gates, routines, ticks, keys>>

(* The kernel calls PANIC, which leaves interrupts as they are: because of what
   the boot loader passed, or later of a heap that is full or a machine without
   ACPI tables. *)
Panic ==
  /\ stage \in {"gdt", "main"}
  /\ frame = NoFrame
  /\ stage' = "panic"
  /\ UNCHANGED <<cpu, pic, gates, routines, ticks, keys>>

(* An instruction of the kernel faults: isr_common_stub calls fault_handler,
   which panics and never comes back to `sti; iret'. *)
Fault ==
  /\ stage \in {"idt", "timer", "keyboard", "main"}
  /\ frame = NoFrame
  /\ stage' = IF FaultGates \subseteq gates THEN "panic" ELSE "dead"
  /\ ifl' = FALSE
  /\ UNCHANGED <<pic, frame, edi, gates, routines, ticks, keys>>

-----------------------------------------------------------------------------
(* Devices *)

Raise(l) ==
  /\ l \notin requested
  /\ requested' = requested \cup {l}
  /\ UNCHANGED <<stage, cpu, masked, inService, gates, routines, ticks, keys>>

(* The keyboard has one scancode for the kernel at a time; it keeps the next
   one back until the register has been read. *)
KeyEvent(key, up) ==
  /\ kbd = Empty
  /\ key \in Letters /\ ~up => Len(typed) < MaxKeys
  /\ kbd' = [key |-> key, up |-> up]
  /\ typed' = IF key \in Letters /\ ~up THEN Append(typed, key) ELSE typed
  /\ requested' = requested \cup {KEYBOARD}
  /\ UNCHANGED <<stage, cpu, masked, inService, gates, routines, ticks, printed>>

-----------------------------------------------------------------------------
(* The processor and the controllers *)

Accepts(l) ==
  /\ ifl
  /\ l \in requested \ masked
  /\ \A k \in 0 .. l : k \notin inService /\ (k # l => k \notin requested \ masked)

(* The gate is an interrupt gate (0x8E): it clears IF.  The stub pushes the
   registers. *)
Enter(l) ==
  IF 32 + l \in gates
    THEN /\ frame' = [irq |-> l, edi |-> edi, at |-> "entry"]
         /\ ifl' = FALSE
         /\ UNCHANGED <<stage, edi>>
    ELSE /\ stage' = "dead"
         /\ UNCHANGED cpu

Interrupt(l) ==
  /\ Accepts(l)
  /\ Enter(l)
  /\ requested' = requested \ {l}
  /\ inService' = inService \cup {l}
  /\ UNCHANGED <<masked, gates, routines, ticks, keys>>

(* A request that has gone when the processor asks for its number is answered
   with 7, and nothing is in service. *)
Spurious ==
  /\ ifl
  /\ Enter(7)
  /\ UNCHANGED <<pic, gates, routines, ticks, keys>>

-----------------------------------------------------------------------------
(* irq_handler *)

Calls(routine) ==
  /\ frame.at = "entry"
  /\ routines[frame.irq] = routine
  /\ frame' = [frame EXCEPT !.at = "handled"]

NoRoutine ==
  /\ Calls("none")
  /\ UNCHANGED <<stage, ifl, edi, pic, gates, routines, ticks, keys>>

TimerCallback ==
  /\ Calls("timer")
  /\ ticks' = (ticks + 1) % Word
  /\ UNCHANGED <<stage, ifl, edi, pic, gates, routines, keys>>

(* Mutant: the key is printed when it is released as well. *)
KeyboardCallbackBoth ==
  /\ Calls("keyboard")
  /\ kbd' = Empty
  /\ printed' = IF kbd.key \in Letters THEN Append(printed, kbd.key) ELSE printed
  /\ UNCHANGED <<stage, ifl, edi, pic, gates, routines, ticks, typed>>

(* Reading port 0x60 makes room for the next scancode.  A key that is released,
   or that kbdus translates to 0, prints nothing. *)
KeyboardCallback ==
  /\ Calls("keyboard")
  /\ kbd' = Empty
  /\ printed' = IF kbd.key \in Letters /\ ~kbd.up THEN Append(printed, kbd.key) ELSE printed
  /\ UNCHANGED <<stage, ifl, edi, pic, gates, routines, ticks, typed>>

(* A non-specific end of interrupt: the highest line in service is done. *)
Served(S) == {l \in S : \E k \in S : k < l}

(* Mutant: lines without a routine are not acknowledged, nor is the keyboard. *)
AcknowledgeTimerOnly ==
  /\ frame.at = "handled"
  /\ inService' = IF frame.irq = TIMER THEN Served(inService) ELSE inService
  /\ \E slot \in {frame.edi, EOI} : frame' = [frame EXCEPT !.edi = slot, !.at = "acknowledged"]
  /\ UNCHANGED <<stage, ifl, edi, masked, requested, gates, routines, ticks, keys>>

(* Mutant: no end of interrupt at all. *)
AcknowledgeNothing ==
  /\ frame.at = "handled"
  /\ \E slot \in {frame.edi, EOI} : frame' = [frame EXCEPT !.edi = slot, !.at = "acknowledged"]
  /\ UNCHANGED <<stage, ifl, edi, pic, gates, routines, ticks, keys>>

(* The end of irq_handler: EOI to the controllers.  The last io_outb is a tail
   call, for which the compiler may put the arguments where irq_handler has
   its own: regs is passed by value, so that is where the stub saved ds and
   edi.  The optimised build does so. *)
Acknowledge ==
  /\ frame.at = "handled"
  /\ inService' = Served(inService)
  /\ \E slot \in {frame.edi, EOI} : frame' = [frame EXCEPT !.edi = slot, !.at = "acknowledged"]
  /\ UNCHANGED <<stage, ifl, edi, masked, requested, gates, routines, ticks, keys>>

(* popal, sti, iret: sti takes effect after the iret, which restores IF. *)
Iret ==
  /\ frame.at = "acknowledged"
  /\ edi' = frame.edi
  /\ frame' = NoFrame
  /\ ifl' = TRUE
  /\ UNCHANGED <<stage, pic, gates, routines, ticks, keys>>

Handler == NoRoutine \/ TimerCallback \/ KeyboardCallback \/ Acknowledge \/ Iret

(* The interrupted code gives the register a new value. *)
MainStep ==
  /\ stage = "main" /\ frame = NoFrame
  /\ edi' = Mine
  /\ UNCHANGED <<stage, ifl, frame, pic, gates, routines, ticks, keys>>

(* Nothing left to do: PANIC loops. *)
Halted == stage \in {"panic", "dead"} /\ UNCHANGED vars

Next ==
  \/ IdtInstall \/ InitTimer \/ InitKeyboard \/ Sti
  \/ Panic \/ Fault \/ MainStep \/ Halted
  \/ \E l \in Lines : Raise(l)
  \/ \E key \in Letters \cup Others, up \in BOOLEAN : KeyEvent(key, up)
  \/ \E l \in 0 .. 15 : Interrupt(l)
  \/ Spurious
  \/ Handler

Spec == Init /\ [][Next]_vars

(* Handlers run to their end: nothing preempts them.  A line that is again and
   again the one the processor would take is taken. *)
FairSpec ==
  /\ Spec
  /\ WF_vars(Handler)
  /\ \A l \in {TIMER, KEYBOARD} : SF_vars(Interrupt(l))

-----------------------------------------------------------------------------
(* Safety *)

(* When the processor accepts an interrupt, no earlier one is being handled or
   unacknowledged: handlers never nest, and no line is held up by one that
   the kernel forgot to acknowledge. *)
HandlersDoNotNest == ifl => frame = NoFrame /\ inService = {}

(* kernel_main enables interrupts only when every vector has a gate and every
   line that is not masked has a routine. *)
ReadyBeforeSti ==
  /\ stage # "dead"
  /\ ifl => \A l \in 0 .. 15 \ masked : routines[l] # "none"

(* Every letter typed is printed, once and in order; the last one may still
   wait in the keyboard's register. *)
KeysEchoed ==
  typed = printed \o (IF kbd.key \in Letters /\ ~kbd.up THEN <<kbd.key>> ELSE <<>>)

(* An interrupt is invisible to the code it interrupts: the registers are
   saved and popped again, "Pops edi,esi,ebp..." (interrupts.S:80). *)
RegistersRestored == edi = Mine

-----------------------------------------------------------------------------
(* The inductive invariant behind the safety properties. *)

Installed ==
  /\ stage \in {"idt", "timer", "keyboard", "main"} => gates = 0 .. 47 /\ masked = 2 .. 15
  /\ stage \in {"timer", "keyboard", "main"} => routines[TIMER] = "timer"
  /\ stage \in {"keyboard", "main"} => routines[KEYBOARD] = "keyboard"
  /\ ifl \/ frame # NoFrame =>
       /\ stage \in {"main", "panic"}
       /\ gates = 0 .. 47 /\ masked = 2 .. 15
       /\ routines[TIMER] = "timer" /\ routines[KEYBOARD] = "keyboard"

(* At most the line being handled is in service, until it is acknowledged. *)
InService ==
  /\ frame # NoFrame => ~ifl
  /\ inService \subseteq IF frame.at \in {"entry", "handled"} THEN {frame.irq} ELSE {}

InterruptsInv ==
  /\ TypeOK
  /\ stage # "dead"
  /\ Installed
  /\ InService
  /\ KeysEchoed

-----------------------------------------------------------------------------
(* Liveness *)

(* A timer request is taken, unless the kernel has panicked. *)
TimerServed == TIMER \in requested /\ stage = "main" ~> TIMER \notin requested \/ stage = "panic"

(* So is the keyboard's, unless the timer never leaves room for it. *)
KeyboardServed ==
  []<>(ifl /\ TIMER \notin requested) =>
    (KEYBOARD \in requested /\ stage = "main" ~> KEYBOARD \notin requested \/ stage = "panic")
===============================================================================
