----------------------------- MODULE Interrupts -----------------------------
(***************************************************************************)
(* The interrupts of the boot CPU's devices: the redirection entries of    *)
(* the I/O APIC (APIC.c), the table of handlers (interrupt.c) and do_IRQ.  *)
(* All of them go to the boot CPU.  The HPET's handler passes its tick on  *)
(* to the other CPUs, which take it as an IPI.                             *)
(*                                                                         *)
(* The boot CPU's local APIC is external: it remembers one interrupt of    *)
(* each vector, delivers the highest while interrupts are on and none is   *)
(* in service (the four vectors are of one priority class), and waits for  *)
(* the end of interrupt that the controller's ack writes.                  *)
(***************************************************************************)
EXTENDS Integers

CONSTANT N    (* CPUs 1..N are started; 0 is the boot CPU                    *)

ASSUME InterruptsAssumption == N \in Nat \ {0}

APs == 1..N

VARIABLES
  interrupt_desc,  (* the irqs with a handler and a controller              *)
  unmasked,        (* the irqs whose redirection entry is not masked        *)
  registering,     (* the step of register_irq                              *)
  irr,             (* local APIC: the irqs that wait                        *)
  isr,             (* local APIC: those in service                          *)
  iflag,           (* interrupts are on in the boot CPU's code              *)
  at,              (* what the boot CPU executes                            *)
  ipi              (* the CPUs at which a tick's IPI waits                  *)

irqVars == <<interrupt_desc, unmasked, registering, irr, isr, iflag, at, ipi>>

Vector == [keyboard |-> 33, hpet |-> 34, mouse |-> 44, disk |-> 47]
Irqs == DOMAIN Vector

IrqTypeOK ==
  /\ interrupt_desc \subseteq Irqs /\ unmasked \subseteq Irqs
  /\ registering \in {"desc", "install", "enable"}
  /\ irr \subseteq Irqs /\ isr \subseteq Irqs
  /\ iflag \in BOOLEAN
  /\ at \in {"code", "handler", "ack", "iret"}
  /\ ipi \subseteq APs

InitIrq ==
  /\ interrupt_desc = {} /\ unmasked = {} /\ registering = "desc"
  /\ irr = {} /\ isr = {} /\ iflag = FALSE /\ at = "code" /\ ipi = {}
-----------------------------------------------------------------------------
(* IOAPIC_init masks every entry but the keyboard's.                       *)
ApicInit ==
  /\ unmasked' = {"keyboard"}
  /\ interrupt_desc' = {}
  /\ UNCHANGED <<registering, irr, isr, iflag, at, ipi>>

(* register_irq: the descriptor, the entry (masked), and the mask.         *)
SetDesc(i) ==
  /\ registering = "desc" /\ registering' = "install"
  /\ interrupt_desc' = interrupt_desc \union {i}
  /\ UNCHANGED <<unmasked, irr, isr, iflag, at, ipi>>

IOAPIC_install(i) ==
  /\ registering = "install" /\ registering' = "enable"
  /\ unmasked' = unmasked \ {i}
  /\ UNCHANGED <<interrupt_desc, irr, isr, iflag, at, ipi>>

IOAPIC_enable(i) ==
  /\ registering = "enable" /\ registering' = "desc"
  /\ unmasked' = unmasked \union {i}
  /\ UNCHANGED <<interrupt_desc, irr, isr, iflag, at, ipi>>

Sti ==
  /\ iflag' = TRUE
  /\ UNCHANGED <<interrupt_desc, unmasked, registering, irr, isr, at, ipi>>
-----------------------------------------------------------------------------
(* The device's edge; at a masked entry it is lost.                        *)
Raise(i) ==
  /\ i \in unmasked
  /\ irr' = irr \union {i}
  /\ UNCHANGED <<interrupt_desc, unmasked, registering, isr, iflag, at, ipi>>

Front(i) == i \in irr /\ \A j \in irr : Vector[j] <= Vector[i]

(* The CPU takes the interrupt; its gate turns interrupts off.             *)
Dispatch(i) ==
  /\ iflag /\ at = "code" /\ isr = {} /\ Front(i)
  /\ irr' = irr \ {i} /\ isr' = {i} /\ at' = "handler"
  /\ UNCHANGED <<interrupt_desc, unmasked, registering, iflag, ipi>>

(* do_IRQ: the handler, if there is one.  The HPET's sends the IPI to all  *)
(* other CPUs, and those with a local APIC that is on take it.             *)
Handle(accepting) ==
  /\ at = "handler" /\ at' = "ack"
  /\ ipi' = IF isr = {"hpet"} /\ "hpet" \in interrupt_desc THEN ipi \union accepting ELSE ipi
  /\ UNCHANGED <<interrupt_desc, unmasked, registering, irr, isr, iflag>>

(* do_IRQ: the ack, if there is a controller.                              *)
Ack ==
  /\ at = "ack" /\ at' = "iret"
  /\ isr' = isr \ interrupt_desc
  /\ UNCHANGED <<interrupt_desc, unmasked, registering, irr, iflag, ipi>>

Iret ==
  /\ at = "iret" /\ at' = "code"
  /\ UNCHANGED <<interrupt_desc, unmasked, registering, irr, isr, iflag, ipi>>

(* The IPI on another CPU: acknowledged first, then IPI_0x200.             *)
TakeIPI(c) ==
  /\ c \in ipi
  /\ ipi' = ipi \ {c}
  /\ UNCHANGED <<interrupt_desc, unmasked, registering, irr, isr, iflag, at>>
=============================================================================
