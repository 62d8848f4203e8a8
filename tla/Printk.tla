------------------------------- MODULE Printk -------------------------------
(***************************************************************************)
(* color_printk (kernel/printk.c) as the kernel's contexts call it: tasks, *)
(* the interrupt handlers, the softirq that ret_from_intr (entry.S) runs   *)
(* with interrupts on again, and the trap handlers of trap.c, which print  *)
(* and then loop for ever.  color_printk takes printk_lock only when       *)
(* interrupts are on; that lock is the abstract lock that Spinlock         *)
(* implements.                                                             *)
(*                                                                         *)
(* All gates name an IST, and all ISTs of a CPU are the top of one block   *)
(* (main.c): a CPU has a task and at most one handler in use.  What comes  *)
(* over a softirq or a trap handler overwrites it; the lock it held is     *)
(* lost, and a handler that returns into it goes astray: that is undefined *)
(* and not followed on.  A handler may also, on its way out, switch to     *)
(* another task: the interrupted one is dropped, with its lock (Scheduler  *)
(* says when, and when there is no other).                                 *)
(***************************************************************************)
EXTENDS Integers

CONSTANTS CPUs,
          BSP,       (* the CPU that gets the HPET tick                      *)
          None, Lost (* the lock is free; its owner is gone                  *)

Contexts == CPUs \X {"task", "block"}

ASSUME PrintkAssumption ==
  BSP \in CPUs /\ None \notin Contexts /\ Lost \notin Contexts /\ None # Lost

VARIABLES
  frame,    (* each CPU's task, and what runs on its block, if in use       *)
  torn,     (* each CPU: what ran on the block was overwritten              *)
  raised,   (* each CPU: the block's preempt_count stays raised by that     *)
  trapped,  (* bound: a CPU takes one exception                             *)
  owner,    (* the context that holds printk_lock                           *)
  softirq,  (* softirq_status # 0                                           *)
  astray

blocks == <<torn, raised, trapped>>
consoleVars == <<frame, blocks, owner, softirq, astray>>

printk_lock == INSTANCE AbstractLock

Traps == {"trap",        (* an exception whose handler prints one line       *)
          "fault",       (* one whose handler tells the error code's bits    *)
          "nmi"}         (* the non-maskable interrupt: one line             *)
Kinds == {"none", "task", "irq", "soft"} \cup Traps
Positions == {"run",     (* outside color_printk                             *)
              "lock",    (* spinning for printk_lock                         *)
              "write",   (* formatting into buf and drawing                  *)
              "ret",     (* a handler that has printed                       *)
              "check",   (* do_softirq, before it tests softirq_status       *)
              "clear",   (* do_softirq, its action done                      *)
              "stopped"} (* a trap's endless loop                            *)

(* A context, and whether the IF bit of RFLAGS is set in it.               *)
Frame(kind, at, on) == [kind |-> kind, at |-> at, on |-> on]
NewTask == Frame("task", "run", TRUE)
Unused == Frame("none", "run", FALSE)

ConsoleInit ==
  /\ frame = [x \in Contexts |-> IF x[2] = "task" THEN NewTask ELSE Unused]
  /\ torn = [c \in CPUs |-> FALSE] /\ raised = [c \in CPUs |-> FALSE]
  /\ trapped = [c \in CPUs |-> FALSE]
  /\ printk_lock!Init
  /\ softirq = FALSE /\ astray = FALSE

InUse(c) == frame[<<c, "block">>].kind # "none"
Running(c) == <<c, IF InUse(c) THEN "block" ELSE "task">>
Top(c) == frame[Running(c)]
InterruptsOn(c) == Top(c).on
Goto(c, at) == ~astray /\ frame' = [frame EXCEPT ![Running(c)].at = at]

(* Where a context goes on after its print: a fault's handler has further  *)
(* lines for the bits of the error code.                                   *)
After == [task |-> {"run"}, irq |-> {"ret"}, soft |-> {"clear"},
          trap |-> {"stopped"}, nmi |-> {"stopped"}, fault |-> {"run", "stopped"}]
-----------------------------------------------------------------------------
(* color_printk                                                            *)
BugColorPrintk(c) ==   \* takes the lock whatever the IF bit
  /\ Top(c).at = "run"
  /\ Goto(c, "lock")
  /\ UNCHANGED <<blocks, owner, softirq, astray>>

(* Called by a task or a handler: the IF bit decides about the lock.       *)
ColorPrintk(c) ==
  /\ Top(c).at = "run"
  /\ Goto(c, IF InterruptsOn(c) THEN "lock" ELSE "write")
  /\ UNCHANGED <<blocks, owner, softirq, astray>>

Lock(c) ==
  /\ Top(c).at = "lock"
  /\ printk_lock!Acquire(Running(c))
  /\ Goto(c, "write")
  /\ UNCHANGED <<blocks, softirq, astray>>

BugUnlock(c) ==   \* unlocks whatever the IF bit
  /\ Top(c).at = "write"
  /\ \E at \in After[Top(c).kind] : Goto(c, at)
  /\ owner' = None
  /\ UNCHANGED <<blocks, softirq, astray>>

Unlock(c) ==
  /\ Top(c).at = "write"
  /\ \E at \in After[Top(c).kind] : Goto(c, at)
  /\ IF InterruptsOn(c) THEN printk_lock!Release(Running(c)) ELSE UNCHANGED owner
  /\ UNCHANGED <<blocks, softirq, astray>>
-----------------------------------------------------------------------------
(* The CPU takes what comes at the top of its block.                       *)
Spinlocked(c) == Top(c).on /\ Top(c).at \in {"lock", "write"}

Enter(c, new) ==
  /\ ~astray
  /\ frame' = [frame EXCEPT ![<<c, "block">>] = new]
  /\ torn' = [torn EXCEPT ![c] = InUse(c)]
  /\ raised' = [raised EXCEPT ![c] = @ \/ (InUse(c) /\ Spinlocked(c))]
  /\ owner' = IF owner = <<c, "block">> THEN Lost ELSE owner
  /\ UNCHANGED astray

(* An interrupt; on the BSP it may be the tick that finds a timer due.     *)
Interrupt(c) ==
  /\ InterruptsOn(c)
  /\ Enter(c, Frame("irq", "run", FALSE))
  /\ softirq' \in {softirq} \cup (IF c = BSP THEN {TRUE} ELSE {})
  /\ UNCHANGED trapped

(* An exception in whatever runs, through the gate sys_vector_init gives   *)
(* it: a trap gate leaves IF as it is, the gate of the NMI clears it.      *)
Gate(kind, on) == Frame(kind, "run", on /\ kind # "nmi")

Trap(c) ==
  /\ ~trapped[c] /\ trapped' = [trapped EXCEPT ![c] = TRUE]
  /\ \E kind \in Traps : Enter(c, Gate(kind, InterruptsOn(c)))
  /\ UNCHANGED softirq

(* The end of ret_from_intr: back to what is below; or, if the block's     *)
(* preempt_count is 0, schedule().                                         *)
Return(c) ==
  /\ ~astray
  /\ \/ /\ frame' = [frame EXCEPT ![<<c, "block">>] = Unused]
        /\ astray' = torn[c] /\ UNCHANGED owner
     \/ /\ ~raised[c]
        /\ frame' = [frame EXCEPT ![<<c, "block">>] = Unused, ![<<c, "task">>] = NewTask]
        /\ astray' \in BOOLEAN
        /\ owner' = IF owner = <<c, "task">> THEN Lost ELSE owner
  /\ torn' = [torn EXCEPT ![c] = FALSE]
  /\ UNCHANGED <<raised, trapped>>

(* ret_from_intr: any pending softirq is run first, on any CPU, whatever   *)
(* the interrupted context was doing.                                      *)
RetFromIntr(c) ==
  /\ Top(c).kind = "irq" /\ Top(c).at \in {"run", "ret"}
  /\ IF softirq
     THEN /\ ~astray
          /\ frame' = [frame EXCEPT ![<<c, "block">>] = Frame("soft", "check", TRUE)]
          /\ UNCHANGED <<blocks, owner, astray>>
     ELSE Return(c)
  /\ UNCHANGED softirq

(* do_softirq, interrupts on: runs do_timer, which prints, unless the bit  *)
(* has been cleared meanwhile; then clears the bit and returns.            *)
SoftAction(c) ==
  /\ Top(c).at = "check"
  /\ IF softirq THEN Goto(c, "lock") /\ UNCHANGED <<blocks, owner, astray>> ELSE Return(c)
  /\ UNCHANGED softirq

SoftClear(c) ==
  /\ Top(c).at = "clear"
  /\ softirq' = FALSE
  /\ Return(c)

OwnStep(c) ==
  ColorPrintk(c) \/ Lock(c) \/ Unlock(c) \/ RetFromIntr(c) \/ SoftAction(c) \/ SoftClear(c)

ConsoleNext == \E c \in CPUs : OwnStep(c) \/ Interrupt(c) \/ Trap(c)

ConsoleSpec == ConsoleInit /\ [][ConsoleNext]_consoleVars

(* A handler runs to its end with interrupts off.  Interrupts keep coming  *)
(* but leave the interrupted code time to run between them, so what it can *)
(* do again and again it does in the end.                                  *)
Fairness == \A c \in CPUs :
  /\ WF_consoleVars(~InterruptsOn(c) /\ (Unlock(c) \/ RetFromIntr(c)))
  /\ SF_consoleVars(InterruptsOn(c) /\ (Unlock(c) \/ SoftAction(c) \/ SoftClear(c)))

FairConsoleSpec == ConsoleSpec /\ Fairness
-----------------------------------------------------------------------------
FrameTypeOK ==
  /\ frame \in [Contexts -> [kind : Kinds, at : Positions, on : BOOLEAN]]
  /\ {torn, raised, trapped} \subseteq [CPUs -> BOOLEAN]
  /\ owner \in Contexts \cup {None, Lost}
  /\ {softirq, astray} \subseteq BOOLEAN

(* Whoever draws with interrupts on owns printk_lock, also below handlers  *)
(* and traps that print without it: no handler gives away the lock of the  *)
(* code it interrupted.  A stopped trap keeps no lock.                     *)
LockedWriterOwns ==
  /\ FrameTypeOK
  /\ \A x \in Contexts :
       /\ frame[x].at = "write" /\ frame[x].on => owner = x
       /\ frame[x].at = "stopped" => owner # x

(* What comes over the task that holds the lock and does not let it go on: *)
(* a trap, which never returns, and a softirq, which prints with           *)
(* interrupts on and waits for the lock below it.                          *)
HolderBlocked ==
  \E c \in CPUs :
    /\ owner = <<c, "task">>
    /\ \/ frame[<<c, "block">>].kind \in Traps
       \/ frame[<<c, "block">>].kind = "soft" /\ frame[<<c, "block">>].at = "lock"

(* printk_lock is always given back: a handler over its holder prints      *)
(* without the lock and returns to it, a trap elsewhere gives it back      *)
(* before it stops.  Unless the holder is blocked, or gone: dropped by a   *)
(* switch or overwritten, or a CPU goes astray.                            *)
LockGivenBack ==
  owner # None ~> owner = None \/ owner = Lost \/ HolderBlocked \/ astray
=============================================================================
