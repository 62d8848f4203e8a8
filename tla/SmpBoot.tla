------------------------------- MODULE SmpBoot -------------------------------
(***************************************************************************)
(* The start of the other CPUs.  The boot CPU (Start_Kernel, main.c) loops *)
(* over them: it takes SMP_lock, makes a stack and a TSS, publishes both   *)
(* through the globals _stack_start and global_i, and sends the startup    *)
(* IPI.  The started CPU (head.S, then Start_SMP in SMP.c) reads the       *)
(* globals and gives the lock back, which lets the boot CPU go on.  After  *)
(* its loop the boot CPU waits for nobody: it runs schedule_init,          *)
(* HPET_init and task_init while the last CPU may still be starting.       *)
(*                                                                         *)
(* Before the loop it registers the interrupts of its devices, and after   *)
(* HPET_init it turns interrupts on: what happens with them is in          *)
(* Interrupts.                                                             *)
(***************************************************************************)
EXTENDS Interrupts

CONSTANT Forker   (* the CPU that calls task_init at the end of Start_SMP    *)

ASSUME SmpBootAssumption == Forker \in APs

VARIABLES
  bsp,          (* where the boot CPU is                                     *)
  ap,           (* where each other CPU is                                   *)
  smp_lock,     (* SMP_lock is free                                          *)
  preempt,      (* preempt_count of the boot CPU's task                      *)
  global_i,     (* the loop variable, read by the started CPUs               *)
  stack_start,  (* _stack_start: the stack of CPU i is called i              *)
  rsp,          (* the stack each CPU runs on, and with it its task_struct   *)
  rsp0,         (* the stack in its thread, taken on interrupts from ring 3  *)
  tr,           (* the TSS each CPU loaded: that of CPU i is called i        *)
  runqueue      (* task_schedule[Forker].task_queue                          *)

bootVars == <<bsp, ap, smp_lock, preempt, global_i, stack_start, rsp, rsp0, tr, runqueue>>
vars == <<bootVars, irqVars>>
apVars == <<ap, rsp, rsp0, tr>>

NoStack == N + 1
BspSteps == {"apic", "keyboard", "mouse", "disk", "loop", "lock", "stack", "startup", "hpet", "sti", "task", "idle"}
ApSteps == {"off", "reset", "entry64", "pcb", "tr", "fault", "unlock", "fork", "hlt"}

TypeOK ==
  /\ IrqTypeOK
  /\ bsp \in BspSteps
  /\ ap \in [APs -> ApSteps]
  /\ smp_lock \in BOOLEAN
  /\ preempt \in 0..N
  /\ global_i \in 1..(N + 1)
  /\ stack_start \in 0..N
  /\ rsp \in [APs -> 0..NoStack]
  /\ rsp0 \in [APs -> 0..NoStack]
  /\ tr \in [APs -> 0..NoStack]
  /\ runqueue \in {"zeroed", "empty", "queued"}

Init ==
  /\ InitIrq
  /\ bsp = "apic"
  /\ ap = [a \in APs |-> "off"]
  /\ smp_lock = TRUE
  /\ preempt = 0
  /\ global_i = 1
  /\ stack_start = 0
  /\ rsp = [a \in APs |-> NoStack]
  /\ rsp0 = [a \in APs |-> NoStack]
  /\ tr = [a \in APs |-> NoStack]
  /\ runqueue = "zeroed"

BspGoto(from, to) == bsp = from /\ bsp' = to
ApGoto(a, from, to) == ap[a] = from /\ ap' = [ap EXCEPT ![a] = to]
-----------------------------------------------------------------------------
BugCountsOff ==   \* a spin_lock that leaves the count alone
  /\ global_i <= N
  /\ BspGoto("loop", "lock")
  /\ UNCHANGED <<apVars, smp_lock, preempt, global_i, stack_start, runqueue>>

(* The boot CPU.                                                           *)
BspPreemptDisable ==
  /\ global_i <= N
  /\ BspGoto("loop", "lock")
  /\ preempt' = preempt + 1
  /\ UNCHANGED <<apVars, smp_lock, global_i, stack_start, runqueue>>

BugBspLock ==   \* does not wait for the CPU started before
  /\ BspGoto("lock", "stack")
  /\ smp_lock' = FALSE
  /\ UNCHANGED <<apVars, preempt, global_i, stack_start, runqueue>>

BspLock ==
  /\ smp_lock
  /\ BspGoto("lock", "stack")
  /\ smp_lock' = FALSE
  /\ UNCHANGED <<apVars, preempt, global_i, stack_start, runqueue>>

(* A stack with the CPU's task_struct at its bottom, and the CPU's TSS.    *)
MakeStack ==
  /\ BspGoto("stack", "startup")
  /\ stack_start' = global_i
  /\ UNCHANGED <<apVars, smp_lock, preempt, global_i, runqueue>>

(* Two startup IPIs; a CPU that has started ignores the second.            *)
StartupIPI ==
  /\ bsp = "startup" /\ ap[global_i] = "off"
  /\ ap' = [ap EXCEPT ![global_i] = "reset"]
  /\ UNCHANGED <<bsp, smp_lock, preempt, global_i, stack_start, rsp, rsp0, tr, runqueue>>

NextCPU ==
  /\ BspGoto("startup", "loop")
  /\ ap[global_i] # "off"
  /\ global_i' = global_i + 1
  /\ UNCHANGED <<apVars, smp_lock, preempt, stack_start, runqueue>>

BugScheduleInit ==   \* after HPET_init and sti
  /\ \/ global_i > N /\ BspGoto("loop", "hpet") /\ UNCHANGED runqueue
     \/ BspGoto("task", "idle") /\ runqueue' = "empty"
  /\ UNCHANGED <<apVars, smp_lock, preempt, global_i, stack_start>>

(* schedule_init clears the queues of all CPUs and makes them empty lists. *)
ScheduleInit ==
  /\ global_i > N
  /\ BspGoto("loop", "hpet")
  /\ runqueue' = "empty"
  /\ UNCHANGED <<apVars, smp_lock, preempt, global_i, stack_start>>

(* The boot CPU's own task_init, on its own queue, and its idle loop.      *)
TaskInit ==
  /\ BspGoto("task", "idle")
  /\ UNCHANGED <<apVars, smp_lock, preempt, global_i, stack_start, runqueue>>
-----------------------------------------------------------------------------
(* Another CPU.  head.S loads the stack twice, around the change of cr3.   *)
LoadStack(a) ==
  /\ \/ ApGoto(a, "reset", "entry64")
     \/ ApGoto(a, "entry64", "pcb")
  /\ rsp' = [rsp EXCEPT ![a] = stack_start]
  /\ UNCHANGED <<bsp, smp_lock, preempt, global_i, stack_start, rsp0, tr, runqueue>>

(* Start_SMP fills the task_struct at the bottom of its stack.             *)
InitPcb(a) ==
  /\ ApGoto(a, "pcb", "tr")
  /\ rsp0' = [rsp0 EXCEPT ![a] = stack_start]
  /\ UNCHANGED <<bsp, smp_lock, preempt, global_i, stack_start, rsp, tr, runqueue>>

Busy(t) == t = 0 \/ \E b \in APs : tr[b] = t     \* ltr has marked its descriptor

BugLoadTR(a) ==   \* one more off: load_TR(10 + (global_i - 2) * 2)
  LET t == IF global_i = 1 THEN N ELSE global_i - 2
  IN  /\ IF Busy(t) THEN ApGoto(a, "tr", "fault") /\ UNCHANGED tr
         ELSE ApGoto(a, "tr", "unlock") /\ tr' = [tr EXCEPT ![a] = t]
      /\ UNCHANGED <<bsp, smp_lock, preempt, global_i, stack_start, rsp, rsp0, runqueue>>

(* load_TR(10 + (global_i - 1) * 2): the TSS of CPU i is descriptor        *)
(* 10 + 2 i.  ltr refuses a descriptor that a CPU has loaded; the CPU has  *)
(* no TSS yet to take this trap's stack from, and goes no further.         *)
LoadTR(a) ==
  /\ IF Busy(global_i - 1) THEN ApGoto(a, "tr", "fault") /\ UNCHANGED tr
     ELSE ApGoto(a, "tr", "unlock") /\ tr' = [tr EXCEPT ![a] = global_i - 1]
  /\ UNCHANGED <<bsp, smp_lock, preempt, global_i, stack_start, rsp, rsp0, runqueue>>

BugUnlock(a) ==   \* SMP_lock is not given back
  /\ ApGoto(a, "unlock", IF a = Forker THEN "fork" ELSE "hlt")
  /\ UNCHANGED <<bsp, smp_lock, preempt, global_i, stack_start, rsp, rsp0, tr, runqueue>>

(* spin_unlock: the lock is free, but the preempt_count it lowers is the   *)
(* unlocking CPU's, which is then set to 0.                                *)
Unlock(a) ==
  /\ ApGoto(a, "unlock", IF a = Forker THEN "fork" ELSE "hlt")
  /\ smp_lock' = TRUE
  /\ UNCHANGED <<bsp, preempt, global_i, stack_start, rsp, rsp0, tr, runqueue>>

(* task_init on the last CPU: do_fork inserts the task in this CPU's       *)
(* queue; on a queue that is still zeroed insert_task_queue follows null   *)
(* pointers, and links the task nowhere.                                   *)
Fork(a) ==
  /\ ApGoto(a, "fork", "hlt")
  /\ runqueue' = IF runqueue = "empty" THEN "queued" ELSE runqueue
  /\ UNCHANGED <<bsp, smp_lock, preempt, global_i, stack_start, rsp, rsp0, tr>>

BspStep ==
  \/ BspPreemptDisable \/ BspLock \/ MakeStack \/ StartupIPI \/ NextCPU
  \/ ScheduleInit \/ TaskInit

ApStep(a) == LoadStack(a) \/ InitPcb(a) \/ LoadTR(a) \/ Unlock(a) \/ Fork(a)
-----------------------------------------------------------------------------
(* The boot CPU's interrupts: registered device by device, then turned on. *)
Register(i, following) ==
  /\ bsp = i
  /\ \/ (SetDesc(i) \/ IOAPIC_install(i)) /\ UNCHANGED bsp
     \/ IOAPIC_enable(i) /\ bsp' = following

keyboard_init == Register("keyboard", "mouse")
mouse_init == Register("mouse", "disk")
disk_init == Register("disk", "loop")
HPET_init == Register("hpet", "sti")

BugSetUp ==   \* interrupts are turned on at the end of APIC_IOAPIC_init
  \/ BspGoto("apic", "keyboard") /\ unmasked' = {"keyboard"} /\ iflag' = TRUE
     /\ UNCHANGED <<interrupt_desc, registering, irr, isr, at, ipi>>
  \/ keyboard_init \/ mouse_init \/ disk_init \/ HPET_init
  \/ BspGoto("sti", "task") /\ UNCHANGED irqVars

SetUp ==
  \/ BspGoto("apic", "keyboard") /\ ApicInit
  \/ keyboard_init \/ mouse_init \/ disk_init \/ HPET_init
  \/ BspGoto("sti", "task") /\ Sti

(* A CPU's local APIC is on from the beginning of Start_SMP; interrupts    *)
(* are on at its end.                                                      *)
Accepting == {a \in APs : ap[a] \notin {"off", "reset", "entry64", "pcb"}}
DoIrq == (\E i \in Irqs : Dispatch(i)) \/ Handle(Accepting) \/ Ack \/ Iret
TickIPI(a) == ap[a] \in {"fork", "hlt"} /\ TakeIPI(a)

BootCode ==
  /\ at = "code"
  /\ \/ BspStep /\ UNCHANGED irqVars
     \/ SetUp /\ UNCHANGED <<apVars, smp_lock, preempt, global_i, stack_start, runqueue>>

Booted == bsp = "idle" /\ \A a \in APs : ap[a] = "hlt"

(* Then the kernel runs, interrupts included: Scheduler.                   *)
Next ==
  \/ BootCode
  \/ \E a \in APs : ApStep(a) /\ UNCHANGED irqVars
  \/ /\ \/ \E i \in Irqs : Raise(i)
        \/ DoIrq
        \/ \E a \in APs : TickIPI(a)
     /\ UNCHANGED bootVars

Spec == Init /\ [][Next]_vars

(* Every CPU executes its boot code, the boot CPU also between interrupts  *)
(* (its handlers take far less time than passes between two of them).      *)
FairSpec ==
  /\ Spec
  /\ SF_vars(BootCode)
  /\ WF_vars(DoIrq /\ UNCHANGED bootVars)
  /\ \A a \in APs : WF_vars(ApStep(a) /\ UNCHANGED irqVars)
-----------------------------------------------------------------------------
(* A started CPU owns the lock the boot CPU took for it, so that they are  *)
(* started one at a time, and each runs on the stack made for it, with the *)
(* task_struct there, and takes interrupts on the same stack: SMP_lock     *)
(* keeps _stack_start still from the IPI until its last reader is done.    *)
Starting == {a \in APs : ap[a] \notin {"off", "fork", "hlt"}}
OwnStack ==
  /\ TypeOK
  /\ \A a, b \in Starting : a = b
  /\ Starting # {} => ~smp_lock
  /\ \A a \in APs : rsp[a] \in {NoStack, a} /\ rsp0[a] \in {NoStack, a}

(* global_i may not have been counted up yet when a started CPU loads its  *)
(* TSS: main.c takes SMP_lock for it, but the started CPU holds the lock   *)
(* then.  Such a CPU asks for its predecessor's TSS, which is busy, and    *)
(* stops with the lock taken, so that no further CPU is started; no CPU    *)
(* ever shares a TSS, and with it the stacks of its interrupts.            *)
OwnTss ==
  \A a \in APs :
    /\ tr[a] \in {NoStack, a}
    /\ ap[a] = "fault" => ~smp_lock /\ \A b \in APs : b > a => ap[b] = "off"

(* The boot ends with each CPU started, one after another, unless one has  *)
(* asked for its TSS too early.                                            *)
AllBooted == <>(Booted \/ \E a \in APs : ap[a] = "fault")

(* SMP_lock is taken by one CPU and given back by others, so the boot CPU  *)
(* keeps a lock count for every CPU it started: after the boot its task    *)
(* holds no lock, and its count never gets back to 0.                      *)
CountLeftBehind == Booted => preempt = N

(* With interrupts on, none is pending for ever behind one that nobody     *)
(* acknowledges: what the CPU takes has a handler and a controller by      *)
(* then, although the keyboard's entry is opened before they are set       *)
(* (APIC.c:299), because interrupts are off until all are registered.      *)
InterruptsServed == \A i \in Irqs : (iflag /\ Front(i)) ~> ~Front(i)

(* A CPU that takes the tick's IPI counts it on a run queue that exists,   *)
(* and on its own task, whenever it was started and the ticks began.       *)
TickFindsQueue ==
  \A a \in ipi : ap[a] \in {"fork", "hlt"} => runqueue # "zeroed" /\ rsp0[a] = a
=============================================================================
