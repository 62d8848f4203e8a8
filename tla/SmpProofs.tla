------------------------------ MODULE SmpProofs ------------------------------
(***************************************************************************)
(* Proofs about several CPUs: Spinlock.tla, for any set of contexts, and   *)
(* SmpBoot.tla, for any number of started CPUs.                            *)
(***************************************************************************)
EXTENDS Spinlock, SmpBoot, TLAPS

(* Every behaviour of the kernel's lock keeps LockInv: types, mutual       *)
(* exclusion, and what the value of the lock word says about the owner.    *)
THEOREM LockInvariant == LockSpec => []LockInv
<1>1. LockInit => LockInv
  BY DEF LockInit, LockInv, LockTypeOK, Positions, Mutex, Held, PreemptBalanced
<1>2. LockInv /\ [LockNext]_lockVars => LockInv'
  <2> SUFFICES ASSUME LockInv, [LockNext]_lockVars
               PROVE  LockInv'
    OBVIOUS
  <2> USE DEF LockInv, LockTypeOK, Positions, Mutex, Held, PreemptBalanced, Goto
  <2>1. ASSUME NEW c \in Contexts, SpinLock(c)
        PROVE  LockInv'
    BY <2>1 DEF SpinLock, preempt_disable
  <2>2. ASSUME NEW c \in Contexts, Dec(c)
        PROVE  LockInv'
    <3>1. CASE lock = 1
      <4>1. lock' = 0 /\ pc' = [pc EXCEPT ![c] = "held"]
        BY <2>2, <3>1 DEF Dec
      <4>2. Held' = {c}
        BY <3>1, <4>1
      <4>3. QED
        BY <2>2, <4>1, <4>2 DEF Dec
    <3>2. CASE lock # 1
      <4>0. lock <= 0 /\ lock - 1 < 0 /\ ~(lock - 1 >= 0)
        BY <3>2
      <4>1. lock' = lock - 1 /\ pc' = [pc EXCEPT ![c] = "spin"]
        BY <2>2, <4>0, Zenon DEF Dec
      <4>2. Held' = Held
        BY <2>2, <4>1 DEF Dec
      <4>3. QED
        BY <2>2, <3>2, <4>0, <4>1, <4>2 DEF Dec
    <3>3. QED
      BY <3>1, <3>2
  <2>3. ASSUME NEW c \in Contexts, Spin(c)
        PROVE  LockInv'
    BY <2>3 DEF Spin
  <2>4. ASSUME NEW c \in Contexts, SpinUnlock(c)
        PROVE  LockInv'
    BY <2>4 DEF SpinUnlock
  <2>5. ASSUME NEW c \in Contexts, UnlockEnable(c)
        PROVE  LockInv'
    BY <2>5 DEF UnlockEnable, preempt_enable
  <2>6. CASE UNCHANGED lockVars
    BY <2>6 DEF lockVars
  <2>7. QED
    BY <2>1, <2>2, <2>3, <2>4, <2>5, <2>6 DEF LockNext, LockSteps
<1>3. QED
  BY <1>1, <1>2, PTL DEF LockSpec

(* Mutual exclusion: two contexts are never past spin_lock together.       *)
THEOREM MutualExclusion == LockSpec => []Mutex
<1>1. LockInv => Mutex
  BY DEF LockInv
<1>2. QED
  BY <1>1, LockInvariant, PTL

(* A positive lock word always means that nobody owns the lock.            *)
THEOREM WordTellsTruth == LockSpec => []WordMeansFree
<1>1. LockInv => WordMeansFree
  BY DEF LockInv, LockTypeOK, WordMeansFree
<1>2. QED
  BY <1>1, LockInvariant, PTL

(* Each context's preempt_count is 1 from the entry of spin_lock to the    *)
(* end of spin_unlock and 0 outside.                                       *)
THEOREM PreemptCounts == LockSpec => []PreemptBalanced
<1>1. LockInv => PreemptBalanced
  BY DEF LockInv
<1>2. QED
  BY <1>1, LockInvariant, PTL

(* With mutual exclusion, the owner is the context past spin_lock.         *)
LEMMA OwnerIsHolder ==
  ASSUME Mutex, NEW c \in Contexts, pc[c] = "held"
  PROVE  Owner = c
  BY NoneAssumption DEF Owner, Mutex, Held

(* The spin lock implements the abstract lock: the decrement that ends at  *)
(* 0 is its Acquire, the store of 1 its Release, every other step stutters.*)
THEOREM ImplementsAbstractLock == LockSpec => AbstractSpec
<1>1. LockInit => Abstract!Init
  BY DEF LockInit, Abstract!Init, Owner, Held
<1>2. LockInv /\ LockInv' /\ [LockNext]_lockVars => [Abstract!Next]_Owner
  <2> SUFFICES ASSUME LockInv, LockInv', [LockNext]_lockVars
               PROVE  Abstract!Next \/ Owner' = Owner
    BY DEF Abstract!Next
  <2> USE DEF LockInv, LockTypeOK, Positions, Goto
  <2>1. ASSUME NEW c \in Contexts, Dec(c), lock = 1
        PROVE  Abstract!Acquire(c)
    <3>1. pc'[c] = "held"
      BY <2>1 DEF Dec
    <3>2. Owner' = c
      BY <3>1, NoneAssumption DEF Owner, Mutex, Held
    <3>3. Owner = None
      BY <2>1 DEF Owner
    <3>4. QED
      BY <3>2, <3>3 DEF Abstract!Acquire
  <2>2. ASSUME NEW c \in Contexts, SpinUnlock(c)
        PROVE  Abstract!Release(c)
    <3>1. Owner = c
      BY <2>2, OwnerIsHolder DEF SpinUnlock
    <3>2. Held' = {}
      BY <2>2 DEF SpinUnlock
    <3>3. Owner' = None
      BY <3>2 DEF Owner
    <3>4. QED
      BY <3>1, <3>3 DEF Abstract!Release
  <2>3. ASSUME NEW c \in Contexts,
               SpinLock(c) \/ (Dec(c) /\ lock # 1) \/ Spin(c) \/ UnlockEnable(c)
        PROVE  Owner' = Owner
    <3>1. \A d \in Contexts : pc'[d] = "held" <=> pc[d] = "held"
      BY <2>3 DEF SpinLock, Dec, Spin, UnlockEnable
    <3>2. Held' = Held
      BY <3>1 DEF Held
    <3>3. QED
      BY <3>2 DEF Owner
  <2>4. CASE UNCHANGED lockVars
    BY <2>4 DEF lockVars, Owner, Held
  <2>5. QED
    BY <2>1, <2>2, <2>3, <2>4 DEF LockNext, LockSteps, Abstract!Next
<1>3. QED
  BY <1>1, <1>2, LockInvariant, PTL DEF LockSpec, AbstractSpec, Abstract!Spec
-----------------------------------------------------------------------------
(* SmpBoot.                                                                *)
Before == {"apic", "keyboard", "mouse", "disk"}     \* the loop over the CPUs
Inside == {"lock", "stack", "startup"}
After == {"hpet", "sti", "task", "idle"}
HasPcb == {"tr", "fault", "unlock", "fork", "hlt"}  \* its task_struct is filled

(* The loop variable, and the lock count that follows it.                  *)
Counts ==
  /\ bsp \in Before => global_i = 1
  /\ bsp \in Inside => global_i <= N
  /\ bsp \in After => global_i = N + 1
  /\ preempt = IF bsp \in Inside THEN global_i ELSE global_i - 1

(* The CPUs are started in the order of the loop.                          *)
StartedInOrder ==
  \A a \in APs :
    /\ a < global_i => ap[a] # "off"
    /\ ap[a] # "off" => a < global_i \/ (a = global_i /\ bsp = "startup")

(* SMP_lock goes from the boot CPU to the CPU it starts: one of them has   *)
(* it as long as _stack_start is written or read.                          *)
LockHandedOn ==
  /\ bsp = "stack" => ~smp_lock
  /\ bsp = "startup" => stack_start = global_i /\ (ap[global_i] = "off" => ~smp_lock)
  /\ \A a \in Starting :
       /\ ~smp_lock /\ stack_start = a
       /\ \/ a = global_i /\ bsp = "startup"
          \/ a = global_i - 1 /\ bsp \notin {"stack", "startup"}

(* What each CPU has got so far is its own.                                *)
OwnPlaces ==
  \A a \in APs :
    /\ {rsp[a], rsp0[a], tr[a]} \subseteq {NoStack, a}
    /\ ap[a] \in HasPcb => rsp0[a] = a
    /\ ap[a] \in {"unlock", "fork", "hlt"} => tr[a] = a

(* There are no ticks before the queues are made.                          *)
TicksAfterQueues ==
  /\ "hpet" \in interrupt_desc \/ ipi # {} => bsp \in After
  /\ bsp \in After => runqueue # "zeroed"
  /\ \A a \in ipi : ap[a] \in HasPcb

BootInv ==
  TypeOK /\ Counts /\ StartedInOrder /\ LockHandedOn /\ OwnPlaces /\ TicksAfterQueues
-----------------------------------------------------------------------------
LEMMA IrqNames == Irqs = {"keyboard", "hpet", "mouse", "disk"}
  BY DEF Irqs, Vector

LEMMA BootInit == Init => BootInv
<1> SUFFICES ASSUME Init
             PROVE  BootInv
  OBVIOUS
<1>0. N \in Nat \ {0}
  BY InterruptsAssumption
<1> USE DEF Init, InitIrq
<1>1. TypeOK
  <2>1. IrqTypeOK
    BY DEF IrqTypeOK
  <2>2. /\ bsp \in BspSteps /\ ap \in [APs -> ApSteps] /\ smp_lock \in BOOLEAN
        /\ runqueue \in {"zeroed", "empty", "queued"}
    BY DEF BspSteps, ApSteps
  <2>3. /\ preempt \in 0..N /\ global_i \in 1..(N + 1) /\ stack_start \in 0..N
        /\ NoStack \in 0..NoStack
    BY <1>0 DEF NoStack
  <2>4. QED
    BY <2>1, <2>2, <2>3 DEF TypeOK
<1>2. Counts /\ StartedInOrder /\ LockHandedOn
  BY <1>0 DEF Counts, Before, Inside, After, StartedInOrder, LockHandedOn, Starting, APs
<1>3. OwnPlaces /\ TicksAfterQueues
  BY <1>0 DEF OwnPlaces, TicksAfterQueues, HasPcb, After
<1>4. QED
  BY <1>1, <1>2, <1>3 DEF BootInv

(* A step of the boot CPU's loop.                                          *)
LEMMA BspStepKeeps ==
  ASSUME BootInv, BspStep, UNCHANGED irqVars
  PROVE  BootInv'
<1>0. /\ N \in Nat \ {0} /\ APs = 1..N /\ global_i \in 1..(N + 1) /\ preempt \in 0..N
      /\ ap \in [APs -> ApSteps] /\ smp_lock \in BOOLEAN /\ stack_start \in 0..N
  BY InterruptsAssumption DEF BootInv, TypeOK, APs
<1> USE DEF BspGoto, apVars, irqVars
<1>i. IrqTypeOK'
  BY DEF BootInv, TypeOK, IrqTypeOK
<1>p. ASSUME UNCHANGED apVars
      PROVE  OwnPlaces' /\ Starting' = Starting
  BY <1>p DEF BootInv, OwnPlaces, NoStack, Starting
<1>1. CASE BspPreemptDisable
  <2> USE <1>1 DEF BspPreemptDisable
  <2>1. TypeOK' /\ Counts'
    BY <1>0, <1>i DEF BootInv, TypeOK, Counts, Before, Inside, After, BspSteps, NoStack
  <2>2. StartedInOrder' /\ LockHandedOn' /\ TicksAfterQueues'
    BY <1>p DEF BootInv, StartedInOrder, LockHandedOn, TicksAfterQueues, After
  <2>3. QED
    BY <1>p, <2>1, <2>2 DEF BootInv
<1>2. CASE BspLock
  <2> USE <1>2 DEF BspLock
  <2>1. TypeOK' /\ Counts'
    BY <1>0, <1>i DEF BootInv, TypeOK, Counts, Before, Inside, After, BspSteps, NoStack
  <2>2. StartedInOrder' /\ LockHandedOn' /\ TicksAfterQueues'
    BY <1>p DEF BootInv, StartedInOrder, LockHandedOn, TicksAfterQueues, After
  <2>3. QED
    BY <1>p, <2>1, <2>2 DEF BootInv
<1>3. CASE MakeStack
  <2> USE <1>3 DEF MakeStack
  <2>1. TypeOK' /\ Counts'
    BY <1>0, <1>i DEF BootInv, TypeOK, Counts, Before, Inside, After, BspSteps, NoStack
  <2>2. Starting = {}
    BY <1>0 DEF BootInv, LockHandedOn
  <2>3. StartedInOrder' /\ LockHandedOn' /\ TicksAfterQueues'
    BY <1>0, <1>p, <2>2 DEF BootInv, StartedInOrder, LockHandedOn, TicksAfterQueues, After
  <2>4. QED
    BY <1>p, <2>1, <2>3 DEF BootInv
<1>4. CASE StartupIPI
  <2> USE <1>4 DEF StartupIPI
  <2>0. global_i \in APs /\ ~smp_lock /\ stack_start = global_i
    BY <1>0 DEF BootInv, Counts, Inside, LockHandedOn
  <2>1. TypeOK' /\ Counts'
    BY <1>0, <1>i, <2>0 DEF BootInv, TypeOK, Counts, Before, Inside, After, BspSteps, ApSteps, NoStack
  <2>2. StartedInOrder'
    BY <1>0, <2>0 DEF BootInv, StartedInOrder
  <2>3. Starting' \subseteq Starting \cup {global_i}
    BY <1>0, <2>0 DEF Starting
  <2>4. LockHandedOn'
    BY <1>0, <2>0, <2>3 DEF BootInv, LockHandedOn
  <2>5. OwnPlaces' /\ TicksAfterQueues'
    BY <1>0, <2>0 DEF BootInv, OwnPlaces, NoStack, TicksAfterQueues, HasPcb, After
  <2>6. QED
    BY <2>1, <2>2, <2>4, <2>5 DEF BootInv
<1>5. CASE NextCPU
  <2> USE <1>5 DEF NextCPU
  <2>0. global_i \in APs /\ global_i + 1 \in 1..(N + 1)
    BY <1>0 DEF BootInv, Counts, Inside
  <2>1. TypeOK' /\ Counts'
    BY <1>0, <1>i, <2>0 DEF BootInv, TypeOK, Counts, Before, Inside, After, BspSteps, NoStack
  <2>2. StartedInOrder'
    BY <1>0, <2>0 DEF BootInv, StartedInOrder
  <2>3. LockHandedOn'
    BY <1>0, <1>p, <2>0 DEF BootInv, LockHandedOn
  <2>4. TicksAfterQueues'
    BY DEF BootInv, TicksAfterQueues, After
  <2>5. QED
    BY <1>p, <2>1, <2>2, <2>3, <2>4 DEF BootInv
<1>6. CASE ScheduleInit
  <2> USE <1>6 DEF ScheduleInit
  <2>1. TypeOK' /\ Counts'
    BY <1>0, <1>i DEF BootInv, TypeOK, Counts, Before, Inside, After, BspSteps, NoStack
  <2>2. StartedInOrder' /\ LockHandedOn' /\ TicksAfterQueues'
    BY <1>p DEF BootInv, StartedInOrder, LockHandedOn, TicksAfterQueues, After
  <2>3. QED
    BY <1>p, <2>1, <2>2 DEF BootInv
<1>7. CASE TaskInit
  <2> USE <1>7 DEF TaskInit
  <2>1. TypeOK' /\ Counts'
    BY <1>0, <1>i DEF BootInv, TypeOK, Counts, Before, Inside, After, BspSteps, NoStack
  <2>2. StartedInOrder' /\ LockHandedOn' /\ TicksAfterQueues'
    BY <1>p DEF BootInv, StartedInOrder, LockHandedOn, TicksAfterQueues, After
  <2>3. QED
    BY <1>p, <2>1, <2>2 DEF BootInv
<1>8. QED
  BY <1>1, <1>2, <1>3, <1>4, <1>5, <1>6, <1>7 DEF BspStep

(* A step of a started CPU.                                                *)
LEMMA ApStepKeeps ==
  ASSUME BootInv, NEW a \in APs, ApStep(a), UNCHANGED irqVars
  PROVE  BootInv'
<1>0. /\ N \in Nat \ {0} /\ APs = 1..N /\ global_i \in 1..(N + 1) /\ stack_start \in 0..N
      /\ ap \in [APs -> ApSteps] /\ rsp \in [APs -> 0..NoStack] /\ rsp0 \in [APs -> 0..NoStack]
      /\ tr \in [APs -> 0..NoStack] /\ NoStack = N + 1
  BY InterruptsAssumption DEF BootInv, TypeOK, APs, NoStack
<1> USE DEF ApGoto, irqVars
<1>i. IrqTypeOK'
  BY DEF BootInv, TypeOK, IrqTypeOK
<1>1. CASE LoadStack(a)
  <2>1. /\ ap[a] \in {"reset", "entry64"} /\ ap' = [ap EXCEPT ![a] = ap'[a]] /\ ap'[a] \in {"entry64", "pcb"}
        /\ UNCHANGED <<bsp, smp_lock, preempt, global_i, stack_start, rsp0, tr, runqueue>>
    BY <1>0, <1>1 DEF LoadStack
  <2>2. a \in Starting /\ stack_start = a /\ rsp' = [rsp EXCEPT ![a] = a]
    BY <1>1, <2>1 DEF BootInv, LockHandedOn, Starting, LoadStack
  <2>3. TypeOK'
    <3>1. ap' \in [APs -> ApSteps] /\ rsp' \in [APs -> 0..NoStack]
      <4>1. a \in 0..NoStack /\ ap'[a] \in ApSteps
        BY <1>0, <2>1 DEF ApSteps
      <4>2. QED
        BY <1>0, <2>1, <2>2, <4>1
    <3>2. QED
      BY <1>i, <2>1, <3>1 DEF BootInv, TypeOK
  <2>4. Counts' /\ StartedInOrder'
    BY <1>0, <2>1 DEF BootInv, Counts, StartedInOrder
  <2>5. Starting' = Starting
    BY <1>0, <2>1 DEF Starting
  <2>6. LockHandedOn'
    BY <1>0, <2>1, <2>5 DEF BootInv, LockHandedOn
  <2>7. OwnPlaces' /\ TicksAfterQueues'
    <3>1. \A b \in APs : rsp'[b] \in {NoStack, b} /\ (ap'[b] \in HasPcb => ap[b] \in HasPcb)
                          /\ (ap'[b] \in {"unlock", "fork", "hlt"} => ap[b] \in {"unlock", "fork", "hlt"})
      BY <1>0, <2>1, <2>2 DEF BootInv, OwnPlaces, HasPcb
    <3>2. \A b \in APs : ap[b] \in HasPcb => ap'[b] \in HasPcb
      BY <1>0, <2>1 DEF HasPcb
    <3>3. OwnPlaces'
      BY <2>1, <3>1 DEF BootInv, OwnPlaces, NoStack
    <3>4. QED
      BY <2>1, <3>2, <3>3 DEF BootInv, TypeOK, IrqTypeOK, TicksAfterQueues
  <2>8. QED
    BY <2>3, <2>4, <2>6, <2>7 DEF BootInv
<1>2. CASE InitPcb(a)
  <2> USE <1>2 DEF InitPcb
  <2>2. a \in Starting /\ stack_start = a
    BY DEF BootInv, LockHandedOn, Starting
  <2>3. TypeOK'
    BY <1>0, <1>i, <2>2 DEF BootInv, TypeOK, ApSteps
  <2>4. Counts' /\ StartedInOrder'
    BY <1>0 DEF BootInv, Counts, StartedInOrder
  <2>5. Starting' = Starting
    BY <1>0 DEF Starting
  <2>6. LockHandedOn'
    BY <1>0, <2>5 DEF BootInv, LockHandedOn
  <2>7. OwnPlaces' /\ TicksAfterQueues'
    BY <1>0, <2>2 DEF BootInv, OwnPlaces, TicksAfterQueues, HasPcb
  <2>8. QED
    BY <2>3, <2>4, <2>6, <2>7 DEF BootInv
<1>3. CASE LoadTR(a)
  <2>1. /\ ap[a] = "tr" /\ ap' = [ap EXCEPT ![a] = ap'[a]]
        /\ UNCHANGED <<bsp, smp_lock, preempt, global_i, stack_start, rsp, rsp0, runqueue>>
        /\ \/ ap'[a] = "fault" /\ tr' = tr
           \/ ap'[a] = "unlock" /\ tr' = [tr EXCEPT ![a] = global_i - 1] /\ ~Busy(global_i - 1)
    BY <1>0, <1>3 DEF LoadTR
  <2>2. a \in Starting /\ ~smp_lock /\ (a = global_i \/ a = global_i - 1)
    BY <2>1 DEF BootInv, LockHandedOn, Starting
  (* The TSS of a CPU that came before is busy, so what is loaded is its own. *)
  <2>3. a = global_i => Busy(global_i - 1)
    <3>1. SUFFICES ASSUME a = global_i, global_i - 1 # 0
                   PROVE  Busy(global_i - 1)
      BY DEF Busy
    <3>2. global_i - 1 \in APs /\ global_i - 1 < global_i
      BY <1>0, <3>1
    <3>3. ap[global_i - 1] # "off" /\ global_i - 1 \notin Starting
      BY <1>0, <2>2, <3>1, <3>2 DEF BootInv, StartedInOrder, LockHandedOn
    <3>4. ap[global_i - 1] \in {"fork", "hlt"}
      BY <3>2, <3>3 DEF Starting
    <3>5. QED
      BY <3>2, <3>4 DEF BootInv, OwnPlaces, Busy
  <2>4. tr'[a] \in {NoStack, a} /\ (ap'[a] = "unlock" => tr'[a] = a)
    BY <1>0, <2>1, <2>2, <2>3 DEF BootInv, OwnPlaces
  <2>5. TypeOK'
    <3>1. ap' \in [APs -> ApSteps]
      BY <1>0, <2>1 DEF ApSteps
    <3>2. tr' \in [APs -> 0..NoStack]
      <4>1. global_i - 1 \in 0..NoStack
        BY <1>0
      <4>2. QED
        BY <1>0, <2>1, <4>1
    <3>3. QED
      BY <1>i, <2>1, <3>1, <3>2 DEF BootInv, TypeOK
  <2>6. Counts' /\ StartedInOrder'
    BY <1>0, <2>1 DEF BootInv, Counts, StartedInOrder
  <2>7. Starting' = Starting
    BY <1>0, <2>1 DEF Starting
  <2>8. LockHandedOn'
    BY <1>0, <2>1, <2>7 DEF BootInv, LockHandedOn
  <2>9. OwnPlaces' /\ TicksAfterQueues'
    <3>1. \A b \in APs : b # a => ap'[b] = ap[b] /\ tr'[b] = tr[b]
      BY <1>0, <2>1
    <3>2. ap[a] \in HasPcb /\ ap'[a] \in HasPcb
          /\ (ap'[a] \in {"unlock", "fork", "hlt"} => tr'[a] = a)
      BY <2>1, <2>4 DEF HasPcb
    <3>3. OwnPlaces'
      BY <2>1, <2>4, <3>1, <3>2 DEF BootInv, OwnPlaces, NoStack
    <3>4. QED
      BY <2>1, <3>1, <3>2, <3>3 DEF BootInv, TypeOK, IrqTypeOK, TicksAfterQueues
  <2>10. QED
    BY <2>5, <2>6, <2>8, <2>9 DEF BootInv
<1>4. CASE Unlock(a)
  <2> USE <1>4 DEF Unlock
  <2>1. ap[a] = "unlock" /\ ap'[a] \in {"fork", "hlt"} /\ ap' = [ap EXCEPT ![a] = ap'[a]] /\ smp_lock' = TRUE
    BY <1>0
  <2>2. Starting = {a} /\ (bsp = "startup" => a = global_i) /\ bsp # "stack"
    BY <2>1 DEF BootInv, LockHandedOn, Starting
  <2>3. TypeOK'
    BY <1>0, <1>i, <2>1 DEF BootInv, TypeOK, ApSteps
  <2>4. Counts' /\ StartedInOrder'
    BY <1>0, <2>1 DEF BootInv, Counts, StartedInOrder
  <2>5. Starting' = {}
    BY <1>0, <2>1, <2>2 DEF Starting
  <2>6. LockHandedOn'
    BY <1>0, <2>1, <2>2, <2>5 DEF BootInv, LockHandedOn
  <2>7. OwnPlaces' /\ TicksAfterQueues'
    BY <1>0, <2>1 DEF BootInv, OwnPlaces, TicksAfterQueues, HasPcb
  <2>8. QED
    BY <2>3, <2>4, <2>6, <2>7 DEF BootInv
<1>5. CASE Fork(a)
  <2> USE <1>5 DEF Fork
  <2>1. TypeOK'
    BY <1>0, <1>i DEF BootInv, TypeOK, ApSteps
  <2>2. Counts' /\ StartedInOrder'
    BY <1>0 DEF BootInv, Counts, StartedInOrder
  <2>3. Starting' = Starting
    BY <1>0 DEF Starting
  <2>4. LockHandedOn'
    BY <1>0, <2>3 DEF BootInv, LockHandedOn
  <2>5. OwnPlaces' /\ TicksAfterQueues'
    BY <1>0 DEF BootInv, OwnPlaces, TicksAfterQueues, HasPcb
  <2>6. QED
    BY <2>1, <2>2, <2>4, <2>5 DEF BootInv
<1>6. QED
  BY <1>1, <1>2, <1>3, <1>4, <1>5 DEF ApStep

(* What keeps BootInv when neither the loop nor a started CPU moves.       *)
LEMMA RestKeeps ==
  ASSUME BootInv, UNCHANGED <<apVars, smp_lock, preempt, global_i, stack_start, runqueue>>,
         bsp' \in BspSteps, IrqTypeOK',
         bsp' = bsp \/ (bsp \in Before /\ bsp' \in Before \cup {"loop"})
                    \/ (bsp \in After /\ bsp' \in After),
         TicksAfterQueues'
  PROVE  BootInv'
<1>0. N \in Nat \ {0} /\ global_i \in 1..(N + 1)
  BY InterruptsAssumption DEF BootInv, TypeOK
<1> USE DEF apVars
<1>1. TypeOK'
  BY DEF BootInv, TypeOK, NoStack
<1>2. Counts' /\ StartedInOrder'
  BY <1>0 DEF BootInv, Counts, StartedInOrder, Before, Inside, After
<1>3. Starting' = Starting /\ OwnPlaces'
  BY DEF Starting, BootInv, OwnPlaces, NoStack
<1>4. LockHandedOn'
  BY <1>3 DEF BootInv, LockHandedOn, Before, After
<1>5. QED
  BY <1>1, <1>2, <1>3, <1>4 DEF BootInv

(* The registration of the devices' interrupts.                            *)
LEMMA SetUpKeeps ==
  ASSUME BootInv, SetUp, UNCHANGED <<apVars, smp_lock, preempt, global_i, stack_start, runqueue>>
  PROVE  BootInv'
<1>1. CASE (BspGoto("apic", "keyboard") /\ ApicInit) \/ (BspGoto("sti", "task") /\ Sti)
  <2>1. /\ bsp' \in BspSteps /\ IrqTypeOK' /\ ipi' = ipi
        /\ interrupt_desc' \subseteq interrupt_desc
        /\ \/ bsp \in Before /\ bsp' \in Before
           \/ bsp \in After /\ bsp' \in After
    BY <1>1, IrqNames DEF BspGoto, ApicInit, Sti, BootInv, TypeOK, IrqTypeOK, BspSteps, Before, After
  <2>2. TicksAfterQueues'
    BY <2>1 DEF BootInv, TicksAfterQueues, Before, After, apVars
  <2>3. QED
    BY <2>1, <2>2, RestKeeps
<1>2. ASSUME NEW i \in Irqs, NEW following \in BspSteps, Register(i, following),
             \/ i \in Before /\ following \in Before \cup {"loop"} /\ i # "hpet"
             \/ i \in After /\ following \in After
      PROVE  BootInv'
  <2>1. /\ bsp' \in BspSteps /\ IrqTypeOK' /\ ipi' = ipi /\ bsp = i /\ bsp' \in {i, following}
        /\ interrupt_desc' \subseteq interrupt_desc \cup {i}
    BY <1>2 DEF Register, SetDesc, IOAPIC_install, IOAPIC_enable, BootInv, TypeOK, IrqTypeOK
  <2>2. TicksAfterQueues'
    BY <1>2, <2>1 DEF BootInv, TicksAfterQueues, Before, After, apVars
  <2>3. QED
    BY <1>2, <2>1, <2>2, RestKeeps
<1>3. CASE keyboard_init \/ mouse_init \/ disk_init \/ HPET_init
  BY <1>2, <1>3, IrqNames DEF keyboard_init, mouse_init, disk_init, HPET_init, BspSteps, Before, After
<1>4. QED
  BY <1>1, <1>3 DEF SetUp

(* Interrupts, on the boot CPU and as IPIs: a tick is passed on only by    *)
(* the handler that HPET_init registers, and only to CPUs in Start_SMP.    *)
LEMMA InterruptKeeps ==
  ASSUME BootInv, (\E i \in Irqs : Raise(i)) \/ DoIrq \/ (\E a \in APs : TickIPI(a)),
         UNCHANGED bootVars
  PROVE  BootInv'
<1> USE DEF bootVars, apVars
<1>1. CASE Handle(Accepting)
  <2>1. /\ interrupt_desc' = interrupt_desc /\ ipi' \subseteq ipi \cup Accepting
        /\ ipi' # ipi => "hpet" \in interrupt_desc
    BY <1>1 DEF Handle
  <2>2. \A a \in Accepting : ap[a] \in HasPcb
    BY DEF Accepting, BootInv, TypeOK, ApSteps, HasPcb
  <2>3. TicksAfterQueues'
    BY <2>1, <2>2 DEF BootInv, TicksAfterQueues
  <2>4. IrqTypeOK'
    BY <1>1, <2>1 DEF Handle, BootInv, TypeOK, IrqTypeOK, Accepting
  <2>5. QED
    BY <2>3, <2>4, RestKeeps DEF BootInv, TypeOK
<1>2. CASE (\E i \in Irqs : Raise(i) \/ Dispatch(i)) \/ Ack \/ Iret \/ (\E a \in APs : TickIPI(a))
  <2>1. interrupt_desc' = interrupt_desc /\ ipi' \subseteq ipi
    BY <1>2 DEF Raise, Dispatch, Ack, Iret, TickIPI, TakeIPI
  <2>2. TicksAfterQueues'
    BY <2>1 DEF BootInv, TicksAfterQueues
  <2>3. IrqTypeOK'
    BY <1>2 DEF Raise, Dispatch, Ack, Iret, TickIPI, TakeIPI, BootInv, TypeOK, IrqTypeOK
  <2>4. QED
    BY <2>2, <2>3, RestKeeps DEF BootInv, TypeOK
<1>3. QED
  BY <1>1, <1>2 DEF DoIrq

(* Every behaviour of the boot keeps the inductive invariant.              *)
THEOREM BootInvariant == Spec => []BootInv
<1>1. BootInv /\ [Next]_vars => BootInv'
  <2> SUFFICES ASSUME BootInv, [Next]_vars
               PROVE  BootInv'
    OBVIOUS
  <2>1. CASE BootCode
    BY <2>1, BspStepKeeps, SetUpKeeps DEF BootCode
  <2>2. CASE \E a \in APs : ApStep(a) /\ UNCHANGED irqVars
    BY <2>2, ApStepKeeps
  <2>3. CASE /\ (\E i \in Irqs : Raise(i)) \/ DoIrq \/ (\E a \in APs : TickIPI(a))
             /\ UNCHANGED bootVars
    BY <2>3, InterruptKeeps
  <2>4. CASE UNCHANGED vars
    <3>1. IrqTypeOK' /\ TicksAfterQueues'
      BY <2>4 DEF vars, irqVars, bootVars, apVars, BootInv, TypeOK, IrqTypeOK, TicksAfterQueues
    <3>2. QED
      BY <2>4, <3>1, RestKeeps DEF vars, bootVars, apVars, BootInv, TypeOK
  <2>5. QED
    BY <2>1, <2>2, <2>3, <2>4 DEF Next
<1>2. QED
  BY <1>1, BootInit, PTL DEF Spec
-----------------------------------------------------------------------------
(* SMP_lock keeps _stack_start still from the IPI until its last reader is *)
(* done: one CPU is started at a time, on the stack made for it.           *)
THEOREM StacksAreOwn == Spec => []OwnStack
<1>1. BootInv => OwnStack
  BY DEF BootInv, OwnStack, LockHandedOn, OwnPlaces
<1>2. QED
  BY <1>1, BootInvariant, PTL

(* No two CPUs ever load the same TSS, however late the boot CPU counts    *)
(* global_i up; a CPU that is too early for its own stops, and with it the *)
(* start of those behind it.                                               *)
THEOREM TssAreOwn == Spec => []OwnTss
<1>1. BootInv => OwnTss
  <2> SUFFICES ASSUME BootInv, NEW a \in APs
               PROVE  /\ tr[a] \in {NoStack, a}
                      /\ ap[a] = "fault" => ~smp_lock /\ \A b \in APs : b > a => ap[b] = "off"
    BY DEF OwnTss
  <2>0. N \in Nat /\ APs = 1..N /\ global_i \in 1..(N + 1)
    BY InterruptsAssumption DEF BootInv, TypeOK, APs
  <2>1. tr[a] \in {NoStack, a}
    BY DEF BootInv, OwnPlaces
  <2>2. ASSUME ap[a] = "fault", NEW b \in APs, b > a
        PROVE  ~smp_lock /\ ap[b] = "off"
    <3>1. a \in Starting
      BY <2>2 DEF Starting
    <3>2. ~smp_lock /\ ((a = global_i /\ bsp = "startup") \/ (a = global_i - 1 /\ bsp # "startup"))
      BY <3>1 DEF BootInv, LockHandedOn
    <3>3. ~(b < global_i \/ (b = global_i /\ bsp = "startup"))
      BY <2>0, <2>2, <3>2
    <3>4. QED
      BY <3>2, <3>3 DEF BootInv, StartedInOrder
  <2>3. ap[a] = "fault" => ~smp_lock
    BY DEF BootInv, LockHandedOn, Starting
  <2>4. QED
    BY <2>1, <2>2, <2>3
<1>2. QED
  BY <1>1, BootInvariant, PTL

(* The boot leaves the boot CPU's task with a lock count for every CPU.    *)
THEOREM CountIsLeftBehind == Spec => []CountLeftBehind
<1>1. BootInv => CountLeftBehind
  BY InterruptsAssumption DEF BootInv, CountLeftBehind, Booted, Counts, Inside, After
<1>2. QED
  BY <1>1, BootInvariant, PTL

(* A tick's IPI that is taken finds a run queue and the CPU's own task.    *)
THEOREM TicksFindQueues == Spec => []TickFindsQueue
<1>1. BootInv => TickFindsQueue
  BY DEF BootInv, TickFindsQueue, TicksAfterQueues, TypeOK, IrqTypeOK, OwnPlaces, HasPcb
<1>2. QED
  BY <1>1, BootInvariant, PTL
=============================================================================
