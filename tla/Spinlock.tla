------------------------------ MODULE Spinlock ------------------------------
(***************************************************************************)
(* The kernel's spin lock (kernel/spinlock.h) together with the preemption *)
(* counter its callers carry (kernel/preempt.h).                           *)
(*                                                                         *)
(* The lock word is 1 when free.  spin_lock decrements it atomically and   *)
(* owns the lock when the result is not negative; otherwise it waits until *)
(* the word is positive and decrements again, so the word sinks below 0    *)
(* while several contexts compete.  spin_unlock stores 1, whatever the     *)
(* word has become.                                                        *)
(*                                                                         *)
(* A context is a task on some CPU: it executes one instruction at a time, *)
(* interleaved with the other contexts.  Every context starts outside.     *)
(* A handler that prints takes no lock (Printk), so its `current' plays no *)
(* part here.  spin_trylock, which nothing calls, is left out.             *)
(***************************************************************************)
EXTENDS Integers

CONSTANTS Contexts,  (* the tasks that use the lock                        *)
          None       (* no task                                            *)

ASSUME NoneAssumption == None \notin Contexts

VARIABLES lock,     (* spinlock_T.lock                                     *)
          pc,       (* where each context stands in the lock's code        *)
          preempt_count   (* of the current task of each context           *)

lockVars == <<lock, pc, preempt_count>>

Positions == {"out",        (* not using the lock                          *)
              "dec",        (* spin_lock, about to execute lock decq       *)
              "spin",       (* spin_lock, in the pause/cmpq loop           *)
              "held",       (* past spin_lock                              *)
              "unlocked"}   (* spin_unlock, before preempt_enable          *)

LockTypeOK ==
  /\ lock \in Int
  /\ pc \in [Contexts -> Positions]
  /\ preempt_count \in [Contexts -> {0, 1}]

LockInit ==
  /\ lock = 1
  /\ pc = [c \in Contexts |-> "out"]
  /\ preempt_count = [c \in Contexts |-> 0]

Goto(c, from, to) == pc[c] = from /\ pc' = [pc EXCEPT ![c] = to]

preempt_disable(c) == preempt_count' = [preempt_count EXCEPT ![c] = @ + 1]
preempt_enable(c)  == preempt_count' = [preempt_count EXCEPT ![c] = @ - 1]

-----------------------------------------------------------------------------
(* Seeded faults, used to show that the properties below can fail.         *)

BugDecNonAtomicTest(c) ==   \* tests the word before the decrement: 0 passes
  /\ pc[c] = "dec"
  /\ lock' = lock - 1
  /\ pc' = [pc EXCEPT ![c] = IF lock >= 0 THEN "held" ELSE "spin"]
  /\ UNCHANGED preempt_count

BugUnlockIncrements(c) ==   \* incq instead of movq $1
  /\ Goto(c, "held", "unlocked")
  /\ lock' = lock + 1
  /\ UNCHANGED preempt_count

BugEnableForgotten(c) ==    \* spin_unlock without preempt_enable
  /\ Goto(c, "unlocked", "out")
  /\ UNCHANGED <<lock, preempt_count>>
-----------------------------------------------------------------------------
(* spin_lock: disable preemption, then try to take the word.               *)
SpinLock(c) ==
  /\ Goto(c, "out", "dec")
  /\ preempt_disable(c)
  /\ UNCHANGED lock

(* lock decq; jns 3f.                                                      *)
Dec(c) ==
  /\ pc[c] = "dec"
  /\ lock' = lock - 1
  /\ pc' = [pc EXCEPT ![c] = IF lock - 1 >= 0 THEN "held" ELSE "spin"]
  /\ UNCHANGED preempt_count

(* pause; cmpq $0; jle 2b; jmp 1b: leaves the loop once the word is > 0.   *)
Spin(c) ==
  /\ lock > 0
  /\ Goto(c, "spin", "dec")
  /\ UNCHANGED <<lock, preempt_count>>

(* spin_unlock: movq $1, then preempt_enable.                              *)
SpinUnlock(c) ==
  /\ Goto(c, "held", "unlocked")
  /\ lock' = 1
  /\ UNCHANGED preempt_count

UnlockEnable(c) ==
  /\ Goto(c, "unlocked", "out")
  /\ preempt_enable(c)
  /\ UNCHANGED lock

LockSteps(c) ==
  SpinLock(c) \/ Dec(c) \/ Spin(c) \/ SpinUnlock(c) \/ UnlockEnable(c)

LockNext == \E c \in Contexts : LockSteps(c)

LockSpec == LockInit /\ [][LockNext]_lockVars

(* A context inside the lock's code keeps executing, which preempt_count   *)
(* is meant to see to (Scheduler has what becomes of that), and the        *)
(* critical sections of the kernel end.  Nothing obliges a context to ask  *)
(* for the lock.                                                           *)
Fairness ==
  \A c \in Contexts : WF_lockVars(Dec(c) \/ Spin(c) \/ SpinUnlock(c) \/ UnlockEnable(c))

FairLockSpec == LockSpec /\ Fairness
-----------------------------------------------------------------------------
Held == {c \in Contexts : pc[c] = "held"}
Waiting == {c \in Contexts : pc[c] \in {"dec", "spin"}}

(* At most one context is past spin_lock: the decrement decides between    *)
(* contexts that saw the word free together.                               *)
Mutex == \A c, d \in Held : c = d

(* The word tells the truth to the contexts that poll it: it is positive   *)
(* exactly when nobody owns the lock, however far it sank in between.      *)
WordMeansFree == (lock > 0) <=> (Held = {})

(* preempt_count is the number of locks the context holds or waits for     *)
(* (task.h: "the number of spin locks held"), back to 0 once outside.      *)
PreemptBalanced ==
  \A c \in Contexts : preempt_count[c] = IF pc[c] = "out" THEN 0 ELSE 1

(* An unlock is never lost: when the lock is free and somebody waits,      *)
(* somebody gets it, however many decrements failed before.                *)
WaiterGetsLock == (Held = {} /\ Waiting # {}) ~> (Held # {})

(* The inductive strengthening of the invariants above: the word is at     *)
(* most 1, and 1 exactly when there is no owner, so a decrement that ends  *)
(* at 0 or above started from a free lock.                                 *)
LockInv ==
  /\ LockTypeOK
  /\ Mutex
  /\ PreemptBalanced
  /\ lock <= 1
  /\ Held = {} <=> lock = 1

(* The lock implements the abstract one, with the context past spin_lock   *)
(* as its owner.                                                           *)
Owner == IF Held = {} THEN None ELSE CHOOSE c \in Held : TRUE

Abstract == INSTANCE AbstractLock WITH owner <- Owner
AbstractSpec == Abstract!Spec
=============================================================================
