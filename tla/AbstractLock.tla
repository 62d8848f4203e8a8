---------------------------- MODULE AbstractLock ----------------------------
(***************************************************************************)
(* What a lock promises its callers: at most one owner, and only the owner *)
(* gives it back.  Spinlock.tla is shown to implement this.                *)
(***************************************************************************)
CONSTANTS Contexts,  (* whoever may hold the lock                          *)
          None       (* no owner                                           *)

VARIABLE owner

Init == owner = None

Acquire(c) == owner = None /\ owner' = c

Release(c) == owner = c /\ owner' = None

Next == \E c \in Contexts : Acquire(c) \/ Release(c)

Spec == Init /\ [][Next]_owner
=============================================================================
