------------------------------ MODULE MCMemory ------------------------------
(* Memory.tla on a small machine: pages of 2 units, words of 4 bits.       *)
EXTENDS SlabCache

(* 640K below page 1, a zone, a hole, a second zone, and ROM at the top.   *)
SmallMap == <<[address |-> 0,  length |-> 1,  type |-> 1],
              [address |-> 1,  length |-> 15, type |-> 1],
              [address |-> 16, length |-> 7,  type |-> 2],
              [address |-> 23, length |-> 4,  type |-> 1],
              [address |-> 27, length |-> 3,  type |-> 2]>>

(* A small class, which also holds structures and maps, and a large one.   *)
TwoClasses == <<[small |-> TRUE,  first |-> 3, created |-> 2, map |-> 1],
                [small |-> FALSE, first |-> 1, created |-> 2, map |-> 1]>>
=============================================================================
