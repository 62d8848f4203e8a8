---------------------------- MODULE AbstractHeap ----------------------------
(***************************************************************************)
(* What a heap promises (GlobalAlloc of blog_os/src/allocator.rs): every   *)
(* object it gives out lies in the heap, begins at a multiple of its       *)
(* alignment, and shares no byte with another until it is given back.      *)
(***************************************************************************)
EXTENDS Naturals

CONSTANT Heap            \* the addresses of the heap
VARIABLE allocated       \* the objects given out: [start, size, align]

Bytes(o) == o.start..(o.start + o.size - 1)

Init == allocated = {}

MayAlloc(o) ==
  /\ Bytes(o) \subseteq Heap
  /\ o.start % o.align = 0
  /\ \A p \in allocated : Bytes(o) \intersect Bytes(p) = {}

Alloc == \E o \in allocated' \ allocated : MayAlloc(o) /\ allocated' = allocated \union {o}
Dealloc == \E o \in allocated : allocated' = allocated \ {o}

Spec == Init /\ [][Alloc \/ Dealloc]_allocated
=============================================================================
