------------------------------- MODULE KList -------------------------------
(***************************************************************************)
(* The kernel's circular doubly linked lists (kernel/lib.h), pointer by    *)
(* pointer: a list is its head node, a heap holds the next and prev of     *)
(* every node.  Nothing here keeps a node from being linked twice; that is *)
(* for the callers, and what they make of it can be seen.                  *)
(***************************************************************************)
EXTENDS Naturals

(* A heap in which every node is alone, as list_init leaves it.            *)
Unlinked(nodes) == [next |-> [n \in nodes |-> n], prev |-> [n \in nodes |-> n]]

list_init(heap, n) ==
  [next |-> [heap.next EXCEPT ![n] = n], prev |-> [heap.prev EXCEPT ![n] = n]]

(* add->next = entry->next; add->prev = entry;                             *)
(* add->next->prev = add; entry->next = add                                *)
list_add_to_behind(heap, entry, add) ==
  LET after == [heap.next EXCEPT ![add] = heap.next[entry]]
  IN  [next |-> [after EXCEPT ![entry] = add],
       prev |-> [[heap.prev EXCEPT ![add] = entry] EXCEPT ![after[add]] = add]]

(* add->next = entry; entry->prev->next = add; add->prev = entry->prev;     *)
(* entry->prev = add: the first, second, third or fourth of these.         *)
list_add_to_before(heap, entry, add, k) ==
  CASE k = 1 -> [heap EXCEPT !.next[add] = entry]
    [] k = 2 -> [heap EXCEPT !.next[heap.prev[entry]] = add]
    [] k = 3 -> [heap EXCEPT !.prev[add] = heap.prev[entry]]
    [] k = 4 -> [heap EXCEPT !.prev[entry] = add]

(* The pointers of the deleted node itself stay as they were.              *)
list_del(heap, n) ==
  LET back == [heap.prev EXCEPT ![heap.next[n]] = heap.prev[n]]
  IN  [next |-> [heap.next EXCEPT ![back[n]] = heap.next[n]], prev |-> back]

list_is_empty(heap, n) == heap.next[n] = n /\ heap.prev[n] = n

(* The nodes met in k steps from a head along next.                        *)
Walk(heap, head, k) ==
  LET step[i \in 0..k] == IF i = 0 THEN heap.next[head] ELSE heap.next[step[i - 1]]
  IN  step

(* The nodes on the list of a head.                                       *)
Reaches(heap, head, nodes, k) ==
  {n \in nodes : \E i \in 0..k : Walk(heap, head, k)[i] = n}
=============================================================================
