------------------------------ MODULE MCHeap ------------------------------
EXTENDS Heap

Layout(size, align) == [size |-> size, align |-> align]
Requests == {Layout(1, 1), Layout(3, 2), Layout(4, 8), Layout(9, 1)}
Region(usable, first, end) == [usable |-> usable, first |-> first, end |-> end]
Maps ==
  {<<Region(TRUE, 0, 1), Region(FALSE, 1, 4), Region(TRUE, 4, 9)>>,
   <<Region(FALSE, 0, 2), Region(TRUE, 2, 4)>>}
=============================================================================
