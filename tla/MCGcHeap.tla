------------------------------ MODULE MCGcHeap ------------------------------
EXTENDS GcHeap, TLC

Word(k) == [stride |-> k, ptrs |-> {k - 1}]
MCDescs == {Opaque, Word(1), Word(2)}
MCWord == {Word(1)}
MCAddr == 1 .. 3
=============================================================================
