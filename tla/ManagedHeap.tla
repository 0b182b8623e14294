---------------------------- MODULE ManagedHeap ----------------------------
(***************************************************************************)
(* What the collected heap promises a Turf program (turfrt.h on            *)
(* turf_rt_alloc and turf_rt_collect): blocks appear by allocation, move   *)
(* by realloc, and disappear on their own only once nothing reachable from *)
(* a root points into them.  When, and how many at a time, is left open.   *)
(***************************************************************************)
EXTENDS TurfHeap

\* Some unreachable blocks go away; nothing else changes.
Reclaim ==
    /\ heap' # heap
    /\ \E G \in SUBSET (GcStarts \ Reachable) :
          /\ heap' = [a \in Addr |-> IF a \in G THEN NoChunk ELSE heap[a]]
          /\ mem' = Wiped(G)
    /\ UNCHANGED <<local, global, roots, pins, panic>>

Next == panic = "none" /\ (Other \/ Reclaim \/ Allocate)

Spec == Init /\ [][Next]_heapVars
=============================================================================
