------------------------------ MODULE BlockMap ------------------------------
(***************************************************************************)
(* What turfrt_internal.h and turfrt.h promise of the collector's block    *)
(* table, with no table in it: a set of blocks, a pin count for each, and  *)
(* a collection that may take away what is not pinned.  Module GcTable     *)
(* implements it.                                                          *)
(***************************************************************************)
EXTENDS LibcHeap

CONSTANTS Sizes, ManualSizes

VARIABLES
    chunk,  \* libc's chunks
    count,  \* the outstanding pins of the block at an address
    panic   \* why the process aborted, if it did

blockVars == <<chunk, count, panic>>

Init ==
    /\ chunk = [a \in Addr |-> NoChunk]
    /\ count = [a \in Addr |-> 0]
    /\ panic = "none"

\* A collection gives back some of the unpinned blocks.
Without(ch, G) == [a \in Addr |-> IF a \in G THEN NoChunk ELSE ch[a]]
Unpinned(ch, ct) == {a \in Starts(ch, "gc") : ct[a] = 0}

\* A new block at p, which a collection on the way out keeps if it has words.
Allocate ==
    \E p \in Addr, n \in Sizes :
        /\ CanPlace(chunk, p, n, {})
        /\ LET ch == [chunk EXCEPT ![p] = [owner |-> "gc", size |-> n]]
           IN  \E G \in SUBSET Unpinned(ch, count) :
                  /\ n > 0 => p \notin G
                  /\ chunk' = Without(ch, G)
        /\ UNCHANGED <<count, panic>>

\* The block at old becomes one of n words at p, its pins with it; so does a
\* chunk of mem::alloc, which has none.
Reallocate ==
    \E old \in Starts(chunk, "gc") \cup Starts(chunk, "manual"),
       p \in Addr, n \in Sizes \ {0} :
        /\ CanPlace(chunk, p, n, {old})
        /\ count' = [count EXCEPT ![old] = 0, ![p] = count[old]]
        /\ LET ch == [chunk EXCEPT ![old] = NoChunk,
                                   ![p] = [owner |-> "gc", size |-> n]]
           IN  \E G \in SUBSET Unpinned(ch, count') :
                  /\ p \notin G
                  /\ chunk' = Without(ch, G)
        /\ UNCHANGED panic

Collect ==
    \E G \in SUBSET Unpinned(chunk, count) :
        /\ chunk' = Without(chunk, G)
        /\ UNCHANGED <<count, panic>>

ManualAlloc ==
    \E p \in Addr, n \in ManualSizes :
        /\ CanPlace(chunk, p, n, {})
        /\ chunk' = [chunk EXCEPT ![p] = [owner |-> "manual", size |-> n]]
        /\ UNCHANGED <<count, panic>>

Panic(kind) == panic' = kind /\ UNCHANGED <<chunk, count>>

CheckedFree ==
    \/ \E a \in Starts(chunk, "manual") :
          chunk' = [chunk EXCEPT ![a] = NoChunk] /\ UNCHANGED <<count, panic>>
    \/ Starts(chunk, "gc") # {} /\ Panic("cross-heap free")

\* An address inside a block pins the block; one outside does nothing.
Pin ==
    \E v \in Addr : \E b \in Around(chunk, v) :
        count' = [count EXCEPT ![b] = @ + 1] /\ UNCHANGED <<chunk, panic>>

Unpin ==
    \E v \in Addr : \E b \in Around(chunk, v) :
        \/ /\ count[b] > 0
           /\ count' = [count EXCEPT ![b] = @ - 1]
           /\ UNCHANGED <<chunk, panic>>
        \/ count[b] = 0 /\ Panic("unpin of unpinned object")

Next ==
    /\ panic = "none"
    /\ \/ Allocate \/ Reallocate \/ Collect
       \/ ManualAlloc \/ CheckedFree \/ Pin \/ Unpin

Spec == Init /\ [][Next]_blockVars
=============================================================================
