------------------------------- MODULE GcHeap -------------------------------
(***************************************************************************)
(* The collector of runtime/turfrt_gc.c over the memory of TurfHeap:       *)
(* stop-the-world, non-moving mark and sweep.  turf_rt_collect runs to its *)
(* end inside one call of the program, so no action of the program is      *)
(* enabled while it does; its loops are modelled one iteration at a time.  *)
(*                                                                         *)
(*   run -> roots -> trace -> sweep -> run                                 *)
(*                                                                         *)
(* The block table is a function of the address here; how g_blocks,        *)
(* g_pending and g_pidx implement it is module GcTable.                    *)
(***************************************************************************)
EXTENDS TurfHeap

VARIABLES
    phase,   \* where turf_rt_collect is; "run": not in it
    marked,  \* the blocks whose marked bit is set
    work     \* the worklist of gc_mark: marked, not yet scanned

gcVars == <<phase, marked, work>>
vars == <<heap, mem, local, global, roots, pins, panic, phase, marked, work>>

Phase == {"run", "roots", "trace", "sweep"}

GcInit ==
    /\ Init
    /\ phase = "run"
    /\ marked = {}
    /\ work = {}

Running == phase = "run" /\ panic = "none"

\* turf_gc_note_alloc: past the threshold (or under TURF_GC_STRESS) the
\* allocation collects before it returns.  Module GcTable has the counters.
ProgramAllocates ==
    /\ Running
    /\ Allocate
    /\ phase' \in {"run", "roots"}
    /\ UNCHANGED <<marked, work>>

ProgramRuns ==
    /\ Running
    /\ Other
    /\ UNCHANGED gcVars

\* The program calls gc_collect().
Collect ==
    /\ Running
    /\ phase' = "roots"
    /\ UNCHANGED heapVars
    /\ UNCHANGED <<marked, work>>

\* Mutant: the pinned blocks are not considered.
MarkRootsWithoutPins ==
    /\ phase = "roots"
    /\ LET found == UNION {Containing(local[l]) : l \in Local}
       IN  marked' = found /\ work' = found
    /\ phase' = "trace"
    /\ UNCHANGED heapVars

\* gc_mark up to its worklist loop: marks cleared, then every root considered.
MarkRoots ==
    /\ phase = "roots"
    /\ marked' = RootBlocks
    /\ work' = RootBlocks
    /\ phase' = "trace"
    /\ UNCHANGED heapVars

\* Mutant: a block found by tracing is marked but never scanned itself.
TraceOneLevel ==
    /\ phase = "trace"
    /\ \E b \in work :
          /\ marked' = marked \cup Referents(b)
          /\ work' = work \ {b}
    /\ UNCHANGED heapVars
    /\ UNCHANGED phase

\* Mutant: a block is pushed again although it is marked.
TraceAgain ==
    /\ phase = "trace"
    /\ \E b \in work :
          /\ marked' = marked \cup Referents(b)
          /\ work' = (work \ {b}) \cup Referents(b)
    /\ UNCHANGED heapVars
    /\ UNCHANGED phase

\* One iteration of the worklist loop.  The code takes the last entry; here
\* any.
Trace ==
    /\ phase = "trace"
    /\ \E b \in work :
          /\ marked' = marked \cup Referents(b)
          /\ work' = (work \ {b}) \cup (Referents(b) \ marked)
    /\ UNCHANGED heapVars
    /\ UNCHANGED phase

TraceDone ==
    /\ phase = "trace"
    /\ work = {}
    /\ phase' = "sweep"
    /\ UNCHANGED heapVars
    /\ UNCHANGED <<marked, work>>

\* gc_sweep frees the unmarked blocks in address order.
Sweep ==
    /\ phase = "sweep"
    /\ \E b \in GcStarts \ marked :
          /\ \A c \in GcStarts \ marked : b <= c
          /\ heap' = [heap EXCEPT ![b] = NoChunk]
          /\ mem' = Wiped({b})
    /\ UNCHANGED <<local, global, roots, pins, panic>>
    /\ UNCHANGED gcVars

\* Mutant: the sweep stops one entry short of the table's end.
SweepDoneEarly ==
    /\ phase = "sweep"
    /\ \A b \in GcStarts \ marked : \A c \in GcStarts : c <= b
    /\ phase' = "run"
    /\ marked' = {}
    /\ UNCHANGED heapVars
    /\ UNCHANGED work

\* The marks left behind are never read: the next gc_mark clears them.
SweepDone ==
    /\ phase = "sweep"
    /\ GcStarts \subseteq marked
    /\ phase' = "run"
    /\ marked' = {}
    /\ UNCHANGED heapVars
    /\ UNCHANGED work

Collector == MarkRoots \/ Trace \/ TraceDone \/ Sweep \/ SweepDone

Next == ProgramAllocates \/ ProgramRuns \/ Collect \/ Collector

Spec == GcInit /\ [][Next]_vars

\* turf_rt_collect returns to the program only from its end.
FairSpec == Spec /\ WF_vars(Collector)
-----------------------------------------------------------------------------
\* Type invariant: every variable keeps its type and no pin or registration count
\* goes below zero (turf_rt_unpin, turf_rt_remove_global_root) or above its bound.
TypeOK ==
    /\ HeapTypeOK
    /\ phase \in Phase
    /\ marked \in SUBSET Addr
    /\ work \in SUBSET Addr

\* While the worklist is being drained, marked is what has been found so far:
\* real blocks, all reachable, the roots' among them, and every edge out of a
\* marked block that has left the worklist leads to a marked block.  From the
\* sweep on nothing is left on the worklist.
MarkInvariant ==
    /\ phase = "run" => marked = {}
    /\ phase \in {"run", "sweep"} => work = {}
    /\ phase # "run" => panic = "none"
    /\ phase \in {"trace", "sweep"} =>
          /\ work \subseteq marked
          /\ marked \subseteq Reachable
          /\ RootBlocks \subseteq marked
          /\ \A b \in marked \ work : Referents(b) \subseteq marked

\* A collection takes no block away that the program can reach: through a
\* stack word, a register, a registered global slot or a pin, and from there
\* along declared pointer words, interior pointers included.
KeepsReachable ==
    [][phase # "run" =>
          \A b \in GcStarts : b \notin GcStarts' => b \notin Reachable]_vars

\* And it takes away all the others: when turf_rt_collect returns, the blocks
\* left are the reachable ones, whatever garbage was around (cycles too).
TakesGarbage ==
    [][phase = "sweep" /\ phase' = "run" => GcStarts' = Reachable']_vars

\* An outstanding pin names a block the collector still has, whatever
\* collections, moves and reuses of addresses came in between.
PinnedIsLive ==
    \A a \in Addr : pins[a] > 0 => a \in GcStarts /\ heap[a].size > 0

\* A collection that starts ends: the worklist loop of gc_mark terminates on any
\* graph, cycles and self-references included, because a block is pushed once.
CollectionEnds == phase # "run" ~> phase = "run"

\* Why it ends, as a property of single steps: the phases come in their order,
\* and inside one a step marks a block that had no mark, or takes one off the
\* worklist and marks none, or frees one.  Each can happen once for each block.
CollectionDescends ==
    [][phase # "run" =>
          \/ <<phase, phase'>> \in {<<"roots", "trace">>, <<"trace", "sweep">>,
                                   <<"sweep", "run">>}
          \/ /\ phase' = "trace" /\ phase = "trace"
             /\ GcStarts' = GcStarts
             /\ marked \subseteq marked'
             /\ marked' = marked => work' \subseteq work /\ work' # work
          \/ /\ phase' = "sweep" /\ phase = "sweep"
             /\ marked' = marked
             /\ GcStarts' \subseteq GcStarts /\ GcStarts' # GcStarts]_vars

Managed == INSTANCE ManagedHeap

\* The collector implements the promise of ManagedHeap: seen from the program,
\* all that gc_mark and gc_sweep do is to take unreachable blocks away.
KeepsPromise == Managed!Spec

\* turfrt.h:118: a block is reclaimed "once nothing reachable from a root still
\* points into it": not while a word of the stack holds the address that
\* turf_rt_alloc returned for it, whatever its size.
HeldIsKept ==
    [][phase # "run" =>
          \A l \in Local : local[l] \in GcStarts => local[l] \in GcStarts']_vars
=============================================================================
