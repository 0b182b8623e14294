------------------------------ MODULE LibcHeap ------------------------------
(***************************************************************************)
(* libc's malloc, realloc and free as the block table meets them: which    *)
(* chunk starts at an address, and where the next one may go.  ch is a     *)
(* function from every address to the chunk that starts there.             *)
(*                                                                         *)
(* Addresses and sizes are counted in 8-byte words.                        *)
(***************************************************************************)
EXTENDS Integers, FiniteSets, FiniteSetsExt

CONSTANT Addr  \* the word addresses malloc can hand out

\* 0 and 1 are not among them: g_pidx keeps these for its own use.
ASSUME AddrAssumption == Addr \subseteq Nat \ {0, 1}

\* A chunk registered with the collector ("gc"), one of mem::alloc, or none.
Chunk == [owner : {"none", "gc", "manual"}, size : Nat]
NoChunk == [owner |-> "none", size |-> 0]

Starts(ch, who) == {a \in Addr : ch[a].owner = who}

\* The words set aside for n words at a: malloc(0) has an address of its own.
Span(a, n) == a .. (a + (IF n = 0 THEN 1 ELSE n) - 1)

CanPlace(ch, a, n, Gone) ==
    /\ Span(a, n) \subseteq Addr
    /\ \A b \in Addr \ (Gone \cup Starts(ch, "none")) :
          Span(a, n) \cap Span(b, ch[b].size) = {}

\* The collected blocks with v inside them: at most one.
Around(ch, v) == {b \in Starts(ch, "gc") : b <= v /\ v < b + ch[b].size}

\* The bytes (here words) of collected blocks.
Total(ch) == MapThenSumSet(LAMBDA a : ch[a].size, Starts(ch, "gc"))
=============================================================================
