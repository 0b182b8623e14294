-------------------------- MODULE MCTurfSequences --------------------------
EXTENDS TurfSequences

MCElem == 1 .. 3
\* Elements 1 and 2 compare equal.
MCRank == [x \in Elem |-> (x \div 2) + (x % 2)]
=============================================================================
