------------------------- MODULE MCHashCollections -------------------------
EXTENDS HashCollections

MCKey == 1 .. 4
\* Keys 1, 2 and 4 start their searches at the same bucket.
MCHash == [k \in Key |-> IF k = 3 THEN 1 ELSE 0]
=============================================================================
