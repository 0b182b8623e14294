----------------------------- MODULE MCGcTable -----------------------------
EXTENDS GcTable

MCAddr == 2 .. 4
\* Two addresses collide whatever the capacity.
MCHash == [a \in Addr |-> a \div 2]
=============================================================================
