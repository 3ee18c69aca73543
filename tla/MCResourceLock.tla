--------------------------- MODULE MCResourceLock ---------------------------
EXTENDS ResourceLock
CONSTANTS p1, p2
MCProcess == {p1, p2}
\* p2's server runs one tick ahead of p1's.
MCSkew == [p \in MCProcess |-> IF p = p1 THEN 0 ELSE 1]
=============================================================================
