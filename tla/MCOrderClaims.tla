---------------------------- MODULE MCOrderClaims ---------------------------
\* Two engines of one account; the first makes two attempts, which overlap
\* when its trading slot is given away, and the second the rest.
EXTENDS OrderClaims, TLC

CONSTANTS i1, i2, a1, a2

MCInstanceOf == [a \in Attempts |-> IF a \in {a1, a2} THEN i1 ELSE i2]
=============================================================================
