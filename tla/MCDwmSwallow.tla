---------------------------- MODULE MCDwmSwallow ----------------------------
EXTENDS DwmSwallow, TLC
CONSTANTS t1, t2, p1, p2, p3
FromFirst == [p \in Programs |-> IF p = p3 THEN t2 ELSE t1]
=============================================================================
