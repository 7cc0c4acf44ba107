----------------------------- MODULE MCTransfer -----------------------------
EXTENDS Transfer

CONSTANTS alice, bob

\* One label, and a label with one under it.
Flat == [l \in Labels |-> {}]
Tree == [l \in Labels |-> IF l = "M.S" THEN {"M"} ELSE {}]
AtAlice == [l \in Labels |-> alice]
=============================================================================
