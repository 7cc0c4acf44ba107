------------------------------ MODULE MCOutbox ------------------------------
(***************************************************************************)
(* Small instances of Outbox: letters that may leave, for the races of     *)
(* sends and drops; and a letter to another person's key, which is a step  *)
(* of a file exchange, beside a device letter, for the checks.             *)
(***************************************************************************)
EXTENDS Outbox, TLC

CONSTANTS la, lb, ld, ka, kb, p1, p2, t1, t2, t3

MCKeys == {ka, kb}
MCSealedTo == [l \in Letters |-> IF l = lb THEN kb ELSE ka]
MCDefect == [l \in Letters |-> IF l = ld THEN "DeviceLetter" ELSE "None"]

MCOneTo == [l \in Letters |-> ka]
MCOneDefect == [l \in Letters |-> "None"]
MCSymmetry == Permutations(Tokens) \cup Permutations(Procs)
MCRaceSymmetry == MCSymmetry \cup Permutations(Letters)
=============================================================================
