------------------------------- MODULE MCSetup -------------------------------
(***************************************************************************)
(* A stream of a package with no manifest, a setup, an update, and a later *)
(* update that carries the setup's key again.                              *)
(***************************************************************************)
EXTENDS Setup, TLC

CONSTANTS plain, first, second, third, ka, kb, kc, p1, p2

MCGeneration == [k \in Packages |-> IF k = plain THEN 0 ELSE IF k = first THEN 1
                                     ELSE IF k = second THEN 2 ELSE 3]
MCKey == [k \in Packages |-> IF k = plain THEN kc ELSE IF k = second THEN kb ELSE ka]

MCSymmetry == Permutations(Procs)
=============================================================================
