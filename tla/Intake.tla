------------------------------- MODULE Intake -------------------------------
(***************************************************************************)
(* What an inbox promises: it takes in the letters of its mailbox in their *)
(* order, leaving none out, and is done with each letter it took in at     *)
(* most once and for good.                                                 *)
(***************************************************************************)
EXTENDS Naturals

CONSTANT Letters  \* the numbers of the letters, in the order they were sent

VARIABLES
    taken,    \* the newest letter taken in, 0 at first
    done      \* the letters it is done with

Init == taken = 0 /\ done = {}

Take == \E l \in Letters :
    /\ l > taken
    /\ \A m \in Letters : m > taken => m >= l
    /\ taken' = l
    /\ UNCHANGED done

Finish == \E l \in Letters \ done :
    /\ l <= taken
    /\ done' = done \cup {l}
    /\ UNCHANGED taken

Spec == Init /\ [][Take \/ Finish]_<<taken, done>>
=============================================================================
