------------------------------ MODULE Custody -------------------------------
(***************************************************************************)
(* What moving secrets between devices promises: a secret that was made is *)
(* on some device ever after.  It comes to a device from one that has it,  *)
(* and leaves a device only while another keeps it.                        *)
(***************************************************************************)
CONSTANTS Devices, Secrets

VARIABLE holders  \* of each secret, the devices it can be opened on

Init == holders \in [Secrets -> SUBSET Devices]

Make(s, d) ==
    /\ holders[s] = {}
    /\ holders' = [holders EXCEPT ![s] = {d}]

Spread(s, d) ==
    /\ holders[s] # {}
    /\ holders' = [holders EXCEPT ![s] = @ \cup {d}]

Leave(s, d) ==
    /\ holders[s] \ {d} # {}
    /\ holders' = [holders EXCEPT ![s] = @ \ {d}]

Next == \E s \in Secrets, d \in Devices : Make(s, d) \/ Spread(s, d) \/ Leave(s, d)

Spec == Init /\ [][Next]_holders
=============================================================================
