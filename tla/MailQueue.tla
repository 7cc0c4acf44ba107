----------------------------- MODULE MailQueue ------------------------------
(***************************************************************************)
(* What an outbox promises, with no ring, claims or commands: letters      *)
(* leave in the order they were accepted, only the oldest can leave, none  *)
(* leaves as sent before it was delivered, and delivering one again adds   *)
(* nothing.  Outbox implements this.                                       *)
(***************************************************************************)
EXTENDS Naturals, Sequences

CONSTANT Letters

VARIABLES
    accepted,   \* the letters accepted so far
    queue,      \* the places in accepted of those still waiting, oldest first
    sent,       \* of those that left as sent
    dropped,    \* and of those that left unsent
    delivered   \* the letters that arrived

vars == <<accepted, queue, sent, dropped, delivered>>

Init ==
    /\ accepted = << >>
    /\ queue = << >>
    /\ sent = {}
    /\ dropped = {}
    /\ delivered = {}

Accept(l) ==
    /\ accepted' = Append(accepted, l)
    /\ queue' = Append(queue, Len(accepted) + 1)
    /\ UNCHANGED <<sent, dropped, delivered>>

\* The oldest letter arrives, or one that has left arrives (again).
Arrive(i) ==
    /\ i \in sent \cup dropped \/ (queue # << >> /\ i = Head(queue))
    /\ delivered' = delivered \cup {accepted[i]}
    /\ UNCHANGED <<accepted, queue, sent, dropped>>

Depart ==
    /\ queue # << >>
    /\ accepted[Head(queue)] \in delivered
    /\ queue' = Tail(queue)
    /\ sent' = sent \cup {Head(queue)}
    /\ UNCHANGED <<accepted, dropped, delivered>>

Discard ==
    /\ queue # << >>
    /\ queue' = Tail(queue)
    /\ dropped' = dropped \cup {Head(queue)}
    /\ UNCHANGED <<accepted, sent, delivered>>

Next ==
    \/ \E l \in Letters : Accept(l)
    \/ \E i \in 1 .. Len(accepted) : Arrive(i)
    \/ Depart
    \/ Discard

Spec == Init /\ [][Next]_vars
=============================================================================
