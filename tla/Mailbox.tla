------------------------------ MODULE Mailbox -------------------------------
(***************************************************************************)
(* The relay's mailbox for one recipient (src/src/relay/mailbox.rs and     *)
(* blob.rs), with the bucket that holds its large letters and the Durable  *)
(* Object that moves them (src/workers/src/blobs.js), and the recipient's  *)
(* reading of it.                                                          *)
(*                                                                         *)
(* The core's calls are synchronous, so each is one action.  The object    *)
(* waits for the bucket, and anything but another push or sweep may happen *)
(* meanwhile: a task of the chain is what it waits for.  The bucket does   *)
(* what it was asked at some moment of the wait, or refuses, and a restart *)
(* of the object forgets the wait.                                         *)
(***************************************************************************)
EXTENDS Naturals, FiniteSets

CONSTANTS
    Letters,      \* letters for this recipient, by their content
    Large,        \* those held in the bucket
    Rotations,    \* those the console stores: rotated keys
    Expiring,     \* those with an expiry
    MaxId,        \* bound: row numbers
    MaxRefusals,  \* bound: requests the bucket refuses
    MaxRestarts,  \* bound: restarts of the object
    Straggling    \* whether a request to the bucket outlives its sender

Ids == 1 .. MaxId

ASSUME MailboxAssumption ==
    /\ Large \subseteq Letters
    /\ Rotations \subseteq Letters \ Large
    /\ Expiring \subseteq Letters
    /\ MaxId \in Nat /\ MaxRefusals \in Nat /\ MaxRestarts \in Nat
    /\ Straggling \in BOOLEAN

VARIABLES
    rows,        \* the mailbox table: a function from row numbers
    tombstones,  \* blob_tombstones: the letters whose objects are to go
    objects,     \* the letters in the bucket
    task,        \* what the chain of pushes and sweeps waits for
    late,        \* requests to the bucket whose sender is gone, landed or not
    page,        \* the rows a pull has listed and not yet answered with
    seen,        \* the numbers the recipient knows
    got,         \* the letters the recipient has
    acked,       \* the letters whose sender was told they are stored
    over,        \* the letters whose expiry has passed
    refusals,    \* requests the bucket refused so far
    restarts     \* restarts of the object so far

relay == <<rows, tombstones, over>>
reader == <<page, seen, got>>
faults == <<refusals, restarts>>
vars == <<relay, objects, task, late, reader, acked, faults>>

Row == [letter : Letters, ready : BOOLEAN, stale : BOOLEAN]
NoTask == [op |-> "none"]
Tasks ==
    {NoTask}
    \cup [op : {"put", "stored"}, letter : Letters, id : Ids]
    \cup [op : {"delete", "deleted"}, keys : SUBSET Letters]
NoPage == [asked |-> FALSE]

Init ==
    /\ rows = << >>
    /\ tombstones = {}
    /\ objects = {}
    /\ task = NoTask
    /\ late = {}
    /\ page = NoPage
    /\ seen = {} /\ got = {} /\ acked = {} /\ over = {}
    /\ refusals = 0 /\ restarts = 0

-----------------------------------------------------------------------------
Max0(S) == CHOOSE n \in S \cup {0} : \A m \in S : m <= n

\* SQLite's number for a new row of a table without AUTOINCREMENT: one more
\* than the greatest in it.
NextId == Max0(DOMAIN rows) + 1

Filed(l) == {i \in DOMAIN rows : rows[i].letter = l}

\* Mutant: the threshold is not looked at.
HeldOut_Any(l) == l \in Letters

\* A letter of hold_from bytes or more goes to the bucket.
HeldOut(l) == l \in Large

Held(i) == HeldOut(rows[i].letter)

\* A letter some row holds in the bucket.
Named(l) == \E i \in DOMAIN rows : Held(i) /\ rows[i].letter = l

Insert(l) ==
    /\ NextId \in Ids
    /\ rows' = [i \in DOMAIN rows \cup {NextId} |->
                   IF i = NextId THEN [letter |-> l, ready |-> ~HeldOut(l), stale |-> FALSE]
                   ELSE rows[i]]

\* Mutant: a delete leaves no tombstone.
Delete_Forgets(S) ==
    /\ rows' = [i \in DOMAIN rows \ S |-> rows[i]]
    /\ UNCHANGED tombstones

\* DELETE, and the trigger that records the keys of the rows held out.
Delete(S) ==
    /\ rows' = [i \in DOMAIN rows \ S |-> rows[i]]
    /\ tombstones' = tombstones \cup {rows[i].letter : i \in {j \in S : Held(j)}}

\* purge_expired.
Expired == {i \in DOMAIN rows : rows[i].letter \in over}

\* drop_stale_pending.
StalePending == {i \in DOMAIN rows : Held(i) /\ ~rows[i].ready /\ rows[i].stale}

\* Mutant: a row that is ready counts, too.
Pending_Ready(i) == i \in DOMAIN rows /\ Held(i)

\* A held row that waits for its object: what mark_ready and abort may change.
Pending(i) == i \in DOMAIN rows /\ Held(i) /\ ~rows[i].ready

-----------------------------------------------------------------------------
\* Mutant: a task does not wait for the one before it.
ChainFree_Always == TRUE

\* One push or sweep at a time.
ChainFree == task = NoTask

\* store_until_held for a push: a new row, a repeat of a letter whose bytes
\* were never confirmed, which asks for them again, or a repeat.
Push(l) ==
    /\ ChainFree
    /\ l \notin Rotations
    /\ \/ /\ Filed(l) = {}
          /\ Insert(l)
          /\ task' = IF HeldOut(l) THEN [op |-> "put", letter |-> l, id |-> NextId] ELSE task
          /\ acked' = IF HeldOut(l) THEN acked ELSE acked \cup {l}
       \/ \E i \in Filed(l) :
          /\ UNCHANGED rows
          /\ task' = IF Pending(i) THEN [op |-> "put", letter |-> l, id |-> i] ELSE task
          /\ acked' = IF Pending(i) THEN acked ELSE acked \cup {l}
    /\ UNCHANGED <<tombstones, over, objects, late, reader, faults>>

\* rotate_as_letter, called by the console outside the chain.
Rotate(l) ==
    /\ l \in Rotations \ acked
    /\ Insert(l)
    /\ acked' = acked \cup {l}
    /\ UNCHANGED <<tombstones, over, objects, task, late, reader, faults>>

\* The bucket stores the letter.
PutLands ==
    /\ task.op = "put"
    /\ objects' = objects \cup {task.letter}
    /\ task' = [task EXCEPT !.op = "stored"]
    /\ UNCHANGED <<relay, late, reader, acked, faults>>

\* The wait ends: mark_ready, and the sender is told, or is told to retry when
\* no row waits for the object any more.
PutConfirmed ==
    /\ task.op = "stored"
    /\ IF Pending(task.id)
       THEN /\ rows' = [rows EXCEPT ![task.id].ready = TRUE]
            /\ acked' = acked \cup {task.letter}
       ELSE UNCHANGED <<rows, acked>>
    /\ task' = NoTask
    /\ UNCHANGED <<tombstones, over, objects, late, reader, faults>>

\* The wait ends in an error, the letter stored or not: abort drops the row.
PutFails ==
    /\ task.op \in {"put", "stored"}
    /\ refusals < MaxRefusals
    /\ refusals' = refusals + 1
    /\ Delete({i \in {task.id} : Pending(i)})
    /\ task' = NoTask
    /\ UNCHANGED <<over, objects, late, reader, acked, restarts>>

\* Mutant: every tombstone's object goes.
Unnamed_All(keys) == keys

\* tombstones and tombstones_done leave alone what a live row names.
Unnamed(keys) == {l \in keys : ~Named(l)}

\* sweep: ask for the keys to delete, have the bucket delete them, forget them.
Sweep ==
    /\ ChainFree
    /\ Unnamed(tombstones) # {}
    /\ task' = [op |-> "delete", keys |-> Unnamed(tombstones)]
    /\ UNCHANGED <<relay, objects, late, reader, acked, faults>>

DeleteLands ==
    /\ task.op = "delete"
    /\ objects' = objects \ task.keys
    /\ task' = [task EXCEPT !.op = "deleted"]
    /\ UNCHANGED <<relay, late, reader, acked, faults>>

TombstonesDone ==
    /\ task.op = "deleted"
    /\ tombstones' = tombstones \ Unnamed(task.keys)
    /\ task' = NoTask
    /\ UNCHANGED <<rows, over, objects, late, reader, acked, faults>>

\* Mutant: the tombstones are forgotten all the same.
DeleteFails_Forgets ==
    /\ task.op \in {"delete", "deleted"}
    /\ refusals < MaxRefusals
    /\ refusals' = refusals + 1
    /\ tombstones' = tombstones \ task.keys
    /\ task' = NoTask
    /\ UNCHANGED <<rows, over, objects, late, reader, acked, restarts>>

\* The delete fails: the tombstones stay for the next sweep.
DeleteFails ==
    /\ task.op \in {"delete", "deleted"}
    /\ refusals < MaxRefusals
    /\ refusals' = refusals + 1
    /\ task' = NoTask
    /\ UNCHANGED <<relay, objects, late, reader, acked, restarts>>

\* scan, from the alarm, which does not wait for the chain: purge what has
\* expired and drop the rows whose object was never confirmed.
Scan ==
    /\ Expired \cup StalePending # {}
    /\ Delete(Expired \cup StalePending)
    /\ UNCHANGED <<over, objects, task, late, reader, acked, faults>>

-----------------------------------------------------------------------------
\* An expiry passes.
Expire(l) ==
    /\ l \in Expiring \ over
    /\ \E i \in DOMAIN rows : rows[i].letter = l
    /\ over' = over \cup {l}
    /\ UNCHANGED <<rows, tombstones, objects, task, late, reader, acked, faults>>

\* A row has waited for its object for an hour.  No single wait takes that long.
Age(i) ==
    /\ i \in DOMAIN rows /\ Pending(i) /\ ~rows[i].stale
    /\ task.op \in {"put", "stored"} => task.id # i
    /\ rows' = [rows EXCEPT ![i].stale = TRUE]
    /\ UNCHANGED <<tombstones, over, objects, task, late, reader, acked, faults>>

\* The object restarts.  The bucket may still get what it had sent.
Restart ==
    /\ restarts < MaxRestarts
    /\ restarts' = restarts + 1
    /\ task' = NoTask
    /\ page' = NoPage
    /\ late' = IF Straggling /\ task.op \in {"put", "delete"} THEN late \cup {task} ELSE late
    /\ UNCHANGED <<relay, objects, seen, got, acked, refusals>>

Straggle == \E t \in late :
    /\ \/ /\ t.op = "put"
          /\ objects' = objects \cup {t.letter}
          /\ late' = (late \ {t}) \cup {[t EXCEPT !.op = "stored"]}
       \/ /\ t.op = "delete"
          /\ objects' = objects \ t.keys
          /\ late' = (late \ {t}) \cup {[t EXCEPT !.op = "deleted"]}
    /\ UNCHANGED <<relay, task, reader, acked, faults>>

-----------------------------------------------------------------------------
Cursor == Max0(seen)

\* Mutant: the bound is off by one.
Listed_OffByOne == {i \in DOMAIN rows \ Expired : i > Cursor + 1 /\ rows[i].ready}

\* list_after: the ready rows after the recipient's newest.
Listed == {i \in DOMAIN rows \ Expired : i > Cursor /\ rows[i].ready}

List ==
    /\ page = NoPage
    /\ page' = [asked |-> TRUE, rows |-> [i \in Listed |-> rows[i].letter]]
    /\ Delete(Expired)
    /\ UNCHANGED <<over, objects, task, late, seen, got, acked, faults>>

\* afterPull: every held letter is read back, or the whole page is refused.
\* The recipient takes the page up to where its inbox is full.
Answer ==
    LET Kept(i) == HeldOut(page.rows[i]) => page.rows[i] \in objects
    IN  /\ page # NoPage
        /\ page' = NoPage
        /\ IF \A i \in DOMAIN page.rows : Kept(i)
           THEN \E upto \in 0 .. MaxId :
                LET taken == {i \in DOMAIN page.rows : i <= upto} \ seen
                IN  /\ seen' = seen \cup taken
                    /\ got' = got \cup {page.rows[i] : i \in taken}
           ELSE UNCHANGED <<seen, got>>
        /\ UNCHANGED <<relay, objects, task, late, acked, faults>>

-----------------------------------------------------------------------------
Next ==
    \/ \E l \in Letters : Push(l) \/ Rotate(l) \/ Expire(l)
    \/ \E i \in Ids : Age(i)
    \/ PutLands \/ PutConfirmed \/ PutFails
    \/ Sweep \/ DeleteLands \/ TombstonesDone \/ DeleteFails
    \/ Scan \/ Restart \/ Straggle
    \/ List \/ Answer

Spec == Init /\ [][Next]_vars

\* Senders retry what was not acknowledged, the bucket answers, the alarm goes
\* off, and the recipient pulls and makes room for what it is given.
Fairness ==
    /\ \A l \in Letters \ Rotations : SF_vars(l \notin acked /\ Push(l))
    /\ WF_vars(PutLands) /\ WF_vars(PutConfirmed)
    /\ WF_vars(DeleteLands) /\ WF_vars(TombstonesDone)
    /\ WF_vars(Scan) /\ SF_vars(Sweep)
    /\ WF_vars(List) /\ WF_vars(Answer) /\ SF_vars(Answer /\ DOMAIN page.rows \subseteq seen')

FairSpec == Spec /\ Fairness

-----------------------------------------------------------------------------
\* The tables, the bucket and the tasks have the values the code gives them.
TypeOK ==
    /\ DOMAIN rows \subseteq Ids
    /\ \A i \in DOMAIN rows : rows[i] \in Row
    /\ tombstones \subseteq Large
    /\ objects \subseteq Large
    /\ task \in Tasks
    /\ late \subseteq Tasks
    /\ page = NoPage \/ (DOMAIN page.rows \subseteq Ids
                         /\ \A i \in DOMAIN page.rows : page.rows[i] \in Letters)
    /\ seen \subseteq Ids
    /\ got \subseteq Letters /\ acked \subseteq Letters /\ over \subseteq Letters
    /\ refusals \in 0 .. MaxRefusals /\ restarts \in 0 .. MaxRestarts

\* A store, or a delete, of the letter's object was on its way in a restart.
LateStore(l) == \E t \in late : t.op \in {"put", "stored"} /\ t.letter = l
LateDelete(l) == \E t \in late : t.op \in {"delete", "deleted"} /\ l \in t.keys

\* "a letter stored anew can never meet a delete of its own earlier object"
\* (blobs.js): the object of a ready row is in the bucket, unless the Durable
\* Object was restarted while a delete of it was on its way.
ReadyHasObject == \A i \in DOMAIN rows :
    Held(i) /\ rows[i].ready => rows[i].letter \in objects \/ LateDelete(rows[i].letter)

\* "so no path can forget" (blob.rs): every object is named by a row, recorded
\* to be deleted, or being stored, unless its store outlived a restart.
NoOrphans == \A l \in objects :
    \/ Named(l)
    \/ l \in tombstones
    \/ task.op \in {"put", "stored"} /\ task.letter = l
    \/ LateStore(l)

\* "never loses a ready letter" (r2-blobs.md): what a sender was told is stored
\* stays, ready, until it expires.
AckedIsKept == \A l \in acked :
    l \in over \/ \E i \in DOMAIN rows : rows[i].letter = l /\ rows[i].ready

\* "The rest is read by the next pull" and "no letter is ever unreadable"
\* (mailbox.rs): the recipient, who reads on from its newest letter, has passed
\* over none that is ready.
NothingPassedOver == \A i \in DOMAIN rows :
    rows[i].ready /\ i <= Cursor => rows[i].letter \in got

\* Rows become ready in the order of their numbers: no upload was taken up again
\* after a restart, the console stored nothing beside one, and no number was
\* freed by an expiry to be given out again.
Orderly == restarts = 0 /\ over = {} /\ acked \cap Rotations = {}

\* While that is so, whatever the bucket refuses, the recipient passes over no
\* letter.
ReadsInOrder == Orderly => NothingPassedOver

\* The objects of letters that are gone are deleted in the end.
Cleaned == \A l \in Large :
    [](l \in tombstones /\ ~Named(l) => <>(l \notin objects \/ Named(l) \/ LateStore(l)))

\* A letter its sender was told is stored reaches the recipient or expires.
Received == \A l \in Letters : l \in acked ~> (l \in got \/ ~Orderly)
=============================================================================
