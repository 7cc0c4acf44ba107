------------------------------- MODULE Inbox --------------------------------
(***************************************************************************)
(* One store's inbox for one relay (src/src/db/inbox.rs and                *)
(* src/src/cli/inbox.rs): pull keeps each new letter as a file and takes   *)
(* it into the inbox ring, open runs the letter's own command and then     *)
(* releases its slot and deletes its file, drop discards a letter.         *)
(*                                                                         *)
(* Several commands may run at once on the same store and directory.  Each *)
(* transaction, each query and each file operation is one action, and a    *)
(* command may end between any two of them: it dies, the relay does not    *)
(* answer, or a file cannot be written.  Letters are the relay's numbers   *)
(* for them, 1, 2, 3, ...                                                  *)
(***************************************************************************)
EXTENDS Ring, FiniteSets

CONSTANTS
    MaxId,     \* bound: numbers the relay gives out
    Foreign,   \* numbers that are no KeyQuorum letter of this inbox
    Manual,    \* letters that wait for a person's decision
    Edited,    \* letters whose file somebody may change
    Procs,     \* running inbox commands
    Capacity,  \* RING_CAPACITY
    PageSize,  \* letters in a page of the relay's answer
    MaxStops   \* bound: commands that end before they are done

Ids == 1 .. MaxId

ASSUME InboxAssumption ==
    /\ MaxId \in Nat
    /\ Foreign \subseteq Ids
    /\ Manual \subseteq Ids \ Foreign
    /\ Edited \subseteq Ids
    /\ Capacity \in Nat \ {0}
    /\ PageSize \in Nat \ {0}
    /\ MaxStops \in Nat

VARIABLES
    mailbox,  \* the newest number the relay has given out
    ring,     \* the row of inbox_rings
    slots,    \* the rows of inbox_slots: which letter each slot holds
    status,   \* the rows of inbox_letters: unknown, pending or handled
    timeline, \* the ring's timeline: which events each letter has had
    files,    \* what the inbox directory has of each letter: nothing, the
              \* letter whole, or a damaged one: cut short, or changed
    job,      \* what each running command is doing
    ran,      \* history: the letters whose own command had its effect
    stops     \* how many commands ended early

rows == <<ring, slots, status, timeline>>
vars == <<mailbox, rows, files, job, ran, stops>>

Statuses == {"unknown", "pending", "handled"}
Files == {"none", "whole", "damaged"}
Event(e, l) == [event |-> e, id |-> l]
Events == [event : {"LetterReceived", "LetterOpened", "LetterDropped"}, id : Ids]

\* What a pull is for: to list, to open every pending letter, or to open one.
ListThem == [does |-> "list", id |-> 0]
OpenAll == [does |-> "open", id |-> 0]
OpenOne(l) == [does |-> "open", id |-> l]
Goals == {ListThem, OpenAll} \cup {OpenOne(l) : l \in Ids}

Idle == [pc |-> "idle"]
Pulling == {"look", "known", "room", "keep", "write", "writing", "hold"}
Jobs ==
    {Idle}
    \cup [pc : Pulling, goal : Goals, at : Ids \cup {MaxId + 1}, last : 0 .. MaxId, more : BOOLEAN]
    \cup [pc : {"pulled"}, goal : Goals]
    \cup [pc : {"open"}, goal : Goals, todo : SUBSET Ids]
    \cup [pc : {"run", "opened", "delete"}, goal : Goals, todo : SUBSET Ids, id : Ids]
    \cup [pc : {"drop", "wipe"}, id : Ids]

Max0(S) == CHOOSE n \in S \cup {0} : \A m \in S : m <= n

Init ==
    /\ mailbox = 0
    /\ ring = NewRing(Capacity)
    /\ slots = << >>
    /\ status = [l \in Ids |-> "unknown"]
    /\ timeline = {}
    /\ files = [l \in Ids |-> "none"]
    /\ job = [p \in Procs |-> Idle]
    /\ ran = {}
    /\ stops = 0

-----------------------------------------------------------------------------
IsKnown(l) == status[l] # "unknown"
IsHandled(l) == status[l] = "handled"
Held == {slots[i] : i \in DOMAIN slots}
Goes(p, j) == job' = [job EXCEPT ![p] = j]

\* cursor: the newest letter known, where the next pull resumes.
Cursor == Max0({l \in Ids : IsKnown(l)})

\* Mutant: sweep deletes the file of every letter without a slot.
Swept_NotHeld == {l \in Ids : l \notin Held /\ files[l] # "none"}

\* The files sweep deletes: those of the letters handled.
Swept == {l \in Ids : IsHandled(l) /\ files[l] # "none"}

\* A delete that fails leaves its file, and the command goes on.
Sweep == \E gone \in SUBSET Swept :
    files' = [l \in Ids |-> IF l \in gone THEN "none" ELSE files[l]]

\* The relay's next page after a number, and whether there is more.
Page(after) ==
    LET last == IF after + PageSize < mailbox THEN after + PageSize ELSE mailbox
    IN  [pc |-> "look", at |-> after + 1, last |-> last, more |-> last < mailbox]

-----------------------------------------------------------------------------
\* A letter (or a number that is none of ours) reaches the relay.
Arrive ==
    /\ mailbox < MaxId
    /\ mailbox' = mailbox + 1
    /\ UNCHANGED <<rows, files, job, ran, stops>>

\* Somebody changes a letter's file.
Edit(l) ==
    /\ l \in Edited /\ files[l] = "whole"
    /\ files' = [files EXCEPT ![l] = "damaged"]
    /\ UNCHANGED <<mailbox, rows, job, ran, stops>>

\* A command ends where it is.
Stop(p) ==
    /\ stops < MaxStops
    /\ job[p] # Idle
    /\ stops' = stops + 1
    /\ Goes(p, Idle)
    /\ UNCHANGED <<mailbox, rows, files, ran>>

\* pull: sweep, read the cursor and ask for the first page after it.
Pull(p, goal) ==
    /\ job[p] = Idle
    /\ Sweep
    /\ LET page == Page(Cursor)
       IN  Goes(p, [pc |-> "look", goal |-> goal, at |-> page.at,
                    last |-> page.last, more |-> page.more])
    /\ UNCHANGED <<mailbox, rows, ran, stops>>

\* The next item of the page: skipped when it is not a letter, and the end of
\* the pull when another file has its name.
Look(p) ==
    LET j == job[p]
    IN  /\ j.pc = "look" /\ j.at <= j.last
        /\ Goes(p, IF j.at \in Foreign THEN [j EXCEPT !.at = j.at + 1]
                   ELSE IF files[j.at] = "damaged" THEN Idle
                   ELSE [j EXCEPT !.pc = "known"])
        /\ UNCHANGED <<mailbox, rows, files, ran, stops>>

CheckKnown(p) ==
    LET j == job[p]
    IN  /\ j.pc = "known"
        /\ Goes(p, IF IsKnown(j.at) THEN [j EXCEPT !.pc = "look", !.at = j.at + 1]
                   ELSE [j EXCEPT !.pc = "room"])
        /\ UNCHANGED <<mailbox, rows, files, ran, stops>>

\* A full ring ends the pull, without an error.
CheckRoom(p) ==
    LET j == job[p]
    IN  /\ j.pc = "room"
        /\ Goes(p, IF IsFull(ring) THEN [pc |-> "pulled", goal |-> j.goal]
                   ELSE [j EXCEPT !.pc = "keep"])
        /\ UNCHANGED <<mailbox, rows, files, ran, stops>>

CheckFile(p) ==
    /\ job[p].pc = "keep"
    /\ Goes(p, [job[p] EXCEPT !.pc = IF files[job[p].at] = "none" THEN "write" ELSE "hold"])
    /\ UNCHANGED <<mailbox, rows, files, ran, stops>>

\* write_new: create the file, an error if it is there by now, then write it.
Create(p) ==
    LET l == job[p].at
    IN  /\ job[p].pc = "write"
        /\ files' = [files EXCEPT ![l] = IF @ = "none" THEN "damaged" ELSE @]
        /\ Goes(p, IF files[l] = "none" THEN [job[p] EXCEPT !.pc = "writing"] ELSE Idle)
        /\ UNCHANGED <<mailbox, rows, ran, stops>>

Write(p) ==
    /\ job[p].pc = "writing"
    /\ files' = [files EXCEPT ![job[p].at] = IF @ = "none" THEN "none" ELSE "whole"]
    /\ Goes(p, [job[p] EXCEPT !.pc = "hold"])
    /\ UNCHANGED <<mailbox, rows, ran, stops>>

\* Mutant: the room checked before the file was written is taken for granted.
Hold_TrustsCheck(p) ==
    LET l == job[p].at
    IN  /\ job[p].pc = "hold"
        /\ IF l \in Held
           THEN Goes(p, Idle) /\ UNCHANGED rows
           ELSE /\ slots' = [i \in DOMAIN slots \cup {ring.write_index} |->
                                IF i = ring.write_index THEN l ELSE slots[i]]
                /\ ring' = AdvanceWrite(ring)
                /\ status' = [status EXCEPT ![l] = IF @ = "unknown" THEN "pending" ELSE @]
                /\ timeline' = timeline \cup {Event("LetterReceived", l)}
                /\ Goes(p, [job[p] EXCEPT !.pc = "look", !.at = l + 1])
        /\ UNCHANGED <<mailbox, files, ran, stops>>

\* Mutant: a letter known before is pending again.
Hold_PendingAgain(p) ==
    LET l == job[p].at
    IN  /\ job[p].pc = "hold"
        /\ IF IsFull(ring) \/ l \in Held
           THEN Goes(p, Idle) /\ UNCHANGED rows
           ELSE /\ slots' = [i \in DOMAIN slots \cup {ring.write_index} |->
                                IF i = ring.write_index THEN l ELSE slots[i]]
                /\ ring' = AdvanceWrite(ring)
                /\ status' = [status EXCEPT ![l] = "pending"]
                /\ timeline' = timeline \cup {Event("LetterReceived", l)}
                /\ Goes(p, [job[p] EXCEPT !.pc = "look", !.at = l + 1])
        /\ UNCHANGED <<mailbox, files, ran, stops>>

\* hold: slot, pointers, letter row and event in one transaction.  It fails on
\* a full ring, and on a letter that has a slot.
Hold(p) ==
    LET l == job[p].at
    IN  /\ job[p].pc = "hold"
        /\ IF IsFull(ring) \/ l \in Held
           THEN Goes(p, Idle) /\ UNCHANGED rows
           ELSE /\ slots' = [i \in DOMAIN slots \cup {ring.write_index} |->
                                IF i = ring.write_index THEN l ELSE slots[i]]
                /\ ring' = AdvanceWrite(ring)
                /\ status' = [status EXCEPT ![l] = IF @ = "unknown" THEN "pending" ELSE @]
                /\ timeline' = timeline \cup {Event("LetterReceived", l)}
                /\ Goes(p, [job[p] EXCEPT !.pc = "look", !.at = l + 1])
        /\ UNCHANGED <<mailbox, files, ran, stops>>

\* Mutant: one page is all a pull reads.
EndPage_OnePage(p) ==
    /\ job[p].pc = "look" /\ job[p].at > job[p].last
    /\ Goes(p, [pc |-> "pulled", goal |-> job[p].goal])
    /\ UNCHANGED <<mailbox, rows, files, ran, stops>>

\* The end of a page: the next one if the relay said there is more.
EndPage(p) ==
    LET j == job[p]
        page == Page(j.last)
    IN  /\ j.pc = "look" /\ j.at > j.last
        /\ Goes(p, IF j.more
                   THEN [j EXCEPT !.at = page.at, !.last = page.last, !.more = page.more]
                   ELSE [pc |-> "pulled", goal |-> j.goal])
        /\ UNCHANGED <<mailbox, rows, files, ran, stops>>

\* list is done once it has pulled; open goes on to the letters it wants.
Wanted(goal) == {l \in Ids : IF goal = OpenAll THEN status[l] = "pending"
                             ELSE goal = OpenOne(l) /\ IsKnown(l)}

EndPull(p) ==
    LET goal == job[p].goal
    IN  /\ job[p].pc = "pulled"
        /\ Goes(p, [pc |-> "open", goal |-> goal, todo |-> Wanted(goal)])
        /\ UNCHANGED <<mailbox, rows, files, ran, stops>>

EndOpen(p) ==
    /\ job[p].pc = "open" /\ job[p].todo = {}
    /\ Goes(p, Idle)
    /\ UNCHANGED <<mailbox, rows, files, ran, stops>>

-----------------------------------------------------------------------------
\* The letter whose turn it is, and the command with that one behind it.
Turn(p) == CHOOSE l \in job[p].todo : \A m \in job[p].todo : l <= m
GoesOn(p) ==
    Goes(p, [pc |-> "open", goal |-> job[p].goal, todo |-> job[p].todo \ {Turn(p)}])

\* require_unchanged: a letter with a slot must be the one pulled.
Unchanged(l) == l \in Held => files[l] = "whole"

\* Mutant: a letter passed over counts as opened.
CheckLetter_PassedIsOpened(p) ==
    /\ job[p].pc = "open" /\ job[p].todo # {}
    /\ Goes(p, [pc |-> IF Unchanged(Turn(p)) /\ Turn(p) \notin Manual THEN "run" ELSE "opened",
                goal |-> job[p].goal, id |-> Turn(p), todo |-> job[p].todo \ {Turn(p)}])
    /\ UNCHANGED <<mailbox, rows, files, ran, stops>>

\* open_letter: a changed letter, or one for a person to decide, is passed over.
CheckLetter(p) ==
    /\ job[p].pc = "open" /\ job[p].todo # {}
    /\ \/ /\ Unchanged(Turn(p))
          /\ Turn(p) \in Manual => job[p].goal = OpenOne(Turn(p))
          /\ Goes(p, [pc |-> "run", goal |-> job[p].goal, id |-> Turn(p),
                      todo |-> job[p].todo \ {Turn(p)}])
       \/ /\ ~Unchanged(Turn(p)) \/ Turn(p) \in Manual
          /\ GoesOn(p)
    /\ UNCHANGED <<mailbox, rows, files, ran, stops>>

\* The letter's own command reads the file and runs.
RunLetter(p) ==
    /\ job[p].pc = "run"
    /\ files[job[p].id] = "whole"
    /\ ran' = ran \cup {job[p].id}
    /\ Goes(p, [job[p] EXCEPT !.pc = "opened"])
    /\ UNCHANGED <<mailbox, rows, files, stops>>

\* It finds no sealed letter there, and the next letter has its turn.
CannotRun(p) ==
    /\ job[p].pc = "run"
    /\ files[job[p].id] # "whole"
    /\ Goes(p, [pc |-> "open", goal |-> job[p].goal, todo |-> job[p].todo])
    /\ UNCHANGED <<mailbox, rows, files, ran, stops>>

\* It fails for a reason of its own, before or after it had its effect.
RunFails(p) ==
    /\ job[p].pc = "run"
    /\ files[job[p].id] = "whole"
    /\ stops < MaxStops
    /\ stops' = stops + 1
    /\ ran' \in {ran, ran \cup {job[p].id}}
    /\ Goes(p, [pc |-> "open", goal |-> job[p].goal, todo |-> job[p].todo])
    /\ UNCHANGED <<mailbox, rows, files>>

\* Mutant: the letter's slot stays.
Deliver_KeepsSlot(l, e) ==
    /\ status' = [status EXCEPT ![l] = "handled"]
    /\ UNCHANGED <<ring, slots>>
    /\ timeline' = timeline \cup {Event(e, l)}

\* deliver: handled mark, released slot and event in one transaction.
Deliver(l, e) ==
    LET kept == {i \in DOMAIN slots : slots[i] # l}
    IN  /\ status' = [status EXCEPT ![l] = "handled"]
        /\ slots' = [i \in kept |-> slots[i]]
        /\ ring' = IF l \in Held THEN Release(ring, kept) ELSE ring
        /\ timeline' = timeline \cup {Event(e, l)}

\* release of a letter opened: deliver, then delete the file.
DeliverOpened(p) ==
    /\ job[p].pc = "opened"
    /\ Deliver(job[p].id, "LetterOpened")
    /\ Goes(p, [job[p] EXCEPT !.pc = "delete"])
    /\ UNCHANGED <<mailbox, files, ran, stops>>

\* remove_delivered, which may fail.
Deletes(l) == files' \in {files, [files EXCEPT ![l] = "none"]}

DeleteOpened(p) ==
    /\ job[p].pc = "delete"
    /\ Deletes(job[p].id)
    /\ Goes(p, [pc |-> "open", goal |-> job[p].goal, todo |-> job[p].todo])
    /\ UNCHANGED <<mailbox, rows, ran, stops>>

\* drop_letter: of a letter the store knows.
StartDrop(p, l) ==
    /\ job[p] = Idle
    /\ IsKnown(l)
    /\ Goes(p, [pc |-> "drop", id |-> l])
    /\ UNCHANGED <<mailbox, rows, files, ran, stops>>

DeliverDropped(p) ==
    /\ job[p].pc = "drop"
    /\ Deliver(job[p].id, "LetterDropped")
    /\ Goes(p, [job[p] EXCEPT !.pc = "wipe"])
    /\ UNCHANGED <<mailbox, files, ran, stops>>

\* Its file is deleted, if that works, and then every handled letter's file.
EndDrop(p) ==
    /\ job[p].pc = "wipe"
    /\ Sweep
    /\ Goes(p, Idle)
    /\ UNCHANGED <<mailbox, rows, ran, stops>>

Next ==
    \/ Arrive
    \/ \E l \in Ids : Edit(l)
    \/ \E p \in Procs :
        \/ Stop(p)
        \/ \E goal \in Goals : Pull(p, goal)
        \/ Look(p) \/ CheckKnown(p) \/ CheckRoom(p) \/ CheckFile(p)
        \/ Create(p) \/ Write(p) \/ Hold(p) \/ EndPage(p) \/ EndPull(p)
        \/ CheckLetter(p) \/ RunLetter(p) \/ CannotRun(p) \/ RunFails(p)
        \/ DeliverOpened(p) \/ DeleteOpened(p) \/ EndOpen(p)
        \/ \E l \in Ids : StartDrop(p, l)
        \/ DeliverDropped(p) \/ EndDrop(p)

Spec == Init /\ [][Next]_vars

\* A command that runs comes to its end.
Runs(p) ==
    \/ Look(p) \/ CheckKnown(p) \/ CheckRoom(p) \/ CheckFile(p)
    \/ Create(p) \/ Write(p) \/ Hold(p) \/ EndPage(p) \/ EndPull(p)
    \/ CheckLetter(p) \/ RunLetter(p) \/ CannotRun(p)
    \/ DeliverOpened(p) \/ DeleteOpened(p) \/ EndOpen(p)
    \/ DeliverDropped(p) \/ EndDrop(p)

\* full_note: what it tells the person whose ring is full to do.
DropHead(p) ==
    /\ IsFull(ring)
    /\ StartDrop(p, slots[ring.read_index])

\* The person keeps opening what is waiting, and heeds the note.
Fairness == \A p \in Procs :
    /\ WF_vars(Runs(p))
    /\ SF_vars(Pull(p, OpenAll))
    /\ SF_vars(DropHead(p))

FairSpec == Spec /\ Fairness

-----------------------------------------------------------------------------
\* The rows, files and commands have the values their tables, the directory
\* and the code allow.
TypeOK ==
    /\ mailbox \in 0 .. MaxId
    /\ ring \in Pointers(Capacity)
    /\ DOMAIN slots \subseteq 0 .. (Capacity - 1)
    /\ \A i \in DOMAIN slots : slots[i] \in Ids
    /\ status \in [Ids -> Statuses]
    /\ timeline \subseteq Events
    /\ files \in [Ids -> Files]
    /\ job \in [Procs -> Jobs]
    /\ ran \subseteq Ids
    /\ stops \in 0 .. MaxStops

\* However the letters leave, the span from the read to the write pointer
\* covers every slot in use, a letter has one slot at most, and a span that is
\* not empty starts at a letter: the one full_note names.
SpanCovers ==
    /\ PointersAgree(ring)
    /\ DOMAIN slots \subseteq Span(ring)
    /\ \A i, k \in DOMAIN slots : slots[i] = slots[k] => i = k
    /\ ring.size > 0 => ring.read_index \in DOMAIN slots

\* "the inbox ring that holds the unopened ones" (db/inbox.rs): a letter with
\* a slot is one the store has not handled.
HoldsUnopened == \A l \in Held : status[l] = "pending"

\* A letter the store has handled was opened by its own command, or dropped.
HandledForAReason == \A l \in Ids : IsHandled(l) =>
    \/ Event("LetterDropped", l) \in timeline
    \/ /\ Event("LetterOpened", l) \in timeline
       /\ l \in ran

\* A letter taken in through the ring has its file until it is handled: pull
\* writes it before it holds the letter, and nothing deletes it earlier.
PendingHasFile == \A l \in Ids : status[l] = "pending" => files[l] # "none"

\* The inbox takes the relay's letters in their order, leaves none out, and
\* handles each for good, whatever stops, fails or runs beside it.
Promise == INSTANCE Intake WITH
    Letters <- Ids \ Foreign,
    taken   <- Cursor,
    done    <- {l \in Ids : IsHandled(l)}

IsIntake == Promise!Spec

\* A letter not yet held whose file broke off: every pull ends in an error at
\* it, and with the pull the open that began with it.
Blocked == \E l \in Ids : ~IsKnown(l) /\ files[l] = "damaged"

\* Every letter is handled in the end, or waits for a person's decision, unless
\* its file was changed or a write broke off.
Delivered == \A l \in Ids \ Foreign :
    mailbox >= l ~>
        \/ IsHandled(l)
        \/ l \in Manual /\ IsKnown(l)
        \/ files[l] = "damaged" \/ Blocked
=============================================================================
