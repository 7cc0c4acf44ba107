------------------------------- MODULE Outbox -------------------------------
(***************************************************************************)
(* One person's outbox (src/src/outbox.rs): a bounded ring of sealed       *)
(* letters waiting to depart, oldest first.  Several commands work on it   *)
(* at once, each a process of its own on the same SQLite store.            *)
(*                                                                         *)
(* Every database transaction is one action.  A command that uses several  *)
(* transactions, or acts between two of them, is a job: push checks a      *)
(* letter, then queues it; a send claims the head, delivers it with no     *)
(* transaction open, then frees the slot; a refusal is recorded after the  *)
(* transaction that refused has rolled back.  A job may die between any    *)
(* two of its steps.                                                       *)
(***************************************************************************)
EXTENDS Ring, Sequences, FiniteSets

CONSTANTS
    Letters,         \* the letters people hand to push
    Keys,            \* public keys of the registry
    OwnerKeys,       \* the keys registered for the owner
    SealedTo,        \* SealedTo[l]: the key l's outer header names
    Defect,          \* Defect[l]: what size or passport check l fails
    NeedsStep,       \* letters of a kind that has a step in a file exchange
    Procs,           \* running commands
    Tokens,          \* the random claim tokens sends draw
    NoToken,
    DefaultCapacity, \* DEFAULT_CAPACITY
    MaxCapacity,     \* MAX_CAPACITY
    MaxRefusalsKept, \* MAX_REFUSALS_KEPT
    MaxQueued,       \* bound: letters queued in one behaviour
    MaxRefused       \* bound: refusals recorded in one behaviour

Defects == {"None", "Oversized", "NoPassport", "DeviceLetter"}
Refusals == {"Oversized", "NoPassport", "DeviceLetter", "UnrecognisedDestination",
             "OutOfOrder", "RingFull", "Tampered"}

ASSUME OutboxAssumption ==
    /\ OwnerKeys \subseteq Keys
    /\ SealedTo \in [Letters -> Keys]
    /\ Defect \in [Letters -> Defects]
    /\ NeedsStep \subseteq Letters
    /\ NoToken \notin Tokens
    /\ MaxCapacity \in Nat \ {0}
    /\ DefaultCapacity \in 1 .. MaxCapacity
    /\ MaxRefusalsKept \in Nat \ {0}
    /\ MaxQueued \in Nat
    /\ MaxRefused \in Nat

VARIABLES
    ring,       \* the row of outbox_rings, sent_total apart
    sentTotal,  \* its sent_total column
    slots,      \* the rows of outbox_slots, by slot_index
    timeline,   \* the ring's timeline (ring_events), oldest first
    refusals,   \* the rows of outbox_refusals, oldest first
    activeKeys, \* the keys of the registry that are not revoked
    relay,      \* the letters the relay, or an output directory, has
    job,        \* what each running command is doing
    accepted    \* history: every letter ever queued, in order

store == <<ring, sentTotal, slots, timeline, refusals, accepted>>
vars == <<store, activeKeys, relay, job>>

\* A slot's row.  item is the letter's place in accepted: which queueing it is.
\* fresh says the claim was taken less than CLAIM_LEASE_SECS ago; intact that
\* the content still hashes to content_hash.
Rows == [item : Nat, letter : Letters, intact : BOOLEAN,
         claim : Tokens \cup {NoToken}, fresh : BOOLEAN]

\* The events of a timeline.  A letter that was refused has no item.
Events == [event : {"LetterQueued", "LetterSent", "LetterDropped"}, item : Nat]
            \cup [event : {"LetterRefused"}, rule : Refusals]

Idle == [pc |-> "idle"]
Sending == {"claimed", "delivered", "failed"}
Jobs == {Idle}
    \cup [pc : {"checked"}, letter : Letters]
    \cup [pc : {"refused"}, rule : Refusals]
    \cup [pc : Sending, item : Nat, letter : Letters, token : Tokens]

Init ==
    /\ ring = NewRing(DefaultCapacity)
    /\ sentTotal = 0
    /\ slots = << >>
    /\ timeline = << >>
    /\ refusals = << >>
    /\ activeKeys \in SUBSET Keys
    /\ relay = {}
    /\ job = [p \in Procs |-> Idle]
    /\ accepted = << >>

-----------------------------------------------------------------------------
RequireOwner == OwnerKeys \cap activeKeys # {}

IsTrusted(l) == SealedTo[l] \in activeKeys

\* Mutant: the newest letter is taken first.
HeadSlot_Newest == SlotAt(ring, ring.size - 1)

HeadSlot == ring.read_index
IsEmpty == ring.size = 0

\* Mutant: a claim never lapses.
FreshlyClaimed_NoLease == slots[HeadSlot].claim # NoToken

FreshlyClaimed == slots[HeadSlot].claim # NoToken /\ slots[HeadSlot].fresh

Record(e) == timeline' = Append(timeline, e)

\* Where the events of a kind stand on a timeline, and the items they name.
Entries(tl, kind) == {k \in DOMAIN tl : tl[k].event = kind}
Named(tl, kind) == {tl[k].item : k \in Entries(tl, kind)}

\* Mutant: the size and the passport go unchecked.
DepartureCheck_NoPassport(l, inOrder) ==
    IF ~IsTrusted(l) THEN "UnrecognisedDestination"
    ELSE IF l \in NeedsStep /\ ~inOrder THEN "OutOfOrder"
    ELSE "None"

\* departure_check: size, passport, destination, then the exchange step, which
\* inOrder says the owner's copy of the file shows.
DepartureCheck(l, inOrder) ==
    IF Defect[l] # "None" THEN Defect[l]
    ELSE IF ~IsTrusted(l) THEN "UnrecognisedDestination"
    ELSE IF l \in NeedsStep /\ ~inOrder THEN "OutOfOrder"
    ELSE "None"

\* What the gate finds when the head is about to leave.
GateCheck(row) ==
    IF ~row.intact THEN "Tampered"
    ELSE IF Defect[row.letter] \in {"NoPassport", "DeviceLetter"} THEN Defect[row.letter]
    ELSE IF ~IsTrusted(row.letter) THEN "UnrecognisedDestination"
    ELSE "None"

\* push, up to the departure check, which reads the store in no transaction.
Push(p, l, inOrder) ==
    /\ job[p] = Idle
    /\ RequireOwner
    /\ LET verdict == DepartureCheck(l, inOrder)
       IN  job' = [job EXCEPT ![p] =
                     IF verdict = "None" THEN [pc |-> "checked", letter |-> l]
                     ELSE [pc |-> "refused", rule |-> verdict]]
    /\ UNCHANGED <<store, activeKeys, relay>>

\* queue: write the checked letter at the write pointer, or find the ring full.
Queue(p) ==
    /\ job[p].pc = "checked"
    /\ Len(accepted) < MaxQueued
    /\ ~IsFull(ring)
    /\ slots' = [i \in DOMAIN slots \cup {ring.write_index} |->
                    IF i = ring.write_index
                    THEN [item |-> Len(accepted) + 1, letter |-> job[p].letter,
                          intact |-> TRUE, claim |-> NoToken, fresh |-> FALSE]
                    ELSE slots[i]]
    /\ ring' = AdvanceWrite(ring)
    /\ accepted' = Append(accepted, job[p].letter)
    /\ Record([event |-> "LetterQueued", item |-> Len(accepted) + 1])
    /\ job' = [job EXCEPT ![p] = Idle]
    /\ UNCHANGED <<sentTotal, refusals, activeKeys, relay>>

QueueFull(p) ==
    /\ job[p].pc = "checked"
    /\ IsFull(ring)
    /\ job' = [job EXCEPT ![p] = [pc |-> "refused", rule |-> "RingFull"]]
    /\ UNCHANGED <<store, activeKeys, relay>>

\* Mutant: the oldest rows stay.
Newest_KeepsOldest(s) ==
    SubSeq(s, 1, IF Len(s) > MaxRefusalsKept THEN MaxRefusalsKept ELSE Len(s))

Newest(s) ==
    SubSeq(s, IF Len(s) > MaxRefusalsKept THEN Len(s) - MaxRefusalsKept + 1 ELSE 1, Len(s))

\* record_refusal: the timeline's event and the refusal row, then only the
\* newest MaxRefusalsKept rows stay.
RecordRefusal(p) ==
    /\ job[p].pc = "refused"
    /\ Cardinality(Entries(timeline, "LetterRefused")) < MaxRefused
    /\ Record([event |-> "LetterRefused", rule |-> job[p].rule])
    /\ refusals' = Newest(Append(refusals, job[p].rule))
    /\ job' = [job EXCEPT ![p] = Idle]
    /\ UNCHANGED <<ring, sentTotal, slots, accepted, activeKeys, relay>>

-----------------------------------------------------------------------------
\* send_head, first transaction: claim the head.  A send that takes over
\* ignores another send's fresh claim.  A refusal rolls back.
MayTake(takeOver) == ~IsEmpty /\ (takeOver \/ ~FreshlyClaimed)

UnusedTokens ==
    Tokens \ ({slots[i].claim : i \in DOMAIN slots}
                \cup {job[p].token : p \in {q \in Procs : job[q].pc \in Sending}})

Claim(p, takeOver) ==
    /\ job[p] = Idle
    /\ MayTake(takeOver)
    /\ LET row == slots[HeadSlot]
       IN  IF GateCheck(row) = "None"
           THEN \E t \in UnusedTokens :
                   /\ slots' = [slots EXCEPT ![HeadSlot] = [row EXCEPT !.claim = t, !.fresh = TRUE]]
                   /\ job' = [job EXCEPT ![p] =
                                [pc |-> "claimed", item |-> row.item,
                                 letter |-> row.letter, token |-> t]]
           ELSE /\ job' = [job EXCEPT ![p] = [pc |-> "refused", rule |-> GateCheck(row)]]
                /\ UNCHANGED slots
    /\ UNCHANGED <<ring, sentTotal, timeline, refusals, accepted, activeKeys, relay>>

\* deliver, which runs with no transaction open.  The relay keeps one copy per
\* recipient and content; a failed upload may still have arrived.
Deliver(p) ==
    /\ job[p].pc = "claimed"
    /\ relay' = relay \cup {job[p].letter}
    /\ job' = [job EXCEPT ![p].pc = "delivered"]
    /\ UNCHANGED <<store, activeKeys>>

DeliverFails(p) ==
    /\ job[p].pc = "claimed"
    /\ relay' \in {relay, relay \cup {job[p].letter}}
    /\ job' = [job EXCEPT ![p].pc = "failed"]
    /\ UNCHANGED <<store, activeKeys>>

\* release_head: wipe and free the slot at the read pointer.
ReleaseHead ==
    /\ slots' = [i \in DOMAIN slots \ {HeadSlot} |-> slots[i]]
    /\ ring' = Release(ring, DOMAIN slots \ {HeadSlot})

\* Mutant: the head is freed whoever claimed it.
StillOurs_AnyHead(p) == ~IsEmpty

\* send_head, last transaction: free the slot if the head still carries this
\* send's claim.
StillOurs(p) == ~IsEmpty /\ slots[HeadSlot].claim = job[p].token

\* Mutant: the slot is freed before the letter was handed over.
Free_BeforeDelivery(p) ==
    /\ job[p].pc \in {"claimed", "delivered"}
    /\ StillOurs(p)
    /\ ReleaseHead
    /\ sentTotal' = sentTotal + 1
    /\ Record([event |-> "LetterSent", item |-> job[p].item])
    /\ job' = [job EXCEPT ![p] = Idle]
    /\ UNCHANGED <<refusals, accepted, activeKeys, relay>>

Free(p) ==
    /\ job[p].pc = "delivered"
    /\ IF StillOurs(p)
       THEN /\ ReleaseHead
            /\ sentTotal' = sentTotal + 1
            /\ Record([event |-> "LetterSent", item |-> job[p].item])
       ELSE UNCHANGED <<ring, slots, sentTotal, timeline>>
    /\ job' = [job EXCEPT ![p] = Idle]
    /\ UNCHANGED <<refusals, accepted, activeKeys, relay>>

FreeFails(p) ==
    /\ job[p].pc = "delivered"
    /\ job' = [job EXCEPT ![p].pc = "failed"]
    /\ UNCHANGED <<store, activeKeys, relay>>

\* unclaim: after any failure, clear this send's claim wherever it stands.
Unclaim(p) ==
    /\ job[p].pc = "failed"
    /\ slots' = [i \in DOMAIN slots |->
                    IF slots[i].claim = job[p].token
                    THEN [slots[i] EXCEPT !.claim = NoToken, !.fresh = FALSE]
                    ELSE slots[i]]
    /\ job' = [job EXCEPT ![p] = Idle]
    /\ UNCHANGED <<ring, sentTotal, timeline, refusals, accepted, activeKeys, relay>>

\* Mutant: a dropped letter goes on the timeline as sent.
Drop_AsSent(takeOver) ==
    /\ MayTake(takeOver)
    /\ ReleaseHead
    /\ Record([event |-> "LetterSent", item |-> slots[HeadSlot].item])
    /\ UNCHANGED <<sentTotal, refusals, accepted, activeKeys, relay, job>>

\* drop_head: discard the head unsent, in one transaction.
Drop(takeOver) ==
    /\ MayTake(takeOver)
    /\ ReleaseHead
    /\ Record([event |-> "LetterDropped", item |-> slots[HeadSlot].item])
    /\ UNCHANGED <<sentTotal, refusals, accepted, activeKeys, relay, job>>

\* set_capacity.
SetCapacity(c) ==
    /\ RequireOwner
    /\ CanResize(ring)
    /\ ring' = Resize(ring, c)
    /\ UNCHANGED <<sentTotal, slots, timeline, refusals, accepted, activeKeys, relay, job>>

-----------------------------------------------------------------------------
\* A command dies, or its last transaction fails: what it knew is lost, what
\* it wrote stays.
Crash(p) ==
    /\ job[p] # Idle
    /\ job' = [job EXCEPT ![p] = Idle]
    /\ UNCHANGED <<store, activeKeys, relay>>

\* CLAIM_LEASE_SECS pass since the head was claimed, whoever claimed it.
Lapse ==
    /\ ~IsEmpty
    /\ FreshlyClaimed
    /\ slots' = [slots EXCEPT ![HeadSlot].fresh = FALSE]
    /\ UNCHANGED <<ring, sentTotal, timeline, refusals, accepted, activeKeys, relay, job>>

\* keys::register_key, revoke_key and unrevoke_key.
RegisterKey(k) ==
    /\ k \notin activeKeys
    /\ activeKeys' = activeKeys \cup {k}
    /\ UNCHANGED <<store, relay, job>>

RevokeKey(k) ==
    /\ k \in activeKeys
    /\ activeKeys' = activeKeys \ {k}
    /\ UNCHANGED <<store, relay, job>>

\* A held letter's bytes change in the store.
Corrupt(i) ==
    /\ slots[i].intact
    /\ slots' = [slots EXCEPT ![i].intact = FALSE]
    /\ UNCHANGED <<ring, sentTotal, timeline, refusals, accepted, activeKeys, relay, job>>

Next ==
    \/ \E p \in Procs :
          \/ \E l \in Letters, inOrder \in BOOLEAN : Push(p, l, inOrder)
          \/ Queue(p)
          \/ QueueFull(p)
          \/ RecordRefusal(p)
          \/ \E takeOver \in BOOLEAN : Claim(p, takeOver)
          \/ Deliver(p)
          \/ DeliverFails(p)
          \/ Free(p)
          \/ FreeFails(p)
          \/ Unclaim(p)
          \/ Crash(p)
    \/ \E takeOver \in BOOLEAN : Drop(takeOver)
    \/ \E c \in 1 .. MaxCapacity : SetCapacity(c)
    \/ Lapse
    \/ \E k \in Keys : RegisterKey(k) \/ RevokeKey(k)
    \/ \E i \in DOMAIN slots : Corrupt(i)

Spec == Init /\ [][Next]_vars

-----------------------------------------------------------------------------
TypeOK ==
    /\ ring \in Pointers(MaxCapacity)
    /\ sentTotal \in Nat
    /\ DOMAIN slots \subseteq 0 .. (MaxCapacity - 1)
    /\ slots \in [DOMAIN slots -> Rows]
    /\ timeline \in Seq(Events)
    /\ refusals \in Seq(Refusals)
    /\ activeKeys \subseteq Keys
    /\ relay \subseteq Letters
    /\ job \in [Procs -> Jobs]
    /\ accepted \in Seq(Letters)

\* The ring's columns agree with each other, and because only the head is ever
\* released the span is exactly the slots that hold a letter: queue never writes
\* over a held letter, and send_head, drop_head and list always find one where
\* the pointers say.
SpanIsHeld ==
    /\ PointersAgree(ring)
    /\ DOMAIN slots = Span(ring)

\* "Order is kept and nothing is lost": whatever sends, drops, failures and
\* crashes did, the ring holds the letters queued last, in the order they were
\* queued, and each still has the content it was queued with.
FirstInFirstOut ==
    \A k \in 0 .. (ring.size - 1) :
        LET row == slots[SlotAt(ring, k)]
        IN  /\ row.item = Len(accepted) - ring.size + 1 + k
            /\ row.letter = accepted[row.item]

\* Every letter that is no longer in the ring left it exactly once, as sent or
\* as dropped, however many sends worked on it, and sent_total is the number of
\* letters that left as sent.
LeftOnce ==
    /\ Named(timeline, "LetterSent") \cup Named(timeline, "LetterDropped") = 1 .. (Len(accepted) - ring.size)
    /\ \A j, k \in Entries(timeline, "LetterSent") \cup Entries(timeline, "LetterDropped") :
          timeline[j].item = timeline[k].item => j = k
    /\ sentTotal = Cardinality(Entries(timeline, "LetterSent"))

\* A slot is freed as sent only once its letter was delivered, by the send that
\* frees it: a claim that lapsed, was taken over or was left by a crash never
\* lets a send free a letter that it did not deliver.
SentWasDelivered == \A i \in Named(timeline, "LetterSent") : accepted[i] \in relay

\* A send in flight carries the letter at the head, or one that left the ring
\* while it was delivering: no send ever gets ahead of an older letter that is
\* still waiting.
NoOvertaking ==
    \A p \in Procs :
        job[p].pc \in Sending => job[p].item <= Len(accepted) - ring.size + 1

\* What a send in flight knows stays true: its letter is the one queued under
\* its item, a slot that carries its claim holds that very item, and once it is
\* past its delivery the letter has arrived.
SendsKnowTheirItem ==
    \A p \in Procs :
        job[p].pc \in Sending =>
            /\ job[p].item \in 1 .. Len(accepted)
            /\ job[p].letter = accepted[job[p].item]
            /\ \A i \in DOMAIN slots :
                  slots[i].claim = job[p].token => slots[i].item = job[p].item
            /\ job[p].pc = "delivered" => job[p].letter \in relay

\* The invariant the theorems rest on.
IndInv ==
    /\ TypeOK
    /\ SpanIsHeld
    /\ ring.size <= Len(accepted)
    /\ FirstInFirstOut
    /\ LeftOnce
    /\ SentWasDelivered
    /\ NoOvertaking
    /\ SendsKnowTheirItem

\* Only a whole letter between people is ever queued or delivered, however it
\* is retried: push refuses the rest before they take a slot.
OnlyFitLetters ==
    \A l \in relay \cup {slots[i].letter : i \in DOMAIN slots} : Defect[l] = "None"

\* outbox_refusals keeps exactly the newest refusals of the timeline.
RefusalsAreNewest ==
    LET Refused(e) == e.event = "LetterRefused"
        log == SelectSeq(timeline, Refused)
    IN  /\ Len(refusals) <= MaxRefusalsKept
        /\ Len(refusals) = Len(log) \/ Len(refusals) = MaxRefusalsKept
        /\ \A k \in 1 .. Len(refusals) :
               refusals[k] = log[Len(log) - Len(refusals) + k].rule

-----------------------------------------------------------------------------
\* Every command ends: it goes on to its next step or it dies.  Someone keeps
\* running outbox send (strong fairness: Procs bounds how many commands run at
\* once, the code does not).  A claim lapses.  A delivery takes less than the lease
\* (CLAIM_LEASE_SECS is longer than the relay client's timeout), and not every
\* one fails, so a send that keeps trying delivers, and frees, while the head
\* still carries its claim.
Ends(p) ==
    \/ Queue(p) \/ QueueFull(p) \/ RecordRefusal(p)
    \/ Deliver(p) \/ DeliverFails(p) \/ Free(p) \/ Unclaim(p) \/ Crash(p)

Fairness ==
    /\ \A p \in Procs : WF_vars(Ends(p))
    /\ SF_vars(\E p \in Procs : Claim(p, FALSE))
    /\ WF_vars(Lapse)
    /\ SF_vars(\E p \in Procs : Deliver(p) /\ StillOurs(p))
    /\ SF_vars(\E p \in Procs : Free(p) /\ StillOurs(p))

LiveSpec == Spec /\ Fairness

\* A crashed send leaves a claim that lapses and a failed send moves nothing,
\* so no letter waits for ever while someone sends, unless the letter at the
\* head is one the gate refuses.
Drains ==
    \A i \in 1 .. MaxQueued :
        i <= Len(accepted) ~>
            \/ i <= Len(accepted) - ring.size
            \/ ~IsEmpty /\ GateCheck(slots[HeadSlot]) # "None"

\* The letters in the ring, oldest first: what list returns.
Waiting == [k \in 1 .. ring.size |-> slots[SlotAt(ring, k - 1)].item]

\* The outbox is a queue of letters: order, departure after delivery and
\* harmless repeats survive claims, lapses, take-overs and crashes.
Promise == INSTANCE MailQueue WITH
    queue <- Waiting,
    sent <- Named(timeline, "LetterSent"),
    dropped <- Named(timeline, "LetterDropped"),
    delivered <- relay

IsMailQueue == Promise!Spec
=============================================================================
