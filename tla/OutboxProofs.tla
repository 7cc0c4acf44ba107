---------------------------- MODULE OutboxProofs ----------------------------
(***************************************************************************)
(* Theorems about Outbox, for every set of letters, keys and commands and  *)
(* every capacity.  They rest on Outbox!IndInv, whose parts are kept       *)
(* together: where the ring's rows stand, what the timeline says left, and *)
(* what each send in flight knows.                                         *)
(***************************************************************************)
EXTENDS Outbox, RingProofs, FiniteSetTheorems, TLAPS

\* The part of IndInv that speaks of the store and the relay.
Shape ==
    /\ SpanIsHeld
    /\ ring.size <= Len(accepted)
    /\ FirstInFirstOut
    /\ LeftOnce
    /\ SentWasDelivered

-----------------------------------------------------------------------------
\* What a job knows at each of its steps.
LEMMA JobFields ==
    ASSUME TypeOK, NEW p \in Procs
    PROVE  /\ job[p].pc = "checked" => job[p].letter \in Letters
           /\ job[p].pc = "refused" => job[p].rule \in Refusals
           /\ job[p].pc \in Sending => /\ job[p].item \in Nat
                                       /\ job[p].letter \in Letters
                                       /\ job[p].token \in Tokens
                                       /\ job[p] \in [pc : Sending, item : Nat,
                                                      letter : Letters, token : Tokens]
<1>1. job[p] \in Jobs
  BY DEF TypeOK
<1>2. CASE job[p] = Idle
  BY <1>2 DEF Idle, Sending
<1>3. CASE job[p] \in [pc : {"checked"}, letter : Letters]
  BY <1>3 DEF Sending
<1>4. CASE job[p] \in [pc : {"refused"}, rule : Refusals]
  BY <1>4 DEF Sending
<1>5. CASE job[p] \in [pc : Sending, item : Nat, letter : Letters, token : Tokens]
  BY <1>5 DEF Sending
<1>. QED
  BY <1>1, <1>2, <1>3, <1>4, <1>5 DEF Jobs

\* t is the timeline tl with the event e put on it at n.
Extended(t, tl, e, n) ==
    /\ n \notin DOMAIN tl
    /\ DOMAIN t = DOMAIN tl \cup {n}
    /\ \A k \in DOMAIN tl : t[k] = tl[k]
    /\ t[n] = e

\* That is what recording an event does.
LEMMA RecordExtends ==
    ASSUME NEW tl \in Seq(Events), NEW e \in Events
    PROVE  /\ Append(tl, e) \in Seq(Events)
           /\ Extended(Append(tl, e), tl, e, Len(tl) + 1)
<1>. DEFINE t == Append(tl, e)
<1>1. /\ DOMAIN tl = 1 .. Len(tl)
      /\ DOMAIN t = 1 .. Len(tl) + 1
      /\ Len(tl) \in Nat
      /\ t \in Seq(Events)
      /\ \A k \in DOMAIN tl : t[k] = tl[k]
      /\ t[Len(tl) + 1] = e
  OBVIOUS
<1>. HIDE DEF t
<1>2. DOMAIN t = DOMAIN tl \cup {Len(tl) + 1} /\ Len(tl) + 1 \notin DOMAIN tl
  BY <1>1
<1>3. t \in Seq(Events) /\ Extended(t, tl, e, Len(tl) + 1)
  BY <1>1, <1>2 DEF Extended
<1>. QED
  BY <1>3 DEF t

\* What an event adds to the events of its kind, and to the items they name.
LEMMA EntriesGrow ==
    ASSUME NEW t, NEW tl, NEW e, NEW n, Extended(t, tl, e, n)
    PROVE  Entries(t, e.event) = Entries(tl, e.event) \cup {n}
BY DEF Entries, Extended

LEMMA NamedGrow ==
    ASSUME NEW t, NEW tl, NEW e, NEW n, Extended(t, tl, e, n)
    PROVE  Named(t, e.event) = Named(tl, e.event) \cup {e.item}
<1>1. Entries(t, e.event) = Entries(tl, e.event) \cup {n}
  BY EntriesGrow
<1>2. /\ \A k \in Entries(tl, e.event) : t[k] = tl[k]
      /\ t[n] = e
  BY DEF Entries, Extended
<1>. QED
  BY <1>1, <1>2 DEF Named

\* It adds nothing to the others.
LEMMA EntriesStay ==
    ASSUME NEW t, NEW tl, NEW e, NEW n, Extended(t, tl, e, n), NEW kind, e.event # kind
    PROVE  Entries(t, kind) = Entries(tl, kind)
BY DEF Entries, Extended

LEMMA NamedStay ==
    ASSUME NEW t, NEW tl, NEW e, NEW n, Extended(t, tl, e, n), NEW kind, e.event # kind
    PROVE  Named(t, kind) = Named(tl, kind)
<1>1. Entries(t, kind) = Entries(tl, kind)
  BY EntriesStay
<1>2. \A k \in Entries(tl, kind) : t[k] = tl[k]
  BY DEF Entries, Extended
<1>. QED
  BY <1>1, <1>2 DEF Named

\* The events of a kind are finitely many.
LEMMA EntriesFinite ==
    ASSUME NEW tl \in Seq(Events), NEW kind
    PROVE  IsFiniteSet(Entries(tl, kind))
<1>1. Len(tl) \in Nat /\ DOMAIN tl = 1 .. Len(tl)
  OBVIOUS
<1>2. IsFiniteSet(1 .. Len(tl))
  BY <1>1, FS_Interval
<1>3. Entries(tl, kind) \subseteq 1 .. Len(tl)
  BY <1>1 DEF Entries
<1>. QED
  BY <1>2, <1>3, FS_Subset

-----------------------------------------------------------------------------
\* A step that moves no pointer, logs no departure and takes no letter back
\* from the relay keeps Shape, whatever it does to the claims.
LEMMA ShapeKept ==
    ASSUME Shape, relay \subseteq relay',
           UNCHANGED <<ring, sentTotal, timeline, accepted>>,
           DOMAIN slots' = DOMAIN slots,
           \A i \in DOMAIN slots : /\ slots'[i].item = slots[i].item
                                   /\ slots'[i].letter = slots[i].letter
    PROVE  Shape'
<1>1. SpanIsHeld' /\ (ring.size <= Len(accepted))'
  BY DEF Shape, SpanIsHeld
<1>2. FirstInFirstOut'
  BY DEF Shape, SpanIsHeld, Span, FirstInFirstOut
<1>3. LeftOnce' /\ SentWasDelivered'
  BY DEF Shape, LeftOnce, SentWasDelivered
<1>. QED
  BY <1>1, <1>2, <1>3 DEF Shape

\* The head leaves the ring, as sent once the relay has it or as dropped.
Departs(kind) ==
    /\ ~IsEmpty
    /\ ReleaseHead
    /\ UNCHANGED <<accepted, relay>>
    /\ timeline' = Append(timeline, [event |-> kind, item |-> slots[HeadSlot].item])
    /\ sentTotal' = IF kind = "LetterSent" THEN sentTotal + 1 ELSE sentTotal
    /\ kind = "LetterSent" => slots[HeadSlot].letter \in relay

LEMMA ShapeHeadLeaves ==
    ASSUME TypeOK, Shape, NEW kind \in {"LetterSent", "LetterDropped"}, Departs(kind)
    PROVE  /\ Shape'
           /\ ring' \in Pointers(MaxCapacity)
           /\ timeline' \in Seq(Events)
           /\ sentTotal' \in Nat
           /\ ring'.size = ring.size - 1
           /\ DOMAIN slots' \subseteq DOMAIN slots
           /\ \A i \in DOMAIN slots' : slots'[i] = slots[i]
<1>. DEFINE gone == Len(accepted) - ring.size
            e == [event |-> kind, item |-> slots[HeadSlot].item]
<1>1. /\ ring.size \in Nat
      /\ ring.size # 0
      /\ Len(accepted) \in Nat
      /\ ring.size <= Len(accepted)
      /\ MaxCapacity \in Nat
  BY OutboxAssumption DEF TypeOK, Pointers, IsEmpty, Shape, Departs
<1>2. /\ ring' \in Pointers(MaxCapacity)
      /\ PointersAgree(ring')
      /\ ring'.size = ring.size - 1
      /\ \A k \in 0 .. (ring.size - 1) : SlotAt(ring', k) = SlotAt(ring, k + 1)
      /\ HeadSlot = SlotAt(ring, 0)
      /\ HeadSlot \in Span(ring)
      /\ Span(ring') = Span(ring) \ {HeadSlot}
  BY <1>1, ReleaseHeadFacts, Zenon DEF TypeOK, Shape, SpanIsHeld, Departs, ReleaseHead, HeadSlot
<1>21. ring'.size = ring.size - 1
  BY <1>2
<1>22. accepted' = accepted /\ relay' = relay
  BY DEF Departs
<1>3. /\ DOMAIN slots' = DOMAIN slots \ {HeadSlot}
      /\ \A i \in DOMAIN slots' : slots'[i] = slots[i]
  BY DEF Departs, ReleaseHead
<1>4. SpanIsHeld'
  BY <1>2, <1>3 DEF Shape, SpanIsHeld
<1>5. FirstInFirstOut'
  <2>1. SUFFICES ASSUME NEW k \in 0 .. (ring'.size - 1)
                 PROVE  LET row == slots'[SlotAt(ring', k)]
                        IN  /\ row.item = Len(accepted') - ring'.size + 1 + k
                            /\ row.letter = accepted'[row.item]
    BY DEF FirstInFirstOut
  <2>2. /\ k \in 0 .. (ring.size - 1)
        /\ k + 1 \in 0 .. (ring.size - 1)
    BY <1>1, <1>2
  <2>3. SlotAt(ring', k) \in DOMAIN slots'
    BY <1>4 DEF SpanIsHeld, Span
  <2>4. slots'[SlotAt(ring', k)] = slots[SlotAt(ring, k + 1)]
    BY <1>2, <1>3, <2>2, <2>3
  <2>5. /\ slots[SlotAt(ring, k + 1)].item = Len(accepted) - ring.size + 1 + (k + 1)
        /\ slots[SlotAt(ring, k + 1)].letter = accepted[slots[SlotAt(ring, k + 1)].item]
    BY <2>2 DEF Shape, FirstInFirstOut
  <2>6. Len(accepted) - ring.size + 1 + (k + 1) = Len(accepted') - ring'.size + 1 + k
    <3>1. k \in Nat
      BY <2>2
    <3>. QED
      BY <1>1, <1>21, <1>22, <3>1, SMTT(30)
  <2>. QED
    BY <1>22, <2>4, <2>5, <2>6
<1>6. /\ slots[HeadSlot].item = gone + 1
      /\ slots[HeadSlot].letter = accepted[gone + 1]
      /\ gone \in Nat
  <2>1. 0 \in 0 .. (ring.size - 1)
    BY <1>1
  <2>2. /\ slots[HeadSlot].item = Len(accepted) - ring.size + 1 + 0
        /\ slots[HeadSlot].letter = accepted[slots[HeadSlot].item]
    BY <1>2, <2>1 DEF Shape, FirstInFirstOut
  <2>. QED
    BY <1>1, <2>2
<1>7. e \in Events /\ e.event = kind /\ e.item = gone + 1
  BY <1>6 DEF Events
<1>. HIDE DEF gone, e
<1>8. /\ timeline \in Seq(Events)
      /\ timeline' \in Seq(Events)
      /\ Extended(timeline', timeline, e, Len(timeline) + 1)
  <2>1. timeline \in Seq(Events) /\ timeline' = Append(timeline, e)
    BY DEF TypeOK, Departs, e
  <2>. QED
    BY <1>7, <2>1, RecordExtends
<1>9. LeftOnce'
  <2>. DEFINE S == Entries(timeline, "LetterSent")
              D == Entries(timeline, "LetterDropped")
              new == Len(timeline) + 1
  <2>0. Extended(timeline', timeline, e, new)
    BY <1>8
  <2>. HIDE DEF new
  <2>1. /\ \A k \in DOMAIN timeline : timeline'[k] = timeline[k]
        /\ timeline'[new] = e
        /\ new \notin DOMAIN timeline
    BY <2>0 DEF Extended
  <2>2. /\ Named(timeline', "LetterSent") \cup Named(timeline', "LetterDropped")
             = Named(timeline, "LetterSent") \cup Named(timeline, "LetterDropped") \cup {e.item}
        /\ Entries(timeline', "LetterSent") = IF kind = "LetterSent" THEN S \cup {new} ELSE S
        /\ Entries(timeline', "LetterDropped") = IF kind = "LetterSent" THEN D ELSE D \cup {new}
    <3>1. CASE kind = "LetterSent"
      BY <1>7, <2>0, <3>1, EntriesGrow, EntriesStay, NamedGrow, NamedStay, SMTT(30)
    <3>2. CASE kind = "LetterDropped"
      BY <1>7, <2>0, <3>2, EntriesGrow, EntriesStay, NamedGrow, NamedStay, SMTT(30)
    <3>. QED
      BY <3>1, <3>2
  <2>3. Named(timeline', "LetterSent") \cup Named(timeline', "LetterDropped")
          = 1 .. (Len(accepted') - ring'.size)
    <3>1. Named(timeline, "LetterSent") \cup Named(timeline, "LetterDropped") = 1 .. gone
      BY DEF Shape, LeftOnce, gone
    <3>2. (1 .. gone) \cup {gone + 1} = 1 .. gone + 1
      BY <1>6
    <3>3. Len(accepted') - ring'.size = gone + 1
      BY <1>1, <1>21, <1>22 DEF gone
    <3>. QED
      BY <1>7, <2>2, <3>1, <3>2, <3>3
  <2>4. \A j \in S \cup D : j \in DOMAIN timeline /\ timeline[j].item \in 1 .. gone
    BY DEF Shape, LeftOnce, Named, Entries, gone
  <2>5. \A j, k \in S \cup D \cup {new} : timeline'[j].item = timeline'[k].item => j = k
    <3>1. \A j \in S \cup D : timeline'[j].item \in 1 .. gone
      BY <2>1, <2>4
    <3>2. timeline'[new].item \notin 1 .. gone
      BY <1>6, <1>7, <2>1
    <3>3. \A j, k \in S \cup D : timeline'[j].item = timeline'[k].item => j = k
      BY <2>1, <2>4 DEF Shape, LeftOnce
    <3>. QED
      BY <3>1, <3>2, <3>3
  <2>6. sentTotal' = Cardinality(Entries(timeline', "LetterSent"))
    <3>1. IsFiniteSet(S)
      BY <1>8, EntriesFinite
    <3>2. Cardinality(S \cup {new}) = Cardinality(S) + 1
      BY <2>1, <2>4, <3>1, FS_AddElement, Zenon
    <3>. QED
      BY <2>2, <3>2 DEF Shape, LeftOnce, Departs
  <2>. QED
    BY <2>2, <2>3, <2>5, <2>6 DEF LeftOnce
<1>10. SentWasDelivered'
  <2>1. CASE kind = "LetterSent"
    <3>1. Named(timeline', "LetterSent") = Named(timeline, "LetterSent") \cup {gone + 1}
      BY <1>7, <1>8, <2>1, NamedGrow
    <3>2. accepted[gone + 1] \in relay
      BY <1>6, <2>1 DEF Departs
    <3>. QED
      BY <1>22, <3>1, <3>2 DEF Shape, SentWasDelivered
  <2>2. CASE kind = "LetterDropped"
    <3>1. Named(timeline', "LetterSent") = Named(timeline, "LetterSent")
      BY <1>7, <1>8, <2>2, NamedStay
    <3>. QED
      BY <1>22, <3>1 DEF Shape, SentWasDelivered
  <2>. QED
    BY <2>1, <2>2
<1>11. timeline' \in Seq(Events) /\ sentTotal' \in Nat
  BY <1>8 DEF TypeOK, Departs
<1>12. (ring.size <= Len(accepted))'
  BY <1>1, <1>21, <1>22
<1>. QED
  BY <1>2, <1>3, <1>4, <1>5, <1>9, <1>10, <1>11, <1>12, SMTT(30) DEF Shape

\* An event that is no departure leaves the account of departures as it is.
LEMMA LogKept ==
    ASSUME LeftOnce, NEW e, NEW n, Extended(timeline', timeline, e, n),
           e.event \notin {"LetterSent", "LetterDropped"},
           sentTotal' = sentTotal,
           Len(accepted') - ring'.size = Len(accepted) - ring.size
    PROVE  LeftOnce' /\ Named(timeline', "LetterSent") = Named(timeline, "LetterSent")
<1>. DEFINE S == Entries(timeline, "LetterSent")
            D == Entries(timeline, "LetterDropped")
<1>1. /\ Entries(timeline', "LetterSent") = S
      /\ Entries(timeline', "LetterDropped") = D
      /\ Named(timeline', "LetterSent") = Named(timeline, "LetterSent")
      /\ Named(timeline', "LetterDropped") = Named(timeline, "LetterDropped")
  BY EntriesStay, NamedStay
<1>2. \A j \in S \cup D : timeline'[j] = timeline[j]
  BY DEF Entries, Extended
<1>3. \A j, k \in S \cup D : timeline'[j].item = timeline'[k].item => j = k
  BY <1>2 DEF LeftOnce
<1>. QED
  BY <1>1, <1>3 DEF LeftOnce

\* A refusal is recorded, and no letter moves.
LEMMA ShapeRefusal ==
    ASSUME TypeOK, Shape, NEW p \in Procs, RecordRefusal(p)
    PROVE  Shape' /\ timeline' \in Seq(Events)
<1>. DEFINE e == [event |-> "LetterRefused", rule |-> job[p].rule]
<1>1. job[p].rule \in Refusals
  <2>1. job[p].pc = "refused"
    BY DEF RecordRefusal
  <2>. QED
    BY <2>1, JobFields
<1>2. e \in Events /\ e.event = "LetterRefused"
  BY <1>1 DEF Events
<1>3. timeline' = Append(timeline, e) /\ timeline \in Seq(Events)
  BY DEF RecordRefusal, Record, TypeOK
<1>. HIDE DEF e
<1>4. timeline' \in Seq(Events) /\ Extended(timeline', timeline, e, Len(timeline) + 1)
  BY <1>2, <1>3, RecordExtends
<1>5. UNCHANGED <<ring, sentTotal, slots, accepted, relay>>
  BY DEF RecordRefusal
<1>6. LeftOnce' /\ Named(timeline', "LetterSent") = Named(timeline, "LetterSent")
  BY <1>2, <1>4, <1>5, LogKept DEF Shape
<1>7. SpanIsHeld' /\ (ring.size <= Len(accepted))' /\ FirstInFirstOut'
  BY <1>5 DEF Shape, SpanIsHeld, FirstInFirstOut
<1>8. SentWasDelivered'
  BY <1>5, <1>6, SMTT(30) DEF Shape, SentWasDelivered
<1>. QED
  BY <1>4, <1>6, <1>7, <1>8 DEF Shape

\* A letter is queued behind the others.
LEMMA ShapeQueue ==
    ASSUME TypeOK, Shape, NEW p \in Procs, Queue(p)
    PROVE  /\ Shape'
           /\ ring' \in Pointers(MaxCapacity)
           /\ timeline' \in Seq(Events)
           /\ accepted' \in Seq(Letters)
           /\ ring'.size = ring.size + 1
           /\ Len(accepted') = Len(accepted) + 1
           /\ \A k \in 1 .. Len(accepted) : accepted'[k] = accepted[k]
           /\ DOMAIN slots' = DOMAIN slots \cup {ring.write_index}
           /\ \A i \in DOMAIN slots : slots'[i] = slots[i]
           /\ slots'[ring.write_index] \in Rows
           /\ slots'[ring.write_index].claim = NoToken
<1>. DEFINE l == job[p].letter
            w == ring.write_index
            n == Len(accepted)
            e == [event |-> "LetterQueued", item |-> n + 1]
<1>1. /\ ring.size \in Nat
      /\ n \in Nat
      /\ ring.size <= n
      /\ MaxCapacity \in Nat
      /\ l \in Letters
  <2>1. l \in Letters
    <3>1. job[p].pc = "checked"
      BY DEF Queue
    <3>. QED
      BY <3>1, JobFields, SMTT(30)
  <2>. QED
    BY <2>1, OutboxAssumption DEF TypeOK, Pointers, Shape
<1>2. /\ ring' \in Pointers(MaxCapacity)
      /\ PointersAgree(ring')
      /\ ring'.size = ring.size + 1
      /\ \A k \in 0 .. ring.capacity : SlotAt(ring', k) = SlotAt(ring, k)
      /\ w = SlotAt(ring, ring.size)
      /\ w \notin Span(ring)
      /\ Span(ring') = Span(ring) \cup {w}
  BY <1>1, AdvanceWriteFacts DEF TypeOK, Shape, SpanIsHeld, Queue
<1>3. /\ accepted' \in Seq(Letters)
      /\ Len(accepted') = n + 1
      /\ accepted'[n + 1] = l
      /\ \A k \in 1 .. n : accepted'[k] = accepted[k]
  <2>1. accepted \in Seq(Letters) /\ accepted' = Append(accepted, l)
    BY SMTT(30) DEF TypeOK, Queue
  <2>. QED
    BY <1>1, <2>1
<1>4. /\ DOMAIN slots' = DOMAIN slots \cup {w}
      /\ slots'[w] = [item |-> n + 1, letter |-> l,
                      intact |-> TRUE, claim |-> NoToken, fresh |-> FALSE]
      /\ \A i \in DOMAIN slots : slots'[i] = slots[i]
  <2>1. w \notin DOMAIN slots
    BY <1>2, SMTT(30) DEF Shape, SpanIsHeld
  <2>. QED
    BY <2>1 DEF Queue
<1>5. /\ slots'[w].item = n + 1
      /\ slots'[w].letter = l
      /\ slots'[w].claim = NoToken
      /\ slots'[w] \in Rows
  BY <1>1, <1>4, SMTT(30) DEF Rows
<1>6. SpanIsHeld'
  BY <1>2, <1>4 DEF Shape, SpanIsHeld
<1>7. ring'.size = ring.size + 1 /\ n - ring.size = Len(accepted') - ring'.size
  <2>1. ring'.size = ring.size + 1
    BY <1>2
  <2>2. Len(accepted') = n + 1 /\ n \in Nat /\ ring.size \in Nat
    BY <1>1, <1>3
  <2>. HIDE DEF n
  <2>. QED
    BY <2>1, <2>2
<1>8. FirstInFirstOut'
  <2>1. SUFFICES ASSUME NEW k \in 0 .. (ring'.size - 1)
                 PROVE  LET row == slots'[SlotAt(ring', k)]
                        IN  /\ row.item = Len(accepted') - ring'.size + 1 + k
                            /\ row.letter = accepted'[row.item]
    BY DEF FirstInFirstOut
  <2>2. k \in 0 .. (ring.size - 1) \/ k = ring.size
    BY <1>1, <1>7
  <2>3. ring.size \in 0 .. ring.capacity /\ \A j \in 0 .. (ring.size - 1) : j \in 0 .. ring.capacity
    BY <1>1, SMTT(30) DEF TypeOK, Pointers, Shape, SpanIsHeld, PointersAgree
  <2>4. SlotAt(ring', k) = SlotAt(ring, k)
    BY <1>2, <2>2, <2>3
  <2>5. CASE k \in 0 .. (ring.size - 1)
    <3>1. SlotAt(ring, k) \in DOMAIN slots
      BY <2>5 DEF Shape, SpanIsHeld, Span
    <3>2. slots'[SlotAt(ring', k)] = slots[SlotAt(ring, k)]
      BY <1>4, <2>4, <3>1, SMTT(30)
    <3>3. /\ slots[SlotAt(ring, k)].item = n - ring.size + 1 + k
          /\ slots[SlotAt(ring, k)].letter = accepted[slots[SlotAt(ring, k)].item]
      BY <2>5 DEF Shape, FirstInFirstOut
    <3>4. n - ring.size + 1 + k \in 1 .. n
      BY <1>1, <2>5
    <3>5. n - ring.size + 1 + k = Len(accepted') - ring'.size + 1 + k
      BY <1>7
    <3>. QED
      BY <1>3, <3>2, <3>3, <3>4, <3>5, SMTT(30)
  <2>6. CASE k = ring.size
    <3>1. slots'[SlotAt(ring', k)] = slots'[w]
      BY <1>2, <2>4, <2>6, SMTT(30)
    <3>2. n + 1 = Len(accepted') - ring'.size + 1 + k
      BY <1>1, <1>7, <1>3, <2>6
    <3>. QED
      BY <1>3, <1>5, <3>1, <3>2, SMTT(30)
  <2>. QED
    BY <2>2, <2>5, <2>6
<1>9. e \in Events /\ e.event = "LetterQueued"
  BY <1>1 DEF Events
<1>10. timeline' = Append(timeline, e) /\ timeline \in Seq(Events)
  BY DEF Queue, Record, TypeOK
<1>. HIDE DEF e, l, w, n
<1>11. timeline' \in Seq(Events) /\ Extended(timeline', timeline, e, Len(timeline) + 1)
  BY <1>9, <1>10, RecordExtends, SMTT(30)
<1>12. sentTotal' = sentTotal /\ relay' = relay
  BY DEF Queue
<1>13. LeftOnce' /\ Named(timeline', "LetterSent") = Named(timeline, "LetterSent")
  BY <1>7, <1>9, <1>11, <1>12, LogKept, SMTT(30) DEF Shape, n
<1>14. SentWasDelivered'
  <2>1. Named(timeline, "LetterSent") \subseteq 1 .. n
    BY <1>1 DEF Shape, LeftOnce, n
  <2>. QED
    BY <1>3, <1>12, <1>13, <2>1 DEF Shape, SentWasDelivered
<1>15. (ring.size <= Len(accepted))'
  BY <1>1, <1>3, <1>7
<1>. QED
  BY <1>2, <1>3, <1>4, <1>5, <1>6, <1>8, <1>11, <1>13, <1>14, <1>15, SMTT(30) DEF Shape, w, n

\* An empty ring takes a new capacity.
LEMMA ShapeResize ==
    ASSUME TypeOK, Shape, NEW c \in 1 .. MaxCapacity, SetCapacity(c)
    PROVE  /\ Shape'
           /\ ring' \in Pointers(MaxCapacity)
           /\ ring'.size = ring.size
<1>1. /\ ring' = [ring EXCEPT !.capacity = c, !.read_index = 0, !.write_index = 0]
      /\ ring.size = 0
      /\ UNCHANGED <<sentTotal, slots, timeline, accepted, relay>>
      /\ c \in Nat \ {0}
  BY OutboxAssumption DEF SetCapacity, Resize, CanResize
<1>2. /\ ring' \in Pointers(MaxCapacity)
      /\ ring'.size = 0
      /\ ring'.capacity = c
      /\ ring'.read_index = 0
      /\ ring'.write_index = 0
  BY <1>1, Zenon DEF TypeOK, Pointers
<1>3. PointersAgree(ring')
  <2>1. (0 + 0) % c = 0
    BY <1>1, ModOneTurn
  <2>. QED
    BY <1>1, <1>2, <2>1 DEF PointersAgree
<1>4. Span(ring) = {} /\ Span(ring') = {}
  BY <1>1, <1>2 DEF Span
<1>5. SpanIsHeld'
  BY <1>1, <1>3, <1>4 DEF Shape, SpanIsHeld
<1>6. FirstInFirstOut'
  BY <1>2 DEF FirstInFirstOut
<1>7. LeftOnce' /\ SentWasDelivered' /\ (ring.size <= Len(accepted))'
  BY <1>1, <1>2 DEF Shape, LeftOnce, SentWasDelivered
<1>. QED
  BY <1>1, <1>2, <1>5, <1>6, <1>7 DEF Shape

-----------------------------------------------------------------------------
\* What every step but a claim does to the sends in flight: each goes on with
\* what it knows or is over, no slot gets a claim it did not have, and the
\* letters that have left stay away.
SendsGoOn ==
    /\ relay \subseteq relay'
    /\ \A k \in 1 .. Len(accepted) : k \in 1 .. Len(accepted') /\ accepted'[k] = accepted[k]
    /\ Len(accepted) - ring.size <= Len(accepted') - ring'.size
    /\ \A i \in DOMAIN slots' :
          \/ slots'[i].claim = NoToken
          \/ /\ i \in DOMAIN slots
             /\ slots'[i].claim = slots[i].claim
             /\ slots'[i].item = slots[i].item
    /\ \A q \in Procs :
          \/ job'[q].pc \notin Sending
          \/ /\ job[q].pc \in Sending
             /\ job'[q].item = job[q].item
             /\ job'[q].letter = job[q].letter
             /\ job'[q].token = job[q].token
             /\ job'[q].pc = "delivered" => job[q].pc = "delivered" \/ job[q].letter \in relay'

LEMMA SendsKept ==
    ASSUME TypeOK, NoOvertaking, SendsKnowTheirItem, SendsGoOn,
           Len(accepted) \in Nat, Len(accepted') \in Nat, ring.size \in Nat, ring'.size \in Nat
    PROVE  NoOvertaking' /\ SendsKnowTheirItem'
<1>1. SUFFICES ASSUME NEW q \in Procs, job'[q].pc \in Sending
               PROVE  /\ job'[q].item <= Len(accepted') - ring'.size + 1
                      /\ job'[q].item \in 1 .. Len(accepted')
                      /\ job'[q].letter = accepted'[job'[q].item]
                      /\ \A i \in DOMAIN slots' :
                            slots'[i].claim = job'[q].token => slots'[i].item = job'[q].item
                      /\ job'[q].pc = "delivered" => job'[q].letter \in relay'
  BY DEF NoOvertaking, SendsKnowTheirItem
<1>2. /\ job[q].pc \in Sending
      /\ job'[q].item = job[q].item
      /\ job'[q].letter = job[q].letter
      /\ job'[q].token = job[q].token
      /\ job'[q].pc = "delivered" => job[q].pc = "delivered" \/ job[q].letter \in relay'
  BY <1>1 DEF SendsGoOn
<1>3. job[q].token # NoToken /\ job[q].item \in Nat
  BY <1>2, JobFields, OutboxAssumption, SMTT(30)
<1>4. job'[q].item <= Len(accepted') - ring'.size + 1
  <2>1. job[q].item <= Len(accepted) - ring.size + 1
    BY <1>2 DEF NoOvertaking
  <2>2. Len(accepted) - ring.size <= Len(accepted') - ring'.size
    BY DEF SendsGoOn
  <2>. QED
    BY <1>2, <1>3, <2>1, <2>2, SMTT(30)
<1>5. job'[q].item \in 1 .. Len(accepted') /\ job'[q].letter = accepted'[job'[q].item]
  BY <1>2 DEF SendsGoOn, SendsKnowTheirItem
<1>6. \A i \in DOMAIN slots' : slots'[i].claim = job'[q].token => slots'[i].item = job'[q].item
  BY <1>2, <1>3, SMTT(30) DEF SendsGoOn, SendsKnowTheirItem
<1>7. job'[q].pc = "delivered" => job'[q].letter \in relay'
  BY <1>2 DEF SendsGoOn, SendsKnowTheirItem
<1>. QED
  BY <1>4, <1>5, <1>6, <1>7, SMTT(30)

-----------------------------------------------------------------------------
\* IndInv is TypeOK, Shape and what the sends know.
LEMMA IndInvParts ==
    /\ IndInv <=> TypeOK /\ Shape /\ NoOvertaking /\ SendsKnowTheirItem
    /\ IndInv' <=> TypeOK' /\ Shape' /\ NoOvertaking' /\ SendsKnowTheirItem'
BY DEF IndInv, Shape

LEMMA Counts ==
    /\ TypeOK => Len(accepted) \in Nat /\ ring.size \in Nat
    /\ TypeOK' => Len(accepted') \in Nat /\ ring'.size \in Nat
BY DEF TypeOK, Pointers

\* A step of one command that leaves the store alone.
LEMMA JobStep ==
    ASSUME IndInv, NEW p \in Procs, NEW x \in Jobs, job' = [job EXCEPT ![p] = x],
           UNCHANGED <<store, activeKeys>>,
           relay \subseteq relay', relay' \subseteq Letters,
           \/ x.pc \notin Sending
           \/ /\ job[p].pc \in Sending
              /\ x.item = job[p].item
              /\ x.letter = job[p].letter
              /\ x.token = job[p].token
              /\ x.pc = "delivered" => job[p].letter \in relay'
    PROVE  IndInv'
<1>1. TypeOK /\ Shape /\ NoOvertaking /\ SendsKnowTheirItem
  BY IndInvParts
<1>2. TypeOK'
  BY <1>1 DEF TypeOK, store
<1>3. Shape'
  BY <1>1, ShapeKept DEF store
<1>4. job \in [Procs -> Jobs]
  BY <1>1 DEF TypeOK
<1>5. \A q \in Procs : job'[q] = IF q = p THEN x ELSE job[q]
  BY <1>4
<1>6. SendsGoOn
  BY <1>1, <1>5, Counts DEF SendsGoOn, store
<1>7. NoOvertaking' /\ SendsKnowTheirItem'
  BY <1>1, <1>2, <1>6, Counts, SendsKept, SMTT(30)
<1>. QED
  BY <1>2, <1>3, <1>7, IndInvParts, SMTT(30)

\* A step that changes a held letter's claim or content flags only: every claim
\* stays or is cleared.
LEMMA RowsStep ==
    ASSUME IndInv, UNCHANGED <<ring, sentTotal, timeline, refusals, accepted, activeKeys, relay>>,
           DOMAIN slots' = DOMAIN slots,
           slots' \in [DOMAIN slots -> Rows],
           \A i \in DOMAIN slots : /\ slots'[i].item = slots[i].item
                                   /\ slots'[i].letter = slots[i].letter
                                   /\ slots'[i].claim \in {slots[i].claim, NoToken},
           job' \in [Procs -> Jobs],
           \A q \in Procs : job'[q] = job[q] \/ job'[q] = Idle
    PROVE  IndInv'
<1>1. TypeOK /\ Shape /\ NoOvertaking /\ SendsKnowTheirItem
  BY IndInvParts
<1>2. TypeOK'
  BY <1>1, SMTT(30) DEF TypeOK
<1>3. Shape'
  BY <1>1, ShapeKept, SMTT(30)
<1>4. SendsGoOn
  BY <1>1, Counts, SMTT(30) DEF SendsGoOn, Idle, Sending
<1>5. NoOvertaking' /\ SendsKnowTheirItem'
  BY <1>1, <1>2, <1>4, Counts, SendsKept, SMTT(30)
<1>. QED
  BY <1>2, <1>3, <1>5, IndInvParts, SMTT(30)

\* A step in which the head leaves.
LEMMA DepartStep ==
    ASSUME IndInv, NEW kind \in {"LetterSent", "LetterDropped"}, Departs(kind),
           UNCHANGED <<refusals, activeKeys>>,
           job' \in [Procs -> Jobs],
           \A q \in Procs : job'[q] = job[q] \/ job'[q] = Idle
    PROVE  IndInv'
<1>1. TypeOK /\ Shape /\ NoOvertaking /\ SendsKnowTheirItem
  BY IndInvParts
<1>2. /\ Shape'
      /\ ring' \in Pointers(MaxCapacity)
      /\ timeline' \in Seq(Events)
      /\ sentTotal' \in Nat
      /\ ring'.size = ring.size - 1
      /\ DOMAIN slots' \subseteq DOMAIN slots
      /\ \A i \in DOMAIN slots' : slots'[i] = slots[i]
  BY <1>1, ShapeHeadLeaves
<1>3. UNCHANGED <<accepted, relay>> /\ slots' = [i \in DOMAIN slots' |-> slots'[i]]
  BY DEF Departs, ReleaseHead
<1>4. TypeOK'
  <2>1. slots' \in [DOMAIN slots' -> Rows] /\ DOMAIN slots' \subseteq 0 .. (MaxCapacity - 1)
    BY <1>1, <1>2, <1>3, SMTT(30) DEF TypeOK
  <2>. QED
    BY <1>1, <1>2, <1>3, <2>1, SMTT(30) DEF TypeOK
<1>5. SendsGoOn
  <2>1. Len(accepted) - ring.size <= Len(accepted') - ring'.size
    BY <1>1, <1>2, <1>3, Counts, SMTT(30)
  <2>. QED
    BY <1>2, <1>3, <2>1 DEF SendsGoOn, Idle, Sending
<1>6. NoOvertaking' /\ SendsKnowTheirItem'
  BY <1>1, <1>4, <1>5, Counts, SendsKept, SMTT(30)
<1>. QED
  BY <1>2, <1>4, <1>6, IndInvParts

LEMMA QueueStep ==
    ASSUME IndInv, NEW p \in Procs, Queue(p)
    PROVE  IndInv'
<1>1. TypeOK /\ Shape /\ NoOvertaking /\ SendsKnowTheirItem
  BY IndInvParts
<1>2. /\ Shape'
      /\ ring' \in Pointers(MaxCapacity)
      /\ timeline' \in Seq(Events)
      /\ accepted' \in Seq(Letters)
      /\ ring'.size = ring.size + 1
      /\ Len(accepted') = Len(accepted) + 1
      /\ \A k \in 1 .. Len(accepted) : accepted'[k] = accepted[k]
      /\ DOMAIN slots' = DOMAIN slots \cup {ring.write_index}
      /\ \A i \in DOMAIN slots : slots'[i] = slots[i]
      /\ slots'[ring.write_index] \in Rows
      /\ slots'[ring.write_index].claim = NoToken
  BY <1>1, ShapeQueue, Zenon
<1>3. /\ UNCHANGED <<sentTotal, refusals, activeKeys, relay>>
      /\ job' = [job EXCEPT ![p] = Idle]
      /\ slots' = [i \in DOMAIN slots' |-> slots'[i]]
  BY DEF Queue
<1>4. TypeOK'
  <2>1. slots' \in [DOMAIN slots' -> Rows]
    BY <1>1, <1>2, <1>3, SMTT(30) DEF TypeOK
  <2>2. DOMAIN slots' \subseteq 0 .. (MaxCapacity - 1)
    <3>1. ring.write_index \in 0 .. (MaxCapacity - 1)
      BY <1>1, OutboxAssumption, SMTT(30) DEF TypeOK, Pointers, Shape, SpanIsHeld, PointersAgree
    <3>. QED
      BY <1>1, <1>2, <3>1, SMTT(30) DEF TypeOK
  <2>3. job' \in [Procs -> Jobs]
    BY <1>1, <1>3 DEF TypeOK, Jobs
  <2>. QED
    BY <1>1, <1>2, <1>3, <2>1, <2>2, <2>3 DEF TypeOK
<1>5. SendsGoOn
  <2>1. Len(accepted) \in Nat /\ ring.size \in Nat
    BY <1>1, Counts
  <2>2. /\ Len(accepted) - ring.size <= Len(accepted') - ring'.size
        /\ \A k \in 1 .. Len(accepted) : k \in 1 .. Len(accepted')
    BY <1>2, <2>1
  <2>3. \A q \in Procs : job'[q] = job[q] \/ job'[q] = Idle
    BY <1>1, <1>3 DEF TypeOK
  <2>. QED
    BY <1>2, <1>3, <2>2, <2>3 DEF SendsGoOn, Idle, Sending
<1>6. NoOvertaking' /\ SendsKnowTheirItem'
  BY <1>1, <1>4, <1>5, Counts, SendsKept, SMTT(30)
<1>. QED
  BY <1>2, <1>4, <1>6, IndInvParts

\* The refusals kept are a sequence of refusals.
LEMMA NewestType ==
    ASSUME NEW s \in Seq(Refusals)
    PROVE  Newest(s) \in Seq(Refusals)
<1>. DEFINE m == IF Len(s) > MaxRefusalsKept THEN Len(s) - MaxRefusalsKept + 1 ELSE 1
<1>1. Len(s) \in Nat /\ m \in 1 .. (Len(s) + 1)
  BY OutboxAssumption
<1>. HIDE DEF m
<1>2. m \in Int /\ Len(s) \in Int /\ \A i \in m .. Len(s) : s[i] \in Refusals
  BY <1>1
<1>3. SubSeq(s, m, Len(s)) \in Seq(Refusals)
  BY <1>2
<1>. QED
  BY <1>3 DEF Newest, m

LEMMA RefusalStep ==
    ASSUME IndInv, NEW p \in Procs, RecordRefusal(p)
    PROVE  IndInv'
<1>1. TypeOK /\ Shape /\ NoOvertaking /\ SendsKnowTheirItem
  BY IndInvParts
<1>2. Shape' /\ timeline' \in Seq(Events)
  BY <1>1, ShapeRefusal
<1>3. /\ UNCHANGED <<ring, sentTotal, slots, accepted, activeKeys, relay>>
      /\ job' = [job EXCEPT ![p] = Idle]
      /\ job[p].pc = "refused"
      /\ refusals' = Newest(Append(refusals, job[p].rule))
  BY DEF RecordRefusal
<1>4. refusals' \in Seq(Refusals)
  <2>1. job[p].rule \in Refusals /\ refusals \in Seq(Refusals)
    BY <1>1, <1>3, JobFields DEF TypeOK
  <2>2. Append(refusals, job[p].rule) \in Seq(Refusals)
    BY <2>1
  <2>. QED
    BY <1>3, <2>2, NewestType, Zenon
<1>5. job' \in [Procs -> Jobs] /\ \A q \in Procs : job'[q] = job[q] \/ job'[q] = Idle
  BY <1>1, <1>3 DEF TypeOK, Jobs
<1>6. TypeOK'
  BY <1>1, <1>2, <1>3, <1>4, <1>5, SMTT(30) DEF TypeOK
<1>7. SendsGoOn
  BY <1>1, <1>3, <1>5, Counts, SMTT(30) DEF SendsGoOn, Idle, Sending
<1>8. NoOvertaking' /\ SendsKnowTheirItem'
  BY <1>1, <1>6, <1>7, Counts, SendsKept
<1>. QED
  BY <1>2, <1>6, <1>8, IndInvParts, SMTT(30)

LEMMA ResizeStep ==
    ASSUME IndInv, NEW c \in 1 .. MaxCapacity, SetCapacity(c)
    PROVE  IndInv'
<1>1. TypeOK /\ Shape /\ NoOvertaking /\ SendsKnowTheirItem
  BY IndInvParts
<1>2. Shape' /\ ring' \in Pointers(MaxCapacity) /\ ring'.size = ring.size
  BY <1>1, ShapeResize
<1>3. UNCHANGED <<sentTotal, slots, timeline, refusals, accepted, activeKeys, relay, job>>
  BY DEF SetCapacity
<1>4. TypeOK'
  BY <1>1, <1>2, <1>3, SMTT(30) DEF TypeOK
<1>5. SendsGoOn
  BY <1>1, <1>2, <1>3, Counts DEF SendsGoOn
<1>6. NoOvertaking' /\ SendsKnowTheirItem'
  BY <1>1, <1>4, <1>5, Counts, SendsKept, SMTT(30)
<1>. QED
  BY <1>2, <1>4, <1>6, IndInvParts

\* The gate answers with a refusal or lets the letter through.
LEMMA GateCheckType ==
    ASSUME NEW row \in Rows
    PROVE  GateCheck(row) \in Refusals \cup {"None"}
BY OutboxAssumption DEF GateCheck, Rows, Refusals, Defects

LEMMA DepartureCheckType ==
    ASSUME NEW l \in Letters, NEW inOrder \in BOOLEAN
    PROVE  DepartureCheck(l, inOrder) \in Refusals \cup {"None"}
BY OutboxAssumption DEF DepartureCheck, Refusals, Defects

\* A send claims the head with a token nobody else uses.
LEMMA ClaimStep ==
    ASSUME IndInv, NEW p \in Procs, NEW takeOver \in BOOLEAN, Claim(p, takeOver)
    PROVE  IndInv'
<1>. DEFINE h == HeadSlot
            row == slots[h]
<1>1. TypeOK /\ Shape /\ NoOvertaking /\ SendsKnowTheirItem
  BY IndInvParts, SMTT(30)
<1>2. /\ UNCHANGED <<ring, sentTotal, timeline, refusals, accepted, activeKeys, relay>>
      /\ ring.size # 0
      /\ Len(accepted) \in Nat /\ ring.size \in Nat /\ ring.size <= Len(accepted)
      /\ slots \in [DOMAIN slots -> Rows]
      /\ job \in [Procs -> Jobs]
  BY <1>1, Counts, Zenon DEF Claim, MayTake, IsEmpty, TypeOK, Shape
<1>3. h \in DOMAIN slots /\ h = SlotAt(ring, 0) /\ 0 \in 0 .. (ring.size - 1)
  <2>1. MaxCapacity \in Nat
    BY OutboxAssumption
  <2>2. h = SlotAt(ring, 0) /\ h \in Span(ring)
    BY <1>1, <1>2, <2>1, ReleaseHeadFacts, Zenon DEF TypeOK, Shape, SpanIsHeld, HeadSlot
  <2>. QED
    BY <1>1, <1>2, <2>2 DEF Shape, SpanIsHeld
<1>4. /\ row \in Rows
      /\ row.item = Len(accepted) - ring.size + 1 + 0
      /\ row.letter = accepted[row.item]
  BY <1>1, <1>2, <1>3 DEF Shape, FirstInFirstOut
<1>. HIDE DEF h
<1>5. CASE GateCheck(row) # "None"
  <2>1. /\ job' = [job EXCEPT ![p] = [pc |-> "refused", rule |-> GateCheck(row)]]
        /\ UNCHANGED slots
    BY <1>5 DEF Claim, h
  <2>2. /\ [pc |-> "refused", rule |-> GateCheck(row)] \in Jobs
        /\ [pc |-> "refused", rule |-> GateCheck(row)].pc \notin Sending
    BY <1>4, <1>5, GateCheckType DEF Jobs, Sending
  <2>. HIDE DEF row
  <2>. QED
    BY <1>1, <1>2, <2>1, <2>2, JobStep, Zenon DEF store, TypeOK
<1>6. CASE GateCheck(row) = "None"
  <2>1. PICK t \in UnusedTokens :
          /\ slots' = [slots EXCEPT ![h] = [row EXCEPT !.claim = t, !.fresh = TRUE]]
          /\ job' = [job EXCEPT ![p] = [pc |-> "claimed", item |-> row.item,
                                        letter |-> row.letter, token |-> t]]
    BY <1>6, Zenon DEF Claim, h
  <2>2. /\ t \in Tokens
        /\ \A i \in DOMAIN slots : slots[i].claim # t
        /\ \A q \in Procs : job[q].pc \in Sending => job[q].token # t
    BY DEF UnusedTokens
  <2>3. DOMAIN slots' = DOMAIN slots /\ slots' \in [DOMAIN slots -> Rows]
    BY <1>2, <1>3, <1>4, <2>1, <2>2, Zenon DEF Rows
  <2>4. slots'[h].claim = t /\ slots'[h].item = row.item /\ slots'[h].letter = row.letter
    BY <1>2, <1>3, <1>4, <2>1, Zenon DEF Rows
  <2>5. \A i \in DOMAIN slots : i # h => slots'[i] = slots[i]
    BY <2>1
  <2>6. \A i \in DOMAIN slots : slots'[i].item = slots[i].item /\ slots'[i].letter = slots[i].letter
    BY <2>4, <2>5, SMTT(30)
  <2>7. [pc |-> "claimed", item |-> row.item, letter |-> row.letter, token |-> t] \in Jobs
    BY <1>4, <2>2 DEF Jobs, Rows, Sending
  <2>8. /\ job' \in [Procs -> Jobs]
        /\ \A q \in Procs : q # p => job'[q] = job[q]
        /\ job'[p].pc = "claimed"
        /\ job'[p].item = row.item
        /\ job'[p].letter = row.letter
        /\ job'[p].token = t
    BY <1>2, <2>1, <2>7
  <2>9. TypeOK'
    BY <1>1, <1>2, <2>3, <2>8 DEF TypeOK
  <2>10. Shape'
    BY <1>1, <1>2, <2>3, <2>6, ShapeKept, SMTT(30)
  <2>11. NoOvertaking'
    BY <1>1, <1>2, <1>4, <2>8 DEF NoOvertaking
  <2>12. row.item \in 1 .. Len(accepted)
    BY <1>2, <1>4, SMTT(30)
  <2>13. SendsKnowTheirItem'
    <3>1. SUFFICES ASSUME NEW q \in Procs, job'[q].pc \in Sending
                   PROVE  /\ job'[q].item \in 1 .. Len(accepted')
                          /\ job'[q].letter = accepted'[job'[q].item]
                          /\ \A i \in DOMAIN slots' :
                                slots'[i].claim = job'[q].token => slots'[i].item = job'[q].item
                          /\ job'[q].pc = "delivered" => job'[q].letter \in relay'
      BY DEF SendsKnowTheirItem
    <3>2. CASE q = p
      <4>1. \A i \in DOMAIN slots' : slots'[i].claim = t => i = h
        BY <2>2, <2>3, <2>5
      <4>2. slots'[h].item = row.item
        BY <1>3, <2>6
      <4>. QED
        BY <1>2, <1>4, <2>8, <2>12, <3>2, <4>1, <4>2, SMTT(30)
    <3>3. CASE q # p
      <4>1. job'[q] = job[q] /\ job[q].pc \in Sending
        BY <2>8, <3>1, <3>3
      <4>2. \A i \in DOMAIN slots' : slots'[i].claim = job[q].token => slots'[i].item = job[q].item
        <5>1. job[q].token # t
          BY <2>2, <4>1
        <5>2. \A i \in DOMAIN slots : slots[i].claim = job[q].token => slots[i].item = job[q].item
          BY <1>1, <4>1 DEF SendsKnowTheirItem
        <5>. QED
          BY <2>3, <2>4, <2>6, <2>5, <5>1, <5>2, SMTT(30)
      <4>. QED
        BY <1>1, <1>2, <4>1, <4>2, SMTT(30) DEF SendsKnowTheirItem
    <3>. QED
      BY <3>2, <3>3, SMTT(30)
  <2>. QED
    BY <2>9, <2>10, <2>11, <2>13, IndInvParts
<1>. QED
  BY <1>5, <1>6

LEMMA InitIndInv == Init => IndInv
<1>1. SUFFICES ASSUME Init PROVE IndInv
  OBVIOUS
<1>2. /\ ring = [capacity |-> DefaultCapacity, read_index |-> 0, write_index |-> 0, size |-> 0]
      /\ sentTotal = 0
      /\ slots = << >>
      /\ timeline = << >>
      /\ refusals = << >>
      /\ activeKeys \subseteq Keys
      /\ relay = {}
      /\ job = [p \in Procs |-> Idle]
      /\ accepted = << >>
  BY <1>1 DEF Init, NewRing
<1>3. DefaultCapacity \in Nat \ {0} /\ DefaultCapacity \in 1 .. MaxCapacity
  BY OutboxAssumption
<1>4. DOMAIN slots = {} /\ DOMAIN timeline = {} /\ Len(accepted) = 0
  BY <1>2
<1>5. TypeOK
  <2>1. ring \in Pointers(MaxCapacity)
    BY <1>2, <1>3 DEF Pointers
  <2>2. slots \in [DOMAIN slots -> Rows]
    BY <1>2
  <2>3. job \in [Procs -> Jobs]
    BY <1>2 DEF Jobs
  <2>4. timeline \in Seq(Events) /\ refusals \in Seq(Refusals) /\ accepted \in Seq(Letters)
    BY <1>2
  <2>. QED
    BY <1>2, <1>4, <2>1, <2>2, <2>3, <2>4, SMTT(30) DEF TypeOK
<1>6. SpanIsHeld
  <2>1. (0 + 0) % DefaultCapacity = 0
    BY <1>3, ModOneTurn
  <2>2. PointersAgree(ring)
    BY <1>2, <1>3, <2>1 DEF PointersAgree
  <2>3. Span(ring) = {}
    BY <1>2 DEF Span
  <2>. QED
    BY <1>4, <2>2, <2>3 DEF SpanIsHeld
<1>7. ring.size = 0 /\ ring.size <= Len(accepted) /\ FirstInFirstOut
  BY <1>2, <1>4 DEF FirstInFirstOut
<1>8. LeftOnce /\ SentWasDelivered
  <2>1. \A kind : Entries(timeline, kind) = {} /\ Named(timeline, kind) = {}
    BY <1>4 DEF Entries, Named
  <2>2. Cardinality({}) = 0
    BY FS_EmptySet
  <2>3. 1 .. (Len(accepted) - ring.size) = {}
    BY <1>4, <1>7
  <2>. QED
    BY <1>2, <2>1, <2>2, <2>3, Zenon DEF LeftOnce, SentWasDelivered
<1>9. NoOvertaking /\ SendsKnowTheirItem
  BY <1>2 DEF NoOvertaking, SendsKnowTheirItem, Idle, Sending
<1>. QED
  BY <1>5, <1>6, <1>7, <1>8, <1>9 DEF IndInv

\* Every step of every command, of the clock and of the registry keeps IndInv.
LEMMA NextIndInv == IndInv /\ [Next]_vars => IndInv'
<1>1. SUFFICES ASSUME IndInv, [Next]_vars PROVE IndInv'
  OBVIOUS
<1>2. TypeOK /\ Shape /\ NoOvertaking /\ SendsKnowTheirItem
  BY <1>1, IndInvParts
<1>3. /\ relay \subseteq Letters
      /\ job \in [Procs -> Jobs]
      /\ slots \in [DOMAIN slots -> Rows]
      /\ activeKeys \subseteq Keys
  BY <1>2 DEF TypeOK
<1>4. Idle \in Jobs /\ Idle.pc \notin Sending
  BY DEF Jobs, Idle, Sending
<1>5. ASSUME NEW p \in Procs, NEW l \in Letters, NEW inOrder \in BOOLEAN, Push(p, l, inOrder)
      PROVE  IndInv'
  <2>. DEFINE verdict == DepartureCheck(l, inOrder)
              x == IF verdict = "None" THEN [pc |-> "checked", letter |-> l]
                   ELSE [pc |-> "refused", rule |-> verdict]
  <2>1. verdict \in Refusals \cup {"None"}
    BY DepartureCheckType
  <2>2. x \in Jobs /\ x.pc \notin Sending
    BY <2>1 DEF Jobs, Sending
  <2>3. job' = [job EXCEPT ![p] = x] /\ UNCHANGED <<store, activeKeys, relay>>
    BY <1>5 DEF Push
  <2>. HIDE DEF x
  <2>. QED
    BY <1>1, <1>3, <2>2, <2>3, JobStep, Zenon
<1>6. ASSUME NEW p \in Procs, QueueFull(p) PROVE IndInv'
  <2>. DEFINE x == [pc |-> "refused", rule |-> "RingFull"]
  <2>1. x \in Jobs /\ x.pc \notin Sending
    BY DEF Jobs, Sending, Refusals
  <2>2. job' = [job EXCEPT ![p] = x] /\ UNCHANGED <<store, activeKeys, relay>>
    BY <1>6 DEF QueueFull
  <2>. HIDE DEF x
  <2>. QED
    BY <1>1, <1>3, <2>1, <2>2, JobStep, Zenon
<1>7. ASSUME NEW p \in Procs, Deliver(p) \/ DeliverFails(p) \/ FreeFails(p) PROVE IndInv'
  <2>1. /\ job[p].pc \in Sending
        /\ \E pc \in {"delivered", "failed"} :
              /\ job' = [job EXCEPT ![p].pc = pc]
              /\ pc = "delivered" => job[p].letter \in relay'
        /\ relay' \in {relay, relay \cup {job[p].letter}}
        /\ UNCHANGED <<store, activeKeys>>
    BY <1>7 DEF Deliver, DeliverFails, FreeFails, Sending
  <2>2. PICK pc \in {"delivered", "failed"} :
              /\ job' = [job EXCEPT ![p].pc = pc]
              /\ pc = "delivered" => job[p].letter \in relay'
    BY <2>1, Zenon
  <2>. DEFINE x == [job[p] EXCEPT !.pc = pc]
  <2>3. job[p] \in [pc : Sending, item : Nat, letter : Letters, token : Tokens]
    BY <1>2, <2>1, JobFields
  <2>4. /\ x \in Jobs
        /\ x.pc = pc
        /\ x.item = job[p].item
        /\ x.letter = job[p].letter
        /\ x.token = job[p].token
    BY <2>3 DEF Jobs, Sending
  <2>5. job' = [job EXCEPT ![p] = x]
    BY <1>3, <2>2
  <2>6. relay \subseteq relay' /\ relay' \subseteq Letters
    BY <1>3, <2>1, <2>3
  <2>. HIDE DEF x
  <2>. QED
    BY <1>1, <2>1, <2>2, <2>4, <2>5, <2>6, JobStep, Zenon
<1>8. ASSUME NEW p \in Procs, Crash(p) PROVE IndInv'
  BY <1>1, <1>3, <1>4, <1>8, JobStep, Zenon DEF Crash
<1>9. ASSUME NEW p \in Procs, Free(p) PROVE IndInv'
  <2>1. /\ job' = [job EXCEPT ![p] = Idle]
        /\ UNCHANGED <<refusals, accepted, activeKeys, relay>>
        /\ job[p].pc = "delivered" /\ job[p].pc \in Sending
    BY <1>9 DEF Free, Sending
  <2>2. job' \in [Procs -> Jobs] /\ \A q \in Procs : job'[q] = job[q] \/ job'[q] = Idle
    BY <1>3, <1>4, <2>1
  <2>3. CASE StillOurs(p)
    <3>1. /\ ~IsEmpty
          /\ slots[HeadSlot].claim = job[p].token
          /\ ReleaseHead
          /\ sentTotal' = sentTotal + 1
          /\ timeline' = Append(timeline, [event |-> "LetterSent", item |-> job[p].item])
      BY <1>9, <2>3, SMTT(30) DEF Free, StillOurs, Record
    <3>2. HeadSlot \in DOMAIN slots
      BY <1>2, <3>1, ReleaseHeadFacts, OutboxAssumption, Zenon
         DEF TypeOK, Shape, SpanIsHeld, HeadSlot, IsEmpty
    <3>3. /\ slots[HeadSlot].item = job[p].item
          /\ job[p].letter = accepted[job[p].item]
          /\ job[p].letter \in relay
      BY <1>2, <2>1, <3>1, <3>2 DEF SendsKnowTheirItem
    <3>4. slots[HeadSlot].letter = accepted[slots[HeadSlot].item]
      <4>1. ring.size \in Nat /\ ring.size # 0
        BY <1>2, <3>1, Counts DEF IsEmpty
      <4>2. 0 \in 0 .. (ring.size - 1)
        BY <4>1, SMTT(30)
      <4>3. HeadSlot = SlotAt(ring, 0)
        BY <1>2, <3>1, ReleaseHeadFacts, OutboxAssumption, Zenon
           DEF TypeOK, Shape, SpanIsHeld, HeadSlot, IsEmpty
      <4>. QED
        BY <1>2, <4>2, <4>3 DEF Shape, FirstInFirstOut
    <3>5. Departs("LetterSent")
      BY <2>1, <3>1, <3>3, <3>4 DEF Departs
    <3>. QED
      BY <1>1, <2>1, <2>2, <3>5, DepartStep
  <2>4. CASE ~StillOurs(p)
    <3>1. UNCHANGED <<store, activeKeys, relay>>
      BY <1>9, <2>1, <2>4 DEF Free, store
    <3>. QED
      BY <1>1, <1>3, <1>4, <2>1, <3>1, JobStep, Zenon
  <2>. QED
    BY <2>3, <2>4
<1>10. ASSUME NEW takeOver \in BOOLEAN, Drop(takeOver) PROVE IndInv'
  <2>1. Departs("LetterDropped") /\ UNCHANGED <<refusals, activeKeys, job>>
    BY <1>10, SMTT(30) DEF Drop, MayTake, Record, Departs
  <2>. QED
    BY <1>1, <1>3, <2>1, DepartStep
<1>11. ASSUME NEW p \in Procs, Unclaim(p) PROVE IndInv'
  <2>1. /\ UNCHANGED <<ring, sentTotal, timeline, refusals, accepted, activeKeys, relay>>
        /\ job' = [job EXCEPT ![p] = Idle]
        /\ slots' = [i \in DOMAIN slots |->
                        IF slots[i].claim = job[p].token
                        THEN [slots[i] EXCEPT !.claim = NoToken, !.fresh = FALSE]
                        ELSE slots[i]]
    BY <1>11, Zenon DEF Unclaim
  <2>2. job' \in [Procs -> Jobs] /\ \A q \in Procs : job'[q] = job[q] \/ job'[q] = Idle
    BY <1>3, <1>4, <2>1, Zenon
  <2>3. \A i \in DOMAIN slots : slots[i] \in Rows
    BY <1>3, SMTT(30)
  <2>4. \A i \in DOMAIN slots : /\ slots'[i] \in Rows
                                /\ slots'[i].item = slots[i].item
                                /\ slots'[i].letter = slots[i].letter
                                /\ slots'[i].claim \in {slots[i].claim, NoToken}
    BY <2>1, <2>3, Zenon DEF Rows
  <2>5. DOMAIN slots' = DOMAIN slots /\ slots' \in [DOMAIN slots -> Rows]
    BY <2>1, <2>4, Zenon
  <2>6. \A i \in DOMAIN slots : /\ slots'[i].item = slots[i].item
                                /\ slots'[i].letter = slots[i].letter
                                /\ slots'[i].claim \in {slots[i].claim, NoToken}
    BY <2>4
  <2>. QED
    BY <1>1, <2>1, <2>2, <2>5, <2>6, RowsStep, Zenon
<1>12. ASSUME NEW i \in DOMAIN slots, (Lapse /\ i = HeadSlot) \/ Corrupt(i) PROVE IndInv'
  <2>1. /\ UNCHANGED <<ring, sentTotal, timeline, refusals, accepted, activeKeys, relay, job>>
        /\ \/ slots' = [slots EXCEPT ![i] = [slots[i] EXCEPT !.fresh = FALSE]]
           \/ slots' = [slots EXCEPT ![i] = [slots[i] EXCEPT !.intact = FALSE]]
    BY <1>12 DEF Lapse, Corrupt
  <2>2. \A j \in DOMAIN slots : slots[j] \in Rows
    BY <1>3
  <2>3. /\ slots'[i] \in Rows
        /\ slots'[i].item = slots[i].item
        /\ slots'[i].letter = slots[i].letter
        /\ slots'[i].claim = slots[i].claim
        /\ DOMAIN slots' = DOMAIN slots
    BY <2>1, <2>2, Zenon DEF Rows
  <2>4. \A j \in DOMAIN slots : j # i => slots'[j] = slots[j]
    BY <2>1
  <2>5. slots' \in [DOMAIN slots -> Rows]
    <3>1. slots' = [j \in DOMAIN slots |-> slots'[j]]
      BY <2>1
    <3>2. \A j \in DOMAIN slots : slots'[j] \in Rows
      BY <2>2, <2>3, <2>4
    <3>. QED
      BY <3>1, <3>2
  <2>6. \A j \in DOMAIN slots : /\ slots'[j].item = slots[j].item
                                /\ slots'[j].letter = slots[j].letter
                                /\ slots'[j].claim \in {slots[j].claim, NoToken}
    BY <2>3, <2>4
  <2>. QED
    BY <1>1, <1>3, <2>1, <2>3, <2>5, <2>6, RowsStep, SMTT(30)
<1>13. ASSUME Lapse PROVE IndInv'
  <2>1. HeadSlot \in DOMAIN slots
    BY <1>2, <1>13, ReleaseHeadFacts, OutboxAssumption, Zenon
       DEF Lapse, TypeOK, Shape, SpanIsHeld, HeadSlot, IsEmpty
  <2>. QED
    BY <1>12, <1>13, <2>1
<1>14. ASSUME NEW k \in Keys, RegisterKey(k) \/ RevokeKey(k) PROVE IndInv'
  <2>1. UNCHANGED <<store, relay, job>> /\ activeKeys' \subseteq Keys
    BY <1>3, <1>14, SMTT(30) DEF RegisterKey, RevokeKey
  <2>. QED
    BY <1>1, <2>1 DEF IndInv, store, TypeOK, SpanIsHeld, FirstInFirstOut, LeftOnce,
                      SentWasDelivered, NoOvertaking, SendsKnowTheirItem
<1>15. ASSUME UNCHANGED vars PROVE IndInv'
  BY <1>1, <1>15, SMTT(30) DEF IndInv, vars, store, TypeOK, SpanIsHeld, FirstInFirstOut, LeftOnce,
                     SentWasDelivered, NoOvertaking, SendsKnowTheirItem
<1>. QED
  BY <1>1, <1>5, <1>6, <1>7, <1>8, <1>9, <1>10, <1>11, <1>12, <1>13, <1>14, <1>15,
     QueueStep, RefusalStep, ClaimStep, ResizeStep DEF Next

-----------------------------------------------------------------------------
\* Every reachable state satisfies the inductive invariant: from it follow the
\* theorems below.
THEOREM Invariant == Spec => []IndInv
<1>1. IndInv /\ [Next]_vars => IndInv'
  BY NextIndInv
<1>. QED
  BY <1>1, InitIndInv, PTL DEF Spec

\* Every row the outbox writes has its columns' types: rings, slots, timeline,
\* refusals and what each command remembers.
THEOREM TypeCorrect == Spec => []TypeOK
<1>1. IndInv => TypeOK
  BY DEF IndInv
<1>. QED
  BY <1>1, Invariant, PTL

\* The pointers always delimit exactly the slots that hold a letter, so queue
\* never writes over one and a send or drop always finds one at the head.
THEOREM PointersSound == Spec => []SpanIsHeld
<1>1. IndInv => SpanIsHeld
  BY DEF IndInv
<1>. QED
  BY <1>1, Invariant, PTL

\* Letters wait in the order they were queued, with the content they were
\* queued with.
THEOREM OrderKept == Spec => []FirstInFirstOut
<1>1. IndInv => FirstInFirstOut
  BY DEF IndInv
<1>. QED
  BY <1>1, Invariant, PTL

\* A letter leaves the ring once, whatever sends, take-overs, drops and crashes
\* interleave, and sent_total counts those that left as sent.
THEOREM EachLeavesOnce == Spec => []LeftOnce
<1>1. IndInv => LeftOnce
  BY DEF IndInv
<1>. QED
  BY <1>1, Invariant, PTL

\* No slot is freed as sent before its letter arrived.
THEOREM NoneLost == Spec => []SentWasDelivered
<1>1. IndInv => SentWasDelivered
  BY DEF IndInv
<1>. QED
  BY <1>1, Invariant, PTL

\* No send carries a letter past an older one that still waits.
THEOREM NoneOvertakes == Spec => []NoOvertaking
<1>1. IndInv => NoOvertaking
  BY DEF IndInv
<1>. QED
  BY <1>1, Invariant, PTL
=============================================================================
