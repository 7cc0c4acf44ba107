----------------------------- MODULE RingProofs -----------------------------
(***************************************************************************)
(* Facts about the ring's pointer arithmetic, for every capacity.          *)
(***************************************************************************)
EXTENDS Ring, TLAPS

\* One turn around the ring at most: the modulus is a single subtraction.
LEMMA ModOneTurn ==
    \A c \in Nat \ {0} : \A a \in 0 .. (c - 1), k \in 0 .. c :
        (a + k) % c = IF a + k < c THEN a + k ELSE a + k - c
<1>1. SUFFICES ASSUME NEW c \in Nat \ {0}, NEW a \in 0 .. (c - 1), NEW k \in 0 .. c
               PROVE  (a + k) % c = IF a + k < c THEN a + k ELSE a + k - c
  OBVIOUS
<1>2. CASE a + k < c
  BY <1>2, SMT
<1>3. CASE a + k >= c
  BY <1>3, SMT
<1>. QED
  BY <1>2, <1>3

\* Every slot the pointers speak of exists.
LEMMA SlotAtInRing ==
    ASSUME NEW n \in Nat, NEW r \in Pointers(n), PointersAgree(r),
           NEW k \in 0 .. r.capacity
    PROVE  /\ SlotAt(r, k) \in 0 .. (r.capacity - 1)
           /\ SlotAt(r, k) = IF r.read_index + k < r.capacity
                             THEN r.read_index + k
                             ELSE r.read_index + k - r.capacity
<1>1. /\ r.capacity \in Nat \ {0}
      /\ r.read_index \in Nat
      /\ r.read_index < r.capacity
  BY DEF Pointers, PointersAgree
<1>2. r.read_index \in 0 .. (r.capacity - 1)
  BY <1>1
<1>3. (r.read_index + k) % r.capacity = IF r.read_index + k < r.capacity
                                         THEN r.read_index + k
                                         ELSE r.read_index + k - r.capacity
  BY <1>1, <1>2, ModOneTurn
<1>. QED
  BY <1>1, <1>2, <1>3 DEF SlotAt

\* Two places less than a turn apart are two slots.
LEMMA SlotAtInjective ==
    ASSUME NEW n \in Nat, NEW r \in Pointers(n), PointersAgree(r),
           NEW j \in 0 .. (r.capacity - 1), NEW k \in 0 .. (r.capacity - 1),
           SlotAt(r, j) = SlotAt(r, k)
    PROVE  j = k
<1>1. /\ r.capacity \in Nat \ {0}
      /\ r.read_index \in Nat
      /\ r.read_index < r.capacity
  BY DEF Pointers, PointersAgree
<1>2. /\ j \in 0 .. r.capacity
      /\ k \in 0 .. r.capacity
  BY <1>1
<1>3. /\ SlotAt(r, j) = IF r.read_index + j < r.capacity
                         THEN r.read_index + j
                         ELSE r.read_index + j - r.capacity
      /\ SlotAt(r, k) = IF r.read_index + k < r.capacity
                         THEN r.read_index + k
                         ELSE r.read_index + k - r.capacity
  BY <1>2, SlotAtInRing
<1>4. j < r.capacity /\ k < r.capacity /\ j \in Nat /\ k \in Nat
  BY <1>1
<1>5. ASSUME NEW c \in Nat, NEW a \in Nat, a < c, NEW x \in Nat, NEW y \in Nat, x < c, y < c,
             (IF a + x < c THEN a + x ELSE a + x - c) = (IF a + y < c THEN a + y ELSE a + y - c)
      PROVE  x = y
  BY <1>5
<1>. QED
  BY <1>1, <1>3, <1>4, <1>5

\* A ring that is not full has its write pointer on a slot outside the span,
\* and taking that slot adds it to the end of the span.
LEMMA AdvanceWriteFacts ==
    ASSUME NEW n \in Nat, NEW r \in Pointers(n), PointersAgree(r), ~IsFull(r)
    PROVE  LET w == AdvanceWrite(r)
           IN  /\ w \in Pointers(n)
               /\ PointersAgree(w)
               /\ w.size = r.size + 1
               /\ w.capacity = r.capacity
               /\ \A k \in 0 .. r.capacity : SlotAt(w, k) = SlotAt(r, k)
               /\ r.write_index = SlotAt(r, r.size)
               /\ r.write_index \notin Span(r)
               /\ Span(w) = Span(r) \cup {r.write_index}
<1>. DEFINE w == AdvanceWrite(r)
<1>1. /\ r.capacity \in 1 .. n
      /\ r.capacity \in Nat \ {0}
      /\ r.read_index \in Nat
      /\ r.write_index \in Nat
      /\ r.size \in Nat
      /\ r.read_index < r.capacity
      /\ r.write_index < r.capacity
      /\ r.size < r.capacity
      /\ SlotAt(r, r.size) = r.write_index
  BY DEF Pointers, PointersAgree, IsFull, SlotAt
<1>2. /\ (r.write_index + 1) % r.capacity \in Nat
      /\ (r.write_index + 1) % r.capacity
            = IF r.write_index + 1 < r.capacity THEN r.write_index + 1 ELSE 0
  <2>1. r.write_index \in 0 .. (r.capacity - 1) /\ 1 \in 0 .. r.capacity
    BY <1>1
  <2>2. (r.write_index + 1) % r.capacity
            = IF r.write_index + 1 < r.capacity THEN r.write_index + 1
              ELSE r.write_index + 1 - r.capacity
    BY <1>1, <2>1, ModOneTurn
  <2>. QED
    BY <1>1, <2>2
<1>3. /\ w.read_index = r.read_index
      /\ w.capacity = r.capacity
      /\ w.size = r.size + 1
      /\ w.write_index = (r.write_index + 1) % r.capacity
      /\ w \in Pointers(n)
  <2>. DEFINE v == (r.write_index + 1) % r.capacity
  <2>1. v \in Nat /\ r.size + 1 \in Nat
    BY <1>1, <1>2
  <2>2. w = [r EXCEPT !.write_index = v, !.size = r.size + 1]
    BY DEF AdvanceWrite
  <2>. HIDE DEF v, w
  <2>3. /\ w.read_index = r.read_index
        /\ w.capacity = r.capacity
        /\ w.size = r.size + 1
        /\ w.write_index = v
        /\ w \in Pointers(n)
    BY <2>1, <2>2 DEF Pointers
  <2>. QED
    BY <2>3 DEF v
<1>4. \A k \in 0 .. r.capacity : SlotAt(w, k) = SlotAt(r, k)
  BY <1>3 DEF SlotAt
<1>5. PointersAgree(w)
  <2>1. r.size \in 0 .. r.capacity /\ r.size + 1 \in 0 .. r.capacity
    BY <1>1
  <2>2. /\ SlotAt(r, r.size) = IF r.read_index + r.size < r.capacity
                               THEN r.read_index + r.size
                               ELSE r.read_index + r.size - r.capacity
        /\ SlotAt(r, r.size + 1) = IF r.read_index + (r.size + 1) < r.capacity
                               THEN r.read_index + (r.size + 1)
                               ELSE r.read_index + (r.size + 1) - r.capacity
    BY <2>1, SlotAtInRing
  <2>3. SlotAt(r, r.size + 1) = (r.write_index + 1) % r.capacity
    BY <1>1, <1>2, <2>2
  <2>4. (w.read_index + w.size) % w.capacity = w.write_index
    BY <1>3, <2>3 DEF SlotAt
  <2>. QED
    BY <1>1, <1>2, <1>3, <2>4 DEF PointersAgree
<1>6. r.write_index \notin Span(r)
  <2>1. SUFFICES ASSUME NEW k \in 0 .. (r.size - 1), SlotAt(r, k) = r.write_index
                 PROVE  FALSE
    BY DEF Span
  <2>2. k \in 0 .. (r.capacity - 1) /\ r.size \in 0 .. (r.capacity - 1) /\ k # r.size
    BY <1>1
  <2>. QED
    BY <1>1, <2>1, <2>2, SlotAtInjective
<1>7. Span(w) = Span(r) \cup {r.write_index}
  <2>1. 0 .. (w.size - 1) = (0 .. (r.size - 1)) \cup {r.size}
    BY <1>1, <1>3
  <2>2. \A k \in 0 .. r.size : SlotAt(w, k) = SlotAt(r, k)
    BY <1>1, <1>4
  <2>. QED
    BY <1>1, <2>1, <2>2 DEF Span
<1>. QED
  BY <1>1, <1>3, <1>4, <1>5, <1>6, <1>7

\* Releasing the head of a ring whose span is all held moves the read pointer
\* by exactly one slot.
LEMMA ReleaseHeadFacts ==
    ASSUME NEW n \in Nat, NEW r \in Pointers(n), PointersAgree(r), r.size # 0
    PROVE  LET w == Release(r, Span(r) \ {r.read_index})
           IN  /\ w \in Pointers(n)
               /\ PointersAgree(w)
               /\ w.size = r.size - 1
               /\ w.capacity = r.capacity
               /\ \A k \in 0 .. (r.size - 1) : SlotAt(w, k) = SlotAt(r, k + 1)
               /\ r.read_index = SlotAt(r, 0)
               /\ r.read_index \in Span(r)
               /\ Span(w) = Span(r) \ {r.read_index}
<1>. DEFINE held == Span(r) \ {r.read_index}
            w == Release(r, held)
<1>1. /\ r.capacity \in 1 .. n
      /\ r.capacity \in Nat \ {0}
      /\ r.read_index \in Nat
      /\ r.write_index \in Nat
      /\ r.size \in Nat \ {0}
      /\ r.read_index < r.capacity
      /\ r.write_index < r.capacity
      /\ r.size <= r.capacity
      /\ SlotAt(r, r.size) = r.write_index
  BY DEF Pointers, PointersAgree, SlotAt
<1>2. \A k \in 0 .. r.capacity :
        SlotAt(r, k) = IF r.read_index + k < r.capacity
                       THEN r.read_index + k
                       ELSE r.read_index + k - r.capacity
  BY SlotAtInRing
<1>3. SlotAt(r, 0) = r.read_index
  BY <1>1, <1>2
<1>4. \A k \in 1 .. (r.size - 1) : SlotAt(r, k) \in held
  <2>1. TAKE k \in 1 .. (r.size - 1)
  <2>2. k \in 0 .. (r.size - 1) /\ k \in 0 .. r.capacity
    BY <1>1
  <2>3. SlotAt(r, k) # r.read_index
    BY <1>1, <1>2, <2>2
  <2>. QED
    BY <2>2, <2>3 DEF Span
<1>5. Skipped(r, held) = 1
  <2>. DEFINE P(k) == /\ k = r.size \/ SlotAt(r, k) \in held
                      /\ \A j \in 0 .. (k - 1) : SlotAt(r, j) \notin held
  <2>1. 1 \in 0 .. r.size /\ P(1)
    <3>1. 1 = r.size \/ 1 \in 1 .. (r.size - 1)
      BY <1>1
    <3>2. 0 .. (1 - 1) = {0}
      OBVIOUS
    <3>. QED
      BY <1>1, <1>3, <1>4, <3>1, <3>2
  <2>2. ASSUME NEW k \in 0 .. r.size, P(k)
        PROVE  k = 1
    <3>1. k # 0
      BY <1>1, <1>3, <2>2
    <3>2. ~(k > 1)
      <4>1. SUFFICES ASSUME k > 1 PROVE FALSE
        OBVIOUS
      <4>2. 1 \in 0 .. (k - 1) /\ 1 \in 1 .. (r.size - 1)
        BY <1>1, <4>1
      <4>. QED
        BY <1>4, <2>2, <4>2
    <3>. QED
      BY <1>1, <3>1, <3>2
  <2>3. Skipped(r, held) = CHOOSE k \in 0 .. r.size : P(k)
    BY DEF Skipped
  <2>. HIDE DEF P, held
  <2>. QED
    BY <2>1, <2>2, <2>3
<1>6. /\ w.read_index = SlotAt(r, 1)
      /\ w.size = r.size - 1
      /\ w.capacity = r.capacity
      /\ w.write_index = r.write_index
      /\ w = [r EXCEPT !.read_index = SlotAt(r, 1), !.size = r.size - 1]
  BY <1>5 DEF Release, Pointers
<1>7. SlotAt(r, 1) \in 0 .. (r.capacity - 1)
  BY <1>1, SlotAtInRing
<1>8. w \in Pointers(n)
  <2>. DEFINE v == SlotAt(r, 1)
  <2>1. v \in Nat /\ r.size - 1 \in Nat
    BY <1>1, <1>7
  <2>2. w = [r EXCEPT !.read_index = v, !.size = r.size - 1]
    BY <1>6
  <2>. HIDE DEF v, w
  <2>. QED
    BY <2>1, <2>2 DEF Pointers
<1>9. \A k \in 0 .. (r.size - 1) : SlotAt(w, k) = SlotAt(r, k + 1)
  <2>1. TAKE k \in 0 .. (r.size - 1)
  <2>2. k + 1 \in 0 .. r.capacity /\ 1 \in 0 .. r.capacity
    BY <1>1
  <2>3. SlotAt(w, k) = IF SlotAt(r, 1) + k < r.capacity THEN SlotAt(r, 1) + k
                       ELSE SlotAt(r, 1) + k - r.capacity
    <3>1. SlotAt(w, k) = (SlotAt(r, 1) + k) % r.capacity
      BY <1>6 DEF SlotAt
    <3>2. k \in 0 .. r.capacity
      BY <1>1
    <3>. QED
      BY <1>1, <1>7, <3>1, <3>2, ModOneTurn
  <2>. QED
    BY <1>1, <1>2, <1>7, <2>2, <2>3
<1>10. PointersAgree(w)
  <2>1. SlotAt(w, r.size - 1) = SlotAt(r, r.size)
    BY <1>1, <1>9
  <2>2. (w.read_index + w.size) % w.capacity = w.write_index
    BY <1>1, <1>6, <2>1 DEF SlotAt
  <2>. QED
    BY <1>1, <1>6, <1>7, <2>2 DEF PointersAgree
<1>11. Span(w) = held
  <2>1. ASSUME NEW s \in Span(w) PROVE s \in held
    <3>1. PICK k \in 0 .. (w.size - 1) : s = SlotAt(w, k)
      BY DEF Span
    <3>2. k \in 0 .. (r.size - 1) /\ k + 1 \in 1 .. (r.size - 1)
      BY <1>1, <1>6
    <3>. QED
      BY <1>4, <1>9, <3>1, <3>2
  <2>2. ASSUME NEW s \in held PROVE s \in Span(w)
    <3>1. PICK k \in 0 .. (r.size - 1) : s = SlotAt(r, k)
      BY DEF Span
    <3>2. k # 0
      BY <1>3, <3>1
    <3>3. k - 1 \in 0 .. (w.size - 1) /\ k - 1 \in 0 .. (r.size - 1) /\ (k - 1) + 1 = k
      BY <1>1, <1>6, <3>2
    <3>4. SlotAt(w, k - 1) = s
      BY <1>9, <3>1, <3>3
    <3>. QED
      BY <3>3, <3>4 DEF Span
  <2>. QED
    BY <2>1, <2>2
<1>12. r.read_index \in Span(r)
  BY <1>1, <1>3 DEF Span
<1>. HIDE DEF w
<1>. QED
  BY <1>3, <1>6, <1>8, <1>9, <1>10, <1>11, <1>12 DEF w, held
=============================================================================
