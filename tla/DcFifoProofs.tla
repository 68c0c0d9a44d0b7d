---------------------------- MODULE DcFifoProofs ----------------------------
(***************************************************************************)
(* The dual-clock FIFO implements a queue, for every depth of at least     *)
(* four slots: what the reader's clock knows of the write token is late    *)
(* but never early, and what the writer's clock knows of the space is      *)
(* early enough.                                                           *)
(***************************************************************************)
EXTENDS DcFifo, Integers, SequenceTheorems, TLAPS

-----------------------------------------------------------------------------
\* Arithmetic of the ring.

\* How far position p is ahead of position q, going round.
Gap(p, q) == Rot(p, BUFFER_DEPTH - q)

\* A rotation of at most one turn wraps at most once.
LEMMA RotOnce ==
  ASSUME NEW p \in Positions, NEW n \in 0..BUFFER_DEPTH
  PROVE  /\ Rot(p, n) = IF p + n < BUFFER_DEPTH THEN p + n ELSE p + n - BUFFER_DEPTH
         /\ Rot(p, n) \in Positions
<1>1. BUFFER_DEPTH \in Nat \ {0} /\ p \in Nat /\ n \in Nat /\ p < BUFFER_DEPTH
  BY DepthAssumption DEF Positions
<1>2. CASE p + n < BUFFER_DEPTH
  <2>1. (p + n) % BUFFER_DEPTH = p + n
    BY <1>1, <1>2
  <2> QED
    BY <1>1, <1>2, <2>1 DEF Rot, Positions
<1>3. CASE ~(p + n < BUFFER_DEPTH)
  <2>1. (p + n) % BUFFER_DEPTH = p + n - BUFFER_DEPTH
    BY <1>1, <1>3
  <2> QED
    BY <1>1, <1>3, <2>1 DEF Rot, Positions
<1> QED
  BY <1>2, <1>3

LEMMA GapValue ==
  ASSUME NEW p \in Positions, NEW q \in Positions
  PROVE  /\ Gap(p, q) = IF p < q THEN p - q + BUFFER_DEPTH ELSE p - q
         /\ Gap(p, q) \in Positions
<1>1. BUFFER_DEPTH - q \in 0..BUFFER_DEPTH
  BY DepthAssumption DEF Positions
<1> QED
  BY <1>1, RotOnce, DepthAssumption DEF Gap, Positions

\* The gap is what must be rotated, and nothing only between equals.
LEMMA GapIsRotation ==
  ASSUME NEW q \in Positions
  PROVE  /\ \A n \in Positions : Rot(q, n) \in Positions /\ Gap(Rot(q, n), q) = n
         /\ \A p \in Positions : Rot(q, Gap(p, q)) = p
         /\ \A p \in Positions : Gap(p, q) = 0 <=> p = q
<1>1. ASSUME NEW n \in Positions
      PROVE  Rot(q, n) \in Positions /\ Gap(Rot(q, n), q) = n
  <2>1. n \in 0..BUFFER_DEPTH
    BY DepthAssumption DEF Positions
  <2>2. /\ Rot(q, n) = IF q + n < BUFFER_DEPTH THEN q + n ELSE q + n - BUFFER_DEPTH
        /\ Rot(q, n) \in Positions
    BY <2>1, RotOnce
  <2>3. Gap(Rot(q, n), q)
          = IF Rot(q, n) < q THEN Rot(q, n) - q + BUFFER_DEPTH ELSE Rot(q, n) - q
    BY <2>2, GapValue
  <2> QED
    BY <2>2, <2>3, DepthAssumption DEF Positions
<1>2. ASSUME NEW p \in Positions
      PROVE  Rot(q, Gap(p, q)) = p /\ (Gap(p, q) = 0 <=> p = q)
  <2> DEFINE g == Gap(p, q)
  <2>1. g = (IF p < q THEN p - q + BUFFER_DEPTH ELSE p - q) /\ g \in Positions
    BY GapValue
  <2>2. g \in 0..BUFFER_DEPTH
    BY <2>1, DepthAssumption DEF Positions
  <2> HIDE DEF g
  <2>3. Rot(q, g) = IF q + g < BUFFER_DEPTH THEN q + g ELSE q + g - BUFFER_DEPTH
    BY <2>2, RotOnce
  <2>4. Rot(q, g) = p /\ (g = 0 <=> p = q)
    BY <2>1, <2>3, DepthAssumption DEF Positions
  <2> QED
    BY <2>4 DEF g
<1> QED
  BY <1>1, <1>2

\* One step of either end.
LEMMA GapSteps ==
  ASSUME NEW p \in Positions, NEW q \in Positions
  PROVE  /\ Rot(p, 1) \in Positions /\ Rot(q, 1) \in Positions
         /\ Gap(p, q) < BUFFER_DEPTH - 1 => Gap(Rot(p, 1), q) = Gap(p, q) + 1
         /\ Gap(p, q) > 0 => Gap(p, Rot(q, 1)) = Gap(p, q) - 1
<1>1. ASSUME NEW x \in Positions
      PROVE  /\ Rot(x, 1) = IF x + 1 < BUFFER_DEPTH THEN x + 1 ELSE x + 1 - BUFFER_DEPTH
             /\ Rot(x, 1) \in Positions
  BY RotOnce, DepthAssumption
<1>2. Rot(p, 1) \in Positions /\ Rot(q, 1) \in Positions
  BY <1>1
<1>3. Gap(p, q) = IF p < q THEN p - q + BUFFER_DEPTH ELSE p - q
  BY GapValue
<1>4. Gap(Rot(p, 1), q) = IF Rot(p, 1) < q THEN Rot(p, 1) - q + BUFFER_DEPTH ELSE Rot(p, 1) - q
  BY <1>2, GapValue
<1>5. Gap(p, Rot(q, 1)) = IF p < Rot(q, 1) THEN p - Rot(q, 1) + BUFFER_DEPTH ELSE p - Rot(q, 1)
  BY <1>2, GapValue
<1>6. Gap(p, q) < BUFFER_DEPTH - 1 => Gap(Rot(p, 1), q) = Gap(p, q) + 1
  BY <1>1, <1>3, <1>4, DepthAssumption DEF Positions
<1>7. Gap(p, q) > 0 => Gap(p, Rot(q, 1)) = Gap(p, q) - 1
  BY <1>1, <1>3, <1>5, DepthAssumption DEF Positions
<1> QED
  BY <1>2, <1>6, <1>7

\* The detector's three cases are three values of the gap.
LEMMA NearlyFull ==
  ASSUME NEW p \in Positions, NEW q \in Positions
  PROVE  (\E n \in 1..3 : q = Rot(p, n)) <=> Gap(p, q) >= BUFFER_DEPTH - 3
<1>1. Gap(p, q) = IF p < q THEN p - q + BUFFER_DEPTH ELSE p - q
  BY GapValue
<1>2. ASSUME NEW n \in 1..3
      PROVE  q = Rot(p, n) <=> Gap(p, q) = BUFFER_DEPTH - n
  <2>1. Rot(p, n) = IF p + n < BUFFER_DEPTH THEN p + n ELSE p + n - BUFFER_DEPTH
    BY RotOnce, DepthAssumption
  <2> QED
    BY <1>1, <2>1, DepthAssumption DEF Positions
<1>3. Gap(p, q) \in Nat /\ Gap(p, q) < BUFFER_DEPTH
  BY GapValue, DepthAssumption DEF Positions
<1> QED
  BY <1>2, <1>3, DepthAssumption
-----------------------------------------------------------------------------
\* The inductive invariant.

TypeOK ==
  /\ write_token \in Positions /\ read_token \in Positions
  /\ data \in [Positions -> Value]
  /\ full_middle \in BOOLEAN /\ full_up \in BOOLEAN /\ latched_full_s \in BOOLEAN
  /\ unsettled \in {"write", "read", "no"}

\* The write token at position t as the reader's clock may have sampled it: at
\* rest (m = 0), or (m = 1) while it moved on, when the bit both positions share
\* is certain and the two others are not.
Moving(t) == {{Rot(t, 1)} \cup s : s \in SUBSET {t, Rot(t, 2)}}
Sees(bits, t, m) == (m = 0 /\ bits = Bits(t)) \/ (m = 1 /\ bits \in Moving(t))

\* How many values are inside when the write token is at t.
Inside(t) == Gap(Rot(t, 1), read_pointer)

\* 1 while the move of the write token is unsettled.
moved == IF unsettled = "write" THEN 1 ELSE 0

\* The reader never knows more than there is: each stage of its synchronizer shows
\* a token no further than the next one does, and the last no further than the
\* token is; a token that moved in the last step is not yet in the synchronizer.
Late ==
  \E t1, t2 \in Positions, m1, m2 \in {0, 1} :
    /\ Sees(write_token_dn, t1, m1) /\ Sees(middle, t2, m2)
    /\ Inside(t1) + m1 <= Inside(t2)
    /\ Inside(t2) + m2 + moved <= Inside(write_token)

\* The writer knows in time: with one slot less than the capacity free the first
\* stage of its synchronizer warns it, unless it is stopped already, and
\* with the capacity reached it is stopped and stays so.
Warned ==
  LET n == Inside(write_token) IN
  /\ n = BUFFER_DEPTH - 1 =>
       unsettled # "read" /\ full_middle /\ full_up /\ latched_full_s
  /\ n = BUFFER_DEPTH - 2 =>
       /\ ready => full_middle
       /\ unsettled = "read" => full_middle /\ full_up /\ latched_full_s
  /\ n = BUFFER_DEPTH - 3 /\ unsettled = "read" => (ready => full_middle)

IInv == TypeOK /\ Late /\ Warned
LEMMA Pointers ==
  ASSUME TypeOK
  PROVE  /\ write_pointer \in Positions /\ read_pointer \in Positions
         /\ \A t \in Positions : Rot(t, 1) \in Positions /\ Inside(t) \in Positions
         /\ Occupancy = Inside(write_token)
         /\ Inside(write_token) = Gap(write_pointer, read_pointer)
<1>1. write_pointer \in Positions /\ read_pointer \in Positions
  BY RotOnce, DepthAssumption DEF TypeOK, write_pointer, read_pointer
<1>2. ASSUME NEW t \in Positions
      PROVE  Rot(t, 1) \in Positions /\ Inside(t) \in Positions
  BY <1>1, RotOnce, GapValue, DepthAssumption DEF Inside
<1> QED
  BY <1>1, <1>2 DEF Inside, Occupancy, Gap, write_pointer

\* Where the pointers are after an edge.
LEMMA PointerSteps ==
  ASSUME TypeOK
  PROVE  /\ write_token' = write_token => write_pointer' = write_pointer
         /\ write_token' = Rot(write_token, 1) => write_pointer' = Rot(write_pointer, 1)
         /\ read_token' = read_token => read_pointer' = read_pointer
         /\ read_token' = Rot(read_token, 1) => read_pointer' = Rot(read_pointer, 1)
<1>1. Rot(Rot(read_token, 1), 3) = Rot(Rot(read_token, 3), 1)
  <2>1. /\ Rot(read_token, 1) = IF read_token + 1 < BUFFER_DEPTH THEN read_token + 1
                                ELSE read_token + 1 - BUFFER_DEPTH
        /\ Rot(read_token, 3) = IF read_token + 3 < BUFFER_DEPTH THEN read_token + 3
                                ELSE read_token + 3 - BUFFER_DEPTH
        /\ Rot(read_token, 1) \in Positions /\ Rot(read_token, 3) \in Positions
    BY RotOnce, DepthAssumption DEF TypeOK
  <2>2. ASSUME NEW x \in Positions, NEW n \in {1, 3}
        PROVE  Rot(x, n) = IF x + n < BUFFER_DEPTH THEN x + n ELSE x + n - BUFFER_DEPTH
    BY RotOnce, DepthAssumption
  <2> HIDE DEF Positions
  <2>3. /\ Rot(Rot(read_token, 1), 3)
             = IF Rot(read_token, 1) + 3 < BUFFER_DEPTH THEN Rot(read_token, 1) + 3
               ELSE Rot(read_token, 1) + 3 - BUFFER_DEPTH
        /\ Rot(Rot(read_token, 3), 1)
             = IF Rot(read_token, 3) + 1 < BUFFER_DEPTH THEN Rot(read_token, 3) + 1
               ELSE Rot(read_token, 3) + 1 - BUFFER_DEPTH
    BY <2>1, <2>2
  <2> QED
    BY <2>1, <2>3, DepthAssumption DEF TypeOK, Positions
<1> QED
  BY <1>1 DEF write_pointer, read_pointer

-----------------------------------------------------------------------------
\* The reader.

\* It takes a value only when its view of the write token shows one.
LEMMA ReaderSafe ==
  ASSUME TypeOK, valid_o, NEW t \in Positions, NEW m \in {0, 1}, Sees(write_token_dn, t, m)
  PROVE  Inside(t) + m >= 1
<1> DEFINE back(n) == Rot(read_pointer, BUFFER_DEPTH - n)
<1>0. read_pointer \in Positions /\ Rot(t, 1) \in Positions /\ Inside(t) \in Nat
  BY Pointers, DepthAssumption DEF Positions
<1> SUFFICES ASSUME Inside(t) = 0, m = 0 PROVE FALSE
  BY <1>0
<1>1. Rot(t, 1) = read_pointer
  BY <1>0, GapIsRotation DEF Inside
<1>2. write_token_dn = {t, read_pointer}
  BY <1>1 DEF Sees, Bits
<1>3. /\ Rot(t, 1) = IF t + 1 < BUFFER_DEPTH THEN t + 1 ELSE t + 1 - BUFFER_DEPTH
      /\ back(1) = IF read_pointer + (BUFFER_DEPTH - 1) < BUFFER_DEPTH
                   THEN read_pointer + (BUFFER_DEPTH - 1) ELSE read_pointer + (BUFFER_DEPTH - 1) - BUFFER_DEPTH
      /\ back(2) = IF read_pointer + (BUFFER_DEPTH - 2) < BUFFER_DEPTH
                   THEN read_pointer + (BUFFER_DEPTH - 2) ELSE read_pointer + (BUFFER_DEPTH - 2) - BUFFER_DEPTH
  BY <1>0, RotOnce, DepthAssumption
<1>4. back(1) = t /\ back(2) # t /\ back(2) # read_pointer
  BY <1>0, <1>1, <1>3, DepthAssumption DEF Positions
<1> QED
  BY <1>2, <1>4 DEF valid_o

\* What its synchronizer may sample is the write token, or the token in its last
\* move.
LEMMA SampleIsView ==
  ASSUME TypeOK, NEW bits \in SampledToken,
         unsettled = "write" => Inside(write_token) >= 1
  PROVE  \E t \in Positions :
           Sees(bits, t, moved) /\ Inside(t) + moved = Inside(write_token)
<1>1. CASE unsettled # "write"
  <2>1. bits = Bits(write_token)
    BY <1>1 DEF SampledToken
  <2>2. Inside(write_token) + 0 = Inside(write_token)
    BY Pointers DEF TypeOK, Positions
  <2> QED
    BY <1>1, <2>1, <2>2 DEF Sees, TypeOK, moved
<1>2. CASE unsettled = "write"
  <2> DEFINE before == Rot(write_token, BUFFER_DEPTH - 1)
  <2>1. before \in Positions
    BY RotOnce, DepthAssumption DEF TypeOK
  <2>2. /\ before = IF write_token + (BUFFER_DEPTH - 1) < BUFFER_DEPTH
                    THEN write_token + (BUFFER_DEPTH - 1)
                    ELSE write_token + (BUFFER_DEPTH - 1) - BUFFER_DEPTH
        /\ Rot(write_token, 1) = IF write_token + 1 < BUFFER_DEPTH THEN write_token + 1
                                 ELSE write_token + 1 - BUFFER_DEPTH
    BY RotOnce, DepthAssumption DEF TypeOK
  <2> HIDE DEF before
  <2>3. /\ Rot(before, 1) = IF before + 1 < BUFFER_DEPTH THEN before + 1 ELSE before + 1 - BUFFER_DEPTH
        /\ Rot(before, 2) = IF before + 2 < BUFFER_DEPTH THEN before + 2 ELSE before + 2 - BUFFER_DEPTH
    BY <2>1, RotOnce, DepthAssumption
  <2>4. /\ Rot(before, 1) = write_token /\ Rot(before, 2) = Rot(write_token, 1)
        /\ before # write_token /\ before # Rot(write_token, 1) /\ Rot(write_token, 1) # write_token
    BY <2>2, <2>3, DepthAssumption DEF TypeOK, Positions
  <2>5. bits \in Moving(before)
    <3>1. Bits(write_token) = {write_token, Rot(write_token, 1)} /\ Bits(before) = {before, write_token}
      BY <2>4 DEF Bits
    <3>2. Bits(write_token) \cap Bits(before) = {write_token}
      BY <2>4, <3>1
    <3>3. (Bits(write_token) \cup Bits(before)) \ {write_token} = {before, Rot(write_token, 1)}
      BY <2>4, <3>1
    <3>4. \E s \in SUBSET {before, Rot(write_token, 1)} : bits = {write_token} \cup s
      BY <1>2, <3>2, <3>3 DEF SampledToken, before
    <3> QED
      BY <2>4, <3>4 DEF Moving
  <2>6. Inside(before) + 1 = Inside(write_token)
    <3>1. Inside(before) = Gap(write_token, read_pointer)
      BY <2>4 DEF Inside
    <3>2. /\ write_token \in Positions /\ read_pointer \in Positions
          /\ Gap(write_token, read_pointer) \in Positions
      BY Pointers, GapValue DEF TypeOK
    <3>3. Gap(write_token, read_pointer) < BUFFER_DEPTH - 1
            => Inside(write_token) = Gap(write_token, read_pointer) + 1
      BY <3>2, GapSteps DEF Inside
    <3>4. Gap(write_token, read_pointer) # BUFFER_DEPTH - 1
      <4> SUFFICES ASSUME Gap(write_token, read_pointer) = BUFFER_DEPTH - 1 PROVE FALSE
        OBVIOUS
      <4>1. Gap(write_token, read_pointer)
              = IF write_token < read_pointer THEN write_token - read_pointer + BUFFER_DEPTH
                ELSE write_token - read_pointer
        BY <3>2, GapValue
      <4>2. Rot(write_token, 1) = read_pointer
        BY <2>2, <3>2, <4>1, DepthAssumption DEF Positions
      <4>3. Inside(write_token) = 0
        BY <3>2, <4>2, GapIsRotation DEF Inside
      <4> QED
        BY <1>2, <4>3
    <3> QED
      BY <3>1, <3>2, <3>3, <3>4, DepthAssumption DEF Positions
  <2> QED
    BY <1>2, <2>1, <2>5, <2>6 DEF Sees, moved
<1> QED
  BY <1>1, <1>2
\* An edge of the reader's clock keeps its view late: the views move up one stage
\* and, when a value is taken, everything is one nearer.
LEMMA ReadLate ==
  ASSUME TypeOK, Late, NEW ready_i \in BOOLEAN, ReadClk(ready_i)
  PROVE  /\ Late'
         /\ valid_o /\ ready_i => Inside(write_token) >= 1
                                 /\ Inside(write_token)' = Inside(write_token) - 1
         /\ ~(valid_o /\ ready_i) => Inside(write_token)' = Inside(write_token)
<1> DEFINE takes == valid_o /\ ready_i
<1>1. PICK t1 \in Positions, t2 \in Positions, m1 \in {0, 1}, m2 \in {0, 1} :
        /\ Sees(write_token_dn, t1, m1) /\ Sees(middle, t2, m2)
        /\ Inside(t1) + m1 <= Inside(t2)
        /\ Inside(t2) + m2 + moved <= Inside(write_token)
  BY DEF Late
<1>2. /\ \A t \in Positions : Inside(t) \in Nat /\ Rot(t, 1) \in Positions
      /\ write_token \in Positions /\ read_pointer \in Positions /\ moved \in {0, 1}
  <2>1. \A n \in Positions : n \in Nat
    BY DepthAssumption DEF Positions
  <2> QED
    BY <2>1, Pointers DEF TypeOK, moved
<1>3. PICK t3 \in Positions : Sees(middle', t3, moved) /\ Inside(t3) + moved = Inside(write_token)
  <2>1. unsettled = "write" => Inside(write_token) >= 1
    BY <1>1, <1>2 DEF moved
  <2>2. middle' \in SampledToken
    BY DEF ReadClk
  <2> QED
    BY <2>1, <2>2, SampleIsView
<1>4. Inside(t2) + m2 <= Inside(t3)
  BY <1>1, <1>2, <1>3
<1>5. /\ write_token_dn' = middle /\ write_token' = write_token /\ moved' = 0
  BY DEF ReadClk, writeVars, moved
<1>6. Sees(write_token_dn, t2, m2)' /\ Sees(middle', t3, moved)
  BY <1>1, <1>3, <1>5 DEF Sees
<1>7. CASE takes
  <2>1. read_pointer' = Rot(read_pointer, 1)
    BY <1>7, PointerSteps DEF ReadClk
  <2>2. \A t \in Positions : Inside(t) > 0 => Gap(Rot(t, 1), read_pointer') = Inside(t) - 1
    BY <1>2, <2>1, GapSteps DEF Inside
  <2>3. Inside(t1) + m1 >= 1
    BY <1>1, <1>7, ReaderSafe
  <2>4. Inside(t2) > 0 /\ Inside(t3) > 0 /\ Inside(write_token) > 0
    BY <1>1, <1>2, <1>3, <1>4, <2>3
  <2>5. /\ Gap(Rot(t2, 1), read_pointer') = Inside(t2) - 1
        /\ Gap(Rot(t3, 1), read_pointer') = Inside(t3) - 1
        /\ Gap(Rot(write_token, 1), read_pointer') = Inside(write_token) - 1
    BY <1>2, <2>2, <2>4
  <2>6. Late'
    <3>1. /\ Gap(Rot(t2, 1), read_pointer') + m2 <= Gap(Rot(t3, 1), read_pointer')
          /\ Gap(Rot(t3, 1), read_pointer') + moved + 0 <= Gap(Rot(write_token, 1), read_pointer')
      BY <1>2, <1>3, <1>4, <2>5
    <3> QED
      BY <1>2, <1>5, <1>6, <3>1 DEF Late, Inside, Sees
  <2> QED
    BY <1>2, <1>5, <1>7, <2>4, <2>5, <2>6 DEF Inside
<1>8. CASE ~takes
  <2>1. read_pointer' = read_pointer
    BY <1>8, PointerSteps DEF ReadClk
  <2>2. Inside(t2) + m2 <= Inside(t3) /\ Inside(t3) + moved + 0 <= Inside(write_token)
    BY <1>2, <1>3, <1>4
  <2> QED
    BY <1>2, <1>5, <1>6, <1>8, <2>1, <2>2 DEF Late, Inside, Sees
<1> QED
  BY <1>7, <1>8

\* An edge of the writer's clock can only leave the reader further behind.
LEMMA WriteLate ==
  ASSUME TypeOK, Late, NEW valid \in BOOLEAN, NEW d \in Value, WriteClk(valid, d),
         ready => Inside(write_token) < BUFFER_DEPTH - 1
  PROVE  /\ Late'
         /\ valid /\ ready => Inside(write_token)' = Inside(write_token) + 1
         /\ ~(valid /\ ready) => Inside(write_token)' = Inside(write_token)
<1>1. PICK t1 \in Positions, t2 \in Positions, m1 \in {0, 1}, m2 \in {0, 1} :
        /\ Sees(write_token_dn, t1, m1) /\ Sees(middle, t2, m2)
        /\ Inside(t1) + m1 <= Inside(t2)
        /\ Inside(t2) + m2 + moved <= Inside(write_token)
  BY DEF Late
<1>2. /\ \A t \in Positions : Inside(t) \in Nat /\ Rot(t, 1) \in Positions
      /\ write_token \in Positions /\ read_pointer \in Positions /\ moved \in {0, 1}
  <2>1. \A n \in Positions : n \in Nat
    BY DepthAssumption DEF Positions
  <2> QED
    BY <2>1, Pointers DEF TypeOK, moved
<1>3. write_token_dn' = write_token_dn /\ middle' = middle /\ read_pointer' = read_pointer
  BY PointerSteps DEF WriteClk, readVars
<1>4. \A t \in Positions : Gap(Rot(t, 1), read_pointer') = Inside(t)
  BY <1>3 DEF Inside
<1>5. CASE valid /\ ready
  <2>1. write_token' = Rot(write_token, 1) /\ moved' = 1
    BY <1>5 DEF WriteClk, moved
  <2>2. Gap(Rot(write_token', 1), read_pointer') = Inside(write_token) + 1
    BY <1>2, <1>3, <1>5, <2>1, GapSteps DEF Inside
  <2>3. Inside(t2) + m2 + 1 <= Inside(write_token) + 1
    BY <1>1, <1>2
  <2>4. Late'
    BY <1>1, <1>3, <1>4, <2>1, <2>2, <2>3 DEF Late, Inside, Sees
  <2> QED
    BY <1>5, <2>2, <2>4 DEF Inside
<1>6. CASE ~(valid /\ ready)
  <2>1. write_token' = write_token /\ moved' = 0
    BY <1>6 DEF WriteClk, moved
  <2>2. Inside(t2) + m2 + 0 <= Inside(write_token)
    BY <1>1, <1>2
  <2>3. Late'
    BY <1>1, <1>2, <1>3, <1>4, <2>1, <2>2 DEF Late, Inside, Sees
  <2> QED
    BY <1>2, <1>4, <1>6, <2>1, <2>3 DEF Inside
<1> QED
  BY <1>5, <1>6
-----------------------------------------------------------------------------
\* The writer.

\* A writer that is let in finds a slot.
LEMMA WriterSafe ==
  ASSUME TypeOK, Warned, ready
  PROVE  Inside(write_token) < BUFFER_DEPTH - 1
<1>1. Inside(write_token) # BUFFER_DEPTH - 1
  BY DEF Warned, ready
<1>2. Inside(write_token) \in Positions
  BY Pointers DEF TypeOK
<1> QED
  BY <1>1, <1>2, DepthAssumption DEF Positions

\* The detector is right, unless the reader moved in the step before.
LEMMA FullSampled ==
  ASSUME TypeOK, NEW full \in SampledFull, unsettled # "read",
         Inside(write_token) >= BUFFER_DEPTH - 3
  PROVE  full
<1>1. Full(read_pointer)
  BY Pointers, NearlyFull DEF Full
<1> QED
  BY <1>1 DEF SampledFull

\* An edge of the writer's clock keeps it warned.
LEMMA WriteWarned ==
  ASSUME TypeOK, Warned, NEW valid \in BOOLEAN, NEW d \in Value, WriteClk(valid, d),
         valid /\ ready => Inside(write_token)' = Inside(write_token) + 1,
         ~(valid /\ ready) => Inside(write_token)' = Inside(write_token)
  PROVE  Warned'
<1> DEFINE n == Inside(write_token)
<1>1. n \in Nat /\ n <= BUFFER_DEPTH - 1 /\ BUFFER_DEPTH \in Nat /\ BUFFER_DEPTH >= 4
  <2>1. n \in Positions
    BY Pointers DEF TypeOK
  <2> QED
    BY <2>1, DepthAssumption DEF Positions
<1>2. /\ full_up' = full_middle /\ (latched_full_s' <=> full_up \/ valid)
      /\ unsettled' # "read" /\ full_middle' \in SampledFull
  BY DEF WriteClk
<1>3. unsettled # "read" /\ n >= BUFFER_DEPTH - 3 => full_middle'
  BY <1>2, FullSampled
<1>4. /\ n = BUFFER_DEPTH - 1 => unsettled # "read" /\ full_middle /\ full_up /\ latched_full_s
      /\ n = BUFFER_DEPTH - 2 => /\ ready => full_middle
                                 /\ unsettled = "read" => full_middle /\ full_up /\ latched_full_s
      /\ n = BUFFER_DEPTH - 3 /\ unsettled = "read" => (ready => full_middle)
  BY DEF Warned
<1> HIDE DEF n
<1>5. CASE valid /\ ready
  <2>1. n # BUFFER_DEPTH - 1
    BY <1>4, <1>5 DEF ready
  <2>2. n = BUFFER_DEPTH - 2 => full_middle' /\ full_up' /\ latched_full_s'
    <3> SUFFICES ASSUME n = BUFFER_DEPTH - 2 PROVE full_middle' /\ full_up' /\ latched_full_s'
      OBVIOUS
    <3>1. full_middle /\ unsettled # "read"
      BY <1>4, <1>5 DEF ready
    <3>2. n >= BUFFER_DEPTH - 3
      BY <1>1
    <3> QED
      BY <1>2, <1>3, <1>5, <3>1, <3>2
  <2>3. n = BUFFER_DEPTH - 3 => (ready' => full_middle')
    <3> SUFFICES ASSUME n = BUFFER_DEPTH - 3, ready' PROVE full_middle'
      OBVIOUS
    <3>1. n >= BUFFER_DEPTH - 3
      BY <1>1
    <3>2. CASE unsettled = "read"
      \* warned before: full_up' and latched_full_s' stop the writer
      BY <1>2, <1>4, <1>5, <3>2 DEF ready
    <3> QED
      BY <1>3, <3>1, <3>2
  <2>4. Inside(write_token)' = n + 1
    BY <1>5 DEF n
  <2>5. /\ Inside(write_token)' = BUFFER_DEPTH - 1 => n = BUFFER_DEPTH - 2
        /\ Inside(write_token)' = BUFFER_DEPTH - 2 => n = BUFFER_DEPTH - 3
    BY <1>1, <2>4
  <2> QED
    BY <1>2, <2>2, <2>3, <2>5 DEF Warned
<1>6. CASE ~(valid /\ ready)
  <2>1. Inside(write_token)' = n
    BY <1>6 DEF n
  <2>2. n = BUFFER_DEPTH - 1 => full_middle' /\ full_up' /\ latched_full_s'
    <3> SUFFICES ASSUME n = BUFFER_DEPTH - 1 PROVE full_middle' /\ full_up' /\ latched_full_s'
      OBVIOUS
    <3>1. n >= BUFFER_DEPTH - 3
      BY <1>1
    <3> QED
      BY <1>2, <1>3, <1>4, <3>1
  <2>3. n = BUFFER_DEPTH - 2 => (ready' => full_middle')
    <3> SUFFICES ASSUME n = BUFFER_DEPTH - 2, ready' PROVE full_middle'
      OBVIOUS
    <3>1. n >= BUFFER_DEPTH - 3
      BY <1>1
    <3>2. CASE unsettled = "read"
      BY <1>2, <1>4, <3>2 DEF ready
    <3> QED
      BY <1>3, <3>1, <3>2
  <2> QED
    BY <1>2, <2>1, <2>2, <2>3 DEF Warned
<1> QED
  BY <1>5, <1>6

\* An edge of the reader's clock too: it only makes room.
LEMMA ReadWarned ==
  ASSUME TypeOK, Warned, NEW ready_i \in BOOLEAN, ReadClk(ready_i),
         valid_o /\ ready_i => Inside(write_token)' = Inside(write_token) - 1,
         ~(valid_o /\ ready_i) => Inside(write_token)' = Inside(write_token)
  PROVE  Warned'
<1> DEFINE n == Inside(write_token)
<1>1. n \in Nat /\ n <= BUFFER_DEPTH - 1 /\ BUFFER_DEPTH \in Nat
  <2>1. n \in Positions
    BY Pointers DEF TypeOK
  <2> QED
    BY <2>1, DepthAssumption DEF Positions
<1>2. UNCHANGED <<full_middle, full_up, latched_full_s>> /\ (ready' <=> ready)
  BY DEF ReadClk, writeVars, ready
<1>3. /\ n = BUFFER_DEPTH - 1 => unsettled # "read" /\ full_middle /\ full_up /\ latched_full_s
      /\ n = BUFFER_DEPTH - 2 => (ready => full_middle)
  BY DEF Warned
<1> HIDE DEF n
<1>4. CASE valid_o /\ ready_i
  <2>1. Inside(write_token)' = n - 1 /\ unsettled' = "read"
    BY <1>4 DEF ReadClk, n
  <2>2. /\ Inside(write_token)' # BUFFER_DEPTH - 1
        /\ Inside(write_token)' = BUFFER_DEPTH - 2 => n = BUFFER_DEPTH - 1
        /\ Inside(write_token)' = BUFFER_DEPTH - 3 => n = BUFFER_DEPTH - 2
    BY <1>1, <2>1
  <2> QED
    BY <1>2, <1>3, <2>1, <2>2 DEF Warned
<1>5. CASE ~(valid_o /\ ready_i)
  <2>1. Inside(write_token)' = n /\ unsettled' = "no"
    BY <1>5 DEF ReadClk, n
  <2> QED
    BY <1>2, <1>3, <2>1 DEF Warned
<1> QED
  BY <1>4, <1>5

-----------------------------------------------------------------------------
\* The invariant holds.

LEMMA InitInvariant == Init => IInv
<1> SUFFICES ASSUME Init PROVE IInv
  OBVIOUS
<1>1. TypeOK
  <2>1. 0 \in Positions /\ 2 \in Positions
    BY DepthAssumption DEF Positions
  <2>2. data \in [Positions -> Value]
    BY DEF Init
  <2> QED
    BY <2>1, <2>2 DEF Init, TypeOK
<1>2. Rot(2, 1) = 3 /\ read_pointer = 3 /\ 3 \in Positions
  <2>1. 0 \in Positions /\ 2 \in Positions /\ 3 \in Positions
    BY DepthAssumption DEF Positions
  <2>2. Rot(2, 1) = IF 2 + 1 < BUFFER_DEPTH THEN 2 + 1 ELSE 2 + 1 - BUFFER_DEPTH
    BY <2>1, RotOnce, DepthAssumption
  <2>3. Rot(0, 3) = IF 0 + 3 < BUFFER_DEPTH THEN 0 + 3 ELSE 0 + 3 - BUFFER_DEPTH
    BY <2>1, RotOnce, DepthAssumption
  <2> QED
    BY <2>1, <2>2, <2>3, DepthAssumption DEF Init, read_pointer
<1>3. Inside(2) = 0
  BY <1>2, GapIsRotation DEF Inside
<1>4. Late
  <2>1. 2 \in Positions /\ Sees(write_token_dn, 2, 0) /\ Sees(middle, 2, 0) /\ moved = 0
        /\ write_token = 2
    BY DepthAssumption DEF Init, Positions, Sees, moved
  <2>2. Inside(2) + 0 <= Inside(2) /\ Inside(2) + 0 + moved <= Inside(write_token)
    BY <1>3, <2>1
  <2> QED
    BY <2>1, <2>2 DEF Late
<1>5. Warned
  <2>1. Inside(write_token) = 0 /\ unsettled = "no"
    BY <1>3 DEF Init
  <2> QED
    BY <2>1, DepthAssumption DEF Warned
<1> QED
  BY <1>1, <1>4, <1>5 DEF IInv

LEMMA TypeStep == TypeOK /\ [Next]_vars => TypeOK'
<1> SUFFICES ASSUME TypeOK, [Next]_vars PROVE TypeOK'
  OBVIOUS
<1>1. ASSUME NEW valid \in BOOLEAN, NEW d \in Value, WriteClk(valid, d)
      PROVE  TypeOK'
  <2>1. write_token' \in Positions
    BY <1>1, Pointers DEF WriteClk, TypeOK
  <2>2. full_middle' \in BOOLEAN
    <3>1. Full(read_pointer) \in BOOLEAN
      BY DEF Full
    <3> QED
      BY <1>1, <3>1 DEF WriteClk, SampledFull
  <2>3. data' \in [Positions -> Value] /\ full_up' \in BOOLEAN /\ read_token' = read_token
    BY <1>1 DEF WriteClk, TypeOK, readVars
  <2>4. latched_full_s' \in BOOLEAN /\ unsettled' \in {"write", "read", "no"}
    BY <1>1 DEF WriteClk
  <2> QED
    BY <2>1, <2>2, <2>3, <2>4 DEF TypeOK
<1>2. ASSUME NEW ready_i \in BOOLEAN, ReadClk(ready_i)
      PROVE  TypeOK'
  <2>1. read_token' \in Positions
    BY <1>2, Pointers DEF ReadClk, TypeOK
  <2> QED
    BY <1>2, <2>1 DEF ReadClk, writeVars, TypeOK
<1>3. CASE UNCHANGED vars
  BY <1>3 DEF vars, writeVars, readVars, TypeOK
<1> QED
  BY <1>1, <1>2, <1>3 DEF Next

LEMMA StepInvariant == IInv /\ [Next]_vars => IInv'
<1> SUFFICES ASSUME IInv, [Next]_vars PROVE IInv'
  OBVIOUS
<1>0. TypeOK /\ Late /\ Warned /\ TypeOK'
  BY TypeStep DEF IInv
<1>1. ASSUME NEW valid \in BOOLEAN, NEW d \in Value, WriteClk(valid, d)
      PROVE  Late' /\ Warned'
  BY <1>0, <1>1, WriterSafe, WriteLate, WriteWarned
<1>2. ASSUME NEW ready_i \in BOOLEAN, ReadClk(ready_i)
      PROVE  Late' /\ Warned'
  BY <1>0, <1>2, ReadLate, ReadWarned
<1>3. CASE UNCHANGED vars
  <2>1. /\ UNCHANGED <<write_token, full_middle, full_up, latched_full_s, middle, write_token_dn,
                       unsettled>>
        /\ read_pointer' = read_pointer
    BY <1>3 DEF vars, writeVars, readVars, read_pointer
  <2>2. Late'
    BY <1>0, <2>1 DEF Late, Sees, Inside, moved
  <2>3. Warned'
    BY <1>0, <2>1 DEF Warned, Inside, ready
  <2> QED
    BY <1>0, <2>2, <2>3 DEF IInv
<1> QED
  BY <1>0, <1>1, <1>2, <1>3 DEF Next, IInv

\* What each clock domain knows of the other is one of its last few positions, and
\* both keep their distance by it: what the refinement below rests on.
THEOREM ViewsLate == Spec => []IInv
BY InitInvariant, StepInvariant, PTL DEF Spec
-----------------------------------------------------------------------------
\* The refinement.

\* Append and Tail as functions.
LEMMA AppendIs ==
  ASSUME NEW S, NEW s \in Seq(S), NEW e \in S
  PROVE  Append(s, e) = [i \in 1..(Len(s) + 1) |-> IF i = Len(s) + 1 THEN e ELSE s[i]]
<1> DEFINE t == [i \in 1..(Len(s) + 1) |-> IF i = Len(s) + 1 THEN e ELSE s[i]]
<1>1. t \in Seq(S) /\ Len(t) = Len(s) + 1
  <2>1. Len(s) \in Nat /\ \A i \in 1..(Len(s) + 1) : t[i] \in S
    OBVIOUS
  <2> QED
    BY <2>1
<1>2. /\ Append(s, e) \in Seq(S) /\ Len(Append(s, e)) = Len(s) + 1
      /\ \A i \in 1..(Len(s) + 1) : Append(s, e)[i] = IF i = Len(s) + 1 THEN e ELSE s[i]
  BY AppendProperties
<1>3. \A i \in 1..(Len(s) + 1) : t[i] = Append(s, e)[i]
  BY <1>2
<1> HIDE DEF t
<1>4. t = Append(s, e)
  BY <1>1, <1>2, <1>3, SeqEqual
<1> QED
  BY <1>4 DEF t

LEMMA TailIs ==
  ASSUME NEW S, NEW s \in Seq(S), s # <<>>
  PROVE  Tail(s) = [i \in 1..(Len(s) - 1) |-> s[i + 1]]
<1> DEFINE t == [i \in 1..(Len(s) - 1) |-> s[i + 1]]
<1>1. t \in Seq(S) /\ Len(t) = Len(s) - 1
  <2>1. Len(s) - 1 \in Nat /\ \A i \in 1..(Len(s) - 1) : t[i] \in S
    OBVIOUS
  <2> QED
    BY <2>1
<1> QED
  BY <1>1, SeqEqual, HeadTailProperties

\* The slot at distance n from the read pointer holds value n + 1 of the queue.
LEMMA SlotsInOrder ==
  ASSUME TypeOK
  PROVE  /\ Occupancy \in Nat /\ Occupancy < BUFFER_DEPTH
         /\ Contents \in Seq(Value) /\ Len(Contents) = Occupancy
         /\ \A i \in 1..Occupancy : Contents[i] = data[Rot(read_pointer, i - 1)]
         /\ \A i \in 1..Occupancy : /\ Rot(read_pointer, i - 1) \in Positions
                                    /\ Rot(read_pointer, i - 1) # write_pointer
         /\ Rot(read_pointer, Occupancy) = write_pointer
<1>1. Occupancy = Gap(write_pointer, read_pointer) /\ Occupancy \in Positions
      /\ write_pointer \in Positions /\ read_pointer \in Positions
  BY Pointers DEF TypeOK
<1>2. Occupancy \in Nat /\ Occupancy < BUFFER_DEPTH
  BY <1>1, DepthAssumption DEF Positions
<1>3. ASSUME NEW i \in 1..Occupancy
      PROVE  Rot(read_pointer, i - 1) \in Positions /\ Rot(read_pointer, i - 1) # write_pointer
  <2>1. i - 1 \in Positions /\ i - 1 # Occupancy
    BY <1>2, DepthAssumption DEF Positions
  <2> QED
    BY <1>1, <2>1, GapIsRotation
<1>4. Rot(read_pointer, Occupancy) = write_pointer
  BY <1>1, GapIsRotation
<1>5. \A i \in 1..Occupancy : data[Rot(read_pointer, i - 1)] \in Value
  BY <1>3 DEF TypeOK
<1>6. /\ Contents \in Seq(Value) /\ Len(Contents) = Occupancy
      /\ \A i \in 1..Occupancy : Contents[i] = data[Rot(read_pointer, i - 1)]
  BY <1>2, <1>5 DEF Contents
<1> QED
  BY <1>2, <1>3, <1>4, <1>6

\* An edge of the writer's clock puts a value in, or changes nothing inside: the slot
\* it writes in every cycle holds none of the values.
LEMMA WriteRefines ==
  ASSUME IInv, IInv', NEW valid \in BOOLEAN, NEW d \in Value, WriteClk(valid, d)
  PROVE  Abstract!Put \/ Contents' = Contents
<1>0. TypeOK /\ TypeOK' /\ Late /\ Warned
  BY DEF IInv
<1>1. read_pointer' = read_pointer
  BY <1>0, PointerSteps DEF WriteClk, readVars
<1>2. /\ data'[write_pointer] = d
      /\ \A p \in Positions : p # write_pointer => data'[p] = data[p]
  BY <1>0, Pointers DEF WriteClk, TypeOK
<1>3. \A i \in 1..Occupancy : data'[Rot(read_pointer, i - 1)] = Contents[i]
  BY <1>0, <1>2, SlotsInOrder
<1>4. CASE valid /\ ready
  <2>1. Occupancy < BUFFER_DEPTH - 1 /\ Occupancy' = Occupancy + 1
    <3>1. Inside(write_token) < BUFFER_DEPTH - 1
      BY <1>0, <1>4, WriterSafe
    <3>2. Inside(write_token)' = Inside(write_token) + 1
      BY <1>0, <1>4, <3>1, WriteLate
    <3>3. Occupancy = Inside(write_token) /\ Occupancy' = Inside(write_token)'
      BY DEF Occupancy, Inside, Gap, write_pointer
    <3> QED
      BY <3>1, <3>2, <3>3
  <2>2. Contents' = [i \in 1..(Occupancy + 1) |-> data'[Rot(read_pointer, i - 1)]]
    BY <1>1, <2>1 DEF Contents
  <2>3. \A i \in 1..(Occupancy + 1) :
          data'[Rot(read_pointer, i - 1)] = IF i = Occupancy + 1 THEN d ELSE Contents[i]
    BY <1>0, <1>2, <1>3, SlotsInOrder
  <2>4. Contents' = Append(Contents, d)
    BY <1>0, <2>2, <2>3, SlotsInOrder, AppendIs
  <2>5. Len(Contents) < BUFFER_DEPTH - 1
    BY <1>0, <2>1, SlotsInOrder
  <2> QED
    BY <2>4, <2>5 DEF Abstract!Put
<1>5. CASE ~(valid /\ ready)
  <2>1. Occupancy' = Occupancy
    BY <1>0, <1>1, <1>5, PointerSteps DEF Occupancy, WriteClk
  <2>2. Contents' = [i \in 1..Occupancy |-> data'[Rot(read_pointer, i - 1)]]
    BY <1>1, <2>1 DEF Contents
  <2>3. Contents' = Contents
    BY <1>0, <1>3, <2>2, SlotsInOrder DEF Contents
  <2> QED
    BY <2>3
<1> QED
  BY <1>4, <1>5

\* An edge of the reader's clock takes the oldest value out, or changes nothing.
LEMMA ReadRefines ==
  ASSUME IInv, IInv', NEW ready_i \in BOOLEAN, ReadClk(ready_i)
  PROVE  Abstract!Get \/ Contents' = Contents
<1>0. TypeOK /\ TypeOK' /\ Late /\ Warned
  BY DEF IInv
<1>1. write_pointer' = write_pointer /\ data' = data
  BY <1>0, PointerSteps DEF ReadClk, writeVars
<1>2. CASE valid_o /\ ready_i
  <2>1. read_pointer' = Rot(read_pointer, 1)
    BY <1>0, <1>2, PointerSteps DEF ReadClk
  <2>2. Occupancy >= 1 /\ Occupancy' = Occupancy - 1
    <3>1. Inside(write_token) >= 1 /\ Inside(write_token)' = Inside(write_token) - 1
      BY <1>0, <1>2, ReadLate
    <3>2. Occupancy = Inside(write_token) /\ Occupancy' = Inside(write_token)'
      BY DEF Occupancy, Inside, Gap, write_pointer
    <3>3. Occupancy \in Nat
      BY <1>0, SlotsInOrder
    <3> QED
      BY <3>1, <3>2, <3>3
  <2>3. ASSUME NEW i \in 1..(Occupancy - 1)
        PROVE  data[Rot(Rot(read_pointer, 1), i - 1)] = Contents[i + 1]
    <3>1. i \in Positions /\ i - 1 \in Positions /\ i \in 0..BUFFER_DEPTH /\ i - 1 \in 0..BUFFER_DEPTH
          /\ i + 1 \in 1..Occupancy /\ i + 1 - 1 = i
      BY <1>0, SlotsInOrder, DepthAssumption DEF Positions
    <3>2. /\ read_pointer \in Positions /\ Rot(read_pointer, 1) \in Positions
          /\ Rot(read_pointer, 1) = IF read_pointer + 1 < BUFFER_DEPTH THEN read_pointer + 1
                                    ELSE read_pointer + 1 - BUFFER_DEPTH
      BY <1>0, Pointers, RotOnce, DepthAssumption
    <3>3. Rot(Rot(read_pointer, 1), i - 1)
            = IF Rot(read_pointer, 1) + (i - 1) < BUFFER_DEPTH THEN Rot(read_pointer, 1) + (i - 1)
              ELSE Rot(read_pointer, 1) + (i - 1) - BUFFER_DEPTH
      BY <3>1, <3>2, RotOnce
    <3>4. Rot(read_pointer, i)
            = IF read_pointer + i < BUFFER_DEPTH THEN read_pointer + i ELSE read_pointer + i - BUFFER_DEPTH
      BY <3>1, <3>2, RotOnce
    <3>5. Rot(Rot(read_pointer, 1), i - 1) = Rot(read_pointer, i)
      BY <3>1, <3>2, <3>3, <3>4, DepthAssumption DEF Positions
    <3> QED
      BY <1>0, <3>1, <3>5, SlotsInOrder
  <2>4. Contents' = [i \in 1..(Occupancy - 1) |-> data[Rot(Rot(read_pointer, 1), i - 1)]]
    BY <1>1, <2>1, <2>2 DEF Contents
  <2>5. Contents' = [i \in 1..(Occupancy - 1) |-> Contents[i + 1]]
    BY <2>3, <2>4
  <2>6. Contents # <<>> /\ Tail(Contents) = [i \in 1..(Occupancy - 1) |-> Contents[i + 1]]
    <3>1. Contents \in Seq(Value) /\ Len(Contents) = Occupancy /\ Occupancy \in Nat
      BY <1>0, SlotsInOrder
    <3>2. Contents # <<>>
      BY <2>2, <3>1
    <3> QED
      BY <3>1, <3>2, TailIs
  <2> QED
    BY <2>5, <2>6 DEF Abstract!Get
<1>3. CASE ~(valid_o /\ ready_i)
  <2>1. read_pointer' = read_pointer
    BY <1>0, <1>3, PointerSteps DEF ReadClk
  <2>2. Contents' = Contents
    BY <1>1, <2>1 DEF Contents, Occupancy
  <2> QED
    BY <2>2
<1> QED
  BY <1>2, <1>3

\* The two token rings implement a queue of BUFFER_DEPTH - 1 values, for every depth
\* of at least four: nothing is lost, repeated, reordered or overwritten, whatever
\* the two clocks do and whatever a synchronizer makes of bits that change.
THEOREM RingsAreQueue == Spec => Implements
<1>1. Init => Abstract!Init
  <2> SUFFICES ASSUME Init PROVE Contents = <<>>
    BY DEF Abstract!Init
  <2>1. TypeOK
    BY InitInvariant DEF IInv
  <2>2. write_pointer = read_pointer
    <3>1. 0 \in Positions /\ 2 \in Positions
      BY DepthAssumption DEF Positions
    <3>2. Rot(2, 1) = IF 2 + 1 < BUFFER_DEPTH THEN 2 + 1 ELSE 2 + 1 - BUFFER_DEPTH
      BY <3>1, RotOnce, DepthAssumption
    <3>3. Rot(0, 3) = IF 0 + 3 < BUFFER_DEPTH THEN 0 + 3 ELSE 0 + 3 - BUFFER_DEPTH
      BY <3>1, RotOnce, DepthAssumption
    <3> QED
      BY <3>2, <3>3, DepthAssumption DEF Init, write_pointer, read_pointer
  <2>3. Occupancy = 0
    BY <2>1, <2>2, Pointers, GapIsRotation DEF TypeOK
  <2> QED
    BY <2>1, <2>3, SlotsInOrder
<1>2. IInv /\ IInv' /\ [Next]_vars => [Abstract!Next]_Contents
  <2> SUFFICES ASSUME IInv, IInv', [Next]_vars
               PROVE  Abstract!Put \/ Abstract!Get \/ Contents' = Contents
    BY DEF Abstract!Next
  <2>1. CASE UNCHANGED vars
    BY <2>1 DEF vars, writeVars, readVars, Contents, Occupancy, read_pointer, write_pointer
  <2> QED
    BY <2>1, WriteRefines, ReadRefines DEF Next
<1> QED
  BY <1>1, <1>2, ViewsLate, PTL DEF Spec, Implements, Abstract!Spec
=============================================================================
