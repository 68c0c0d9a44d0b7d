----------------------------- MODULE FoldFacts -----------------------------
(***************************************************************************)
(* What a fold over a list computes.  The kernel walks its lists in loops; *)
(* the models write such a loop as FoldLeft, which is Folded below once    *)
(* its definition is expanded.  FoldInvariant is the rule of the loop:     *)
(* what holds before it and is kept by its body holds after it.            *)
(* The body Op and the invariant Good are parameters, so that a module of  *)
(* proofs has an instance for each of its loops.                           *)
(***************************************************************************)
EXTENDS FiniteSetsExt, WellFoundedInduction, TLAPS

CONSTANTS
  Op(_, _, _),    \* the body: context, state, item -> state
  Good(_, _, _)   \* the invariant: context, number of items walked, state

-----------------------------------------------------------------------------
\* Induction, stated of a set so that no predicate has to be instantiated.

Less == {ss \in Nat \X Nat : ss[1] < ss[2]}

LEMMA Induction ==
  ASSUME NEW S \in SUBSET Nat, 0 \in S, \A n \in S : n + 1 \in S
  PROVE  S = Nat
<1> DEFINE Bad == Nat \ S
<1>1. SUFFICES ASSUME Bad # {} PROVE FALSE
  OBVIOUS
<1>2. PICK n \in Bad : \A m \in Bad : ~(<<m, n>> \in Less)
  <2>1. Less = OpToRel(<, Nat)
    BY Zenon DEF Less, OpToRel
  <2>2. IsWellFoundedOn(Less, Nat)
    BY <2>1, NatLessThanWellFounded
  <2>3. Bad \subseteq Nat
    OBVIOUS
  <2> HIDE DEF Bad
  <2> QED
    BY <1>1, <2>2, <2>3, WFMin
<1>3. n - 1 \in Nat /\ n = (n - 1) + 1
  OBVIOUS
<1>4. <<n - 1, n>> \in Less
  BY <1>3 DEF Less
<1>5. n - 1 \in S
  BY <1>2, <1>3, <1>4
<1> QED
  BY <1>3, <1>5

\* A bounded set of numbers has a greatest and a least element.
LEMMA Greatest ==
  ASSUME NEW n \in Nat, NEW S \in SUBSET (0..n), S # {}
  PROVE  \E x \in S : \A y \in S : x >= y
<1> DEFINE Bound == {m \in Nat : \A T \in SUBSET (0..m) :
                       T # {} => \E x \in T : \A y \in T : x >= y}
<1>1. 0 \in Bound
  <2>1. 0..0 = {0}
    OBVIOUS
  <2> SUFFICES ASSUME NEW T \in SUBSET {0}, T # {}
               PROVE  \E x \in T : \A y \in T : x >= y
    BY <2>1
  <2>2. 0 \in T /\ \A y \in T : y = 0
    OBVIOUS
  <2> QED
    BY <2>2
<1>2. ASSUME NEW m \in Bound PROVE m + 1 \in Bound
  <2> SUFFICES ASSUME NEW T \in SUBSET (0..m+1), T # {}
               PROVE  \E x \in T : \A y \in T : x >= y
    OBVIOUS
  <2>1. CASE m + 1 \in T
    BY <2>1
  <2>2. CASE m + 1 \notin T
    <3>1. T \in SUBSET (0..m)
      BY <2>2
    <3> QED
      BY <3>1
  <2> QED
    BY <2>1, <2>2
<1>3. Bound = Nat
  <2> HIDE DEF Bound
  <2>1. Bound \in SUBSET Nat
    BY DEF Bound
  <2> QED
    BY <1>1, <1>2, <2>1, Induction
<1> QED
  BY <1>3

LEMMA Least ==
  ASSUME NEW n \in Nat, NEW S \in SUBSET (0..n), S # {}
  PROVE  \E x \in S : \A y \in S : x <= y
<1> DEFINE T == {n - x : x \in S}
<1>1. T \in SUBSET (0..n) /\ T # {}
  <2>1. \A x \in S : n - x \in 0..n
    OBVIOUS
  <2> QED
    BY <2>1
<1>2. PICK z \in T : \A y \in T : z >= y
  <2> HIDE DEF T
  <2> QED
    BY <1>1, Greatest
<1>3. PICK x \in S : z = n - x
  OBVIOUS
<1>4. \A y \in S : x <= y
  <2> TAKE y \in S
  <2>1. n - y \in T
    OBVIOUS
  <2>2. z >= n - y
    BY <1>2, <2>1
  <2>3. x \in Nat /\ y \in Nat
    OBVIOUS
  <2> QED
    BY <1>3, <2>2, <2>3
<1> QED
  BY <1>4

\* The greatest index is what a fold takes next.
LEMMA MaxOf ==
  ASSUME NEW n \in Nat, NEW S \in SUBSET (1..n), S # {}
  PROVE  Max(S) \in S /\ \A x \in S : x <= Max(S)
<1>1. S \in SUBSET (0..n)
  OBVIOUS
<1>2. \E x \in S : \A y \in S : x >= y
  BY <1>1, Greatest
<1>3. Max(S) \in S /\ \A x \in S : Max(S) >= x
  BY <1>2 DEF Max
<1>4. S \subseteq Nat
  OBVIOUS
<1> QED
  BY <1>3, <1>4

-----------------------------------------------------------------------------
\* MapThenFoldSet goes through a function on sets of indices that is defined by
\* recursion; that there is such a function is what makes it mean anything.

Body(c, base, seq, f, s) ==
  IF s = {} THEN base ELSE Op(c, f[s \ {Max(s)}], seq[Max(s)])

Small(n, m) == {s \in SUBSET (1..n) : \A i \in s : i <= m}

IsIter(c, base, seq, n, f) ==
  f = [s \in SUBSET (1..n) |-> Body(c, base, seq, f, s)]

\* Built one index at a time.
LEMMA IterExists ==
  ASSUME NEW c, NEW base, NEW seq, NEW n \in Nat
  PROVE  \E f : IsIter(c, base, seq, n, f)
<1> DEFINE Reach == {m \in Nat : \E f : f = [s \in Small(n, m) |-> Body(c, base, seq, f, s)]}
<1>1. 0 \in Reach
  <2> DEFINE f == [s \in Small(n, 0) |-> base]
  <2>1. \A s \in Small(n, 0) : s = {}
    BY DEF Small
  <2>2. f = [s \in Small(n, 0) |-> Body(c, base, seq, f, s)]
    BY <2>1 DEF Body
  <2> QED
    BY <2>2
<1>2. ASSUME NEW m \in Reach PROVE m + 1 \in Reach
  <2>1. PICK f : f = [s \in Small(n, m) |-> Body(c, base, seq, f, s)]
    OBVIOUS
  <2>2. m \in Nat
    OBVIOUS
  <2> HIDE DEF Reach
  <2> DEFINE g == [s \in Small(n, m+1) |-> Body(c, base, seq, f, s)]
  <2>3. ASSUME NEW s \in Small(n, m+1), s # {}
        PROVE  s \ {Max(s)} \in Small(n, m) /\ s \ {Max(s)} \in Small(n, m+1)
    <3>1. Max(s) \in s /\ \A x \in s : x <= Max(s)
      BY <2>3, MaxOf DEF Small
    <3>2. Max(s) \in Nat /\ \A x \in s : x \in Nat /\ x <= m + 1
      <4>1. s \in SUBSET (1..n) /\ \A x \in s : x <= m + 1
        BY DEF Small
      <4>2. \A x \in s : x \in Nat
        BY <4>1
      <4> QED
        BY <3>1, <4>1, <4>2
    <3>3. \A i \in s \ {Max(s)} : i <= m
      BY <2>2, <3>1, <3>2
    <3> QED
      BY <3>3 DEF Small
  <2>4. \A s \in Small(n, m) : g[s] = f[s]
    <3> SUFFICES ASSUME NEW s \in Small(n, m) PROVE g[s] = f[s]
      OBVIOUS
    <3>1. s \in Small(n, m+1)
      BY <2>2 DEF Small
    <3> QED
      BY <2>1, <3>1
  <2>5. \A s \in Small(n, m+1) : Body(c, base, seq, f, s) = Body(c, base, seq, g, s)
    BY <2>3, <2>4 DEF Body
  <2>6. g = [s \in Small(n, m+1) |-> Body(c, base, seq, g, s)]
    <3> HIDE DEF g
    <3>1. g = [s \in Small(n, m+1) |-> Body(c, base, seq, f, s)]
      BY DEF g
    <3> QED
      BY <3>1, <2>5
  <2> HIDE DEF g
  <2> QED
    BY <2>2, <2>6 DEF Reach
<1>3. n \in Reach
  <2> HIDE DEF Reach
  <2>1. Reach \in SUBSET Nat
    BY DEF Reach
  <2> QED
    BY <1>1, <1>2, <2>1, Induction
<1>4. Small(n, n) = SUBSET (1..n)
  BY DEF Small
<1> QED
  BY <1>3, <1>4 DEF IsIter

Iter(c, base, seq) ==
  CHOOSE f : f = [s \in SUBSET DOMAIN seq |-> Body(c, base, seq, f, s)]

Folded(c, base, seq) ==
  MapThenFoldSet(LAMBDA x, y : Op(c, y, x), base, LAMBDA i : seq[i], LAMBDA S : Max(S),
                 DOMAIN seq)

\* The rule of the loop.
LEMMA FoldInvariant ==
  ASSUME NEW c, NEW base, NEW seq, NEW n \in Nat, DOMAIN seq = 1..n, Good(c, 0, base),
         \A i \in 1..n : \A s : Good(c, i - 1, s) => Good(c, i, Op(c, s, seq[i]))
  PROVE  Good(c, n, Folded(c, base, seq))
<1> DEFINE f == Iter(c, base, seq)
<1>1. f = [s \in SUBSET (1..n) |-> Body(c, base, seq, f, s)]
  <2>1. \E g : g = [s \in SUBSET (1..n) |-> Body(c, base, seq, g, s)]
    <3>1. \E g : IsIter(c, base, seq, n, g)
      BY IterExists
    <3> QED
      BY <3>1 DEF IsIter
  <2> QED
    BY <2>1, Zenon DEF Iter
<1>2. Folded(c, base, seq) = f[1..n]
  BY DEF Folded, MapThenFoldSet, Iter, Body
<1> HIDE DEF f
<1> DEFINE Done == {m \in Nat : m <= n => Good(c, m, f[1..m])}
<1>3. 0 \in Done
  <2>1. 1..0 = {}
    OBVIOUS
  <2>2. f[{}] = base
    BY <1>1 DEF Body
  <2> QED
    BY <2>1, <2>2
<1>4. ASSUME NEW m \in Done PROVE m + 1 \in Done
  <2> SUFFICES ASSUME m + 1 <= n PROVE Good(c, m + 1, f[1..m+1])
    OBVIOUS
  <2>1. Good(c, m, f[1..m])
    OBVIOUS
  <2>2. 1..m+1 \in SUBSET (1..n) /\ 1..m+1 # {}
    OBVIOUS
  <2>3. Max(1..m+1) = m + 1
    <3>1. Max(1..m+1) \in 1..m+1 /\ \A x \in 1..m+1 : x <= Max(1..m+1)
      BY <2>2, MaxOf
    <3> QED
      BY <3>1
  <2>4. (1..m+1) \ {m+1} = 1..m
    OBVIOUS
  <2>5. f[1..m+1] = Op(c, f[1..m], seq[m+1])
    <3>1. f[1..m+1] = Body(c, base, seq, f, 1..m+1)
      BY <1>1, <2>2
    <3> QED
      BY <3>1, <2>2, <2>3, <2>4 DEF Body
  <2>6. m + 1 \in 1..n /\ (m + 1) - 1 = m
    OBVIOUS
  <2> QED
    BY <2>1, <2>5, <2>6
<1>5. n \in Done
  <2> HIDE DEF Done
  <2>1. Done \in SUBSET Nat
    BY DEF Done
  <2> QED
    BY <1>3, <1>4, <2>1, Induction
<1>6. Good(c, n, f[1..n])
  BY <1>5
<1> QED
  BY <1>2, <1>6
=============================================================================
