------------------------------ MODULE RtosProofs ------------------------------
(***************************************************************************)
(* The kernel for every number of tasks, priorities, queues and values of  *)
(* TickType_t, and for every program of the tasks: its arithmetic on tick  *)
(* counts that wrap; what each operation does to the kernel's lists; what  *)
(* each kernel call leaves; and the invariant of the whole, which the      *)
(* theorems at the end rest on.                                            *)
(***************************************************************************)
EXTENDS Rtos, FiniteSetTheorems, SequenceTheorems, TLAPS

Ticks == 0..(TickMod - 1)

\* What is reduced to the width of TickType_t is a count.
LEMMA Reduced ==
  ASSUME NEW a \in Int
  PROVE  a % TickMod \in Ticks
<1>1. TickMod \in Nat \ {0}
  BY RtosAssumption
<1>2. a % TickMod \in 0..(TickMod - 1)
  BY <1>1
<1> QED
  BY <1>2 DEF Ticks

\* A sum of two counts wraps at most once.
LEMMA Wrapped ==
  ASSUME NEW a \in Ticks, NEW b \in Ticks
  PROVE  (a + b) % TickMod = IF a + b < TickMod THEN a + b ELSE a + b - TickMod
<1>1. TickMod \in Nat \ {0}
  BY RtosAssumption
<1>2. CASE a + b < TickMod
  BY <1>1, <1>2 DEF Ticks
<1>3. CASE ~(a + b < TickMod)
  BY <1>1, <1>3 DEF Ticks
<1> QED
  BY <1>2, <1>3

\* vTaskDelayUntil waits exactly when less time has gone since the previous
\* wake-up than the period: its comparisons are right whether or not the count,
\* the wake-up time or both have wrapped.
THEOREM DelayUntilExact ==
  ASSUME NEW previous \in Ticks, NEW period \in Ticks, NEW gone \in Ticks,
         k.tick = (previous + gone) % TickMod
  PROVE  ShouldDelay(previous, (previous + period) % TickMod) <=> gone < period
<1>1. TickMod \in Nat
  BY RtosAssumption
<1>2. k.tick = IF previous + gone < TickMod THEN previous + gone ELSE previous + gone - TickMod
  BY Wrapped
<1> DEFINE time == (previous + period) % TickMod
<1>3. time = IF previous + period < TickMod THEN previous + period ELSE previous + period - TickMod
  BY Wrapped
<1> HIDE DEF time
<1>4. ShouldDelay(previous, time) <=> gone < period
  BY <1>1, <1>2, <1>3 DEF ShouldDelay, Ticks
<1> QED
  BY <1>4 DEF time

\* While the count has not wrapped since the wait began, xTaskCheckForTimeOut
\* ends the wait exactly when its time has gone and otherwise leaves exactly
\* the rest of it.
THEOREM TimeOutExact ==
  ASSUME NEW s, NEW from, NEW wait \in Ticks,
         s.tick \in Ticks, from.at \in Ticks,
         s.wraps = from.wraps, from.at <= s.tick
  PROVE  LET check == xTaskCheckForTimeOut(s, from, wait)
             gone  == s.tick - from.at
         IN  /\ check.expired <=> gone >= wait
             /\ ~check.expired => check.wait = wait - gone
<1> DEFINE gone == s.tick - from.at
<1>1. TickMod \in Nat \ {0}
  BY RtosAssumption
<1>2. TimedOut(s, from, wait) <=> gone >= wait
  BY <1>1 DEF TimedOut, Ticks
<1>3. CASE gone >= wait
  BY <1>2, <1>3 DEF xTaskCheckForTimeOut
<1>4. CASE ~(gone >= wait)
  <2>1. wait - gone \in Ticks
    BY <1>1, <1>4 DEF Ticks
  <2>2. (wait - gone) % TickMod = wait - gone
    BY <1>1, <2>1 DEF Ticks
  <2> QED
    BY <1>2, <1>4, <2>2 DEF xTaskCheckForTimeOut
<1> QED
  BY <1>3, <1>4

\* Once the count has wrapped since, and has not passed the entry time again, it
\* never ends the wait: the difference of the two counts is computed in int and
\* is negative.  What is left of the wait then grows.
THEOREM TimeOutMissedAfterWrap ==
  ASSUME NEW s, NEW from, NEW wait \in Ticks,
         s.tick \in Ticks, from.at \in Ticks, s.tick < from.at,
         wait + (from.at - s.tick) < TickMod
  PROVE  LET check == xTaskCheckForTimeOut(s, from, wait)
         IN  ~check.expired /\ check.wait > wait
<1>1. TickMod \in Nat \ {0}
  BY RtosAssumption
<1>2. ~TimedOut(s, from, wait)
  BY <1>1 DEF TimedOut, Ticks
<1> DEFINE rest == wait - (s.tick - from.at)
<1>3. rest \in Ticks /\ rest > wait
  BY <1>1 DEF Ticks
<1>4. rest % TickMod = rest
  BY <1>1, <1>3 DEF Ticks
<1> QED
  BY <1>2, <1>3, <1>4 DEF xTaskCheckForTimeOut

-----------------------------------------------------------------------------
\* The scheduler's state: its type, and how its lists agree.

Lists == EventList \cup {"pending"}
Item == Task \cup {xListEnd}

Kernel ==
  [cur : Task, ready : [Prios -> Seq(Item)], top : Prios, delayed : Seq(Task),
   overflow : Seq(Task), ended : Seq(Task), event : [Lists -> Seq(Task)],
   wake : [Task -> Ticks], tick : Ticks, next : Ticks, wraps : 0..WrapMod - 1,
   pended : Nat, yield : BOOLEAN, susp : Nat]

Ready(s, t) == t \in ToSet(s.ready[Prio[t]])
Ended(s) == ToSet(s.ended)

\* No list holds a task twice, and no task is in two lists of the same kind.
Tidy(s) ==
  /\ s \in Kernel
  /\ \A p \in Prios :
       /\ IsInjective(s.ready[p]) /\ xListEnd \in ToSet(s.ready[p])
       /\ \A t \in ToSet(s.ready[p]) \ {xListEnd} : Prio[t] = p /\ p <= s.top
  /\ IsInjective(s.delayed) /\ IsInjective(s.overflow) /\ IsInjective(s.ended)
  /\ ToSet(s.delayed) \cap ToSet(s.overflow) = {}
  /\ Sleepers(s) \cap Ended(s) = {}
  /\ \A t \in Task : Ready(s, t) => t \notin Sleepers(s) /\ t \notin Ended(s)
  /\ \A l \in Lists : IsInjective(s.event[l])
  /\ \A l, m \in Lists : l # m => ToSet(s.event[l]) \cap ToSet(s.event[m]) = {}

\* What an operation on the lists leaves alone.
SameClock(s, r) ==
  /\ r.cur = s.cur /\ r.susp = s.susp /\ r.pended = s.pended /\ r.tick = s.tick
  /\ r.wraps = s.wraps /\ r.yield = s.yield

\* What holds of the scheduler's state between any two operations, and how it
\* moves on.

Linked(s, t) == \E l \in Lists : t \in ToSet(s.event[l])
Has(s, t) == Ready(s, t) \/ t \in Sleepers(s) \/ t \in Ended(s)

\* The idle task is always ready.  A task that waits for an event waits for the
\* clock as well, and one on the pending list may have run out of it.
Sound(s) ==
  /\ Tidy(s) /\ Ready(s, Idle)
  /\ \A l \in EventList : ToSet(s.event[l]) \subseteq Sleepers(s)
  /\ \A t \in ToSet(s.event["pending"]) : Ready(s, t) \/ t \in Sleepers(s)

\* From c to s: but for the tasks in B, a ready task stays ready, and each stays
\* alive, or ended, or freed; but for those in L, none comes to wait for an event;
\* and the current task is the same, or is ready.
Moves(c, s, B, L) ==
  /\ Sound(s) /\ s.susp = c.susp
  /\ s.cur = c.cur \/ (c.susp = 0 /\ Ready(s, s.cur))
  /\ \A t \in Task \ B : /\ Ready(c, t) => Ready(s, t)
                         /\ t \in Ended(s) <=> t \in Ended(c)
                         /\ Has(s, t) <=> Has(c, t)
  /\ \A t \in Task \ L : Linked(s, t) => Linked(c, t)
  /\ (c.susp = 0 /\ c.event["pending"] = <<>>) => s.event["pending"] = <<>>
  /\ \A t \in Task \ B :
       /\ t \in ToSet(c.event["pending"]) => t \in ToSet(s.event["pending"]) \/ Ready(s, t)
       /\ \A l \in EventList : t \in ToSet(s.event[l]) => t \in ToSet(c.event[l])

\* The steps of a move that change nothing Sound or Moves speaks of.
Alike(s, r) ==
  /\ r \in Kernel /\ r.cur = s.cur /\ r.susp = s.susp /\ r.top = s.top
  /\ r.ready = s.ready /\ r.ended = s.ended /\ r.event = s.event
  /\ {r.delayed, r.overflow} = {s.delayed, s.overflow}

\* A sorted list.
Ordered(l, wake) == \A i, j \in DOMAIN l : i < j => wake[l[i]] <= wake[l[j]]

\* Time stands still: tasks may be woken, but none is put to sleep.
Rests(c, s) ==
  /\ s.tick = c.tick /\ s.next = c.next
  /\ ToSet(s.delayed) \subseteq ToSet(c.delayed) /\ ToSet(s.overflow) \subseteq ToSet(c.overflow)
  /\ \A t \in Sleepers(s) : s.wake[t] = c.wake[t]
  /\ Ordered(c.delayed, c.wake) => Ordered(s.delayed, s.wake)
  /\ Ordered(c.overflow, c.wake) => Ordered(s.overflow, s.wake)
SameTimes(c, s) ==
  /\ s.tick = c.tick /\ s.next = c.next /\ s.wake = c.wake
  /\ s.delayed = c.delayed /\ s.overflow = c.overflow

\* The times in the lists of delayed tasks are still to come, those in the list
\* of the overflow after the wrap; and a time of the current tick, which is what
\* a task may ask for, is looked at in the next before the count wraps.
OnTime(s) ==
  /\ Ordered(s.delayed, s.wake) /\ Ordered(s.overflow, s.wake)
  /\ \A t \in ToSet(s.delayed) :
       s.tick <= s.wake[t] /\ s.next <= s.wake[t] /\ s.tick < TickMod - 1
  /\ \A t \in ToSet(s.overflow) : s.wake[t] < s.tick

\* The ticks a sleeping task has still to sleep, and what n ticks do to them.
Due(s, t) ==
  IF t \in ToSet(s.delayed) THEN s.wake[t] - s.tick ELSE s.wake[t] + TickMod - s.tick
Ticked(c, n, s) ==
  /\ OnTime(s) /\ Sleepers(s) \subseteq Sleepers(c)
  /\ s.tick = c.tick + n \/ s.tick = c.tick + n - TickMod
  /\ \A t \in Sleepers(s) : Due(s, t) = Due(c, t) - n /\ (n > 0 => Due(s, t) > 0)
  /\ \A t \in Sleepers(c) \ Sleepers(s) : Due(c, t) <= n

\* After n ticks a task sleeps no more that has slept for long enough, or had
\* been woken before.
Passed(c, n, s) ==
  /\ OnTime(s) /\ Sleepers(s) \subseteq Sleepers(c)
  /\ s.tick = c.tick + n \/ s.tick = c.tick + n - TickMod
  /\ \A t \in Sleepers(s) : Due(s, t) = Due(c, t) - n /\ (n > 0 => Due(s, t) > 0)
  /\ n > 0 => \A t \in Sleepers(c) \ Sleepers(s) :
                Due(c, t) <= n \/ t \in ToSet(c.event["pending"])

\* The current task has gone to sleep for n ticks.
SleepsFor(c, s, n) ==
  /\ OnTime(s) /\ s.tick = c.tick /\ Sleepers(s) \subseteq Sleepers(c) \cup {c.cur}
  /\ \A t \in Sleepers(s) :
       Due(s, t) = IF t = c.cur THEN n ELSE Due(c, t)

\* A task made ready above the current one has the switch made, or noted.
Highest(s) == \A t \in Task : Ready(s, t) => Prio[t] <= Prio[s.cur]
Heeds(c, s) ==
  \/ s.yield \/ Highest(s)
  \/ /\ s.cur = c.cur /\ ~c.yield
     /\ \A t \in Task : Ready(s, t) => Ready(c, t) \/ Prio[t] <= Prio[s.cur]
Keeps(c, s) == Rests(c, s) /\ Heeds(c, s)

-----------------------------------------------------------------------------
\* The kernel's loops over its lists: their bodies, and what they keep.

KeptSame(c, n, s) ==
  Moves(c, s, {}, {}) /\ s.cur = c.cur /\ s.pended = c.pended /\ Keeps(c, s)

\* Of the tasks that are to wake, those met so far sleep no more.
Awake(c, s, t) == MakeReady(RemoveEventItem(s, t), t)
KeptWaking(c, n, s) ==
  /\ Moves(c.from, s, {}, {}) /\ SameClock(c.from, s) /\ Rests(c.from, s)
  /\ \A i \in 1..n : c.expired[i] \notin Sleepers(s)
  /\ Sleepers(c.from) \subseteq Sleepers(s) \cup ToSet(c.expired)
  /\ \A t \in Task : Ready(s, t) => Ready(c.from, t) \/ t \in Sleepers(c.from) \ Sleepers(s)
Expiry == INSTANCE FoldFacts WITH Op <- Awake, Good <- KeptWaking

\* The tasks of the pending list that are still to be moved.
Rest(c, n) == {c.event["pending"][i] : i \in n + 1..Len(c.event["pending"])}
KeptPending(c, n, s) ==
  /\ KeptSame(c, n, s) /\ ToSet(s.event["pending"]) \subseteq Rest(c, n)
  /\ Sleepers(c) \subseteq Sleepers(s) \cup ToSet(c.event["pending"])
Moved(c, s, t) ==
  [MakeReady(RemoveEventItem(s, t), t) EXCEPT !.yield = @ \/ Prio[t] >= Prio[c.cur]]
Moving == INSTANCE FoldFacts WITH Op <- Moved, Good <- KeptPending

KeptCounting(c, n, s) ==
  /\ Moves(c, s, {}, {}) /\ s.cur = c.cur /\ (n <= c.pended => s.pended = c.pended - n)
  /\ Heeds(c, s) /\ (OnTime(c) /\ n < TickMod => Ticked(c, n, s))
CountedTick(c, s, i) ==
  LET r == xTaskIncrementTick(s)
  IN  [r.k EXCEPT !.pended = @ - 1, !.yield = @ \/ r.switch]
Counting == INSTANCE FoldFacts WITH Op <- CountedTick, Good <- KeptCounting

KeptFromNow(c, n, s) == KeptSame(k, n, s)
WokenIfAny(l, s, i) == IF s.event[l] = <<>> THEN s ELSE xTaskRemoveFromEventList(s, l).k
Waking == INSTANCE FoldFacts WITH Op <- WokenIfAny, Good <- KeptFromNow

ReleasedIfMet(released, s, t) ==
  IF t \in released THEN xTaskRemoveFromUnorderedEventList(s, t) ELSE s
\* Those released so far wait for bits no more.
KeptReleased(released, n, s) ==
  /\ KeptSame(k, n, s)
  /\ \A i \in 1..n : k.event[forBits][i] \in released
       => k.event[forBits][i] \notin ToSet(s.event[forBits])
Releasing == INSTANCE FoldFacts WITH Op <- ReleasedIfMet, Good <- KeptReleased

-----------------------------------------------------------------------------
\* The lists of list.c, as sets of items without repetition.

\* A walk's position in the list is a position in the list.
LEMMA SelectIndex ==
  ASSUME NEW S, NEW l \in Seq(S), NEW I \in SUBSET (1..Len(l)), I # {}
  PROVE  Min(I) \in I
<1>1. I \in SUBSET (0..Len(l)) /\ Len(l) \in Nat
  OBVIOUS
<1>2. \E x \in I : \A y \in I : x <= y
  BY <1>1, Moving!Least
<1> QED
  BY <1>2 DEF Min

LEMMA RemoveAtEffect ==
  ASSUME NEW S, NEW l \in Seq(S), IsInjective(l), NEW i \in 1..Len(l)
  PROVE  /\ RemoveAt(l, i) \in Seq(S) /\ IsInjective(RemoveAt(l, i))
         /\ ToSet(RemoveAt(l, i)) = ToSet(l) \ {l[i]}
         /\ Len(RemoveAt(l, i)) = Len(l) - 1
         /\ \A j \in 1..Len(l) - 1 : RemoveAt(l, i)[j] = IF j < i THEN l[j] ELSE l[j + 1]
<1> DEFINE r == SubSeq(l, 1, i - 1) \o SubSeq(l, i + 1, Len(l))
<1>1. /\ r \in Seq(S) /\ Len(r) = Len(l) - 1
      /\ \A j \in 1..Len(r) : r[j] = IF j < i THEN l[j] ELSE l[j + 1]
  <2> DEFINE a == SubSeq(l, 1, i - 1)
             b == SubSeq(l, i + 1, Len(l))
  <2>1. Len(l) \in Nat /\ i \in Nat /\ 1 <= i /\ i <= Len(l)
    OBVIOUS
  <2>2. a \in Seq(S) /\ Len(a) = i - 1 /\ \A j \in 1..i - 1 : a[j] = l[j]
    BY <2>1
  <2>3. b \in Seq(S) /\ Len(b) = Len(l) - i /\ \A j \in 1..Len(l) - i : b[j] = l[i + j]
    BY <2>1
  <2> HIDE DEF a, b
  <2>4. /\ a \o b \in Seq(S) /\ Len(a \o b) = Len(a) + Len(b)
        /\ \A j \in 1..Len(a) + Len(b) : (a \o b)[j] = IF j <= Len(a) THEN a[j] ELSE b[j - Len(a)]
    BY <2>2, <2>3, ConcatProperties
  <2>5. r = a \o b
    BY DEF a, b
  <2> HIDE DEF r
  <2>6. ASSUME NEW j \in 1..Len(l) - 1
        PROVE  (a \o b)[j] = IF j < i THEN l[j] ELSE l[j + 1]
    <3>1. CASE j < i
      BY <2>1, <2>2, <2>3, <2>4, <3>1
    <3>2. CASE ~(j < i)
      <4>1. (a \o b)[j] = b[j - (i - 1)] /\ j - (i - 1) \in 1..Len(l) - i
        BY <2>1, <2>2, <2>3, <2>4, <3>2
      <4>2. b[j - (i - 1)] = l[i + (j - (i - 1))] /\ i + (j - (i - 1)) = j + 1
        BY <2>1, <2>3, <4>1
      <4> QED
        BY <3>2, <4>1, <4>2
    <3> QED
      BY <3>1, <3>2
  <2>7. Len(a) + Len(b) = Len(l) - 1
    BY <2>1, <2>2, <2>3
  <2>8. r \in Seq(S) /\ Len(r) = Len(l) - 1
    BY <2>4, <2>5, <2>7
  <2>9. \A j \in 1..Len(l) - 1 : r[j] = IF j < i THEN l[j] ELSE l[j + 1]
    BY <2>5, <2>6
  <2> QED
    BY <2>8, <2>9
<1> HIDE DEF r
<1>2. DOMAIN r = 1..Len(l) - 1 /\ DOMAIN l = 1..Len(l)
  BY <1>1, LenProperties
<1>3. IsInjective(r)
  <2>1. \A c, d \in 1..Len(l) : l[c] = l[d] => c = d
    BY <1>2 DEF IsInjective
  <2>2. Len(l) \in Nat
    OBVIOUS
  <2>3. ASSUME NEW c \in 1..Len(l) - 1, NEW d \in 1..Len(l) - 1, r[c] = r[d]
        PROVE  c = d
    <3> DEFINE f(j) == IF j < i THEN j ELSE j + 1
    <3>1. f(c) \in 1..Len(l) /\ f(d) \in 1..Len(l) /\ (f(c) = f(d) => c = d)
      BY <2>2
    <3>2. r[c] = l[f(c)] /\ r[d] = l[f(d)]
      BY <1>1
    <3> HIDE DEF f
    <3> QED
      BY <2>1, <2>3, <3>1, <3>2
  <2> QED
    BY <1>2, <2>3 DEF IsInjective
<1>4. ToSet(r) \subseteq ToSet(l) \ {l[i]}
  BY <1>1, <1>2 DEF ToSet, IsInjective
<1>5. ASSUME NEW x \in ToSet(l) \ {l[i]} PROVE x \in ToSet(r)
  <2>1. PICK j \in 1..Len(l) : l[j] = x /\ j # i
    BY <1>2 DEF ToSet
  <2>2. CASE j < i
    <3>1. j \in DOMAIN r /\ r[j] = x
      BY <1>1, <1>2, <2>1, <2>2
    <3> QED
      BY <3>1 DEF ToSet
  <2>3. CASE j > i
    <3>1. j - 1 \in DOMAIN r /\ r[j - 1] = x
      BY <1>1, <1>2, <2>1, <2>3
    <3> QED
      BY <3>1 DEF ToSet
  <2> QED
    BY <2>1, <2>2, <2>3
<1> QED
  BY <1>1, <1>3, <1>4, <1>5 DEF r, RemoveAt

LEMMA InsertAtEffect ==
  ASSUME NEW S, NEW l \in Seq(S), IsInjective(l), NEW i \in 1..Len(l) + 1,
         NEW t \in S, t \notin ToSet(l)
  PROVE  /\ InsertAt(l, i, t) \in Seq(S) /\ IsInjective(InsertAt(l, i, t))
         /\ ToSet(InsertAt(l, i, t)) = ToSet(l) \cup {t}
         /\ Len(InsertAt(l, i, t)) = Len(l) + 1
         /\ \A j \in 1..Len(l) + 1 :
              InsertAt(l, i, t)[j] = IF j < i THEN l[j] ELSE IF j = i THEN t ELSE l[j - 1]
<1> DEFINE r == SubSeq(l, 1, i - 1) \o <<t>> \o SubSeq(l, i, Len(l))
<1>1. /\ r \in Seq(S) /\ Len(r) = Len(l) + 1
      /\ \A j \in 1..Len(r) : r[j] = IF j < i THEN l[j] ELSE IF j = i THEN t ELSE l[j - 1]
  <2> DEFINE a == SubSeq(l, 1, i - 1) \o <<t>>
             b == SubSeq(l, i, Len(l))
  <2>1. Len(l) \in Nat /\ i \in Nat /\ 1 <= i /\ i <= Len(l) + 1
    OBVIOUS
  <2>2. a \in Seq(S) /\ Len(a) = i /\ \A j \in 1..i : a[j] = IF j < i THEN l[j] ELSE t
    BY <2>1
  <2>3. /\ b \in Seq(S) /\ Len(b) = Len(l) + 1 - i
        /\ \A j \in 1..Len(l) + 1 - i : b[j] = l[i + j - 1]
    BY <2>1
  <2> HIDE DEF a, b
  <2>4. /\ a \o b \in Seq(S) /\ Len(a \o b) = Len(a) + Len(b)
        /\ \A j \in 1..Len(a) + Len(b) : (a \o b)[j] = IF j <= Len(a) THEN a[j] ELSE b[j - Len(a)]
    BY <2>2, <2>3, ConcatProperties
  <2>5. r = a \o b
    BY DEF a, b
  <2> HIDE DEF r
  <2>6. ASSUME NEW j \in 1..Len(l) + 1
        PROVE  (a \o b)[j] = IF j < i THEN l[j] ELSE IF j = i THEN t ELSE l[j - 1]
    <3>1. CASE j <= i
      BY <2>1, <2>2, <2>3, <2>4, <3>1
    <3>2. CASE ~(j <= i)
      <4>1. (a \o b)[j] = b[j - i] /\ j - i \in 1..Len(l) + 1 - i
        BY <2>1, <2>2, <2>3, <2>4, <3>2
      <4>2. b[j - i] = l[i + (j - i) - 1] /\ i + (j - i) - 1 = j - 1
        BY <2>1, <2>3, <4>1
      <4> QED
        BY <3>2, <4>1, <4>2
    <3> QED
      BY <3>1, <3>2
  <2>7. Len(a) + Len(b) = Len(l) + 1
    BY <2>1, <2>2, <2>3
  <2> QED
    BY <2>4, <2>5, <2>6, <2>7
<1> HIDE DEF r
<1>2. DOMAIN r = 1..Len(l) + 1 /\ DOMAIN l = 1..Len(l)
  BY <1>1, LenProperties
<1>3. \A j \in 1..Len(l) : l[j] # t
  BY <1>2 DEF ToSet
<1>4. IsInjective(r)
  <2> SUFFICES ASSUME NEW x \in 1..Len(l) + 1, NEW y \in 1..Len(l) + 1, r[x] = r[y]
               PROVE  x = y
    BY <1>2 DEF IsInjective
  <2>1. \A z \in 1..Len(l) + 1 : z # i => (IF z < i THEN z ELSE z - 1) \in 1..Len(l)
    OBVIOUS
  <2>2. \A z \in 1..Len(l) + 1 : r[z] = t <=> z = i
    <3> TAKE z \in 1..Len(l) + 1
    <3>1. CASE z = i
      BY <1>1, <3>1
    <3>2. CASE z # i
      <4>1. r[z] = l[IF z < i THEN z ELSE z - 1]
        BY <1>1, <3>2
      <4> QED
        BY <1>3, <2>1, <3>2, <4>1
    <3> QED
      BY <3>1, <3>2
  <2>3. CASE x # i
    <3> DEFINE x1 == IF x < i THEN x ELSE x - 1
               y1 == IF y < i THEN y ELSE y - 1
    <3>1. x1 \in 1..Len(l) /\ y1 \in 1..Len(l)
      BY <2>1, <2>2, <2>3
    <3>2. r[x] = l[x1] /\ r[y] = l[y1]
      BY <1>1, <2>2, <2>3
    <3>3. x1 = y1
      BY <1>2, <3>1, <3>2 DEF IsInjective
    <3> QED
      BY <2>2, <2>3, <3>3
  <2> QED
    BY <2>2, <2>3
<1>5. ToSet(r) \subseteq ToSet(l) \cup {t}
  <2> SUFFICES ASSUME NEW j \in 1..Len(l) + 1, r[j] # t
               PROVE  r[j] \in ToSet(l)
    BY <1>2 DEF ToSet
  <2> DEFINE j1 == IF j < i THEN j ELSE j - 1
  <2>1. j1 \in 1..Len(l) /\ r[j] = l[j1]
    BY <1>1
  <2> QED
    BY <1>2, <2>1 DEF ToSet
<1>6. t \in ToSet(r)
  BY <1>1, <1>2 DEF ToSet
<1>7. ASSUME NEW x \in ToSet(l) PROVE x \in ToSet(r)
  <2>1. PICK j \in 1..Len(l) : l[j] = x
    BY <1>2 DEF ToSet
  <2>2. CASE j < i
    <3>1. j \in DOMAIN r /\ r[j] = x
      BY <1>1, <1>2, <2>1, <2>2
    <3> QED
      BY <3>1 DEF ToSet
  <2>3. CASE j >= i
    <3>1. j + 1 \in DOMAIN r /\ r[j + 1] = x
      BY <1>1, <1>2, <2>1, <2>3
    <3> QED
      BY <3>1 DEF ToSet
  <2> QED
    BY <2>1, <2>2, <2>3
<1> QED
  BY <1>1, <1>4, <1>5, <1>6, <1>7 DEF r, InsertAt

\* uxListRemove takes the item out, wherever it is, and nothing else.
LEMMA RemoveEffect ==
  ASSUME NEW S, NEW l \in Seq(S), IsInjective(l), NEW t
  PROVE  /\ uxListRemove(l, t) \in Seq(S) /\ IsInjective(uxListRemove(l, t))
         /\ ToSet(uxListRemove(l, t)) = ToSet(l) \ {t}
<1> DEFINE I == {i \in 1..Len(l) : l[i] = t}
<1>1. CASE I = {}
  <2>1. uxListRemove(l, t) = l
    BY <1>1 DEF uxListRemove
  <2>2. t \notin ToSet(l)
    BY <1>1 DEF ToSet
  <2> QED
    BY <2>1, <2>2
<1>2. CASE I # {}
  <2>1. Min(I) \in I
    <3> HIDE DEF I
    <3>1. I \in SUBSET (1..Len(l))
      BY DEF I
    <3> QED
      BY <1>2, <3>1, SelectIndex
  <2>2. uxListRemove(l, t) = RemoveAt(l, Min(I))
    BY <1>2 DEF uxListRemove
  <2>3. Min(I) \in 1..Len(l) /\ l[Min(I)] = t
    BY <2>1
  <2> HIDE DEF I
  <2> QED
    BY <2>2, <2>3, RemoveAtEffect
<1> QED
  BY <1>1, <1>2

\* vListInsert puts the item in at one place.
LEMMA InsertEffect ==
  ASSUME NEW S, NEW l \in Seq(S), IsInjective(l), NEW t \in S, t \notin ToSet(l), NEW value
  PROVE  /\ vListInsert(l, t, value) \in Seq(S) /\ IsInjective(vListInsert(l, t, value))
         /\ ToSet(vListInsert(l, t, value)) = ToSet(l) \cup {t}
<1> DEFINE I == {i \in 1..Len(l) : value[l[i]] > value[t]}
           place == IF I = {} THEN Len(l) + 1 ELSE Min(I)
<1>1. place \in 1..Len(l) + 1
  <2>1. CASE I = {}
    BY <2>1
  <2>2. CASE I # {}
    <3>1. I \in SUBSET (1..Len(l))
      OBVIOUS
    <3>2. Min(I) \in 1..Len(l)
      <4> HIDE DEF I
      <4> QED
        BY <2>2, <3>1, SelectIndex
    <3> HIDE DEF I
    <3> QED
      BY <2>2, <3>2
  <2> QED
    BY <2>1, <2>2
<1>2. vListInsert(l, t, value) = InsertAt(l, place, t)
  BY DEF vListInsert
<1> HIDE DEF place
<1> QED
  BY <1>1, <1>2, InsertAtEffect

\* So does vListInsertEnd.
LEMMA InsertEndEffect ==
  ASSUME NEW S, NEW l \in Seq(S), IsInjective(l), l # <<>>, NEW t \in S, t \notin ToSet(l)
  PROVE  /\ vListInsertEnd(l, t) \in Seq(S) /\ IsInjective(vListInsertEnd(l, t))
         /\ ToSet(vListInsertEnd(l, t)) = ToSet(l) \cup {t}
<1>1. vListInsertEnd(l, t) = InsertAt(l, Len(l), t)
  <2>1. Len(l) \in Nat \ {0}
    OBVIOUS
  <2>2. SubSeq(l, Len(l), Len(l)) = <<l[Len(l)]>>
    <3>1. /\ SubSeq(l, Len(l), Len(l)) \in Seq(S) /\ Len(SubSeq(l, Len(l), Len(l))) = 1
          /\ SubSeq(l, Len(l), Len(l))[1] = l[Len(l)]
      BY <2>1
    <3> DEFINE a == SubSeq(l, Len(l), Len(l))
               b == <<l[Len(l)]>>
    <3>2. b \in Seq(S) /\ Len(b) = 1 /\ b[1] = l[Len(l)]
      BY <2>1
    <3>3. a \in Seq(S) /\ Len(a) = 1 /\ a[1] = l[Len(l)]
      BY <3>1
    <3> HIDE DEF a, b
    <3>4. \A i \in 1..Len(a) : a[i] = b[i]
      BY <3>2, <3>3
    <3>5. a = b
      BY <3>2, <3>3, <3>4, SeqEqual
    <3> QED
      BY <3>5 DEF a, b
  <2>3. SubSeq(l, 1, Len(l) - 1) \o <<t, l[Len(l)]>>
          = SubSeq(l, 1, Len(l) - 1) \o <<t>> \o <<l[Len(l)]>>
    BY <2>1
  <2> QED
    BY <2>2, <2>3 DEF vListInsertEnd, InsertAt, Front, Last
<1>2. Len(l) \in 1..Len(l) + 1
  OBVIOUS
<1> QED
  BY <1>1, <1>2, InsertAtEffect

\* What is sorted stays so when an item leaves it, and when one comes to it.
LEMMA RemoveOrdered ==
  ASSUME NEW S, NEW l \in Seq(S), IsInjective(l), NEW t, NEW wake, Ordered(l, wake)
  PROVE  Ordered(uxListRemove(l, t), wake)
<1> DEFINE I == {i \in 1..Len(l) : l[i] = t}
           r == uxListRemove(l, t)
<1>1. CASE I = {}
  BY <1>1 DEF uxListRemove
<1>2. CASE I # {}
  <2>1. PICK i \in 1..Len(l) : r = RemoveAt(l, i)
    <3>1. I \in SUBSET (1..Len(l))
      OBVIOUS
    <3>2. r = RemoveAt(l, Min(I))
      BY <1>2 DEF uxListRemove
    <3> HIDE DEF r, I
    <3>3. Min(I) \in 1..Len(l)
      BY <1>2, <3>1, SelectIndex
    <3> QED
      BY <3>2, <3>3
  <2> HIDE DEF r
  <2>2. /\ r \in Seq(S) /\ Len(r) = Len(l) - 1 /\ Len(l) \in Nat
        /\ \A j \in 1..Len(l) - 1 : r[j] = IF j < i THEN l[j] ELSE l[j + 1]
    BY <2>1, RemoveAtEffect
  <2>3. DOMAIN r = 1..Len(l) - 1 /\ DOMAIN l = 1..Len(l)
    BY <2>2
  <2>4. ASSUME NEW a \in 1..Len(l) - 1, NEW b \in 1..Len(l) - 1, a < b
        PROVE  wake[r[a]] <= wake[r[b]]
    <3>1. PICK c \in 1..Len(l), d \in 1..Len(l) : c < d /\ r[a] = l[c] /\ r[b] = l[d]
      <4> DEFINE f(j) == IF j < i THEN j ELSE j + 1
      <4>1. f(a) \in 1..Len(l) /\ f(b) \in 1..Len(l) /\ f(a) < f(b)
        BY <2>2, <2>4
      <4>2. r[a] = l[f(a)] /\ r[b] = l[f(b)]
        BY <2>2
      <4> HIDE DEF f
      <4> QED
        BY <4>1, <4>2
    <3> QED
      BY <2>3, <3>1 DEF Ordered
  <2> QED
    BY <2>3, <2>4 DEF Ordered, r
<1> QED
  BY <1>1, <1>2

LEMMA InsertOrdered ==
  ASSUME NEW S, NEW l \in Seq(S), IsInjective(l), NEW t \in S, t \notin ToSet(l),
         NEW value \in [S -> Nat], Ordered(l, value)
  PROVE  Ordered(vListInsert(l, t, value), value)
<1> DEFINE I == {i \in 1..Len(l) : value[l[i]] > value[t]}
           place == IF I = {} THEN Len(l) + 1 ELSE Min(I)
           r == vListInsert(l, t, value)
<1>1. Len(l) \in Nat /\ DOMAIN l = 1..Len(l) /\ \A j \in 1..Len(l) : l[j] \in S
  OBVIOUS
<1>2. PICK i \in 1..Len(l) + 1 :
        /\ r = InsertAt(l, i, t)
        /\ \A j \in 1..Len(l) : IF j < i THEN value[l[j]] <= value[t] ELSE value[t] <= value[l[j]]
  <2>1. r = InsertAt(l, place, t)
    BY DEF vListInsert
  <2>2. CASE I = {}
    <3>1. place = Len(l) + 1 /\ \A j \in 1..Len(l) : value[l[j]] <= value[t]
      BY <1>1, <2>2
    <3> HIDE DEF r, place
    <3> QED
      BY <1>1, <2>1, <3>1
  <2>3. CASE I # {}
    <3>1. I \in SUBSET (0..Len(l))
      OBVIOUS
    <3> DEFINE m == Min(I)
    <3>2. m \in I /\ \A j \in I : m <= j
      <4> HIDE DEF I
      <4>1. \E x \in I : \A y \in I : x <= y
        BY <1>1, <2>3, <3>1, Moving!Least
      <4> QED
        BY <4>1 DEF Min
    <3>3. place = m
      BY <2>3
    <3> HIDE DEF r, place, m
    <3>4. m \in 1..Len(l) /\ value[l[m]] > value[t]
      BY <3>2
    <3>5. ASSUME NEW j \in 1..Len(l), j < m PROVE value[l[j]] <= value[t]
      <4>1. j \notin I
        BY <3>2, <3>4, <3>5
      <4> QED
        BY <1>1, <4>1
    <3>6. ASSUME NEW j \in 1..Len(l), ~(j < m) PROVE value[t] <= value[l[j]]
      <4>1. value[l[m]] <= value[l[j]]
        <5>1. CASE j = m
          BY <1>1, <5>1
        <5>2. CASE m < j
          BY <1>1, <3>4, <5>2 DEF Ordered
        <5> QED
          BY <3>4, <3>6, <5>1, <5>2
      <4> QED
        BY <1>1, <3>4, <4>1
    <3> QED
      BY <1>1, <2>1, <3>3, <3>4, <3>5, <3>6
  <2> QED
    BY <2>2, <2>3
<1> HIDE DEF r
<1>3. /\ r \in Seq(S) /\ Len(r) = Len(l) + 1
      /\ \A j \in 1..Len(l) + 1 : r[j] = IF j < i THEN l[j] ELSE IF j = i THEN t ELSE l[j - 1]
  <2> DEFINE a == InsertAt(l, i, t)
  <2>1. i \in 1..Len(l) + 1 /\ r = a
    BY <1>2
  <2>2. /\ l \in Seq(S) /\ IsInjective(l) /\ t \in S /\ t \notin ToSet(l)
        /\ i \in 1..Len(l) + 1
    BY <1>2
  <2>3. /\ a \in Seq(S) /\ Len(a) = Len(l) + 1
        /\ \A j \in 1..Len(l) + 1 : a[j] = IF j < i THEN l[j] ELSE IF j = i THEN t ELSE l[j - 1]
    BY ONLY <2>2, InsertAtEffect
  <2> HIDE DEF a
  <2> QED
    BY <2>1, <2>3
<1>4. DOMAIN r = 1..Len(l) + 1
  BY <1>1, <1>3
<1>5. \A a, b \in 1..Len(l) : a < b => value[l[a]] <= value[l[b]]
  BY <1>1 DEF Ordered
<1>6. ASSUME NEW a \in 1..Len(l) + 1, NEW b \in 1..Len(l) + 1, a < b
      PROVE  value[r[a]] <= value[r[b]]
  <2>1. CASE b < i
    BY <1>1, <1>3, <1>5, <1>6, <2>1
  <2>2. CASE b = i
    BY <1>1, <1>2, <1>3, <1>6, <2>2
  <2>3. CASE b > i /\ a < i
    <3>1. b - 1 \in 1..Len(l) /\ a \in 1..Len(l) /\ ~(b - 1 < i)
      BY <1>1, <1>6, <2>3
    <3>2. r[b] = l[b - 1] /\ r[a] = l[a]
      BY <1>3, <2>3
    <3>3. value[l[a]] <= value[t] /\ value[t] <= value[l[b - 1]]
      BY <1>2, <2>3, <3>1
    <3>4. value[l[a]] \in Nat /\ value[t] \in Nat /\ value[l[b - 1]] \in Nat
      BY <1>1, <3>1
    <3> QED
      BY <3>2, <3>3, <3>4
  <2>4. CASE b > i /\ a = i
    <3>1. b - 1 \in 1..Len(l) /\ ~(b - 1 < i) /\ b # i /\ ~(b < i)
      BY <1>1, <1>2, <1>6, <2>4
    <3>2. r[b] = l[b - 1] /\ r[a] = t
      BY <1>3, <2>4, <3>1
    <3>3. value[t] <= value[l[b - 1]]
      BY <1>2, <3>1
    <3> QED
      BY <3>2, <3>3
  <2>5. CASE b > i /\ a > i
    <3>1. /\ b - 1 \in 1..Len(l) /\ a - 1 \in 1..Len(l) /\ a - 1 < b - 1
          /\ a # i /\ ~(a < i) /\ b # i /\ ~(b < i)
      BY <1>1, <1>2, <1>6, <2>5
    <3>2. r[b] = l[b - 1] /\ r[a] = l[a - 1]
      BY <1>3, <3>1
    <3> QED
      BY <1>5, <3>1, <3>2
  <2> QED
    BY <1>6, <2>1, <2>2, <2>3, <2>4, <2>5
<1>7. Ordered(r, value)
  BY <1>4, <1>6 DEF Ordered
<1> QED
  BY <1>7 DEF r

LEMMA AppendEffect ==
  ASSUME NEW S, NEW l \in Seq(S), IsInjective(l), NEW t \in S, t \notin ToSet(l)
  PROVE  /\ Append(l, t) \in Seq(S) /\ IsInjective(Append(l, t))
         /\ ToSet(Append(l, t)) = ToSet(l) \cup {t}
<1> DEFINE r == Append(l, t)
<1>1. /\ r \in Seq(S) /\ Len(r) = Len(l) + 1
      /\ \A j \in 1..Len(r) : r[j] = IF j <= Len(l) THEN l[j] ELSE t
  OBVIOUS
<1>2. DOMAIN r = 1..Len(l) + 1 /\ DOMAIN l = 1..Len(l)
  BY <1>1
<1>3. \A j \in 1..Len(l) : l[j] # t
  BY <1>2 DEF ToSet
<1> HIDE DEF r
<1>4. IsInjective(r)
  BY <1>1, <1>2, <1>3 DEF IsInjective
<1>5. ToSet(r) \subseteq ToSet(l) \cup {t} /\ t \in ToSet(r)
  BY <1>1, <1>2 DEF ToSet
<1>6. ToSet(l) \subseteq ToSet(r)
  BY <1>1, <1>2 DEF ToSet
<1> QED
  BY <1>1, <1>4, <1>5, <1>6 DEF r

\* The head is an item, and the tail all the others.
LEMMA TailEffect ==
  ASSUME NEW S, NEW l \in Seq(S), IsInjective(l), l # <<>>
  PROVE  /\ Head(l) \in ToSet(l) /\ Tail(l) \in Seq(S) /\ IsInjective(Tail(l))
         /\ ToSet(Tail(l)) = ToSet(l) \ {Head(l)}
<1>1. Len(l) \in Nat \ {0} /\ DOMAIN l = 1..Len(l) /\ Head(l) = l[1]
  OBVIOUS
<1>2. Tail(l) = RemoveAt(l, 1)
  <2> DEFINE r == SubSeq(l, 1, 1 - 1) \o SubSeq(l, 1 + 1, Len(l))
  <2>1. /\ r \in Seq(S) /\ Len(r) = Len(l) - 1
        /\ \A j \in 1..Len(r) : r[j] = l[j + 1]
    BY <1>1
  <2>2. /\ Tail(l) \in Seq(S) /\ Len(Tail(l)) = Len(l) - 1
        /\ \A j \in 1..Len(Tail(l)) : Tail(l)[j] = l[j + 1]
    BY <1>1
  <2> HIDE DEF r
  <2>3. Tail(l) = r
    BY <2>1, <2>2, SeqEqual
  <2> QED
    BY <2>3 DEF r, RemoveAt
<1>3. Head(l) \in ToSet(l) /\ 1 \in 1..Len(l)
  BY <1>1 DEF ToSet
<1>4. /\ RemoveAt(l, 1) \in Seq(S) /\ IsInjective(RemoveAt(l, 1))
      /\ ToSet(RemoveAt(l, 1)) = ToSet(l) \ {l[1]}
  BY <1>3, RemoveAtEffect
<1> QED
  BY <1>1, <1>2, <1>3, <1>4

\* A list moves on: the same items, and the one pxIndex now points at, the last,
\* is not the end marker when there is another.
LEMMA ForwardEffect ==
  ASSUME NEW S, NEW l \in Seq(S), IsInjective(l), l # <<>>
  PROVE  LET r == Tail(l) \o <<Head(l)>>
         IN  /\ r \in Seq(S) /\ IsInjective(r) /\ ToSet(r) = ToSet(l)
             /\ Last(r) = Head(l) /\ Len(r) = Len(l)
<1> DEFINE r == Tail(l) \o <<Head(l)>>
<1>1. r = Append(Tail(l), Head(l))
  OBVIOUS
<1>2. /\ Head(l) \in ToSet(l) /\ Tail(l) \in Seq(S) /\ IsInjective(Tail(l))
      /\ ToSet(Tail(l)) = ToSet(l) \ {Head(l)}
  BY TailEffect
<1>3. Head(l) \in S
  OBVIOUS
<1>4. r \in Seq(S) /\ IsInjective(r) /\ ToSet(r) = (ToSet(l) \ {Head(l)}) \cup {Head(l)}
  <2>1. Head(l) \notin ToSet(Tail(l))
    BY <1>2
  <2>2. /\ Append(Tail(l), Head(l)) \in Seq(S) /\ IsInjective(Append(Tail(l), Head(l)))
        /\ ToSet(Append(Tail(l), Head(l))) = ToSet(Tail(l)) \cup {Head(l)}
    <3> DEFINE m == Tail(l)
               h == Head(l)
    <3>1. m \in Seq(S) /\ IsInjective(m) /\ h \in S /\ h \notin ToSet(m)
      BY <1>2, <1>3, <2>1
    <3> HIDE DEF m, h
    <3>2. /\ Append(m, h) \in Seq(S) /\ IsInjective(Append(m, h))
          /\ ToSet(Append(m, h)) = ToSet(m) \cup {h}
      BY <3>1, AppendEffect
    <3> QED
      BY <3>2 DEF m, h
  <2> HIDE DEF r
  <2> QED
    BY <1>1, <1>2, <2>2
<1>5. Last(r) = Head(l) /\ Len(r) = Len(l)
  BY <1>2, <1>3 DEF Last
<1> QED
  BY <1>2, <1>4, <1>5

LEMMA NextEntryEffect ==
  ASSUME NEW S, NEW l \in Seq(S), IsInjective(l), listCURRENT_LIST_LENGTH(l) > 0
  PROVE  LET r == listGET_OWNER_OF_NEXT_ENTRY(l)
         IN  /\ r \in Seq(S) /\ IsInjective(r) /\ ToSet(r) = ToSet(l)
             /\ Last(r) \in ToSet(l) \ {xListEnd}
<1> DEFINE f == Tail(l) \o <<Head(l)>>
           g == Tail(f) \o <<Head(f)>>
<1>1. Len(l) \in Nat /\ Len(l) > 1 /\ l # <<>>
  BY DEF listCURRENT_LIST_LENGTH
<1>2. /\ f \in Seq(S) /\ IsInjective(f) /\ ToSet(f) = ToSet(l)
      /\ Last(f) = Head(l) /\ Len(f) = Len(l)
  BY <1>1, ForwardEffect
<1>3. Head(l) \in ToSet(l)
  BY <1>1, TailEffect
<1>4. Head(f) = l[2] /\ l[2] # l[1] /\ l[2] \in ToSet(l) /\ Head(l) = l[1]
  BY <1>1 DEF IsInjective, ToSet
<1> HIDE DEF f
<1>5. f # <<>>
  BY <1>1, <1>2
<1>6. g \in Seq(S) /\ IsInjective(g) /\ ToSet(g) = ToSet(f) /\ Last(g) = Head(f)
  BY <1>2, <1>5, ForwardEffect
<1> HIDE DEF g
<1>7. listGET_OWNER_OF_NEXT_ENTRY(l) = IF Head(l) = xListEnd THEN g ELSE f
  BY DEF listGET_OWNER_OF_NEXT_ENTRY, f, g
<1> QED
  BY <1>2, <1>3, <1>4, <1>6, <1>7

\* A list with its end marker and another item is not empty, and conversely.
LEMMA LengthCounts ==
  ASSUME NEW S, NEW l \in Seq(S), IsInjective(l), xListEnd \in ToSet(l)
  PROVE  listCURRENT_LIST_LENGTH(l) > 0 <=> ToSet(l) # {xListEnd}
<1>1. Len(l) \in Nat /\ DOMAIN l = 1..Len(l)
  OBVIOUS
<1>2. PICK e \in 1..Len(l) : l[e] = xListEnd
  BY <1>1 DEF ToSet
<1>3. ASSUME Len(l) > 1 PROVE ToSet(l) # {xListEnd}
  <2>1. PICK j \in 1..Len(l) : j # e
    BY <1>2, <1>3
  <2>2. l[j] # xListEnd /\ l[j] \in ToSet(l)
    BY <1>1, <1>2, <2>1 DEF IsInjective, ToSet
  <2> QED
    BY <2>2
<1>4. ASSUME ToSet(l) # {xListEnd} PROVE Len(l) > 1
  <2>1. PICK x \in ToSet(l) : x # xListEnd
    BY <1>4
  <2>2. PICK j \in 1..Len(l) : l[j] = x
    BY <1>1, <2>1 DEF ToSet
  <2> QED
    BY <1>1, <1>2, <2>1, <2>2
<1>5. listCURRENT_LIST_LENGTH(l) > 0 <=> Len(l) > 1
  BY <1>1 DEF listCURRENT_LIST_LENGTH
<1> QED
  BY <1>3, <1>4, <1>5

LEMMA PriorityRange ==
  /\ \A t \in Task : Prio[t] \in Prios
  /\ \E n \in Nat : Prios = 0..n
  /\ 0 \in Prios
<1> DEFINE S == {Prio[t] : t \in Task}
<1>1. IsFiniteSet(Task) /\ Task # {} /\ Prio \in [Task -> Nat]
  BY RtosAssumption
<1> DEFINE n == Cardinality(Task)
<1>2. n \in Nat /\ n # 0 /\ ExistsBijection(1..n, Task)
  <2>1. n \in Nat /\ ExistsBijection(1..n, Task)
    BY <1>1, FS_CardinalityType
  <2>2. n # 0
    BY <1>1, FS_EmptySet
  <2> QED
    BY <2>1, <2>2
<1>3. PICK f \in Bijection(1..n, Task) : TRUE
  BY <1>2 DEF ExistsBijection
<1>4. f \in [1..n -> Task] /\ \A t \in Task : \E i \in 1..n : f[i] = t
  BY <1>3 DEF Bijection, Injection, Surjection
<1> HIDE DEF n
<1> DEFINE Reach == {m \in Nat : m >= 1 /\ m <= n =>
                       \E i \in 1..m : \A j \in 1..m : Prio[f[i]] >= Prio[f[j]]}
<1>5. 0 \in Reach
  OBVIOUS
<1>6. ASSUME NEW m \in Reach PROVE m + 1 \in Reach
  <2> SUFFICES ASSUME m + 1 <= n
               PROVE  \E i \in 1..m+1 : \A j \in 1..m+1 : Prio[f[i]] >= Prio[f[j]]
    BY <1>2
  <2>1. \A i \in 1..m+1 : Prio[f[i]] \in Nat
    BY <1>1, <1>2, <1>4
  <2>2. CASE m = 0
    <3>1. 1..m+1 = {1}
      BY <2>2
    <3>2. Prio[f[1]] >= Prio[f[1]]
      BY <2>1, <3>1
    <3> QED
      BY <3>1, <3>2
  <2>3. CASE m # 0
    <3>1. PICK i \in 1..m : \A j \in 1..m : Prio[f[i]] >= Prio[f[j]]
      <4>1. m \in Nat /\ m >= 1 /\ m <= n
        BY <1>2, <2>3
      <4> QED
        BY <4>1
    <3>2. CASE Prio[f[i]] >= Prio[f[m+1]]
      <4>1. \A j \in 1..m+1 : Prio[f[i]] >= Prio[f[j]]
        BY <3>1, <3>2
      <4> QED
        BY <4>1
    <3>3. CASE ~(Prio[f[i]] >= Prio[f[m+1]])
      <4>1. i \in 1..m+1 /\ m + 1 \in 1..m+1
        OBVIOUS
      <4>2. \A j \in 1..m+1 : Prio[f[m+1]] >= Prio[f[j]]
        <5> TAKE j \in 1..m+1
        <5>1. CASE j = m + 1
          BY <2>1, <4>1, <5>1
        <5>2. CASE j \in 1..m
          <6>1. Prio[f[i]] >= Prio[f[j]]
            BY <3>1, <5>2
          <6> QED
            BY <2>1, <3>3, <4>1, <6>1
        <5> QED
          BY <5>1, <5>2
      <4> QED
        BY <4>1, <4>2
    <3> QED
      BY <3>2, <3>3
  <2> QED
    BY <2>2, <2>3
<1>7. n \in Reach
  <2> HIDE DEF Reach
  <2>1. Reach \in SUBSET Nat
    BY DEF Reach
  <2> QED
    BY <1>2, <1>5, <1>6, <2>1, Moving!Induction
<1>8. PICK i \in 1..n : \A j \in 1..n : Prio[f[i]] >= Prio[f[j]]
  BY <1>2, <1>7
<1>9. Prio[f[i]] \in S /\ \A x \in S : Prio[f[i]] >= x
  BY <1>4, <1>8
<1>10. Max(S) \in S /\ \A x \in S : Max(S) >= x
  BY <1>9 DEF Max
<1>11. Max(S) \in Nat /\ \A t \in Task : Prio[t] \in Nat /\ Prio[t] <= Max(S)
  BY <1>1, <1>10
<1>12. Prios = 0..Max(S)
  BY DEF Prios
<1> HIDE DEF S
<1> QED
  BY <1>11, <1>12

LEMMA MaxOfTwo ==
  ASSUME NEW a \in Int, NEW b \in Int
  PROVE  Max({a, b}) = IF a >= b THEN a ELSE b
<1>1. \E x \in {a, b} : \A y \in {a, b} : x >= y
  OBVIOUS
<1>2. Max({a, b}) \in {a, b} /\ \A y \in {a, b} : Max({a, b}) >= y
  BY <1>1 DEF Max
<1> QED
  BY <1>2

LEMMA MinOfTwo ==
  ASSUME NEW a \in Nat, NEW b \in Nat
  PROVE  Min({a, b}) = IF a <= b THEN a ELSE b
<1>1. \E x \in {a, b} : \A y \in {a, b} : x <= y
  OBVIOUS
<1>2. Min({a, b}) \in {a, b} /\ \A y \in {a, b} : Min({a, b}) <= y
  BY <1>1 DEF Min
<1> QED
  BY <1>2

\* A task in none of its lists joins the ready list of its priority.
LEMMA AddToReady ==
  ASSUME NEW s, Tidy(s), NEW t \in Task,
         ~Ready(s, t), t \notin Sleepers(s), t \notin Ended(s)
  PROVE  LET r == prvAddTaskToReadyList(s, t)
         IN  /\ Tidy(r) /\ SameClock(s, r)
             /\ r.delayed = s.delayed /\ r.overflow = s.overflow /\ r.ended = s.ended
             /\ r.event = s.event /\ r.wake = s.wake /\ r.next = s.next
             /\ \A u \in Task : Ready(r, u) <=> Ready(s, u) \/ u = t
<1> DEFINE p == Prio[t]
           top == taskRECORD_READY_PRIORITY(s, t)
           l == vListInsertEnd(s.ready[p], t)
           r == prvAddTaskToReadyList(s, t)
<1>1. s \in Kernel
  BY DEF Tidy
<1>2. p \in Prios /\ Prios \subseteq Nat /\ \A u \in Task : Prio[u] \in Prios
  BY PriorityRange
<1>3. s.ready[p] \in Seq(Item) /\ IsInjective(s.ready[p]) /\ xListEnd \in ToSet(s.ready[p])
  <2>1. s.ready[p] \in Seq(Item)
    BY <1>1, <1>2 DEF Kernel
  <2>2. IsInjective(s.ready[p]) /\ xListEnd \in ToSet(s.ready[p])
    BY <1>2 DEF Tidy
  <2> QED
    BY <2>1, <2>2
<1>4. l \in Seq(Item) /\ IsInjective(l) /\ ToSet(l) = ToSet(s.ready[p]) \cup {t}
  <2>1. s.ready[p] # <<>>
    BY <1>3 DEF ToSet
  <2>2. t \in Item /\ t \notin ToSet(s.ready[p])
    BY DEF Item, Ready
  <2> QED
    BY <1>3, <2>1, <2>2, InsertEndEffect
<1>5. top \in Prios /\ top >= s.top /\ top >= p
  <2>1. s.top \in Prios
    BY <1>1 DEF Kernel
  <2>2. s.top \in Nat /\ p \in Nat
    BY <1>2, <2>1
  <2>3. Max({s.top, p}) = IF s.top >= p THEN s.top ELSE p
    BY <2>2, MaxOfTwo
  <2>4. top = Max({s.top, p})
    BY DEF taskRECORD_READY_PRIORITY
  <2> HIDE DEF top, p
  <2> QED
    BY <1>2, <2>1, <2>2, <2>3, <2>4
<1>6. r = [s EXCEPT !.top = top, !.ready = [s.ready EXCEPT ![p] = l]]
  BY <1>1 DEF prvAddTaskToReadyList, Kernel
<1> HIDE DEF r, l, top, p
<1>7. /\ r \in Kernel /\ r.top = top /\ r.ready = [s.ready EXCEPT ![p] = l]
      /\ r.delayed = s.delayed /\ r.overflow = s.overflow /\ r.ended = s.ended
      /\ r.event = s.event /\ r.wake = s.wake /\ r.next = s.next
  BY <1>1, <1>2, <1>4, <1>5, <1>6 DEF Kernel
<1>8. SameClock(s, r)
  BY <1>1, <1>6 DEF Kernel, SameClock
<1>9. s.ready \in [Prios -> Seq(Item)] /\ s.top \in Prios
  BY <1>1 DEF Kernel
<1>10. \A u \in Task : Ready(r, u) <=> Ready(s, u) \/ u = t
  <2> TAKE u \in Task
  <2>1. CASE Prio[u] = p
    BY <1>2, <1>4, <1>7, <1>9, <2>1 DEF Ready
  <2>2. CASE Prio[u] # p
    BY <1>2, <1>7, <1>9, <2>2 DEF Ready, p
  <2> QED
    BY <2>1, <2>2
<1>11. \A m \in Prios :
         /\ IsInjective(r.ready[m]) /\ xListEnd \in ToSet(r.ready[m])
         /\ \A u \in ToSet(r.ready[m]) \ {xListEnd} : Prio[u] = m /\ m <= r.top
  <2> TAKE m \in Prios
  <2>1. CASE m = p
    BY <1>2, <1>3, <1>4, <1>5, <1>7, <1>9, <2>1 DEF Tidy, p
  <2>2. CASE m # p
    <3>1. r.ready[m] = s.ready[m] /\ m \in Nat /\ s.top \in Nat /\ top \in Nat
      BY <1>2, <1>5, <1>7, <1>9, <2>2
    <3>2. \A u \in ToSet(s.ready[m]) \ {xListEnd} : Prio[u] = m /\ m <= s.top
      BY DEF Tidy
    <3>3. \A u \in ToSet(s.ready[m]) \ {xListEnd} : Prio[u] = m /\ m <= top
      BY <1>5, <3>1, <3>2
    <3> QED
      BY <1>7, <3>1, <3>3 DEF Tidy
  <2> QED
    BY <2>1, <2>2
<1>12. Sleepers(r) = Sleepers(s) /\ Ended(r) = Ended(s)
  BY <1>7 DEF Sleepers, Ended
<1>13. Tidy(r)
  BY <1>7, <1>10, <1>11, <1>12 DEF Tidy
<1> QED
  BY <1>7, <1>8, <1>10, <1>13 DEF r

\* A task's generic item leaves the list it is in.
LEMMA LeaveGeneric ==
  ASSUME NEW s, Tidy(s), NEW t \in Task
  PROVE  LET r == RemoveGenericItem(s, t)
         IN  /\ Tidy(r) /\ SameClock(s, r) /\ r.event = s.event /\ r.next = s.next
             /\ r.top = s.top /\ Rests(s, r)
             /\ \A u \in Task : Ready(r, u) <=> Ready(s, u) /\ u # t
             /\ ToSet(r.delayed) = ToSet(s.delayed) \ {t}
             /\ ToSet(r.overflow) = ToSet(s.overflow) \ {t}
             /\ Ended(r) = Ended(s) \ {t}
<1> DEFINE p == Prio[t]
           l == uxListRemove(s.ready[p], t)
           d == uxListRemove(s.delayed, t)
           o == uxListRemove(s.overflow, t)
           e == uxListRemove(s.ended, t)
           r == RemoveGenericItem(s, t)
<1>1. s \in Kernel
  BY DEF Tidy
<1>2. p \in Prios /\ Prios \subseteq Nat /\ \A u \in Task : Prio[u] \in Prios
  BY PriorityRange
<1>3. s.ready[p] \in Seq(Item) /\ IsInjective(s.ready[p]) /\ xListEnd \in ToSet(s.ready[p])
  <2>1. s.ready[p] \in Seq(Item)
    BY <1>1, <1>2 DEF Kernel
  <2>2. IsInjective(s.ready[p]) /\ xListEnd \in ToSet(s.ready[p])
    BY <1>2 DEF Tidy
  <2> QED
    BY <2>1, <2>2
<1>4. l \in Seq(Item) /\ IsInjective(l) /\ ToSet(l) = ToSet(s.ready[p]) \ {t}
  BY <1>3, RemoveEffect
<1>5. d \in Seq(Task) /\ IsInjective(d) /\ ToSet(d) = ToSet(s.delayed) \ {t}
  BY <1>1, RemoveEffect DEF Tidy, Kernel
<1>6. o \in Seq(Task) /\ IsInjective(o) /\ ToSet(o) = ToSet(s.overflow) \ {t}
  BY <1>1, RemoveEffect DEF Tidy, Kernel
<1>7. e \in Seq(Task) /\ IsInjective(e) /\ ToSet(e) = ToSet(s.ended) \ {t}
  BY <1>1, RemoveEffect DEF Tidy, Kernel
<1>8. r = [s EXCEPT !.wake = [s.wake EXCEPT ![t] = 0], !.ready = [s.ready EXCEPT ![p] = l],
                    !.delayed = d, !.overflow = o, !.ended = e]
  BY <1>1 DEF RemoveGenericItem, Kernel
<1> HIDE DEF r, l, d, o, e, p
<1>9. 0 \in Ticks /\ t # xListEnd
  BY RtosAssumption DEF Ticks
<1>10. /\ r \in Kernel /\ r.top = s.top /\ r.ready = [s.ready EXCEPT ![p] = l]
       /\ r.delayed = d /\ r.overflow = o /\ r.ended = e
       /\ r.event = s.event /\ r.next = s.next
  BY <1>1, <1>2, <1>4, <1>5, <1>6, <1>7, <1>8, <1>9 DEF Kernel
<1>11. SameClock(s, r)
  BY <1>1, <1>8 DEF Kernel, SameClock
<1>12. s.ready \in [Prios -> Seq(Item)] /\ s.top \in Prios
  BY <1>1 DEF Kernel
<1>13. \A u \in Task : Ready(r, u) <=> Ready(s, u) /\ u # t
  <2> TAKE u \in Task
  <2>1. CASE Prio[u] = p
    BY <1>2, <1>4, <1>10, <1>12, <2>1 DEF Ready
  <2>2. CASE Prio[u] # p
    BY <1>2, <1>10, <1>12, <2>2 DEF Ready, p
  <2> QED
    BY <2>1, <2>2
<1>14. \A m \in Prios :
         /\ IsInjective(r.ready[m]) /\ xListEnd \in ToSet(r.ready[m])
         /\ \A u \in ToSet(r.ready[m]) \ {xListEnd} : Prio[u] = m /\ m <= r.top
  <2> TAKE m \in Prios
  <2>1. \A u \in ToSet(s.ready[m]) \ {xListEnd} : Prio[u] = m /\ m <= s.top
    BY DEF Tidy
  <2>2. IsInjective(s.ready[m]) /\ xListEnd \in ToSet(s.ready[m])
    BY DEF Tidy
  <2>3. CASE m = p
    <3>1. r.ready[m] = l
      BY <1>2, <1>10, <1>12, <2>3
    <3> QED
      BY <1>4, <1>9, <1>10, <2>1, <2>2, <2>3, <3>1
  <2>4. CASE m # p
    <3>1. r.ready[m] = s.ready[m]
      BY <1>10, <1>12, <2>4
    <3> QED
      BY <1>10, <2>1, <2>2, <3>1
  <2> QED
    BY <2>3, <2>4
<1>15. /\ Sleepers(r) = Sleepers(s) \ {t} /\ Ended(r) = Ended(s) \ {t}
       /\ ToSet(r.delayed) \cap ToSet(r.overflow) = {}
  BY <1>5, <1>6, <1>7, <1>10 DEF Sleepers, Ended, Tidy
<1>16. Tidy(r)
  <2>1. /\ \A u \in Task : Ready(r, u) => u \notin Sleepers(r) /\ u \notin Ended(r)
        /\ Sleepers(r) \cap Ended(r) = {}
    BY <1>13, <1>15 DEF Tidy
  <2>2. IsInjective(r.delayed) /\ IsInjective(r.overflow) /\ IsInjective(r.ended)
    BY <1>5, <1>6, <1>7, <1>10
  <2>3. /\ \A m \in Lists : IsInjective(r.event[m])
        /\ \A m, n \in Lists : m # n => ToSet(r.event[m]) \cap ToSet(r.event[n]) = {}
    BY <1>10 DEF Tidy
  <2> QED
    BY <1>10, <1>14, <1>15, <2>1, <2>2, <2>3, Zenon DEF Tidy
<1>17. Rests(s, r)
  <2>1. /\ s.delayed \in Seq(Task) /\ IsInjective(s.delayed)
        /\ s.overflow \in Seq(Task) /\ IsInjective(s.overflow)
        /\ s.wake \in [Task -> Ticks]
    BY <1>1 DEF Tidy, Kernel
  <2>2. /\ Ordered(s.delayed, s.wake) => Ordered(d, s.wake)
        /\ Ordered(s.overflow, s.wake) => Ordered(o, s.wake)
    BY <2>1, RemoveOrdered DEF d, o
  <2>3. r.wake = [s.wake EXCEPT ![t] = 0]
    BY <1>1, <1>8 DEF Kernel
  <2>4. \A u \in Task : u # t => r.wake[u] = s.wake[u]
    BY <2>1, <2>3
  <2>5. /\ ToSet(d) = {d[i] : i \in DOMAIN d} /\ ToSet(o) = {o[i] : i \in DOMAIN o}
    BY DEF ToSet
  <2>6. /\ \A i \in DOMAIN d : d[i] \in Task /\ d[i] # t
        /\ \A i \in DOMAIN o : o[i] \in Task /\ o[i] # t
    BY <1>5, <1>6, <2>5
  <2>7. /\ Ordered(d, s.wake) => Ordered(d, r.wake)
        /\ Ordered(o, s.wake) => Ordered(o, r.wake)
    BY <2>4, <2>6 DEF Ordered
  <2>8. \A u \in Sleepers(r) : r.wake[u] = s.wake[u]
    <3>1. Sleepers(r) \subseteq Task \ {t}
      BY <1>5, <1>6, <1>10, <2>5, <2>6 DEF Sleepers
    <3> QED
      BY <2>4, <3>1
  <2> QED
    BY <1>5, <1>6, <1>10, <1>11, <2>2, <2>7, <2>8 DEF Rests, SameClock
<1> QED
  BY <1>5, <1>6, <1>10, <1>11, <1>13, <1>15, <1>16, <1>17 DEF r

\* A task's event item leaves the list it is in.
LEMMA LeaveEvents ==
  ASSUME NEW s, Tidy(s), NEW t \in Task
  PROVE  LET r == RemoveEventItem(s, t)
         IN  /\ Tidy(r) /\ SameClock(s, r)
             /\ r.ready = s.ready /\ r.delayed = s.delayed /\ r.overflow = s.overflow
             /\ r.ended = s.ended /\ SameTimes(s, r)
             /\ \A l \in Lists : ToSet(r.event[l]) = ToSet(s.event[l]) \ {t}
<1> DEFINE e == [l \in Lists |-> uxListRemove(s.event[l], t)]
           r == RemoveEventItem(s, t)
<1>1. s \in Kernel /\ s.event \in [Lists -> Seq(Task)]
  BY DEF Tidy, Kernel
<1>2. \A l \in Lists : /\ e[l] \in Seq(Task) /\ IsInjective(e[l])
                       /\ ToSet(e[l]) = ToSet(s.event[l]) \ {t}
  <2> TAKE l \in Lists
  <2>1. s.event[l] \in Seq(Task) /\ IsInjective(s.event[l])
    BY <1>1 DEF Tidy
  <2>2. e[l] = uxListRemove(s.event[l], t)
    OBVIOUS
  <2> HIDE DEF e
  <2> QED
    BY <2>1, <2>2, RemoveEffect
<1>3. r = [s EXCEPT !.event = e]
  BY <1>1 DEF RemoveEventItem
<1>4. DOMAIN e = Lists /\ e = [l \in Lists |-> e[l]]
  OBVIOUS
<1> HIDE DEF r, e
<1>5. e \in [Lists -> Seq(Task)]
  BY <1>2, <1>4
<1>6. /\ r \in Kernel /\ r.event = e /\ r.ready = s.ready /\ r.top = s.top
      /\ r.delayed = s.delayed /\ r.overflow = s.overflow /\ r.ended = s.ended
  BY <1>1, <1>3, <1>5 DEF Kernel
<1>7. SameClock(s, r)
  BY <1>1, <1>3 DEF Kernel, SameClock
<1>8. /\ \A l \in Lists : IsInjective(e[l])
      /\ \A l, m \in Lists : l # m => ToSet(e[l]) \cap ToSet(e[m]) = {}
  BY <1>2 DEF Tidy
<1>9. Sleepers(r) = Sleepers(s) /\ Ended(r) = Ended(s) /\ \A u : Ready(r, u) <=> Ready(s, u)
  BY <1>6 DEF Sleepers, Ended, Ready
<1>10. Tidy(r)
  BY <1>6, <1>8, <1>9 DEF Tidy
<1>11. SameTimes(s, r)
  BY <1>1, <1>3 DEF Kernel, SameTimes
<1> QED
  BY <1>2, <1>6, <1>7, <1>10, <1>11 DEF r

\* A task is moved to the ready list of its priority, whatever list it is in.
LEMMA MakeReadyEffect ==
  ASSUME NEW s, Tidy(s), NEW t \in Task
  PROVE  LET r == MakeReady(s, t)
         IN  /\ Tidy(r) /\ SameClock(s, r) /\ r.event = s.event
             /\ \A u \in Task : Ready(r, u) <=> Ready(s, u) \/ u = t
             /\ Sleepers(r) = Sleepers(s) \ {t} /\ Ended(r) = Ended(s) \ {t}
             /\ Rests(s, r)
<1> DEFINE g == RemoveGenericItem(s, t)
           r == prvAddTaskToReadyList(g, t)
<1>1. /\ Tidy(g) /\ SameClock(s, g) /\ g.event = s.event /\ Rests(s, g)
      /\ \A u \in Task : Ready(g, u) <=> Ready(s, u) /\ u # t
      /\ ToSet(g.delayed) = ToSet(s.delayed) \ {t}
      /\ ToSet(g.overflow) = ToSet(s.overflow) \ {t}
      /\ Ended(g) = Ended(s) \ {t}
  BY LeaveGeneric
<1> HIDE DEF g
<1>2. Sleepers(g) = Sleepers(s) \ {t}
  BY <1>1 DEF Sleepers
<1>3. /\ Tidy(r) /\ SameClock(g, r)
      /\ r.delayed = g.delayed /\ r.overflow = g.overflow /\ r.ended = g.ended
      /\ r.event = g.event /\ r.wake = g.wake /\ r.next = g.next
      /\ \A u \in Task : Ready(r, u) <=> Ready(g, u) \/ u = t
  <2>1. ~Ready(g, t) /\ t \notin Sleepers(g) /\ t \notin Ended(g)
    BY <1>1, <1>2
  <2> QED
    BY <1>1, <2>1, AddToReady
<1> HIDE DEF r
<1>4. Sleepers(r) = Sleepers(g) /\ Ended(r) = Ended(g)
  BY <1>3 DEF Sleepers, Ended
<1>5. SameClock(s, r)
  BY <1>1, <1>3 DEF SameClock
<1>6. MakeReady(s, t) = r
  BY DEF MakeReady, g, r
<1>7. Rests(s, r)
  BY <1>1, <1>3, <1>4 DEF Rests, SameClock
<1> QED
  BY <1>1, <1>2, <1>3, <1>4, <1>5, <1>6, <1>7

LEMMA EmptyList ==
  ASSUME NEW S, NEW l \in Seq(S)
  PROVE  ToSet(l) = {} <=> l = <<>>
<1>1. Len(l) \in Nat /\ DOMAIN l = 1..Len(l)
  OBVIOUS
<1>2. ASSUME l # <<>> PROVE ToSet(l) # {}
  <2>1. 1 \in DOMAIN l
    BY <1>1, <1>2
  <2> QED
    BY <2>1 DEF ToSet
<1>3. ToSet(<<>>) = {}
  BY DEF ToSet
<1> QED
  BY <1>2, <1>3

-----------------------------------------------------------------------------
\* Moves from one state of the scheduler to another.

LEMMA Stays ==
  ASSUME NEW s, Sound(s)
  PROVE  Moves(s, s, {}, {})
BY DEF Moves

\* What an operation keeps, two in a row keep.
LEMMA RestsOn ==
  ASSUME NEW a, NEW b, NEW c, Rests(a, b), Rests(b, c)
  PROVE  Rests(a, c)
<1>1. Sleepers(c) \subseteq Sleepers(b)
  BY DEF Rests, Sleepers
<1> QED
  BY <1>1 DEF Rests

LEMMA SameRests ==
  ASSUME NEW s, NEW r, SameTimes(s, r)
  PROVE  Rests(s, r)
BY DEF SameTimes, Rests

\* The tasks that still sleep have as long to as before.
LEMMA RestsDue ==
  ASSUME NEW c, NEW s, Tidy(c), OnTime(c), Rests(c, s)
  PROVE  /\ OnTime(s) /\ s.tick = c.tick /\ Sleepers(s) \subseteq Sleepers(c)
         /\ \A t \in Sleepers(s) : Due(s, t) = Due(c, t)
<1>1. OnTime(s)
  BY DEF OnTime, Rests, Sleepers
<1>2. Sleepers(s) \subseteq Sleepers(c)
  BY DEF Rests, Sleepers
<1>3. ASSUME NEW t \in Sleepers(s) PROVE Due(s, t) = Due(c, t)
  <2>1. t \in ToSet(s.delayed) <=> t \in ToSet(c.delayed)
    BY <1>3 DEF Rests, Sleepers, Tidy
  <2>2. s.wake[t] = c.wake[t] /\ s.tick = c.tick
    BY <1>3 DEF Rests
  <2> QED
    BY <2>1, <2>2 DEF Due
<1> QED
  BY <1>1, <1>2, <1>3 DEF Rests

LEMMA SleepsFrom ==
  ASSUME NEW a, NEW b, NEW c, NEW n, Tidy(a), OnTime(a), Rests(a, b), b.cur = a.cur,
         SleepsFor(b, c, n)
  PROVE  SleepsFor(a, c, n)
BY RestsDue DEF SleepsFor

LEMMA SleepsOn ==
  ASSUME NEW a, NEW b, NEW c, NEW n, Tidy(b), SleepsFor(a, b, n), Rests(b, c)
  PROVE  SleepsFor(a, c, n)
<1>1. /\ OnTime(c) /\ c.tick = b.tick /\ Sleepers(c) \subseteq Sleepers(b)
      /\ \A t \in Sleepers(c) : Due(c, t) = Due(b, t)
  BY RestsDue DEF SleepsFor
<1> QED
  BY <1>1 DEF SleepsFor

LEMMA HeedsOn ==
  ASSUME NEW a, NEW b, NEW c, Heeds(a, b), Heeds(b, c)
  PROVE  Heeds(a, c)
<1>1. CASE c.yield \/ Highest(c)
  BY <1>1 DEF Heeds
<1>2. CASE ~(c.yield \/ Highest(c))
  <2>1. /\ c.cur = b.cur /\ ~b.yield
        /\ \A t \in Task : Ready(c, t) => Ready(b, t) \/ Prio[t] <= Prio[c.cur]
    BY <1>2 DEF Heeds
  <2>2. ~Highest(b)
    BY <1>2, <2>1 DEF Highest
  <2>3. /\ b.cur = a.cur /\ ~a.yield
        /\ \A t \in Task : Ready(b, t) => Ready(a, t) \/ Prio[t] <= Prio[b.cur]
    BY <2>1, <2>2 DEF Heeds
  <2> QED
    BY <2>1, <2>3 DEF Heeds
<1> QED
  BY <1>1, <1>2

LEMMA KeepsOn ==
  ASSUME NEW a, NEW b, NEW c, Keeps(a, b), Keeps(b, c)
  PROVE  Keeps(a, c)
BY HeedsOn, RestsOn DEF Keeps

\* Fewer tasks are ready.
LEMMA FewerHeeds ==
  ASSUME NEW s, NEW r, SameClock(s, r), \A t \in Task : Ready(r, t) => Ready(s, t)
  PROVE  Heeds(s, r)
BY DEF SameClock, Heeds

LEMMA KeepsStill ==
  ASSUME NEW s
  PROVE  Keeps(s, s)
BY DEF Keeps, Rests, Heeds

LEMMA MovesOn ==
  ASSUME NEW a, NEW b, NEW c, NEW B, NEW L, Moves(a, b, {}, {}), Moves(b, c, B, L),
         b.cur \in Task \ B \/ b.cur = a.cur
  PROVE  Moves(a, c, B, L)
<1>1. Sound(c) /\ c.susp = a.susp
  BY DEF Moves
<1>2. c.cur = a.cur \/ (a.susp = 0 /\ Ready(c, c.cur))
  BY DEF Moves
<1>3. \A t \in Task \ B : /\ Ready(a, t) => Ready(c, t)
                          /\ t \in Ended(c) <=> t \in Ended(a)
                          /\ Has(c, t) <=> Has(a, t)
  BY DEF Moves
<1>4. \A t \in Task \ L : Linked(c, t) => Linked(a, t)
  BY DEF Moves
<1>5. (a.susp = 0 /\ a.event["pending"] = <<>>) => c.event["pending"] = <<>>
  BY DEF Moves
<1>6. \A t \in Task \ B :
        /\ t \in ToSet(a.event["pending"]) => t \in ToSet(c.event["pending"]) \/ Ready(c, t)
        /\ \A l \in EventList : t \in ToSet(c.event[l]) => t \in ToSet(a.event[l])
  BY DEF Moves
<1> QED
  BY <1>1, <1>2, <1>3, <1>4, <1>5, <1>6 DEF Moves

LEMMA AlikeMoves ==
  ASSUME NEW s, NEW r, Sound(s), Alike(s, r)
  PROVE  Moves(s, r, {}, {}) /\ Tidy(r)
<1>1. /\ Sleepers(r) = Sleepers(s) /\ Ended(r) = Ended(s)
      /\ \A t : (Ready(r, t) <=> Ready(s, t)) /\ (Linked(r, t) <=> Linked(s, t))
  BY DEF Alike, Sleepers, Ended, Ready, Linked
<1>2. \A t : Has(r, t) <=> Has(s, t)
  BY <1>1 DEF Has
<1>3. /\ IsInjective(r.delayed) /\ IsInjective(r.overflow)
      /\ ToSet(r.delayed) \cap ToSet(r.overflow) = {}
  <2>1. CASE r.delayed = s.delayed /\ r.overflow = s.overflow
    BY <2>1 DEF Sound, Tidy
  <2>2. CASE r.delayed = s.overflow /\ r.overflow = s.delayed
    BY <2>2 DEF Sound, Tidy
  <2> QED
    BY <2>1, <2>2 DEF Alike
<1>4. Tidy(r)
  <2>1. Tidy(s)
    BY DEF Sound
  <2> QED
    BY <1>1, <1>3, <2>1 DEF Alike, Tidy
<1>5. Sound(r)
  BY <1>1, <1>4 DEF Sound, Alike
<1> QED
  BY <1>1, <1>2, <1>4, <1>5 DEF Moves, Alike

\* A task that sleeps, or has run out of its time, is woken.
LEMMA WokenMoves ==
  ASSUME NEW s, Sound(s), NEW t \in Task, t \notin Ended(s), Has(s, t)
  PROVE  LET r == MakeReady(RemoveEventItem(s, t), t)
         IN  /\ Moves(s, r, {}, {}) /\ SameClock(s, r) /\ Rests(s, r)
             /\ \A l \in Lists : ToSet(r.event[l]) = ToSet(s.event[l]) \ {t}
             /\ \A u \in Task : Ready(r, u) <=> Ready(s, u) \/ u = t
             /\ Sleepers(r) = Sleepers(s) \ {t}
<1> DEFINE e == RemoveEventItem(s, t)
           r == MakeReady(e, t)
<1>1. Tidy(s)
  BY DEF Sound
<1>2. /\ Tidy(e) /\ SameClock(s, e)
      /\ e.ready = s.ready /\ e.delayed = s.delayed /\ e.overflow = s.overflow
      /\ e.ended = s.ended /\ SameTimes(s, e)
      /\ \A l \in Lists : ToSet(e.event[l]) = ToSet(s.event[l]) \ {t}
  BY <1>1, LeaveEvents
<1> HIDE DEF e
<1>3. /\ Tidy(r) /\ SameClock(e, r) /\ r.event = e.event /\ Rests(e, r)
      /\ \A u \in Task : Ready(r, u) <=> Ready(e, u) \/ u = t
      /\ Sleepers(r) = Sleepers(e) \ {t} /\ Ended(r) = Ended(e) \ {t}
  BY <1>2, MakeReadyEffect
<1> HIDE DEF r
<1>4. Sleepers(e) = Sleepers(s) /\ Ended(e) = Ended(s) /\ \A u : Ready(e, u) <=> Ready(s, u)
  BY <1>2 DEF Sleepers, Ended, Ready
<1>5. SameClock(s, r)
  BY <1>2, <1>3 DEF SameClock
<1>6. \A l \in Lists : ToSet(r.event[l]) = ToSet(s.event[l]) \ {t}
  BY <1>2, <1>3
<1>7. Idle \in Task /\ EventList \subseteq Lists /\ "pending" \in Lists
  BY RtosAssumption DEF Lists
<1>8. Sound(r)
  <2>1. Ready(r, Idle)
    BY <1>3, <1>4, <1>7 DEF Sound
  <2>2. \A l \in EventList : ToSet(r.event[l]) \subseteq Sleepers(r)
    BY <1>3, <1>4, <1>6, <1>7 DEF Sound
  <2>3. ToSet(s.event["pending"]) \subseteq Task
    BY <1>1, <1>7 DEF Tidy, Kernel, ToSet
  <2>4. \A u \in ToSet(r.event["pending"]) : Ready(r, u) \/ u \in Sleepers(r)
    BY <1>3, <1>4, <1>6, <1>7, <2>3 DEF Sound
  <2> QED
    BY <1>3, <2>1, <2>2, <2>4 DEF Sound
<1>9. \A u \in Task : /\ Ready(s, u) => Ready(r, u)
                      /\ u \in Ended(r) <=> u \in Ended(s)
                      /\ Has(r, u) <=> Has(s, u)
  BY <1>3, <1>4 DEF Has
<1>10. \A u \in Task : Linked(r, u) => Linked(s, u)
  BY <1>6 DEF Linked
<1>11. s.event["pending"] = <<>> => r.event["pending"] = <<>>
  <2>1. s.event["pending"] \in Seq(Task)
    BY <1>1, <1>7 DEF Tidy, Kernel
  <2>2. r.event["pending"] \in Seq(Task)
    BY <1>3, <1>7 DEF Tidy, Kernel
  <2>3. ToSet(r.event["pending"]) = ToSet(s.event["pending"]) \ {t}
    BY <1>6, <1>7
  <2> QED
    BY <2>1, <2>2, <2>3, EmptyList
<1>12. \A u \in Task :
         /\ u \in ToSet(s.event["pending"]) => u \in ToSet(r.event["pending"]) \/ Ready(r, u)
         /\ \A l \in EventList : u \in ToSet(r.event[l]) => u \in ToSet(s.event[l])
  BY <1>3, <1>6, <1>7
<1>13. Moves(s, r, {}, {})
  BY <1>5, <1>8, <1>9, <1>10, <1>11, <1>12 DEF Moves, SameClock
<1>14. Rests(s, r)
  BY <1>2, <1>3, SameRests, RestsOn
<1> QED
  BY <1>3, <1>4, <1>5, <1>6, <1>13, <1>14 DEF r, e

-----------------------------------------------------------------------------
\* The operations that stop the current task or choose another.

\* prvAddCurrentTaskToDelayedList, after uxListRemove.
LEMMA DelayEffect ==
  ASSUME NEW s, Tidy(s), NEW time \in Ticks
  PROVE  LET r == prvAddCurrentTaskToDelayedList(RemoveGenericItem(s, s.cur), time)
         IN  /\ Tidy(r) /\ SameClock(s, r) /\ r.event = s.event
             /\ \A u \in Task : Ready(r, u) <=> Ready(s, u) /\ u # s.cur
             /\ Sleepers(r) = Sleepers(s) \cup {s.cur} /\ Ended(r) = Ended(s) \ {s.cur}
<1> DEFINE t == s.cur
           g == RemoveGenericItem(s, t)
           wake == [g.wake EXCEPT ![t] = time]
           o == vListInsert(g.overflow, t, wake)
           d == vListInsert(g.delayed, t, wake)
           r == prvAddCurrentTaskToDelayedList(g, time)
<1>1. t \in Task
  BY DEF Tidy, Kernel
<1>2. /\ Tidy(g) /\ SameClock(s, g) /\ g.event = s.event
      /\ \A u \in Task : Ready(g, u) <=> Ready(s, u) /\ u # t
      /\ ToSet(g.delayed) = ToSet(s.delayed) \ {t}
      /\ ToSet(g.overflow) = ToSet(s.overflow) \ {t}
      /\ Ended(g) = Ended(s) \ {t}
  <2> HIDE DEF t, g
  <2>1. g = RemoveGenericItem(s, t)
    BY DEF g
  <2> QED
    BY <1>1, <2>1, LeaveGeneric
<1>3. g.cur = t
  BY <1>2 DEF SameClock
<1> HIDE DEF t, g
<1>4. g \in Kernel
  BY <1>2 DEF Tidy
<1>5. wake \in [Task -> Ticks]
  BY <1>1, <1>4 DEF Kernel
<1>6. /\ g.overflow \in Seq(Task) /\ IsInjective(g.overflow) /\ t \notin ToSet(g.overflow)
      /\ g.delayed \in Seq(Task) /\ IsInjective(g.delayed) /\ t \notin ToSet(g.delayed)
  BY <1>2, <1>4 DEF Kernel, Tidy
<1>7. o \in Seq(Task) /\ IsInjective(o) /\ ToSet(o) = ToSet(g.overflow) \cup {t}
  <2> HIDE DEF wake
  <2> QED
    BY <1>1, <1>6, InsertEffect
<1>8. d \in Seq(Task) /\ IsInjective(d) /\ ToSet(d) = ToSet(g.delayed) \cup {t}
  <2> HIDE DEF wake
  <2> QED
    BY <1>1, <1>6, InsertEffect
<1>9. Sleepers(g) = Sleepers(s) \ {t}
  BY <1>2 DEF Sleepers
<1>10. g.next \in Ticks /\ Min({g.next, time}) \in Ticks
  <2>1. g.next \in Ticks
    BY <1>4 DEF Kernel
  <2>2. g.next \in Nat /\ time \in Nat
    BY <2>1 DEF Ticks
  <2> QED
    BY <2>1, <2>2, MinOfTwo
<1>11. \/ r = [g EXCEPT !.wake = wake, !.overflow = o]
       \/ r = [g EXCEPT !.wake = wake, !.delayed = d, !.next = Min({g.next, time})]
  BY <1>3, <1>4 DEF prvAddCurrentTaskToDelayedList, Kernel
<1> HIDE DEF r, o, d, wake
<1>12. /\ Tidy(r) /\ SameClock(g, r) /\ r.event = g.event
       /\ \A u \in Task : Ready(r, u) <=> Ready(g, u)
       /\ Sleepers(r) = Sleepers(g) \cup {t} /\ Ended(r) = Ended(g)
  <2>1. ASSUME r \in Kernel, r.ready = g.ready, r.top = g.top, r.ended = g.ended,
               r.event = g.event,
               \/ r.overflow = o /\ r.delayed = g.delayed
               \/ r.overflow = g.overflow /\ r.delayed = d
        PROVE  /\ Tidy(r)
               /\ \A u \in Task : Ready(r, u) <=> Ready(g, u)
               /\ Sleepers(r) = Sleepers(g) \cup {t} /\ Ended(r) = Ended(g)
    <3>1. (\A u \in Task : Ready(r, u) <=> Ready(g, u)) /\ Ended(r) = Ended(g)
      BY <2>1 DEF Ready, Ended
    <3>2. Sleepers(r) = Sleepers(g) \cup {t}
      BY <1>7, <1>8, <2>1 DEF Sleepers
    <3>3. ~Ready(g, t) /\ t \notin Ended(g)
      BY <1>1, <1>2
    <3>4. /\ IsInjective(r.delayed) /\ IsInjective(r.overflow)
          /\ ToSet(r.delayed) \cap ToSet(r.overflow) = {}
      BY <1>2, <1>6, <1>7, <1>8, <2>1 DEF Tidy
    <3>5. Sleepers(r) \cap Ended(r) = {}
      BY <1>2, <3>1, <3>2, <3>3 DEF Tidy
    <3>6. \A u \in Task : Ready(r, u) => u \notin Sleepers(r) /\ u \notin Ended(r)
      BY <1>2, <3>1, <3>2, <3>3 DEF Tidy
    <3>7. Tidy(r)
      BY <1>2, <2>1, <3>4, <3>5, <3>6 DEF Tidy
    <3> QED
      BY <3>1, <3>2, <3>7
  <2>2. CASE r = [g EXCEPT !.wake = wake, !.overflow = o]
    <3>1. /\ r \in Kernel /\ r.ready = g.ready /\ r.top = g.top /\ r.ended = g.ended
          /\ r.event = g.event /\ r.overflow = o /\ r.delayed = g.delayed
      BY <1>4, <1>5, <1>7, <2>2 DEF Kernel
    <3>2. SameClock(g, r)
      BY <1>4, <2>2 DEF Kernel, SameClock
    <3> QED
      BY <2>1, <3>1, <3>2
  <2>3. CASE r = [g EXCEPT !.wake = wake, !.delayed = d, !.next = Min({g.next, time})]
    <3>1. /\ r \in Kernel /\ r.ready = g.ready /\ r.top = g.top /\ r.ended = g.ended
          /\ r.event = g.event /\ r.overflow = g.overflow /\ r.delayed = d
      BY <1>4, <1>5, <1>8, <1>10, <2>3 DEF Kernel
    <3>2. SameClock(g, r)
      BY <1>4, <2>3 DEF Kernel, SameClock
    <3> QED
      BY <2>1, <3>1, <3>2
  <2> QED
    BY <1>11, <2>2, <2>3
<1>13. SameClock(s, r)
  BY <1>2, <1>12 DEF SameClock
<1>14. r = prvAddCurrentTaskToDelayedList(RemoveGenericItem(s, s.cur), time)
  BY DEF r, g, t
<1>15. Sleepers(r) = Sleepers(s) \cup {t} /\ Ended(r) = Ended(s) \ {t}
  BY <1>2, <1>9, <1>12
<1> QED
  BY <1>2, <1>12, <1>13, <1>14, <1>15 DEF t

\* A sum of two counts is a count.
LEMMA WrappedTick ==
  ASSUME NEW a \in Ticks, NEW b \in Ticks
  PROVE  (a + b) % TickMod \in Ticks
<1>1. a + b \in Int
  BY RtosAssumption DEF Ticks
<1> QED
  BY <1>1, Reduced

\* What is left until a time, over the wrap of the count.
LEMMA TimeLeft ==
  ASSUME NEW time \in Ticks, NEW now \in Ticks
  PROVE  (time - now) % TickMod = IF time < now THEN time + TickMod - now ELSE time - now
<1>1. TickMod \in Nat \ {0}
  BY RtosAssumption
<1>2. CASE time < now
  BY <1>1, <1>2 DEF Ticks
<1>3. CASE ~(time < now)
  BY <1>1, <1>3 DEF Ticks
<1> QED
  BY <1>2, <1>3

LEMMA DelayTimes ==
  ASSUME NEW s, Tidy(s), NEW time \in Ticks, OnTime(s), time # s.tick \/ s.tick < TickMod - 1
  PROVE  SleepsFor(s, prvAddCurrentTaskToDelayedList(RemoveGenericItem(s, s.cur), time),
                   (time - s.tick) % TickMod)
<1> DEFINE t == s.cur
           g == RemoveGenericItem(s, t)
           wake == [g.wake EXCEPT ![t] = time]
           o == vListInsert(g.overflow, t, wake)
           d == vListInsert(g.delayed, t, wake)
           r == prvAddCurrentTaskToDelayedList(g, time)
<1>1. t \in Task /\ s.tick \in Ticks
  BY DEF Tidy, Kernel
<1>2. /\ Tidy(g) /\ SameClock(s, g) /\ Rests(s, g)
      /\ ToSet(g.delayed) = ToSet(s.delayed) \ {t}
      /\ ToSet(g.overflow) = ToSet(s.overflow) \ {t}
  <2> HIDE DEF t, g
  <2>1. g = RemoveGenericItem(s, t)
    BY DEF g
  <2> QED
    BY <1>1, <2>1, LeaveGeneric
<1>3. g.cur = t /\ g.tick = s.tick
  BY <1>2 DEF SameClock
<1> HIDE DEF t, g
<1>4. g \in Kernel
  BY <1>2 DEF Tidy
<1>5. /\ wake \in [Task -> Ticks] /\ wake \in [Task -> Nat] /\ wake[t] = time
      /\ \A u \in Task : u # t => wake[u] = g.wake[u]
  <2>1. g.wake \in [Task -> Ticks] /\ Ticks \subseteq Nat
    BY <1>4, RtosAssumption DEF Kernel, Ticks
  <2> QED
    BY <1>1, <2>1
<1>6. /\ g.overflow \in Seq(Task) /\ IsInjective(g.overflow) /\ t \notin ToSet(g.overflow)
      /\ g.delayed \in Seq(Task) /\ IsInjective(g.delayed) /\ t \notin ToSet(g.delayed)
      /\ g.next \in Nat
  <2>1. g.next \in Ticks
    BY <1>4 DEF Kernel
  <2> QED
    BY <1>2, <1>4, <2>1 DEF Kernel, Tidy, Ticks
<1>7. /\ OnTime(g) /\ Sleepers(g) \subseteq Sleepers(s)
      /\ \A u \in Sleepers(g) : Due(g, u) = Due(s, u)
  BY <1>2, RestsDue
<1>8. \/ /\ r.overflow = o /\ r.delayed = g.delayed /\ r.next = g.next /\ time < g.tick
      \/ /\ r.delayed = d /\ r.overflow = g.overflow /\ r.next = Min({g.next, time})
         /\ ~(time < g.tick)
  BY <1>3, <1>4 DEF prvAddCurrentTaskToDelayedList, Kernel
<1>9. r.wake = wake /\ r.tick = g.tick
  BY <1>3, <1>4 DEF prvAddCurrentTaskToDelayedList, Kernel
<1>10. r = prvAddCurrentTaskToDelayedList(RemoveGenericItem(s, s.cur), time)
  BY DEF r, g, t
<1> HIDE DEF r
<1>11. Ordered(g.overflow, wake) /\ Ordered(g.delayed, wake)
  <2>1. ASSUME NEW l \in Seq(Task), t \notin ToSet(l), Ordered(l, g.wake) PROVE Ordered(l, wake)
    <3>1. \A i \in DOMAIN l : l[i] \in Task /\ l[i] # t
      BY <2>1 DEF ToSet
    <3> QED
      BY <1>5, <2>1, <3>1 DEF Ordered
  <2> QED
    BY <1>6, <1>7, <2>1 DEF OnTime
<1> HIDE DEF wake
<1>12. /\ Ordered(o, wake) /\ ToSet(o) = ToSet(g.overflow) \cup {t}
       /\ Ordered(d, wake) /\ ToSet(d) = ToSet(g.delayed) \cup {t}
  BY <1>1, <1>5, <1>6, <1>11, InsertOrdered, InsertEffect
<1> HIDE DEF o, d
<1>13. Sleepers(r) = Sleepers(g) \cup {t}
  BY <1>8, <1>12 DEF Sleepers
<1>14. \A u \in Sleepers(g) : u \in Task /\ u # t
  BY <1>6 DEF Sleepers, ToSet
<1>15. r.next \in Nat /\ r.next <= g.next /\ (~(time < g.tick) => r.next <= time)
  <2>1. time \in Nat
    BY DEF Ticks
  <2> QED
    BY <1>6, <1>8, <2>1, MinOfTwo
<1>16. ASSUME NEW u \in Sleepers(r) \ {t} PROVE Due(r, u) = Due(s, u)
  <2>1. u \in Sleepers(g) /\ r.wake[u] = g.wake[u]
    BY <1>5, <1>9, <1>13, <1>14, <1>16
  <2>2. u \in ToSet(r.delayed) <=> u \in ToSet(g.delayed)
    BY <1>8, <1>12, <1>16
  <2> QED
    BY <1>7, <1>9, <2>1, <2>2 DEF Due
<1>17. Due(r, t) = (time - s.tick) % TickMod
  <2>1. CASE time < s.tick
    <3>1. t \notin ToSet(r.delayed)
      BY <1>3, <1>6, <1>8, <2>1
    <3> QED
      BY <1>1, <1>3, <1>5, <1>9, <2>1, <3>1, TimeLeft DEF Due
  <2>2. CASE ~(time < s.tick)
    <3>1. t \in ToSet(r.delayed)
      BY <1>3, <1>8, <1>12, <2>2
    <3> QED
      BY <1>1, <1>3, <1>5, <1>9, <2>2, <3>1, TimeLeft DEF Due
  <2> QED
    BY <2>1, <2>2
<1>18. OnTime(r)
  <2>1. Ordered(r.delayed, r.wake) /\ Ordered(r.overflow, r.wake)
    BY <1>8, <1>9, <1>11, <1>12
  <2>2. ASSUME NEW u \in ToSet(r.delayed)
        PROVE  r.tick <= r.wake[u] /\ r.next <= r.wake[u] /\ r.tick < TickMod - 1
    <3>1. CASE u = t
      <4>1. ~(time < s.tick) /\ r.wake[u] = time /\ r.tick = s.tick
        BY <1>3, <1>5, <1>6, <1>8, <1>9, <2>2, <3>1
      <4>2. s.tick <= time /\ s.tick < TickMod - 1
        BY <1>1, <4>1, RtosAssumption DEF Ticks
      <4> QED
        BY <1>3, <1>15, <4>1, <4>2
    <3>2. CASE u # t
      <4>1. u \in ToSet(g.delayed) /\ r.wake[u] = g.wake[u] /\ g.wake[u] \in Nat
        <5>1. u \in ToSet(g.delayed)
          BY <1>8, <1>12, <2>2, <3>2
        <5>2. u \in Task
          BY <1>14, <5>1 DEF Sleepers
        <5>3. g.wake \in [Task -> Ticks] /\ Ticks \subseteq Nat
          BY <1>4, RtosAssumption DEF Kernel, Ticks
        <5> QED
          BY <1>5, <1>9, <3>2, <5>1, <5>2, <5>3
      <4>2. g.tick <= g.wake[u] /\ g.next <= g.wake[u] /\ g.tick < TickMod - 1
        BY <1>7, <4>1 DEF OnTime
      <4> QED
        BY <1>6, <1>9, <1>15, <4>1, <4>2
    <3> QED
      BY <3>1, <3>2
  <2>3. ASSUME NEW u \in ToSet(r.overflow) PROVE r.wake[u] < r.tick
    <3>1. CASE u = t
      BY <1>5, <1>6, <1>8, <1>9, <2>3, <3>1
    <3>2. CASE u # t
      <4>1. u \in ToSet(g.overflow)
        BY <1>8, <1>12, <2>3, <3>2
      <4>2. u \in Task
        BY <1>14, <4>1 DEF Sleepers
      <4> QED
        BY <1>5, <1>7, <1>9, <3>2, <4>1, <4>2 DEF OnTime
    <3> QED
      BY <3>1, <3>2
  <2> QED
    BY <2>1, <2>2, <2>3 DEF OnTime
<1>19. Sleepers(r) \subseteq Sleepers(s) \cup {t} /\ r.tick = s.tick
  BY <1>3, <1>7, <1>9, <1>13
<1> QED
  BY <1>10, <1>16, <1>17, <1>18, <1>19 DEF SleepsFor, t

LEMMA DelayTicks ==
  ASSUME NEW s, Tidy(s), NEW ticks \in Ticks, OnTime(s), ticks # 0 \/ s.tick < TickMod - 1
  PROVE  SleepsFor(s, DelayCurrentTask(s, ticks), ticks)
<1> DEFINE time == (s.tick + ticks) % TickMod
<1>1. TickMod \in Nat /\ s.tick \in Ticks
  BY RtosAssumption DEF Tidy, Kernel
<1>2. time = IF s.tick + ticks < TickMod THEN s.tick + ticks ELSE s.tick + ticks - TickMod
  BY <1>1, Wrapped
<1>3. time \in Ticks
  BY <1>1, WrappedTick
<1> HIDE DEF time
<1>4. time # s.tick \/ s.tick < TickMod - 1
  BY <1>1, <1>2 DEF Ticks
<1>5. (time - s.tick) % TickMod = ticks
  <2>1. (time - s.tick) % TickMod
          = IF time < s.tick THEN time + TickMod - s.tick ELSE time - s.tick
    BY <1>1, <1>3, TimeLeft
  <2> QED
    BY <1>1, <1>2, <2>1 DEF Ticks
<1>6. SleepsFor(s, prvAddCurrentTaskToDelayedList(RemoveGenericItem(s, s.cur), time), ticks)
  BY <1>3, <1>4, <1>5, DelayTimes
<1> QED
  BY <1>6 DEF DelayCurrentTask, time

\* prvAddCurrentTaskToDelayedList: a task that delays itself goes into the
\* overflow list exactly when its wake-up time lies beyond the wrap of the count,
\* which is when the two lists change places; only otherwise is the time of the
\* next wake-up brought forward, to this one's at the latest.
THEOREM OverflowBeyondWrap ==
  ASSUME NEW s, Tidy(s), NEW ticks \in Ticks
  PROVE  LET r == DelayCurrentTask(s, ticks)
         IN  /\ s.cur \in ToSet(r.overflow) <=> s.tick + ticks >= TickMod
             /\ s.cur \in ToSet(r.delayed) <=> s.tick + ticks < TickMod
             /\ s.tick + ticks >= TickMod => r.next = s.next
             /\ s.tick + ticks < TickMod => r.next <= s.tick + ticks
<1> DEFINE t == s.cur
           time == (s.tick + ticks) % TickMod
           g == RemoveGenericItem(s, t)
           wake == [g.wake EXCEPT ![t] = time]
           o == vListInsert(g.overflow, t, wake)
           d == vListInsert(g.delayed, t, wake)
           r == prvAddCurrentTaskToDelayedList(g, time)
<1>1. t \in Task /\ s \in Kernel /\ s.tick \in Ticks /\ TickMod \in Nat
  BY RtosAssumption DEF Tidy, Kernel
<1>2. /\ time = IF s.tick + ticks < TickMod THEN s.tick + ticks ELSE s.tick + ticks - TickMod
      /\ time \in Ticks
  BY <1>1, Wrapped, WrappedTick
<1>3. /\ Tidy(g) /\ SameClock(s, g) /\ g.next = s.next
      /\ t \notin ToSet(g.delayed) /\ t \notin ToSet(g.overflow)
  <2> HIDE DEF t, g
  <2>1. g = RemoveGenericItem(s, t)
    BY DEF g
  <2> QED
    BY <1>1, <2>1, LeaveGeneric
<1>4. g.cur = t /\ g.tick = s.tick /\ g \in Kernel
  BY <1>3 DEF SameClock, Tidy
<1> HIDE DEF t, g, time
<1>5. /\ g.overflow \in Seq(Task) /\ IsInjective(g.overflow)
      /\ g.delayed \in Seq(Task) /\ IsInjective(g.delayed)
  BY <1>3, <1>4 DEF Kernel, Tidy
<1>6. t \in ToSet(o) /\ t \in ToSet(d)
  <2> HIDE DEF wake
  <2> QED
    BY <1>1, <1>3, <1>5, InsertEffect
<1>7. Min({g.next, time}) <= time
  <2>1. g.next \in Nat /\ time \in Nat
    BY <1>2, <1>4 DEF Kernel, Ticks
  <2> QED
    BY <2>1, MinOfTwo
<1>8. time < s.tick <=> s.tick + ticks >= TickMod
  BY <1>1, <1>2 DEF Ticks
<1>9. CASE time < s.tick
  <2>1. r = [g EXCEPT !.wake = wake, !.overflow = o]
    BY <1>3, <1>4, <1>9 DEF prvAddCurrentTaskToDelayedList, Kernel
  <2>2. r.overflow = o /\ r.delayed = g.delayed /\ r.next = s.next
    BY <1>3, <1>4, <2>1 DEF Kernel
  <2>3. s.tick + ticks >= TickMod /\ ~(s.tick + ticks < TickMod)
    BY <1>1, <1>8, <1>9 DEF Ticks
  <2> QED
    BY <1>3, <1>6, <2>2, <2>3 DEF DelayCurrentTask, r, g, t, time
<1>10. CASE ~(time < s.tick)
  <2>1. r = [g EXCEPT !.wake = wake, !.delayed = d, !.next = Min({g.next, time})]
    BY <1>3, <1>4, <1>10 DEF prvAddCurrentTaskToDelayedList, Kernel
  <2>2. r.overflow = g.overflow /\ r.delayed = d /\ r.next = Min({g.next, time})
    BY <1>3, <2>1 DEF Kernel
  <2>3. s.tick + ticks < TickMod /\ ~(s.tick + ticks >= TickMod) /\ time = s.tick + ticks
    BY <1>1, <1>2, <1>8, <1>10 DEF Ticks
  <2> QED
    BY <1>3, <1>6, <1>7, <2>2, <2>3 DEF DelayCurrentTask, r, g, t, time
<1> QED
  BY <1>9, <1>10

\* The current task, ready and not the idle task, goes to sleep.
LEMMA DelayMoves ==
  ASSUME NEW s, Sound(s), NEW time \in Ticks, s.cur # Idle, Ready(s, s.cur)
  PROVE  LET r == prvAddCurrentTaskToDelayedList(RemoveGenericItem(s, s.cur), time)
         IN  /\ Moves(s, r, {s.cur}, {}) /\ r.cur = s.cur /\ r.pended = s.pended
             /\ r.event = s.event /\ s.cur \in Sleepers(r) /\ Heeds(s, r)
<1> DEFINE r == prvAddCurrentTaskToDelayedList(RemoveGenericItem(s, s.cur), time)
<1>1. Tidy(s) /\ Ready(s, Idle) /\ Idle \in Task
  BY RtosAssumption DEF Sound
<1>2. /\ Tidy(r) /\ SameClock(s, r) /\ r.event = s.event
      /\ \A u \in Task : Ready(r, u) <=> Ready(s, u) /\ u # s.cur
      /\ Sleepers(r) = Sleepers(s) \cup {s.cur} /\ Ended(r) = Ended(s) \ {s.cur}
  BY <1>1, DelayEffect
<1> HIDE DEF r
<1>3. ToSet(s.event["pending"]) \subseteq Task /\ "pending" \in Lists /\ EventList \subseteq Lists
  BY <1>1 DEF Tidy, Kernel, ToSet, Lists
<1>4. Sound(r)
  <2>1. \A l \in EventList : ToSet(r.event[l]) \subseteq Sleepers(r)
    BY <1>2 DEF Sound
  <2>2. \A u \in ToSet(r.event["pending"]) : Ready(r, u) \/ u \in Sleepers(r)
    BY <1>2, <1>3 DEF Sound
  <2> QED
    BY <1>1, <1>2, <2>1, <2>2 DEF Sound
<1>5. \A u \in Task \ {s.cur} : /\ Ready(s, u) => Ready(r, u)
                                /\ u \in Ended(r) <=> u \in Ended(s)
                                /\ Has(r, u) <=> Has(s, u)
  BY <1>2 DEF Has
<1>6. \A u : Linked(r, u) => Linked(s, u)
  BY <1>2 DEF Linked
<1>7. Moves(s, r, {s.cur}, {})
  BY <1>2, <1>4, <1>5, <1>6 DEF Moves, SameClock
<1>8. Heeds(s, r)
  BY <1>2, FewerHeeds
<1> QED
  BY <1>2, <1>7, <1>8 DEF r, SameClock

\* taskSELECT_HIGHEST_PRIORITY_TASK finds a ready task, as the idle task is one.
LEMMA SelectMoves ==
  ASSUME NEW s, Sound(s), s.susp = 0
  PROVE  LET r == taskSELECT_HIGHEST_PRIORITY_TASK(s)
         IN  /\ Moves(s, r, {}, {}) /\ Ready(r, r.cur) /\ r.pended = s.pended
             /\ Highest(r) /\ Rests(s, r) /\ SameTimes(s, r)
<1> DEFINE S == {n \in 0..s.top : listCURRENT_LIST_LENGTH(s.ready[n]) > 0}
           p == Max(S)
           l == listGET_OWNER_OF_NEXT_ENTRY(s.ready[p])
           r == [s EXCEPT !.top = p, !.ready = [s.ready EXCEPT ![p] = l], !.cur = Last(l)]
<1>1. Tidy(s) /\ s \in Kernel /\ Ready(s, Idle) /\ Idle \in Task /\ Prio[Idle] = 0
  BY RtosAssumption DEF Sound, Tidy, tskIDLE_PRIORITY
<1>2. PICK n \in Nat : Prios = 0..n
  BY PriorityRange
<1>3. s.top \in Prios /\ s.ready \in [Prios -> Seq(Item)] /\ \A u \in Task : Prio[u] \in Prios
  BY <1>1, PriorityRange DEF Kernel
<1>4. s.top \in Nat /\ 0..s.top \subseteq Prios
  BY <1>2, <1>3
<1>5. \A m \in Prios : listCURRENT_LIST_LENGTH(s.ready[m]) > 0 <=> ToSet(s.ready[m]) # {xListEnd}
  <2> TAKE m \in Prios
  <2>1. s.ready[m] \in Seq(Item) /\ IsInjective(s.ready[m]) /\ xListEnd \in ToSet(s.ready[m])
    BY <1>1, <1>3 DEF Tidy
  <2> QED
    BY <2>1, LengthCounts
<1>6. 0 \in S
  <2>1. Idle \in ToSet(s.ready[0]) /\ Idle # xListEnd
    BY <1>1, RtosAssumption DEF Ready
  <2>2. ToSet(s.ready[0]) # {xListEnd}
    BY <2>1
  <2>3. listCURRENT_LIST_LENGTH(s.ready[0]) > 0
    BY <1>5, <2>2, PriorityRange
  <2>4. 0 \in 0..s.top
    BY <1>4
  <2> QED
    BY <2>3, <2>4
<1>7. p \in S /\ \A m \in S : p >= m
  <2> HIDE DEF S
  <2>1. S \in SUBSET (0..s.top)
    BY DEF S
  <2>2. \E x \in S : \A y \in S : x >= y
    BY <1>4, <1>6, <2>1, Moving!Greatest
  <2> QED
    BY <2>2 DEF Max
<1>8. p \in Prios /\ listCURRENT_LIST_LENGTH(s.ready[p]) > 0 /\ s.ready[p] \in Seq(Item)
  BY <1>3, <1>4, <1>7
<1>9. \A m \in Prios : \A u \in ToSet(s.ready[m]) \ {xListEnd} : m <= p
  <2> TAKE m \in Prios
  <2> TAKE u \in ToSet(s.ready[m]) \ {xListEnd}
  <2>1. m <= s.top /\ m \in Nat
    BY <1>1, <1>2 DEF Tidy
  <2>2. m \in S
    BY <1>4, <1>5, <2>1
  <2> HIDE DEF p, S
  <2>3. p \in Nat
    BY <1>2, <1>8
  <2> QED
    BY <1>7, <2>1, <2>2, <2>3
<1>10. r = taskSELECT_HIGHEST_PRIORITY_TASK(s)
  BY <1>1 DEF taskSELECT_HIGHEST_PRIORITY_TASK, Kernel
<1> HIDE DEF p
<1>11. /\ l \in Seq(Item) /\ IsInjective(l) /\ ToSet(l) = ToSet(s.ready[p])
       /\ Last(l) \in ToSet(s.ready[p]) \ {xListEnd}
  <2>1. IsInjective(s.ready[p])
    BY <1>1, <1>8 DEF Tidy
  <2> QED
    BY <1>8, <2>1, NextEntryEffect
<1>12. Last(l) \in Task /\ Prio[Last(l)] = p
  <2>1. Last(l) \in Item \ {xListEnd}
    BY <1>8, <1>11 DEF ToSet
  <2> QED
    BY <1>1, <1>8, <1>11, <2>1 DEF Item, Tidy
<1> HIDE DEF l, r, S
<1>13. /\ r \in Kernel /\ r.cur = Last(l) /\ r.top = p /\ r.susp = s.susp
       /\ r.ready = [s.ready EXCEPT ![p] = l] /\ r.delayed = s.delayed
       /\ r.overflow = s.overflow /\ r.ended = s.ended /\ r.event = s.event
       /\ r.pended = s.pended /\ SameTimes(s, r)
  BY <1>1, <1>8, <1>11, <1>12 DEF Kernel, SameTimes, r
<1>14. \A m \in Prios : ToSet(r.ready[m]) = ToSet(s.ready[m]) /\ IsInjective(r.ready[m])
  <2> TAKE m \in Prios
  <2>1. CASE m = p
    BY <1>3, <1>8, <1>11, <1>13, <2>1
  <2>2. CASE m # p
    BY <1>1, <1>3, <1>13, <2>2 DEF Tidy
  <2> QED
    BY <2>1, <2>2
<1>15. Sleepers(r) = Sleepers(s) /\ Ended(r) = Ended(s) /\ \A u \in Task : Ready(r, u) <=> Ready(s, u)
  BY <1>3, <1>13, <1>14 DEF Sleepers, Ended, Ready
<1>16. Tidy(r)
  BY <1>1, <1>9, <1>13, <1>14, <1>15 DEF Tidy
<1>17. Sound(r)
  <2>1. ToSet(s.event["pending"]) \subseteq Task
    BY <1>1 DEF Kernel, ToSet, Lists
  <2> QED
    BY <1>1, <1>13, <1>15, <1>16, <2>1 DEF Sound
<1>18. Ready(r, r.cur)
  BY <1>8, <1>11, <1>12, <1>13, <1>14 DEF Ready
<1>19. \A u \in Task : (Has(r, u) <=> Has(s, u)) /\ (Linked(r, u) <=> Linked(s, u))
  BY <1>13, <1>15 DEF Has, Linked
<1>20. Moves(s, r, {}, {})
  BY <1>13, <1>15, <1>17, <1>18, <1>19 DEF Moves
<1>21. Highest(r)
  <2>1. ASSUME NEW u \in Task, Ready(r, u) PROVE Prio[u] <= p
    <3>1. u \in ToSet(s.ready[Prio[u]]) \ {xListEnd} /\ Prio[u] \in Prios
      BY <1>3, <1>15, <2>1, RtosAssumption DEF Ready
    <3> QED
      BY <1>9, <3>1
  <2> QED
    BY <1>12, <1>13, <2>1 DEF Highest
<1> QED
  BY <1>10, <1>13, <1>18, <1>20, <1>21, SameRests

LEMMA YieldSet ==
  ASSUME NEW s, Sound(s), NEW b \in BOOLEAN
  PROVE  LET r == [s EXCEPT !.yield = b]
         IN  Moves(s, r, {}, {}) /\ Rests(s, r) /\ SameTimes(s, r)
<1> DEFINE r == [s EXCEPT !.yield = b]
<1>1. s \in Kernel
  BY DEF Sound, Tidy
<1>2. Alike(s, r) /\ SameTimes(s, r)
  BY <1>1 DEF Alike, Kernel, SameTimes
<1> HIDE DEF r
<1>3. Moves(s, r, {}, {}) /\ Rests(s, r)
  BY <1>2, AlikeMoves, SameRests
<1> QED
  BY <1>2, <1>3 DEF r

\* A task is woken, and a switch noted if it is above the current one.
LEMMA NoteMoves ==
  ASSUME NEW s, NEW w, NEW t \in Task, Sound(s), Moves(s, w, {}, {}), SameClock(s, w), Rests(s, w),
         \A u \in Task : Ready(w, u) => Ready(s, u) \/ u = t,
         NEW b \in BOOLEAN, w.yield \/ Prio[t] > Prio[s.cur] => b
  PROVE  LET r == [w EXCEPT !.yield = b]
         IN  /\ Moves(s, r, {}, {}) /\ r.cur = s.cur /\ r.pended = s.pended
             /\ r.event = w.event /\ Sleepers(r) = Sleepers(w) /\ Keeps(s, r)
<1> DEFINE r == [w EXCEPT !.yield = b]
<1>1. Sound(w) /\ w \in Kernel /\ s \in Kernel
  BY DEF Moves, Sound, Tidy
<1>2. /\ r.cur = w.cur /\ r.pended = w.pended /\ r.event = w.event /\ r.ready = w.ready
      /\ r.yield = b /\ Sleepers(r) = Sleepers(w)
  BY <1>1 DEF Kernel, Sleepers
<1>3. Moves(w, r, {}, {}) /\ Rests(w, r)
  BY <1>1, YieldSet
<1> HIDE DEF r
<1>4. Moves(s, r, {}, {}) /\ Rests(s, r)
  BY <1>2, <1>3, MovesOn, RestsOn DEF SameClock
<1>5. Prio[t] \in Nat /\ Prio[s.cur] \in Nat
  BY <1>1, RtosAssumption DEF Kernel
<1>6. ~b => Prio[t] <= Prio[s.cur]
  BY <1>5
<1>7. \A u \in Task : Ready(r, u) <=> Ready(w, u)
  BY <1>2 DEF Ready
<1>8. Heeds(s, r)
  BY <1>2, <1>6, <1>7 DEF Heeds, SameClock
<1> QED
  BY <1>2, <1>4, <1>8 DEF r, SameClock, Keeps

LEMMA SwitchMoves ==
  ASSUME NEW s, Sound(s)
  PROVE  LET r == vTaskSwitchContext(s)
         IN  /\ Moves(s, r, {}, {}) /\ r.pended = s.pended
             /\ Rests(s, r) /\ SameTimes(s, r) /\ (r.yield \/ Highest(r))
             /\ s.susp = 0 => Ready(r, r.cur) /\ Highest(r)
<1>1. s \in Kernel
  BY DEF Sound, Tidy
<1>2. CASE s.susp # 0
  <2> DEFINE r == [s EXCEPT !.yield = TRUE]
  <2>1. r.pended = s.pended /\ r.yield /\ r = vTaskSwitchContext(s)
    BY <1>1, <1>2 DEF Kernel, vTaskSwitchContext
  <2>2. Moves(s, r, {}, {}) /\ Rests(s, r) /\ SameTimes(s, r)
    BY YieldSet
  <2> HIDE DEF r
  <2> QED
    BY <1>2, <2>1, <2>2
<1>3. CASE s.susp = 0
  <2> DEFINE m == [s EXCEPT !.yield = FALSE]
             r == taskSELECT_HIGHEST_PRIORITY_TASK(m)
  <2>1. Moves(s, m, {}, {}) /\ Rests(s, m) /\ SameTimes(s, m)
    BY YieldSet
  <2>2. m.susp = 0 /\ m.cur = s.cur /\ m.pended = s.pended
    BY <1>1, <1>3 DEF Kernel
  <2>3. r = vTaskSwitchContext(s)
    BY <1>3 DEF vTaskSwitchContext
  <2> HIDE DEF m
  <2>4. Sound(m)
    BY <2>1 DEF Moves
  <2>5. /\ Moves(m, r, {}, {}) /\ Ready(r, r.cur) /\ r.pended = m.pended /\ Highest(r)
        /\ Rests(m, r) /\ SameTimes(m, r)
    BY <2>2, <2>4, SelectMoves
  <2> HIDE DEF r
  <2>6. Moves(s, r, {}, {}) /\ Rests(s, r) /\ SameTimes(s, r)
    BY <2>1, <2>2, <2>5, MovesOn, RestsOn DEF SameTimes
  <2> QED
    BY <2>2, <2>3, <2>5, <2>6
<1> QED
  BY <1>2, <1>3

LEMMA SwitchedMoves ==
  ASSUME NEW s, Sound(s), NEW always
  PROVE  LET r == Switched(s, always)
         IN  /\ Moves(s, r, {}, {}) /\ r.pended = s.pended /\ Rests(s, r) /\ SameTimes(s, r)
             /\ IF always THEN r.yield \/ Highest(r) ELSE r = s
<1>1. CASE always
  BY <1>1, SwitchMoves DEF Switched
<1>2. CASE ~always
  BY <1>2, Stays, KeepsStill DEF Switched, Keeps, SameTimes
<1> QED
  BY <1>1, <1>2

-----------------------------------------------------------------------------
\* Time and the wake-ups.

LEMMA ResetMoves ==
  ASSUME NEW s, Sound(s)
  PROVE  LET r == prvResetNextTaskUnblockTime(s)
         IN  /\ Moves(s, r, {}, {}) /\ SameClock(s, r)
             /\ r.delayed = s.delayed /\ r.overflow = s.overflow /\ r.wake = s.wake
             /\ r.event = s.event /\ r.ready = s.ready
             /\ Ordered(s.delayed, s.wake) => \A t \in ToSet(s.delayed) : r.next <= s.wake[t]
<1> DEFINE n == IF s.delayed = <<>> THEN portMAX_DELAY ELSE s.wake[Head(s.delayed)]
           r == [s EXCEPT !.next = n]
<1>1. s \in Kernel /\ s.delayed \in Seq(Task) /\ s.wake \in [Task -> Ticks]
  BY DEF Sound, Tidy, Kernel
<1>2. n \in Ticks
  <2>1. TickMod \in Nat /\ TickMod > 1
    BY RtosAssumption
  <2>2. s.delayed # <<>> => Head(s.delayed) \in Task
    BY <1>1
  <2> QED
    BY <1>1, <2>1, <2>2 DEF portMAX_DELAY, Ticks
<1>3. ASSUME Ordered(s.delayed, s.wake), NEW t \in ToSet(s.delayed) PROVE n <= s.wake[t]
  <2>1. PICK i \in DOMAIN s.delayed : s.delayed[i] = t
    BY DEF ToSet
  <2>2. i \in 1..Len(s.delayed) /\ 1 \in DOMAIN s.delayed /\ s.delayed # <<>>
    BY <1>1, <2>1
  <2>3. n = s.wake[s.delayed[1]] /\ s.wake[t] \in Ticks
    BY <1>1, <2>1, <2>2
  <2>4. 1 < i => s.wake[s.delayed[1]] <= s.wake[s.delayed[i]]
    BY <1>3, <2>1, <2>2 DEF Ordered
  <2>5. CASE 1 < i
    BY <2>1, <2>3, <2>4, <2>5
  <2>6. CASE ~(1 < i)
    <3>1. i = 1 /\ s.wake[t] \in Int
      BY <2>2, <2>3, <2>6, RtosAssumption DEF Ticks
    <3> QED
      BY <2>1, <2>3, <3>1
  <2> QED
    BY <2>5, <2>6
<1> HIDE DEF n
<1>4. Alike(s, r)
  BY <1>1, <1>2 DEF Alike, Kernel
<1>5. /\ SameClock(s, r) /\ r.delayed = s.delayed /\ r.overflow = s.overflow
      /\ r.wake = s.wake /\ r.event = s.event /\ r.ready = s.ready /\ r.next = n
  BY <1>1 DEF Kernel, SameClock
<1>6. r = prvResetNextTaskUnblockTime(s)
  BY DEF prvResetNextTaskUnblockTime, n
<1> HIDE DEF r
<1> QED
  BY <1>3, <1>4, <1>5, <1>6, AlikeMoves

LEMMA SwapMoves ==
  ASSUME NEW s, Sound(s)
  PROVE  LET r == taskSWITCH_DELAYED_LISTS(s)
         IN  /\ Moves(s, r, {}, {}) /\ r.cur = s.cur /\ r.pended = s.pended
             /\ r.yield = s.yield /\ r.tick = s.tick /\ r.ready = s.ready
             /\ r.delayed = s.overflow /\ r.overflow = s.delayed /\ r.wake = s.wake
             /\ Ordered(s.overflow, s.wake) => \A t \in ToSet(s.overflow) : r.next <= s.wake[t]
<1> DEFINE w == (s.wraps + 1) % WrapMod
           m == [s EXCEPT !.delayed = s.overflow, !.overflow = s.delayed, !.wraps = w]
           r == prvResetNextTaskUnblockTime(m)
<1>1. s \in Kernel
  BY DEF Sound, Tidy
<1>2. w \in 0..WrapMod - 1
  BY <1>1, RtosAssumption DEF Kernel
<1>3. r = taskSWITCH_DELAYED_LISTS(s)
  BY <1>1 DEF taskSWITCH_DELAYED_LISTS, Kernel
<1> HIDE DEF w
<1>4. Alike(s, m)
  BY <1>1, <1>2 DEF Alike, Kernel
<1>5. /\ m.cur = s.cur /\ m.pended = s.pended /\ m.yield = s.yield /\ m.tick = s.tick
      /\ m.ready = s.ready /\ m.delayed = s.overflow /\ m.overflow = s.delayed
      /\ m.wake = s.wake
  BY <1>1 DEF Kernel
<1> HIDE DEF m
<1>6. Moves(s, m, {}, {}) /\ Sound(m)
  BY <1>4, AlikeMoves DEF Moves
<1>7. /\ Moves(m, r, {}, {}) /\ SameClock(m, r)
      /\ r.delayed = m.delayed /\ r.overflow = m.overflow /\ r.wake = m.wake
      /\ r.ready = m.ready
      /\ Ordered(m.delayed, m.wake) => \A t \in ToSet(m.delayed) : r.next <= m.wake[t]
  BY <1>6, ResetMoves
<1> HIDE DEF r
<1>8. Moves(s, r, {}, {})
  BY <1>5, <1>6, <1>7, MovesOn DEF SameClock
<1> QED
  BY <1>3, <1>5, <1>7, <1>8 DEF SameClock

\* xTaskIncrementTick's loop over the tasks whose time has come.
LEMMA UnblockMoves ==
  ASSUME NEW s, Sound(s)
  PROVE  LET r == UnblockExpired(s)
         IN  /\ Moves(s, r, {}, {}) /\ SameClock(s, r)
             /\ Sleepers(r) \subseteq Sleepers(s) /\ ToSet(r.delayed) \subseteq ToSet(s.delayed)
             /\ ToSet(r.overflow) \subseteq ToSet(s.overflow)
             /\ \A t \in Sleepers(r) : r.wake[t] = s.wake[t]
             /\ \A t \in Sleepers(s) \ Sleepers(r) :
                  t \in ToSet(s.delayed) /\ s.wake[t] <= s.tick
             /\ \A t \in Task :
                  Ready(r, t) => Ready(s, t) \/ t \in ToSet(s.delayed) \ ToSet(r.delayed)
             /\ Ordered(s.delayed, s.wake) /\ Ordered(s.overflow, s.wake)
                  => /\ Ordered(r.delayed, r.wake) /\ Ordered(r.overflow, r.wake)
                     /\ \A t \in ToSet(r.delayed) : s.tick < r.wake[t] /\ r.next <= r.wake[t]
<1> DEFINE later   == {i \in 1..Len(s.delayed) : s.wake[s.delayed[i]] > s.tick}
           expired == IF later = {} THEN s.delayed ELSE SubSeq(s.delayed, 1, Min(later) - 1)
           c       == [from |-> s, expired |-> expired]
           woken   == Expiry!Folded(c, s, expired)
<1>1. /\ s \in Kernel /\ s.delayed \in Seq(Task) /\ Tidy(s) /\ s.wake \in [Task -> Ticks]
      /\ s.tick \in Ticks /\ DOMAIN s.delayed = 1..Len(s.delayed) /\ Len(s.delayed) \in Nat
  <2>1. Tidy(s) /\ s \in Kernel
    BY DEF Sound, Tidy
  <2> QED
    BY <2>1 DEF Kernel
<1>2. later # {} => /\ Min(later) \in 1..Len(s.delayed) /\ Min(later) \in later
                    /\ \A i \in later : Min(later) <= i
  <2>1. later \in SUBSET (0..Len(s.delayed)) /\ later \subseteq 1..Len(s.delayed)
    OBVIOUS
  <2> HIDE DEF later
  <2>2. later # {} => \E x \in later : \A y \in later : x <= y
    BY <1>1, <2>1, Expiry!Least
  <2> QED
    BY <2>1, <2>2 DEF Min
<1>3. \A i \in 1..Len(s.delayed) : i \in later <=> s.wake[s.delayed[i]] > s.tick
  OBVIOUS
<1> HIDE DEF later
<1>4. /\ expired \in Seq(Task) /\ Len(expired) \in Nat /\ DOMAIN expired = 1..Len(expired)
      /\ \A i \in 1..Len(expired) : expired[i] \in Task \cap ToSet(s.delayed)
  <2>1. DOMAIN s.delayed = 1..Len(s.delayed) /\ Len(s.delayed) \in Nat
    BY <1>1
  <2>2. CASE later = {}
    BY <1>1, <2>1, <2>2 DEF ToSet
  <2>3. CASE later # {}
    <3> DEFINE first == Min(later)
               sub   == SubSeq(s.delayed, 1, first - 1)
    <3>0. first \in 1..Len(s.delayed)
      BY <1>2, <2>3
    <3> HIDE DEF first
    <3>1. /\ sub \in Seq(Task) /\ Len(sub) = first - 1
          /\ \A i \in 1..first - 1 : sub[i] = s.delayed[i]
      BY <1>1, <2>1, <3>0
    <3>2. expired = sub
      BY <2>3 DEF first
    <3> HIDE DEF sub, expired
    <3>3. \A i \in 1..first - 1 : sub[i] \in Task \cap ToSet(s.delayed)
      BY <1>1, <2>1, <3>0, <3>1 DEF ToSet
    <3> QED
      BY <3>0, <3>1, <3>2, <3>3
  <2> QED
    BY <1>2, <2>2, <2>3
<1>5. /\ \A i \in 1..Len(expired) : expired[i] = s.delayed[i] /\ i \in 1..Len(s.delayed)
                                   /\ i \notin later
      /\ \A i \in 1..Len(s.delayed) :
           i \in 1..Len(expired) \/ (later # {} /\ Min(later) <= i)
  <2>1. CASE later = {}
    BY <1>1, <2>1
  <2>2. CASE later # {}
    <3> DEFINE first == Min(later)
               sub   == SubSeq(s.delayed, 1, first - 1)
    <3>1. first \in 1..Len(s.delayed) /\ \A i \in later : first <= i
      BY <1>2, <2>2
    <3>2. expired = sub
      BY <2>2
    <3> HIDE DEF first, expired
    <3>3. Len(sub) = first - 1 /\ \A i \in 1..first - 1 : sub[i] = s.delayed[i]
      BY <1>1, <3>1
    <3> HIDE DEF sub
    <3>4. \A i \in 1..first - 1 : i \in 1..Len(s.delayed) /\ i \notin later
      BY <1>1, <3>1
    <3>5. \A i \in 1..Len(s.delayed) : i \in 1..first - 1 \/ first <= i
      BY <1>1, <3>1
    <3> QED
      BY <2>2, <3>2, <3>3, <3>4, <3>5 DEF first
  <2> QED
    BY <2>1, <2>2
<1> HIDE DEF expired, c
<1>6. c.from = s /\ c.expired = expired
  BY DEF c
<1>7. KeptWaking(c, 0, s)
  <2>1. Rests(s, s)
    BY KeepsStill DEF Keeps
  <2> QED
    BY <1>6, <2>1, Stays DEF KeptWaking, SameClock
<1>8. ASSUME NEW i \in 1..Len(expired), NEW x, KeptWaking(c, i - 1, x)
      PROVE  KeptWaking(c, i, Awake(c, x, expired[i]))
  <2> DEFINE t == expired[i]
             r == MakeReady(RemoveEventItem(x, t), t)
  <2>1. /\ Moves(s, x, {}, {}) /\ SameClock(s, x) /\ Rests(s, x) /\ Sound(x)
        /\ \A j \in 1..i - 1 : expired[j] \notin Sleepers(x)
        /\ Sleepers(s) \subseteq Sleepers(x) \cup ToSet(expired)
        /\ \A u \in Task : Ready(x, u) => Ready(s, u) \/ u \in Sleepers(s) \ Sleepers(x)
    BY <1>8, <1>6 DEF KeptWaking, Moves
  <2>2. t \in Task /\ t \in Sleepers(s) /\ t \in ToSet(expired)
    BY <1>4 DEF Sleepers, ToSet
  <2>11. \A j \in 1..i : j = i \/ j \in 1..i - 1
    BY <1>4
  <2> HIDE DEF t
  <2>3. t \notin Ended(s) /\ Has(s, t)
    BY <1>1, <2>2 DEF Tidy, Has
  <2>4. t \notin Ended(x) /\ Has(x, t)
    BY <2>1, <2>2, <2>3 DEF Moves
  <2>5. /\ Moves(x, r, {}, {}) /\ SameClock(x, r) /\ Rests(x, r)
        /\ \A u \in Task : Ready(r, u) <=> Ready(x, u) \/ u = t
        /\ Sleepers(r) = Sleepers(x) \ {t}
    BY <2>1, <2>2, <2>4, WokenMoves
  <2> HIDE DEF r
  <2>6. Moves(s, r, {}, {}) /\ SameClock(s, r) /\ Rests(s, r)
    BY <2>1, <2>5, MovesOn, RestsOn DEF SameClock
  <2>7. \A j \in 1..i : expired[j] \notin Sleepers(r)
    BY <2>1, <2>5, <2>11 DEF t
  <2>8. Sleepers(s) \subseteq Sleepers(r) \cup ToSet(expired)
    BY <2>1, <2>2, <2>5
  <2>9. \A u \in Task : Ready(r, u) => Ready(s, u) \/ u \in Sleepers(s) \ Sleepers(r)
    BY <2>1, <2>2, <2>5
  <2>10. r = Awake(c, x, expired[i])
    BY DEF Awake, r, t
  <2> QED
    BY <1>6, <2>6, <2>7, <2>8, <2>9, <2>10 DEF KeptWaking
<1>9. KeptWaking(c, Len(expired), woken)
  BY <1>4, <1>7, <1>8, Expiry!FoldInvariant
<1>10. UnblockExpired(s) = prvResetNextTaskUnblockTime(woken)
  BY DEF UnblockExpired, later, expired, Expiry!Folded, FoldLeft,
         MapThenFoldSet, Expiry!MapThenFoldSet, Max, Expiry!Max, Awake
<1> HIDE DEF woken
<1>11. /\ Moves(s, woken, {}, {}) /\ SameClock(s, woken) /\ Rests(s, woken) /\ Sound(woken)
       /\ \A i \in 1..Len(expired) : expired[i] \notin Sleepers(woken)
       /\ Sleepers(s) \subseteq Sleepers(woken) \cup ToSet(expired)
       /\ \A t \in Task : Ready(woken, t) => Ready(s, t) \/ t \in Sleepers(s) \ Sleepers(woken)
  BY <1>6, <1>9 DEF KeptWaking, Moves
<1> DEFINE r == prvResetNextTaskUnblockTime(woken)
<1>12. /\ Moves(woken, r, {}, {}) /\ SameClock(woken, r)
       /\ r.delayed = woken.delayed /\ r.overflow = woken.overflow /\ r.wake = woken.wake
       /\ r.ready = woken.ready
       /\ Ordered(woken.delayed, woken.wake)
            => \A t \in ToSet(woken.delayed) : r.next <= woken.wake[t]
  BY <1>11, ResetMoves
<1> HIDE DEF r
<1>13. Moves(s, r, {}, {}) /\ SameClock(s, r)
  BY <1>11, <1>12, MovesOn DEF SameClock
<1>14. Sleepers(r) = Sleepers(woken) /\ \A t : Ready(r, t) <=> Ready(woken, t)
  BY <1>12 DEF Sleepers, Ready
<1>15. /\ Sleepers(r) \subseteq Sleepers(s) /\ ToSet(r.delayed) \subseteq ToSet(s.delayed)
       /\ ToSet(r.overflow) \subseteq ToSet(s.overflow)
       /\ \A t \in Sleepers(r) : r.wake[t] = s.wake[t]
       /\ Ordered(s.delayed, s.wake) => Ordered(r.delayed, r.wake)
       /\ Ordered(s.overflow, s.wake) => Ordered(r.overflow, r.wake)
  BY <1>11, <1>12, <1>14 DEF Rests, Sleepers
<1>16. ASSUME NEW t \in Sleepers(s) \ Sleepers(r)
       PROVE  t \in ToSet(s.delayed) /\ s.wake[t] <= s.tick
  <2>1. PICK i \in 1..Len(expired) : t = expired[i]
    BY <1>4, <1>11, <1>14 DEF ToSet
  <2>2. t = s.delayed[i] /\ i \in 1..Len(s.delayed) /\ ~(s.wake[t] > s.tick)
    BY <1>3, <1>5, <2>1
  <2>3. t \in Task /\ t \in ToSet(s.delayed)
    BY <1>1, <2>2 DEF ToSet
  <2>4. s.wake[t] \in Int /\ s.tick \in Int
    BY <1>1, <2>3 DEF Ticks
  <2> QED
    BY <2>2, <2>3, <2>4
<1>17. \A t \in Task : Ready(r, t) => Ready(s, t) \/ t \in ToSet(s.delayed) \ ToSet(r.delayed)
  <2>1. \A t \in Task : Ready(r, t) => Ready(s, t) \/ t \in Sleepers(s) \ Sleepers(r)
    BY <1>11, <1>14
  <2>2. ToSet(r.delayed) \subseteq Sleepers(r)
    BY DEF Sleepers
  <2> QED
    BY <1>16, <2>1, <2>2
<1>18. ASSUME Ordered(s.delayed, s.wake), NEW t \in ToSet(r.delayed)
       PROVE  s.tick < r.wake[t] /\ r.next <= r.wake[t]
  <2>1. t \in ToSet(s.delayed) /\ t \in Sleepers(r) /\ r.wake[t] = s.wake[t]
    BY <1>15 DEF Sleepers
  <2>2. PICK j \in 1..Len(s.delayed) : s.delayed[j] = t
    BY <1>1, <2>1 DEF ToSet
  <2>3. j \notin 1..Len(expired)
    BY <1>11, <1>14, <1>5, <2>1, <2>2
  <2>4. later # {} /\ Min(later) <= j /\ Min(later) \in 1..Len(s.delayed)
    BY <1>2, <1>5, <2>2, <2>3
  <2> DEFINE first == Min(later)
  <2>5. s.wake[s.delayed[first]] > s.tick
    BY <1>2, <1>3, <2>4
  <2>6. first <= j /\ first \in 1..Len(s.delayed)
    BY <2>4
  <2> HIDE DEF first
  <2>7. s.wake[s.delayed[first]] \in Int /\ s.wake[t] \in Int /\ s.tick \in Int
    <3>1. s.delayed[first] \in Task /\ t \in Task
      BY <1>1, <2>2, <2>6
    <3> QED
      BY <1>1, <3>1 DEF Ticks
  <2>8. s.wake[s.delayed[first]] <= s.wake[t]
    <3>1. CASE first < j
      BY <1>1, <1>18, <2>2, <2>6, <3>1 DEF Ordered
    <3>2. CASE first = j
      BY <2>2, <2>7, <3>2
    <3> QED
      BY <2>6, <3>1, <3>2
  <2>9. r.next <= r.wake[t]
    BY <1>12, <1>15, <1>18
  <2> QED
    BY <2>1, <2>5, <2>7, <2>8, <2>9
<1> QED
  BY <1>10, <1>13, <1>15, <1>16, <1>17, <1>18 DEF r

LEMMA TickMoves ==
  ASSUME NEW s, Sound(s)
  PROVE  LET r == xTaskIncrementTick(s)
         IN  /\ Moves(s, r.k, {}, {}) /\ r.k.cur = s.cur
             /\ r.k.pended = IF s.susp = 0 THEN s.pended ELSE s.pended + 1
             /\ r.k.yield = s.yield /\ (s.yield => r.switch)
             /\ \A t \in Task :
                  Ready(r.k, t) => Ready(s, t) \/ r.switch \/ Prio[t] <= Prio[s.cur]
             /\ s.susp # 0 => SameTimes(s, r.k)
             /\ s.susp = 0 /\ OnTime(s) => Ticked(s, 1, r.k)
<1>1. s \in Kernel /\ s.tick \in Ticks /\ s.cur \in Task
  BY DEF Sound, Tidy, Kernel
<1>2. CASE s.susp # 0
  <2> DEFINE n == s.pended + 1
             r == [s EXCEPT !.pended = n]
  <2>1. xTaskIncrementTick(s).k = r /\ xTaskIncrementTick(s).switch = s.yield
    BY <1>1, <1>2 DEF xTaskIncrementTick, Kernel
  <2>2. n \in Nat
    BY <1>1 DEF Kernel
  <2>3. n = s.pended + 1
    OBVIOUS
  <2> HIDE DEF n
  <2>4. /\ Alike(s, r) /\ r.cur = s.cur /\ r.pended = n /\ r.yield = s.yield
        /\ SameTimes(s, r) /\ r.ready = s.ready
    BY <1>1, <2>2 DEF Alike, Kernel, SameTimes
  <2> HIDE DEF r
  <2>5. Moves(s, r, {}, {}) /\ \A t : Ready(r, t) <=> Ready(s, t)
    BY <2>4, AlikeMoves DEF Ready
  <2> QED
    BY <1>2, <2>1, <2>3, <2>4, <2>5
<1>3. CASE s.susp = 0
  <2> DEFINE m == (s.tick + 1) % TickMod
             t1 == [s EXCEPT !.tick = m]
             t2 == IF t1.tick = 0 THEN taskSWITCH_DELAYED_LISTS(t1) ELSE t1
             t3 == IF t2.tick >= t2.next THEN UnblockExpired(t2) ELSE t2
             woken == ToSet(t2.delayed) \ ToSet(t3.delayed)
             r == xTaskIncrementTick(s)
  <2>1. /\ r.k = t3
        /\ r.switch = (\/ \E t \in woken : Prio[t] >= Prio[s.cur]
                       \/ listCURRENT_LIST_LENGTH(t3.ready[Prio[s.cur]]) > 1
                       \/ s.yield)
    BY <1>1, <1>3 DEF xTaskIncrementTick, Kernel
  <2> HIDE DEF r
  <2>2. /\ m \in Ticks /\ TickMod \in Nat /\ s.tick \in 0..TickMod - 1
        /\ m = IF s.tick = TickMod - 1 THEN 0 ELSE s.tick + 1
    <3>1. 1 \in Ticks /\ TickMod \in Nat /\ TickMod > 1
      BY RtosAssumption DEF Ticks
    <3>2. m = IF s.tick + 1 < TickMod THEN s.tick + 1 ELSE s.tick + 1 - TickMod
      BY <1>1, <3>1, Wrapped
    <3> HIDE DEF m
    <3> QED
      BY <1>1, <3>1, <3>2 DEF Ticks
  <2> HIDE DEF m
  <2>3. /\ Alike(s, t1) /\ t1.cur = s.cur /\ t1.pended = s.pended /\ t1.yield = s.yield
        /\ t1.tick = m /\ t1.ready = s.ready /\ t1.delayed = s.delayed
        /\ t1.overflow = s.overflow /\ t1.wake = s.wake /\ t1.next = s.next
    BY <1>1, <2>2 DEF Alike, Kernel
  <2> HIDE DEF t1
  <2>4. Moves(s, t1, {}, {}) /\ Sound(t1)
    BY <2>3, AlikeMoves DEF Moves
  <2> DEFINE w == taskSWITCH_DELAYED_LISTS(t1)
  <2>5. /\ Moves(t1, w, {}, {}) /\ w.cur = t1.cur /\ w.pended = t1.pended
        /\ w.yield = t1.yield /\ w.tick = t1.tick /\ w.ready = t1.ready
        /\ w.delayed = t1.overflow /\ w.overflow = t1.delayed /\ w.wake = t1.wake
        /\ Ordered(t1.overflow, t1.wake) => \A t \in ToSet(t1.overflow) : w.next <= t1.wake[t]
    BY <2>4, SwapMoves
  <2>6. t2 = IF m = 0 THEN w ELSE t1
    BY <2>3
  <2> HIDE DEF w, t2
  <2>7. /\ Moves(s, t2, {}, {}) /\ t2.cur = s.cur /\ t2.pended = s.pended
        /\ t2.yield = s.yield /\ t2.tick = m /\ t2.ready = s.ready /\ t2.wake = s.wake
        /\ IF m = 0 THEN t2.delayed = s.overflow /\ t2.overflow = s.delayed
                    ELSE t2.delayed = s.delayed /\ t2.overflow = s.overflow
    BY <2>3, <2>4, <2>5, <2>6, MovesOn
  <2>8. ASSUME OnTime(s)
        PROVE  /\ Ordered(t2.delayed, t2.wake) /\ Ordered(t2.overflow, t2.wake)
               /\ \A t \in ToSet(t2.delayed) : t2.next <= t2.wake[t]
               /\ \A t \in ToSet(t2.overflow) : t2.wake[t] < m
               /\ \A t \in Sleepers(s) : Due(t2, t) = Due(s, t) - 1
    <3>1. \A t \in Sleepers(s) : t \in Task /\ s.wake[t] \in 0..TickMod - 1
      BY <1>1 DEF Kernel, Sleepers, ToSet, Ticks
    <3>2. CASE m = 0
      <4>1. s.tick = TickMod - 1
        BY <2>2, <3>2
      <4>2. ToSet(s.delayed) = {}
        BY <2>2, <2>8, <4>1 DEF OnTime
      <4>3. t2 = w
        BY <2>6, <3>2
      <4>4. \A t \in Sleepers(s) : Due(t2, t) = Due(s, t) - 1
        <5> TAKE t \in Sleepers(s)
        <5>1. t \in ToSet(t2.delayed) /\ t \notin ToSet(s.delayed)
          BY <2>7, <3>2, <4>2 DEF Sleepers
        <5>2. Due(t2, t) = s.wake[t] - 0 /\ Due(s, t) = s.wake[t] + TickMod - (TickMod - 1)
          BY <2>7, <3>2, <4>1, <5>1 DEF Due
        <5> QED
          BY <2>2, <3>1, <5>2
      <4> QED
        BY <2>3, <2>5, <2>7, <2>8, <3>2, <4>2, <4>3, <4>4 DEF OnTime
    <3>3. CASE m # 0
      <4>1. m = s.tick + 1
        BY <2>2, <3>3
      <4>2. t2 = t1
        BY <2>6, <3>3
      <4>3. \A t \in Sleepers(s) : Due(t2, t) = Due(s, t) - 1
        <5> TAKE t \in Sleepers(s)
        <5>1. s.wake[t] \in Int /\ s.tick \in Int /\ TickMod \in Int
          BY <2>2, <3>1
        <5>2. /\ t \in ToSet(s.delayed) => Due(t2, t) = s.wake[t] - (s.tick + 1)
                                           /\ Due(s, t) = s.wake[t] - s.tick
              /\ t \notin ToSet(s.delayed) => Due(t2, t) = s.wake[t] + TickMod - (s.tick + 1)
                                              /\ Due(s, t) = s.wake[t] + TickMod - s.tick
          BY <2>7, <3>3, <4>1 DEF Due
        <5> QED
          BY <5>1, <5>2
      <4>4. \A t \in ToSet(t2.overflow) : t2.wake[t] < m
        <5> TAKE t \in ToSet(t2.overflow)
        <5>1. t \in Sleepers(s) /\ s.wake[t] < s.tick
          BY <2>7, <2>8, <3>3 DEF OnTime, Sleepers
        <5> QED
          BY <2>2, <2>7, <3>1, <4>1, <5>1
      <4> QED
        BY <2>3, <2>7, <2>8, <3>3, <4>2, <4>3, <4>4 DEF OnTime
    <3> QED
      BY <3>2, <3>3
  <2> DEFINE u == UnblockExpired(t2)
  <2>9. Sound(t2) /\ t2 \in Kernel /\ t2.next \in Int /\ t2.tick \in Int
    <3>1. Sound(t2) /\ t2 \in Kernel
      BY <2>7 DEF Moves, Sound, Tidy
    <3> QED
      BY <3>1, RtosAssumption DEF Kernel, Ticks
  <2>10. /\ Moves(t2, u, {}, {}) /\ SameClock(t2, u)
         /\ Sleepers(u) \subseteq Sleepers(t2) /\ ToSet(u.delayed) \subseteq ToSet(t2.delayed)
         /\ ToSet(u.overflow) \subseteq ToSet(t2.overflow)
         /\ \A t \in Sleepers(u) : u.wake[t] = t2.wake[t]
         /\ \A t \in Sleepers(t2) \ Sleepers(u) : t \in ToSet(t2.delayed) /\ t2.wake[t] <= t2.tick
         /\ \A t \in Task : Ready(u, t) => Ready(t2, t) \/ t \in ToSet(t2.delayed) \ ToSet(u.delayed)
         /\ Ordered(t2.delayed, t2.wake) /\ Ordered(t2.overflow, t2.wake)
              => /\ Ordered(u.delayed, u.wake) /\ Ordered(u.overflow, u.wake)
                 /\ \A t \in ToSet(u.delayed) : t2.tick < u.wake[t] /\ u.next <= u.wake[t]
    BY <2>9, UnblockMoves
  <2>11. t3 = IF t2.tick >= t2.next THEN u ELSE t2
    OBVIOUS
  <2> HIDE DEF u, t3
  <2>12. /\ Moves(t2, t3, {}, {}) /\ SameClock(t2, t3)
         /\ Sleepers(t3) \subseteq Sleepers(t2) /\ ToSet(t3.delayed) \subseteq ToSet(t2.delayed)
         /\ ToSet(t3.overflow) \subseteq ToSet(t2.overflow)
         /\ \A t \in Sleepers(t3) : t3.wake[t] = t2.wake[t]
         /\ \A t \in Sleepers(t2) \ Sleepers(t3) : t \in ToSet(t2.delayed) /\ t2.wake[t] <= t2.tick
         /\ \A t \in Task : Ready(t3, t) => Ready(t2, t) \/ t \in woken
    <3>1. CASE t2.tick >= t2.next
      BY <2>10, <2>11, <3>1
    <3>2. CASE ~(t2.tick >= t2.next)
      BY <2>9, <2>11, <3>2, Stays DEF SameClock
    <3> QED
      BY <3>1, <3>2
  <2>13. ASSUME OnTime(s)
         PROVE  /\ Ordered(t3.delayed, t3.wake) /\ Ordered(t3.overflow, t3.wake)
                /\ \A t \in ToSet(t3.delayed) : t2.tick < t3.wake[t] /\ t3.next <= t3.wake[t]
    <3>1. CASE t2.tick >= t2.next
      BY <2>8, <2>10, <2>11, <2>13, <3>1
    <3>2. CASE ~(t2.tick >= t2.next)
      <4>1. ASSUME NEW t \in ToSet(t2.delayed)
            PROVE  t2.tick < t2.wake[t] /\ t2.next <= t2.wake[t]
        <5>1. t2.wake[t] \in Ticks
          BY <2>9, <4>1 DEF Kernel, ToSet
        <5>2. t2.next <= t2.wake[t] /\ t2.wake[t] \in Int
          BY <2>8, <2>13, <4>1, <5>1, RtosAssumption DEF Ticks
        <5> QED
          BY <2>9, <3>2, <5>2
      <4> QED
        BY <2>8, <2>11, <2>13, <3>2, <4>1
    <3> QED
      BY <3>1, <3>2
  <2>14. Moves(s, t3, {}, {}) /\ t3.cur = s.cur /\ t3.pended = s.pended /\ t3.yield = s.yield
    BY <2>7, <2>12, MovesOn DEF SameClock
  <2>15. \A t \in Task : Ready(t3, t) => Ready(s, t) \/ r.switch \/ Prio[t] <= Prio[s.cur]
    <3>1. \A t \in Task : Ready(t2, t) <=> Ready(s, t)
      BY <2>7 DEF Ready
    <3>2. \A t \in woken : r.switch \/ ~(Prio[t] >= Prio[s.cur])
      BY <2>1
    <3>3. \A t \in Task : Prio[t] \in Nat
      BY RtosAssumption
    <3> QED
      BY <1>1, <2>12, <3>1, <3>2, <3>3
  <2>16. ASSUME OnTime(s) PROVE Ticked(s, 1, t3)
    <3>1. /\ Sleepers(t2) = Sleepers(s)
          /\ \A t \in Sleepers(t2) : t2.wake[t] \in 0..TickMod - 1
      BY <2>7, <2>9 DEF Sleepers, Kernel, ToSet, Ticks
    <3>2. t3.tick = m /\ t2.tick = m /\ m \in 0..TickMod - 1
      BY <2>2, <2>7, <2>12 DEF SameClock, Ticks
    <3>3. \A t \in ToSet(t3.delayed) : t \in Sleepers(t3) /\ t \in ToSet(t2.delayed)
      BY <2>12 DEF Sleepers
    <3>4. \A t \in ToSet(t3.overflow) :
            t \in Sleepers(t3) /\ t \in ToSet(t2.overflow) /\ t \notin ToSet(t2.delayed)
      BY <2>9, <2>12 DEF Sleepers, Sound, Tidy
    <3>5. OnTime(t3)
      <4>1. ASSUME NEW t \in ToSet(t3.delayed)
            PROVE  t3.tick <= t3.wake[t] /\ t3.next <= t3.wake[t] /\ t3.tick < TickMod - 1
        <5>1. t3.wake[t] \in 0..TickMod - 1
          BY <2>12, <3>1, <3>3, <4>1
        <5> QED
          BY <2>2, <2>13, <2>16, <3>2, <4>1, <5>1
      <4>2. \A t \in ToSet(t3.overflow) : t3.wake[t] < t3.tick
        BY <2>8, <2>12, <2>16, <3>2, <3>4
      <4> QED
        BY <2>13, <2>16, <4>1, <4>2 DEF OnTime
    <3>6. ASSUME NEW t \in Sleepers(t3) PROVE Due(t3, t) = Due(s, t) - 1 /\ Due(t3, t) > 0
      <4>1. Due(t3, t) = Due(t2, t)
        BY <2>12, <3>2, <3>3, <3>4, <3>6 DEF Due, Sleepers
      <4>2. Due(t2, t) = Due(s, t) - 1
        BY <2>8, <2>12, <2>16, <3>1, <3>6
      <4>3. t3.wake[t] \in 0..TickMod - 1
        BY <2>12, <3>1, <3>6
      <4>4. t \in ToSet(t3.delayed) => m < t3.wake[t]
        BY <2>13, <2>16, <3>2
      <4>5. Due(t3, t) > 0
        BY <2>2, <3>2, <4>3, <4>4 DEF Due
      <4> QED
        BY <4>1, <4>2, <4>5
    <3>7. ASSUME NEW t \in Sleepers(s) \ Sleepers(t3) PROVE Due(s, t) <= 1
      <4>1. t \in ToSet(t2.delayed) /\ t2.wake[t] <= m /\ t2.wake[t] \in 0..TickMod - 1
        BY <2>12, <3>1, <3>2, <3>7
      <4>2. Due(t2, t) = t2.wake[t] - m
        BY <3>2, <4>1 DEF Due
      <4>3. Due(t2, t) = Due(s, t) - 1
        BY <2>8, <2>16, <3>7
      <4>4. Due(s, t) \in Int
        <5>1. s.wake[t] \in Int /\ s.tick \in Int /\ TickMod \in Int
          BY <1>1, <2>2, <2>7, <4>1
        <5> QED
          BY <5>1 DEF Due
      <4> QED
        BY <3>2, <4>1, <4>2, <4>3, <4>4
    <3>8. t3.tick = s.tick + 1 \/ t3.tick = s.tick + 1 - TickMod
      BY <2>2, <3>2
    <3> QED
      BY <2>12, <3>1, <3>5, <3>6, <3>7, <3>8 DEF Ticked
  <2> QED
    BY <1>3, <2>1, <2>14, <2>15, <2>16 DEF r
<1> QED
  BY <1>2, <1>3

\* xTaskResumeAll's two loops.
LEMMA PendingMoves ==
  ASSUME NEW s, Sound(s)
  PROVE  LET r == MovePending(s)
         IN  /\ KeptSame(s, 0, r) /\ r.event["pending"] = <<>>
             /\ Sleepers(s) \subseteq Sleepers(r) \cup ToSet(s.event["pending"])
<1> DEFINE p == s.event["pending"]
           n == Len(p)
           r == Moving!Folded(s, s, p)
<1>1. "pending" \in Lists /\ s \in Kernel /\ Tidy(s)
  BY DEF Sound, Tidy, Lists
<1>2. p \in Seq(Task) /\ n \in Nat /\ DOMAIN p = 1..n /\ IsInjective(p)
  BY <1>1 DEF Kernel, Tidy
<1>3. \A i \in 1..n : p[i] \in Task /\ (Ready(s, p[i]) \/ p[i] \in Sleepers(s))
  BY <1>2 DEF Sound, ToSet
<1> HIDE DEF n, p
<1>4. ASSUME NEW i \in 0..n
      PROVE  Rest(s, i) = {p[j] : j \in i + 1..n}
  BY DEF Rest, n, p
<1>5. KeptPending(s, 0, s)
  <2>1. ToSet(p) = {p[j] : j \in 0 + 1..n}
    BY <1>2 DEF ToSet
  <2> QED
    BY <1>2, <1>4, <2>1, Stays, KeepsStill DEF KeptPending, KeptSame, p
<1>6. ASSUME NEW i \in 1..n, NEW x, KeptPending(s, i - 1, x)
      PROVE  KeptPending(s, i, Moved(s, x, p[i]))
  <2> DEFINE t == p[i]
             w == MakeReady(RemoveEventItem(x, t), t)
             b == w.yield \/ Prio[t] >= Prio[s.cur]
             y == [w EXCEPT !.yield = b]
  <2>1. /\ Moves(s, x, {}, {}) /\ x.cur = s.cur /\ x.pended = s.pended /\ Sound(x)
        /\ Keeps(s, x) /\ ToSet(x.event["pending"]) \subseteq {p[j] : j \in i..n}
        /\ Sleepers(s) \subseteq Sleepers(x) \cup ToSet(p)
    <3>1. Rest(s, i - 1) = {p[j] : j \in (i - 1) + 1..n}
      <4>1. i - 1 \in 0..n
        BY <1>2
      <4> QED
        BY <1>4, <4>1
    <3>2. (i - 1) + 1 = i
      BY <1>2
    <3> QED
      BY <1>6, <3>1, <3>2 DEF KeptPending, KeptSame, Moves, p
  <2>2. t \in Task /\ t \notin Ended(s) /\ Has(s, t) /\ t \in ToSet(p)
    BY <1>1, <1>2, <1>3 DEF Tidy, Has, ToSet
  <2> HIDE DEF t
  <2>3. t \notin Ended(x) /\ Has(x, t)
    BY <2>1, <2>2 DEF Moves
  <2>4. /\ Moves(x, w, {}, {}) /\ SameClock(x, w) /\ Rests(x, w)
        /\ \A l \in Lists : ToSet(w.event[l]) = ToSet(x.event[l]) \ {t}
        /\ \A u \in Task : Ready(w, u) <=> Ready(x, u) \/ u = t
        /\ Sleepers(w) = Sleepers(x) \ {t}
    BY <2>1, <2>2, <2>3, WokenMoves
  <2> HIDE DEF w
  <2>5. b \in BOOLEAN /\ (w.yield \/ Prio[t] > Prio[x.cur] => b)
    <3>1. w.yield \in BOOLEAN
      BY <2>4 DEF Moves, Sound, Tidy, Kernel
    <3>2. Prio[t] \in Nat /\ Prio[s.cur] \in Nat
      BY <1>1, <2>2, RtosAssumption DEF Kernel
    <3> QED
      BY <2>1, <3>1, <3>2
  <2>6. y = Moved(s, x, p[i])
    BY DEF Moved, w, t
  <2> HIDE DEF b
  <2>7. /\ Moves(x, y, {}, {}) /\ y.cur = x.cur /\ y.pended = x.pended
        /\ y.event = w.event /\ Sleepers(y) = Sleepers(w) /\ Keeps(x, y)
    BY <2>1, <2>2, <2>4, <2>5, NoteMoves
  <2> HIDE DEF y
  <2>8. Moves(s, y, {}, {}) /\ Keeps(s, y)
    BY <2>1, <2>7, MovesOn, KeepsOn
  <2>9. ToSet(y.event["pending"]) \subseteq Rest(s, i)
    <3>1. Rest(s, i) = {p[j] : j \in i + 1..n}
      BY <1>2, <1>4
    <3>2. {p[j] : j \in i..n} \ {p[i]} \subseteq {p[j] : j \in i + 1..n}
      BY <1>2
    <3>3. ToSet(y.event["pending"]) = ToSet(x.event["pending"]) \ {p[i]}
      BY <1>1, <2>4, <2>7 DEF t
    <3> QED
      BY <2>1, <3>1, <3>2, <3>3
  <2>10. Sleepers(s) \subseteq Sleepers(y) \cup ToSet(p)
    BY <2>1, <2>2, <2>4, <2>7
  <2> QED
    BY <2>1, <2>6, <2>7, <2>8, <2>9, <2>10 DEF KeptPending, KeptSame, p
<1>7. KeptPending(s, n, r)
  <2> HIDE DEF r
  <2>1. r = Moving!Folded(s, s, p)
    BY DEF r
  <2> QED
    BY <1>2, <1>5, <1>6, <2>1, Moving!FoldInvariant
<1>8. MovePending(s) = r
  BY DEF p, MovePending, Moving!Folded, FoldLeft,
         MapThenFoldSet, Moving!MapThenFoldSet, Max, Moving!Max, Moved
<1> HIDE DEF r
<1>9. r.event["pending"] = <<>>
  <2>1. r.event["pending"] \in Seq(Task)
    BY <1>1, <1>7 DEF KeptPending, KeptSame, Moves, Sound, Tidy, Kernel
  <2>2. Rest(s, n) = {}
    <3>1. n + 1..n = {}
      BY <1>2
    <3> QED
      BY <1>2, <1>4, <3>1
  <2>3. ToSet(r.event["pending"]) = {}
    BY <1>7, <2>2 DEF KeptPending
  <2> QED
    BY <2>1, <2>3, EmptyList
<1> QED
  BY <1>7, <1>8, <1>9 DEF KeptPending, KeptSame

\* What n ticks and one more do to the sleeping tasks.
LEMMA TickedOn ==
  ASSUME NEW c, NEW x, NEW y, Tidy(c), Tidy(x), Tidy(y), NEW n \in Nat, n < TickMod - 1,
         Ticked(c, n, x), Ticked(x, 1, y)
  PROVE  Ticked(c, n + 1, y)
<1>1. TickMod \in Nat /\ \A s : Tidy(s) => s.tick \in 0..TickMod - 1
  BY RtosAssumption DEF Tidy, Kernel, Ticks
<1>2. c.tick \in 0..TickMod - 1 /\ x.tick \in 0..TickMod - 1 /\ y.tick \in 0..TickMod - 1
  BY <1>1
<1>3. ASSUME NEW t \in Sleepers(c) PROVE Due(c, t) \in Int
  <2>0. c \in Kernel
    BY DEF Tidy
  <2>1. t \in Task /\ c.wake \in [Task -> Ticks]
    BY <1>3, <2>0 DEF Kernel, Sleepers, ToSet
  <2>2. c.wake[t] \in Int
    BY <1>1, <2>1 DEF Ticks
  <2> QED
    BY <1>1, <1>2, <2>2 DEF Due
<1>4. Sleepers(y) \subseteq Sleepers(x) /\ Sleepers(x) \subseteq Sleepers(c) /\ OnTime(y)
  BY DEF Ticked
<1>5. ASSUME NEW t \in Sleepers(y) PROVE Due(y, t) = Due(c, t) - (n + 1) /\ Due(y, t) > 0
  <2>1. Due(y, t) = Due(x, t) - 1 /\ Due(y, t) > 0 /\ Due(x, t) = Due(c, t) - n
    BY <1>4, <1>5 DEF Ticked
  <2> QED
    BY <1>3, <1>4, <2>1
<1>6. ASSUME NEW t \in Sleepers(c) \ Sleepers(y) PROVE Due(c, t) <= n + 1
  <2>1. CASE t \in Sleepers(x)
    <3>1. Due(x, t) <= 1 /\ Due(x, t) = Due(c, t) - n
      BY <1>6, <2>1 DEF Ticked
    <3> QED
      BY <1>3, <3>1
  <2>2. CASE t \notin Sleepers(x)
    <3>1. Due(c, t) <= n
      BY <1>6, <2>2 DEF Ticked
    <3> QED
      BY <1>3, <3>1
  <2> QED
    BY <2>1, <2>2
<1>7. y.tick = c.tick + (n + 1) \/ y.tick = c.tick + (n + 1) - TickMod
  <2>1. /\ x.tick = c.tick + n \/ x.tick = c.tick + n - TickMod
        /\ y.tick = x.tick + 1 \/ y.tick = x.tick + 1 - TickMod
    BY DEF Ticked
  <2> QED
    BY <1>1, <1>2, <2>1
<1> QED
  BY <1>4, <1>5, <1>6, <1>7 DEF Ticked

LEMMA TickedSame ==
  ASSUME NEW c, NEW n, NEW s, NEW r, Ticked(c, n, s), SameTimes(s, r)
  PROVE  Ticked(c, n, r)
<1>1. Sleepers(r) = Sleepers(s) /\ \A t : Due(r, t) = Due(s, t)
  BY DEF SameTimes, Sleepers, Due
<1> QED
  BY <1>1 DEF Ticked, SameTimes, OnTime

LEMMA CountMoves ==
  ASSUME NEW s, Sound(s), s.susp = 0
  PROVE  LET r == CountPended(s)
         IN  /\ Moves(s, r, {}, {}) /\ r.cur = s.cur /\ r.pended = 0 /\ Heeds(s, r)
             /\ OnTime(s) /\ s.pended < TickMod => Ticked(s, s.pended, r)
<1> DEFINE n == s.pended
           seq == [i \in 1..n |-> i]
           r == Counting!Folded(s, s, seq)
<1>1. n \in Nat /\ DOMAIN seq = 1..n
  BY DEF Sound, Tidy, Kernel
<1>2. CountPended(s) = r
  BY DEF CountPended, Counting!Folded, FoldLeft,
         MapThenFoldSet, Counting!MapThenFoldSet, Max, Counting!Max, CountedTick
<1>3. KeptCounting(s, 0, s)
  <2>1. OnTime(s) => Ticked(s, 0, s)
    <3>1. s.tick \in Int /\ TickMod \in Int /\ \A t \in Sleepers(s) : s.wake[t] \in Int
      <4>1. Tidy(s) /\ s \in Kernel
        BY DEF Sound, Tidy
      <4> QED
        BY <4>1, RtosAssumption DEF Kernel, Sleepers, ToSet, Ticks
    <3>2. \A t \in Sleepers(s) : Due(s, t) \in Int
      BY <3>1 DEF Due
    <3> QED
      BY <3>1, <3>2 DEF Ticked
  <2> QED
    BY <1>1, <2>1, Stays, KeepsStill DEF KeptCounting, Keeps
<1> HIDE DEF n, seq
<1>4. ASSUME NEW i \in 1..n, NEW x, KeptCounting(s, i - 1, x)
      PROVE  KeptCounting(s, i, CountedTick(s, x, seq[i]))
  <2> DEFINE w == xTaskIncrementTick(x)
             p == w.k.pended - 1
             b == w.k.yield \/ w.switch
             y == [w.k EXCEPT !.pended = p, !.yield = b]
  <2>1. /\ Moves(s, x, {}, {}) /\ x.cur = s.cur /\ x.susp = 0 /\ Sound(x)
        /\ x.pended = n - (i - 1) /\ Heeds(s, x)
        /\ OnTime(s) /\ i - 1 < TickMod => Ticked(s, i - 1, x)
    <3>1. i - 1 <= n
      BY <1>1
    <3> QED
      BY <1>4, <3>1 DEF KeptCounting, Moves, n
  <2>2. /\ Moves(x, w.k, {}, {}) /\ w.k.cur = x.cur /\ w.k.pended = x.pended
        /\ w.k.yield = x.yield /\ (x.yield => w.switch)
        /\ \A t \in Task : Ready(w.k, t) => Ready(x, t) \/ w.switch \/ Prio[t] <= Prio[x.cur]
        /\ OnTime(x) => Ticked(x, 1, w.k)
    BY <2>1, TickMoves
  <2>3. y = CountedTick(s, x, seq[i])
    BY DEF CountedTick
  <2> HIDE DEF w
  <2>4. Sound(w.k) /\ w.k \in Kernel
    BY <2>2 DEF Moves, Sound, Tidy
  <2>5. p = n - i /\ p \in Nat
    BY <1>1, <2>1, <2>2
  <2>6. b \in BOOLEAN /\ (b <=> w.k.yield \/ w.switch)
    BY <2>4 DEF Kernel
  <2> HIDE DEF p, b
  <2>7. /\ Alike(w.k, y) /\ y.cur = w.k.cur /\ y.pended = p /\ y.yield = b
        /\ y.ready = w.k.ready /\ SameTimes(w.k, y)
    BY <2>4, <2>5, <2>6 DEF Alike, Kernel, SameTimes
  <2> HIDE DEF y
  <2>8. Moves(w.k, y, {}, {}) /\ Tidy(y)
    BY <2>4, <2>7, AlikeMoves
  <2>9. Moves(x, y, {}, {})
    BY <2>2, <2>7, <2>8, MovesOn
  <2>10. Moves(s, y, {}, {})
    BY <2>1, <2>2, <2>7, <2>9, MovesOn
  <2>11. Heeds(s, y)
    <3>1. \A t \in Task : Ready(y, t) <=> Ready(w.k, t)
      BY <2>7 DEF Ready
    <3>2. Heeds(x, y)
      BY <2>2, <2>6, <2>7, <3>1 DEF Heeds
    <3> QED
      BY <2>1, <3>2, HeedsOn
  <2>12. ASSUME OnTime(s), i < TickMod PROVE Ticked(s, i, y)
    <3>1. i \in Nat /\ i - 1 \in Nat /\ (i - 1) + 1 = i /\ TickMod \in Nat
      BY <1>1, RtosAssumption
    <3>2. i - 1 < TickMod - 1 /\ i - 1 < TickMod
      BY <2>12, <3>1
    <3>3. Ticked(s, i - 1, x)
      BY <2>1, <2>12, <3>2
    <3>4. Ticked(x, 1, w.k)
      BY <2>2, <3>3 DEF Ticked
    <3>5. Ticked(x, 1, y)
      BY <2>7, <3>4, TickedSame
    <3>6. Tidy(s) /\ Tidy(x)
      BY <2>1 DEF Sound
    <3>7. Ticked(s, (i - 1) + 1, y)
      BY <2>8, <3>1, <3>2, <3>3, <3>5, <3>6, TickedOn
    <3> QED
      BY <3>1, <3>7
  <2> QED
    BY <2>1, <2>2, <2>3, <2>5, <2>7, <2>10, <2>11, <2>12 DEF KeptCounting, n
<1>5. KeptCounting(s, n, r)
  <2> HIDE DEF r
  <2>1. r = Counting!Folded(s, s, seq)
    BY DEF r
  <2> QED
    BY <1>1, <1>3, <1>4, <2>1, Counting!FoldInvariant
<1> HIDE DEF r
<1>6. r.pended = 0
  BY <1>1, <1>5 DEF KeptCounting, n
<1> QED
  BY <1>2, <1>5, <1>6 DEF KeptCounting, n

-----------------------------------------------------------------------------
\* Waiting for an event, and its coming.

\* The state in which an event list has become e.
Put(s, l, e) == [s EXCEPT !.event = [s.event EXCEPT ![l] = e]]

\* A task that no event list holds is put in one.
LEMMA LinkEffect ==
  ASSUME NEW s, Tidy(s), NEW l \in Lists, NEW t \in Task, ~Linked(s, t),
         NEW e \in Seq(Task), IsInjective(e), ToSet(e) = ToSet(s.event[l]) \cup {t}
  PROVE  LET r == Put(s, l, e)
         IN  /\ Tidy(r) /\ SameClock(s, r) /\ SameTimes(s, r)
             /\ r.ready = s.ready /\ r.delayed = s.delayed /\ r.overflow = s.overflow
             /\ r.ended = s.ended
             /\ ToSet(r.event[l]) = ToSet(s.event[l]) \cup {t}
             /\ \A m \in Lists : m # l => r.event[m] = s.event[m]
<1> DEFINE v == [s.event EXCEPT ![l] = e]
           r == [s EXCEPT !.event = v]
<1>1. s \in Kernel /\ s.event \in [Lists -> Seq(Task)]
  BY DEF Tidy, Kernel
<1>2. /\ v \in [Lists -> Seq(Task)] /\ v[l] = e
      /\ \A m \in Lists : m # l => v[m] = s.event[m]
  BY <1>1
<1> HIDE DEF v
<1>3. /\ r \in Kernel /\ r.event = v /\ r.ready = s.ready /\ r.top = s.top
      /\ r.delayed = s.delayed /\ r.overflow = s.overflow /\ r.ended = s.ended
  BY <1>1, <1>2 DEF Kernel
<1>4. SameClock(s, r) /\ SameTimes(s, r)
  BY <1>1 DEF Kernel, SameClock, SameTimes
<1> HIDE DEF r
<1>5. Sleepers(r) = Sleepers(s) /\ Ended(r) = Ended(s) /\ \A u : Ready(r, u) <=> Ready(s, u)
  BY <1>3 DEF Sleepers, Ended, Ready
<1>6. \A m \in Lists : t \notin ToSet(s.event[m])
  BY DEF Linked
<1>7. \A m \in Lists : ToSet(v[m]) = IF m = l THEN ToSet(s.event[m]) \cup {t}
                                     ELSE ToSet(s.event[m])
  BY <1>2
<1>8. /\ \A m \in Lists : IsInjective(v[m])
      /\ \A m, n \in Lists : m # n => ToSet(v[m]) \cap ToSet(v[n]) = {}
  <2>1. \A m \in Lists : IsInjective(v[m])
    BY <1>2 DEF Tidy
  <2>2. \A m, n \in Lists : m # n => ToSet(s.event[m]) \cap ToSet(s.event[n]) = {}
    BY DEF Tidy
  <2>3. ASSUME NEW m \in Lists, NEW n \in Lists, m # n
        PROVE  ToSet(v[m]) \cap ToSet(v[n]) = {}
    <3>1. /\ ToSet(v[m]) \subseteq ToSet(s.event[m]) \cup (IF m = l THEN {t} ELSE {})
          /\ ToSet(v[n]) \subseteq ToSet(s.event[n]) \cup (IF n = l THEN {t} ELSE {})
      BY <1>7
    <3>2. t \notin ToSet(s.event[m]) /\ t \notin ToSet(s.event[n])
      BY <1>6
    <3>3. ToSet(s.event[m]) \cap ToSet(s.event[n]) = {}
      BY <2>2, <2>3
    <3> QED
      BY <2>3, <3>1, <3>2, <3>3
  <2> QED
    BY <2>1, <2>3
<1>9. Tidy(r)
  <2>1. /\ \A u \in Task : Ready(r, u) => u \notin Sleepers(r) /\ u \notin Ended(r)
        /\ Sleepers(r) \cap Ended(r) = {}
    BY <1>5 DEF Tidy
  <2>2. \A p \in Prios :
          /\ IsInjective(r.ready[p]) /\ xListEnd \in ToSet(r.ready[p])
          /\ \A u \in ToSet(r.ready[p]) \ {xListEnd} : Prio[u] = p /\ p <= r.top
    BY <1>3 DEF Tidy
  <2>3. /\ IsInjective(r.delayed) /\ IsInjective(r.overflow) /\ IsInjective(r.ended)
        /\ ToSet(r.delayed) \cap ToSet(r.overflow) = {}
    BY <1>3 DEF Tidy
  <2>4. /\ \A m \in Lists : IsInjective(r.event[m])
        /\ \A m, n \in Lists : m # n => ToSet(r.event[m]) \cap ToSet(r.event[n]) = {}
    BY <1>3, <1>8
  <2> QED
    BY <1>3, <2>1, <2>2, <2>3, <2>4, Zenon DEF Tidy
<1>10. /\ ToSet(r.event[l]) = ToSet(s.event[l]) \cup {t}
       /\ \A m \in Lists : m # l => r.event[m] = s.event[m]
  BY <1>2, <1>3, <1>7
<1>11. r = Put(s, l, e)
  BY DEF r, v, Put
<1> QED
  BY <1>3, <1>4, <1>9, <1>10, <1>11

\* xTaskRemoveFromEventList, and a handler's notification, while the scheduler is
\* suspended.
LEMMA PendMoves ==
  ASSUME NEW s, Sound(s), s.susp # 0, NEW t \in Task, ~Linked(s, t),
         Ready(s, t) \/ t \in Sleepers(s)
  PROVE  LET r == [s EXCEPT !.event["pending"] = Append(@, t)]
         IN  /\ Moves(s, r, {}, {t}) /\ SameClock(s, r) /\ Rests(s, r)
             /\ \A u : Ready(r, u) <=> Ready(s, u)
<1> DEFINE p == s.event["pending"]
           e == Append(p, t)
           r == Put(s, "pending", e)
<1>1. "pending" \in Lists /\ s \in Kernel /\ Tidy(s) /\ EventList \subseteq Lists
  BY DEF Sound, Tidy, Lists
<1>2. p \in Seq(Task) /\ IsInjective(p) /\ t \notin ToSet(p)
  BY <1>1 DEF Kernel, Tidy, Linked
<1>3. e \in Seq(Task) /\ IsInjective(e) /\ ToSet(e) = ToSet(p) \cup {t}
  <2> HIDE DEF p
  <2> QED
    BY <1>2, AppendEffect
<1>4. r = [s EXCEPT !.event["pending"] = Append(@, t)]
  BY <1>1 DEF Kernel, Put
<1> HIDE DEF e
<1>5. /\ Tidy(r) /\ SameClock(s, r) /\ Rests(s, r)
      /\ r.ready = s.ready /\ r.delayed = s.delayed /\ r.overflow = s.overflow
      /\ r.ended = s.ended
      /\ ToSet(r.event["pending"]) = ToSet(p) \cup {t}
      /\ \A m \in Lists : m # "pending" => r.event[m] = s.event[m]
  BY <1>1, <1>3, LinkEffect, SameRests
<1> HIDE DEF r
<1>6. Sleepers(r) = Sleepers(s) /\ Ended(r) = Ended(s) /\ \A u : Ready(r, u) <=> Ready(s, u)
  BY <1>5 DEF Sleepers, Ended, Ready
<1>7. Sound(r)
  <2>1. \A l \in EventList : ToSet(r.event[l]) \subseteq Sleepers(r)
    BY <1>1, <1>5, <1>6, RtosAssumption DEF Sound
  <2>2. \A u \in ToSet(r.event["pending"]) : Ready(r, u) \/ u \in Sleepers(r)
    BY <1>1, <1>5, <1>6 DEF Sound
  <2> QED
    BY <1>5, <1>6, <2>1, <2>2 DEF Sound
<1>8. \A u \in Task \ {t} : Linked(r, u) => Linked(s, u)
  BY <1>5 DEF Linked
<1>9. \A u : Has(r, u) <=> Has(s, u)
  BY <1>6 DEF Has
<1>10. \A u \in Task :
         /\ u \in ToSet(s.event["pending"]) => u \in ToSet(r.event["pending"])
         /\ \A l \in EventList : u \in ToSet(r.event[l]) => u \in ToSet(s.event[l])
  BY <1>1, <1>5, RtosAssumption
<1>11. Moves(s, r, {}, {t})
  BY <1>5, <1>6, <1>7, <1>8, <1>9, <1>10 DEF Moves, SameClock
<1> QED
  BY <1>4, <1>5, <1>6, <1>11

\* xTaskRemoveFromEventList wakes the head of a list.
LEMMA RemoveFromMoves ==
  ASSUME NEW s, Sound(s), NEW l \in EventList, s.event[l] # <<>>
  PROVE  LET r == xTaskRemoveFromEventList(s, l).k
         IN  Moves(s, r, {}, {}) /\ r.cur = s.cur /\ r.pended = s.pended /\ Keeps(s, r)
<1> DEFINE t == Head(s.event[l])
           e == RemoveEventItem(s, t)
           w == IF s.susp = 0 THEN MakeReady(e, t)
                ELSE [e EXCEPT !.event["pending"] = Append(@, t)]
           b == w.yield \/ Prio[t] > Prio[s.cur]
           r == [w EXCEPT !.yield = b]
<1>1. l \in Lists /\ "pending" \in Lists /\ EventList \subseteq Lists /\ s \in Kernel /\ Tidy(s)
  BY DEF Sound, Tidy, Lists
<1>2. t \in Task /\ t \in ToSet(s.event[l])
  <2> DEFINE q0 == s.event[l]
  <2>1. q0 \in Seq(Task) /\ IsInjective(q0) /\ q0 # <<>>
    BY <1>1 DEF Kernel, Tidy
  <2>2. t = Head(q0)
    OBVIOUS
  <2> HIDE DEF q0, t
  <2>3. Head(q0) \in ToSet(q0) /\ ToSet(q0) \subseteq Task
    BY <2>1, TailEffect DEF ToSet
  <2> QED
    BY <2>2, <2>3 DEF q0
<1>3. t \in Sleepers(s) /\ t \notin Ended(s) /\ Has(s, t)
  BY <1>1, <1>2 DEF Sound, Tidy, Has
<1>4. r = xTaskRemoveFromEventList(s, l).k
  BY DEF xTaskRemoveFromEventList
<1> HIDE DEF t
<1>5. /\ Moves(s, w, {}, {}) /\ SameClock(s, w) /\ Rests(s, w)
      /\ \A u \in Task : Ready(w, u) => Ready(s, u) \/ u = t
  <2>1. CASE s.susp = 0
    BY <1>2, <1>3, <2>1, WokenMoves
  <2>2. CASE s.susp # 0
    <3>1. /\ Tidy(e) /\ SameClock(s, e)
          /\ e.ready = s.ready /\ e.delayed = s.delayed /\ e.overflow = s.overflow
          /\ e.ended = s.ended /\ Rests(s, e)
          /\ \A m \in Lists : ToSet(e.event[m]) = ToSet(s.event[m]) \ {t}
      BY <1>1, <1>2, LeaveEvents, SameRests
    <3> DEFINE a == [e EXCEPT !.event["pending"] = Append(@, t)]
    <3>2. w = a
      BY <2>2
    <3> HIDE DEF e, w
    <3>3. Sleepers(e) = Sleepers(s) /\ Ended(e) = Ended(s) /\ \A u : Ready(e, u) <=> Ready(s, u)
      BY <3>1 DEF Sleepers, Ended, Ready
    <3>4. Sound(e)
      <4>1. \A m \in EventList : ToSet(e.event[m]) \subseteq Sleepers(e)
        BY <1>1, <3>1, <3>3 DEF Sound
      <4>2. \A u \in ToSet(e.event["pending"]) : Ready(e, u) \/ u \in Sleepers(e)
        BY <1>1, <3>1, <3>3 DEF Sound
      <4> QED
        BY <3>1, <3>3, <4>1, <4>2 DEF Sound
    <3>5. ~Linked(e, t) /\ t \in Sleepers(e) /\ e.susp # 0
      BY <1>3, <2>2, <3>1, <3>3 DEF Linked, SameClock
    <3>6. /\ Moves(e, a, {}, {t}) /\ SameClock(e, a) /\ Rests(e, a)
          /\ \A u : Ready(a, u) <=> Ready(e, u)
      BY <1>2, <3>4, <3>5, PendMoves
    <3> HIDE DEF a
    <3>7. Linked(s, t)
      BY <1>1, <1>2 DEF Linked
    <3>8. \A u \in Task : Linked(a, u) => Linked(s, u)
      <4>1. \A u : Linked(e, u) => Linked(s, u)
        BY <3>1 DEF Linked
      <4> QED
        BY <3>6, <3>7, <4>1 DEF Moves
    <3>9. \A u : Has(e, u) <=> Has(s, u)
      BY <3>3 DEF Has
    <3>10. SameClock(s, a) /\ Rests(s, a)
      BY <3>1, <3>6, RestsOn DEF SameClock
    <3>11. \A u \in Task :
             /\ u \in ToSet(s.event["pending"]) => u \in ToSet(a.event["pending"]) \/ Ready(a, u)
             /\ \A m \in EventList : u \in ToSet(a.event[m]) => u \in ToSet(s.event[m])
      <4>1. t \notin ToSet(s.event["pending"])
        BY <1>1, <1>2, RtosAssumption DEF Tidy
      <4>2. \A u \in Task :
              /\ u \in ToSet(e.event["pending"]) => u \in ToSet(a.event["pending"]) \/ Ready(a, u)
              /\ \A m \in EventList : u \in ToSet(a.event[m]) => u \in ToSet(e.event[m])
        BY <3>6 DEF Moves
      <4> QED
        BY <1>1, <3>1, <4>1, <4>2
    <3>12. Moves(s, a, {}, {})
      BY <2>2, <3>3, <3>6, <3>8, <3>9, <3>10, <3>11 DEF Moves, SameClock
    <3> QED
      BY <3>2, <3>3, <3>6, <3>10, <3>12
  <2> QED
    BY <2>1, <2>2
<1> HIDE DEF w
<1>6. b \in BOOLEAN /\ (w.yield \/ Prio[t] > Prio[s.cur] => b)
  <2>1. w.yield \in BOOLEAN
    BY <1>5 DEF Moves, Sound, Tidy, Kernel
  <2> QED
    BY <2>1
<1> HIDE DEF b
<1>7. Moves(s, r, {}, {}) /\ r.cur = s.cur /\ r.pended = s.pended /\ Keeps(s, r)
  BY <1>2, <1>5, <1>6, NoteMoves
<1> QED
  BY <1>4, <1>7

\* xTaskRemoveFromUnorderedEventList wakes a given task of a list.
LEMMA RemoveUnorderedMoves ==
  ASSUME NEW s, Sound(s), NEW t \in Task, t \notin Ended(s), Has(s, t)
  PROVE  LET r == xTaskRemoveFromUnorderedEventList(s, t)
         IN  /\ Moves(s, r, {}, {}) /\ r.cur = s.cur /\ r.pended = s.pended /\ Keeps(s, r)
             /\ \A l \in EventList : t \notin ToSet(r.event[l])
<1> DEFINE w == MakeReady(RemoveEventItem(s, t), t)
           b == w.yield \/ Prio[t] > Prio[s.cur]
           r == [w EXCEPT !.yield = b]
<1>1. /\ Moves(s, w, {}, {}) /\ SameClock(s, w) /\ Rests(s, w)
      /\ \A l \in Lists : ToSet(w.event[l]) = ToSet(s.event[l]) \ {t}
      /\ \A u \in Task : Ready(w, u) <=> Ready(s, u) \/ u = t
  BY WokenMoves
<1>2. r = xTaskRemoveFromUnorderedEventList(s, t)
  BY DEF xTaskRemoveFromUnorderedEventList
<1> HIDE DEF w
<1>3. b \in BOOLEAN /\ (w.yield \/ Prio[t] > Prio[s.cur] => b)
  <2>1. w.yield \in BOOLEAN
    BY <1>1 DEF Moves, Sound, Tidy, Kernel
  <2> QED
    BY <2>1
<1> HIDE DEF b
<1>4. /\ Moves(s, r, {}, {}) /\ r.cur = s.cur /\ r.pended = s.pended /\ r.event = w.event
      /\ Keeps(s, r)
  BY <1>1, <1>3, NoteMoves
<1> HIDE DEF r
<1> QED
  BY <1>1, <1>2, <1>4 DEF Lists

\* The yield of queue.c's critical sections and its count of what came while the
\* queue was locked.
LEMMA WakeMoves ==
  ASSUME Sound(k), NEW l \in EventList
  PROVE  Moves(k, Wake(l), {}, {}) /\ Wake(l).pended = k.pended /\ Keeps(k, Wake(l))
<1>1. CASE k.event[l] = <<>>
  BY <1>1, Stays, KeepsStill DEF Wake
<1>2. CASE k.event[l] # <<>>
  <2> DEFINE r == xTaskRemoveFromEventList(k, l)
             w == Switched(r.k, r.yield)
  <2>1. Moves(k, r.k, {}, {}) /\ r.k.cur = k.cur /\ r.k.pended = k.pended /\ Keeps(k, r.k)
    BY <1>2, RemoveFromMoves
  <2>2. w = Wake(l)
    BY <1>2 DEF Wake
  <2> HIDE DEF r
  <2>3. Sound(r.k)
    BY <2>1 DEF Moves
  <2>4. Moves(r.k, w, {}, {}) /\ w.pended = r.k.pended /\ Keeps(r.k, w)
    BY <2>3, SwitchedMoves, KeepsStill DEF Keeps, Heeds
  <2> HIDE DEF w
  <2>5. Moves(k, w, {}, {}) /\ Keeps(k, w)
    BY <2>1, <2>4, MovesOn, KeepsOn
  <2> QED
    BY <2>1, <2>2, <2>4, <2>5
<1> QED
  BY <1>1, <1>2

LEMMA WakeCountedMoves ==
  ASSUME Sound(k), NEW l \in EventList, NEW count \in -1..127
  PROVE  KeptSame(k, 0, WakeCounted(l, count))
<1> DEFINE seq == [i \in 1..count |-> i]
           n == IF count < 0 THEN 0 ELSE count
           r == Waking!Folded(l, k, seq)
<1>1. n \in Nat /\ DOMAIN seq = 1..n
  <2>1. 1..count = 1..n
    OBVIOUS
  <2> QED
    BY <2>1
<1>2. WakeCounted(l, count) = r
  BY DEF WakeCounted, Waking!Folded, FoldLeft,
         MapThenFoldSet, Waking!MapThenFoldSet, Max, Waking!Max, WokenIfAny
<1>3. KeptFromNow(l, 0, k)
  BY Stays, KeepsStill DEF KeptFromNow, KeptSame
<1> HIDE DEF n, seq
<1>4. ASSUME NEW i \in 1..n, NEW x, KeptFromNow(l, i - 1, x)
      PROVE  KeptFromNow(l, i, WokenIfAny(l, x, seq[i]))
  <2>1. /\ Moves(k, x, {}, {}) /\ x.cur = k.cur /\ x.pended = k.pended /\ Sound(x)
        /\ Keeps(k, x)
    BY <1>4 DEF KeptFromNow, KeptSame, Moves
  <2>2. CASE x.event[l] = <<>>
    BY <2>1, <2>2 DEF KeptFromNow, KeptSame, WokenIfAny
  <2>3. CASE x.event[l] # <<>>
    <3> DEFINE y == xTaskRemoveFromEventList(x, l).k
    <3>1. Moves(x, y, {}, {}) /\ y.cur = x.cur /\ y.pended = x.pended /\ Keeps(x, y)
      BY <2>1, <2>3, RemoveFromMoves
    <3>2. y = WokenIfAny(l, x, seq[i])
      BY <2>3 DEF WokenIfAny
    <3> HIDE DEF y
    <3>3. Moves(k, y, {}, {}) /\ Keeps(k, y)
      BY <2>1, <3>1, MovesOn, KeepsOn
    <3> QED
      BY <2>1, <3>1, <3>2, <3>3 DEF KeptFromNow, KeptSame
  <2> QED
    BY <2>2, <2>3
<1>5. KeptFromNow(l, n, r)
  <2> HIDE DEF r
  <2>1. r = Waking!Folded(l, k, seq)
    BY DEF r
  <2> QED
    BY <1>1, <1>3, <1>4, <2>1, Waking!FoldInvariant
<1> QED
  BY <1>2, <1>5 DEF KeptFromNow, KeptSame

\* Which of the tasks that wait for bits are released is the caller's decision.
LEMMA ReleaseMoves ==
  ASSUME Sound(k), forBits \in EventList, NEW released
  PROVE  /\ KeptSame(k, 0, Release(k, released))
         /\ \A u \in ToSet(k.event[forBits]) \cap released :
              u \notin ToSet(Release(k, released).event[forBits])
<1> DEFINE seq == k.event[forBits]
           n == Len(seq)
           r == Releasing!Folded(released, k, seq)
<1>1. /\ k \in Kernel /\ Tidy(k) /\ forBits \in Lists
  BY DEF Sound, Tidy, Lists
<1>2. seq \in Seq(Task) /\ n \in Nat /\ DOMAIN seq = 1..n
  BY <1>1 DEF Kernel
<1>3. \A i \in 1..n : seq[i] \in Task /\ seq[i] \in Sleepers(k)
  BY <1>2 DEF Sound, ToSet
<1>4. Release(k, released) = r
  BY DEF Release, Releasing!Folded, FoldLeft,
         MapThenFoldSet, Releasing!MapThenFoldSet, Max, Releasing!Max, ReleasedIfMet
<1>5. KeptReleased(released, 0, k)
  <2>1. KeptSame(k, 0, k)
    BY Stays, KeepsStill DEF KeptSame
  <2> QED
    BY <2>1 DEF KeptReleased
<1>8. \A i \in 1..n : k.event[forBits][i] = seq[i]
  OBVIOUS
<1>9. \A u \in ToSet(k.event[forBits]) : \E i \in 1..n : seq[i] = u
  BY <1>2 DEF ToSet
<1> HIDE DEF n, seq
<1>6. ASSUME NEW i \in 1..n, NEW x, KeptReleased(released, i - 1, x)
      PROVE  KeptReleased(released, i, ReleasedIfMet(released, x, seq[i]))
  <2> DEFINE t == seq[i]
             y == xTaskRemoveFromUnorderedEventList(x, t)
  <2>1. /\ Moves(k, x, {}, {}) /\ x.cur = k.cur /\ x.pended = k.pended /\ Sound(x)
        /\ Keeps(k, x)
        /\ \A j \in 1..i - 1 : seq[j] \in released => seq[j] \notin ToSet(x.event[forBits])
    <3>1. \A j \in 1..i - 1 : j \in 1..n
      BY <1>2
    <3> QED
      BY <1>6, <1>8, <3>1 DEF KeptReleased, KeptSame, Moves
  <2>4. i \in 1..n /\ \A j \in 1..i : j \in 1..n /\ (j = i \/ j \in 1..i - 1)
    BY <1>2
  <2>2. CASE t \notin released
    <3>1. x = ReleasedIfMet(released, x, seq[i])
      BY <2>2 DEF ReleasedIfMet
    <3>2. KeptSame(k, i, x)
      BY <2>1 DEF KeptSame
    <3>3. \A j \in 1..i : seq[j] \in released => seq[j] \notin ToSet(x.event[forBits])
      BY <2>1, <2>2, <2>4
    <3> QED
      BY <1>8, <2>4, <3>1, <3>2, <3>3 DEF KeptReleased
  <2>3. CASE t \in released
    <3>1. t \in Task /\ t \notin Ended(k) /\ Has(k, t)
      BY <1>1, <1>3 DEF Tidy, Has
    <3>2. y = ReleasedIfMet(released, x, seq[i])
      BY <2>3 DEF ReleasedIfMet
    <3>6. seq[i] = t /\ \A j \in 1..i - 1 : seq[j] \in Task
      BY <1>3, <2>4
    <3> HIDE DEF t
    <3>3. t \notin Ended(x) /\ Has(x, t)
      BY <2>1, <3>1 DEF Moves
    <3>4. /\ Moves(x, y, {}, {}) /\ y.cur = x.cur /\ y.pended = x.pended /\ Keeps(x, y)
          /\ t \notin ToSet(y.event[forBits])
      BY <2>1, <3>1, <3>3, RemoveUnorderedMoves
    <3> HIDE DEF y
    <3>5. Moves(k, y, {}, {}) /\ Keeps(k, y)
      BY <2>1, <3>4, MovesOn, KeepsOn
    <3>7. KeptSame(k, i, y)
      BY <2>1, <3>4, <3>5 DEF KeptSame
    <3>8. ASSUME NEW j \in 1..i, seq[j] \in released PROVE seq[j] \notin ToSet(y.event[forBits])
      <4>1. CASE j = i
        BY <3>4, <3>6, <4>1
      <4>2. CASE j \in 1..i - 1
        <5>1. seq[j] \notin ToSet(x.event[forBits]) /\ seq[j] \in Task
          BY <2>1, <3>6, <3>8, <4>2
        <5> QED
          BY <3>4, <5>1 DEF Moves
      <4> QED
        BY <2>4, <4>1, <4>2
    <3>9. \A j \in 1..i : k.event[forBits][j] = seq[j]
      BY <1>8, <2>4
    <3> QED
      BY <3>2, <3>7, <3>8, <3>9 DEF KeptReleased
  <2> QED
    BY <2>2, <2>3
<1>7. KeptReleased(released, n, r)
  <2> HIDE DEF r
  <2>1. r = Releasing!Folded(released, k, seq)
    BY DEF r
  <2> QED
    BY <1>2, <1>5, <1>6, <2>1, Releasing!FoldInvariant
<1> QED
  BY <1>4, <1>7, <1>8, <1>9 DEF KeptReleased, KeptSame

-----------------------------------------------------------------------------
\* The effects of the calls' steps on the scheduler.

\* The current task, in no event list, is put in one and goes to sleep.
LEMMA PlaceMoves ==
  ASSUME NEW s, Sound(s), NEW l \in EventList, NEW e \in Seq(Task), IsInjective(e),
         ToSet(e) = ToSet(s.event[l]) \cup {s.cur}, NEW ticks \in Ticks,
         s.cur # Idle, Ready(s, s.cur), ~Linked(s, s.cur)
  PROVE  LET r == DelayCurrentTask(Put(s, l, e), ticks)
         IN  /\ Moves(s, r, {s.cur}, {s.cur}) /\ r.cur = s.cur /\ r.pended = s.pended
             /\ \A n \in EventList : s.cur \in ToSet(r.event[n]) => n = l
             /\ Heeds(s, r)
             /\ OnTime(s) /\ (ticks # 0 \/ s.tick < TickMod - 1) => SleepsFor(s, r, ticks)
<1> DEFINE t == s.cur
           m == Put(s, l, e)
           time == (m.tick + ticks) % TickMod
           r == prvAddCurrentTaskToDelayedList(RemoveGenericItem(m, m.cur), time)
<1>1. /\ Tidy(s) /\ t \in Task /\ l \in Lists /\ EventList \subseteq Lists
      /\ Idle \in Task /\ l # "pending" /\ "pending" \in Lists
  BY RtosAssumption DEF Sound, Tidy, Kernel, Lists
<1>2. /\ Tidy(m) /\ SameClock(s, m)
      /\ m.ready = s.ready /\ m.delayed = s.delayed /\ m.overflow = s.overflow
      /\ m.ended = s.ended
      /\ ToSet(m.event[l]) = ToSet(s.event[l]) \cup {t}
      /\ \A n \in Lists : n # l => m.event[n] = s.event[n]
      /\ SameTimes(s, m)
  <2>1. /\ Tidy(s) /\ t \in Task /\ l \in Lists /\ ~Linked(s, t)
        /\ e \in Seq(Task) /\ IsInjective(e) /\ ToSet(e) = ToSet(s.event[l]) \cup {t}
    BY <1>1
  <2> HIDE DEF t
  <2> QED
    BY <2>1, LinkEffect
<1>3. r = DelayCurrentTask(Put(s, l, e), ticks)
  BY DEF DelayCurrentTask
<1> HIDE DEF m
<1>4. /\ Sleepers(m) = Sleepers(s) /\ Ended(m) = Ended(s) /\ \A u : Ready(m, u) <=> Ready(s, u)
      /\ m.cur = t
  BY <1>2 DEF Sleepers, Ended, Ready, SameClock
<1>5. time \in Ticks
  <2>1. m.tick \in Ticks
    BY <1>2 DEF Tidy, Kernel
  <2> QED
    BY <2>1, WrappedTick
<1> HIDE DEF time
<1>6. /\ Tidy(r) /\ SameClock(m, r) /\ r.event = m.event
      /\ \A u \in Task : Ready(r, u) <=> Ready(m, u) /\ u # m.cur
      /\ Sleepers(r) = Sleepers(m) \cup {m.cur} /\ Ended(r) = Ended(m) \ {m.cur}
  BY <1>2, <1>5, DelayEffect
<1> HIDE DEF r
<1>7. Sound(r)
  <2>1. \A n \in EventList : ToSet(r.event[n]) \subseteq Sleepers(r)
    BY <1>1, <1>2, <1>4, <1>6 DEF Sound
  <2>2. ToSet(s.event["pending"]) \subseteq Task
    BY <1>1 DEF Tidy, Kernel, ToSet
  <2>3. \A u \in ToSet(r.event["pending"]) : Ready(r, u) \/ u \in Sleepers(r)
    BY <1>1, <1>2, <1>4, <1>6, <2>2 DEF Sound
  <2>4. Ready(r, Idle)
    BY <1>1, <1>4, <1>6 DEF Sound
  <2> QED
    BY <1>6, <2>1, <2>3, <2>4 DEF Sound
<1>8. \A u \in Task \ {t} : /\ Ready(s, u) => Ready(r, u)
                            /\ u \in Ended(r) <=> u \in Ended(s)
                            /\ Has(r, u) <=> Has(s, u)
  BY <1>4, <1>6 DEF Has
<1>9. \A u \in Task \ {t} : Linked(r, u) => Linked(s, u)
  BY <1>2, <1>6 DEF Linked
<1>10. SameClock(s, r)
  BY <1>2, <1>6 DEF SameClock
<1>11. s.event["pending"] = <<>> => r.event["pending"] = <<>>
  BY <1>1, <1>2, <1>6
<1>12. \A u \in Task \ {t} :
         /\ u \in ToSet(s.event["pending"]) => u \in ToSet(r.event["pending"])
         /\ \A n \in EventList : u \in ToSet(r.event[n]) => u \in ToSet(s.event[n])
  BY <1>1, <1>2, <1>6
<1>13. Moves(s, r, {t}, {t})
  BY <1>7, <1>8, <1>9, <1>10, <1>11, <1>12 DEF Moves, SameClock
<1>14. \A n \in EventList : t \in ToSet(r.event[n]) => n = l
  BY <1>1, <1>2, <1>6 DEF Linked
<1>15. Heeds(s, r)
  <2>1. \A u \in Task : Ready(r, u) => Ready(s, u)
    BY <1>4, <1>6
  <2> QED
    BY <1>10, <2>1, FewerHeeds
<1>16. ASSUME OnTime(s), ticks # 0 \/ s.tick < TickMod - 1 PROVE SleepsFor(s, r, ticks)
  <2>1. Rests(s, m) /\ Tidy(m)
    BY <1>2, SameRests
  <2>2. OnTime(m) /\ m.tick = s.tick
    BY <1>1, <1>16, <2>1, RestsDue
  <2>3. SleepsFor(m, DelayCurrentTask(m, ticks), ticks)
    BY <1>16, <2>1, <2>2, DelayTicks
  <2>4. SleepsFor(m, r, ticks)
    BY <1>3, <2>3 DEF m
  <2> QED
    BY <1>1, <1>4, <1>16, <2>1, <2>4, SleepsFrom
<1> QED
  BY <1>3, <1>10, <1>13, <1>14, <1>15, <1>16 DEF SameClock

\* A notification makes a task ready that waits for no event.
LEMMA NotifyMoves ==
  ASSUME NEW s, Sound(s), NEW t \in Task, ~Linked(s, t), Has(s, t), t \notin Ended(s)
  PROVE  LET r == MakeReady(s, t)
         IN  /\ Moves(s, r, {}, {}) /\ SameClock(s, r) /\ Rests(s, r)
             /\ \A u \in Task : Ready(r, u) <=> Ready(s, u) \/ u = t
<1> DEFINE r == MakeReady(s, t)
<1>1. Tidy(s) /\ Idle \in Task /\ "pending" \in Lists /\ EventList \subseteq Lists
  BY RtosAssumption DEF Sound, Lists
<1>2. /\ Tidy(r) /\ SameClock(s, r) /\ Rests(s, r) /\ r.event = s.event
      /\ \A u \in Task : Ready(r, u) <=> Ready(s, u) \/ u = t
      /\ Sleepers(r) = Sleepers(s) \ {t} /\ Ended(r) = Ended(s) \ {t}
  BY <1>1, MakeReadyEffect
<1> HIDE DEF r
<1>3. Sound(r)
  <2>1. \A l \in EventList : ToSet(r.event[l]) \subseteq Sleepers(r)
    BY <1>1, <1>2 DEF Sound, Linked
  <2>2. ToSet(s.event["pending"]) \subseteq Task
    BY <1>1 DEF Tidy, Kernel, ToSet
  <2>3. \A u \in ToSet(r.event["pending"]) : Ready(r, u) \/ u \in Sleepers(r)
    BY <1>2, <2>2 DEF Sound
  <2>4. Ready(r, Idle)
    BY <1>1, <1>2 DEF Sound
  <2> QED
    BY <1>2, <2>1, <2>3, <2>4 DEF Sound
<1>4. \A u \in Task : /\ Ready(s, u) => Ready(r, u)
                      /\ u \in Ended(r) <=> u \in Ended(s)
                      /\ Has(r, u) <=> Has(s, u)
  BY <1>2 DEF Has
<1>5. \A u : Linked(r, u) => Linked(s, u)
  BY <1>2 DEF Linked
<1>6. Moves(s, r, {}, {})
  BY <1>2, <1>3, <1>4, <1>5 DEF Moves, SameClock
<1> QED
  BY <1>2, <1>6 DEF r

\* vTaskDelete's critical section.
LEMMA DeleteMoves ==
  ASSUME Sound(k), NEW t \in Task, t # Idle
  PROVE  LET r == LeaveLists(t)
         IN  /\ Moves(k, r, {t}, {}) /\ SameClock(k, r) /\ Keeps(k, r)
             /\ Has(r, t) /\ t \notin Sleepers(r) /\ ~Linked(r, t)
<1> DEFINE g == RemoveGenericItem(k, t)
           e == RemoveEventItem(g, t)
           a == Append(e.ended, t)
           r == [e EXCEPT !.ended = a]
<1>1. Tidy(k) /\ Idle \in Task /\ "pending" \in Lists /\ EventList \subseteq Lists
  BY RtosAssumption DEF Sound, Lists
<1>2. /\ Tidy(g) /\ SameClock(k, g) /\ g.event = k.event /\ Rests(k, g)
      /\ \A u \in Task : Ready(g, u) <=> Ready(k, u) /\ u # t
      /\ ToSet(g.delayed) = ToSet(k.delayed) \ {t}
      /\ ToSet(g.overflow) = ToSet(k.overflow) \ {t}
      /\ Ended(g) = Ended(k) \ {t}
  BY <1>1, LeaveGeneric
<1>3. r = LeaveLists(t)
  BY DEF LeaveLists
<1> HIDE DEF g
<1>4. /\ Tidy(e) /\ SameClock(g, e)
      /\ e.ready = g.ready /\ e.delayed = g.delayed /\ e.overflow = g.overflow
      /\ e.ended = g.ended /\ Rests(g, e)
      /\ \A l \in Lists : ToSet(e.event[l]) = ToSet(g.event[l]) \ {t}
  BY <1>2, LeaveEvents, SameRests
<1> HIDE DEF e
<1>5. /\ \A u \in Task : Ready(e, u) <=> Ready(k, u) /\ u # t
      /\ Sleepers(e) = Sleepers(k) \ {t} /\ Ended(e) = Ended(k) \ {t}
      /\ \A l \in Lists : ToSet(e.event[l]) = ToSet(k.event[l]) \ {t}
  BY <1>2, <1>4 DEF Ready, Sleepers, Ended
<1>6. e \in Kernel /\ e.ended \in Seq(Task) /\ IsInjective(e.ended) /\ t \notin ToSet(e.ended)
  BY <1>4, <1>5 DEF Tidy, Kernel, Ended
<1>7. a \in Seq(Task) /\ IsInjective(a) /\ ToSet(a) = ToSet(e.ended) \cup {t}
  <2> DEFINE n == e.ended
  <2>1. n \in Seq(Task) /\ IsInjective(n) /\ t \notin ToSet(n)
    BY <1>6
  <2> HIDE DEF n
  <2>2. /\ Append(n, t) \in Seq(Task) /\ IsInjective(Append(n, t))
        /\ ToSet(Append(n, t)) = ToSet(n) \cup {t}
    BY <2>1, AppendEffect
  <2> QED
    BY <2>2 DEF n
<1> HIDE DEF a
<1>8. /\ r \in Kernel /\ r.ended = a /\ r.ready = e.ready /\ r.top = e.top
      /\ r.delayed = e.delayed /\ r.overflow = e.overflow /\ r.event = e.event
  BY <1>6, <1>7 DEF Kernel
<1>9. SameClock(e, r) /\ Rests(e, r)
  <2>1. SameClock(e, r) /\ SameTimes(e, r)
    BY <1>6 DEF Kernel, SameClock, SameTimes
  <2> QED
    BY <2>1, SameRests
<1> HIDE DEF r
<1>10. /\ \A u \in Task : Ready(r, u) <=> Ready(k, u) /\ u # t
       /\ Sleepers(r) = Sleepers(k) \ {t} /\ Ended(r) = Ended(k) \cup {t}
       /\ \A l \in Lists : ToSet(r.event[l]) = ToSet(k.event[l]) \ {t}
  <2>1. Sleepers(r) = Sleepers(e) /\ \A u : Ready(r, u) <=> Ready(e, u)
    BY <1>8 DEF Ready, Sleepers
  <2>2. Ended(r) = Ended(e) \cup {t}
    BY <1>7, <1>8 DEF Ended
  <2> QED
    BY <1>5, <1>8, <2>1, <2>2
<1>11. Tidy(r)
  <2>1. Sleepers(r) \cap Ended(r) = {}
    BY <1>1, <1>10 DEF Tidy
  <2>2. \A u \in Task : Ready(r, u) => u \notin Sleepers(r) /\ u \notin Ended(r)
    BY <1>1, <1>10 DEF Tidy
  <2> QED
    BY <1>4, <1>7, <1>8, <2>1, <2>2 DEF Tidy
<1>12. SameClock(k, r)
  BY <1>2, <1>4, <1>9 DEF SameClock
<1>13. Sound(r)
  <2>1. \A l \in EventList : ToSet(r.event[l]) \subseteq Sleepers(r)
    BY <1>1, <1>10 DEF Sound
  <2>2. ToSet(k.event["pending"]) \subseteq Task
    BY <1>1 DEF Tidy, Kernel, ToSet
  <2>3. \A u \in ToSet(r.event["pending"]) : Ready(r, u) \/ u \in Sleepers(r)
    BY <1>1, <1>10, <2>2 DEF Sound
  <2>4. Ready(r, Idle)
    BY <1>1, <1>10 DEF Sound
  <2> QED
    BY <1>11, <2>1, <2>3, <2>4 DEF Sound
<1>14. \A u \in Task \ {t} : /\ Ready(k, u) => Ready(r, u)
                             /\ u \in Ended(r) <=> u \in Ended(k)
                             /\ Has(r, u) <=> Has(k, u)
  BY <1>10 DEF Has
<1>15. \A u : Linked(r, u) => Linked(k, u)
  BY <1>10 DEF Linked
<1>16. k.event["pending"] = <<>> => r.event["pending"] = <<>>
  <2>1. k.event["pending"] \in Seq(Task)
    BY <1>1 DEF Tidy, Kernel
  <2>2. r.event["pending"] \in Seq(Task)
    BY <1>1, <1>11 DEF Tidy, Kernel
  <2>3. ToSet(r.event["pending"]) = ToSet(k.event["pending"]) \ {t}
    BY <1>1, <1>10
  <2> QED
    BY <2>1, <2>2, <2>3, EmptyList
<1>17. \A u \in Task \ {t} :
         /\ u \in ToSet(k.event["pending"]) => u \in ToSet(r.event["pending"])
         /\ \A l \in EventList : u \in ToSet(r.event[l]) => u \in ToSet(k.event[l])
  BY <1>1, <1>10
<1>18. Moves(k, r, {t}, {})
  BY <1>12, <1>13, <1>14, <1>15, <1>16, <1>17 DEF Moves, SameClock
<1>19. Has(r, t) /\ t \notin Sleepers(r) /\ ~Linked(r, t)
  BY <1>10 DEF Has, Linked
<1>20. Keeps(k, r)
  <2>1. Rests(k, r)
    BY <1>2, <1>4, <1>9, RestsOn
  <2> QED
    BY <1>10, <1>12, <2>1, FewerHeeds DEF Keeps
<1> QED
  BY <1>3, <1>12, <1>18, <1>19, <1>20

\* xTaskGenericCreate's critical section.
LEMMA CreateMoves ==
  ASSUME Sound(k), NEW t \in Task, ~Has(k, t)
  PROVE  LET r == prvAddTaskToReadyList(k, t)
         IN  /\ Moves(k, r, {t}, {}) /\ SameClock(k, r) /\ Rests(k, r)
             /\ t \notin Sleepers(r) /\ ~Linked(r, t)
             /\ \A u \in Task : Ready(r, u) <=> Ready(k, u) \/ u = t
<1> DEFINE r == prvAddTaskToReadyList(k, t)
<1>1. /\ Tidy(r) /\ SameClock(k, r)
      /\ r.delayed = k.delayed /\ r.overflow = k.overflow /\ r.ended = k.ended
      /\ r.event = k.event /\ Rests(k, r)
      /\ \A u \in Task : Ready(r, u) <=> Ready(k, u) \/ u = t
  <2>1. /\ Tidy(r) /\ SameClock(k, r)
        /\ r.delayed = k.delayed /\ r.overflow = k.overflow /\ r.ended = k.ended
        /\ r.event = k.event /\ r.wake = k.wake /\ r.next = k.next
        /\ \A u \in Task : Ready(r, u) <=> Ready(k, u) \/ u = t
    BY AddToReady DEF Sound, Has
  <2>2. SameTimes(k, r)
    BY <2>1 DEF SameTimes, SameClock
  <2> QED
    BY <2>1, <2>2, SameRests
<1> HIDE DEF r
<1>2. Sleepers(r) = Sleepers(k) /\ Ended(r) = Ended(k)
  BY <1>1 DEF Sleepers, Ended
<1>3. Sound(r)
  <2>1. ToSet(k.event["pending"]) \subseteq Task /\ Idle \in Task
    BY RtosAssumption DEF Sound, Tidy, Kernel, ToSet, Lists
  <2>2. \A u \in ToSet(r.event["pending"]) : Ready(r, u) \/ u \in Sleepers(r)
    BY <1>1, <1>2, <2>1 DEF Sound
  <2>3. Ready(r, Idle) /\ \A l \in EventList : ToSet(r.event[l]) \subseteq Sleepers(r)
    BY <1>1, <1>2, <2>1 DEF Sound
  <2> QED
    BY <1>1, <2>2, <2>3 DEF Sound
<1>4. \A u \in Task \ {t} : /\ Ready(k, u) => Ready(r, u)
                            /\ u \in Ended(r) <=> u \in Ended(k)
                            /\ Has(r, u) <=> Has(k, u)
  BY <1>1, <1>2 DEF Has
<1>5. \A u : Linked(r, u) => Linked(k, u)
  BY <1>1 DEF Linked
<1>6. Moves(k, r, {t}, {})
  BY <1>1, <1>3, <1>4, <1>5 DEF Moves, SameClock
<1>7. t \notin Sleepers(r) /\ ~Linked(r, t)
  <2>1. t \notin Sleepers(k) /\ ~Ready(k, t)
    BY DEF Has
  <2>2. ~Linked(k, t)
    BY <2>1 DEF Sound, Linked, Lists
  <2> QED
    BY <1>2, <1>5, <2>1, <2>2
<1> QED
  BY <1>1, <1>6, <1>7 DEF r

\* xTaskResumeAll, the scheduler having been suspended once.
LEMMA ResumeMoves ==
  ASSUME Sound(k), k.susp = 1
  PROVE  LET r == xTaskResumeAll(k)
         IN  /\ Moves([k EXCEPT !.susp = 0], r.k, {}, {})
             /\ r.k.event["pending"] = <<>> /\ r.k.pended = 0
             /\ IF r.yielded THEN Ready(r.k, r.k.cur) ELSE r.k.cur = k.cur
             /\ Heeds(k, r.k) /\ (OnTime(k) /\ k.pended < TickMod => Passed(k, k.pended, r.k))
<1> DEFINE s1 == [k EXCEPT !.susp = 0]
           m == MovePending(s1)
           s2 == CountPended(m)
           r == xTaskResumeAll(k)
<1>1. k \in Kernel /\ Tidy(k)
  BY DEF Sound, Tidy
<1>2. /\ s1 \in Kernel /\ s1.susp = 0 /\ s1.cur = k.cur /\ s1.ready = k.ready /\ s1.top = k.top
      /\ s1.delayed = k.delayed /\ s1.overflow = k.overflow /\ s1.ended = k.ended
      /\ s1.event = k.event /\ s1.pended = k.pended /\ s1.yield = k.yield /\ SameTimes(k, s1)
  BY <1>1 DEF Kernel, SameTimes
<1>3. /\ r.k = IF s2.yield THEN vTaskSwitchContext(s2) ELSE s2
      /\ r.yielded <=> s2.yield
  <2> DEFINE v == IF s1.susp = 0 THEN CountPended(MovePending(s1)) ELSE s1
  <2>1. s1 = [k EXCEPT !.susp = @ - 1]
    BY <1>1 DEF Kernel
  <2>2. r = [k |-> IF s1.susp = 0 /\ v.yield THEN vTaskSwitchContext(v) ELSE v,
             yielded |-> s1.susp = 0 /\ v.yield]
    BY <2>1 DEF xTaskResumeAll
  <2>3. v = s2 /\ s1.susp = 0
    BY <1>2
  <2> HIDE DEF r, v, s2, s1
  <2> QED
    BY <2>2, <2>3
<1> HIDE DEF s1, r
<1>4. Sound(s1)
  <2>1. Sleepers(s1) = Sleepers(k) /\ Ended(s1) = Ended(k) /\ \A u : Ready(s1, u) <=> Ready(k, u)
    BY <1>2 DEF Sleepers, Ended, Ready
  <2>2. Tidy(s1)
    BY <1>1, <1>2, <2>1 DEF Tidy
  <2> QED
    BY <1>2, <2>1, <2>2 DEF Sound
<1>5. /\ KeptSame(s1, 0, m) /\ m.event["pending"] = <<>>
      /\ Sleepers(s1) \subseteq Sleepers(m) \cup ToSet(s1.event["pending"])
  BY <1>4, PendingMoves
<1> HIDE DEF m
<1>6. Moves(s1, m, {}, {}) /\ m.cur = s1.cur /\ Sound(m) /\ m.susp = 0
  BY <1>2, <1>5 DEF KeptSame, Moves
<1>7. /\ Moves(m, s2, {}, {}) /\ s2.cur = m.cur /\ s2.pended = 0 /\ Heeds(m, s2)
      /\ OnTime(m) /\ m.pended < TickMod => Ticked(m, m.pended, s2)
  BY <1>6, CountMoves
<1> HIDE DEF s2
<1>8. Moves(s1, s2, {}, {}) /\ Sound(s2) /\ s2.susp = 0 /\ s2.event["pending"] = <<>>
  <2>1. Moves(s1, s2, {}, {})
    BY <1>6, <1>7, MovesOn
  <2> QED
    BY <1>5, <1>6, <1>7, <2>1 DEF Moves
<1> DEFINE w == vTaskSwitchContext(s2)
<1>9. /\ Moves(s2, w, {}, {}) /\ w.pended = s2.pended /\ Ready(w, w.cur)
      /\ SameTimes(s2, w) /\ Highest(w)
  BY <1>8, SwitchMoves
<1> HIDE DEF w
<1>10. Moves(s1, w, {}, {}) /\ w.event["pending"] = <<>>
  <2>1. s2.cur = s1.cur
    BY <1>6, <1>7
  <2>2. Moves(s1, w, {}, {})
    BY <1>8, <1>9, <2>1, MovesOn
  <2> QED
    BY <1>8, <1>9, <2>2 DEF Moves
<1>11. Heeds(k, s2) /\ Heeds(k, w)
  <2>1. Heeds(k, s1)
    BY <1>2 DEF Heeds, Ready
  <2>2. Heeds(s1, s2)
    BY <1>5, <1>7, HeedsOn DEF KeptSame, Keeps
  <2> QED
    BY <1>9, <2>1, <2>2, HeedsOn DEF Heeds
<1>12. ASSUME OnTime(k), k.pended < TickMod PROVE Passed(k, k.pended, s2)
  <2>1. Rests(k, m) /\ m.pended = k.pended
    BY <1>2, <1>5, SameRests, RestsOn DEF KeptSame, Keeps
  <2>2. /\ OnTime(m) /\ m.tick = k.tick /\ Sleepers(m) \subseteq Sleepers(k)
        /\ \A t \in Sleepers(m) : Due(m, t) = Due(k, t)
    BY <1>1, <1>12, <2>1, RestsDue
  <2>3. Ticked(m, k.pended, s2)
    BY <1>7, <1>12, <2>1, <2>2
  <2>4. Sleepers(k) \subseteq Sleepers(m) \cup ToSet(k.event["pending"])
    BY <1>2, <1>5 DEF Sleepers
  <2> QED
    BY <2>2, <2>3, <2>4 DEF Ticked, Passed
<1>13. ASSUME OnTime(k), k.pended < TickMod PROVE Passed(k, k.pended, w)
  <2>1. Passed(k, k.pended, s2)
    BY <1>12, <1>13
  <2>2. Sleepers(w) = Sleepers(s2) /\ \A t : Due(w, t) = Due(s2, t)
    BY <1>9 DEF SameTimes, Sleepers, Due
  <2>3. OnTime(w) /\ w.tick = s2.tick
    BY <1>9, <2>1 DEF SameTimes, OnTime, Passed
  <2> QED
    BY <2>1, <2>2, <2>3 DEF Passed
<1>14. CASE s2.yield
  <2>1. r.k = w /\ r.yielded
    BY <1>3, <1>14 DEF w
  <2> QED
    BY <1>7, <1>9, <1>10, <1>11, <1>13, <2>1 DEF s1, r
<1>15. CASE ~s2.yield
  <2>1. r.k = s2 /\ ~r.yielded
    BY <1>3, <1>15
  <2> QED
    BY <1>2, <1>6, <1>7, <1>8, <1>11, <1>12, <2>1 DEF s1, r
<1> QED
  BY <1>14, <1>15

-----------------------------------------------------------------------------
\* The tasks and the scheduler together.

LocalsType ==
  [call : Calls, wait : Ticks, from : [wraps : Nat, at : Ticks], set : BOOLEAN, read : Nat,
   onward : {"blocked", "try", "reap", "begin", "create", "return"}, previous : Ticks]
ItemType ==
  [want : SUBSET Bits, all : BOOLEAN, clear : BOOLEAN, unblocked : BOOLEAN, by : SUBSET Bits]

Base ==
  /\ program \in Programs /\ k.pended \in 0..program.held
  /\ pc \in [Task -> Labels] /\ at \in [Task -> LocalsType] /\ freed \subseteq Task
Data ==
  /\ q \in [n : 0..uxLength, rx : -1..127, tx : -1..127]
  /\ note \in [Task -> [val : 0..program.held, state : {"not", "waiting", "notified"}]]
  /\ group \in [bits : SUBSET Bits, item : [Task -> ItemType]]
  /\ left \in [Task -> Ticks]

\* The current task has put itself on a list and is about to yield.
Blocking(p, a) == p = "yield" \/ (p \in {"unlockTx", "unlockRx", "resume"} /\ a.onward = "blocked")

\* The steps of a suspended scheduler before a task puts itself on an event list.
Quiet == {"lock", "timeout", "check", "place", "delay", "bits", "isempty"}

\* The idle task has seen a task to reap.
AtReap(p, a) == p = "reap" \/ (p = "resume" /\ a.onward = "reap")

Suspenders == {"send", "receive", "peek", "delay", "until", "waitbits", "sync", "setbits",
               "idle", "exclusive", "create"}

\* The call a task is in fits the place where it is.
Where(calls, p, a) ==
  /\ p \notin {"run", "alone"} => a.call \in calls
  /\ p = "suspend" => a.read = 0 /\ a.call.fn \in Suspenders
  /\ p \in {"lock", "timeout", "check", "place"} => Waits(a.call.fn)
  /\ p = "isempty" => a.call.fn = "idle"
  /\ p = "run" => ~a.set /\ a.onward = "return"
  /\ a.onward = "reap" => p \in {"resume", "reap"}
  /\ p \in {"begin", "create"} \/ a.onward \in {"begin", "create"} => a.call.fn = "create"

\* A task that has not yet put itself on an event list is on none, and neither is
\* one that waits for a notification.
Placed(t) ==
  /\ pc[t] \in Quiet => ~Linked(k, t)
  /\ note[t].state = "waiting" => pc[t] = "taken" /\ ~Linked(k, t)
  /\ t \in freed => t # k.cur /\ ~Has(k, t)
  /\ AtReap(pc[t], at[t]) => t = Idle /\ Ended(k) # {}
  /\ Where(program.calls[t], pc[t], at[t])

\* The current task is ready unless it is about to yield; nothing is pending but
\* for a suspended scheduler.
Control ==
  /\ Sound(k) /\ SuspendExcludes
  /\ Blocking(pc[k.cur], at[k.cur]) \/ Ready(k, k.cur)
  /\ k.susp = 0 => k.event["pending"] = <<>>
  /\ \A t \in Task : Placed(t)

KInv == Base /\ Data /\ Control

\* Where a task goes to sleep, and where it puts itself on an event list.
Sleeping == {"run", "take", "delay", "place", "bits"}
Entering(l) == IF l = forBits THEN "bits" ELSE "place"

\* A step leaves the waits of the other tasks alone: none of them goes to sleep or
\* comes to wait for an event, and one that is to be made ready still is.
Calm ==
  /\ \A t \in Task \ {k.cur} : pc'[t] = pc[t] /\ at'[t] = at[t]
  /\ \A t \in Task : t \in Sleepers(k')
       => t \in Sleepers(k) \/ (t = k.cur /\ pc[t] \in Sleeping)
  /\ \A t \in Task \ {k.cur} : t \in ToSet(k.event["pending"]) /\ t \in Sleepers(k')
       => t \in ToSet(k'.event["pending"])
  /\ \A l \in EventList : \A t \in Task : t \in ToSet(k'.event[l])
       => t \in ToSet(k.event[l]) \/ (t = k.cur /\ pc[t] = Entering(l))

\* Of the tasks a step stops, starts or deletes.
Confined(B) ==
  \A u \in B :
    /\ u \in Sleepers(k') => u = k.cur /\ pc[u] \in Sleeping
    /\ \A l \in EventList : u \in ToSet(k'.event[l]) => u = k.cur /\ pc[u] = Entering(l)
    /\ u # k.cur => ~Linked(k', u)

\* A step that stops no task.
LEMMA NoneConfined == Confined({})
BY DEF Confined

LEMMA CalmMoves ==
  ASSUME NEW c, NEW B \in SUBSET Task, NEW L, Sound(k), Moves(c, k', B, L), Confined(B),
         c.ready = k.ready, c.delayed = k.delayed, c.overflow = k.overflow,
         c.ended = k.ended, c.event = k.event,
         \A t \in Task \ {k.cur} : pc'[t] = pc[t] /\ at'[t] = at[t]
  PROVE  Calm
<1>1. /\ \A u : Ready(c, u) <=> Ready(k, u)
      /\ Sleepers(c) = Sleepers(k) /\ Ended(c) = Ended(k)
  BY DEF Ready, Sleepers, Ended
<1>2. \A u : Has(c, u) <=> Has(k, u)
  BY <1>1 DEF Has
<1>3. Tidy(k) /\ Tidy(k') /\ EventList \subseteq Lists
  BY DEF Moves, Sound, Lists
<1>4. ASSUME NEW t \in Task, t \in Sleepers(k')
      PROVE  t \in Sleepers(k) \/ (t = k.cur /\ pc[t] \in Sleeping)
  <2>1. CASE t \in B
    BY <1>4, <2>1 DEF Confined
  <2>2. CASE t \notin B
    <3>1. ~Ready(k', t) /\ t \notin Ended(k') /\ Has(k', t)
      BY <1>3, <1>4 DEF Tidy, Has
    <3>2. ~Ready(k, t) /\ t \notin Ended(k) /\ Has(k, t)
      BY <1>1, <1>2, <2>2, <3>1 DEF Moves
    <3> QED
      BY <3>2 DEF Has
  <2> QED
    BY <2>1, <2>2
<1>5. ASSUME NEW t \in Task \ {k.cur}, t \in ToSet(k.event["pending"]), t \in Sleepers(k')
      PROVE  t \in ToSet(k'.event["pending"])
  <2>1. ~Ready(k', t)
    BY <1>3, <1>5 DEF Tidy
  <2>2. CASE t \in B
    BY <1>5, <2>2 DEF Confined
  <2>3. CASE t \notin B
    BY <1>5, <2>1, <2>3 DEF Moves
  <2> QED
    BY <2>2, <2>3
<1>6. ASSUME NEW l \in EventList, NEW t \in Task, t \in ToSet(k'.event[l])
      PROVE  t \in ToSet(k.event[l]) \/ (t = k.cur /\ pc[t] = Entering(l))
  <2>1. CASE t \in B
    BY <1>6, <2>1 DEF Confined
  <2>2. CASE t \notin B
    BY <1>6, <2>2 DEF Moves
  <2> QED
    BY <2>1, <2>2
<1> QED
  BY <1>4, <1>5, <1>6 DEF Calm

\* The scheduler moves on, perhaps out of its suspension or into it, and the
\* current task comes to l with the locals a.
LEMMA Carried ==
  ASSUME KInv, NEW z \in {0, 1}, NEW l \in Labels, NEW a \in LocalsType,
         NEW B \in SUBSET Task, NEW L \in SUBSET Task,
         Moves([k EXCEPT !.susp = z], k', B, L),
         pc' = [pc EXCEPT ![k.cur] = l], at' = [at EXCEPT ![k.cur] = a],
         program' = program, freed' = freed, k'.pended \in 0..program.held,
         l \in Suspending <=> z = 1,
         (Blocking(l, a) /\ k'.cur = k.cur) \/ Ready(k', k'.cur),
         z = 0 => k'.event["pending"] = <<>>,
         l \in Quiet => ~Linked(k', k.cur),
         \A u \in L \ {k.cur} : pc[u] \notin Quiet /\ note'[u].state # "waiting",
         \A u \in Task \ {k.cur} : note'[u].state = "waiting" => note[u].state = "waiting",
         note'[k.cur].state = "waiting" => l = "taken" /\ ~Linked(k', k.cur),
         B \cap freed = {}, B \cap Ended(k) = {}, Confined(B),
         AtReap(l, a) => k.cur = Idle /\ Ended(k) # {},
         Where(program.calls[k.cur], l, a)
  PROVE  Base' /\ Control' /\ Calm
<1> DEFINE c == [k EXCEPT !.susp = z]
           t == k.cur
<1>1. k \in Kernel /\ t \in Task /\ pc \in [Task -> Labels] /\ at \in [Task -> LocalsType]
  BY DEF KInv, Base, Control, Sound, Tidy, Kernel
<1>2. /\ c.susp = z /\ c.cur = k.cur /\ c.ready = k.ready /\ c.delayed = k.delayed
      /\ c.overflow = k.overflow /\ c.ended = k.ended /\ c.event = k.event
  BY <1>1 DEF Kernel
<1>3. Moves(c, k', B, L)
  OBVIOUS
<1> HIDE DEF c
<1>4. /\ \A u : (Ready(c, u) <=> Ready(k, u)) /\ (Linked(c, u) <=> Linked(k, u))
      /\ Sleepers(c) = Sleepers(k) /\ Ended(c) = Ended(k)
  BY <1>2 DEF Ready, Linked, Sleepers, Ended
<1>5. \A u : Has(c, u) <=> Has(k, u)
  BY <1>4 DEF Has
<1>6. /\ Sound(k') /\ k'.susp = z
      /\ k'.cur = t \/ (z = 0 /\ Ready(k', k'.cur))
      /\ \A u \in Task \ B : /\ Ready(k, u) => Ready(k', u)
                             /\ u \in Ended(k') <=> u \in Ended(k)
                             /\ Has(k', u) <=> Has(k, u)
      /\ \A u \in Task \ L : Linked(k', u) => Linked(k, u)
  BY <1>2, <1>3, <1>4, <1>5 DEF Moves
<1>7. k' \in Kernel /\ k'.cur \in Task
  BY <1>6 DEF Sound, Tidy, Kernel
<1>8. /\ \A u \in Task : u # t => pc'[u] = pc[u] /\ at'[u] = at[u]
      /\ pc'[t] = l /\ at'[t] = a
  BY <1>1
<1>9. SuspendExcludes'
  <2>1. \A u \in Task : u # t => pc[u] \notin Suspending
    BY DEF KInv, Control, SuspendExcludes
  <2>2. \A u \in Task : pc'[u] \in Suspending => u = t /\ z = 1
    BY <1>1, <1>8, <2>1
  <2>3. z = 1 => k'.cur = t
    BY <1>6
  <2>4. \A u \in Task : pc'[u] \in Suspending => k'.cur = u /\ k'.susp = 1
    BY <1>6, <2>2, <2>3
  <2>5. k'.susp # 0 => pc'[k'.cur] \in Suspending
    BY <1>6, <1>8, <2>3
  <2> QED
    BY <2>4, <2>5 DEF SuspendExcludes
<1>10. Blocking(pc'[k'.cur], at'[k'.cur]) \/ Ready(k', k'.cur)
  BY <1>8
<1>11. k'.susp = 0 => k'.event["pending"] = <<>>
  BY <1>6
<1>12. ASSUME NEW u \in Task PROVE Placed(u)'
  <2> DEFINE p == pc'[u]
             b == at'[u]
  <2>0. Placed(u)
    BY DEF KInv, Control
  <2>1. p \in Quiet => ~Linked(k', u)
    <3>1. CASE u = t
      BY <1>8, <3>1
    <3>2. CASE u # t
      BY <1>6, <1>8, <2>0, <3>2 DEF Placed
    <3> QED
      BY <3>1, <3>2
  <2>2. note'[u].state = "waiting" => p = "taken" /\ ~Linked(k', u)
    <3>1. CASE u = t
      BY <1>8, <3>1
    <3>2. CASE u # t
      BY <1>6, <1>8, <2>0, <3>2 DEF Placed
    <3> QED
      BY <3>1, <3>2
  <2>3. u \in freed' => u # k'.cur /\ ~Has(k', u)
    <3> SUFFICES ASSUME u \in freed PROVE u # k'.cur /\ ~Has(k', u)
      OBVIOUS
    <3>1. u \notin B /\ u # t /\ ~Has(k, u)
      BY <2>0 DEF Placed
    <3>2. ~Has(k', u)
      BY <1>6, <3>1
    <3>3. u # k'.cur
      BY <1>6, <3>1, <3>2 DEF Has
    <3> QED
      BY <3>2, <3>3
  <2>4. AtReap(p, b) => u = Idle /\ Ended(k') # {}
    <3> SUFFICES ASSUME AtReap(p, b) PROVE u = Idle /\ Ended(k') # {}
      OBVIOUS
    <3>1. u = Idle /\ Ended(k) # {}
      <4>1. CASE u = t
        BY <1>8, <4>1
      <4>2. CASE u # t
        BY <1>8, <2>0, <4>2 DEF Placed
      <4> QED
        BY <4>1, <4>2
    <3>2. Ended(k) \subseteq Task
      BY <1>1 DEF Ended, Kernel, ToSet
    <3>3. Ended(k) \subseteq Ended(k')
      BY <1>6, <3>2
    <3> QED
      BY <3>1, <3>3
  <2>5. Where(program'.calls[u], p, b)
    <3>1. CASE u = t
      BY <1>8, <3>1
    <3>2. CASE u # t
      BY <1>8, <2>0, <3>2 DEF Placed
    <3> QED
      BY <3>1, <3>2
  <2> QED
    BY <2>1, <2>2, <2>3, <2>4, <2>5 DEF Placed
<1>13. Control'
  BY <1>6, <1>9, <1>10, <1>11, <1>12 DEF Control
<1>14. Base'
  BY <1>1 DEF KInv, Base
<1>15. Calm
  BY <1>2, <1>3, <1>8, CalmMoves DEF KInv, Control
<1> QED
  BY <1>13, <1>14, <1>15

\* A step of the current task that leaves the suspension as it is.
LEMMA CarriedStep ==
  ASSUME KInv, NEW l \in Labels, NEW a \in LocalsType,
         NEW B \in SUBSET Task, NEW L \in SUBSET Task, Moves(k, k', B, L),
         pc' = [pc EXCEPT ![k.cur] = l], at' = [at EXCEPT ![k.cur] = a],
         program' = program, freed' = freed, k'.pended \in 0..program.held,
         l \in Suspending <=> pc[k.cur] \in Suspending,
         (Blocking(l, a) /\ k'.cur = k.cur) \/ Ready(k', k'.cur),
         l \in Quiet => ~Linked(k', k.cur),
         \A u \in L \ {k.cur} : pc[u] \notin Quiet /\ note'[u].state # "waiting",
         \A u \in Task \ {k.cur} : note'[u].state = "waiting" => note[u].state = "waiting",
         note'[k.cur].state = "waiting" => l = "taken" /\ ~Linked(k', k.cur),
         B \cap freed = {}, B \cap Ended(k) = {}, Confined(B),
         AtReap(l, a) => k.cur = Idle /\ Ended(k) # {},
         Where(program.calls[k.cur], l, a)
  PROVE  Base' /\ Control' /\ Calm
<1>1. k \in Kernel /\ k.cur \in Task
  BY DEF KInv, Control, Sound, Tidy, Kernel
<1>2. k.susp \in {0, 1} /\ (k.susp = 1 <=> pc[k.cur] \in Suspending)
  BY <1>1 DEF KInv, Control, SuspendExcludes
<1>3. [k EXCEPT !.susp = k.susp] = k
  BY <1>1 DEF Kernel
<1>4. k.susp = 0 => k'.event["pending"] = <<>>
  BY DEF KInv, Control, Moves
<1> DEFINE z == k.susp
<1>5. /\ z \in {0, 1} /\ Moves([k EXCEPT !.susp = z], k', B, L)
      /\ l \in Suspending <=> z = 1
      /\ z = 0 => k'.event["pending"] = <<>>
  BY <1>2, <1>3, <1>4
<1> HIDE DEF z
<1> QED
  BY <1>5, Carried

\* A step of an interrupt.
LEMMA CarriedInterrupt ==
  ASSUME KInv, NEW L \in SUBSET Task, Moves(k, k', {}, L), UNCHANGED <<program, pc, at, freed>>,
         k'.pended \in 0..program.held,
         \A u \in L : pc[u] \notin Quiet /\ note'[u].state # "waiting",
         \A u \in Task : note'[u].state = "waiting" => note[u].state = "waiting"
  PROVE  Base' /\ Control' /\ Calm
<1> DEFINE t == k.cur
           l == pc[t]
           a == at[t]
<1>1. t \in Task /\ pc \in [Task -> Labels] /\ at \in [Task -> LocalsType]
  BY DEF KInv, Base, Control, Sound, Tidy, Kernel
<1>2. /\ l \in Labels /\ a \in LocalsType
      /\ pc' = [pc EXCEPT ![t] = l] /\ at' = [at EXCEPT ![t] = a]
      /\ program' = program /\ freed' = freed
  BY <1>1
<1>3. Placed(t)
  BY <1>1 DEF KInv, Control
<1>4. (Blocking(l, a) /\ k'.cur = t) \/ Ready(k', k'.cur)
  <2>1. k'.cur = t \/ Ready(k', k'.cur)
    BY DEF Moves
  <2>2. Ready(k, t) => Ready(k', t)
    BY <1>1 DEF Moves
  <2> QED
    BY <2>1, <2>2 DEF KInv, Control
<1>5. l \in Quiet => ~Linked(k', t)
  BY <1>1, <1>3 DEF Placed, Moves
<1>6. note'[t].state = "waiting" => l = "taken" /\ ~Linked(k', t)
  BY <1>1, <1>3 DEF Placed, Moves
<1>7. (AtReap(l, a) => t = Idle /\ Ended(k) # {}) /\ Where(program.calls[t], l, a)
  BY <1>3 DEF Placed
<1>8. {} \in SUBSET Task /\ {} \cap freed = {} /\ {} \cap Ended(k) = {} /\ Confined({})
  BY NoneConfined
<1>9. l \in Suspending <=> pc[k.cur] \in Suspending
  OBVIOUS
<1> HIDE DEF l, a
<1> QED
  BY <1>2, <1>4, <1>5, <1>6, <1>7, <1>8, <1>9, CarriedStep

LEMMA Stopping ==
  ASSUME NEW a, NEW b, NEW c, NEW B, NEW L, Moves(a, b, B, L), Moves(b, c, {}, {})
  PROVE  Moves(a, c, B, L)
<1>1. Sound(c) /\ c.susp = a.susp /\ b.cur \in Task
  BY DEF Moves, Sound, Tidy, Kernel
<1>2. c.cur = a.cur \/ (a.susp = 0 /\ Ready(c, c.cur))
  BY <1>1 DEF Moves
<1>3. \A t \in Task \ B : /\ Ready(a, t) => Ready(c, t)
                          /\ t \in Ended(c) <=> t \in Ended(a)
                          /\ Has(c, t) <=> Has(a, t)
  BY DEF Moves
<1>4. \A t \in Task \ L : Linked(c, t) => Linked(a, t)
  BY DEF Moves
<1>5. (a.susp = 0 /\ a.event["pending"] = <<>>) => c.event["pending"] = <<>>
  BY DEF Moves
<1>6. \A t \in Task \ B :
        /\ t \in ToSet(a.event["pending"]) => t \in ToSet(c.event["pending"]) \/ Ready(c, t)
        /\ \A l \in EventList : t \in ToSet(c.event[l]) => t \in ToSet(a.event[l])
  BY DEF Moves
<1> QED
  BY <1>1, <1>2, <1>3, <1>4, <1>5, <1>6 DEF Moves

\* Where the current task stands.
LEMMA Standing ==
  ASSUME KInv
  PROVE  /\ Sound(k) /\ Tidy(k) /\ k \in Kernel /\ k.cur \in Task
         /\ pc[k.cur] \in Labels /\ at[k.cur] \in LocalsType /\ Placed(k.cur)
         /\ k.susp \in {0, 1} /\ (k.susp = 1 <=> pc[k.cur] \in Suspending)
         /\ Blocking(pc[k.cur], at[k.cur]) \/ Ready(k, k.cur)
         /\ Ready(k, k.cur) => k.cur \notin Ended(k) /\ (k.susp = 0 => ~Linked(k, k.cur))
         /\ k.cur \notin freed /\ k.pended \in 0..program.held /\ program \in Programs
         /\ Moves(k, k, {}, {})
<1>1. Sound(k) /\ Tidy(k) /\ k \in Kernel /\ k.cur \in Task
  BY DEF KInv, Control, Sound, Tidy, Kernel
<1>2. /\ pc[k.cur] \in Labels /\ at[k.cur] \in LocalsType /\ Placed(k.cur)
      /\ k.pended \in 0..program.held /\ program \in Programs
  BY <1>1 DEF KInv, Base, Control
<1>3. k.susp \in {0, 1} /\ (k.susp = 1 <=> pc[k.cur] \in Suspending)
  BY <1>1 DEF KInv, Control, SuspendExcludes
<1>4. k.cur \notin freed
  BY <1>2 DEF Placed
<1>5. Ready(k, k.cur) => k.cur \notin Ended(k)
  BY <1>1 DEF Tidy
<1>6. Ready(k, k.cur) /\ k.susp = 0 => ~Linked(k, k.cur)
  <2> SUFFICES ASSUME Ready(k, k.cur), k.susp = 0, NEW l \in Lists, k.cur \in ToSet(k.event[l])
               PROVE  FALSE
    BY DEF Linked
  <2>1. k.cur \notin Sleepers(k)
    BY <1>1 DEF Tidy
  <2>2. l = "pending"
    BY <1>1, <2>1 DEF Sound, Lists
  <2>3. k.event["pending"] = <<>>
    BY DEF KInv, Control
  <2> QED
    BY <2>2, <2>3 DEF ToSet
<1> QED
  BY <1>1, <1>2, <1>3, <1>4, <1>5, <1>6, Stays DEF KInv, Control

\* What the calls of a program are.
LEMMA CallFacts ==
  ASSUME NEW p \in Programs, NEW t \in Task, NEW c \in p.calls[t]
  PROVE  /\ c \in Calls /\ c.wait \in Ticks /\ c.fn \in DOMAIN First
         /\ c.fn = "idle" <=> t = Idle
         /\ c.fn \in {"give", "delete", "create"} => c.to \in Task
         /\ c.fn = "delete" => c.to # Idle
BY ProgramsAssumption DEF Calls, Ticks, portMAX_DELAY

\* The call a task is in, or makes, and the locals it starts with.
LEMMA CallNow ==
  ASSUME KInv, NEW c \in CallsNow(k.cur), pc[k.cur] # "alone"
  PROVE  /\ c \in program.calls[k.cur]
         /\ Locals(k.cur, c) \in LocalsType
         /\ Locals(k.cur, c).call = c /\ Locals(k.cur, c).onward = at[k.cur].onward
         /\ Locals(k.cur, c).set = at[k.cur].set
<1>1. /\ at[k.cur] \in LocalsType /\ Placed(k.cur) /\ program \in Programs
      /\ k.cur \in Task
  BY Standing
<1>2. c \in program.calls[k.cur]
  BY <1>1 DEF CallsNow, Placed, Where
<1>3. c \in Calls /\ c.wait \in Ticks
  BY <1>1, <1>2, CallFacts
<1>4. CASE pc[k.cur] = "run"
  BY <1>1, <1>2, <1>3, <1>4 DEF Locals, LocalsType
<1>5. CASE pc[k.cur] # "run"
  BY <1>1, <1>2, <1>5 DEF Locals, CallsNow
<1> QED
  BY <1>4, <1>5

LEMMA RestTyped ==
  ASSUME NEW p \in Ticks
  PROVE  /\ [AtRest EXCEPT !.previous = p] \in LocalsType
         /\ [AtRest EXCEPT !.previous = p].onward = "return"
         /\ ~[AtRest EXCEPT !.previous = p].set
<1>1. None \in Calls /\ 0 \in Ticks
  BY RtosAssumption DEF Calls, Ticks
<1> QED
  BY <1>1 DEF AtRest, NoTime, LocalsType

\* A call returns, the scheduler running.
LEMMA CarriedLeave ==
  ASSUME KInv, NEW B \in SUBSET Task, Moves(k, k', B, {}), Leave(k.cur),
         program' = program, freed' = freed, k'.pended \in 0..program.held,
         pc[k.cur] \notin Suspending, Ready(k', k'.cur),
         \A u \in Task : note'[u].state = "waiting" => u # k.cur /\ note[u].state = "waiting",
         B \cap freed = {}, B \cap Ended(k) = {}, Confined(B)
  PROVE  Base' /\ Control' /\ Calm
<1> DEFINE t == k.cur
           a == [AtRest EXCEPT !.previous = at[t].previous]
<1>1. t \in Task /\ at[t] \in LocalsType
  BY Standing
<1>2. a \in LocalsType /\ a.onward = "return" /\ ~a.set
  <2>1. at[t].previous \in Ticks
    BY <1>1 DEF LocalsType
  <2> QED
    BY <2>1, RestTyped
<1>3. pc' = [pc EXCEPT ![t] = "run"] /\ at' = [at EXCEPT ![t] = a]
  BY DEF Leave
<1> HIDE DEF a
<1>4. "run" \in Labels /\ "run" \notin Suspending /\ "run" \notin Quiet
  BY DEF Labels, Suspending, Quiet
<1>5. ~AtReap("run", a) /\ Where(program.calls[t], "run", a)
  BY <1>2 DEF AtReap, Where
<1>6. /\ {} \in SUBSET Task
      /\ \A u \in Task \ {t} : note'[u].state = "waiting" => note[u].state = "waiting"
      /\ note'[t].state # "waiting"
  BY <1>1
<1> QED
  BY <1>1, <1>2, <1>3, <1>4, <1>5, <1>6, CarriedStep

\* A step that does nothing to the notifications and puts nobody on a list.
LEMMA CarriedPlain ==
  ASSUME KInv, NEW l \in Labels, NEW a \in LocalsType, Moves(k, k', {}, {}),
         pc' = [pc EXCEPT ![k.cur] = l], at' = [at EXCEPT ![k.cur] = a],
         program' = program, freed' = freed, note' = note, k'.pended \in 0..program.held,
         pc[k.cur] # "taken", l \in Suspending <=> pc[k.cur] \in Suspending,
         (Blocking(l, a) /\ k'.cur = k.cur) \/ Ready(k', k'.cur),
         l \in Quiet => pc[k.cur] \in Quiet \/ ~Linked(k, k.cur),
         AtReap(l, a) => k.cur = Idle /\ Ended(k) # {},
         Where(program.calls[k.cur], l, a)
  PROVE  Base' /\ Control' /\ Calm
<1>1. Placed(k.cur) /\ k.cur \in Task
  BY Standing
<1>2. l \in Quiet => ~Linked(k', k.cur)
  BY <1>1 DEF Placed, Moves
<1>3. note'[k.cur].state # "waiting"
  BY <1>1 DEF Placed
<1>4. /\ {} \in SUBSET Task /\ {} \cap freed = {} /\ {} \cap Ended(k) = {} /\ Confined({})
      /\ \A u \in Task \ {k.cur} : note'[u].state = "waiting" => note[u].state = "waiting"
  BY NoneConfined
<1> QED
  BY <1>2, <1>3, <1>4, CarriedStep

\* A step that leaves the scheduler as it is.
LEMMA CarriedStill ==
  ASSUME KInv, NEW l \in Labels, NEW a \in LocalsType,
         pc' = [pc EXCEPT ![k.cur] = l], at' = [at EXCEPT ![k.cur] = a],
         UNCHANGED <<k, program, freed, note>>,
         pc[k.cur] # "taken", l \in Suspending <=> pc[k.cur] \in Suspending,
         Blocking(l, a) \/ ~Blocking(pc[k.cur], at[k.cur]),
         l \in Quiet => pc[k.cur] \in Quiet \/ ~Linked(k, k.cur),
         AtReap(l, a) => k.cur = Idle /\ Ended(k) # {},
         Where(program.calls[k.cur], l, a)
  PROVE  Base' /\ Control' /\ Calm
<1>1. /\ Moves(k, k', {}, {}) /\ k'.pended \in 0..program.held
      /\ program' = program /\ freed' = freed /\ note' = note
      /\ (Blocking(l, a) /\ k'.cur = k.cur) \/ Ready(k', k'.cur)
  BY Standing
<1> QED
  BY <1>1, CarriedPlain

\* The scheduler moves on within the bounds of its program.
LEMMA StillHeld ==
  ASSUME KInv, k'.pended = k.pended, program' = program
  PROVE  k'.pended \in 0..program.held
BY Standing

LEMMA Leaves ==
  ASSUME KInv, Leave(k.cur)
  PROVE  \E a \in LocalsType :
           /\ pc' = [pc EXCEPT ![k.cur] = "run"] /\ at' = [at EXCEPT ![k.cur] = a]
           /\ Where(program.calls[k.cur], "run", a)
<1> DEFINE a == [AtRest EXCEPT !.previous = at[k.cur].previous]
<1>1. at[k.cur] \in LocalsType
  BY Standing
<1>2. a \in LocalsType /\ a.onward = "return" /\ ~a.set
  <2>1. at[k.cur].previous \in Ticks
    BY <1>1 DEF LocalsType
  <2> QED
    BY <2>1, RestTyped
<1>3. pc' = [pc EXCEPT ![k.cur] = "run"] /\ at' = [at EXCEPT ![k.cur] = a]
  BY DEF Leave
<1>4. Where(program.calls[k.cur], "run", a)
  BY <1>2 DEF Where
<1> QED
  BY <1>2, <1>3, <1>4

LEMMA GoesOn ==
  ASSUME KInv, GoOn(k.cur), pc[k.cur] \notin {"run", "alone"}, at[k.cur].onward # "reap"
  PROVE  \E l \in {"try", "bitsback", "run"}, a \in LocalsType :
           /\ pc' = [pc EXCEPT ![k.cur] = l] /\ at' = [at EXCEPT ![k.cur] = a]
           /\ Where(program.calls[k.cur], l, a)
<1> DEFINE fn == at[k.cur].call.fn
<1>1. at[k.cur] \in LocalsType /\ Placed(k.cur)
  BY Standing
<1>2. /\ at[k.cur].call \in program.calls[k.cur]
      /\ at[k.cur].onward \in {"begin", "create"} => at[k.cur].call.fn = "create"
  BY <1>1 DEF Placed, Where
<1>3. \A l \in {"try", "bitsback"} : Where(program.calls[k.cur], l, at[k.cur])
  BY <1>2 DEF Where
<1>4. CASE Waits(fn)
  <2>1. Goto(k.cur, "try", at[k.cur])
    BY <1>4 DEF GoOn, Waits
  <2> QED
    BY <1>1, <1>3, <2>1 DEF Goto
<1>5. CASE ~Waits(fn) /\ fn \in {"waitbits", "sync"}
  <2>1. Goto(k.cur, "bitsback", at[k.cur])
    BY <1>5 DEF GoOn
  <2> QED
    BY <1>1, <1>3, <2>1 DEF Goto
<1>6. CASE ~Waits(fn) /\ fn \notin {"waitbits", "sync"}
  <2>1. Leave(k.cur)
    BY <1>6 DEF GoOn
  <2> QED
    BY <2>1, Leaves
<1> QED
  BY <1>4, <1>5, <1>6

-----------------------------------------------------------------------------
\* One lemma for each action of the current task: it carries Base and Control.

LEMMA BeginSuspendedCarries ==
  ASSUME KInv, BeginSuspended(k.cur), UNCHANGED <<program, freed, note>>
  PROVE  Base' /\ Control' /\ Calm
<1>0. PICK c \in CallsNow(k.cur) :
        /\ Here(k.cur, "begin", c)
        /\ ReadAndSuspend(k.cur, Locals(k.cur, c))
  BY DEF BeginSuspended
<1> DEFINE a == [Locals(k.cur, c) EXCEPT !.read = k.susp]
<1>1. \/ pc[k.cur] = "run" /\ First[c.fn] = "begin"
      \/ pc[k.cur] = "begin" /\ c = at[k.cur].call
  BY <1>0 DEF Here, CallsNow
<1>2. /\ c \in program.calls[k.cur] /\ Locals(k.cur, c) \in LocalsType
      /\ Locals(k.cur, c).call = c /\ Locals(k.cur, c).onward = at[k.cur].onward
      /\ Locals(k.cur, c).set = at[k.cur].set
  BY <1>0, <1>1, CallNow
<1>3. k.susp = 0 /\ Placed(k.cur)
  BY <1>1, Standing DEF Suspending
<1>4. a \in LocalsType /\ a.read = 0 /\ a.call = c /\ a.onward = at[k.cur].onward
  BY <1>2, <1>3 DEF LocalsType
<1>5. pc' = [pc EXCEPT ![k.cur] = "suspend"] /\ at' = [at EXCEPT ![k.cur] = a]
  BY <1>0 DEF ReadAndSuspend, Goto
<1>6. c.fn \in Suspenders
  <2>1. c.fn \in DOMAIN First
    BY <1>2, Standing, CallFacts
  <2>2. CASE First[c.fn] = "begin"
    BY <2>1, <2>2 DEF First, Suspenders
  <2>3. CASE pc[k.cur] = "begin" /\ c = at[k.cur].call
    BY <1>3, <2>3 DEF Placed, Where, Suspenders
  <2> QED
    BY <1>1, <2>2, <2>3
<1> HIDE DEF a
<1>7. Where(program.calls[k.cur], "suspend", a)
  BY <1>1, <1>2, <1>3, <1>4, <1>6 DEF Where, Placed
<1>8. /\ "suspend" \in Labels /\ "suspend" \notin Suspending /\ "suspend" \notin Quiet
      /\ pc[k.cur] # "taken" /\ pc[k.cur] \notin Suspending
      /\ ~Blocking(pc[k.cur], at[k.cur]) /\ ~AtReap("suspend", a)
  BY <1>1 DEF Labels, Suspending, Quiet, Blocking, AtReap
<1> QED
  BY <1>4, <1>5, <1>7, <1>8, CarriedStill DEF BeginSuspended

LEMMA YieldCarries ==
  ASSUME KInv, Yield(k.cur), UNCHANGED <<program, freed, note>>
  PROVE  Base' /\ Control' /\ Calm
<1>1. pc[k.cur] = "yield" /\ GoOn(k.cur) /\ k' = vTaskSwitchContext(k)
  BY DEF Yield
<1>2. Sound(k) /\ k.susp = 0 /\ at[k.cur].onward # "reap"
  BY <1>1, Standing DEF Suspending, Placed, Where
<1>3. Moves(k, k', {}, {}) /\ k'.pended = k.pended /\ Ready(k', k'.cur)
  BY <1>1, <1>2, SwitchMoves
<1>4. PICK l \in {"try", "bitsback", "run"}, a \in LocalsType :
        /\ pc' = [pc EXCEPT ![k.cur] = l] /\ at' = [at EXCEPT ![k.cur] = a]
        /\ Where(program.calls[k.cur], l, a)
  BY <1>1, <1>2, GoesOn
<1>5. /\ l \in Labels /\ l \notin Suspending /\ l \notin Quiet /\ ~AtReap(l, a)
      /\ pc[k.cur] \notin Suspending /\ pc[k.cur] # "taken"
  BY <1>1 DEF Labels, Suspending, Quiet, AtReap
<1> QED
  BY <1>3, <1>4, <1>5, StillHeld, CarriedPlain

LEMMA DelayZeroCarries ==
  ASSUME KInv, vTaskDelayZero(k.cur), UNCHANGED <<program, freed, note>>
  PROVE  Base' /\ Control' /\ Calm
<1>1. pc[k.cur] \in {"run", "yield"} /\ Leave(k.cur) /\ k' = vTaskSwitchContext(k)
  BY DEF vTaskDelayZero, Here
<1>2. Sound(k) /\ k.susp = 0
  BY <1>1, Standing DEF Suspending
<1>3. Moves(k, k', {}, {}) /\ k'.pended = k.pended /\ Ready(k', k'.cur)
  BY <1>1, <1>2, SwitchMoves
<1>4. PICK a \in LocalsType :
        /\ pc' = [pc EXCEPT ![k.cur] = "run"] /\ at' = [at EXCEPT ![k.cur] = a]
        /\ Where(program.calls[k.cur], "run", a)
  BY <1>1, Leaves
<1>5. /\ "run" \in Labels /\ "run" \notin Suspending /\ "run" \notin Quiet /\ ~AtReap("run", a)
      /\ pc[k.cur] \notin Suspending /\ pc[k.cur] # "taken"
  BY <1>1 DEF Labels, Suspending, Quiet, AtReap
<1> QED
  BY <1>3, <1>4, <1>5, StillHeld, CarriedPlain

LEMMA IdleYieldsCarries ==
  ASSUME KInv, IdleYields(k.cur), UNCHANGED <<program, freed, note>>
  PROVE  Base' /\ Control' /\ Calm
<1>1. CASE pc[k.cur] = "run" /\ Goto(k.cur, "alone", at[k.cur]) /\ UNCHANGED k
  <2>1. at[k.cur] \in LocalsType /\ Placed(k.cur)
    BY Standing
  <2>2. Where(program.calls[k.cur], "alone", at[k.cur])
    BY <1>1, <2>1 DEF Placed, Where
  <2>3. /\ "alone" \in Labels /\ "alone" \notin Suspending /\ "alone" \notin Quiet
        /\ ~AtReap("alone", at[k.cur]) /\ ~Blocking(pc[k.cur], at[k.cur])
        /\ pc[k.cur] \notin Suspending /\ pc[k.cur] # "taken"
    BY <1>1 DEF Labels, Suspending, Quiet, AtReap, Blocking
  <2> QED
    BY <1>1, <2>1, <2>2, <2>3, CarriedStill DEF Goto
<1>2. CASE pc[k.cur] = "alone" /\ k' = vTaskSwitchContext(k) /\ Leave(k.cur)
  <2>1. Sound(k) /\ k.susp = 0
    BY <1>2, Standing DEF Suspending
  <2>2. Moves(k, k', {}, {}) /\ k'.pended = k.pended /\ Ready(k', k'.cur)
    BY <1>2, <2>1, SwitchMoves
  <2>3. PICK a \in LocalsType :
          /\ pc' = [pc EXCEPT ![k.cur] = "run"] /\ at' = [at EXCEPT ![k.cur] = a]
          /\ Where(program.calls[k.cur], "run", a)
    BY <1>2, Leaves
  <2>4. /\ "run" \in Labels /\ "run" \notin Suspending /\ "run" \notin Quiet
        /\ ~AtReap("run", a) /\ pc[k.cur] \notin Suspending /\ pc[k.cur] # "taken"
    BY <1>2 DEF Labels, Suspending, Quiet, AtReap
  <2> QED
    BY <2>2, <2>3, <2>4, StillHeld, CarriedPlain
<1> QED
  BY <1>1, <1>2 DEF IdleYields

LEMMA SuspendAllCarries ==
  ASSUME KInv, vTaskSuspendAll(k.cur), UNCHANGED <<program, freed, note>>
  PROVE  Base' /\ Control' /\ Calm
<1> DEFINE fn == at[k.cur].call.fn
           o == at[k.cur].onward
           onward == IF fn = "create" THEN Allocated(o) ELSE o
           a == [at[k.cur] EXCEPT !.read = 0, !.onward = onward]
           c == [k EXCEPT !.susp = 1]
           l == CASE Waits(fn) -> "lock"
                  [] fn \in {"delay", "until"} -> "delay"
                  [] fn \in {"waitbits", "sync", "setbits"} -> "bits"
                  [] fn = "idle" -> "isempty"
                  [] fn \in {"exclusive", "create"} -> "resume"
<1>1. pc[k.cur] = "suspend" /\ k' = [k EXCEPT !.susp = at[k.cur].read + 1] /\ Goto(k.cur, l, a)
  BY DEF vTaskSuspendAll
<1>2. at[k.cur] \in LocalsType /\ Placed(k.cur) /\ Sound(k) /\ k \in Kernel
  BY Standing
<1>3. /\ at[k.cur].call \in program.calls[k.cur] /\ at[k.cur].read = 0
      /\ fn \in Suspenders /\ o # "reap"
      /\ o \in {"begin", "create"} => fn = "create"
  BY <1>1, <1>2 DEF Placed, Where
<1>4. k' = c
  BY <1>1, <1>3
<1>5. /\ a \in LocalsType /\ a.call = at[k.cur].call
      /\ a.onward # "reap" /\ (a.onward \in {"begin", "create"} => fn = "create")
  <2>1. 0 \in Nat
    OBVIOUS
  <2>2. /\ onward \in {"blocked", "try", "reap", "begin", "create", "return"}
        /\ onward # "reap" /\ (onward \in {"begin", "create"} => fn = "create")
    BY <1>2, <1>3 DEF LocalsType, Allocated
  <2> HIDE DEF onward
  <2> QED
    BY <1>2, <2>1, <2>2 DEF LocalsType
<1>6. /\ l \in {"lock", "delay", "bits", "isempty", "resume"}
      /\ l = "lock" => Waits(fn)
      /\ l = "isempty" => fn = "idle"
  BY <1>3 DEF Suspenders, Waits
<1>7. pc' = [pc EXCEPT ![k.cur] = l] /\ at' = [at EXCEPT ![k.cur] = a]
  BY <1>1 DEF Goto
<1>8. /\ c \in Kernel /\ c.cur = k.cur /\ c.ready = k.ready /\ c.top = k.top
      /\ c.delayed = k.delayed /\ c.overflow = k.overflow /\ c.ended = k.ended
      /\ c.event = k.event /\ c.susp = 1 /\ c.pended = k.pended
  <2>1. 1 \in Nat
    OBVIOUS
  <2> QED
    BY <1>2, <2>1 DEF Kernel
<1> HIDE DEF a, c, l
<1>9. /\ \A u : (Ready(c, u) <=> Ready(k, u)) /\ (Linked(c, u) <=> Linked(k, u))
      /\ Sleepers(c) = Sleepers(k) /\ Ended(c) = Ended(k)
  BY <1>8 DEF Ready, Linked, Sleepers, Ended
<1>10. Sound(c)
  <2>1. Tidy(c)
    BY <1>2, <1>8, <1>9 DEF Sound, Tidy
  <2> QED
    BY <1>2, <1>8, <1>9, <2>1 DEF Sound
<1>11. Moves(c, c, {}, {})
  BY <1>10, Stays
<1>12. Ready(k, k.cur) /\ ~Linked(k, k.cur)
  <2>1. ~Blocking(pc[k.cur], at[k.cur]) /\ k.susp = 0
    BY <1>1, Standing DEF Blocking, Suspending
  <2> QED
    BY <2>1, Standing
<1>13. Ready(c, c.cur) /\ ~Linked(c, k.cur)
  BY <1>8, <1>9, <1>12
<1>14. note'[k.cur].state # "waiting" /\ k'.pended \in 0..program.held
  BY <1>1, <1>2, <1>4, <1>8, Standing DEF Placed
<1>15. Where(program.calls[k.cur], l, a)
  BY <1>3, <1>5, <1>6 DEF Where
<1>16. l \in Labels /\ l \in Suspending /\ ~AtReap(l, a)
  BY <1>3, <1>5, <1>6 DEF Labels, Suspending, AtReap
<1>17. \A u \in Task \ {k.cur} : note'[u].state = "waiting" => note[u].state = "waiting"
  OBVIOUS
<1> DEFINE z == 1
<1>18. /\ z \in {0, 1} /\ Moves([k EXCEPT !.susp = z], k', {}, {}) /\ z = 1
       /\ (Blocking(l, a) /\ k'.cur = k.cur) \/ Ready(k', k'.cur)
       /\ ~Linked(k', k.cur) /\ l \in Suspending <=> z = 1
       /\ z = 0 => k'.event["pending"] = <<>>
       /\ AtReap(l, a) => k.cur = Idle /\ Ended(k) # {}
       /\ \A u \in {} \ {k.cur} : pc[u] \notin Quiet /\ note'[u].state # "waiting"
       /\ program' = program /\ freed' = freed /\ l \in Labels
       /\ {} \in SUBSET Task /\ {} \cap freed = {} /\ {} \cap Ended(k) = {} /\ Confined({})
  BY <1>4, <1>11, <1>13, <1>16, NoneConfined DEF c
<1> HIDE DEF z
<1> QED
  BY <1>5, <1>7, <1>14, <1>15, <1>16, <1>17, <1>18, Carried

LEMMA ResumeAllCarries ==
  ASSUME KInv, ResumeAll(k.cur), UNCHANGED <<program, freed, note>>
  PROVE  Base' /\ Control' /\ Calm
<1> DEFINE r == xTaskResumeAll(k)
           o == at[k.cur].onward
<1>1. /\ pc[k.cur] = "resume" /\ k' = r.k
      /\ CASE o = "blocked" /\ ~r.yielded -> Goto(k.cur, "yield", at[k.cur])
           [] o = "blocked" /\ r.yielded -> GoOn(k.cur)
           [] o \in {"try", "reap"} -> Goto(k.cur, o, at[k.cur])
           [] o \in {"begin", "create"} -> Goto(k.cur, o, at[k.cur]) \/ Leave(k.cur)
           [] o = "return" -> Leave(k.cur)
  BY DEF ResumeAll
<1>2. /\ at[k.cur] \in LocalsType /\ Placed(k.cur) /\ Sound(k) /\ k.susp = 1
      /\ k.cur \in Task
  BY <1>1, Standing DEF Suspending
<1>3. /\ Moves([k EXCEPT !.susp = 0], k', {}, {})
      /\ k'.event["pending"] = <<>> /\ k'.pended = 0
      /\ r.yielded => Ready(k', k'.cur)
      /\ ~r.yielded => k'.cur = k.cur
  BY <1>1, <1>2, ResumeMoves
<1>4. Ready(k, k.cur) => Ready(k', k'.cur)
  <2>1. Ready([k EXCEPT !.susp = 0], k.cur) <=> Ready(k, k.cur)
    BY <1>2 DEF Sound, Tidy, Kernel, Ready
  <2>2. Ready(k, k.cur) => Ready(k', k.cur)
    BY <1>2, <1>3, <2>1 DEF Moves
  <2> QED
    BY <1>3, <2>2
<1> HIDE DEF r
<1>5. o \in {"blocked", "try", "reap", "begin", "create", "return"}
  BY <1>2 DEF LocalsType
<1>6. \E l \in Labels, a \in LocalsType :
        /\ pc' = [pc EXCEPT ![k.cur] = l] /\ at' = [at EXCEPT ![k.cur] = a]
        /\ Where(program.calls[k.cur], l, a)
        /\ l \notin Suspending /\ l \notin Quiet /\ l # "taken"
        /\ AtReap(l, a) => k.cur = Idle /\ Ended(k) # {}
        /\ (Blocking(l, a) /\ k'.cur = k.cur) \/ Ready(k', k'.cur)
  <2>1. CASE o = "blocked" /\ ~r.yielded
    <3>1. Goto(k.cur, "yield", at[k.cur])
      BY <1>1, <2>1
    <3>2. Where(program.calls[k.cur], "yield", at[k.cur])
      BY <1>1, <1>2, <2>1 DEF Placed, Where
    <3>3. "yield" \in Labels /\ "yield" \notin Suspending /\ "yield" \notin Quiet
      BY DEF Labels, Suspending, Quiet
    <3>4. ~AtReap("yield", at[k.cur]) /\ Blocking("yield", at[k.cur])
      BY DEF AtReap, Blocking
    <3> QED
      BY <1>2, <1>3, <2>1, <3>1, <3>2, <3>3, <3>4 DEF Goto
  <2>2. CASE o = "blocked" /\ r.yielded
    <3>1. GoOn(k.cur)
      BY <1>1, <2>2
    <3>2. PICK l \in {"try", "bitsback", "run"}, a \in LocalsType :
            /\ pc' = [pc EXCEPT ![k.cur] = l] /\ at' = [at EXCEPT ![k.cur] = a]
            /\ Where(program.calls[k.cur], l, a)
      BY <1>1, <2>2, <3>1, GoesOn
    <3>3. l \in Labels /\ l \notin Suspending /\ l \notin Quiet /\ l # "taken" /\ ~AtReap(l, a)
      BY DEF Labels, Suspending, Quiet, AtReap
    <3> QED
      BY <1>3, <2>2, <3>2, <3>3
  <2>3. CASE o \in {"try", "reap", "begin", "create"} /\ Goto(k.cur, o, at[k.cur])
    <3>1. Goto(k.cur, o, at[k.cur])
      BY <2>3
    <3>2. Where(program.calls[k.cur], o, at[k.cur])
      BY <1>1, <1>2, <2>3 DEF Placed, Where
    <3>3. o \in Labels /\ o \notin Suspending /\ o \notin Quiet /\ o # "taken"
      BY <2>3 DEF Labels, Suspending, Quiet
    <3>4. AtReap(o, at[k.cur]) => k.cur = Idle /\ Ended(k) # {}
      BY <1>1, <1>2, <2>3 DEF AtReap, Placed
    <3>5. Ready(k', k'.cur)
      BY <1>1, <1>4, <2>3, Standing DEF Blocking
    <3> QED
      BY <1>2, <3>1, <3>2, <3>3, <3>4, <3>5 DEF Goto
  <2>4. CASE o \in {"return", "begin", "create"} /\ Leave(k.cur)
    <3>1. Leave(k.cur)
      BY <2>4
    <3>2. PICK a \in LocalsType :
            /\ pc' = [pc EXCEPT ![k.cur] = "run"] /\ at' = [at EXCEPT ![k.cur] = a]
            /\ Where(program.calls[k.cur], "run", a)
      BY <3>1, Leaves
    <3>3. /\ "run" \in Labels /\ "run" \notin Suspending /\ "run" \notin Quiet
          /\ ~AtReap("run", a)
      BY DEF Labels, Suspending, Quiet, AtReap
    <3>4. Ready(k', k'.cur)
      BY <1>1, <1>4, <2>4, Standing DEF Blocking
    <3> QED
      BY <3>2, <3>3, <3>4
  <2>5. CASE o \in {"try", "reap"}
    BY <1>1, <2>3, <2>5
  <2>6. CASE o \in {"begin", "create"}
    BY <1>1, <2>3, <2>4, <2>6
  <2>7. CASE o = "return"
    BY <1>1, <2>4, <2>7
  <2> QED
    BY <1>5, <2>1, <2>2, <2>5, <2>6, <2>7
<1>7. PICK l \in Labels, a \in LocalsType :
        /\ pc' = [pc EXCEPT ![k.cur] = l] /\ at' = [at EXCEPT ![k.cur] = a]
        /\ Where(program.calls[k.cur], l, a)
        /\ l \notin Suspending /\ l \notin Quiet /\ l # "taken"
        /\ AtReap(l, a) => k.cur = Idle /\ Ended(k) # {}
        /\ (Blocking(l, a) /\ k'.cur = k.cur) \/ Ready(k', k'.cur)
  BY <1>6
<1>8. note'[k.cur].state # "waiting"
  BY <1>1, <1>2 DEF Placed
<1>9. k'.pended \in 0..program.held
  <2>1. program \in Programs
    BY Standing
  <2>2. program.held \in 1..127
    BY <2>1, CallsAssumption
  <2>3. 0 \in 0..program.held
    BY <2>2
  <2> QED
    BY <1>3, <2>3, Zenon
<1> DEFINE z == 0
<1>10. /\ z \in {0, 1} /\ Moves([k EXCEPT !.susp = z], k', {}, {}) /\ z # 1
       /\ {} \in SUBSET Task /\ {} \cap freed = {} /\ {} \cap Ended(k) = {} /\ Confined({})
       /\ \A u \in Task \ {k.cur} : note'[u].state = "waiting" => note[u].state = "waiting"
  BY <1>3, NoneConfined
<1> HIDE DEF z
<1> QED
  BY <1>3, <1>7, <1>8, <1>9, <1>10, Carried

\* The current task, the scheduler suspended, delays itself and will resume.
LEMMA DelayedCarries ==
  ASSUME KInv, UNCHANGED <<program, freed, note>>, NEW time \in Ticks, NEW a \in LocalsType,
         pc[k.cur] = "delay", k' = prvAddCurrentTaskToDelayedList(RemoveGenericItem(k, k.cur), time),
         Goto(k.cur, "resume", a), a.onward = "blocked", a.call = at[k.cur].call,
         a.call.fn # "idle"
  PROVE  Base' /\ Control' /\ Calm
<1>1. /\ at[k.cur] \in LocalsType /\ Placed(k.cur) /\ Sound(k) /\ k \in Kernel
      /\ k.cur \in Task /\ program \in Programs
  BY Standing
<1>2. a.call \in program.calls[k.cur]
  BY <1>1 DEF Placed, Where
<1>3. k.cur # Idle
  BY <1>1, <1>2, CallFacts
<1>4. Ready(k, k.cur) /\ k.susp = 1 /\ k.cur \notin freed
  BY Standing DEF Blocking, Suspending
<1>5. k.cur \notin Ended(k)
  BY <1>4, Standing
<1>6. Moves(k, k', {k.cur}, {}) /\ k'.cur = k.cur /\ k'.pended = k.pended
  BY <1>1, <1>3, <1>4, DelayMoves
<1>7. /\ "resume" \in Labels /\ "resume" \in Suspending /\ "resume" \notin Quiet
      /\ pc[k.cur] \in Suspending /\ ~AtReap("resume", a) /\ Blocking("resume", a)
      /\ Where(program.calls[k.cur], "resume", a)
  BY <1>2 DEF Labels, Suspending, Quiet, AtReap, Blocking, Where
<1>8. /\ pc' = [pc EXCEPT ![k.cur] = "resume"] /\ at' = [at EXCEPT ![k.cur] = a]
      /\ program' = program /\ freed' = freed
  BY DEF Goto
<1>9. note'[k.cur].state # "waiting"
  BY <1>1 DEF Placed
<1>10. /\ {k.cur} \in SUBSET Task /\ {} \in SUBSET Task
       /\ {k.cur} \cap freed = {} /\ {k.cur} \cap Ended(k) = {}
       /\ \A u \in Task \ {k.cur} : note'[u].state = "waiting" => note[u].state = "waiting"
  BY <1>1, <1>4, <1>5
<1>11. k'.pended \in 0..program.held
  BY <1>6, StillHeld
<1>12. Confined({k.cur})
  <2>1. ~Linked(k', k.cur)
    BY <1>1, <1>6 DEF Placed, Quiet, Moves
  <2> QED
    BY <2>1 DEF Confined, Linked, Lists, Sleeping
<1> QED
  BY <1>6, <1>7, <1>8, <1>9, <1>10, <1>11, <1>12, CarriedStep

LEMMA DelayCarries ==
  ASSUME KInv, vTaskDelay(k.cur), UNCHANGED <<program, freed, note>>
  PROVE  Base' /\ Control' /\ Calm
<1> DEFINE a == [at[k.cur] EXCEPT !.onward = "blocked"]
           time == (k.tick + at[k.cur].wait) % TickMod
<1>1. /\ pc[k.cur] = "delay" /\ at[k.cur].call.fn = "delay"
      /\ k' = prvAddCurrentTaskToDelayedList(RemoveGenericItem(k, k.cur), time)
      /\ Goto(k.cur, "resume", a)
  BY DEF vTaskDelay, DelayCurrentTask
<1>2. at[k.cur] \in LocalsType /\ Placed(k.cur) /\ Sound(k) /\ k \in Kernel
  BY Standing
<1>3. time \in Ticks
  BY <1>2, WrappedTick DEF Kernel, LocalsType
<1>4. a \in LocalsType /\ a.onward = "blocked" /\ a.call = at[k.cur].call
  BY <1>2 DEF LocalsType
<1> HIDE DEF time, a
<1> QED
  BY <1>1, <1>3, <1>4, DelayedCarries

LEMMA DelayUntilCarries ==
  ASSUME KInv, vTaskDelayUntil(k.cur), UNCHANGED <<program, freed, note>>
  PROVE  Base' /\ Control' /\ Calm
<1> DEFINE previous == at[k.cur].previous
           time == (previous + at[k.cur].wait) % TickMod
           a == [at[k.cur] EXCEPT !.onward = "blocked", !.previous = time]
<1>1. /\ pc[k.cur] = "delay" /\ at[k.cur].call.fn = "until"
      /\ IF ShouldDelay(previous, time)
         THEN k' = prvAddCurrentTaskToDelayedList(RemoveGenericItem(k, k.cur), time)
         ELSE UNCHANGED k
      /\ Goto(k.cur, "resume", a)
  BY DEF vTaskDelayUntil
<1>2. at[k.cur] \in LocalsType /\ Placed(k.cur)
  BY Standing
<1>3. time \in Ticks
  BY <1>2, WrappedTick DEF LocalsType
<1>4. a \in LocalsType /\ a.onward = "blocked" /\ a.call = at[k.cur].call
  BY <1>2, <1>3 DEF LocalsType
<1> HIDE DEF time, a
<1>5. CASE ShouldDelay(previous, time)
  BY <1>1, <1>3, <1>4, <1>5, DelayedCarries
<1>6. CASE ~ShouldDelay(previous, time)
  <2>1. pc' = [pc EXCEPT ![k.cur] = "resume"] /\ at' = [at EXCEPT ![k.cur] = a] /\ UNCHANGED k
    BY <1>1, <1>6 DEF Goto
  <2>2. Where(program.calls[k.cur], "resume", a)
    BY <1>1, <1>2, <1>4 DEF Placed, Where
  <2>3. /\ "resume" \in Labels /\ "resume" \in Suspending /\ "resume" \notin Quiet
        /\ pc[k.cur] \in Suspending /\ ~AtReap("resume", a) /\ Blocking("resume", a)
        /\ pc[k.cur] # "taken"
    BY <1>1, <1>4 DEF Labels, Suspending, Quiet, AtReap, Blocking
  <2> QED
    BY <1>4, <2>1, <2>2, <2>3, CarriedStill
<1> QED
  BY <1>5, <1>6

LEMMA DeleteCarries ==
  ASSUME KInv, vTaskDelete(k.cur), UNCHANGED <<program, freed, note>>
  PROVE  Base' /\ Control' /\ Calm
<1>0. PICK c \in CallsNow(k.cur) :
        /\ c.fn = "delete" /\ Here(k.cur, "delete", c) /\ Alive(c.to)
        /\ k' = LeaveLists(c.to)
        /\ Goto(k.cur, IF c.to = k.cur THEN "yield" ELSE "resettime", Locals(k.cur, c))
  BY DEF vTaskDelete
<1> DEFINE a == Locals(k.cur, c)
           l == IF c.to = k.cur THEN "yield" ELSE "resettime"
           u == c.to
<1>1. pc[k.cur] = "run"
  BY <1>0, Standing DEF Here, Labels
<1>2. /\ c \in program.calls[k.cur] /\ a \in LocalsType
      /\ a.call = c /\ a.onward = at[k.cur].onward
  BY <1>0, <1>1, CallNow
<1>3. /\ Placed(k.cur) /\ Sound(k) /\ k \in Kernel /\ k.cur \in Task /\ program \in Programs
      /\ Ready(k, k.cur)
  BY <1>1, Standing DEF Blocking
<1>4. u \in Task /\ u # Idle
  BY <1>0, <1>2, <1>3, CallFacts
<1>5. /\ Moves(k, k', {u}, {}) /\ k'.cur = k.cur /\ k'.pended = k.pended
      /\ Confined({u})
  BY <1>0, <1>3, <1>4, DeleteMoves DEF SameClock, Confined, Linked, Lists
<1>6. Has(k, u) /\ u \notin Ended(k)
  BY <1>0 DEF Alive, Listed, Has, Ready, Sleepers, Ended
<1>7. u \notin freed
  BY <1>4, <1>6 DEF KInv, Control, Placed
<1>8. pc' = [pc EXCEPT ![k.cur] = l] /\ at' = [at EXCEPT ![k.cur] = a]
  BY <1>0 DEF Goto
<1>9. (Blocking(l, a) /\ k'.cur = k.cur) \/ Ready(k', k'.cur)
  <2>1. CASE u = k.cur
    BY <1>5, <2>1 DEF Blocking
  <2>2. CASE u # k.cur
    BY <1>3, <1>5, <2>2 DEF Moves
  <2> QED
    BY <2>1, <2>2
<1>10. l \in {"yield", "resettime"}
  OBVIOUS
<1> HIDE DEF a, l
<1>11. /\ l \in Labels /\ l \notin Suspending /\ l \notin Quiet
       /\ pc[k.cur] \notin Suspending /\ ~AtReap(l, a)
  BY <1>1, <1>10 DEF Labels, Suspending, Quiet, AtReap
<1>12. Where(program.calls[k.cur], l, a)
  BY <1>1, <1>2, <1>3, <1>10 DEF Where, Placed
<1>13. note'[k.cur].state # "waiting"
  BY <1>1, <1>3 DEF Placed
<1>14. /\ {u} \in SUBSET Task /\ {} \in SUBSET Task
       /\ {u} \cap freed = {} /\ {u} \cap Ended(k) = {}
       /\ \A v \in Task \ {k.cur} : note'[v].state = "waiting" => note[v].state = "waiting"
       /\ program' = program /\ freed' = freed
  BY <1>4, <1>6, <1>7
<1>15. k'.pended \in 0..program.held
  BY <1>5, StillHeld
<1> QED
  BY <1>2, <1>5, <1>8, <1>9, <1>11, <1>12, <1>13, <1>14, <1>15, CarriedStep

LEMMA ResetTimeCarries ==
  ASSUME KInv, ResetTime(k.cur), UNCHANGED <<program, freed, note>>
  PROVE  Base' /\ Control' /\ Calm
<1>1. pc[k.cur] = "resettime" /\ Leave(k.cur) /\ k' = prvResetNextTaskUnblockTime(k)
  BY DEF ResetTime
<1>2. Sound(k) /\ Ready(k, k.cur) /\ k.cur \in Task
  BY <1>1, Standing DEF Blocking
<1>3. Moves(k, k', {}, {}) /\ k'.pended = k.pended /\ k'.cur = k.cur
  <2> DEFINE r == prvResetNextTaskUnblockTime(k)
  <2>1. Moves(k, r, {}, {}) /\ SameClock(k, r)
    BY <1>2, ResetMoves
  <2>2. k' = r
    BY <1>1
  <2> HIDE DEF r
  <2> QED
    BY <2>1, <2>2 DEF SameClock
<1>4. Ready(k', k'.cur)
  BY <1>2, <1>3 DEF Moves
<1>5. PICK a \in LocalsType :
        /\ pc' = [pc EXCEPT ![k.cur] = "run"] /\ at' = [at EXCEPT ![k.cur] = a]
        /\ Where(program.calls[k.cur], "run", a)
  BY <1>1, Leaves
<1>6. /\ "run" \in Labels /\ "run" \notin Suspending /\ "run" \notin Quiet /\ ~AtReap("run", a)
      /\ pc[k.cur] \notin Suspending /\ pc[k.cur] # "taken"
  BY <1>1 DEF Labels, Suspending, Quiet, AtReap
<1> QED
  BY <1>3, <1>4, <1>5, <1>6, StillHeld, CarriedPlain

LEMMA CreateCarries ==
  ASSUME KInv, CreateTask(k.cur), UNCHANGED <<program, freed, note>>
  PROVE  Base' /\ Control' /\ Calm
<1> DEFINE c == at[k.cur].call
           u == c.to
<1>0. /\ pc[k.cur] = "create" /\ ~Listed(u) /\ u \notin freed
      /\ k' = prvAddTaskToReadyList(k, u)
      /\ IF Prio[u] > Prio[k.cur] THEN Goto(k.cur, "yield", at[k.cur]) ELSE Leave(k.cur)
  BY DEF CreateTask, New
<1>1. pc[k.cur] = "create"
  BY <1>0
<1>3. /\ Placed(k.cur) /\ Sound(k) /\ k \in Kernel /\ k.cur \in Task /\ program \in Programs
      /\ Ready(k, k.cur) /\ at[k.cur] \in LocalsType
  BY <1>1, Standing DEF Blocking
<1>2. c \in program.calls[k.cur] /\ c.fn = "create"
  BY <1>1, <1>3 DEF Placed, Where
<1>4. u \in Task
  BY <1>0, <1>2, <1>3, CallFacts
<1>5. ~Has(k, u) /\ u \notin Ended(k)
  BY <1>0 DEF Listed, Has, Ready, Sleepers, Ended
<1>6. /\ Moves(k, k', {u}, {}) /\ k'.cur = k.cur /\ k'.pended = k.pended
      /\ Confined({u})
  BY <1>0, <1>3, <1>4, <1>5, CreateMoves DEF SameClock, Confined, Linked, Lists
<1>7. Ready(k', k'.cur)
  <2>1. u # k.cur
    BY <1>3, <1>5 DEF Has
  <2> QED
    BY <1>3, <1>6, <2>1 DEF Moves
<1>8. PICK l \in {"yield", "run"}, a \in LocalsType :
        /\ pc' = [pc EXCEPT ![k.cur] = l] /\ at' = [at EXCEPT ![k.cur] = a]
        /\ Where(program.calls[k.cur], l, a)
  <2>1. CASE Prio[u] > Prio[k.cur]
    <3>1. Goto(k.cur, "yield", at[k.cur])
      BY <1>0, <2>1
    <3>2. Where(program.calls[k.cur], "yield", at[k.cur])
      BY <1>1, <1>2, <1>3 DEF Where, Placed
    <3> QED
      BY <1>3, <3>1, <3>2 DEF Goto
  <2>2. CASE ~(Prio[u] > Prio[k.cur])
    <3>1. Leave(k.cur)
      BY <1>0, <2>2
    <3> QED
      BY <3>1, Leaves
  <2> QED
    BY <2>1, <2>2
<1>9. /\ l \in Labels /\ l \notin Suspending /\ l \notin Quiet
      /\ pc[k.cur] \notin Suspending /\ ~AtReap(l, a)
  BY <1>1 DEF Labels, Suspending, Quiet, AtReap
<1>10. note'[k.cur].state # "waiting"
  BY <1>1, <1>3 DEF Placed
<1>11. /\ {u} \in SUBSET Task /\ {} \in SUBSET Task
       /\ {u} \cap freed = {} /\ {u} \cap Ended(k) = {}
       /\ \A v \in Task \ {k.cur} : note'[v].state = "waiting" => note[v].state = "waiting"
       /\ program' = program /\ freed' = freed
  BY <1>0, <1>4, <1>5
<1>12. k'.pended \in 0..program.held
  BY <1>6, StillHeld
<1> QED
  BY <1>6, <1>7, <1>8, <1>9, <1>10, <1>11, <1>12, CarriedStep

-----------------------------------------------------------------------------
\* The queue.

LEMMA RefusedCarries ==
  ASSUME KInv, UNCHANGED <<program, freed, note>>, NEW c \in CallsNow(k.cur),
         Here(k.cur, "try", c), Waits(c.fn), Refused(k.cur, c)
  PROVE  Base' /\ Control' /\ Calm
<1> DEFINE b == Locals(k.cur, c)
<1>1. pc[k.cur] \in {"run", "try"}
  BY DEF Here
<1>2. /\ c \in program.calls[k.cur] /\ b \in LocalsType /\ b.call = c
      /\ b.onward = at[k.cur].onward /\ b.set = at[k.cur].set
  BY <1>1, CallNow
<1>3. /\ at[k.cur] \in LocalsType /\ Placed(k.cur) /\ k.susp = 0 /\ k.cur \in Task
      /\ k \in Kernel
  BY <1>1, Standing DEF Suspending
<1>4. /\ pc[k.cur] \notin Suspending /\ pc[k.cur] # "taken" /\ ~Blocking(pc[k.cur], at[k.cur])
      /\ at[k.cur].onward # "reap"
  BY <1>1, <1>3 DEF Suspending, Blocking, Placed, Where
<1>4a. at[k.cur].onward \notin {"begin", "create"}
  BY <1>1, <1>3 DEF Placed, Where, CallsNow, Waits
<1>5. CASE b.wait = 0
  <2>1. PICK a \in LocalsType :
          /\ pc' = [pc EXCEPT ![k.cur] = "run"] /\ at' = [at EXCEPT ![k.cur] = a]
          /\ Where(program.calls[k.cur], "run", a)
    BY <1>5, Leaves DEF Refused
  <2>2. /\ "run" \in Labels /\ "run" \notin Suspending /\ "run" \notin Quiet
        /\ ~AtReap("run", a)
    BY DEF Labels, Suspending, Quiet, AtReap
  <2> QED
    BY <1>4, <2>1, <2>2, CarriedStill DEF Refused
<1>6. CASE b.wait # 0
  <2> DEFINE d == IF b.set THEN at[k.cur]
                  ELSE [b EXCEPT !.set = TRUE, !.from = vTaskSetTimeOutState(k)]
             a == [d EXCEPT !.read = k.susp]
  <2>1. ReadAndSuspend(k.cur, d) /\ UNCHANGED k
    BY <1>6 DEF Refused
  <2>2. pc' = [pc EXCEPT ![k.cur] = "suspend"] /\ at' = [at EXCEPT ![k.cur] = a]
    BY <2>1 DEF ReadAndSuspend, Goto
  <2>3. d \in LocalsType /\ d.call = c /\ d.onward = at[k.cur].onward
    <3>1. CASE b.set
      <4>1. pc[k.cur] = "try"
        BY <1>1, <1>2, <1>3, <3>1 DEF Placed, Where
      <4>2. b = at[k.cur]
        BY <4>1 DEF Locals
      <4> QED
        BY <1>2, <3>1, <4>2
    <3>2. CASE ~b.set
      <4>1. vTaskSetTimeOutState(k) \in [wraps : Nat, at : Ticks]
        BY <1>3, RtosAssumption DEF Kernel, vTaskSetTimeOutState
      <4> HIDE DEF b
      <4>2. d = [b EXCEPT !.set = TRUE, !.from = vTaskSetTimeOutState(k)]
        BY <3>2
      <4> QED
        BY <1>2, <4>1, <4>2 DEF LocalsType
    <3> QED
      BY <3>1, <3>2
  <2> HIDE DEF d
  <2>4. a \in LocalsType /\ a.read = 0 /\ a.call = c /\ a.onward = at[k.cur].onward
    BY <1>3, <2>3 DEF LocalsType
  <2> HIDE DEF a
  <2>5. Where(program.calls[k.cur], "suspend", a)
    BY <1>2, <1>4, <1>4a, <2>4 DEF Where, Waits, Suspenders
  <2>6. /\ "suspend" \in Labels /\ "suspend" \notin Suspending /\ "suspend" \notin Quiet
        /\ ~AtReap("suspend", a)
    BY DEF Labels, Suspending, Quiet, AtReap
  <2> QED
    BY <1>4, <2>1, <2>2, <2>4, <2>5, <2>6, CarriedStill
<1> QED
  BY <1>5, <1>6

\* A task that goes on has used the queue and perhaps woken another.
LEMMA WakingCarries ==
  ASSUME KInv, UNCHANGED <<program, freed, note>>, NEW l \in EventList, k' = Wake(l),
         Leave(k.cur), pc[k.cur] \in {"run", "try"}
  PROVE  Base' /\ Control' /\ Calm
<1>1. Sound(k) /\ k.cur \in Task /\ Ready(k, k.cur)
  BY Standing DEF Blocking
<1>2. Moves(k, k', {}, {}) /\ k'.pended = k.pended
  BY <1>1, WakeMoves
<1>3. Ready(k', k'.cur)
  BY <1>1, <1>2 DEF Moves
<1>4. PICK a \in LocalsType :
        /\ pc' = [pc EXCEPT ![k.cur] = "run"] /\ at' = [at EXCEPT ![k.cur] = a]
        /\ Where(program.calls[k.cur], "run", a)
  BY Leaves
<1>5. /\ "run" \in Labels /\ "run" \notin Suspending /\ "run" \notin Quiet /\ ~AtReap("run", a)
      /\ pc[k.cur] \notin Suspending /\ pc[k.cur] # "taken"
  BY DEF Labels, Suspending, Quiet, AtReap
<1> QED
  BY <1>2, <1>3, <1>4, <1>5, StillHeld, CarriedPlain

LEMMA EventLists == toSend \in EventList /\ toReceive \in EventList /\ forBits \in EventList
BY CallsAssumption

LEMMA SendCarries ==
  ASSUME KInv, xQueueGenericSend(k.cur), UNCHANGED <<program, freed, note>>
  PROVE  Base' /\ Control' /\ Calm
<1>1. PICK c \in CallsNow(k.cur) :
        /\ Here(k.cur, "try", c)
        /\ \/ k' = Wake(toReceive) /\ Leave(k.cur)
           \/ c.fn = "send" /\ Refused(k.cur, c)
  BY DEF xQueueGenericSend
<1>2. pc[k.cur] \in {"run", "try"}
  BY <1>1 DEF Here
<1> QED
  BY <1>1, <1>2, EventLists, WakingCarries, RefusedCarries DEF Waits

LEMMA ReceiveCarries ==
  ASSUME KInv, xQueueGenericReceive(k.cur), UNCHANGED <<program, freed, note>>
  PROVE  Base' /\ Control' /\ Calm
<1>1. PICK c \in CallsNow(k.cur) :
        /\ c.fn \in {"receive", "peek"} /\ Here(k.cur, "try", c)
        /\ \/ k' = Wake(toReceive) /\ Leave(k.cur)
           \/ k' = Wake(toSend) /\ Leave(k.cur)
           \/ Refused(k.cur, c)
  BY DEF xQueueGenericReceive
<1>2. pc[k.cur] \in {"run", "try"}
  BY <1>1 DEF Here
<1> QED
  BY <1>1, <1>2, EventLists, WakingCarries, RefusedCarries DEF Waits

LEMMA ResetCarries ==
  ASSUME KInv, xQueueGenericReset(k.cur), UNCHANGED <<program, freed, note>>
  PROVE  Base' /\ Control' /\ Calm
<1>1. /\ pc[k.cur] = "run" /\ k' = Wake(toSend) /\ Leave(k.cur)
  BY Standing DEF xQueueGenericReset, Here, Labels
<1> QED
  BY <1>1, EventLists, WakingCarries

LEMMA LockCarries ==
  ASSUME KInv, prvLockQueue(k.cur), UNCHANGED <<program, freed, note>>
  PROVE  Base' /\ Control' /\ Calm
<1>1. /\ pc[k.cur] = "lock" /\ UNCHANGED k
      /\ pc' = [pc EXCEPT ![k.cur] = "timeout"] /\ at' = [at EXCEPT ![k.cur] = at[k.cur]]
  BY DEF prvLockQueue, Goto
<1>2. at[k.cur] \in LocalsType /\ Placed(k.cur)
  BY Standing
<1>3. Where(program.calls[k.cur], "timeout", at[k.cur])
  BY <1>1, <1>2 DEF Placed, Where
<1>4. /\ "timeout" \in Labels /\ "timeout" \in Suspending /\ pc[k.cur] \in Suspending
      /\ pc[k.cur] # "taken" /\ pc[k.cur] \in Quiet /\ ~AtReap("timeout", at[k.cur])
      /\ ~Blocking(pc[k.cur], at[k.cur])
  BY <1>1 DEF Labels, Suspending, Quiet, AtReap, Blocking
<1> QED
  BY <1>1, <1>2, <1>3, <1>4, CarriedStill

LEMMA TimeOutCarries ==
  ASSUME KInv, CheckForTimeOut(k.cur), UNCHANGED <<program, freed, note>>
  PROVE  Base' /\ Control' /\ Calm
<1> DEFINE t == k.cur
           r == xTaskCheckForTimeOut(k, at[t].from, at[t].wait)
           done == [at[t] EXCEPT !.onward = "return"]
           more == [at[t] EXCEPT !.wait = r.wait, !.from = r.from]
<1>1. /\ pc[t] = "timeout" /\ UNCHANGED k
      /\ IF r.expired THEN Goto(t, "unlockTx", done) ELSE Goto(t, "check", more)
  BY DEF CheckForTimeOut
<1>2. at[t] \in LocalsType /\ Placed(t) /\ k \in Kernel
  BY Standing
<1>3. at[t].call \in program.calls[t] /\ Waits(at[t].call.fn) /\ at[t].onward \notin {"reap", "begin", "create"}
  BY <1>1, <1>2 DEF Placed, Where, Waits
<1>4. r.wait \in Ticks /\ r.from \in [wraps : Nat, at : Ticks]
  <2>1. /\ k.tick \in Ticks /\ k.wraps \in Nat /\ at[t].wait \in Ticks
        /\ at[t].from \in [wraps : Nat, at : Ticks] /\ at[t].from.at \in Ticks
    <3>1. k.tick \in Ticks /\ k.wraps \in 0..WrapMod - 1
      BY <1>2 DEF Kernel
    <3>2. at[t].wait \in Ticks /\ at[t].from \in [wraps : Nat, at : Ticks]
      BY <1>2 DEF LocalsType
    <3>3. k.wraps \in Nat
      BY <3>1, RtosAssumption
    <3> QED
      BY <3>1, <3>2, <3>3
  <2>2. vTaskSetTimeOutState(k) \in [wraps : Nat, at : Ticks]
    BY <2>1 DEF vTaskSetTimeOutState
  <2> DEFINE rest == at[t].wait - (k.tick - at[t].from.at)
  <2>3. rest \in Int
    BY <2>1, RtosAssumption DEF Ticks
  <2> HIDE DEF rest
  <2>4. rest % TickMod \in Ticks
    BY <2>3, Reduced
  <2>5. /\ r.wait = at[t].wait \/ r.wait = rest % TickMod
        /\ r.from = at[t].from \/ r.from = vTaskSetTimeOutState(k)
    BY DEF xTaskCheckForTimeOut, rest
  <2> QED
    BY <2>1, <2>2, <2>4, <2>5
<1> HIDE DEF r
<1>5. /\ done \in LocalsType /\ done.call = at[t].call
      /\ done.onward \notin {"reap", "begin", "create"}
      /\ more \in LocalsType /\ more.call = at[t].call
      /\ more.onward \notin {"reap", "begin", "create"}
  BY <1>2, <1>3, <1>4 DEF LocalsType
<1> HIDE DEF done, more
<1>6. \E l \in {"unlockTx", "check"}, a \in LocalsType :
        /\ pc' = [pc EXCEPT ![t] = l] /\ at' = [at EXCEPT ![t] = a]
        /\ a.call = at[t].call /\ a.onward \notin {"reap", "begin", "create"}
  BY <1>1, <1>5 DEF Goto
<1>7. PICK l \in {"unlockTx", "check"}, a \in LocalsType :
        /\ pc' = [pc EXCEPT ![t] = l] /\ at' = [at EXCEPT ![t] = a]
        /\ a.call = at[t].call /\ a.onward \notin {"reap", "begin", "create"}
  BY <1>6
<1>8. Where(program.calls[t], l, a)
  BY <1>3, <1>7 DEF Where
<1>9. /\ l \in Labels /\ l \in Suspending /\ pc[t] \in Suspending
      /\ pc[t] # "taken" /\ pc[t] \in Quiet /\ ~AtReap(l, a) /\ ~Blocking(pc[t], at[t])
  BY <1>1 DEF Labels, Suspending, Quiet, AtReap, Blocking
<1> QED
  BY <1>1, <1>7, <1>8, <1>9, CarriedStill

LEMMA CheckCarries ==
  ASSUME KInv, CheckQueue(k.cur), UNCHANGED <<program, freed, note>>
  PROVE  Base' /\ Control' /\ Calm
<1> DEFINE t == k.cur
           again == [at[t] EXCEPT !.onward = "try"]
<1>1. /\ pc[t] = "check" /\ UNCHANGED k
      /\ Goto(t, "place", at[t]) \/ Goto(t, "unlockTx", again)
  BY DEF CheckQueue
<1>2. at[t] \in LocalsType /\ Placed(t)
  BY Standing
<1>3. at[t].call \in program.calls[t] /\ Waits(at[t].call.fn) /\ at[t].onward \notin {"reap", "begin", "create"}
  BY <1>1, <1>2 DEF Placed, Where, Waits
<1>4. again \in LocalsType /\ again.call = at[t].call /\ again.onward \notin {"reap", "begin", "create"}
  BY <1>2 DEF LocalsType
<1> HIDE DEF again
<1>5. PICK l \in {"unlockTx", "place"}, a \in LocalsType :
        /\ pc' = [pc EXCEPT ![t] = l] /\ at' = [at EXCEPT ![t] = a]
        /\ a.call = at[t].call /\ a.onward \notin {"reap", "begin", "create"}
  BY <1>1, <1>2, <1>3, <1>4 DEF Goto
<1>6. Where(program.calls[t], l, a)
  BY <1>3, <1>5 DEF Where
<1>7. /\ l \in Labels /\ l \in Suspending /\ pc[t] \in Suspending
      /\ pc[t] # "taken" /\ pc[t] \in Quiet /\ ~AtReap(l, a) /\ ~Blocking(pc[t], at[t])
  BY <1>1 DEF Labels, Suspending, Quiet, AtReap, Blocking
<1> QED
  BY <1>1, <1>5, <1>6, <1>7, CarriedStill

\* The current task puts itself on an event list, the scheduler suspended.
LEMMA PlacedCarries ==
  ASSUME KInv, UNCHANGED <<program, freed, note>>, pc[k.cur] \in {"place", "bits"},
         NEW l \in {"unlockTx", "resume"}, NEW a \in LocalsType,
         pc' = [pc EXCEPT ![k.cur] = l], at' = [at EXCEPT ![k.cur] = a],
         a.onward = "blocked", a.call = at[k.cur].call, a.call.fn # "idle",
         Moves(k, k', {k.cur}, {k.cur}), k'.cur = k.cur, k'.pended = k.pended,
         \A e \in EventList : k.cur \in ToSet(k'.event[e]) => pc[k.cur] = Entering(e)
  PROVE  Base' /\ Control' /\ Calm
<1>1. /\ at[k.cur] \in LocalsType /\ Placed(k.cur) /\ k.cur \in Task /\ k.cur \notin freed
  BY Standing
<1>2. a.call \in program.calls[k.cur]
  BY <1>1 DEF Placed, Where
<1>3. k.cur \notin Ended(k)
  BY Standing DEF Blocking
<1>4. /\ l \in Labels /\ l \in Suspending /\ l \notin Quiet
      /\ pc[k.cur] \in Suspending /\ ~AtReap(l, a) /\ Blocking(l, a)
      /\ Where(program.calls[k.cur], l, a)
  BY <1>2 DEF Labels, Suspending, Quiet, AtReap, Blocking, Where
<1>5. note'[k.cur].state # "waiting"
  BY <1>1 DEF Placed
<1>6. /\ {k.cur} \in SUBSET Task
      /\ {k.cur} \cap freed = {} /\ {k.cur} \cap Ended(k) = {}
      /\ \A u \in Task \ {k.cur} : note'[u].state = "waiting" => note[u].state = "waiting"
      /\ program' = program /\ freed' = freed
  BY <1>1, <1>3
<1>7. k'.pended \in 0..program.held /\ Confined({k.cur})
  BY StillHeld DEF Confined, Sleeping
<1> QED
  BY <1>4, <1>5, <1>6, <1>7, CarriedStep

\* A task blocks on a queue for what is left of its wait.
LEMMA PlaceEffect ==
  ASSUME KInv, PlaceOnEventList(k.cur)
  PROVE  /\ Moves(k, k', {k.cur}, {k.cur}) /\ k'.cur = k.cur /\ k'.pended = k.pended
         /\ \A n \in EventList : k.cur \in ToSet(k'.event[n]) => n # forBits
         /\ Heeds(k, k') /\ at[k.cur].wait \in Ticks /\ k.cur \notin Sleepers(k)
         /\ OnTime(k) /\ (at[k.cur].wait # 0 \/ k.tick < TickMod - 1)
              => SleepsFor(k, k', at[k.cur].wait)
         /\ Waits(at[k.cur].call.fn)
<1> DEFINE t == k.cur
           wait == at[t].wait
           l == IF at[t].call.fn = "send" THEN toSend ELSE toReceive
           e == vListInsert(k.event[l], t, EventValue)
<1>1. pc[t] = "place" /\ k' = vTaskPlaceOnEventList(k, l, wait)
  BY DEF PlaceOnEventList
<1>2. /\ at[t] \in LocalsType /\ Placed(t) /\ Sound(k) /\ Tidy(k) /\ k \in Kernel /\ t \in Task
      /\ program \in Programs
  BY Standing
<1>3. at[t].call \in program.calls[t] /\ Waits(at[t].call.fn) /\ wait \in Ticks
  BY <1>1, <1>2 DEF Placed, Where, LocalsType
<1>4. t # Idle
  BY <1>2, <1>3, CallFacts DEF Waits
<1>5. Ready(k, t) /\ ~Linked(k, t) /\ t \notin Sleepers(k)
  BY <1>1, <1>2, Standing DEF Blocking, Placed, Quiet, Tidy
<1>6. l \in EventList /\ l \in Lists
  BY EventLists DEF Lists
<1>7. l # forBits
  BY DEF toSend, toReceive, forBits
<1> HIDE DEF l, wait
<1>8. /\ k.event[l] \in Seq(Task) /\ IsInjective(k.event[l]) /\ t \notin ToSet(k.event[l])
  BY <1>2, <1>5, <1>6 DEF Tidy, Kernel, Linked
<1>9. e \in Seq(Task) /\ IsInjective(e) /\ ToSet(e) = ToSet(k.event[l]) \cup {t}
  BY <1>2, <1>8, InsertEffect
<1>10. k' = DelayCurrentTask(Put(k, l, e), wait)
  BY <1>1 DEF vTaskPlaceOnEventList, Put
<1> HIDE DEF e
<1> DEFINE r == DelayCurrentTask(Put(k, l, e), wait)
<1>11. /\ Sound(k) /\ l \in EventList /\ e \in Seq(Task) /\ IsInjective(e)
       /\ ToSet(e) = ToSet(k.event[l]) \cup {k.cur} /\ wait \in Ticks
       /\ k.cur # Idle /\ Ready(k, k.cur) /\ ~Linked(k, k.cur)
  BY <1>2, <1>3, <1>4, <1>5, <1>6, <1>9
<1>12. /\ Moves(k, r, {k.cur}, {k.cur}) /\ r.cur = k.cur /\ r.pended = k.pended
       /\ \A n \in EventList : k.cur \in ToSet(r.event[n]) => n = l
       /\ Heeds(k, r)
       /\ OnTime(k) /\ (wait # 0 \/ k.tick < TickMod - 1) => SleepsFor(k, r, wait)
  BY ONLY <1>11, PlaceMoves
<1>13. k' = r
  BY <1>10
<1> HIDE DEF r
<1> QED
  BY <1>3, <1>5, <1>7, <1>12, <1>13 DEF wait

LEMMA PlaceCarries ==
  ASSUME KInv, PlaceOnEventList(k.cur), UNCHANGED <<program, freed, note>>
  PROVE  Base' /\ Control' /\ Calm
<1> DEFINE t == k.cur
           a == [at[t] EXCEPT !.onward = "blocked"]
<1>1. /\ pc[t] = "place"
      /\ pc' = [pc EXCEPT ![t] = "unlockTx"] /\ at' = [at EXCEPT ![t] = a]
  BY DEF PlaceOnEventList, Goto
<1>2. /\ Moves(k, k', {t}, {t}) /\ k'.cur = t /\ k'.pended = k.pended
      /\ \A n \in EventList : t \in ToSet(k'.event[n]) => n # forBits
      /\ Waits(at[t].call.fn)
  BY PlaceEffect
<1>3. a \in LocalsType /\ a.onward = "blocked" /\ a.call = at[t].call
  BY Standing DEF LocalsType
<1>4. \A n \in EventList : t \in ToSet(k'.event[n]) => pc[t] = Entering(n)
  BY <1>1, <1>2 DEF Entering
<1>5. at[t].call.fn # "idle"
  BY <1>2 DEF Waits
<1> HIDE DEF a
<1> QED
  BY <1>1, <1>2, <1>3, <1>4, <1>5, PlacedCarries

LEMMA UnlockCarries ==
  ASSUME KInv, prvUnlockQueue(k.cur), UNCHANGED <<program, freed, note>>
  PROVE  Base' /\ Control' /\ Calm
<1>1. PICK l \in {"unlockRx", "resume"}, e \in EventList, count \in -1..127 :
        /\ pc[k.cur] \in {"unlockTx", "unlockRx"}
        /\ k' = WakeCounted(e, count)
        /\ Goto(k.cur, l, at[k.cur])
  <2>1. q.tx \in -1..127 /\ q.rx \in -1..127
    BY DEF KInv, Data
  <2>2. CASE /\ pc[k.cur] = "unlockTx" /\ k' = WakeCounted(toReceive, q.tx)
             /\ Goto(k.cur, "unlockRx", at[k.cur])
    BY <2>1, <2>2, EventLists
  <2>3. CASE /\ pc[k.cur] = "unlockRx" /\ k' = WakeCounted(toSend, q.rx)
             /\ Goto(k.cur, "resume", at[k.cur])
    BY <2>1, <2>3, EventLists
  <2> QED
    BY <2>2, <2>3, Zenon DEF prvUnlockQueue
<1>2. /\ at[k.cur] \in LocalsType /\ Placed(k.cur) /\ Sound(k) /\ k.cur \in Task
  BY Standing
<1>3. Moves(k, k', {}, {}) /\ k'.cur = k.cur /\ k'.pended = k.pended
  BY <1>1, <1>2, WakeCountedMoves DEF KeptSame
<1>4. pc' = [pc EXCEPT ![k.cur] = l] /\ at' = [at EXCEPT ![k.cur] = at[k.cur]]
  BY <1>1 DEF Goto
<1>5. /\ at[k.cur].call \in program.calls[k.cur] /\ at[k.cur].onward # "reap"
      /\ at[k.cur].onward \in {"begin", "create"} => at[k.cur].call.fn = "create"
  BY <1>1, <1>2 DEF Placed, Where
<1>6. (Blocking(l, at[k.cur]) /\ k'.cur = k.cur) \/ Ready(k', k'.cur)
  <2>1. CASE at[k.cur].onward = "blocked"
    BY <1>3, <2>1 DEF Blocking
  <2>2. CASE at[k.cur].onward # "blocked"
    <3>1. Ready(k, k.cur)
      BY <1>1, <2>2, Standing DEF Blocking
    <3> QED
      BY <1>2, <1>3, <3>1 DEF Moves
  <2> QED
    BY <2>1, <2>2
<1>7. /\ l \in Labels /\ l \in Suspending /\ l \notin Quiet /\ pc[k.cur] \in Suspending
      /\ pc[k.cur] # "taken" /\ ~AtReap(l, at[k.cur])
      /\ Where(program.calls[k.cur], l, at[k.cur])
  BY <1>1, <1>5 DEF Labels, Suspending, Quiet, AtReap, Where
<1> QED
  BY <1>2, <1>3, <1>4, <1>6, <1>7, StillHeld, CarriedPlain, Zenon

-----------------------------------------------------------------------------
\* Notifications.

LEMMA TakeOrWaitCarries ==
  ASSUME KInv, NotifyTakeOrWait(k.cur), UNCHANGED <<program, freed>>
  PROVE  Base' /\ Control' /\ Calm
<1>0. PICK c \in CallsNow(k.cur) :
        /\ c.fn \in {"take", "notifywait"} /\ Here(k.cur, "take", c)
        /\ IF NotificationHeld(k.cur, c.fn) THEN UNCHANGED <<k, note>>
           ELSE /\ note' = [note EXCEPT ![k.cur].state = "waiting"]
                /\ k' = IF c.wait > 0 THEN vTaskSwitchContext(DelayCurrentTask(k, c.wait)) ELSE k
        /\ Goto(k.cur, "taken", Locals(k.cur, c))
  BY DEF NotifyTakeOrWait
<1> DEFINE a == Locals(k.cur, c)
<1>1. pc[k.cur] \in {"run", "take"}
  BY <1>0 DEF Here
<1>2. /\ c \in program.calls[k.cur] /\ a \in LocalsType
      /\ a.call = c /\ a.onward = at[k.cur].onward
  BY <1>0, <1>1, CallNow
<1>3. /\ Placed(k.cur) /\ Sound(k) /\ k \in Kernel /\ k.cur \in Task /\ program \in Programs
      /\ Moves(k, k, {}, {}) /\ k.cur \notin freed
  BY Standing
<1>4. /\ Ready(k, k.cur) /\ k.susp = 0 /\ ~Linked(k, k.cur) /\ k.cur \notin Ended(k)
  BY <1>1, Standing DEF Blocking, Suspending
<1>5. pc' = [pc EXCEPT ![k.cur] = "taken"] /\ at' = [at EXCEPT ![k.cur] = a]
  BY <1>0 DEF Goto
<1> HIDE DEF a
<1>6. Where(program.calls[k.cur], "taken", a)
  <2>1. at[k.cur].onward \notin {"reap", "begin", "create"}
    BY <1>0, <1>1, <1>3 DEF Where, Placed, CallsNow
  <2> QED
    BY <1>2, <2>1 DEF Where
<1>7. /\ "taken" \in Labels /\ "taken" \notin Suspending /\ "taken" \notin Quiet
      /\ pc[k.cur] \notin Suspending /\ pc[k.cur] # "taken"
      /\ ~AtReap("taken", a) /\ ~Blocking(pc[k.cur], at[k.cur])
  BY <1>1 DEF Labels, Suspending, Quiet, AtReap, Blocking
<1>8. CASE NotificationHeld(k.cur, c.fn)
  <2>1. UNCHANGED <<k, note>>
    BY <1>0, <1>8
  <2> QED
    BY <1>2, <1>5, <1>6, <1>7, <2>1, CarriedStill
<1>9. CASE ~NotificationHeld(k.cur, c.fn)
  <2>1. /\ note' = [note EXCEPT ![k.cur].state = "waiting"]
        /\ k' = IF c.wait > 0 THEN vTaskSwitchContext(DelayCurrentTask(k, c.wait)) ELSE k
    BY <1>0, <1>9
  <2>2. \A u \in Task \ {k.cur} : note'[u].state = "waiting" => note[u].state = "waiting"
    BY <1>3, <2>1 DEF KInv, Data
  <2>3. CASE ~(c.wait > 0)
    <3>1. k' = k
      BY <2>1, <2>3
    <3>2. /\ {} \in SUBSET Task /\ {} \cap freed = {} /\ {} \cap Ended(k) = {} /\ Confined({})
          /\ Moves(k, k', {}, {}) /\ Ready(k', k'.cur) /\ ~Linked(k', k.cur)
          /\ k'.pended \in 0..program.held /\ program' = program /\ freed' = freed
      BY <1>3, <1>4, <3>1, Standing, NoneConfined
    <3> QED
      BY <1>2, <1>5, <1>6, <1>7, <2>2, <3>2, CarriedStep
  <2>4. CASE c.wait > 0
    <3> DEFINE time == (k.tick + c.wait) % TickMod
               r == prvAddCurrentTaskToDelayedList(RemoveGenericItem(k, k.cur), time)
    <3>1. k' = vTaskSwitchContext(r)
      BY <2>1, <2>4 DEF DelayCurrentTask
    <3>2. c.wait \in Ticks /\ k.cur # Idle
      BY <1>0, <1>2, <1>3, CallFacts
    <3>3. time \in Ticks
      BY <1>3, <3>2, WrappedTick DEF Kernel
    <3> HIDE DEF time
    <3>4. /\ Moves(k, r, {k.cur}, {}) /\ r.pended = k.pended /\ r.event = k.event
      BY <1>3, <1>4, <3>2, <3>3, DelayMoves
    <3> HIDE DEF r
    <3>5. Sound(r) /\ r.susp = 0
      BY <1>4, <3>4 DEF Moves
    <3>6. Moves(r, k', {}, {}) /\ k'.pended = r.pended /\ Ready(k', k'.cur)
      BY <3>1, <3>5, SwitchMoves
    <3>7. Moves(k, k', {k.cur}, {})
      BY <3>4, <3>6, Stopping
    <3>8. ~Linked(k', k.cur)
      BY <1>3, <1>4, <3>7 DEF Moves
    <3>9. k'.pended = k.pended /\ k'.pended \in 0..program.held
      BY <3>4, <3>6, StillHeld
    <3>10. /\ {} \in SUBSET Task /\ {k.cur} \in SUBSET Task
           /\ {k.cur} \cap freed = {} /\ {k.cur} \cap Ended(k) = {}
           /\ program' = program /\ freed' = freed /\ Confined({k.cur})
      BY <1>1, <1>3, <1>4, <3>8 DEF Confined, Linked, Lists, Sleeping
    <3> QED
      BY <1>2, <1>5, <1>6, <1>7, <2>2, <3>6, <3>7, <3>8, <3>9, <3>10, CarriedStep
  <2> QED
    BY <2>3, <2>4
<1> QED
  BY <1>8, <1>9

LEMMA TakenCarries ==
  ASSUME KInv, NotifyTaken(k.cur), UNCHANGED <<program, freed>>
  PROVE  Base' /\ Control' /\ Calm
<1>1. PICK val :
        note' = [note EXCEPT ![k.cur] = [val |-> val, state |-> "not"]]
  BY DEF NotifyTaken
<1>2. pc[k.cur] = "taken" /\ Leave(k.cur) /\ UNCHANGED k
  BY DEF NotifyTaken
<1>3. /\ k.cur \in Task /\ Ready(k, k.cur) /\ Moves(k, k, {}, {})
      /\ k.pended \in 0..program.held
  BY <1>2, Standing DEF Blocking
<1>4. \A u \in Task : note'[u].state = "waiting" => u # k.cur /\ note[u].state = "waiting"
  BY <1>1, <1>3 DEF KInv, Data
<1>5. /\ {} \in SUBSET Task /\ {} \cap freed = {} /\ {} \cap Ended(k) = {} /\ Confined({})
      /\ pc[k.cur] \notin Suspending /\ program' = program /\ freed' = freed
  BY <1>2, NoneConfined DEF Suspending
<1> QED
  BY <1>2, <1>3, <1>4, <1>5, CarriedLeave

LEMMA GiveCarries ==
  ASSUME KInv, xTaskGenericNotify(k.cur), UNCHANGED <<program, freed>>
  PROVE  Base' /\ Control' /\ Calm
<1>0. PICK c \in CallsNow(k.cur) :
        /\ c.fn = "give" /\ Here(k.cur, "give", c) /\ Alive(c.to)
        /\ note' = Notified(c.to)
        /\ k' = IF note[c.to].state = "waiting"
                THEN Switched(MakeReady(k, c.to), Prio[c.to] > Prio[k.cur]) ELSE k
        /\ Leave(k.cur)
  BY DEF xTaskGenericNotify
<1> DEFINE u == c.to
<1>1. pc[k.cur] = "run"
  BY <1>0, Standing DEF Here, Labels
<1>2. c \in program.calls[k.cur]
  BY <1>0, <1>1, CallNow
<1>3. /\ Placed(k.cur) /\ Sound(k) /\ k.cur \in Task /\ program \in Programs
      /\ Moves(k, k, {}, {}) /\ Ready(k, k.cur)
  BY <1>1, Standing DEF Blocking
<1>4. u \in Task
  BY <1>0, <1>2, <1>3, CallFacts
<1>5. Has(k, u) /\ u \notin Ended(k)
  BY <1>0 DEF Alive, Listed, Has, Ready, Sleepers, Ended
<1>6. Moves(k, k', {}, {}) /\ k'.pended = k.pended
  <2>1. CASE note[u].state = "waiting"
    <3> DEFINE r == MakeReady(k, u)
               above == Prio[u] > Prio[k.cur]
    <3>1. k' = Switched(r, above)
      BY <1>0, <2>1
    <3>2. ~Linked(k, u)
      BY <1>4, <2>1 DEF KInv, Control, Placed
    <3>3. Moves(k, r, {}, {}) /\ r.pended = k.pended
      BY <1>3, <1>4, <1>5, <3>2, NotifyMoves DEF SameClock
    <3> HIDE DEF r, above
    <3>4. Sound(r)
      BY <3>3 DEF Moves
    <3>5. Moves(r, k', {}, {}) /\ k'.pended = r.pended
      BY <3>1, <3>4, SwitchedMoves
    <3> QED
      BY <3>3, <3>5, Stopping
  <2>2. CASE note[u].state # "waiting"
    BY <1>0, <1>3, <2>2
  <2> QED
    BY <2>1, <2>2
<1>7. Ready(k', k'.cur)
  BY <1>3, <1>6 DEF Moves
<1>8. \A v \in Task : note'[v].state = "waiting" => v # k.cur /\ note[v].state = "waiting"
  <2>1. note[k.cur].state # "waiting"
    BY <1>1, <1>3 DEF Placed
  <2>2. \A v \in Task : note'[v].state = "waiting" => note[v].state = "waiting"
    BY <1>0, <1>4 DEF Notified, KInv, Data
  <2> QED
    BY <2>1, <2>2
<1>9. /\ {} \in SUBSET Task /\ {} \cap freed = {} /\ {} \cap Ended(k) = {} /\ Confined({})
      /\ pc[k.cur] \notin Suspending /\ program' = program /\ freed' = freed
  BY <1>1, NoneConfined DEF Suspending
<1> QED
  BY <1>0, <1>6, <1>7, <1>8, <1>9, StillHeld, CarriedLeave

-----------------------------------------------------------------------------
\* Event groups.

\* The current task comes to wait for bits.
LEMMA PlaceBitsMoves ==
  ASSUME NEW s, Sound(s), NEW ticks \in Ticks, s.cur # Idle, Ready(s, s.cur), ~Linked(s, s.cur)
  PROVE  LET r == vTaskPlaceOnUnorderedEventList(s, ticks)
         IN  /\ Moves(s, r, {s.cur}, {s.cur}) /\ r.cur = s.cur /\ r.pended = s.pended
             /\ \A n \in EventList : s.cur \in ToSet(r.event[n]) => n = forBits
             /\ Heeds(s, r)
             /\ OnTime(s) /\ ticks # 0 => SleepsFor(s, r, ticks)
<1> DEFINE e == Append(s.event[forBits], s.cur)
<1>1. /\ forBits \in EventList /\ forBits \in Lists /\ Tidy(s) /\ s \in Kernel
      /\ s.cur \in Task
  BY EventLists DEF Lists, Sound, Tidy, Kernel
<1>2. /\ s.event[forBits] \in Seq(Task) /\ IsInjective(s.event[forBits])
      /\ s.cur \notin ToSet(s.event[forBits])
  BY <1>1 DEF Tidy, Kernel, Linked
<1>3. e \in Seq(Task) /\ IsInjective(e) /\ ToSet(e) = ToSet(s.event[forBits]) \cup {s.cur}
  BY <1>1, <1>2, AppendEffect
<1>4. vTaskPlaceOnUnorderedEventList(s, ticks) = DelayCurrentTask(Put(s, forBits, e), ticks)
  BY DEF vTaskPlaceOnUnorderedEventList, Put
<1> HIDE DEF e
<1> DEFINE r == DelayCurrentTask(Put(s, forBits, e), ticks)
<1>5. /\ Moves(s, r, {s.cur}, {s.cur}) /\ r.cur = s.cur /\ r.pended = s.pended
      /\ \A n \in EventList : s.cur \in ToSet(r.event[n]) => n = forBits
      /\ Heeds(s, r) /\ (OnTime(s) /\ ticks # 0 => SleepsFor(s, r, ticks))
  <2>1. /\ Sound(s) /\ forBits \in EventList /\ e \in Seq(Task) /\ IsInjective(e)
        /\ ToSet(e) = ToSet(s.event[forBits]) \cup {s.cur} /\ ticks \in Ticks
        /\ s.cur # Idle /\ Ready(s, s.cur) /\ ~Linked(s, s.cur)
    BY <1>1, <1>3
  <2>2. /\ Moves(s, r, {s.cur}, {s.cur}) /\ r.cur = s.cur /\ r.pended = s.pended
        /\ \A n \in EventList : s.cur \in ToSet(r.event[n]) => n = forBits
        /\ Heeds(s, r)
        /\ OnTime(s) /\ (ticks # 0 \/ s.tick < TickMod - 1) => SleepsFor(s, r, ticks)
    BY ONLY <2>1, PlaceMoves
  <2> HIDE DEF r
  <2> QED
    BY <2>2
<1> QED
  BY <1>4, <1>5

LEMMA TakeOrPlaceCarries ==
  ASSUME KInv, UNCHANGED <<program, freed, note>>, pc[k.cur] = "bits",
         at[k.cur].call.fn \in {"waitbits", "sync"}, NEW s, KeptSame(k, 0, s),
         NEW g, NEW met \in BOOLEAN, TakeOrPlace(k.cur, s, g, at[k.cur].call, met)
  PROVE  Base' /\ Control' /\ Calm
<1> DEFINE t == k.cur
           c == at[t].call
           done == [at[t] EXCEPT !.onward = "return"]
           a == [at[t] EXCEPT !.onward = "blocked"]
<1>1. /\ at[t] \in LocalsType /\ Placed(t) /\ t \in Task /\ program \in Programs
      /\ Ready(k, t) /\ k.susp = 1
  BY Standing DEF Blocking, Suspending
<1>2. c \in program.calls[t] /\ ~Linked(k, t)
  BY <1>1 DEF Placed, Where, Quiet
<1>3. c.wait \in Ticks /\ t # Idle
  BY <1>1, <1>2, CallFacts
<1>4. Moves(k, s, {}, {}) /\ s.cur = t /\ s.pended = k.pended /\ Sound(s)
  BY DEF KeptSame, Moves
<1>5. Ready(s, t) /\ ~Linked(s, t)
  BY <1>1, <1>2, <1>4 DEF Moves
<1>6. /\ done \in LocalsType /\ done.onward = "return" /\ done.call = c
      /\ a \in LocalsType /\ a.onward = "blocked" /\ a.call = c
  BY <1>1 DEF LocalsType
<1>7. \/ k' = s /\ Goto(t, "resume", done)
      \/ k' = vTaskPlaceOnUnorderedEventList(s, c.wait) /\ Goto(t, "resume", a)
  <2>1. CASE met
    BY <2>1 DEF TakeOrPlace
  <2>2. CASE ~met /\ c.wait = 0
    BY <2>2 DEF TakeOrPlace
  <2>3. CASE ~met /\ c.wait > 0
    BY <2>3 DEF TakeOrPlace
  <2>4. c.wait = 0 \/ c.wait > 0
    BY <1>3, RtosAssumption DEF Ticks
  <2> QED
    BY <2>1, <2>2, <2>3, <2>4
<1> HIDE DEF a, done
<1>8. CASE k' = s /\ Goto(t, "resume", done)
  <2>1. /\ pc' = [pc EXCEPT ![t] = "resume"] /\ at' = [at EXCEPT ![t] = done]
        /\ Moves(k, k', {}, {}) /\ Ready(k', k'.cur) /\ k'.pended = k.pended
    BY <1>4, <1>5, <1>8 DEF Goto
  <2>2. /\ "resume" \in Labels /\ "resume" \in Suspending /\ "resume" \notin Quiet
        /\ pc[t] \in Suspending /\ pc[t] # "taken" /\ ~AtReap("resume", done)
        /\ Where(program.calls[t], "resume", done)
    BY <1>2, <1>6 DEF Labels, Suspending, Quiet, AtReap, Where
  <2> QED
    BY <1>6, <2>1, <2>2, StillHeld, CarriedPlain
<1>9. CASE k' = vTaskPlaceOnUnorderedEventList(s, c.wait) /\ Goto(t, "resume", a)
  <2>5. /\ Moves(s, k', {t}, {t}) /\ k'.cur = t /\ k'.pended = k.pended
        /\ \A n \in EventList : t \in ToSet(k'.event[n]) => pc[t] = Entering(n)
    <3> DEFINE r == vTaskPlaceOnUnorderedEventList(s, c.wait)
    <3>1. /\ Moves(s, r, {s.cur}, {s.cur}) /\ r.cur = s.cur /\ r.pended = s.pended
          /\ \A n \in EventList : s.cur \in ToSet(r.event[n]) => n = forBits
      BY <1>3, <1>4, <1>5, PlaceBitsMoves
    <3>2. k' = r
      BY <1>9
    <3> HIDE DEF r
    <3> QED
      BY <1>4, <3>1, <3>2 DEF Entering
  <2>6. Moves(k, k', {t}, {t})
    BY <1>4, <2>5, MovesOn
  <2>7. pc' = [pc EXCEPT ![t] = "resume"] /\ at' = [at EXCEPT ![t] = a]
    BY <1>9 DEF Goto
  <2> QED
    BY <1>6, <2>5, <2>6, <2>7, PlacedCarries
<1> QED
  BY <1>7, <1>8, <1>9

LEMMA Boolean ==
  ASSUME NEW bits, NEW c
  PROVE  prvTestWaitCondition(bits, c) \in BOOLEAN
BY DEF prvTestWaitCondition

LEMMA SetEffect ==
  ASSUME KInv, NEW set
  PROVE  KeptSame(k, 0, xEventGroupSetBits(k, group, set).k)
<1>1. PICK released : xEventGroupSetBits(k, group, set).k = Release(k, released)
  BY DEF xEventGroupSetBits
<1> QED
  BY <1>1, Standing, EventLists, ReleaseMoves

LEMMA WaitBitsCarries ==
  ASSUME KInv, xEventGroupWaitBits(k.cur), UNCHANGED <<program, freed, note>>
  PROVE  Base' /\ Control' /\ Calm
<1>1. KeptSame(k, 0, k)
  BY Standing, KeepsStill DEF KeptSame
<1> QED
  BY <1>1, Boolean, TakeOrPlaceCarries DEF xEventGroupWaitBits

LEMMA SyncCarries ==
  ASSUME KInv, xEventGroupSync(k.cur), UNCHANGED <<program, freed, note>>
  PROVE  Base' /\ Control' /\ Calm
<1> DEFINE c == at[k.cur].call
           r == xEventGroupSetBits(k, group, c.set)
<1>1. /\ pc[k.cur] = "bits" /\ c.fn = "sync"
      /\ TakeOrPlace(k.cur, r.k, r.g, c, c.want \subseteq group.bits \cup c.set)
  BY DEF xEventGroupSync
<1>2. KeptSame(k, 0, r.k)
  BY SetEffect
<1>3. (c.want \subseteq group.bits \cup c.set) \in BOOLEAN
  OBVIOUS
<1> HIDE DEF r
<1> QED
  BY <1>1, <1>2, <1>3, TakeOrPlaceCarries

LEMMA SetBitsCarries ==
  ASSUME KInv, SetBits(k.cur), UNCHANGED <<program, freed, note>>
  PROVE  Base' /\ Control' /\ Calm
<1>1. /\ pc[k.cur] = "bits" /\ Goto(k.cur, "resume", at[k.cur])
      /\ k' = xEventGroupSetBits(k, group, at[k.cur].call.set).k
  BY DEF SetBits
<1>2. KeptSame(k, 0, k')
  BY <1>1, SetEffect
<1>3. /\ at[k.cur] \in LocalsType /\ Placed(k.cur) /\ k.cur \in Task /\ Ready(k, k.cur)
  BY <1>1, Standing DEF Blocking
<1>4. Moves(k, k', {}, {}) /\ Ready(k', k'.cur) /\ k'.pended = k.pended
  BY <1>2, <1>3 DEF KeptSame, Moves
<1>5. /\ at[k.cur].call \in program.calls[k.cur] /\ at[k.cur].onward # "reap"
      /\ at[k.cur].onward \in {"begin", "create"} => at[k.cur].call.fn = "create"
  BY <1>1, <1>3 DEF Placed, Where
<1>6. /\ "resume" \in Labels /\ "resume" \in Suspending /\ "resume" \notin Quiet
      /\ pc[k.cur] \in Suspending /\ pc[k.cur] # "taken" /\ ~AtReap("resume", at[k.cur])
      /\ Where(program.calls[k.cur], "resume", at[k.cur])
      /\ pc' = [pc EXCEPT ![k.cur] = "resume"] /\ at' = [at EXCEPT ![k.cur] = at[k.cur]]
  BY <1>1, <1>5 DEF Labels, Suspending, Quiet, AtReap, Where, Goto
<1> QED
  BY <1>3, <1>4, <1>6, StillHeld, CarriedPlain

\* A step that leaves the call and the scheduler as it is.
LEMMA LeavingCarries ==
  ASSUME KInv, Leave(k.cur), UNCHANGED <<k, program, freed, note>>,
         pc[k.cur] \in {"run", "bitsback"}
  PROVE  Base' /\ Control' /\ Calm
<1>1. PICK a \in LocalsType :
        /\ pc' = [pc EXCEPT ![k.cur] = "run"] /\ at' = [at EXCEPT ![k.cur] = a]
        /\ Where(program.calls[k.cur], "run", a)
  BY Leaves
<1>2. /\ "run" \in Labels /\ "run" \notin Suspending /\ "run" \notin Quiet /\ ~AtReap("run", a)
      /\ pc[k.cur] \notin Suspending /\ pc[k.cur] # "taken" /\ ~Blocking(pc[k.cur], at[k.cur])
  BY DEF Labels, Suspending, Quiet, AtReap, Blocking
<1> QED
  BY <1>1, <1>2, CarriedStill

LEMMA ClearBitsCarries ==
  ASSUME KInv, xEventGroupClearBits(k.cur), UNCHANGED <<program, freed, note>>
  PROVE  Base' /\ Control' /\ Calm
<1>1. pc[k.cur] = "run" /\ Leave(k.cur) /\ UNCHANGED k
  BY Standing DEF xEventGroupClearBits, Here, Labels
<1> QED
  BY <1>1, LeavingCarries

LEMMA WaitOverCarries ==
  ASSUME KInv, WaitOver(k.cur), UNCHANGED <<program, freed, note>>
  PROVE  Base' /\ Control' /\ Calm
<1>1. pc[k.cur] = "bitsback" /\ Leave(k.cur) /\ UNCHANGED k
  BY DEF WaitOver
<1> QED
  BY <1>1, LeavingCarries

-----------------------------------------------------------------------------
\* The idle task reaps.

LEMMA IsEmptyCarries ==
  ASSUME KInv, xListIsEmpty(k.cur), UNCHANGED <<program, note>>
  PROVE  Base' /\ Control' /\ Calm
<1> DEFINE t == k.cur
           a == [at[t] EXCEPT !.onward = IF k.ended = <<>> THEN "return" ELSE "reap"]
<1>1. pc[t] = "isempty" /\ UNCHANGED <<k, freed>> /\ Goto(t, "resume", a)
  BY DEF xListIsEmpty
<1>2. /\ at[t] \in LocalsType /\ Placed(t) /\ t \in Task /\ program \in Programs /\ k \in Kernel
  BY Standing
<1>3. at[t].call \in program.calls[t] /\ at[t].call.fn = "idle"
  BY <1>1, <1>2 DEF Placed, Where
<1>4. t = Idle
  BY <1>2, <1>3, CallFacts
<1>5. /\ a \in LocalsType /\ a.call = at[t].call /\ a.onward \in {"return", "reap"}
      /\ a.onward = "reap" => k.ended # <<>>
  BY <1>2 DEF LocalsType
<1>6. pc' = [pc EXCEPT ![t] = "resume"] /\ at' = [at EXCEPT ![t] = a]
  BY <1>1 DEF Goto
<1> HIDE DEF a
<1>7. AtReap("resume", a) => t = Idle /\ Ended(k) # {}
  <2>1. k.ended \in Seq(Task)
    BY <1>2 DEF Kernel
  <2> QED
    BY <1>4, <1>5, <2>1, EmptyList DEF AtReap, Ended
<1>8. /\ "resume" \in Labels /\ "resume" \in Suspending /\ "resume" \notin Quiet
      /\ pc[t] \in Suspending /\ pc[t] # "taken" /\ ~Blocking(pc[t], at[t])
      /\ Where(program.calls[t], "resume", a)
  BY <1>1, <1>3, <1>5 DEF Labels, Suspending, Quiet, Blocking, Where
<1> QED
  BY <1>1, <1>5, <1>6, <1>7, <1>8, CarriedStill

LEMMA ReapCarries ==
  ASSUME KInv, ReapTask(k.cur), UNCHANGED <<program, note>>
  PROVE  Base' /\ Control' /\ Calm
<1> DEFINE t == k.cur
           h == Head(k.ended)
<1>1. /\ pc[t] = "reap" /\ k' = [k EXCEPT !.ended = Tail(k.ended)]
      /\ freed' = freed \cup {h} /\ Leave(t)
  BY DEF ReapTask
<1>2. /\ at[t] \in LocalsType /\ Placed(t) /\ t \in Task /\ program \in Programs /\ k \in Kernel
      /\ Sound(k) /\ Tidy(k) /\ k.susp = 0
  BY <1>1, Standing DEF Suspending
<1>3. t = Idle /\ Ended(k) # {}
  BY <1>1, <1>2 DEF Placed, AtReap
<1>4. /\ h \in Ended(k) /\ Tail(k.ended) \in Seq(Task) /\ IsInjective(Tail(k.ended))
      /\ ToSet(Tail(k.ended)) = Ended(k) \ {h}
  <2>1. k.ended \in Seq(Task) /\ IsInjective(k.ended)
    BY <1>2 DEF Tidy, Kernel
  <2>2. k.ended # <<>>
    BY <1>3, <2>1, EmptyList DEF Ended
  <2> QED
    BY <2>1, <2>2, TailEffect DEF Ended
<1>5. h \in Task
  BY <1>2, <1>4 DEF Ended, Kernel, ToSet
<1>6. /\ k' \in Kernel /\ k'.cur = t /\ k'.ready = k.ready /\ k'.top = k.top
      /\ k'.delayed = k.delayed /\ k'.overflow = k.overflow /\ k'.ended = Tail(k.ended)
      /\ k'.event = k.event /\ k'.susp = 0 /\ k'.pended = k.pended
  BY <1>1, <1>2, <1>4 DEF Kernel
<1>7. /\ \A u : (Ready(k', u) <=> Ready(k, u)) /\ (Linked(k', u) <=> Linked(k, u))
      /\ Sleepers(k') = Sleepers(k) /\ Ended(k') = Ended(k) \ {h}
  BY <1>4, <1>6 DEF Ready, Linked, Sleepers, Ended
<1>8. Sound(k')
  <2>1. Tidy(k')
    BY <1>2, <1>4, <1>6, <1>7 DEF Tidy
  <2> QED
    BY <1>2, <1>6, <1>7, <2>1 DEF Sound
<1>9. Ready(k, t)
  BY <1>2, <1>3 DEF Sound
<1>10. PICK a \in LocalsType :
         /\ pc' = [pc EXCEPT ![t] = "run"] /\ at' = [at EXCEPT ![t] = a]
         /\ Where(program.calls[t], "run", a)
  BY <1>1, Leaves
<1>11. pc \in [Task -> Labels] /\ at \in [Task -> LocalsType] /\ freed \subseteq Task
  BY DEF KInv, Base
<1>12. /\ \A u \in Task : u # t => pc'[u] = pc[u] /\ at'[u] = at[u]
       /\ pc'[t] = "run" /\ at'[t] = a
  BY <1>2, <1>10, <1>11
<1>13. SuspendExcludes'
  <2>1. \A u \in Task : pc[u] \notin Suspending
    BY <1>1, <1>2 DEF KInv, Control, SuspendExcludes, Suspending
  <2>2. \A u \in Task : pc'[u] \notin Suspending
    BY <1>12, <2>1 DEF Suspending
  <2> QED
    BY <1>6, <2>2 DEF SuspendExcludes
<1>14. ASSUME NEW u \in Task PROVE Placed(u)'
  <2>0. Placed(u)
    BY DEF KInv, Control
  <2>1. pc'[u] \in Quiet => ~Linked(k', u)
    BY <1>7, <1>12, <2>0 DEF Placed, Quiet
  <2>2. note'[u].state = "waiting" => pc'[u] = "taken" /\ ~Linked(k', u)
    BY <1>1, <1>2, <1>7, <1>12, <2>0 DEF Placed
  <2>3. u \in freed' => u # k'.cur /\ ~Has(k', u)
    <3>1. CASE u \in freed
      BY <1>6, <1>7, <2>0, <3>1 DEF Placed, Has
    <3>2. CASE u = h
      <4>1. u # t
        BY <1>2, <1>4, <1>9, <3>2 DEF Tidy
      <4>2. u \notin Sleepers(k) /\ ~Ready(k, u)
        BY <1>2, <1>4, <3>2 DEF Tidy
      <4> QED
        BY <1>6, <1>7, <3>2, <4>1, <4>2 DEF Has
    <3> QED
      BY <1>1, <3>1, <3>2
  <2>4. AtReap(pc'[u], at'[u]) => u = Idle /\ Ended(k') # {}
    <3>1. CASE u = t
      BY <1>12, <3>1 DEF AtReap
    <3>2. CASE u # t
      BY <1>3, <1>12, <2>0, <3>2 DEF Placed
    <3> QED
      BY <3>1, <3>2
  <2>5. Where(program'.calls[u], pc'[u], at'[u])
    <3>1. CASE u = t
      BY <1>10, <1>12, <3>1
    <3>2. CASE u # t
      BY <1>12, <2>0, <3>2 DEF Placed
    <3> QED
      BY <3>1, <3>2
  <2> QED
    BY <2>1, <2>2, <2>3, <2>4, <2>5 DEF Placed
<1>15. Control'
  <2>1. Ready(k', k'.cur)
    BY <1>6, <1>7, <1>9
  <2>2. k'.event["pending"] = <<>>
    BY <1>2, <1>6 DEF KInv, Control
  <2> QED
    BY <1>8, <1>13, <1>14, <2>1, <2>2 DEF Control
<1>16. Base'
  <2>1. "run" \in Labels
    BY DEF Labels
  <2> QED
    BY <1>1, <1>2, <1>5, <1>6, <1>10, <1>11, <2>1 DEF KInv, Base
<1>17. Calm
  BY <1>6, <1>7, <1>12 DEF Calm
<1> QED
  BY <1>15, <1>16, <1>17

-----------------------------------------------------------------------------
\* Interrupts.

LEMMA TickCarries ==
  ASSUME KInv, Tick, UNCHANGED <<program, note, pc, at, freed>>
  PROVE  Base' /\ Control' /\ Calm
<1> DEFINE r == xTaskIncrementTick(k)
<1>1. (k.susp = 0 \/ k.pended < program.held) /\ k' = Switched(r.k, r.switch)
  BY DEF Tick
<1>2. /\ Sound(k) /\ k.susp \in {0, 1} /\ k.pended \in 0..program.held /\ program \in Programs
  BY Standing
<1>3. /\ Moves(k, r.k, {}, {})
      /\ r.k.pended = IF k.susp = 0 THEN k.pended ELSE k.pended + 1
  BY <1>2, TickMoves
<1> HIDE DEF r
<1>4. Sound(r.k)
  BY <1>3 DEF Moves
<1>5. Moves(r.k, k', {}, {}) /\ k'.pended = r.k.pended
  BY <1>1, <1>4, SwitchedMoves
<1>6. Moves(k, k', {}, {})
  BY <1>3, <1>5, Stopping
<1>7. k'.pended \in 0..program.held
  <2>1. program.held \in 1..127
    BY <1>2, CallsAssumption
  <2>2. k'.pended = k.pended \/ (k'.pended = k.pended + 1 /\ k.pended < program.held)
    BY <1>1, <1>3, <1>5
  <2> QED
    BY <1>2, <2>1, <2>2
<1>8. /\ {} \in SUBSET Task
      /\ \A u \in Task : note'[u].state = "waiting" => note[u].state = "waiting"
  OBVIOUS
<1> QED
  BY <1>6, <1>7, <1>8, CarriedInterrupt

LEMMA FromISRCarries ==
  ASSUME KInv, xQueueGenericSendFromISR \/ xQueueReceiveFromISR,
         UNCHANGED <<program, note, pc, at, freed>>
  PROVE  Base' /\ Control' /\ Calm
<1>1. Sound(k) /\ Moves(k, k, {}, {}) /\ k.pended \in 0..program.held
  BY Standing
<1>2. \E l \in EventList : k' = k \/ (k.event[l] # <<>> /\ k' = xTaskRemoveFromEventList(k, l).k)
  BY EventLists DEF xQueueGenericSendFromISR, xQueueReceiveFromISR, WakeOrCount
<1>3. Moves(k, k', {}, {}) /\ k'.pended = k.pended
  BY <1>1, <1>2, RemoveFromMoves
<1>4. /\ {} \in SUBSET Task
      /\ \A u \in Task : note'[u].state = "waiting" => note[u].state = "waiting"
  OBVIOUS
<1> QED
  BY <1>3, <1>4, StillHeld, CarriedInterrupt

LEMMA GiveFromISRCarries ==
  ASSUME KInv, NEW u \in Task, vTaskNotifyGiveFromISR(u), UNCHANGED <<program, pc, at, freed>>
  PROVE  Base' /\ Control' /\ Calm
<1>1. Alive(u) /\ note' = Notified(u) /\ k' = GiveTo(u)
  BY DEF vTaskNotifyGiveFromISR
<1>2. Sound(k) /\ Moves(k, k, {}, {}) /\ Placed(u)
  BY Standing DEF KInv, Control
<1>3. Has(k, u) /\ u \notin Ended(k)
  BY <1>1 DEF Alive, Listed, Has, Ready, Sleepers, Ended
<1>4. /\ \A v \in Task : note'[v].state = "waiting" => note[v].state = "waiting"
      /\ note'[u].state # "waiting"
  BY <1>1 DEF Notified, KInv, Data
<1>5. CASE note[u].state # "waiting" \/ k.susp = 0
  <2>1. Moves(k, k', {}, {}) /\ k'.pended = k.pended
    <3>1. CASE note[u].state # "waiting"
      BY <1>1, <1>2, <3>1 DEF GiveTo
    <3>2. CASE note[u].state = "waiting" /\ k.susp = 0
      <4>1. k' = MakeReady(k, u)
        BY <1>1, <3>2 DEF GiveTo
      <4>2. ~Linked(k, u)
        BY <1>2, <3>2 DEF Placed
      <4> QED
        BY <1>2, <1>3, <4>1, <4>2, NotifyMoves DEF SameClock
    <3> QED
      BY <1>5, <3>1, <3>2
  <2>2. {} \in SUBSET Task
    OBVIOUS
  <2> QED
    BY <1>4, <2>1, <2>2, StillHeld, CarriedInterrupt
<1>6. CASE note[u].state = "waiting" /\ k.susp # 0
  <2>1. k' = [k EXCEPT !.event["pending"] = Append(@, u)]
    BY <1>1, <1>6 DEF GiveTo
  <2>2. ~Linked(k, u) /\ pc[u] \notin Quiet
    BY <1>2, <1>6 DEF Placed, Quiet
  <2>3. Ready(k, u) \/ u \in Sleepers(k)
    BY <1>3 DEF Has
  <2>4. Moves(k, k', {}, {u}) /\ k'.pended = k.pended
    BY <1>2, <1>6, <2>1, <2>2, <2>3, PendMoves DEF SameClock
  <2>5. {u} \in SUBSET Task /\ \A v \in {u} : pc[v] \notin Quiet /\ note'[v].state # "waiting"
    BY <1>4, <2>2
  <2> QED
    BY <1>4, <2>4, <2>5, StillHeld, CarriedInterrupt
<1> QED
  BY <1>5, <1>6

\* Every step carries Base and Control.
LEMMA StepCarries ==
  ASSUME KInv, Step(k.cur) \/ Interrupt, UNCHANGED program
  PROVE  Base' /\ Control' /\ Calm
<1>1. CASE /\ \/ BeginSuspended(k.cur) \/ vTaskSuspendAll(k.cur) \/ ResumeAll(k.cur)
              \/ Yield(k.cur) \/ vTaskDelay(k.cur) \/ vTaskDelayZero(k.cur)
              \/ vTaskDelayUntil(k.cur) \/ vTaskDelete(k.cur) \/ ResetTime(k.cur)
              \/ CreateTask(k.cur) \/ IdleYields(k.cur)
           /\ UNCHANGED <<q, note, group, freed>>
  BY <1>1, BeginSuspendedCarries, SuspendAllCarries, ResumeAllCarries, YieldCarries,
     DelayCarries, DelayZeroCarries, DelayUntilCarries, DeleteCarries, ResetTimeCarries,
     CreateCarries, IdleYieldsCarries
<1>2. CASE /\ \/ xQueueGenericSend(k.cur) \/ xQueueGenericReceive(k.cur) \/ prvLockQueue(k.cur)
              \/ CheckForTimeOut(k.cur) \/ CheckQueue(k.cur) \/ PlaceOnEventList(k.cur)
              \/ prvUnlockQueue(k.cur) \/ xQueueGenericReset(k.cur)
           /\ UNCHANGED <<note, group, freed>>
  BY <1>2, SendCarries, ReceiveCarries, LockCarries, TimeOutCarries, CheckCarries,
     PlaceCarries, UnlockCarries, ResetCarries
<1>3. CASE /\ \/ NotifyTakeOrWait(k.cur) \/ NotifyTaken(k.cur) \/ xTaskGenericNotify(k.cur)
           /\ UNCHANGED <<q, group, freed>>
  BY <1>3, TakeOrWaitCarries, TakenCarries, GiveCarries
<1>4. CASE /\ \/ xEventGroupWaitBits(k.cur) \/ xEventGroupSync(k.cur) \/ SetBits(k.cur)
              \/ xEventGroupClearBits(k.cur) \/ WaitOver(k.cur)
           /\ UNCHANGED <<q, note, freed>>
  BY <1>4, WaitBitsCarries, SyncCarries, SetBitsCarries, ClearBitsCarries, WaitOverCarries
<1>5. CASE (xListIsEmpty(k.cur) \/ ReapTask(k.cur)) /\ UNCHANGED <<q, note, group>>
  BY <1>5, IsEmptyCarries, ReapCarries
<1>6. CASE Interrupt
  BY <1>6, TickCarries, FromISRCarries, GiveFromISRCarries DEF Interrupt
<1> QED
  BY <1>1, <1>2, <1>3, <1>4, <1>5, <1>6 DEF Step

-----------------------------------------------------------------------------
\* The queue, the notifications and the event group keep their types.

QueueType == [n : 0..uxLength, rx : -1..127, tx : -1..127]
NoteType == [val : 0..program.held, state : {"not", "waiting", "notified"}]
GroupType == [bits : SUBSET Bits, item : [Task -> ItemType]]

LEMMA QueueTyped ==
  ASSUME KInv, Step(k.cur) \/ Interrupt
  PROVE  q' \in QueueType
<1>1. /\ q \in QueueType /\ q.n \in 0..uxLength /\ q.rx \in -1..127 /\ q.tx \in -1..127
      /\ program \in Programs
  BY DEF KInv, Base, Data, QueueType
<1>2. uxLength \in 1..127 /\ program.held \in 1..127
  BY <1>1, CallsAssumption
<1>3. prvCopyDataToQueue(q.n) \in 0..uxLength
  BY <1>1, <1>2, MinOfTwo DEF prvCopyDataToQueue
<1>4. /\ q.tx < program.held => Counted(q.tx) \in -1..127
      /\ q.rx < program.held => Counted(q.rx) \in -1..127
  BY <1>1, <1>2 DEF Counted, queueUNLOCKED
<1>5. q.n > 0 => q.n - 1 \in 0..uxLength
  BY <1>1, <1>2
<1>6. ASSUME NEW n \in 0..uxLength, NEW rx \in -1..127, NEW tx \in -1..127
      PROVE  /\ [q EXCEPT !.n = n] \in QueueType
             /\ [q EXCEPT !.rx = rx, !.tx = tx] \in QueueType
             /\ [q EXCEPT !.rx = rx] \in QueueType /\ [q EXCEPT !.tx = tx] \in QueueType
             /\ [q EXCEPT !.n = n, !.tx = tx] \in QueueType
             /\ [q EXCEPT !.n = n, !.rx = rx] \in QueueType
             /\ [n |-> n, rx |-> rx, tx |-> tx] \in QueueType
  BY <1>1 DEF QueueType
<1>7. ASSUME xQueueGenericSend(k.cur) PROVE q' \in QueueType
  <2>1. q' = [q EXCEPT !.n = prvCopyDataToQueue(q.n)] \/ q' = q
    BY <1>7 DEF xQueueGenericSend, Refused
  <2> QED
    BY <1>1, <1>3, <1>6, <2>1, Zenon
<1>8. ASSUME xQueueGenericReceive(k.cur) PROVE q' \in QueueType
  <2>1. (q.n > 0 /\ q' = [q EXCEPT !.n = q.n - 1]) \/ q' = q
    BY <1>8 DEF xQueueGenericReceive, Refused
  <2> QED
    BY <1>1, <1>5, <1>6, <2>1, Zenon
<1>9. ASSUME prvLockQueue(k.cur) PROVE q' \in QueueType
  <2>1. PICK rx, tx : /\ q' = [q EXCEPT !.rx = rx, !.tx = tx]
                      /\ rx = q.rx \/ rx = queueLOCKED_UNMODIFIED
                      /\ tx = q.tx \/ tx = queueLOCKED_UNMODIFIED
    <3> DEFINE lock(l) == IF l = queueUNLOCKED THEN queueLOCKED_UNMODIFIED ELSE l
    <3>1. q' = [q EXCEPT !.rx = lock(q.rx), !.tx = lock(q.tx)]
      BY <1>9 DEF prvLockQueue
    <3>2. \A l : lock(l) = l \/ lock(l) = queueLOCKED_UNMODIFIED
      OBVIOUS
    <3> HIDE DEF lock
    <3> QED
      BY <3>1, <3>2
  <2>2. rx \in -1..127 /\ tx \in -1..127
    BY <1>1, <2>1 DEF queueLOCKED_UNMODIFIED
  <2>3. [q EXCEPT !.rx = rx, !.tx = tx] \in QueueType
    BY <1>1, <1>6, <2>2, Zenon
  <2> QED
    BY <2>1, <2>3
<1>10. ASSUME prvUnlockQueue(k.cur) PROVE q' \in QueueType
  <2>1. q' = [q EXCEPT !.tx = -1] \/ q' = [q EXCEPT !.rx = -1]
    BY <1>10 DEF prvUnlockQueue, queueUNLOCKED
  <2>2. -1 \in -1..127
    OBVIOUS
  <2>3. [q EXCEPT !.tx = -1] \in QueueType /\ [q EXCEPT !.rx = -1] \in QueueType
    BY <1>1, <1>6, <2>2, Zenon
  <2> QED
    BY <2>1, <2>3
<1>11. ASSUME xQueueGenericReset(k.cur) PROVE q' \in QueueType
  <2>1. q' = [n |-> 0, rx |-> -1, tx |-> -1]
    BY <1>11 DEF xQueueGenericReset, queueUNLOCKED
  <2>2. -1 \in -1..127 /\ 0 \in 0..uxLength
    BY <1>2
  <2> QED
    BY <1>6, <2>1, <2>2, Zenon
<1>12. ASSUME xQueueGenericSendFromISR PROVE q' \in QueueType
  <2>1. /\ q' = [q EXCEPT !.n = prvCopyDataToQueue(q.n), !.tx = Counted(q.tx)]
        /\ q.tx < program.held
    BY <1>12 DEF xQueueGenericSendFromISR
  <2> QED
    BY <1>1, <1>3, <1>4, <1>6, <2>1, Zenon
<1>13. ASSUME xQueueReceiveFromISR PROVE q' \in QueueType
  <2>1. /\ q' = [q EXCEPT !.n = q.n - 1, !.rx = Counted(q.rx)]
        /\ q.rx < program.held /\ q.n > 0
    BY <1>13 DEF xQueueReceiveFromISR
  <2> QED
    BY <1>1, <1>4, <1>5, <1>6, <2>1, Zenon
<1>14. \/ UNCHANGED q
       \/ xQueueGenericSend(k.cur) \/ xQueueGenericReceive(k.cur) \/ prvLockQueue(k.cur)
       \/ CheckForTimeOut(k.cur) \/ CheckQueue(k.cur) \/ PlaceOnEventList(k.cur)
       \/ prvUnlockQueue(k.cur) \/ xQueueGenericReset(k.cur)
       \/ xQueueGenericSendFromISR \/ xQueueReceiveFromISR
  BY DEF Step, Interrupt
<1>15. CheckForTimeOut(k.cur) \/ CheckQueue(k.cur) \/ PlaceOnEventList(k.cur) => UNCHANGED q
  BY DEF CheckForTimeOut, CheckQueue, PlaceOnEventList
<1> QED
  BY <1>1, <1>7, <1>8, <1>9, <1>10, <1>11, <1>12, <1>13, <1>14, <1>15

LEMMA NoteTyped ==
  ASSUME KInv, Step(k.cur) \/ Interrupt
  PROVE  note' \in [Task -> NoteType]
<1>1. /\ note \in [Task -> NoteType] /\ program \in Programs /\ k.cur \in Task
  BY Standing DEF KInv, Data, NoteType
<1>2. program.held \in 1..127
  BY <1>1, CallsAssumption
<1>3. ASSUME NotifyTakeOrWait(k.cur) PROVE note' \in [Task -> NoteType]
  <2>1. note' = note \/ note' = [note EXCEPT ![k.cur].state = "waiting"]
    BY <1>3 DEF NotifyTakeOrWait
  <2> QED
    BY <1>1, <2>1 DEF NoteType
<1>4. ASSUME NotifyTaken(k.cur) PROVE note' \in [Task -> NoteType]
  <2> DEFINE v == note[k.cur].val
  <2>1. v \in 0..program.held
    BY <1>1 DEF NoteType
  <2>2. Max({v - 1, 0}) \in 0..program.held
    <3>1. CASE v = 0
      <4>1. {v - 1, 0} = {-1, 0} /\ \A x \in {-1, 0} : 0 >= x
        BY <3>1
      <4>2. Max({-1, 0}) \in {-1, 0} /\ \A x \in {-1, 0} : Max({-1, 0}) >= x
        BY <4>1 DEF Max
      <4> QED
        BY <1>2, <4>1, <4>2
    <3>2. CASE v # 0
      <4>1. v - 1 \in Nat /\ v - 1 \in 0..program.held /\ 0 \in 0..program.held
        BY <1>2, <2>1, <3>2
      <4> QED
        BY <4>1, MaxOfTwo
    <3> QED
      BY <3>1, <3>2
  <2>3. PICK val \in 0..program.held :
          note' = [note EXCEPT ![k.cur] = [val |-> val, state |-> "not"]]
    <3>1. 0 \in 0..program.held
      BY <1>2
    <3> DEFINE val == IF at[k.cur].call.fn = "take" THEN Max({v - 1, 0})
                      ELSE IF note[k.cur].state = "waiting" THEN v ELSE 0
    <3>2. note' = [note EXCEPT ![k.cur] = [val |-> val, state |-> "not"]]
      BY <1>4 DEF NotifyTaken
    <3>3. val \in 0..program.held
      BY <2>1, <2>2, <3>1
    <3> QED
      BY <3>2, <3>3
  <2> QED
    BY <1>1, <2>3 DEF NoteType
<1>5. ASSUME NEW u, note[u].val < program.held, note' = Notified(u)
      PROVE  note' \in [Task -> NoteType]
  <2>1. CASE u \in Task
    <3>1. note[u].val + 1 \in 0..program.held
      BY <1>1, <1>2, <1>5, <2>1 DEF NoteType
    <3> QED
      BY <1>1, <1>5, <2>1, <3>1 DEF NoteType, Notified
  <2>2. CASE u \notin Task
    BY <1>1, <1>5, <2>2 DEF Notified
  <2> QED
    BY <2>1, <2>2
<1>6. ASSUME xTaskGenericNotify(k.cur) PROVE note' \in [Task -> NoteType]
  BY <1>5, <1>6 DEF xTaskGenericNotify
<1>7. ASSUME NEW u \in Task, vTaskNotifyGiveFromISR(u) PROVE note' \in [Task -> NoteType]
  BY <1>5, <1>7 DEF vTaskNotifyGiveFromISR
<1>8. \/ UNCHANGED note
      \/ NotifyTakeOrWait(k.cur) \/ NotifyTaken(k.cur) \/ xTaskGenericNotify(k.cur)
      \/ \E u \in Task : vTaskNotifyGiveFromISR(u)
  BY DEF Step, Interrupt
<1> QED
  BY <1>1, <1>3, <1>4, <1>6, <1>7, <1>8

\* The bits of the calls are bits of the group.
LEMMA CallBits ==
  ASSUME NEW p \in Programs, NEW t \in Task, NEW c \in p.calls[t]
  PROVE  /\ c.fn \in {"sync", "setbits", "clearbits"} => c.set \subseteq Bits
         /\ c.fn \in {"waitbits", "sync"} => Waiting(c) \in ItemType
<1>1. c.fn \in {"sync", "setbits", "clearbits"} => c.set \subseteq Bits
  BY ProgramsAssumption
<1>2. c.fn \in {"waitbits", "sync"} => c.want \subseteq Bits /\ {c.all, c.clear} \subseteq BOOLEAN
  BY ProgramsAssumption
<1>3. c.fn \in {"waitbits", "sync"} => Waiting(c) \in ItemType
  BY <1>2 DEF Waiting, ItemType
<1> QED
  BY <1>1, <1>3

LEMMA SetTyped ==
  ASSUME group \in GroupType, NEW set \in SUBSET Bits
  PROVE  xEventGroupSetBits(k, group, set).g \in GroupType
<1> DEFINE bits == group.bits \cup set
<1>1. PICK released, cleared :
        xEventGroupSetBits(k, group, set).g =
          [bits |-> bits \ cleared,
           item |-> [t \in Task |-> IF t \notin released THEN group.item[t]
                                    ELSE [group.item[t] EXCEPT !.unblocked = TRUE, !.by = bits]]]
  BY DEF xEventGroupSetBits
<1>2. bits \in SUBSET Bits /\ group.item \in [Task -> ItemType]
  BY DEF GroupType
<1> HIDE DEF bits
<1>3. \A t \in Task : [group.item[t] EXCEPT !.unblocked = TRUE, !.by = bits] \in ItemType
  BY <1>2 DEF ItemType
<1> DEFINE item == [t \in Task |-> IF t \notin released THEN group.item[t]
                                 ELSE [group.item[t] EXCEPT !.unblocked = TRUE, !.by = bits]]
<1>4. item \in [Task -> ItemType]
  BY <1>2, <1>3
<1>5. bits \ cleared \in SUBSET Bits
  BY <1>2
<1>6. xEventGroupSetBits(k, group, set).g = [bits |-> bits \ cleared, item |-> item]
  BY <1>1 DEF bits
<1> HIDE DEF item
<1> QED
  BY <1>4, <1>5, <1>6 DEF GroupType

LEMMA TakeOrPlaceTyped ==
  ASSUME NEW t \in Task, NEW s, NEW g \in GroupType, NEW c, NEW met, Waiting(c) \in ItemType,
         TakeOrPlace(t, s, g, c, met), met \in BOOLEAN, c.wait \in Ticks
  PROVE  group' \in GroupType
<1> DEFINE bits == IF c.clear THEN g.bits \ c.want ELSE g.bits
           took == [g EXCEPT !.bits = bits]
           waits == [g EXCEPT !.item[t] = Waiting(c)]
           back(b) == [at[t] EXCEPT !.onward = b]
<1>1. (CASE met ->
              /\ k' = s
              /\ group' = took
              /\ Goto(t, "resume", back("return"))
         [] ~met /\ c.wait = 0 ->
              k' = s /\ group' = g /\ Goto(t, "resume", back("return"))
         [] ~met /\ c.wait > 0 ->
              /\ k' = vTaskPlaceOnUnorderedEventList(s, c.wait)
              /\ group' = waits
              /\ Goto(t, "resume", back("blocked")))
  BY DEF TakeOrPlace
<1>2. took \in GroupType
  <2>1. bits \in SUBSET g.bits
    OBVIOUS
  <2> HIDE DEF bits
  <2> QED
    BY <2>1 DEF GroupType
<1>3. waits \in GroupType
  BY DEF GroupType
<1>4. c.wait = 0 \/ c.wait > 0
  BY RtosAssumption DEF Ticks
<1> HIDE DEF took, waits, back
<1>5. group' = took \/ group' = g \/ group' = waits
  <2>1. CASE met
    BY <1>1, <2>1
  <2>2. CASE ~met /\ c.wait = 0
    BY <1>1, <2>2
  <2>3. CASE ~met /\ c.wait > 0
    BY <1>1, <2>3
  <2> QED
    BY <1>4, <2>1, <2>2, <2>3
<1> QED
  BY <1>2, <1>3, <1>5

LEMMA GroupTyped ==
  ASSUME KInv, Step(k.cur) \/ Interrupt
  PROVE  group' \in GroupType
<1>1. /\ group \in GroupType /\ program \in Programs /\ k.cur \in Task /\ Placed(k.cur)
  BY Standing DEF KInv, Data, GroupType
<1> DEFINE c == at[k.cur].call
<1>2. pc[k.cur] = "bits" => c \in program.calls[k.cur] /\ c.wait \in Ticks
  BY <1>1, CallFacts DEF Placed, Where
<1>3. ASSUME xEventGroupWaitBits(k.cur) PROVE group' \in GroupType
  <2>1. /\ pc[k.cur] = "bits" /\ c.fn = "waitbits"
        /\ TakeOrPlace(k.cur, k, group, c, prvTestWaitCondition(group.bits, c))
    BY <1>3 DEF xEventGroupWaitBits
  <2>2. Waiting(c) \in ItemType /\ prvTestWaitCondition(group.bits, c) \in BOOLEAN
    BY <1>1, <1>2, <2>1, CallBits, Boolean
  <2> QED
    BY <1>1, <1>2, <2>1, <2>2, TakeOrPlaceTyped
<1>4. ASSUME xEventGroupSync(k.cur) PROVE group' \in GroupType
  <2> DEFINE r == xEventGroupSetBits(k, group, c.set)
  <2>1. /\ pc[k.cur] = "bits" /\ c.fn = "sync"
        /\ TakeOrPlace(k.cur, r.k, r.g, c, c.want \subseteq group.bits \cup c.set)
    BY <1>4 DEF xEventGroupSync
  <2>2. Waiting(c) \in ItemType /\ c.set \subseteq Bits
    BY <1>1, <1>2, <2>1, CallBits
  <2>3. r.g \in GroupType
    BY <1>1, <2>2, SetTyped
  <2> HIDE DEF r
  <2>4. (c.want \subseteq group.bits \cup c.set) \in BOOLEAN
    OBVIOUS
  <2> QED
    BY <1>1, <1>2, <2>1, <2>2, <2>3, <2>4, TakeOrPlaceTyped
<1>5. ASSUME SetBits(k.cur) PROVE group' \in GroupType
  <2>1. /\ pc[k.cur] = "bits" /\ c.fn = "setbits"
        /\ group' = xEventGroupSetBits(k, group, c.set).g
    BY <1>5 DEF SetBits
  <2>2. c.set \subseteq Bits
    BY <1>1, <1>2, <2>1, CallBits
  <2> QED
    BY <1>1, <2>1, <2>2, SetTyped
<1>6. ASSUME xEventGroupClearBits(k.cur) PROVE group' \in GroupType
  <2>1. PICK set : group' = [group EXCEPT !.bits = group.bits \ set]
    BY <1>6 DEF xEventGroupClearBits
  <2> QED
    BY <1>1, <2>1 DEF GroupType
<1>7. ASSUME WaitOver(k.cur) PROVE group' \in GroupType
  <2>1. PICK bits \in SUBSET group.bits :
          group' = [bits |-> bits, item |-> [group.item EXCEPT ![k.cur] = NotInUse]]
    BY <1>7 DEF WaitOver
  <2>2. NotInUse \in ItemType
    BY DEF NotInUse, ItemType
  <2> QED
    BY <1>1, <2>1, <2>2 DEF GroupType
<1>8. \/ UNCHANGED group
      \/ xEventGroupWaitBits(k.cur) \/ xEventGroupSync(k.cur) \/ SetBits(k.cur)
      \/ xEventGroupClearBits(k.cur) \/ WaitOver(k.cur)
  BY DEF Step, Interrupt
<1> QED
  BY <1>1, <1>3, <1>4, <1>5, <1>6, <1>7, <1>8

\* What is left of a sleep is a number of ticks.
LEMMA LeftTyped ==
  ASSUME KInv, Base', Control', CountDown
  PROVE  left' \in [Task -> Ticks]
<1>1. /\ left \in [Task -> Ticks] /\ at' \in [Task -> LocalsType] /\ k.tick \in Ticks
      /\ k'.tick \in Ticks
  BY DEF KInv, Base, Data, Control, Sound, Tidy, Kernel
<1>2. TickMod \in Nat /\ TickMod > 1 /\ 0 \in Ticks /\ 1 \in Ticks /\ Ticks \subseteq Nat
  BY RtosAssumption DEF Ticks
<1>3. (\A x \in Int : x % TickMod \in Ticks) /\ (\A x, y \in Ticks : x - y \in Int)
  <2>1. \A x \in Int : x % TickMod \in Ticks
    BY Reduced
  <2>2. \A x, y \in Ticks : x - y \in Int
    BY <1>2 DEF Ticks
  <2> QED
    BY <2>1, <2>2
<1>4. ASSUME NEW t \in Task PROVE ToSleep(t) \in Ticks
  <2> DEFINE n == IF at'[t].call.fn = "until" THEN (at'[t].previous - k.tick) % TickMod
                  ELSE at'[t].wait
  <2>1. at'[t].wait \in Ticks /\ at'[t].previous \in Ticks
    BY <1>1 DEF LocalsType
  <2>2. (at'[t].previous - k.tick) \in Int
    BY <1>1, <1>3, <2>1
  <2>3. n \in Ticks
    BY <1>3, <2>1, <2>2
  <2>4. ToSleep(t) = Max({1, n})
    BY DEF ToSleep
  <2> HIDE DEF n
  <2> QED
    BY <1>2, <2>3, <2>4, MaxOfTwo
<1>5. ASSUME NEW t \in Task
      PROVE  Max({0, left[t] - ((k'.tick - k.tick) % TickMod)}) \in Ticks
  <2> DEFINE d == (k'.tick - k.tick) % TickMod
             x == left[t] - d
  <2>1. d \in Ticks
    <3>1. k'.tick - k.tick \in Int
      BY <1>1, <1>3
    <3> QED
      BY <1>3, <3>1
  <2>2. x \in Int /\ (x >= 0 => x \in Ticks)
    BY <1>1, <2>1, RtosAssumption DEF Ticks
  <2> HIDE DEF x
  <2>3. CASE x >= 0
    <3>1. x \in Nat /\ x \in Ticks
      BY <2>2, <2>3
    <3> QED
      BY <1>2, <3>1, MaxOfTwo DEF x
  <2>4. CASE x < 0
    <3>1. Max({0, x}) = 0
      BY <2>2, <2>4, MaxOfTwo
    <3> QED
      BY <1>2, <3>1 DEF x
  <2> QED
    BY <2>2, <2>3, <2>4
<1>6. \A t \in Task : left'[t] \in Ticks
  <2> TAKE t \in Task
  <2> DEFINE gone == Max({0, left[t] - ((k'.tick - k.tick) % TickMod)})
  <2>1. left'[t] = CASE t \in Sleepers(k) -> gone
                     [] t \notin Sleepers(k) /\ t \in Sleepers(k') -> ToSleep(t)
                     [] OTHER -> 0
    BY DEF CountDown
  <2>2. gone \in Ticks /\ ToSleep(t) \in Ticks
    BY <1>4, <1>5
  <2> HIDE DEF gone
  <2>3. left'[t] \in {gone, ToSleep(t), 0}
    <3>1. CASE t \in Sleepers(k)
      BY <2>1, <3>1
    <3>2. CASE t \notin Sleepers(k) /\ t \in Sleepers(k')
      BY <2>1, <3>2
    <3>3. CASE t \notin Sleepers(k) /\ t \notin Sleepers(k')
      BY <2>1, <3>3
    <3> QED
      BY <3>1, <3>2, <3>3
  <2> QED
    BY <1>2, <2>2, <2>3
<1> QED
  BY <1>6 DEF CountDown

LEMMA NextKeeps ==
  ASSUME KInv, Next
  PROVE  KInv'
<1>1. (Step(k.cur) \/ Interrupt) /\ CountDown /\ UNCHANGED program
  BY DEF Next
<1>2. Base' /\ Control'
  BY <1>1, StepCarries
<1>3. q' \in QueueType /\ note' \in [Task -> NoteType] /\ group' \in GroupType
  BY <1>1, QueueTyped, NoteTyped, GroupTyped
<1>4. left' \in [Task -> Ticks]
  BY <1>1, <1>2, LeftTyped
<1>5. Data'
  BY <1>1, <1>3, <1>4 DEF Data, QueueType, NoteType, GroupType
<1> QED
  BY <1>2, <1>5 DEF KInv

-----------------------------------------------------------------------------
\* The initial states.

\* The tasks created so far are ready, and that is all.
KeptFresh(c, n, s) ==
  /\ Tidy(s) /\ s.delayed = <<>> /\ s.overflow = <<>> /\ s.ended = <<>>
  /\ \A l \in Lists : s.event[l] = <<>>
  /\ s.susp = 0 /\ s.pended = 0 /\ s.tick = 0 /\ s.next = portMAX_DELAY
  /\ \A u \in Task : Ready(s, u) <=> \E i \in 1..n : c[i] = u
Listing(c, s, t) == prvAddTaskToReadyList(s, t)
Creating == INSTANCE FoldFacts WITH Op <- Listing, Good <- KeptFresh

\* The task to start with is one of those, and none so far is above it.
KeptFirst(c, n, t) == t \in ToSet(c) /\ \A i \in 1..n : Prio[c[i]] <= Prio[t]
Above(c, cur, t) == IF Prio[cur] <= Prio[t] THEN t ELSE cur
Choosing == INSTANCE FoldFacts WITH Op <- Above, Good <- KeptFirst

LEMMA FreshEffect ==
  ASSUME NEW c \in Seq(Task), IsInjective(c), c # <<>>
  PROVE  KeptFresh(c, Len(c), prvInitialiseTaskLists(c))
<1> DEFINE empty == [cur |-> c[1], ready |-> [p \in Prios |-> vListInitialise], top |-> 0,
                     delayed |-> <<>>, overflow |-> <<>>, ended |-> <<>>,
                     event |-> [l \in EventList \cup {"pending"} |-> <<>>],
                     wake |-> [t \in Task |-> 0], tick |-> 0, next |-> portMAX_DELAY,
                     wraps |-> 0, pended |-> 0, yield |-> FALSE, susp |-> 0]
           r == Creating!Folded(c, empty, c)
<1>1. Len(c) \in Nat /\ DOMAIN c = 1..Len(c) /\ 1 \in 1..Len(c) /\ \A i \in 1..Len(c) : c[i] \in Task
  BY LenProperties
<1>2. prvInitialiseTaskLists(c) = r
  BY DEF prvInitialiseTaskLists, Creating!Folded, FoldLeft,
         MapThenFoldSet, Creating!MapThenFoldSet, Max, Creating!Max, Listing
<1>3. /\ <<>> \in Seq(Task) /\ IsInjective(<<>>) /\ ToSet(<<>>) = {}
      /\ vListInitialise \in Seq(Item) /\ IsInjective(vListInitialise)
      /\ ToSet(vListInitialise) = {xListEnd}
  BY DEF IsInjective, ToSet, vListInitialise, Item
<1>4. KeptFresh(c, 0, empty)
  <2>1. 0 \in Ticks /\ portMAX_DELAY \in Ticks /\ 0 \in 0..WrapMod - 1 /\ 0 \in Prios
    BY RtosAssumption, PriorityRange DEF Ticks, portMAX_DELAY
  <2>2. [p \in Prios |-> vListInitialise] \in [Prios -> Seq(Item)]
    BY <1>3
  <2>3. [l \in Lists |-> <<>>] \in [Lists -> Seq(Task)]
    BY <1>3
  <2>4. [t \in Task |-> 0] \in [Task -> Ticks]
    BY <2>1
  <2>5. empty \in Kernel
    BY <1>1, <1>3, <2>1, <2>2, <2>3, <2>4 DEF Kernel, Lists
  <2>6. /\ \A p \in Prios : empty.ready[p] = vListInitialise
        /\ empty.delayed = <<>> /\ empty.overflow = <<>> /\ empty.ended = <<>>
        /\ \A l \in Lists : empty.event[l] = <<>>
        /\ empty.susp = 0 /\ empty.pended = 0 /\ empty.tick = 0 /\ empty.next = portMAX_DELAY
    BY DEF Lists
  <2> HIDE DEF empty
  <2>7. Sleepers(empty) = {} /\ Ended(empty) = {}
    BY <1>3, <2>6 DEF Sleepers, Ended
  <2>8. \A u \in Task : ~Ready(empty, u)
    BY <1>3, <2>6, PriorityRange, RtosAssumption DEF Ready
  <2>9. Tidy(empty)
    BY <1>3, <2>5, <2>6, <2>7, <2>8 DEF Tidy
  <2> QED
    BY <2>6, <2>8, <2>9 DEF KeptFresh
<1> HIDE DEF empty
<1>5. ASSUME NEW i \in 1..Len(c), NEW s, KeptFresh(c, i - 1, s)
      PROVE  KeptFresh(c, i, Listing(c, s, c[i]))
  <2> DEFINE t == c[i]
             x == prvAddTaskToReadyList(s, t)
  <2>1. t \in Task /\ \A j \in 1..Len(c) : c[j] = t => j = i
    BY <1>1 DEF IsInjective
  <2>2. /\ Tidy(s) /\ s.delayed = <<>> /\ s.overflow = <<>> /\ s.ended = <<>>
        /\ \A l \in Lists : s.event[l] = <<>>
        /\ s.susp = 0 /\ s.pended = 0 /\ s.tick = 0 /\ s.next = portMAX_DELAY
        /\ \A u \in Task : Ready(s, u) <=> \E j \in 1..i - 1 : c[j] = u
    BY <1>5 DEF KeptFresh
  <2>3. ~Ready(s, t) /\ t \notin Sleepers(s) /\ t \notin Ended(s)
    <3>1. \A j \in 1..i - 1 : j \in 1..Len(c) /\ j # i
      BY <1>1
    <3>2. ~Ready(s, t)
      BY <2>1, <2>2, <3>1
    <3>3. Sleepers(s) = {} /\ Ended(s) = {}
      BY <1>3, <2>2 DEF Sleepers, Ended
    <3> QED
      BY <3>2, <3>3
  <2> HIDE DEF t
  <2>4. /\ Tidy(x) /\ x.delayed = <<>> /\ x.overflow = <<>> /\ x.ended = <<>>
        /\ x.event = s.event /\ x.susp = 0 /\ x.pended = 0
        /\ x.tick = 0 /\ x.next = portMAX_DELAY
        /\ \A u \in Task : Ready(x, u) <=> Ready(s, u) \/ u = t
    BY <2>1, <2>2, <2>3, AddToReady DEF SameClock
  <2>5. Listing(c, s, c[i]) = x
    BY DEF Listing, t
  <2> HIDE DEF x
  <2>6. \A u \in Task : Ready(x, u) <=> \E j \in 1..i : c[j] = u
    <3>1. \A j : j \in 1..i <=> j \in 1..i - 1 \/ j = i
      OBVIOUS
    <3> QED
      BY <2>2, <2>4, <3>1 DEF t
  <2>7. KeptFresh(c, i, x)
    BY <2>2, <2>4, <2>6 DEF KeptFresh
  <2> QED
    BY <2>5, <2>7
<1>6. KeptFresh(c, Len(c), r)
  <2> HIDE DEF r
  <2>1. r = Creating!Folded(c, empty, c)
    BY DEF r
  <2> QED
    BY <1>1, <1>4, <1>5, <2>1, Creating!FoldInvariant
<1> QED
  BY <1>2, <1>6

LEMMA FirstEffect ==
  ASSUME NEW c \in Seq(Task), c # <<>>, NEW s
  PROVE  \E t \in ToSet(c) : /\ xTaskGenericCreate(s, c) = [s EXCEPT !.cur = t]
                            /\ \A u \in ToSet(c) : Prio[u] <= Prio[t]
<1> DEFINE r == Choosing!Folded(c, c[1], c)
<1>1. Len(c) \in Nat /\ DOMAIN c = 1..Len(c) /\ 1 \in 1..Len(c)
  BY LenProperties
<1>2. xTaskGenericCreate(s, c) = [s EXCEPT !.cur = r]
  BY DEF xTaskGenericCreate, Choosing!Folded, FoldLeft,
         MapThenFoldSet, Choosing!MapThenFoldSet, Max, Choosing!Max, Above
<1>3. /\ \A i \in 1..Len(c) : c[i] \in ToSet(c)
      /\ \A u \in ToSet(c) : u \in Task /\ \E i \in 1..Len(c) : u = c[i]
  BY <1>1 DEF ToSet
<1>4. KeptFirst(c, 0, c[1])
  BY <1>1, <1>3 DEF KeptFirst
<1>5. ASSUME NEW i \in 1..Len(c), NEW t, KeptFirst(c, i - 1, t)
      PROVE  KeptFirst(c, i, Above(c, t, c[i]))
  <2> DEFINE x == Above(c, t, c[i])
  <2>1. t \in ToSet(c) /\ c[i] \in ToSet(c) /\ \A j \in 1..i - 1 : Prio[c[j]] <= Prio[t]
    BY <1>3, <1>5 DEF KeptFirst
  <2>2. Prio[t] \in Nat /\ \A j \in 1..Len(c) : Prio[c[j]] \in Nat
    BY <1>3, <2>1, RtosAssumption
  <2>3. x \in ToSet(c) /\ Prio[t] <= Prio[x] /\ Prio[c[i]] <= Prio[x] /\ Prio[x] \in Nat
    BY <2>1, <2>2 DEF Above
  <2> HIDE DEF x
  <2>4. \A j \in 1..i : j \in 1..Len(c) /\ (j = i \/ j \in 1..i - 1)
    BY <1>1
  <2>5. \A j \in 1..i : Prio[c[j]] <= Prio[x]
    BY <2>1, <2>2, <2>3, <2>4
  <2> QED
    BY <2>3, <2>5 DEF KeptFirst, x
<1>6. KeptFirst(c, Len(c), r)
  <2> HIDE DEF r
  <2>1. r = Choosing!Folded(c, c[1], c)
    BY DEF r
  <2> QED
    BY <1>1, <1>4, <1>5, <2>1, Choosing!FoldInvariant
<1> HIDE DEF r
<1>7. r \in ToSet(c) /\ \A u \in ToSet(c) : Prio[u] <= Prio[r]
  BY <1>3, <1>6 DEF KeptFirst
<1> QED
  BY <1>2, <1>7

\* The scheduler's state in which the tasks start.
LEMMA FreshKernel ==
  ASSUME Init
  PROVE  /\ Tidy(k) /\ k.delayed = <<>> /\ k.overflow = <<>> /\ k.ended = <<>>
         /\ \A l \in Lists : k.event[l] = <<>>
         /\ k.susp = 0 /\ k.pended = 0 /\ k.tick = 0 /\ k.next = portMAX_DELAY
         /\ k.cur \in ToSet(program.created) /\ Highest(k)
         /\ \A u \in ToSet(program.created) : Ready(k, u)
<1> DEFINE c == program.created
           s == prvInitialiseTaskLists(c)
<1>1. program \in Programs /\ k = xTaskGenericCreate(s, c)
  BY DEF Init
<1>2. c \in Seq(Task) /\ IsInjective(c) /\ Idle \in ToSet(c)
  BY <1>1, CallsAssumption, ProgramsAssumption
<1>3. c # <<>> /\ ToSet(c) \subseteq Task
  BY <1>2 DEF ToSet
<1>4. KeptFresh(c, Len(c), s)
  BY <1>2, <1>3, FreshEffect
<1>5. \E t \in ToSet(c) : k = [s EXCEPT !.cur = t] /\ \A u \in ToSet(c) : Prio[u] <= Prio[t]
  BY <1>1, <1>2, <1>3, FirstEffect
<1> HIDE DEF s
<1>6. PICK t \in ToSet(c) : k = [s EXCEPT !.cur = t] /\ \A u \in ToSet(c) : Prio[u] <= Prio[t]
  BY <1>5
<1>7. /\ Tidy(s) /\ s \in Kernel /\ s.delayed = <<>> /\ s.overflow = <<>> /\ s.ended = <<>>
      /\ \A l \in Lists : s.event[l] = <<>>
      /\ s.susp = 0 /\ s.pended = 0 /\ s.tick = 0 /\ s.next = portMAX_DELAY
      /\ \A u \in Task : Ready(s, u) <=> \E i \in 1..Len(c) : c[i] = u
  BY <1>4 DEF KeptFresh, Tidy
<1>8. /\ k \in Kernel /\ k.cur = t /\ k.ready = s.ready /\ k.top = s.top
      /\ k.delayed = s.delayed /\ k.overflow = s.overflow /\ k.ended = s.ended
      /\ k.event = s.event /\ k.susp = s.susp /\ k.pended = s.pended
      /\ k.tick = s.tick /\ k.next = s.next
  BY <1>3, <1>6, <1>7 DEF Kernel
<1>9. /\ \A u : (Ready(k, u) <=> Ready(s, u)) /\ (Linked(k, u) <=> Linked(s, u))
      /\ Sleepers(k) = Sleepers(s) /\ Ended(k) = Ended(s)
  BY <1>8 DEF Ready, Linked, Sleepers, Ended
<1>10. Tidy(k)
  BY <1>7, <1>8, <1>9 DEF Tidy
<1>11. \A u \in Task : Ready(k, u) <=> u \in ToSet(c)
  <2>1. DOMAIN c = 1..Len(c)
    BY <1>2, LenProperties
  <2> QED
    BY <1>3, <1>7, <1>9, <2>1 DEF ToSet
<1>12. Highest(k)
  BY <1>6, <1>8, <1>11 DEF Highest
<1> QED
  BY <1>3, <1>7, <1>8, <1>10, <1>11, <1>12

LEMMA InitKeeps ==
  ASSUME Init
  PROVE  KInv
<1> DEFINE c == program.created
           s == prvInitialiseTaskLists(c)
<1>1. /\ program \in Programs /\ k = xTaskGenericCreate(s, c)
      /\ q = [n |-> 0, rx |-> queueUNLOCKED, tx |-> queueUNLOCKED]
      /\ note = [t \in Task |-> [val |-> 0, state |-> "not"]]
      /\ group = [bits |-> {}, item |-> [t \in Task |-> NotInUse]]
      /\ pc = [t \in Task |-> "run"] /\ at = [t \in Task |-> AtRest]
      /\ freed = {} /\ left = [t \in Task |-> 0]
  BY DEF Init
<1>2. /\ c \in Seq(Task) /\ IsInjective(c) /\ Idle \in ToSet(c)
      /\ program.held \in 1..127 /\ uxLength \in 1..127
  BY <1>1, CallsAssumption, ProgramsAssumption
<1>3. c # <<>> /\ ToSet(c) \subseteq Task
  BY <1>2 DEF ToSet
<1>7. /\ Tidy(k) /\ k.ended = <<>> /\ k.susp = 0 /\ k.pended = 0
      /\ \A l \in Lists : k.event[l] = <<>>
      /\ k.cur \in ToSet(c) /\ \A u \in ToSet(c) : Ready(k, u)
  BY FreshKernel
<1> HIDE DEF s
<1>12. \A l \in Lists : ToSet(k.event[l]) = {}
  BY <1>7 DEF ToSet
<1>13. Sound(k)
  BY <1>2, <1>7, <1>12 DEF Sound, Lists
<1>14. SuspendExcludes
  BY <1>1, <1>7 DEF SuspendExcludes, Suspending
<1>15. Ready(k, k.cur) /\ k.event["pending"] = <<>> /\ \A u : ~Linked(k, u)
  BY <1>7, <1>12 DEF Lists, Linked
<1>16. AtRest \in LocalsType /\ AtRest.onward = "return" /\ ~AtRest.set
  <2>1. None \in Calls /\ 0 \in Ticks
    BY RtosAssumption DEF Calls, Ticks
  <2> QED
    BY <2>1 DEF AtRest, NoTime, LocalsType
<1>17. ASSUME NEW u \in Task PROVE Placed(u)
  <2>1. pc[u] = "run" /\ at[u] = AtRest /\ note[u].state = "not"
    BY <1>1
  <2> QED
    BY <1>1, <1>15, <1>16, <2>1 DEF Placed, AtReap, Where, Quiet
<1>18. Control
  BY <1>13, <1>14, <1>15, <1>17 DEF Control
<1>19. Base
  <2>1. "run" \in Labels
    BY DEF Labels
  <2>2. pc \in [Task -> Labels] /\ at \in [Task -> LocalsType] /\ freed \subseteq Task
    BY <1>1, <1>16, <2>1
  <2>3. k.pended \in 0..program.held
    <3>1. k.pended = 0
      BY <1>7
    <3>2. \A x \in 1..127 : 0 \in 0..x
      OBVIOUS
    <3>3. 0 \in 0..program.held
      BY <1>2, <3>2
    <3> QED
      BY <3>1, <3>3, Zenon
  <2> QED
    BY <1>1, <2>2, <2>3 DEF Base
<1>20. Data
  <2>1. \A x \in 1..127 : 0 \in 0..x
    OBVIOUS
  <2>2. 0 \in 0..uxLength /\ 0 \in 0..program.held
    BY <1>2, <2>1
  <2>3. queueUNLOCKED \in -1..127 /\ 0 \in Ticks
    BY RtosAssumption DEF queueUNLOCKED, Ticks
  <2>4. NotInUse \in ItemType
    BY DEF NotInUse, ItemType
  <2>5. q \in [n : 0..uxLength, rx : -1..127, tx : -1..127]
    BY <1>1, <2>2, <2>3
  <2>6. note \in [Task -> [val : 0..program.held, state : {"not", "waiting", "notified"}]]
    BY <1>1, <2>2
  <2>7. group \in [bits : SUBSET Bits, item : [Task -> ItemType]]
    BY <1>1, <2>4
  <2>8. left \in [Task -> Ticks]
    BY <1>1, <2>3
  <2> QED
    BY <2>5, <2>6, <2>7, <2>8 DEF Data
<1> QED
  BY <1>18, <1>19, <1>20 DEF KInv

-----------------------------------------------------------------------------

\* The kernel's invariant: no list of the scheduler holds a task twice and no
\* task is in two lists of a kind; the idle task is always ready; whoever waits
\* for an event is asleep, or ready and about to be told (the pending list); the
\* current task is ready unless it is about to yield; and a task that has been
\* freed is nowhere (tasks.c and the calls that use it, every step of them).
THEOREM KernelInvariant == Spec => []KInv
<1>1. Init => KInv
  BY InitKeeps
<1>2. KInv /\ [Next]_vars => KInv'
  <2>1. ASSUME KInv, UNCHANGED vars PROVE KInv'
    BY <2>1 DEF vars, KInv, Base, Data, Control, SuspendExcludes, Placed
  <2> QED
    BY <2>1, NextKeeps
<1> QED
  BY <1>1, <1>2, PTL DEF Spec

\* The stated types hold.
THEOREM TypesHold == Spec => []TypeOK
<1>1. KInv => TypeOK
  <2> SUFFICES ASSUME KInv PROVE TypeOK
    OBVIOUS
  <2>1. /\ program \in Programs /\ k.pended \in 0..program.held
        /\ pc \in [Task -> Labels] /\ at \in [Task -> LocalsType] /\ freed \subseteq Task
    BY DEF KInv, Base
  <2>2. /\ k.cur \in Task /\ k.top \in Prios /\ k.tick \in Ticks /\ k.next \in Ticks
        /\ k.wraps \in 0..WrapMod - 1 /\ k.yield \in BOOLEAN
    BY DEF KInv, Control, Sound, Tidy, Kernel
  <2>3. \A t \in Task : at[t].call \in Calls
    BY <2>1 DEF LocalsType
  <2>4. group.bits \subseteq Bits /\ \A t \in Task : group.item[t].want \subseteq Bits
    BY DEF KInv, Data, ItemType
  <2> QED
    BY <2>1, <2>2, <2>3, <2>4 DEF KInv, Data, TypeOK, Ticks
<1> QED
  BY <1>1, KernelInvariant, PTL

\* A task that has suspended the scheduler runs until it resumes it, and the
\* count of suspensions is right although ++ and -- are not atomic.
THEOREM SuspensionHolds == Spec => []SuspendExcludes
<1>1. KInv => SuspendExcludes
  BY DEF KInv, Control
<1> QED
  BY <1>1, KernelInvariant, PTL

LEMMA PlacesCount ==
  ASSUME NEW S, NEW l \in Seq(S), IsInjective(l), NEW t
  PROVE  Cardinality(Places(t, l)) \in {0, 1} /\ (t \notin ToSet(l) => Cardinality(Places(t, l)) = 0)
<1>1. CASE t \notin ToSet(l)
  <2>1. Places(t, l) = {}
    BY <1>1 DEF Places, ToSet
  <2> QED
    BY <2>1, FS_EmptySet
<1>2. CASE t \in ToSet(l)
  <2>1. PICK i \in DOMAIN l : l[i] = t
    BY <1>2 DEF ToSet
  <2>2. Places(t, l) = {i}
    BY <2>1 DEF Places, IsInjective
  <2> QED
    BY <1>2, <2>2, FS_Singleton
<1> QED
  BY <1>1, <1>2

LEMMA JoinEffect ==
  ASSUME NEW S, NEW l \in Seq(S), NEW m \in Seq(S), IsInjective(l), IsInjective(m),
         ToSet(l) \cap ToSet(m) = {}
  PROVE  /\ l \o m \in Seq(S) /\ IsInjective(l \o m)
         /\ ToSet(l \o m) = ToSet(l) \cup ToSet(m)
<1> DEFINE r == l \o m
<1>1. /\ Len(l) \in Nat /\ Len(m) \in Nat /\ DOMAIN l = 1..Len(l) /\ DOMAIN m = 1..Len(m)
  BY LenProperties
<1>2. /\ r \in Seq(S) /\ Len(r) = Len(l) + Len(m)
      /\ \A i \in 1..Len(l) + Len(m) : r[i] = IF i <= Len(l) THEN l[i] ELSE m[i - Len(l)]
  BY ConcatProperties
<1>3. DOMAIN r = 1..Len(l) + Len(m)
  BY <1>2, LenProperties
<1> HIDE DEF r
<1>4. \A i \in DOMAIN r : \/ i \in DOMAIN l /\ r[i] = l[i]
                          \/ i - Len(l) \in DOMAIN m /\ r[i] = m[i - Len(l)]
  BY <1>1, <1>2, <1>3
<1>5. /\ \A i \in DOMAIN l : i \in DOMAIN r /\ r[i] = l[i]
      /\ \A i \in DOMAIN m : Len(l) + i \in DOMAIN r /\ r[Len(l) + i] = m[i]
  BY <1>1, <1>2, <1>3
<1>6. ToSet(r) = ToSet(l) \cup ToSet(m)
  BY <1>4, <1>5 DEF ToSet
<1>7. IsInjective(r)
  <2> SUFFICES ASSUME NEW i \in DOMAIN r, NEW j \in DOMAIN r, r[i] = r[j] PROVE i = j
    BY DEF IsInjective
  <2>1. i \in Int /\ j \in Int
    BY <1>1, <1>3
  <2>2. CASE i \in DOMAIN l /\ r[i] = l[i] /\ j \in DOMAIN l /\ r[j] = l[j]
    BY <2>2 DEF IsInjective
  <2>3. CASE /\ i - Len(l) \in DOMAIN m /\ r[i] = m[i - Len(l)]
             /\ j - Len(l) \in DOMAIN m /\ r[j] = m[j - Len(l)]
    <3>1. i - Len(l) = j - Len(l)
      BY <2>3 DEF IsInjective
    <3> QED
      BY <1>1, <2>1, <3>1
  <2>4. CASE /\ i \in DOMAIN l /\ r[i] = l[i]
             /\ j - Len(l) \in DOMAIN m /\ r[j] = m[j - Len(l)]
    BY <2>4 DEF ToSet
  <2>5. CASE /\ j \in DOMAIN l /\ r[j] = l[j]
             /\ i - Len(l) \in DOMAIN m /\ r[i] = m[i - Len(l)]
    BY <2>5 DEF ToSet
  <2> QED
    BY <1>4, <2>2, <2>3, <2>4, <2>5
<1> QED
  BY <1>2, <1>6, <1>7 DEF r

LEMMA InvAgrees ==
  ASSUME KInv
  PROVE  ListsAgree
<1>1. /\ k \in Kernel /\ Tidy(k) /\ Sound(k)
      /\ \A t \in Task : Placed(t)
  BY DEF KInv, Control, Sound, Tidy
<1> SUFFICES ASSUME NEW t \in Task
             PROVE  /\ Cardinality(Places(t, k.ready[Prio[t]]))
                         + Cardinality(Places(t, k.delayed \o k.overflow \o k.ended)) <= 1
                    /\ Cardinality(Events(t)) <= 1
                    /\ Events(t) \ {"pending"} # {} => t \in Sleepers(k)
                    /\ listCURRENT_LIST_LENGTH(k.ready[Prio[t]]) > 0 => k.top >= Prio[t]
                    /\ t \in freed => k.cur # t /\ ~Listed(t) /\ Events(t) = {}
  BY DEF ListsAgree
<1> DEFINE p == Prio[t]
           ready == k.ready[p]
           rest == k.delayed \o k.overflow \o k.ended
<1>2. p \in Prios
  BY PriorityRange
<1>3. ready \in Seq(Item) /\ IsInjective(ready) /\ xListEnd \in ToSet(ready)
  BY <1>1, <1>2 DEF Kernel, Tidy
<1>4. rest \in Seq(Task) /\ IsInjective(rest) /\ ToSet(rest) = Sleepers(k) \cup Ended(k)
  <2>1. /\ k.delayed \in Seq(Task) /\ k.overflow \in Seq(Task) /\ k.ended \in Seq(Task)
        /\ IsInjective(k.delayed) /\ IsInjective(k.overflow) /\ IsInjective(k.ended)
        /\ ToSet(k.delayed) \cap ToSet(k.overflow) = {}
        /\ (ToSet(k.delayed) \cup ToSet(k.overflow)) \cap ToSet(k.ended) = {}
    BY <1>1 DEF Kernel, Tidy, Sleepers, Ended
  <2> DEFINE b == k.delayed \o k.overflow
  <2>2. b \in Seq(Task) /\ IsInjective(b) /\ ToSet(b) = ToSet(k.delayed) \cup ToSet(k.overflow)
    BY <2>1, JoinEffect
  <2> HIDE DEF b
  <2>3. /\ b \o k.ended \in Seq(Task) /\ IsInjective(b \o k.ended)
        /\ ToSet(b \o k.ended) = ToSet(b) \cup ToSet(k.ended)
    BY <2>1, <2>2, JoinEffect
  <2> QED
    BY <2>2, <2>3 DEF b, Sleepers, Ended
<1> HIDE DEF ready, rest, p
<1>5. Cardinality(Places(t, ready)) + Cardinality(Places(t, rest)) <= 1
  <2>1. t \notin ToSet(ready) \/ t \notin ToSet(rest)
    BY <1>1, <1>4 DEF Tidy, Ready, ready, p
  <2>2. /\ Cardinality(Places(t, ready)) \in {0, 1}
        /\ t \notin ToSet(ready) => Cardinality(Places(t, ready)) = 0
    BY <1>3, PlacesCount
  <2>3. /\ Cardinality(Places(t, rest)) \in {0, 1}
        /\ t \notin ToSet(rest) => Cardinality(Places(t, rest)) = 0
    BY <1>4, PlacesCount
  <2> QED
    BY <2>1, <2>2, <2>3
<1>6. DOMAIN k.event = Lists
  BY <1>1 DEF Kernel
<1>7. Cardinality(Events(t)) <= 1
  <2>1. CASE Events(t) = {}
    BY <2>1, FS_EmptySet
  <2>2. CASE Events(t) # {}
    <3>1. PICK l \in Lists : t \in ToSet(k.event[l])
      BY <1>6, <2>2 DEF Events
    <3>2. Events(t) = {l}
      BY <1>1, <1>6, <3>1 DEF Events, Tidy
    <3>3. Cardinality(Events(t)) = 1
      BY <3>2, FS_Singleton, Zenon
    <3> QED
      BY <3>3
  <2> QED
    BY <2>1, <2>2
<1>8. Events(t) \ {"pending"} # {} => t \in Sleepers(k)
  BY <1>1, <1>6 DEF Events, Lists, Sound
<1>9. listCURRENT_LIST_LENGTH(ready) > 0 => k.top >= p
  <2> SUFFICES ASSUME listCURRENT_LIST_LENGTH(ready) > 0 PROVE k.top >= p
    OBVIOUS
  <2>1. ToSet(ready) # {xListEnd}
    BY <1>3, LengthCounts
  <2>2. PICK u \in ToSet(ready) : u # xListEnd
    BY <1>3, <2>1
  <2>3. p <= k.top
    BY <1>1, <1>2, <2>2 DEF Tidy, ready
  <2>4. p \in Nat /\ k.top \in Nat
    BY <1>1, <1>2, PriorityRange DEF Kernel
  <2> QED
    BY <2>3, <2>4
<1>10. t \in freed => k.cur # t /\ ~Listed(t) /\ Events(t) = {}
  <2> SUFFICES ASSUME t \in freed PROVE k.cur # t /\ ~Listed(t) /\ Events(t) = {}
    OBVIOUS
  <2>1. t # k.cur /\ ~Has(k, t)
    BY <1>1 DEF Placed
  <2>2. ~Ready(k, t) /\ t \notin Sleepers(k) /\ t \notin Ended(k)
    BY <2>1 DEF Has
  <2>3. Events(t) = {}
    BY <1>1, <1>6, <2>2 DEF Events, Sound, Lists
  <2>4. ~Listed(t)
    BY <2>2 DEF Listed, Ready, Sleepers, Ended
  <2> QED
    BY <2>1, <2>3, <2>4
<1> QED
  BY <1>5, <1>7, <1>8, <1>9, <1>10 DEF ready, rest, p

\* Every task is in one list by its generic item and in one at most by its event
\* item, and a freed one in none; a task that waits for an event also waits for
\* the clock (vTaskDelete, xTaskIncrementTick, xTaskRemoveFromEventList).
THEOREM ListsStayRight == Spec => []ListsAgree
<1>1. KInv => ListsAgree
  BY InvAgrees
<1> QED
  BY <1>1, KernelInvariant, PTL
-----------------------------------------------------------------------------
\* Nobody waits for what has come.

\* A task that waits for a notification is told of it.
Told(t) ==
  t \in Sleepers(k) /\ pc[t] = "taken" =>
    \/ t \in ToSet(k.event["pending"])
    \/ note[t].state = "waiting" /\ (at[t].call.fn = "take" => note[t].val = 0)

\* The bits a task waits for have not come, whether or not the scheduler runs.
BitsAwaited ==
  \A t \in ToSet(k.event[forBits]) : ~prvTestWaitCondition(group.bits, group.item[t])

CallInv == KInv /\ BitsAwaited /\ \A t \in Task : Told(t)

\* The first step of a wait for a notification is the only way to its second.
LEMMA ToTaken ==
  ASSUME KInv, Step(k.cur) \/ Interrupt, pc'[k.cur] = "taken"
  PROVE  pc[k.cur] = "taken" \/ NotifyTakeOrWait(k.cur)
<1> DEFINE t == k.cur
<1>1. t \in Task /\ pc \in [Task -> Labels]
  BY Standing DEF KInv, Base
<1>2. ASSUME NEW l, NEW a, Goto(t, l, a) PROVE l = "taken"
  BY <1>1, <1>2 DEF Goto
<1>3. ~Leave(t)
  BY <1>1 DEF Leave
<1>4. ~GoOn(t)
  BY <1>2, <1>3 DEF GoOn
<1>5. CASE Interrupt
  BY <1>5 DEF Interrupt
<1>6. /\ ~BeginSuspended(t) /\ ~ResumeAll(t) /\ ~Yield(t) /\ ~vTaskDelay(t) /\ ~vTaskDelayZero(t)
      /\ ~vTaskDelayUntil(t) /\ ~ResetTime(t)
  <2>1. ~BeginSuspended(t)
    BY <1>2 DEF BeginSuspended, ReadAndSuspend
  <2>2. ~ResumeAll(t)
    <3> SUFFICES ASSUME ResumeAll(t) PROVE FALSE
      OBVIOUS
    <3> DEFINE r == xTaskResumeAll(k)
    <3>1. pc[t] = "resume" /\
          CASE at[t].onward = "blocked" /\ ~r.yielded -> Goto(t, "yield", at[t])
            [] at[t].onward = "blocked" /\ r.yielded -> GoOn(t)
            [] at[t].onward \in {"try", "reap"} -> Goto(t, at[t].onward, at[t])
            [] at[t].onward \in {"begin", "create"} -> Goto(t, at[t].onward, at[t]) \/ Leave(t)
            [] at[t].onward = "return" -> Leave(t)
      BY DEF ResumeAll
    <3> HIDE DEF r
    <3>2. at[t].onward \in {"blocked", "try", "reap", "begin", "create", "return"}
      BY <1>1 DEF KInv, Base, LocalsType
    <3>3. CASE at[t].onward = "blocked" /\ ~r.yielded
      BY <1>2, <3>1, <3>3
    <3>4. CASE at[t].onward = "blocked" /\ r.yielded
      BY <1>4, <3>1, <3>4
    <3>5. CASE at[t].onward \in {"try", "reap"}
      <4>1. Goto(t, at[t].onward, at[t])
        BY <3>1, <3>5
      <4> QED
        BY <1>2, <3>5, <4>1
    <3>6. CASE at[t].onward \in {"begin", "create"}
      <4>1. Goto(t, at[t].onward, at[t]) \/ Leave(t)
        BY <3>1, <3>6
      <4> QED
        BY <1>2, <1>3, <3>6, <4>1
    <3>7. CASE at[t].onward = "return"
      BY <1>3, <3>1, <3>7
    <3> QED
      BY <3>2, <3>3, <3>4, <3>5, <3>6, <3>7
  <2>3. ~Yield(t)
    BY <1>4 DEF Yield
  <2>4. ~vTaskDelay(t) /\ ~vTaskDelayUntil(t)
    BY <1>2 DEF vTaskDelay, vTaskDelayUntil
  <2>5. ~vTaskDelayZero(t) /\ ~ResetTime(t)
    BY <1>3 DEF vTaskDelayZero, ResetTime
  <2> QED
    BY <2>1, <2>2, <2>3, <2>4, <2>5
<1>7. ~vTaskSuspendAll(t)
  <2> SUFFICES ASSUME vTaskSuspendAll(t) PROVE FALSE
    OBVIOUS
  <2>1. /\ pc[t] = "suspend" /\ at[t].call.fn \in Suspenders
    BY Standing DEF vTaskSuspendAll, Placed, Where
  <2>2. PICK l, a : Goto(t, l, a) /\ l \in {"lock", "delay", "bits", "isempty", "resume"}
    BY <2>1 DEF vTaskSuspendAll, Suspenders, Waits
  <2> QED
    BY <1>2, <2>2
<1>8. ~vTaskDelete(t) /\ ~CreateTask(t) /\ ~IdleYields(t)
  <2>1. ~vTaskDelete(t)
    BY <1>2 DEF vTaskDelete
  <2>2. ~CreateTask(t)
    BY <1>2, <1>3 DEF CreateTask
  <2>3. ~IdleYields(t)
    BY <1>2, <1>3 DEF IdleYields
  <2> QED
    BY <2>1, <2>2, <2>3
<1>9. /\ ~xQueueGenericSend(t) /\ ~xQueueGenericReceive(t) /\ ~xQueueGenericReset(t)
  BY <1>2, <1>3 DEF xQueueGenericSend, xQueueGenericReceive, xQueueGenericReset, Refused,
     ReadAndSuspend
<1>10. /\ ~prvLockQueue(t) /\ ~CheckForTimeOut(t) /\ ~CheckQueue(t) /\ ~PlaceOnEventList(t)
       /\ ~prvUnlockQueue(t)
  BY <1>2 DEF prvLockQueue, CheckForTimeOut, CheckQueue, PlaceOnEventList, prvUnlockQueue
<1>11. ~NotifyTaken(t) /\ ~xTaskGenericNotify(t)
  BY <1>3 DEF NotifyTaken, xTaskGenericNotify
<1>12. ASSUME NEW s, NEW g, NEW c, NEW met, met \in BOOLEAN, c.wait = 0 \/ c.wait > 0,
              TakeOrPlace(t, s, g, c, met)
       PROVE  FALSE
  <2>1. CASE met
    BY <1>2, <1>12, <2>1 DEF TakeOrPlace
  <2>2. CASE ~met /\ c.wait = 0
    BY <1>2, <1>12, <2>2 DEF TakeOrPlace
  <2>3. CASE ~met /\ c.wait > 0
    BY <1>2, <1>12, <2>3 DEF TakeOrPlace
  <2> QED
    BY <1>12, <2>1, <2>2, <2>3
<1>13. ~xEventGroupWaitBits(t) /\ ~xEventGroupSync(t)
  <2> DEFINE c == at[t].call
  <2>1. pc[t] = "bits" => c.wait = 0 \/ c.wait > 0
    BY Standing, CallFacts, RtosAssumption DEF Placed, Where, Ticks
  <2>2. ~xEventGroupWaitBits(t)
    BY <1>12, <2>1, Boolean DEF xEventGroupWaitBits
  <2>3. ~xEventGroupSync(t)
    <3>1. (c.want \subseteq group.bits \cup c.set) \in BOOLEAN
      OBVIOUS
    <3> QED
      BY <1>12, <2>1, <3>1 DEF xEventGroupSync
  <2> QED
    BY <2>2, <2>3
<1>14. ~SetBits(t) /\ ~xEventGroupClearBits(t) /\ ~WaitOver(t)
  BY <1>2, <1>3 DEF SetBits, xEventGroupClearBits, WaitOver
<1>15. ~xListIsEmpty(t) /\ ~ReapTask(t)
  BY <1>2, <1>3 DEF xListIsEmpty, ReapTask
<1> QED
  BY <1>5, <1>6, <1>7, <1>8, <1>9, <1>10, <1>11, <1>13, <1>14, <1>15 DEF Step

\* A task notified by another is ready at once, or is to be.
LEMMA NotifiedWakes ==
  ASSUME KInv, Step(k.cur) \/ Interrupt, NEW u \in Task \ {k.cur},
         note[u].state = "waiting", u \in Sleepers(k'), Tidy(k')
  PROVE  note'[u] = note[u] \/ u \in ToSet(k'.event["pending"])
<1>1. /\ Sound(k) /\ Tidy(k) /\ k \in Kernel /\ k.cur \in Task /\ Placed(u)
      /\ note \in [Task -> NoteType]
  BY Standing DEF KInv, Control, Data, NoteType
<1>2. ~Ready(k', u) /\ ~Linked(k, u)
  BY <1>1 DEF Tidy, Placed
<1>3. Ready(MakeReady(k, u), u)
  BY <1>1, MakeReadyEffect
<1>4. CASE xTaskGenericNotify(k.cur)
  <2>1. PICK c : /\ Alive(c.to) /\ note' = Notified(c.to)
                 /\ k' = IF note[c.to].state = "waiting"
                         THEN Switched(MakeReady(k, c.to), Prio[c.to] > Prio[k.cur]) ELSE k
    BY <1>4 DEF xTaskGenericNotify
  <2>2. CASE c.to = u
    <3> DEFINE r == MakeReady(k, u)
               above == Prio[u] > Prio[k.cur]
    <3>1. k' = Switched(r, above)
      BY <2>1, <2>2
    <3>2. Has(k, u) /\ u \notin Ended(k)
      BY <2>1, <2>2 DEF Alive, Listed, Has, Ready, Sleepers, Ended
    <3>3. Sound(r) /\ Ready(r, u)
      BY <1>1, <1>2, <1>3, <3>2, NotifyMoves DEF Moves
    <3> HIDE DEF r, above
    <3>4. Ready(k', u)
      BY <3>1, <3>3, SwitchedMoves DEF Moves
    <3> QED
      BY <1>2, <3>4
  <2>3. CASE c.to # u
    BY <1>1, <2>1, <2>3 DEF Notified
  <2> QED
    BY <2>2, <2>3
<1>5. ASSUME NEW v \in Task, vTaskNotifyGiveFromISR(v)
      PROVE  note'[u] = note[u] \/ u \in ToSet(k'.event["pending"])
  <2>1. note' = Notified(v) /\ k' = GiveTo(v)
    BY <1>5 DEF vTaskNotifyGiveFromISR
  <2>2. CASE v = u
    <3>1. CASE k.susp = 0
      BY <1>2, <1>3, <2>1, <2>2, <3>1 DEF GiveTo
    <3>2. CASE k.susp # 0
      <4>1. k' = [k EXCEPT !.event["pending"] = Append(@, u)]
        BY <2>1, <2>2, <3>2 DEF GiveTo
      <4>2. "pending" \in Lists
        BY DEF Lists
      <4>3. k.event["pending"] \in Seq(Task) /\ IsInjective(k.event["pending"])
        BY <1>1, <4>2 DEF Kernel, Tidy
      <4>4. k'.event["pending"] = Append(k.event["pending"], u)
        BY <1>1, <4>1, <4>2 DEF Kernel
      <4>5. u \notin ToSet(k.event["pending"])
        BY <1>2, <4>2 DEF Linked
      <4> QED
        BY <4>3, <4>4, <4>5, AppendEffect
    <3> QED
      BY <3>1, <3>2
  <2>3. CASE v # u
    BY <1>1, <2>1, <2>3 DEF Notified
  <2> QED
    BY <2>2, <2>3
<1>6. CASE NotifyTakeOrWait(k.cur)
  BY <1>1, <1>6 DEF NotifyTakeOrWait
<1>7. CASE NotifyTaken(k.cur)
  BY <1>1, <1>7 DEF NotifyTaken
<1>8. \/ UNCHANGED note
      \/ NotifyTakeOrWait(k.cur) \/ NotifyTaken(k.cur) \/ xTaskGenericNotify(k.cur)
      \/ \E v \in Task : vTaskNotifyGiveFromISR(v)
  BY DEF Step, Interrupt
<1> QED
  BY <1>4, <1>5, <1>6, <1>7, <1>8

LEMMA ToldKept ==
  ASSUME KInv, Step(k.cur) \/ Interrupt, Control', Calm, NEW t \in Task, Told(t)
  PROVE  Told(t)'
<1> SUFFICES ASSUME t \in Sleepers(k'), pc'[t] = "taken"
             PROVE  \/ t \in ToSet(k'.event["pending"])
                    \/ note'[t].state = "waiting" /\ (at'[t].call.fn = "take" => note'[t].val = 0)
  BY DEF Told
<1>1. /\ Tidy(k') /\ Tidy(k) /\ k \in Kernel /\ k.cur \in Task /\ note \in [Task -> NoteType]
      /\ at \in [Task -> LocalsType]
  BY Standing DEF KInv, Control, Data, NoteType, Sound, Base
<1>2. CASE t # k.cur
  <2>1. t \in Sleepers(k) /\ pc[t] = "taken" /\ at'[t] = at[t]
    BY <1>2 DEF Calm
  <2>2. CASE t \in ToSet(k.event["pending"])
    BY <1>2, <2>2 DEF Calm
  <2>3. CASE t \notin ToSet(k.event["pending"])
    <3>1. note[t].state = "waiting" /\ (at[t].call.fn = "take" => note[t].val = 0)
      BY <2>1, <2>3 DEF Told
    <3>2. note'[t] = note[t] \/ t \in ToSet(k'.event["pending"])
      BY <1>1, <1>2, <3>1, NotifiedWakes
    <3> QED
      BY <2>1, <3>1, <3>2
  <2> QED
    BY <2>2, <2>3
<1>3. CASE t = k.cur
  <2>1. ASSUME pc[t] \in {"taken", "run", "take"} PROVE t \notin Sleepers(k)
    <3>1. Ready(k, t)
      BY <1>3, <2>1, Standing DEF Blocking
    <3> QED
      BY <1>1, <3>1 DEF Tidy
  <2>2. pc[t] # "taken"
    BY <1>3, <2>1 DEF Calm, Sleeping
  <2>3. PICK c \in CallsNow(t) :
          /\ c.fn \in {"take", "notifywait"} /\ Here(t, "take", c)
          /\ IF NotificationHeld(t, c.fn) THEN UNCHANGED <<k, note>>
             ELSE /\ note' = [note EXCEPT ![t].state = "waiting"]
                  /\ k' = IF c.wait > 0 THEN vTaskSwitchContext(DelayCurrentTask(k, c.wait)) ELSE k
          /\ Goto(t, "taken", Locals(t, c))
    BY <1>3, <2>2, ToTaken DEF NotifyTakeOrWait
  <2>4. pc[t] \in {"run", "take"}
    BY <2>3 DEF Here
  <2>5. ~NotificationHeld(t, c.fn)
    BY <2>1, <2>3, <2>4
  <2>6. note'[t].state = "waiting" /\ note'[t].val = note[t].val
    BY <1>1, <2>3, <2>5 DEF NoteType
  <2>7. at'[t].call = c
    <3>1. Locals(t, c).call = c
      BY <1>3, <2>3, <2>4, CallNow
    <3> QED
      BY <1>1, <2>3, <3>1 DEF Goto
  <2> QED
    BY <2>5, <2>6, <2>7 DEF NotificationHeld
<1> QED
  BY <1>2, <1>3

\* A list holds tasks.
LEMMA ListTasks ==
  ASSUME NEW s, Sound(s), NEW l \in Lists
  PROVE  ToSet(s.event[l]) \subseteq Task
<1>1. s.event[l] \in Seq(Task)
  BY DEF Sound, Tidy, Kernel
<1> QED
  BY <1>1 DEF ToSet

\* More bits meet no fewer conditions.
LEMMA TestMonotone ==
  ASSUME NEW a, NEW b, a \subseteq b, NEW c, prvTestWaitCondition(a, c)
  PROVE  prvTestWaitCondition(b, c)
BY DEF prvTestWaitCondition

\* What xEventGroupSetBits does to those who wait.
LEMMA SetReleases ==
  ASSUME KInv, NEW set
  PROVE  LET r == xEventGroupSetBits(k, group, set)
             bits == group.bits \cup set
         IN  /\ KeptSame(k, 0, r.k) /\ r.g.bits \subseteq bits
             /\ \A u \in ToSet(k.event[forBits]) :
                  prvTestWaitCondition(bits, group.item[u]) => u \notin ToSet(r.k.event[forBits])
             /\ \A u \in Task :
                  \/ r.g.item[u] = group.item[u]
                  \/ /\ u \in ToSet(k.event[forBits])
                     /\ prvTestWaitCondition(bits, group.item[u]) /\ r.g.item[u].by = bits
<1> DEFINE bits == group.bits \cup set
           released == {t \in ToSet(k.event[forBits]) : prvTestWaitCondition(bits, group.item[t])}
           cleared == UNION {group.item[t].want : t \in {u \in released : group.item[u].clear}}
           item == [t \in Task |-> IF t \notin released THEN group.item[t]
                                   ELSE [group.item[t] EXCEPT !.unblocked = TRUE, !.by = bits]]
           r == xEventGroupSetBits(k, group, set)
<1>1. r = [k |-> Release(k, released), g |-> [bits |-> bits \ cleared, item |-> item]]
  BY DEF xEventGroupSetBits
<1>2. group.item \in [Task -> ItemType]
  BY DEF KInv, Data
<1>3. /\ KeptSame(k, 0, Release(k, released))
      /\ \A u \in ToSet(k.event[forBits]) \cap released :
           u \notin ToSet(Release(k, released).event[forBits])
  BY Standing, EventLists, ReleaseMoves
<1>4. \A u \in ToSet(k.event[forBits]) :
        prvTestWaitCondition(bits, group.item[u]) => u \in released
  OBVIOUS
<1>5. \A u \in Task :
        item[u] = group.item[u] \/ (u \in released /\ item[u].by = bits)
  BY <1>2 DEF ItemType
<1>6. \A u \in released :
        u \in ToSet(k.event[forBits]) /\ prvTestWaitCondition(bits, group.item[u])
  OBVIOUS
<1> HIDE DEF released, cleared, item, r
<1>7. r.k = Release(k, released) /\ r.g.bits \subseteq bits /\ r.g.item = item
  BY <1>1
<1> QED
  BY <1>3, <1>4, <1>5, <1>6, <1>7 DEF r

\* What the test with the placing comes to.
LEMMA TakeOrPlaceEffect ==
  ASSUME KInv, pc[k.cur] = "bits", at[k.cur].call.fn \in {"waitbits", "sync"},
         NEW s, KeptSame(k, 0, s), NEW g \in GroupType, NEW met \in BOOLEAN,
         TakeOrPlace(k.cur, s, g, at[k.cur].call, met)
  PROVE  /\ k.cur \notin ToSet(k.event[forBits])
         /\ \/ k' = s /\ group'.bits \subseteq g.bits /\ group'.item = g.item
            \/ /\ Moves(s, k', {k.cur}, {k.cur}) /\ ~met
               /\ group' = [g EXCEPT !.item[k.cur] = Waiting(at[k.cur].call)]
<1> DEFINE t == k.cur
           c == at[t].call
<1>1. /\ Placed(t) /\ t \in Task /\ program \in Programs /\ Ready(k, t)
  BY Standing DEF Blocking
<1>2. c \in program.calls[t] /\ ~Linked(k, t)
  BY <1>1 DEF Placed, Where, Quiet
<1>3. c.wait \in Ticks /\ t # Idle
  BY <1>1, <1>2, CallFacts
<1>4. s.cur = t /\ Sound(s) /\ Ready(s, t) /\ ~Linked(s, t)
  BY <1>1, <1>2 DEF KeptSame, Moves
<1>5. t \notin ToSet(k.event[forBits])
  BY <1>2, EventLists DEF Linked, Lists
<1>6. CASE met
  <2>1. k' = s /\ group' = [g EXCEPT !.bits = IF c.clear THEN @ \ c.want ELSE @]
    BY <1>6 DEF TakeOrPlace
  <2> QED
    BY <1>5, <2>1 DEF GroupType
<1>7. CASE ~met /\ c.wait = 0
  <2>1. k' = s /\ group' = g
    BY <1>7 DEF TakeOrPlace
  <2> QED
    BY <1>5, <2>1
<1>8. CASE ~met /\ c.wait > 0
  <2> DEFINE w == vTaskPlaceOnUnorderedEventList(s, c.wait)
             took == [g EXCEPT !.bits = IF c.clear THEN @ \ c.want ELSE @]
             waits == [g EXCEPT !.item[t] = Waiting(c)]
             back(b) == [at[t] EXCEPT !.onward = b]
  <2>3. (CASE met -> k' = s /\ group' = took /\ Goto(t, "resume", back("return"))
           [] ~met /\ c.wait = 0 -> k' = s /\ group' = g /\ Goto(t, "resume", back("return"))
           [] ~met /\ c.wait > 0 -> k' = w /\ group' = waits /\ Goto(t, "resume", back("blocked")))
    BY DEF TakeOrPlace
  <2> HIDE DEF w, took, waits, back
  <2>5. ~met /\ c.wait > 0 /\ ~(c.wait = 0)
    BY <1>8
  <2>4. k' = w /\ group' = waits
    BY <2>3, <2>5
  <2>1. k' = vTaskPlaceOnUnorderedEventList(s, c.wait) /\ group' = [g EXCEPT !.item[t] = Waiting(c)]
    BY <2>4 DEF w, waits
  <2>2. Moves(s, k', {t}, {t})
    BY <1>3, <1>4, <2>1, PlaceBitsMoves
  <2> QED
    BY <1>5, <1>8, <2>1, <2>2
<1>9. c.wait = 0 \/ c.wait > 0
  BY <1>3, RtosAssumption DEF Ticks
<1> QED
  BY <1>6, <1>7, <1>8, <1>9

\* The bodies of the event-group calls run where they have come to.
LEMMA AtBits ==
  ASSUME KInv, Step(k.cur), pc[k.cur] = "bits"
  PROVE  xEventGroupWaitBits(k.cur) \/ xEventGroupSync(k.cur) \/ SetBits(k.cur)
<1> DEFINE t == k.cur
<1>1. /\ ~BeginSuspended(t) /\ ~vTaskSuspendAll(t) /\ ~ResumeAll(t) /\ ~Yield(t)
      /\ ~vTaskDelay(t) /\ ~vTaskDelayZero(t) /\ ~vTaskDelayUntil(t)
      /\ ~vTaskDelete(t) /\ ~ResetTime(t) /\ ~CreateTask(t) /\ ~IdleYields(t)
  BY DEF BeginSuspended, vTaskSuspendAll, ResumeAll, Yield, vTaskDelay, vTaskDelayZero,
     vTaskDelayUntil, vTaskDelete, ResetTime, CreateTask, IdleYields, Here
<1>2. /\ ~xQueueGenericSend(t) /\ ~xQueueGenericReceive(t) /\ ~prvLockQueue(t)
      /\ ~CheckForTimeOut(t) /\ ~CheckQueue(t) /\ ~PlaceOnEventList(t) /\ ~prvUnlockQueue(t)
      /\ ~xQueueGenericReset(t)
  BY DEF xQueueGenericSend, xQueueGenericReceive, prvLockQueue, CheckForTimeOut, CheckQueue,
     PlaceOnEventList, prvUnlockQueue, xQueueGenericReset, Here
<1>3. /\ ~NotifyTakeOrWait(t) /\ ~NotifyTaken(t) /\ ~xTaskGenericNotify(t)
      /\ ~xEventGroupClearBits(t) /\ ~WaitOver(t) /\ ~xListIsEmpty(t) /\ ~ReapTask(t)
  BY DEF NotifyTakeOrWait, NotifyTaken, xTaskGenericNotify, xEventGroupClearBits, WaitOver,
     xListIsEmpty, ReapTask, Here
<1> QED
  BY <1>1, <1>2, <1>3 DEF Step

LEMMA BitsKept ==
  ASSUME KInv, Step(k.cur) \/ Interrupt, Control', Calm, BitsAwaited
  PROVE  BitsAwaited'
<1> DEFINE t == k.cur
           c == at[t].call
<1>1. /\ t \in Task /\ program \in Programs /\ Placed(t) /\ group \in GroupType
      /\ forBits \in EventList /\ forBits \in Lists /\ k \in Kernel /\ KeptSame(k, 0, k)
  BY Standing, KeepsStill, EventLists DEF KInv, Data, GroupType, KeptSame, Lists
<1>2. /\ ToSet(k.event[forBits]) \subseteq Task /\ ToSet(k'.event[forBits]) \subseteq Task
  BY <1>1, ListTasks DEF KInv, Control
<1>3. \A u \in ToSet(k'.event[forBits]) : u \in ToSet(k.event[forBits]) \/ (u = t /\ pc[t] = "bits")
  BY <1>1, <1>2 DEF Calm, Entering
<1>4. ASSUME UNCHANGED group, ToSet(k'.event[forBits]) \subseteq ToSet(k.event[forBits])
      PROVE  BitsAwaited'
  BY <1>4 DEF BitsAwaited
<1>5. CASE Interrupt
  <2>1. UNCHANGED <<group, pc>>
    BY <1>5 DEF Interrupt
  <2>2. pc[t] = "bits" => t \notin ToSet(k'.event[forBits])
    BY <1>1, <2>1 DEF Control, Placed, Quiet, Linked
  <2> QED
    BY <1>3, <1>4, <2>1, <2>2
<1>6. ASSUME NEW s, KeptSame(k, 0, s), NEW g \in GroupType, NEW met \in BOOLEAN,
             pc[t] = "bits", c.fn \in {"waitbits", "sync"}, TakeOrPlace(t, s, g, c, met),
             \A u \in ToSet(s.event[forBits]) : ~prvTestWaitCondition(g.bits, g.item[u]),
             ~met => ~prvTestWaitCondition(g.bits, c)
      PROVE  BitsAwaited'
  <2>1. CASE k' = s /\ group'.bits \subseteq g.bits /\ group'.item = g.item
    BY <1>6, <2>1, TestMonotone DEF BitsAwaited
  <2>2. CASE /\ Moves(s, k', {t}, {t}) /\ ~met
             /\ group' = [g EXCEPT !.item[t] = Waiting(c)]
    <3> SUFFICES ASSUME NEW u \in ToSet(k'.event[forBits])
                 PROVE  ~prvTestWaitCondition(group'.bits, group'.item[u])
      BY DEF BitsAwaited
    <3>1. u \in Task
      BY <1>2
    <3>2. group'.bits = g.bits /\ group'.item = [g.item EXCEPT ![t] = Waiting(c)]
      BY <2>2 DEF GroupType
    <3>3. CASE u = t
      <4>1. group'.item[u] = Waiting(c)
        BY <1>1, <3>2, <3>3 DEF GroupType
      <4>2. ~prvTestWaitCondition(g.bits, Waiting(c))
        BY <1>6, <2>2 DEF prvTestWaitCondition, Waiting
      <4> QED
        BY <3>2, <4>1, <4>2
    <3>4. CASE u # t
      <4>1. u \in ToSet(s.event[forBits])
        BY <1>1, <2>2, <3>1, <3>4 DEF Moves
      <4>2. group'.item[u] = g.item[u]
        BY <3>1, <3>2, <3>4 DEF GroupType
      <4> QED
        BY <1>6, <3>2, <4>1, <4>2
    <3> QED
      BY <3>3, <3>4
  <2>3. \/ k' = s /\ group'.bits \subseteq g.bits /\ group'.item = g.item
        \/ /\ Moves(s, k', {t}, {t}) /\ ~met
           /\ group' = [g EXCEPT !.item[t] = Waiting(c)]
    BY <1>6, TakeOrPlaceEffect
  <2> QED
    BY <2>1, <2>2, <2>3
<1>7. ASSUME pc[t] = "bits"
      PROVE  c \in program.calls[t]
  BY <1>1, <1>7 DEF Placed, Where
<1>8. CASE xEventGroupWaitBits(t)
  <2>1. /\ pc[t] = "bits" /\ c.fn = "waitbits"
        /\ TakeOrPlace(t, k, group, c, prvTestWaitCondition(group.bits, c))
    BY <1>8 DEF xEventGroupWaitBits
  <2> QED
    BY <1>1, <1>6, <2>1, Boolean DEF BitsAwaited
<1>9. ASSUME NEW set,
             NEW r, r = xEventGroupSetBits(k, group, set)
      PROVE  /\ KeptSame(k, 0, r.k) /\ r.g.bits \subseteq group.bits \cup set
             /\ \A u \in ToSet(r.k.event[forBits]) : ~prvTestWaitCondition(r.g.bits, r.g.item[u])
  <2> DEFINE bits == group.bits \cup set
  <2>1. /\ KeptSame(k, 0, r.k) /\ r.g.bits \subseteq bits
        /\ \A u \in ToSet(k.event[forBits]) :
             prvTestWaitCondition(bits, group.item[u]) => u \notin ToSet(r.k.event[forBits])
        /\ \A u \in Task :
             \/ r.g.item[u] = group.item[u]
             \/ /\ u \in ToSet(k.event[forBits])
                /\ prvTestWaitCondition(bits, group.item[u]) /\ r.g.item[u].by = bits
    BY <1>9, SetReleases
  <2> HIDE DEF bits
  <2>2. ASSUME NEW u \in ToSet(r.k.event[forBits])
        PROVE  ~prvTestWaitCondition(r.g.bits, r.g.item[u])
    <3>1. u \in Task
      BY <1>1, <2>1, ListTasks DEF KeptSame, Moves
    <3>2. u \in ToSet(k.event[forBits])
      BY <1>1, <2>1, <3>1 DEF KeptSame, Moves
    <3>3. ~prvTestWaitCondition(bits, group.item[u]) /\ r.g.item[u] = group.item[u]
      BY <2>1, <3>1, <3>2
    <3> QED
      BY <2>1, <3>3, TestMonotone
  <2> QED
    BY <2>1, <2>2 DEF bits
<1>10. CASE xEventGroupSync(t)
  <2>1. PICK r : r = xEventGroupSetBits(k, group, c.set)
    OBVIOUS
  <2>2. /\ pc[t] = "bits" /\ c.fn = "sync"
        /\ TakeOrPlace(t, r.k, r.g, c, c.want \subseteq group.bits \cup c.set)
    BY <1>10, <2>1 DEF xEventGroupSync
  <2>3. c.set \subseteq Bits /\ c.all
    <3>1. c \in program.calls[t]
      BY <1>7, <2>2
    <3> QED
      BY <1>1, <2>2, <3>1, ProgramsAssumption
  <2>4. r.g \in GroupType
    BY <1>1, <2>1, <2>3, SetTyped
  <2>5. /\ KeptSame(k, 0, r.k) /\ r.g.bits \subseteq group.bits \cup c.set
        /\ \A u \in ToSet(r.k.event[forBits]) : ~prvTestWaitCondition(r.g.bits, r.g.item[u])
    BY <1>9, <2>1
  <2>6. PICK met \in BOOLEAN : met = (c.want \subseteq group.bits \cup c.set)
    OBVIOUS
  <2>7. ~met => ~prvTestWaitCondition(r.g.bits, c)
    BY <2>3, <2>5, <2>6 DEF prvTestWaitCondition
  <2>8. TakeOrPlace(t, r.k, r.g, c, met)
    BY <2>2, <2>6
  <2> QED
    BY <1>6, <2>2, <2>4, <2>5, <2>7, <2>8
<1>11. CASE SetBits(t)
  <2>1. PICK r : r = xEventGroupSetBits(k, group, c.set)
    OBVIOUS
  <2>2. k' = r.k /\ group' = r.g
    BY <1>11, <2>1 DEF SetBits
  <2> QED
    BY <1>9, <2>1, <2>2 DEF BitsAwaited
<1>12. CASE xEventGroupClearBits(t)
  <2>1. PICK set : UNCHANGED k /\ group' = [group EXCEPT !.bits = group.bits \ set]
    BY <1>12 DEF xEventGroupClearBits
  <2>2. group'.bits \subseteq group.bits /\ group'.item = group.item
    BY <1>1, <2>1 DEF GroupType
  <2> QED
    BY <2>1, <2>2, TestMonotone DEF BitsAwaited
<1>13. CASE WaitOver(t)
  <2>1. PICK bits \in SUBSET group.bits :
          UNCHANGED k /\ group' = [bits |-> bits, item |-> [group.item EXCEPT ![t] = NotInUse]]
    BY <1>13 DEF WaitOver
  <2> SUFFICES ASSUME NEW u \in ToSet(k.event[forBits])
               PROVE  ~prvTestWaitCondition(bits, group'.item[u])
    BY <2>1 DEF BitsAwaited
  <2>2. CASE u = t
    <3>1. group'.item[u] = NotInUse
      BY <1>1, <2>1, <2>2 DEF GroupType
    <3> QED
      BY <3>1 DEF NotInUse, prvTestWaitCondition
  <2>3. CASE u # t
    <3>1. group'.item[u] = group.item[u]
      BY <1>1, <1>2, <2>1, <2>3 DEF GroupType
    <3> QED
      BY <3>1, TestMonotone DEF BitsAwaited
  <2> QED
    BY <2>2, <2>3
<1>14. ASSUME Step(t), pc[t] # "bits", UNCHANGED group PROVE BitsAwaited'
  BY <1>3, <1>4, <1>14
<1>15. CASE Step(t)
  <2>1. CASE pc[t] = "bits"
    BY <1>8, <1>10, <1>11, <1>15, <2>1, AtBits
  <2>2. CASE pc[t] # "bits"
    <3>1. UNCHANGED group \/ xEventGroupClearBits(t) \/ WaitOver(t)
      BY <1>15, <2>2 DEF Step, xEventGroupWaitBits, xEventGroupSync, SetBits
    <3> QED
      BY <1>12, <1>13, <1>14, <1>15, <2>2, <3>1
  <2> QED
    BY <2>1, <2>2
<1> QED
  BY <1>5, <1>15

LEMMA CallInvKept ==
  ASSUME CallInv, [Next]_vars
  PROVE  CallInv'
<1>1. CASE Next
  <2>1. KInv' /\ Calm
    <3>1. (Step(k.cur) \/ Interrupt) /\ UNCHANGED program
      BY <1>1 DEF Next
    <3> QED
      BY <1>1, <3>1, NextKeeps, StepCarries DEF CallInv
  <2>2. Step(k.cur) \/ Interrupt
    BY <1>1 DEF Next
  <2>3. Control'
    BY <2>1 DEF KInv
  <2> QED
    BY <2>1, <2>2, <2>3, ToldKept, BitsKept DEF CallInv
<1>2. CASE UNCHANGED vars
  BY <1>2 DEF CallInv, KInv, Base, Data, Control, SuspendExcludes, Suspending, Placed, Told,
     BitsAwaited, vars
<1> QED
  BY <1>1, <1>2

LEMMA CallInvStarts ==
  ASSUME Init
  PROVE  CallInv
<1>1. KInv
  BY InitKeeps
<1>2. \A t \in Task : pc[t] = "run"
  BY DEF Init
<1>3. \A l \in EventList : k.event[l] = <<>>
  BY FreshKernel DEF Lists
<1>4. ToSet(k.event[forBits]) = {}
  BY <1>3, EventLists DEF ToSet
<1> QED
  BY <1>1, <1>2, <1>4 DEF CallInv, Told, BitsAwaited

THEOREM CallsServed == Spec => []CallInv
<1>1. Init => CallInv
  BY CallInvStarts
<1>2. CallInv /\ [Next]_vars => CallInv'
  BY CallInvKept
<1> QED
  BY <1>1, <1>2, PTL DEF Spec

\* GiveWakes: a task that sleeps in ulTaskNotifyTake or xTaskNotifyWait has not been
\* notified, unless xTaskResumeAll is to make it ready.
THEOREM NotificationsWake == Spec => []GiveWakes
<1>1. ASSUME CallInv PROVE GiveWakes
  <2> SUFFICES ASSUME NEW t \in Sleepers(k), pc[t] = "taken",
                      ~(note[t].state = "waiting" /\ (at[t].call.fn = "take" => note[t].val = 0))
               PROVE  Events(t) = {"pending"}
    BY DEF GiveWakes
  <2>1. /\ k \in Kernel /\ Tidy(k) /\ "pending" \in Lists
    BY <1>1 DEF CallInv, KInv, Control, Sound, Tidy, Lists
  <2>2. t \in Task
    BY <2>1 DEF Kernel, Sleepers, ToSet
  <2>3. t \in ToSet(k.event["pending"])
    BY <1>1, <2>2 DEF CallInv, Told
  <2>4. DOMAIN k.event = Lists
    BY <2>1 DEF Kernel
  <2>5. \A l \in Lists : t \in ToSet(k.event[l]) => l = "pending"
    BY <2>1, <2>3 DEF Tidy
  <2> QED
    BY <2>1, <2>3, <2>4, <2>5 DEF Events
<1> QED
  BY <1>1, CallsServed, PTL

\* NoBitsMissed: no task waits for bits that are there (xEventGroupSetBits against the
\* test with the placing, and against a wait that runs out).
THEOREM BitsAreSeen == Spec => []NoBitsMissed
<1>1. CallInv => NoBitsMissed
  BY DEF CallInv, BitsAwaited, NoBitsMissed
<1> QED
  BY <1>1, CallsServed, PTL

\* The bits that release one task release all who wait for them.
LEMMA ReleasesAll ==
  ASSUME KInv, Step(k.cur) \/ Interrupt, NEW t \in Task, NEW u \in Task,
         ~group.item[t].unblocked, group'.item[t].unblocked, u \in ToSet(k.event[forBits]),
         prvTestWaitCondition(group'.item[t].by, group.item[u])
  PROVE  u \notin ToSet(k'.event[forBits])
<1> DEFINE me == k.cur
           c == at[me].call
<1>1. /\ me \in Task /\ program \in Programs /\ Placed(me) /\ group \in GroupType
      /\ forBits \in EventList /\ k \in Kernel /\ KeptSame(k, 0, k)
  BY Standing, KeepsStill, EventLists DEF KInv, Data, GroupType, KeptSame
<1>2. ASSUME NEW r, r = xEventGroupSetBits(k, group, c.set), r.g.item[t].unblocked,
             r.g.item[t].by = group'.item[t].by
      PROVE  KeptSame(k, 0, r.k) /\ u \notin ToSet(r.k.event[forBits])
  <2>1. /\ KeptSame(k, 0, r.k)
        /\ prvTestWaitCondition(group.bits \cup c.set, group.item[u])
             => u \notin ToSet(r.k.event[forBits])
        /\ \/ r.g.item[t] = group.item[t]
           \/ r.g.item[t].by = group.bits \cup c.set
    BY <1>2, SetReleases, Zenon
  <2> QED
    BY <1>2, <2>1, Zenon
<1>3. ASSUME NEW s, KeptSame(k, 0, s), NEW g \in GroupType, NEW met \in BOOLEAN,
             pc[me] = "bits", c.fn \in {"waitbits", "sync"}, TakeOrPlace(me, s, g, c, met)
      PROVE  /\ g.item[t] = group'.item[t]
             /\ u \notin ToSet(s.event[forBits]) => u \notin ToSet(k'.event[forBits])
  <2>1. /\ me \notin ToSet(k.event[forBits])
        /\ \/ k' = s /\ group'.item = g.item
           \/ Moves(s, k', {me}, {me}) /\ group' = [g EXCEPT !.item[me] = Waiting(c)]
    <3>1. /\ KInv /\ pc[k.cur] = "bits" /\ at[k.cur].call.fn \in {"waitbits", "sync"}
          /\ KeptSame(k, 0, s) /\ g \in GroupType /\ met \in BOOLEAN
          /\ TakeOrPlace(k.cur, s, g, at[k.cur].call, met)
      BY <1>3
    <3> QED
      BY ONLY <3>1, TakeOrPlaceEffect
  <2>2. CASE k' = s /\ group'.item = g.item
    BY <2>2
  <2>3. CASE Moves(s, k', {me}, {me}) /\ group' = [g EXCEPT !.item[me] = Waiting(c)]
    <3>1. group'.item = [g.item EXCEPT ![me] = Waiting(c)] /\ g.item \in [Task -> ItemType]
      BY <2>3 DEF GroupType
    <3>2. t # me
      BY <1>1, <3>1 DEF Waiting
    <3>3. u # me
      BY <2>1
    <3>4. u \notin ToSet(s.event[forBits]) => u \notin ToSet(k'.event[forBits])
      BY <1>1, <2>3, <3>3 DEF Moves
    <3> QED
      BY <3>1, <3>2, <3>4
  <2> QED
    BY <2>1, <2>2, <2>3
<1>4. CASE xEventGroupWaitBits(me)
  <2>1. /\ pc[me] = "bits" /\ c.fn = "waitbits"
        /\ TakeOrPlace(me, k, group, c, prvTestWaitCondition(group.bits, c))
    BY <1>4 DEF xEventGroupWaitBits
  <2>2. group.item[t] = group'.item[t]
    BY <1>1, <1>3, <2>1, Boolean
  <2> QED
    BY <2>2
<1>5. CASE xEventGroupSync(me)
  <2>1. PICK r : r = xEventGroupSetBits(k, group, c.set)
    OBVIOUS
  <2>2. /\ pc[me] = "bits" /\ c.fn = "sync"
        /\ TakeOrPlace(me, r.k, r.g, c, c.want \subseteq group.bits \cup c.set)
    BY <1>5, <2>1 DEF xEventGroupSync
  <2>3. c.set \subseteq Bits
    <3>1. c \in program.calls[me]
      BY <1>1, <2>2 DEF Placed, Where
    <3> QED
      BY <1>1, <2>2, <3>1, ProgramsAssumption
  <2>4. r.g \in GroupType /\ KeptSame(k, 0, r.k)
    BY <1>1, <2>1, <2>3, SetTyped, SetEffect
  <2>5. PICK met \in BOOLEAN : met = (c.want \subseteq group.bits \cup c.set)
    OBVIOUS
  <2>6. TakeOrPlace(me, r.k, r.g, c, met)
    BY <2>2, <2>5
  <2>7. /\ r.g.item[t] = group'.item[t]
        /\ u \notin ToSet(r.k.event[forBits]) => u \notin ToSet(k'.event[forBits])
    BY <1>3, <2>2, <2>4, <2>6
  <2> QED
    BY <1>2, <2>1, <2>7
<1>6. CASE SetBits(me)
  <2>1. PICK r : r = xEventGroupSetBits(k, group, c.set)
    OBVIOUS
  <2>2. k' = r.k /\ group' = r.g
    BY <1>6, <2>1, Zenon DEF SetBits
  <2> QED
    BY <1>2, <2>1, <2>2, Zenon
<1>7. CASE xEventGroupClearBits(me)
  <2>1. PICK set : group' = [group EXCEPT !.bits = group.bits \ set]
    BY <1>7 DEF xEventGroupClearBits
  <2>2. group'.item = group.item
    BY <1>1, <2>1 DEF GroupType
  <2> QED
    BY <2>2
<1>8. CASE WaitOver(me)
  <2>1. group'.item = [group.item EXCEPT ![me] = NotInUse]
    BY <1>8 DEF WaitOver
  <2>2. group'.item[t] = group.item[t] \/ group'.item[t] = NotInUse
    BY <1>1, <2>1 DEF GroupType
  <2> QED
    BY <2>2 DEF NotInUse
<1>9. \/ UNCHANGED group
      \/ xEventGroupWaitBits(me) \/ xEventGroupSync(me) \/ SetBits(me)
      \/ xEventGroupClearBits(me) \/ WaitOver(me)
  BY DEF Step, Interrupt
<1> QED
  BY <1>4, <1>5, <1>6, <1>7, <1>8, <1>9

\* ReleasedTogether: a rendezvous lets all go, although each clears the bits on its
\* way out (xEventGroupSync, xEventGroupSetBits).
THEOREM RendezvousHolds == Spec => ReleasedTogether
<1> DEFINE A == \A t, u \in Task :
       (~group.item[t].unblocked /\ group'.item[t].unblocked /\ u \in ToSet(k.event[forBits])
          /\ prvTestWaitCondition(group'.item[t].by, group.item[u]))
         => u \notin ToSet(k'.event[forBits])
<1>1. ASSUME KInv, [Next]_vars PROVE [A]_vars
  <2>1. CASE Next
    <3>1. Step(k.cur) \/ Interrupt
      BY <2>1 DEF Next
    <3> QED
      BY <1>1, <3>1, ReleasesAll
  <2>2. CASE UNCHANGED vars
    BY <2>2
  <2> QED
    BY <1>1, <2>1, <2>2
<1>2. KInv /\ [Next]_vars => [A]_vars
  BY <1>1
<1>3. Spec => [][A]_vars
  <2> HIDE DEF A
  <2> QED
    BY <1>2, KernelInvariant, PTL DEF Spec
<1> QED
  BY <1>3 DEF ReleasedTogether

-----------------------------------------------------------------------------
\* Priorities and time: the highest task runs, and sleeping tasks wake in time.

\* A task that a handler has notified, for which no switch is noted.
Exempt(t) == pc[t] = "taken" /\ "give" \in program.isr

\* A task that is ready above the current one has been noted, or the current task
\* is about to yield.
Prompt ==
  \/ k.yield \/ pc[k.cur] = "yield"
  \/ \A t \in Task : Ready(k, t) => Prio[t] <= Prio[k.cur] \/ Exempt(t)

\* What a step does about the tasks it makes ready.
Minds ==
  \/ k'.yield \/ Highest(k')
  \/ k'.cur = k.cur /\ pc'[k.cur] = "yield"
  \/ /\ k'.cur = k.cur /\ ~k.yield /\ pc[k.cur] # "yield"
     /\ \A t \in Task : Ready(k', t) => Ready(k, t) \/ Prio[t] <= Prio[k.cur] \/ Exempt(t)

\* A call asks for the time its caller passed, or for the rest of it; what is left
\* of a wait is zero only just before the count wraps.
WaitFits(t) ==
  /\ pc[t] # "take"
  /\ pc[t] \in {"suspend", "delay", "bits"} /\ ~Waits(at[t].call.fn) /\ at[t].call.fn # "create"
       => at[t].wait = at[t].call.wait
  /\ pc[t] \in {"check", "place"} /\ at[t].wait = 0 => k.tick < TickMod - 1

\* Time has passed, or the current task has gone to sleep.
Timely ==
  \/ \E n \in Ticks : Passed(k, n, k')
  \/ \E n \in Ticks : /\ SleepsFor(k, k', n) /\ k.cur \notin Sleepers(k)
                      /\ ToSleep(k.cur) = Max({1, n})

\* What the history variable knows of a sleeping task.
InTime == \A t \in Sleepers(k) : left[t] = Max({1, Due(k, t)})

Punctual == OnTime(k) /\ InTime /\ (\A t \in Task : WaitFits(t)) /\ Prompt

LEMMA DueTyped ==
  ASSUME NEW s, Tidy(s), NEW t \in Sleepers(s)
  PROVE  Due(s, t) \in Int
<1>1. s \in Kernel /\ TickMod \in Int
  BY RtosAssumption DEF Tidy
<1>2. t \in Task /\ s.wake \in [Task -> Ticks] /\ s.tick \in Ticks
  BY <1>1 DEF Kernel, Sleepers, ToSet
<1>3. s.wake[t] \in Int /\ s.tick \in Int
  BY <1>2 DEF Ticks
<1> QED
  BY <1>1, <1>3 DEF Due

\* Time stands still.
LEMMA RestsPass ==
  ASSUME NEW c, NEW s, Tidy(c), OnTime(c), Rests(c, s)
  PROVE  0 \in Ticks /\ Passed(c, 0, s)
<1>1. /\ OnTime(s) /\ s.tick = c.tick /\ Sleepers(s) \subseteq Sleepers(c)
      /\ \A t \in Sleepers(s) : Due(s, t) = Due(c, t)
  BY RestsDue
<1>2. c.tick \in Ticks /\ \A t \in Sleepers(s) : Due(c, t) \in Int
  BY <1>1, DueTyped DEF Tidy, Kernel
<1>3. c.tick + 0 = c.tick /\ 0 \in Ticks
  BY <1>2, RtosAssumption DEF Ticks
<1>4. \A t \in Sleepers(s) : Due(s, t) = Due(c, t) - 0
  BY <1>1, <1>2
<1> QED
  BY <1>1, <1>3, <1>4 DEF Passed

\* A step that keeps the scheduler's promises.
LEMMA KeepsMinds ==
  ASSUME KInv, OnTime(k), Keeps(k, k'), pc[k.cur] # "yield"
  PROVE  Minds /\ Timely
<1>1. Timely
  BY Standing, RestsPass DEF Keeps, Timely
<1>2. Minds
  BY DEF Keeps, Heeds, Minds
<1> QED
  BY <1>1, <1>2

LEMMA StillMinds ==
  ASSUME KInv, OnTime(k), UNCHANGED k, pc[k.cur] # "yield"
  PROVE  Minds /\ Timely
BY KeepsStill, KeepsMinds

\* A step that ends with a switch.
LEMMA SwitchMinds ==
  ASSUME KInv, OnTime(k), k' = vTaskSwitchContext(k)
  PROVE  Minds /\ Timely
<1>1. Rests(k, k') /\ (k'.yield \/ Highest(k'))
  BY Standing, SwitchMoves
<1> QED
  BY <1>1, Standing, RestsPass DEF Minds, Timely

LEMMA ResumeMinds ==
  ASSUME KInv, OnTime(k), ResumeAll(k.cur)
  PROVE  Minds /\ Timely
<1> DEFINE r == xTaskResumeAll(k)
<1>1. pc[k.cur] = "resume" /\ k' = r.k
  BY DEF ResumeAll
<1>2. Sound(k) /\ k.susp = 1 /\ k.pended \in 0..program.held /\ program \in Programs
  BY <1>1, Standing DEF Suspending
<1>3. k.pended \in Ticks /\ k.pended < TickMod
  BY <1>2, CallsAssumption, RtosAssumption DEF Ticks
<1>4. Heeds(k, r.k) /\ Passed(k, k.pended, r.k)
  BY <1>2, <1>3, ResumeMoves
<1> HIDE DEF r
<1> QED
  BY <1>1, <1>3, <1>4 DEF Minds, Heeds, Timely

\* The current task goes to sleep for n ticks.
LEMMA SleepsMinds ==
  ASSUME KInv, OnTime(k), pc[k.cur] # "yield", k.cur \notin Sleepers(k), NEW n \in Ticks,
         SleepsFor(k, k', n), ToSleep(k.cur) = Max({1, n}), Heeds(k, k')
  PROVE  Minds /\ Timely
BY DEF Minds, Heeds, Timely

\* A task about to go to sleep.
LEMMA Awakened ==
  ASSUME KInv, Ready(k, k.cur), NEW c, c \in program.calls[k.cur], c.fn # "idle"
  PROVE  /\ Sound(k) /\ Tidy(k) /\ k.cur \notin Sleepers(k) /\ k.cur # Idle
         /\ c.wait \in Ticks /\ (c.fn \in {"delay", "until"} => c.wait # 0)
<1>1. Sound(k) /\ Tidy(k) /\ k.cur \in Task /\ program \in Programs
  BY Standing
<1>2. k.cur \notin Sleepers(k)
  BY <1>1 DEF Tidy
<1>3. c.wait \in Ticks /\ k.cur # Idle
  BY <1>1, CallFacts
<1>4. c.fn \in {"delay", "until"} => c.wait # 0
  BY <1>1, ProgramsAssumption
<1> QED
  BY <1>1, <1>2, <1>3, <1>4

LEMMA DelayMinds ==
  ASSUME KInv, OnTime(k), WaitFits(k.cur), vTaskDelay(k.cur)
  PROVE  Minds /\ Timely
<1> DEFINE t == k.cur
           a == [at[t] EXCEPT !.onward = "blocked"]
           r == DelayCurrentTask(k, at[t].wait)
<1>1. pc[t] = "delay" /\ at[t].call.fn = "delay" /\ k' = r /\ at' = [at EXCEPT ![t] = a]
  BY DEF vTaskDelay, Goto
<1>2. /\ at[t] \in LocalsType /\ Placed(t) /\ t \in Task /\ Ready(k, t)
      /\ at \in [Task -> LocalsType]
  BY <1>1, Standing DEF Blocking, KInv, Base
<1>3. at[t].call \in program.calls[t]
  BY <1>1, <1>2 DEF Placed, Where
<1>4. at[t].wait = at[t].call.wait
  BY <1>1 DEF WaitFits, Waits
<1>5. /\ Sound(k) /\ Tidy(k) /\ t \notin Sleepers(k) /\ t # Idle
      /\ at[t].wait \in Ticks /\ at[t].wait # 0
  BY <1>1, <1>2, <1>3, <1>4, Awakened
<1>6. SleepsFor(k, r, at[t].wait)
  BY <1>5, DelayTicks
<1>7. Heeds(k, r)
  <2> DEFINE time == (k.tick + at[t].wait) % TickMod
  <2>1. time \in Ticks
    BY <1>5, WrappedTick DEF Tidy, Kernel
  <2> HIDE DEF time
  <2>2. Heeds(k, prvAddCurrentTaskToDelayedList(RemoveGenericItem(k, k.cur), time))
    BY <1>2, <1>5, <2>1, DelayMoves
  <2> QED
    BY <2>2 DEF DelayCurrentTask, time
<1>8. at'[t].call.fn = "delay" /\ at'[t].wait = at[t].wait
  BY <1>1, <1>2 DEF LocalsType
<1>9. ToSleep(t) = Max({1, at[t].wait})
  BY <1>8 DEF ToSleep
<1> HIDE DEF r
<1> QED
  BY <1>1, <1>5, <1>6, <1>7, <1>9, SleepsMinds

LEMMA UntilMinds ==
  ASSUME KInv, OnTime(k), WaitFits(k.cur), vTaskDelayUntil(k.cur)
  PROVE  Minds /\ Timely
<1> DEFINE t == k.cur
           time == (at[t].previous + at[t].wait) % TickMod
           a == [at[t] EXCEPT !.onward = "blocked", !.previous = time]
           r == prvAddCurrentTaskToDelayedList(RemoveGenericItem(k, t), time)
           n == (time - k.tick) % TickMod
<1>1. /\ pc[t] = "delay" /\ at[t].call.fn = "until" /\ at' = [at EXCEPT ![t] = a]
      /\ IF ShouldDelay(at[t].previous, time) THEN k' = r ELSE UNCHANGED k
  BY DEF vTaskDelayUntil, Goto
<1>2. /\ at[t] \in LocalsType /\ Placed(t) /\ t \in Task /\ Ready(k, t)
      /\ at \in [Task -> LocalsType] /\ k.tick \in Ticks
  BY <1>1, Standing DEF Blocking, KInv, Base, Kernel
<1>3. at[t].call \in program.calls[t]
  BY <1>1, <1>2 DEF Placed, Where
<1>4. Sound(k) /\ Tidy(k) /\ t \notin Sleepers(k) /\ t # Idle
  BY <1>1, <1>2, <1>3, Awakened
<1>5. time \in Ticks
  BY <1>2, WrappedTick DEF LocalsType
<1>6. n \in Ticks
  BY <1>2, <1>5, Reduced DEF Ticks
<1>7. at'[t].call.fn = "until" /\ at'[t].previous = time
  BY <1>1, <1>2 DEF LocalsType
<1>8. ToSleep(t) = Max({1, n})
  BY <1>7 DEF ToSleep
<1> HIDE DEF time, a
<1>9. CASE ShouldDelay(at[t].previous, time)
  <2>1. time # k.tick
    <3>1. at[t].previous \in Ticks
      BY <1>2 DEF LocalsType
    <3> QED
      BY <1>2, <1>5, <1>9, <3>1, RtosAssumption DEF ShouldDelay, Ticks
  <2>2. SleepsFor(k, r, n)
    BY <1>4, <1>5, <2>1, DelayTimes
  <2>3. Heeds(k, r)
    BY <1>2, <1>4, <1>5, DelayMoves
  <2>4. k' = r
    BY <1>1, <1>9
  <2> HIDE DEF r, n
  <2> QED
    BY <1>1, <1>4, <1>6, <1>8, <2>2, <2>3, <2>4, SleepsMinds
<1>10. CASE ~ShouldDelay(at[t].previous, time)
  BY <1>1, <1>10, StillMinds
<1> QED
  BY <1>9, <1>10

LEMMA DeleteMinds ==
  ASSUME KInv, OnTime(k), vTaskDelete(k.cur)
  PROVE  Minds /\ Timely
<1>0. PICK c \in CallsNow(k.cur) :
        c.fn = "delete" /\ Here(k.cur, "delete", c) /\ k' = LeaveLists(c.to)
  BY DEF vTaskDelete
<1>1. pc[k.cur] = "run"
  BY <1>0, Standing DEF Here, Labels
<1>2. c \in program.calls[k.cur] /\ Sound(k) /\ k.cur \in Task /\ program \in Programs
  BY <1>0, <1>1, CallNow, Standing
<1>3. c.to \in Task /\ c.to # Idle
  BY <1>0, <1>2, CallFacts
<1>4. Keeps(k, k')
  BY <1>0, <1>2, <1>3, DeleteMoves
<1> QED
  BY <1>1, <1>4, KeepsMinds

\* The next time to wake a task at is brought up to date; no task's time changes.
LEMMA ResetTimeMinds ==
  ASSUME KInv, OnTime(k), ResetTime(k.cur)
  PROVE  Minds /\ Timely
<1> DEFINE r == prvResetNextTaskUnblockTime(k)
<1>1. pc[k.cur] = "resettime" /\ k' = r
  BY DEF ResetTime
<1>2. Sound(k) /\ Tidy(k)
  BY Standing
<1>3. /\ SameClock(k, r) /\ r.delayed = k.delayed /\ r.overflow = k.overflow /\ r.wake = k.wake
      /\ r.ready = k.ready
      /\ \A t \in ToSet(k.delayed) : r.next <= k.wake[t]
  BY <1>2, ResetMoves DEF OnTime
<1> HIDE DEF r
<1>4. OnTime(r)
  BY <1>3 DEF OnTime, SameClock
<1>5. Sleepers(r) = Sleepers(k) /\ \A t : Due(r, t) = Due(k, t)
  BY <1>3 DEF Sleepers, Due, SameClock
<1>6. Rests(k, k) /\ r.tick = k.tick
  BY <1>3, KeepsStill DEF Keeps, SameClock
<1>7. 0 \in Ticks /\ Passed(k, 0, k)
  BY <1>2, <1>6, RestsPass
<1>8. Passed(k, 0, r)
  BY <1>4, <1>5, <1>6, <1>7 DEF Passed
<1>9. Heeds(k, r)
  BY <1>3, FewerHeeds DEF Ready
<1> QED
  BY <1>1, <1>7, <1>8, <1>9 DEF Minds, Heeds, Timely

\* A task created above the current one makes it yield.
LEMMA CreateMinds ==
  ASSUME KInv, OnTime(k), CreateTask(k.cur)
  PROVE  Minds /\ Timely
<1> DEFINE c == at[k.cur].call
           u == c.to
           r == prvAddTaskToReadyList(k, u)
<1>0. /\ pc[k.cur] = "create" /\ ~Listed(u) /\ k' = r
      /\ Prio[u] > Prio[k.cur] => Goto(k.cur, "yield", at[k.cur])
  BY DEF CreateTask, New
<1>1. pc[k.cur] = "create"
  BY <1>0
<1>2. /\ c \in program.calls[k.cur] /\ c.fn = "create" /\ Sound(k) /\ Tidy(k) /\ k.cur \in Task
      /\ program \in Programs /\ pc \in [Task -> Labels]
  BY <1>1, Standing DEF KInv, Base, Placed, Where
<1>3. u \in Task
  BY <1>0, <1>2, CallFacts
<1>4. ~Has(k, u)
  BY <1>0 DEF Listed, Has, Ready, Sleepers, Ended
<1>5. /\ SameClock(k, r) /\ Rests(k, r)
      /\ \A v \in Task : Ready(r, v) <=> Ready(k, v) \/ v = u
  BY <1>2, <1>3, <1>4, CreateMoves
<1>6. k' = r
  BY <1>0
<1> HIDE DEF r
<1>7. Timely
  BY <1>2, <1>5, <1>6, RestsPass DEF Timely
<1>8. CASE Prio[u] > Prio[k.cur]
  <2>1. pc'[k.cur] = "yield"
    BY <1>0, <1>2, <1>8 DEF Goto
  <2> QED
    BY <1>5, <1>6, <1>7, <2>1 DEF Minds, SameClock
<1>9. CASE ~(Prio[u] > Prio[k.cur])
  <2>1. Prio[u] <= Prio[k.cur]
    <3>1. Prio[u] \in Nat /\ Prio[k.cur] \in Nat
      BY <1>2, <1>3, RtosAssumption
    <3> QED
      BY <1>9, <3>1
  <2>2. Keeps(k, k')
    BY <1>5, <1>6, <2>1 DEF Keeps, Heeds, SameClock
  <2> QED
    BY <1>1, <2>2, KeepsMinds
<1> QED
  BY <1>8, <1>9

LEMMA IdleYieldsMinds ==
  ASSUME KInv, OnTime(k), IdleYields(k.cur)
  PROVE  Minds /\ Timely
BY StillMinds, SwitchMinds DEF IdleYields

LEMMA SuspendAllMinds ==
  ASSUME KInv, OnTime(k), vTaskSuspendAll(k.cur)
  PROVE  Minds /\ Timely
<1>1. pc[k.cur] = "suspend" /\ k' = [k EXCEPT !.susp = at[k.cur].read + 1]
  BY DEF vTaskSuspendAll
<1>2. /\ SameTimes(k, k') /\ k'.cur = k.cur /\ k'.yield = k.yield /\ k'.ready = k.ready
  BY <1>1, Standing DEF Kernel, SameTimes
<1>3. Keeps(k, k')
  BY <1>2, SameRests DEF Keeps, Heeds, Ready
<1> QED
  BY <1>1, <1>3, KeepsMinds

LEMMA PlaceMinds ==
  ASSUME KInv, OnTime(k), WaitFits(k.cur), PlaceOnEventList(k.cur)
  PROVE  Minds /\ Timely
<1> DEFINE t == k.cur
           a == [at[t] EXCEPT !.onward = "blocked"]
<1>1. pc[t] = "place" /\ at' = [at EXCEPT ![t] = a]
  BY DEF PlaceOnEventList, Goto
<1>2. /\ Heeds(k, k') /\ at[t].wait \in Ticks /\ t \notin Sleepers(k)
      /\ at[t].wait # 0 \/ k.tick < TickMod - 1 => SleepsFor(k, k', at[t].wait)
      /\ Waits(at[t].call.fn)
  BY PlaceEffect
<1>3. at[t].wait # 0 \/ k.tick < TickMod - 1
  BY <1>1 DEF WaitFits
<1>4. at'[t].call.fn # "until" /\ at'[t].wait = at[t].wait
  BY <1>1, <1>2, Standing DEF KInv, Base, LocalsType, Waits
<1>5. ToSleep(t) = Max({1, at[t].wait})
  BY <1>4 DEF ToSleep
<1> QED
  BY <1>1, <1>2, <1>3, <1>5, SleepsMinds

LEMMA UnlockMinds ==
  ASSUME KInv, OnTime(k), prvUnlockQueue(k.cur)
  PROVE  Minds /\ Timely
<1>1. /\ pc[k.cur] \in {"unlockTx", "unlockRx"}
      /\ \E e \in EventList, count \in -1..127 : k' = WakeCounted(e, count)
  <2>1. q.tx \in -1..127 /\ q.rx \in -1..127
    BY DEF KInv, Data
  <2> QED
    BY <2>1, EventLists DEF prvUnlockQueue
<1>2. Keeps(k, k')
  BY <1>1, Standing, WakeCountedMoves DEF KeptSame
<1> QED
  BY <1>1, <1>2, KeepsMinds

\* The calls that use the queue at once.
LEMMA WakingMinds ==
  ASSUME KInv, OnTime(k),
         xQueueGenericSend(k.cur) \/ xQueueGenericReceive(k.cur) \/ xQueueGenericReset(k.cur)
  PROVE  Minds /\ Timely
<1>1. k' = k \/ \E l \in EventList : k' = Wake(l)
  BY EventLists DEF xQueueGenericSend, xQueueGenericReceive, xQueueGenericReset, Refused
<1>2. pc[k.cur] # "yield"
  BY DEF xQueueGenericSend, xQueueGenericReceive, xQueueGenericReset, Here
<1>3. Keeps(k, k')
  BY <1>1, Standing, WakeMoves, KeepsStill
<1> QED
  BY <1>2, <1>3, KeepsMinds

\* The steps that leave the scheduler as it is.
LEMMA OtherMinds ==
  ASSUME KInv, OnTime(k),
         \/ BeginSuspended(k.cur) \/ prvLockQueue(k.cur) \/ CheckForTimeOut(k.cur)
         \/ CheckQueue(k.cur) \/ NotifyTaken(k.cur) \/ xEventGroupClearBits(k.cur)
         \/ WaitOver(k.cur) \/ xListIsEmpty(k.cur)
  PROVE  Minds /\ Timely
<1>1. UNCHANGED k /\ pc[k.cur] # "yield"
  BY DEF BeginSuspended, prvLockQueue, CheckForTimeOut, CheckQueue, NotifyTaken,
     xEventGroupClearBits, WaitOver, xListIsEmpty, Here
<1> QED
  BY <1>1, StillMinds

\* A task sleeps until it is notified, and another runs.
LEMMA TakeOrWaitMinds ==
  ASSUME KInv, OnTime(k), WaitFits(k.cur), NotifyTakeOrWait(k.cur)
  PROVE  Minds /\ Timely
<1>0. PICK c \in CallsNow(k.cur) :
        /\ c.fn \in {"take", "notifywait"} /\ Here(k.cur, "take", c)
        /\ \/ UNCHANGED k
           \/ c.wait > 0 /\ k' = vTaskSwitchContext(DelayCurrentTask(k, c.wait))
        /\ at' = [at EXCEPT ![k.cur] = Locals(k.cur, c)]
  BY DEF NotifyTakeOrWait, Goto
<1> DEFINE t == k.cur
           b == Locals(t, c)
           time == (k.tick + c.wait) % TickMod
           m == DelayCurrentTask(k, c.wait)
<1>1. pc[t] = "run"
  BY <1>0 DEF Here, WaitFits
<1>2. /\ c \in program.calls[t] /\ t \in Task /\ Ready(k, t) /\ k.susp = 0
      /\ at \in [Task -> LocalsType] /\ at[t] \in LocalsType
  BY <1>0, <1>1, CallNow, Standing DEF Blocking, Suspending, KInv, Base
<1>3. /\ Sound(k) /\ Tidy(k) /\ t \notin Sleepers(k) /\ t # Idle /\ c.wait \in Ticks
  BY <1>0, <1>2, Awakened
<1>4. b.call = c /\ b.wait = c.wait
  BY <1>1, <1>2 DEF Locals, LocalsType
<1> HIDE DEF b
<1>5. at'[t] = b
  BY <1>0, <1>2 DEF b
<1>6. ToSleep(t) = Max({1, c.wait})
  BY <1>0, <1>4, <1>5 DEF ToSleep
<1>7. CASE UNCHANGED k
  BY <1>1, <1>7, StillMinds
<1>8. CASE c.wait > 0 /\ k' = vTaskSwitchContext(m)
  <2>1. SleepsFor(k, m, c.wait)
    BY <1>3, <1>8, DelayTicks
  <2>2. time \in Ticks
    BY <1>3, WrappedTick DEF Tidy, Kernel
  <2> HIDE DEF time
  <2>3. Moves(k, m, {t}, {})
    <3> DEFINE r == prvAddCurrentTaskToDelayedList(RemoveGenericItem(k, k.cur), time)
    <3>1. Moves(k, r, {k.cur}, {})
      BY <1>2, <1>3, <2>2, DelayMoves
    <3> QED
      BY <3>1 DEF DelayCurrentTask, time
  <2> HIDE DEF m
  <2>4. Sound(m) /\ Tidy(m) /\ m.susp = 0
    BY <1>2, <2>3 DEF Moves, Sound
  <2>5. Rests(m, k') /\ Highest(k')
    BY <1>8, <2>4, SwitchMoves
  <2>6. SleepsFor(k, k', c.wait)
    BY <2>1, <2>4, <2>5, SleepsOn
  <2> QED
    BY <1>3, <1>6, <2>5, <2>6 DEF Minds, Timely
<1> QED
  BY <1>0, <1>7, <1>8

LEMMA GiveMinds ==
  ASSUME KInv, OnTime(k), xTaskGenericNotify(k.cur)
  PROVE  Minds /\ Timely
<1>0. PICK c \in CallsNow(k.cur) :
        /\ c.fn = "give" /\ Here(k.cur, "give", c) /\ Alive(c.to)
        /\ k' = IF note[c.to].state = "waiting"
                THEN Switched(MakeReady(k, c.to), Prio[c.to] > Prio[k.cur]) ELSE k
  BY DEF xTaskGenericNotify
<1> DEFINE u == c.to
           r == MakeReady(k, u)
           above == Prio[u] > Prio[k.cur]
<1>1. pc[k.cur] = "run"
  BY <1>0, Standing DEF Here, Labels
<1>2. c \in program.calls[k.cur] /\ Sound(k) /\ Tidy(k) /\ k.cur \in Task /\ program \in Programs
  BY <1>0, <1>1, CallNow, Standing
<1>3. u \in Task
  BY <1>0, <1>2, CallFacts
<1>4. Has(k, u) /\ u \notin Ended(k)
  BY <1>0 DEF Alive, Listed, Has, Ready, Sleepers, Ended
<1>5. CASE note[u].state # "waiting"
  BY <1>0, <1>1, <1>5, StillMinds
<1>6. CASE note[u].state = "waiting"
  <2>1. ~Linked(k, u)
    BY <1>3, <1>6 DEF KInv, Control, Placed
  <2>2. /\ Moves(k, r, {}, {}) /\ SameClock(k, r) /\ Rests(k, r)
        /\ \A v \in Task : Ready(r, v) <=> Ready(k, v) \/ v = u
    BY <1>2, <1>3, <1>4, <2>1, NotifyMoves
  <2>3. k' = Switched(r, above)
    BY <1>0, <1>6
  <2> HIDE DEF r
  <2>4. Sound(r)
    BY <2>2 DEF Moves
  <2>5. SameTimes(r, k') /\ (IF above THEN k'.yield \/ Highest(k') ELSE k' = r)
    BY <2>3, <2>4, SwitchedMoves
  <2>6. Rests(k, k')
    <3>1. Rests(r, k')
      BY <2>5, SameRests
    <3> QED
      BY <2>2, <3>1, RestsOn
  <2>7. Timely
    BY <1>2, <2>6, RestsPass DEF Timely
  <2>9. CASE above
    BY <2>5, <2>7, <2>9 DEF Minds
  <2>10. CASE ~above
    <3>1. k' = r
      BY <2>5, <2>10
    <3>2. Prio[u] <= Prio[k.cur]
      <4>1. Prio[u] \in Nat /\ Prio[k.cur] \in Nat
        BY <1>2, <1>3, RtosAssumption
      <4> QED
        BY <2>10, <4>1
    <3>3. Keeps(k, k')
      BY <2>2, <3>1, <3>2 DEF Keeps, Heeds, SameClock
    <3> QED
      BY <1>1, <3>3, KeepsMinds
  <2> QED
    BY <2>9, <2>10
<1> QED
  BY <1>5, <1>6

\* A task blocks for bits, perhaps after it has set some.
LEMMA TakeOrPlaceMinds ==
  ASSUME KInv, OnTime(k), WaitFits(k.cur), pc[k.cur] = "bits",
         at[k.cur].call.fn \in {"waitbits", "sync"}, NEW s, KeptSame(k, 0, s),
         NEW g, NEW met \in BOOLEAN, TakeOrPlace(k.cur, s, g, at[k.cur].call, met)
  PROVE  Minds /\ Timely
<1> DEFINE t == k.cur
           c == at[t].call
           a == [at[t] EXCEPT !.onward = "blocked"]
           r == vTaskPlaceOnUnorderedEventList(s, c.wait)
<1>1. /\ at[t] \in LocalsType /\ Placed(t) /\ t \in Task /\ Ready(k, t)
      /\ at \in [Task -> LocalsType] /\ Tidy(k)
  BY Standing DEF Blocking, KInv, Base
<1>2. c \in program.calls[t] /\ ~Linked(k, t)
  BY <1>1 DEF Placed, Where, Quiet
<1>3. t \notin Sleepers(k) /\ t # Idle /\ c.wait \in Ticks
  BY <1>1, <1>2, Awakened
<1>4. /\ Moves(k, s, {}, {}) /\ s.cur = t /\ Sound(s) /\ Keeps(k, s)
      /\ Ready(s, t) /\ ~Linked(s, t)
  BY <1>1, <1>2 DEF KeptSame, Moves
<1>5. k' = s \/ (c.wait # 0 /\ k' = r /\ at' = [at EXCEPT ![t] = a])
  <2>1. CASE met
    BY <2>1 DEF TakeOrPlace
  <2>2. CASE ~met /\ c.wait = 0
    BY <2>2 DEF TakeOrPlace
  <2>3. CASE ~met /\ c.wait > 0
    <3>1. c.wait # 0
      BY <1>3, <2>3, RtosAssumption DEF Ticks
    <3>2. k' = r /\ Goto(t, "resume", a)
      BY <2>3, <3>1 DEF TakeOrPlace
    <3> QED
      BY <3>1, <3>2 DEF Goto
  <2>4. c.wait = 0 \/ c.wait > 0
    BY <1>3, RtosAssumption DEF Ticks
  <2> QED
    BY <2>1, <2>2, <2>3, <2>4
<1>6. CASE k' = s
  BY <1>4, <1>6, KeepsMinds
<1>7. CASE c.wait # 0 /\ k' = r /\ at' = [at EXCEPT ![t] = a]
  <2>1. at'[t].call.fn # "until" /\ at'[t].wait = at[t].wait
    BY <1>1, <1>7 DEF LocalsType
  <2>2. at[t].wait = c.wait
    BY DEF WaitFits, Waits
  <2>3. ToSleep(t) = Max({1, c.wait})
    BY <2>1, <2>2 DEF ToSleep
  <2>4. OnTime(s)
    BY <1>1, <1>4, RestsDue DEF Keeps
  <2>5. Heeds(s, r) /\ SleepsFor(s, r, c.wait)
    BY <1>3, <1>4, <1>7, <2>4, PlaceBitsMoves
  <2> HIDE DEF r
  <2>6. SleepsFor(k, r, c.wait)
    BY <1>1, <1>4, <2>5, SleepsFrom DEF Keeps
  <2>7. Heeds(k, r)
    BY <1>4, <2>5, HeedsOn DEF Keeps
  <2>8. k' = r
    BY <1>7
  <2> QED
    BY <1>3, <2>3, <2>6, <2>7, <2>8, SleepsMinds
<1> QED
  BY <1>5, <1>6, <1>7

LEMMA WaitBitsMinds ==
  ASSUME KInv, OnTime(k), WaitFits(k.cur), xEventGroupWaitBits(k.cur)
  PROVE  Minds /\ Timely
<1>1. KeptSame(k, 0, k)
  BY Standing, KeepsStill DEF KeptSame
<1> QED
  BY <1>1, Boolean, TakeOrPlaceMinds DEF xEventGroupWaitBits

LEMMA SyncMinds ==
  ASSUME KInv, OnTime(k), WaitFits(k.cur), xEventGroupSync(k.cur)
  PROVE  Minds /\ Timely
<1> DEFINE c == at[k.cur].call
           r == xEventGroupSetBits(k, group, c.set)
<1>1. /\ pc[k.cur] = "bits" /\ c.fn = "sync"
      /\ TakeOrPlace(k.cur, r.k, r.g, c, c.want \subseteq group.bits \cup c.set)
  BY DEF xEventGroupSync
<1>2. KeptSame(k, 0, r.k)
  BY SetEffect
<1>3. (c.want \subseteq group.bits \cup c.set) \in BOOLEAN
  OBVIOUS
<1> HIDE DEF r
<1> QED
  BY <1>1, <1>2, <1>3, TakeOrPlaceMinds

LEMMA SetBitsMinds ==
  ASSUME KInv, OnTime(k), SetBits(k.cur)
  PROVE  Minds /\ Timely
<1>1. pc[k.cur] = "bits" /\ k' = xEventGroupSetBits(k, group, at[k.cur].call.set).k
  BY DEF SetBits
<1>2. Keeps(k, k')
  BY <1>1, SetEffect DEF KeptSame
<1> QED
  BY <1>1, <1>2, KeepsMinds

LEMMA ReapMinds ==
  ASSUME KInv, OnTime(k), ReapTask(k.cur)
  PROVE  Minds /\ Timely
<1>1. pc[k.cur] = "reap" /\ k' = [k EXCEPT !.ended = Tail(@)]
  BY DEF ReapTask
<1>2. SameTimes(k, k') /\ k'.cur = k.cur /\ k'.yield = k.yield /\ k'.ready = k.ready
  BY <1>1, Standing DEF Kernel, SameTimes
<1>3. Keeps(k, k')
  BY <1>2, SameRests DEF Keeps, Heeds, Ready
<1> QED
  BY <1>1, <1>3, KeepsMinds

\* A tick may come between the switch a task has asked for and its yield.
LEMMA TickMinds ==
  ASSUME KInv, OnTime(k), Tick, UNCHANGED pc
  PROVE  Minds /\ Timely /\ (k.susp # 0 => k'.tick = k.tick)
<1> DEFINE r == xTaskIncrementTick(k)
<1>1. k' = Switched(r.k, r.switch)
  BY DEF Tick
<1>2. Sound(k) /\ Tidy(k)
  BY Standing
<1>3. /\ Moves(k, r.k, {}, {}) /\ r.k.cur = k.cur
      /\ r.k.yield = k.yield /\ (k.yield => r.switch)
      /\ \A t \in Task : Ready(r.k, t) => Ready(k, t) \/ r.switch \/ Prio[t] <= Prio[k.cur]
      /\ k.susp # 0 => SameTimes(k, r.k)
      /\ k.susp = 0 => Ticked(k, 1, r.k)
  BY <1>2, TickMoves
<1> HIDE DEF r
<1>4. Sound(r.k)
  BY <1>3 DEF Moves
<1>5. SameTimes(r.k, k') /\ (IF r.switch THEN k'.yield \/ Highest(k') ELSE k' = r.k)
  BY <1>1, <1>4, SwitchedMoves
<1>6. Minds
  BY <1>3, <1>5 DEF Minds
<1>7. CASE k.susp = 0
  <2>1. Ticked(k, 1, k')
    BY <1>3, <1>5, <1>7, TickedSame
  <2>2. Passed(k, 1, k')
    BY <2>1 DEF Ticked, Passed
  <2>3. 1 \in Ticks
    BY RtosAssumption DEF Ticks
  <2> QED
    BY <1>6, <1>7, <2>2, <2>3 DEF Timely
<1>8. CASE k.susp # 0
  <2>1. Rests(k, r.k) /\ Rests(r.k, k')
    BY <1>3, <1>5, <1>8, SameRests
  <2>2. Rests(k, k')
    BY <2>1, RestsOn
  <2>3. Timely
    BY <1>2, <2>2, RestsPass DEF Timely
  <2> QED
    BY <1>6, <2>2, <2>3 DEF Rests
<1> QED
  BY <1>7, <1>8

LEMMA FromISRMinds ==
  ASSUME KInv, OnTime(k), xQueueGenericSendFromISR \/ xQueueReceiveFromISR, UNCHANGED pc
  PROVE  Minds /\ Timely /\ k'.tick = k.tick
<1>1. \E l \in EventList : k' = k \/ (k.event[l] # <<>> /\ k' = xTaskRemoveFromEventList(k, l).k)
  BY EventLists DEF xQueueGenericSendFromISR, xQueueReceiveFromISR, WakeOrCount
<1>2. k'.cur = k.cur /\ Keeps(k, k')
  BY <1>1, Standing, RemoveFromMoves, KeepsStill
<1>3. CASE pc[k.cur] = "yield"
  BY <1>2, <1>3, Standing, RestsPass DEF Keeps, Rests, Minds, Timely
<1>4. CASE pc[k.cur] # "yield"
  BY <1>2, <1>4, KeepsMinds DEF Keeps, Rests
<1> QED
  BY <1>3, <1>4

LEMMA GiveFromISRMinds ==
  ASSUME KInv, OnTime(k), NEW u \in Task, vTaskNotifyGiveFromISR(u), UNCHANGED pc
  PROVE  Minds /\ Timely /\ k'.tick = k.tick
<1>1. "give" \in program.isr /\ Alive(u) /\ k' = GiveTo(u)
  BY DEF vTaskNotifyGiveFromISR
<1>2. Sound(k) /\ Tidy(k) /\ Placed(u)
  BY Standing DEF KInv, Control
<1>3. Has(k, u) /\ u \notin Ended(k)
  BY <1>1 DEF Alive, Listed, Has, Ready, Sleepers, Ended
<1>4. /\ Rests(k, k') /\ SameClock(k, k')
      /\ \A v \in Task : Ready(k', v) => Ready(k, v) \/ Exempt(v)
  <2>1. CASE note[u].state # "waiting"
    BY <1>1, <2>1, KeepsStill DEF GiveTo, Keeps, SameClock
  <2>2. CASE note[u].state = "waiting"
    <3>1. Exempt(u) /\ ~Linked(k, u)
      BY <1>1, <1>2, <2>2 DEF Placed, Exempt
    <3>2. CASE k.susp = 0
      <4>1. k' = MakeReady(k, u)
        BY <1>1, <2>2, <3>2 DEF GiveTo
      <4> QED
        BY <1>2, <1>3, <3>1, <4>1, NotifyMoves
    <3>3. CASE k.susp # 0
      <4>1. k' = [k EXCEPT !.event["pending"] = Append(@, u)]
        BY <1>1, <2>2, <3>3 DEF GiveTo
      <4> QED
        BY <1>2, <1>3, <3>1, <3>3, <4>1, PendMoves DEF Has
    <3> QED
      BY <3>2, <3>3
  <2> QED
    BY <2>1, <2>2
<1> QED
  BY <1>2, <1>4, RestsPass DEF SameClock, Minds, Timely

\* Every step minds the priorities and keeps the time.
LEMMA StepMinds ==
  ASSUME KInv, OnTime(k), WaitFits(k.cur), Step(k.cur) \/ Interrupt
  PROVE  Minds /\ Timely
<1>1. CASE \/ BeginSuspended(k.cur) \/ vTaskSuspendAll(k.cur) \/ ResumeAll(k.cur)
           \/ Yield(k.cur) \/ vTaskDelay(k.cur) \/ vTaskDelayZero(k.cur)
           \/ vTaskDelayUntil(k.cur) \/ vTaskDelete(k.cur) \/ ResetTime(k.cur)
           \/ CreateTask(k.cur) \/ IdleYields(k.cur)
  <2>1. CASE Yield(k.cur) \/ vTaskDelayZero(k.cur)
    BY <2>1, SwitchMinds DEF Yield, vTaskDelayZero
  <2> QED
    BY <1>1, <2>1, OtherMinds, SuspendAllMinds, ResumeMinds, DelayMinds, UntilMinds,
       DeleteMinds, ResetTimeMinds, CreateMinds, IdleYieldsMinds
<1>2. CASE \/ xQueueGenericSend(k.cur) \/ xQueueGenericReceive(k.cur) \/ prvLockQueue(k.cur)
           \/ CheckForTimeOut(k.cur) \/ CheckQueue(k.cur) \/ PlaceOnEventList(k.cur)
           \/ prvUnlockQueue(k.cur) \/ xQueueGenericReset(k.cur)
  BY <1>2, WakingMinds, OtherMinds, PlaceMinds, UnlockMinds
<1>3. CASE NotifyTakeOrWait(k.cur) \/ NotifyTaken(k.cur) \/ xTaskGenericNotify(k.cur)
  BY <1>3, TakeOrWaitMinds, OtherMinds, GiveMinds
<1>4. CASE \/ xEventGroupWaitBits(k.cur) \/ xEventGroupSync(k.cur) \/ SetBits(k.cur)
           \/ xEventGroupClearBits(k.cur) \/ WaitOver(k.cur)
  BY <1>4, WaitBitsMinds, SyncMinds, SetBitsMinds, OtherMinds
<1>5. CASE xListIsEmpty(k.cur) \/ ReapTask(k.cur)
  BY <1>5, OtherMinds, ReapMinds
<1>6. CASE Interrupt
  BY <1>6, TickMinds, FromISRMinds, GiveFromISRMinds DEF Interrupt
<1> QED
  BY <1>1, <1>2, <1>3, <1>4, <1>5, <1>6 DEF Step

\* The places WaitFits speaks of, and the steps that lead elsewhere.
Fitted == {"take", "suspend", "delay", "bits", "check", "place"}

LEMMA Elsewhere ==
  ASSUME KInv, NEW t, t = k.cur,
         \/ ResumeAll(t) \/ Yield(t) \/ vTaskDelay(t) \/ vTaskDelayZero(t)
         \/ vTaskDelayUntil(t) \/ vTaskDelete(t) \/ ResetTime(t) \/ CreateTask(t)
         \/ IdleYields(t) \/ prvLockQueue(t) \/ PlaceOnEventList(t) \/ prvUnlockQueue(t)
         \/ xQueueGenericReset(t) \/ NotifyTakeOrWait(t) \/ NotifyTaken(t)
         \/ xTaskGenericNotify(t) \/ xEventGroupWaitBits(t) \/ xEventGroupSync(t)
         \/ SetBits(t) \/ xEventGroupClearBits(t) \/ WaitOver(t) \/ xListIsEmpty(t)
         \/ ReapTask(t)
  PROVE  pc'[t] \notin Fitted
<1>1. t \in Task /\ pc \in [Task -> Labels] /\ at[t] \in LocalsType
  BY Standing DEF KInv, Base
<1>2. ASSUME NEW l, NEW a, Goto(t, l, a) PROVE pc'[t] = l
  BY <1>1, <1>2 DEF Goto
<1>3. Leave(t) => pc'[t] = "run"
  BY <1>1 DEF Leave
<1>4. GoOn(t) => pc'[t] \in {"try", "bitsback", "run"}
  BY <1>2, <1>3 DEF GoOn
<1>5. ResumeAll(t) => pc'[t] \in {"yield", "try", "bitsback", "run", "reap", "begin", "create"}
  <2> SUFFICES ASSUME ResumeAll(t)
               PROVE  pc'[t] \in {"yield", "try", "bitsback", "run", "reap", "begin", "create"}
    OBVIOUS
  <2>1. at[t].onward \in {"blocked", "try", "reap", "begin", "create", "return"}
    BY <1>1 DEF LocalsType
  <2>2. \/ Goto(t, "yield", at[t]) \/ GoOn(t) \/ Goto(t, "try", at[t]) \/ Goto(t, "reap", at[t])
        \/ Goto(t, "begin", at[t]) \/ Goto(t, "create", at[t]) \/ Leave(t)
    BY <2>1 DEF ResumeAll
  <2> QED
    BY <1>2, <1>3, <1>4, <2>2
<1>6. \/ Yield(t) \/ vTaskDelay(t) \/ vTaskDelayZero(t) \/ vTaskDelayUntil(t) \/ vTaskDelete(t)
      \/ ResetTime(t) \/ CreateTask(t) \/ IdleYields(t)
      => pc'[t] \in {"try", "bitsback", "run", "resume", "yield", "resettime", "alone"}
  BY <1>2, <1>3, <1>4 DEF Yield, vTaskDelay, vTaskDelayZero, vTaskDelayUntil, vTaskDelete,
     ResetTime, CreateTask, IdleYields
<1>7. \/ prvLockQueue(t) \/ PlaceOnEventList(t) \/ prvUnlockQueue(t) \/ xQueueGenericReset(t)
      \/ NotifyTakeOrWait(t) \/ NotifyTaken(t) \/ xTaskGenericNotify(t)
      => pc'[t] \in {"timeout", "unlockTx", "unlockRx", "resume", "run", "taken"}
  BY <1>2, <1>3 DEF prvLockQueue, PlaceOnEventList, prvUnlockQueue, xQueueGenericReset,
     NotifyTakeOrWait, NotifyTaken, xTaskGenericNotify
<1>8. xEventGroupWaitBits(t) \/ xEventGroupSync(t) => pc'[t] = "resume"
  <2>1. ASSUME NEW s, NEW g, NEW c, NEW met \in BOOLEAN, c.wait \in Ticks,
               TakeOrPlace(t, s, g, c, met)
        PROVE  \E a : Goto(t, "resume", a)
    <3>1. c.wait = 0 \/ c.wait > 0
      BY <2>1, RtosAssumption DEF Ticks
    <3>2. (met \/ (~met /\ c.wait = 0) \/ (~met /\ c.wait > 0))
      BY <3>1
    <3> QED
      BY <2>1, <3>2 DEF TakeOrPlace
  <2>2. CASE pc[t] = "bits"
    <3>1. at[t].call \in program.calls[t] /\ program \in Programs
      BY <2>2, Standing DEF Placed, Where
    <3>2. at[t].call.wait \in Ticks
      BY <1>1, <3>1, CallFacts
    <3>3. (at[t].call.want \subseteq group.bits \cup at[t].call.set) \in BOOLEAN
      OBVIOUS
    <3>4. xEventGroupWaitBits(t) \/ xEventGroupSync(t) => \E a : Goto(t, "resume", a)
      BY <2>1, <3>2, <3>3, Boolean DEF xEventGroupWaitBits, xEventGroupSync
    <3> QED
      BY <1>2, <3>4
  <2> QED
    BY <2>2 DEF xEventGroupWaitBits, xEventGroupSync
<1>9. SetBits(t) \/ xEventGroupClearBits(t) \/ WaitOver(t) \/ xListIsEmpty(t) \/ ReapTask(t)
      => pc'[t] \in {"resume", "run"}
  BY <1>2, <1>3 DEF SetBits, xEventGroupClearBits, WaitOver, xListIsEmpty, ReapTask
<1>10. pc'[t] \in {"yield", "try", "bitsback", "run", "reap", "resume", "resettime", "alone",
                   "timeout", "unlockTx", "unlockRx", "taken", "begin", "create"}
  BY <1>5, <1>6, <1>7, <1>8, <1>9
<1>11. \A p \in {"yield", "try", "bitsback", "run", "reap", "resume", "resettime", "alone",
                 "timeout", "unlockTx", "unlockRx", "taken", "begin", "create"} : p \notin Fitted
  BY DEF Fitted
<1> QED
  BY <1>10, <1>11

LEMMA BeginFits ==
  ASSUME KInv, NEW t, t = k.cur, BeginSuspended(t)
  PROVE  WaitFits(t)'
<1>1. PICK c \in CallsNow(t) : Here(t, "begin", c) /\ ReadAndSuspend(t, Locals(t, c))
  BY DEF BeginSuspended
<1> DEFINE b == Locals(t, c)
<1>2. /\ pc[t] \in {"run", "begin"} /\ t \in Task /\ at \in [Task -> LocalsType]
      /\ pc \in [Task -> Labels] /\ Placed(t)
  BY <1>1, Standing DEF Here, KInv, Base
<1>3. b \in LocalsType /\ b.call = c /\ (c.fn # "create" => b.wait = c.wait)
  <2>1. b \in LocalsType /\ b.call = c
    BY <1>1, <1>2, CallNow
  <2>2. CASE pc[t] = "run"
    BY <1>2, <2>1, <2>2 DEF Locals, LocalsType
  <2>3. CASE pc[t] = "begin"
    BY <1>2, <2>1, <2>3 DEF Locals, Placed, Where
  <2> QED
    BY <1>2, <2>1, <2>2, <2>3
<1> HIDE DEF b
<1>4. pc'[t] = "suspend" /\ at'[t] = [b EXCEPT !.read = k.susp]
  BY <1>1, <1>2 DEF ReadAndSuspend, Goto, b
<1>5. at'[t].call = c /\ (c.fn # "create" => at'[t].wait = c.wait)
  BY <1>3, <1>4 DEF LocalsType
<1> QED
  BY <1>4, <1>5 DEF WaitFits

LEMMA SuspendFits ==
  ASSUME KInv, NEW t, t = k.cur, WaitFits(t), vTaskSuspendAll(t)
  PROVE  WaitFits(t)'
<1> DEFINE fn == at[t].call.fn
<1>1. /\ pc[t] = "suspend" /\ t \in Task /\ at \in [Task -> LocalsType] /\ pc \in [Task -> Labels]
      /\ at[t] \in LocalsType
  BY Standing DEF vTaskSuspendAll, KInv, Base
<1>2. fn \in Suspenders
  BY <1>1, Standing DEF Placed, Where
<1>3. PICK l, o : /\ Goto(t, l, [at[t] EXCEPT !.read = 0, !.onward = o])
                  /\ l \in {"lock", "delay", "bits", "isempty", "resume"}
                  /\ (Waits(fn) => l = "lock") /\ (fn = "create" => l = "resume")
  BY <1>2 DEF vTaskSuspendAll, Suspenders, Waits
<1>4. pc'[t] = l /\ at'[t].call = at[t].call /\ at'[t].wait = at[t].wait
  BY <1>1, <1>3 DEF Goto, LocalsType
<1>5. ~Waits(fn) /\ fn # "create" => at[t].wait = at[t].call.wait
  BY <1>1 DEF WaitFits
<1> QED
  BY <1>3, <1>4, <1>5 DEF WaitFits

\* A call that is refused has a time to wait, and begins to.
LEMMA RefusedFits ==
  ASSUME KInv, NEW t, t = k.cur, xQueueGenericSend(t) \/ xQueueGenericReceive(t)
  PROVE  WaitFits(t)'
<1>1. PICK c \in CallsNow(t) :
        /\ Here(t, "try", c)
        /\ Leave(t) \/ (Waits(c.fn) /\ Refused(t, c))
  BY DEF xQueueGenericSend, xQueueGenericReceive, Waits
<1>2. /\ pc[t] \in {"run", "try"} /\ t \in Task /\ at \in [Task -> LocalsType]
      /\ pc \in [Task -> Labels] /\ at[t] \in LocalsType /\ Placed(t)
  BY <1>1, Standing DEF Here, KInv, Base
<1>3. CASE Leave(t)
  <2>1. pc'[t] = "run"
    BY <1>2, <1>3 DEF Leave
  <2> QED
    BY <2>1 DEF WaitFits
<1>4. CASE Waits(c.fn) /\ Refused(t, c) /\ ~Leave(t)
  <2> DEFINE b == Locals(t, c)
             d == IF b.set THEN at[t] ELSE [b EXCEPT !.set = TRUE, !.from = vTaskSetTimeOutState(k)]
  <2>1. ReadAndSuspend(t, d)
    BY <1>4 DEF Refused
  <2>2. b \in LocalsType /\ b.call = c /\ b.set = at[t].set
    BY <1>1, <1>2, CallNow
  <2>3. d.call = c
    <3>1. CASE b.set
      <4>1. pc[t] # "run"
        BY <1>2, <2>2, <3>1 DEF Placed, Where
      <4> QED
        BY <1>1, <3>1, <4>1 DEF CallsNow
    <3>2. CASE ~b.set
      <4> HIDE DEF b
      <4> QED
        BY <2>2, <3>2 DEF LocalsType
    <3> QED
      BY <3>1, <3>2
  <2>4. d \in LocalsType \/ ~b.set
    BY <1>2
  <2> HIDE DEF d
  <2>5. pc'[t] = "suspend" /\ at'[t] = [d EXCEPT !.read = k.susp]
    BY <1>2, <2>1 DEF ReadAndSuspend, Goto
  <2>6. at'[t].call = d.call
    BY <2>5
  <2> QED
    BY <1>4, <2>3, <2>5, <2>6 DEF WaitFits
<1> QED
  BY <1>1, <1>3, <1>4

\* What is left of a wait that has not run out is more than none, but for a wait
\* so long that it reaches over the wrap of the count.
LEMMA TimeOutFits ==
  ASSUME KInv, NEW t, t = k.cur, CheckForTimeOut(t)
  PROVE  WaitFits(t)'
<1> DEFINE r == xTaskCheckForTimeOut(k, at[t].from, at[t].wait)
           rest == at[t].wait - (k.tick - at[t].from.at)
<1>1. /\ UNCHANGED k
      /\ IF r.expired THEN Goto(t, "unlockTx", [at[t] EXCEPT !.onward = "return"])
         ELSE Goto(t, "check", [at[t] EXCEPT !.wait = r.wait, !.from = r.from])
  BY DEF CheckForTimeOut
<1>2. /\ t \in Task /\ at \in [Task -> LocalsType] /\ pc \in [Task -> Labels]
      /\ at[t] \in LocalsType /\ k.tick \in Ticks
  BY Standing DEF KInv, Base, Kernel
<1>3. CASE r.expired
  <2>1. pc'[t] = "unlockTx"
    BY <1>1, <1>2, <1>3 DEF Goto
  <2> QED
    BY <2>1 DEF WaitFits
<1>4. CASE ~r.expired
  <2>1. ~TimedOut(k, at[t].from, at[t].wait) /\ r.wait = rest % TickMod
    BY <1>4 DEF xTaskCheckForTimeOut
  <2>2. at[t].wait \in Ticks /\ at[t].from.at \in Ticks
    BY <1>2 DEF LocalsType
  <2>3. ~(k.tick - at[t].from.at >= at[t].wait)
    BY <2>1 DEF TimedOut
  <2>4. TickMod \in Nat \ {0}
    BY RtosAssumption
  <2>5. rest \in Int /\ rest > 0 /\ (k.tick >= TickMod - 1 => rest < TickMod)
    BY <1>2, <2>2, <2>3, <2>4 DEF Ticks
  <2> HIDE DEF rest
  <2>6. k.tick >= TickMod - 1 => rest % TickMod # 0
    BY <2>4, <2>5
  <2> HIDE DEF r
  <2>7. pc'[t] = "check" /\ at'[t].wait = r.wait
    <3>1. Goto(t, "check", [at[t] EXCEPT !.wait = r.wait, !.from = r.from])
      BY <1>1, <1>4
    <3>2. pc'[t] = "check" /\ at'[t] = [at[t] EXCEPT !.wait = r.wait, !.from = r.from]
      BY <1>2, <3>1 DEF Goto
    <3> QED
      BY <1>2, <3>2 DEF LocalsType
  <2>8. at'[t].wait = 0 => k'.tick < TickMod - 1
    <3>1. k.tick \in Int /\ TickMod \in Int
      BY <1>2, <2>4 DEF Ticks
    <3> QED
      BY <1>1, <2>1, <2>6, <2>7, <3>1
  <2> QED
    BY <2>7, <2>8 DEF WaitFits
<1> QED
  BY <1>3, <1>4

LEMMA CheckFits ==
  ASSUME KInv, NEW t, t = k.cur, WaitFits(t), CheckQueue(t)
  PROVE  WaitFits(t)'
<1>1. /\ pc[t] = "check" /\ UNCHANGED k
      /\ Goto(t, "place", at[t]) \/ Goto(t, "unlockTx", [at[t] EXCEPT !.onward = "try"])
  BY DEF CheckQueue
<1>2. t \in Task /\ at \in [Task -> LocalsType] /\ pc \in [Task -> Labels]
  BY Standing DEF KInv, Base
<1>3. pc'[t] = "unlockTx" \/ (pc'[t] = "place" /\ at'[t] = at[t])
  BY <1>1, <1>2 DEF Goto
<1> QED
  BY <1>1, <1>3 DEF WaitFits

LEMMA WaitFitsKept ==
  ASSUME KInv, Calm, OnTime(k), NEW t \in Task, WaitFits(t), Step(k.cur) \/ Interrupt
  PROVE  WaitFits(t)'
<1>1. CASE Interrupt
  <2>1. UNCHANGED <<pc, at>> /\ (k.susp # 0 => k'.tick = k.tick)
    BY <1>1, TickMinds, FromISRMinds, GiveFromISRMinds DEF Interrupt
  <2>2. pc[t] \in {"check", "place"} => k.susp # 0
    BY DEF KInv, Control, SuspendExcludes, Suspending
  <2> QED
    BY <2>1, <2>2 DEF WaitFits
<1>2. CASE t # k.cur
  <2>1. pc'[t] = pc[t] /\ at'[t] = at[t]
    BY <1>2 DEF Calm
  <2>2. pc[t] \notin {"check", "place"}
    BY <1>2 DEF KInv, Control, SuspendExcludes, Suspending
  <2> QED
    BY <2>1, <2>2 DEF WaitFits
<1>3. CASE t = k.cur /\ Step(t)
  <2>1. CASE pc'[t] \notin Fitted
    BY <2>1 DEF WaitFits, Fitted
  <2>2. CASE pc'[t] \in Fitted
    <3>1. \/ BeginSuspended(t) \/ vTaskSuspendAll(t) \/ xQueueGenericSend(t)
          \/ xQueueGenericReceive(t) \/ CheckForTimeOut(t) \/ CheckQueue(t)
      BY <1>3, <2>2, Elsewhere DEF Step
    <3> QED
      BY <1>3, <3>1, BeginFits, SuspendFits, RefusedFits, TimeOutFits, CheckFits
  <2> QED
    BY <2>1, <2>2
<1> QED
  BY <1>1, <1>2, <1>3

\* The count's difference, over its wrap, is the time that has passed.
LEMMA TimeGone ==
  ASSUME NEW now \in Ticks, NEW then \in Ticks, NEW n \in Ticks,
         now = then + n \/ now = then + n - TickMod
  PROVE  (now - then) % TickMod = n
<1>1. (now - then) % TickMod = IF now < then THEN now + TickMod - then ELSE now - then
  BY TimeLeft
<1> QED
  BY <1>1, RtosAssumption DEF Ticks

\* What is left of a sleep is what is due, but for a task that sleeps until the
\* current tick: the next one wakes it.
LEMMA InTimeKept ==
  ASSUME KInv, KInv', InTime, Timely, CountDown
  PROVE  InTime'
<1> SUFFICES ASSUME NEW t \in Sleepers(k') PROVE left'[t] = Max({1, Due(k', t)})
  BY DEF InTime
<1>1. Tidy(k) /\ Tidy(k') /\ k.cur \in Task
  BY Zenon DEF KInv, Control, Sound, Tidy, Kernel
<1>2. t \in Task /\ k.tick \in Ticks /\ k'.tick \in Ticks
  <2>1. k \in Kernel /\ k' \in Kernel
    BY <1>1 DEF Tidy
  <2> QED
    BY <2>1 DEF Kernel, Sleepers, ToSet
<1>3. Due(k', t) \in Int
  BY <1>1, DueTyped
<1> DEFINE gone == (k'.tick - k.tick) % TickMod
<1>4. left'[t] = CASE t \in Sleepers(k) -> Max({0, left[t] - gone})
                   [] t \notin Sleepers(k) /\ t \in Sleepers(k') -> ToSleep(t)
                   [] OTHER -> 0
  BY <1>2 DEF CountDown
<1>5. t \in Sleepers(k) => Due(k, t) \in Int /\ left[t] = Max({1, Due(k, t)})
  BY <1>1, DueTyped DEF InTime
<1> HIDE DEF gone
<1>6. ASSUME NEW n \in Ticks, Passed(k, n, k') PROVE left'[t] = Max({1, Due(k', t)})
  <2>1. /\ t \in Sleepers(k) /\ Due(k', t) = Due(k, t) - n
        /\ n > 0 => Due(k', t) > 0
    BY <1>6 DEF Passed
  <2>2. gone = n
    BY <1>2, <1>6, TimeGone DEF Passed, gone
  <2>3. left'[t] = Max({0, left[t] - n}) /\ left[t] = Max({1, Due(k, t)}) /\ Due(k, t) \in Int
    BY <1>4, <1>5, <2>1, <2>2
  <2>4. n \in Nat
    BY <1>6, RtosAssumption DEF Ticks
  <2>5. /\ left[t] = IF 1 >= Due(k, t) THEN 1 ELSE Due(k, t)
        /\ Max({1, Due(k', t)}) = IF 1 >= Due(k', t) THEN 1 ELSE Due(k', t)
    BY <1>3, <2>3, MaxOfTwo
  <2>6. left[t] - n \in Int
    BY <2>3, <2>4, <2>5
  <2>7. left'[t] = IF 0 >= left[t] - n THEN 0 ELSE left[t] - n
    BY <2>3, <2>6, MaxOfTwo
  <2> QED
    BY <1>3, <2>1, <2>3, <2>4, <2>5, <2>7
<1>7. ASSUME NEW n \in Ticks, SleepsFor(k, k', n), k.cur \notin Sleepers(k),
             ToSleep(k.cur) = Max({1, n})
      PROVE  left'[t] = Max({1, Due(k', t)})
  <2>1. CASE t = k.cur
    <3>1. Due(k', t) = n
      BY <1>7, <2>1 DEF SleepsFor
    <3> QED
      BY <1>4, <1>7, <2>1, <3>1
  <2>2. CASE t # k.cur
    <3>1. t \in Sleepers(k) /\ Due(k', t) = Due(k, t) /\ k'.tick = k.tick
      BY <1>7, <2>2 DEF SleepsFor
    <3>2. gone = 0
      <4>1. 0 \in Ticks /\ k'.tick = k.tick + 0
        BY <1>2, <3>1, RtosAssumption DEF Ticks
      <4> QED
        BY <1>2, <4>1, TimeGone DEF gone
    <3>3. left'[t] = Max({0, left[t] - 0}) /\ left[t] = Max({1, Due(k, t)}) /\ Due(k, t) \in Int
      BY <1>4, <1>5, <3>1, <3>2
    <3>4. left[t] = IF 1 >= Due(k, t) THEN 1 ELSE Due(k, t)
      BY <3>3, MaxOfTwo
    <3>5. left[t] \in Int /\ left[t] - 0 = left[t] /\ left[t] > 0
      BY <3>3, <3>4
    <3>6. Max({0, left[t]}) = IF 0 >= left[t] THEN 0 ELSE left[t]
      BY <3>5, MaxOfTwo
    <3>7. left'[t] = Max({0, left[t]})
      BY <3>3, <3>5
    <3>8. left'[t] = left[t]
      BY <3>5, <3>6, <3>7
    <3> QED
      BY <3>1, <3>3, <3>8
  <2> QED
    BY <2>1, <2>2
<1> QED
  BY <1>6, <1>7 DEF Timely

LEMMA PromptKept ==
  ASSUME KInv, KInv', Calm, Prompt, Minds, UNCHANGED program
  PROVE  Prompt'
<1>1. CASE k'.yield \/ Highest(k')
  BY <1>1 DEF Prompt, Highest
<1>2. CASE k'.cur = k.cur /\ pc'[k.cur] = "yield"
  BY <1>2 DEF Prompt
<1>3. CASE /\ k'.cur = k.cur /\ ~k.yield /\ pc[k.cur] # "yield"
           /\ \A t \in Task : Ready(k', t) => Ready(k, t) \/ Prio[t] <= Prio[k.cur] \/ Exempt(t)
  <2>1. ASSUME NEW t \in Task, Ready(k', t) PROVE Prio[t] <= Prio[k'.cur] \/ Exempt(t)'
    <3>1. CASE t = k.cur
      <4>1. Prio[t] \in Nat
        BY <2>1, RtosAssumption
      <4> QED
        BY <1>3, <3>1, <4>1
    <3>2. CASE t # k.cur
      <4>1. Prio[t] <= Prio[k.cur] \/ Exempt(t)
        BY <1>3, <2>1 DEF Prompt
      <4>2. pc'[t] = pc[t]
        BY <2>1, <3>2 DEF Calm
      <4> QED
        BY <1>3, <4>1, <4>2 DEF Exempt
    <3> QED
      BY <3>1, <3>2
  <2> QED
    BY <2>1 DEF Prompt
<1> QED
  BY <1>1, <1>2, <1>3 DEF Minds

LEMMA PunctualKept ==
  ASSUME KInv, Punctual, [Next]_vars
  PROVE  Punctual'
<1>1. CASE Next
  <2>1. /\ Step(k.cur) \/ Interrupt
        /\ CountDown /\ UNCHANGED program
    BY <1>1 DEF Next
  <2>2. /\ OnTime(k) /\ InTime /\ Prompt /\ WaitFits(k.cur)
        /\ \A t \in Task : WaitFits(t)
    BY Standing DEF Punctual
  <2>3. KInv' /\ Calm
    BY <1>1, <2>1, NextKeeps, StepCarries
  <2>4. Minds /\ Timely
    BY <2>1, <2>2, StepMinds
  <2>5. OnTime(k')
    BY <2>4 DEF Timely, Passed, SleepsFor
  <2>6. InTime'
    BY <2>1, <2>2, <2>3, <2>4, InTimeKept
  <2>7. Prompt'
    BY <2>1, <2>2, <2>3, <2>4, PromptKept
  <2>8. ASSUME NEW t \in Task PROVE WaitFits(t)'
    BY <2>1, <2>2, <2>3, WaitFitsKept
  <2> QED
    BY <2>5, <2>6, <2>7, <2>8 DEF Punctual
<1>2. CASE UNCHANGED vars
  BY <1>2 DEF vars, Punctual, OnTime, InTime, Sleepers, Due, WaitFits, Prompt, Exempt, Ready
<1> QED
  BY <1>1, <1>2

LEMMA PunctualStarts ==
  ASSUME Init
  PROVE  Punctual
<1>1. k.delayed = <<>> /\ k.overflow = <<>> /\ Highest(k)
  BY FreshKernel
<1>2. ToSet(k.delayed) = {} /\ ToSet(k.overflow) = {}
  BY <1>1 DEF ToSet
<1>3. OnTime(k) /\ InTime
  BY <1>1, <1>2 DEF OnTime, Ordered, InTime, Sleepers
<1>4. \A t \in Task : WaitFits(t)
  BY DEF Init, WaitFits
<1> QED
  BY <1>1, <1>3, <1>4 DEF Punctual, Prompt, Highest

\* The kernel keeps the time of every sleeping task, and its promise of priority
\* (the lists of delayed tasks over the wrap of the tick count, xNextTaskUnblockTime,
\* xYieldPending, and every step that makes a task ready).
THEOREM TimeKept == Spec => []Punctual
<1>1. Init => Punctual
  BY PunctualStarts
<1>2. KInv /\ Punctual /\ [Next]_vars => Punctual'
  BY PunctualKept
<1> QED
  BY <1>1, <1>2, KernelInvariant, PTL DEF Spec

\* HighestRuns: the task that runs is of the highest priority, or the switch has been
\* noted, or the task is about to yield (vTaskSwitchContext and xYieldPending).
THEOREM HighestPriorityRuns == Spec => []HighestRuns
<1>1. Punctual => HighestRuns
  BY DEF Punctual, Prompt, HighestRuns, Ready, Exempt
<1> QED
  BY <1>1, TimeKept, PTL

\* NoOversleep: no task sleeps longer than it asked (xTaskIncrementTick, over the wrap
\* of the tick count and with the ticks of a suspension counted late).
THEOREM SleepEnds == Spec => []NoOversleep
<1>1. ASSUME KInv, Punctual PROVE NoOversleep
  <2> SUFFICES ASSUME NEW t \in Sleepers(k) PROVE left[t] > 0
    BY DEF NoOversleep
  <2>1. Due(k, t) \in Int /\ left[t] = Max({1, Due(k, t)})
    BY <1>1, Standing, DueTyped DEF Punctual, InTime
  <2> QED
    BY <2>1, MaxOfTwo
<1> QED
  BY <1>1, KernelInvariant, TimeKept, PTL

\* NoEarlyWake: no tick wakes a task before its time, but one that an event has woken.
THEOREM SleepLasts == Spec => NoEarlyWake
<1> DEFINE A == \A t \in Sleepers(k) :
                  (t \notin Sleepers(k') /\ k'.tick # k.tick /\ Events(t) # {"pending"})
                    => left'[t] = 0
<1>1. ASSUME KInv, Punctual, [Next]_vars PROVE [A]_vars
  <2>1. CASE Next
    <3>1. /\ Step(k.cur) \/ Interrupt
          /\ CountDown
      BY <2>1 DEF Next
    <3>2. Minds /\ Timely /\ KInv'
      BY <1>1, <2>1, <3>1, Standing, StepMinds, NextKeeps DEF Punctual
    <3> SUFFICES ASSUME NEW t \in Sleepers(k), t \notin Sleepers(k'), k'.tick # k.tick,
                        Events(t) # {"pending"}
                 PROVE  left'[t] = 0
      OBVIOUS
    <3>3. /\ Tidy(k) /\ k \in Kernel /\ k.tick \in Ticks /\ k'.tick \in Ticks /\ t \in Task
      <4>1. Tidy(k) /\ k \in Kernel /\ k' \in Kernel
        BY <1>1, <3>2 DEF KInv, Control, Sound, Tidy
      <4> QED
        BY <4>1 DEF Kernel, Sleepers, ToSet
    <3>4. t \notin ToSet(k.event["pending"])
      <4>1. "pending" \in Lists /\ DOMAIN k.event = Lists
        BY <3>3 DEF Lists, Kernel
      <4> QED
        BY <3>3, <4>1 DEF Tidy, Events
    <3>5. PICK n \in Ticks : Passed(k, n, k')
      BY <3>2 DEF Timely, SleepsFor
    <3>6. n \in Nat /\ n # 0
      BY <3>3, <3>5, RtosAssumption DEF Passed, Ticks
    <3>7. Due(k, t) <= n
      BY <3>4, <3>5, <3>6 DEF Passed
    <3>8. (k'.tick - k.tick) % TickMod = n
      BY <3>3, <3>5, TimeGone DEF Passed
    <3>9. left'[t] = Max({0, left[t] - n})
      BY <3>1, <3>3, <3>8 DEF CountDown
    <3>10. Due(k, t) \in Int /\ left[t] = Max({1, Due(k, t)})
      BY <1>1, <3>3, DueTyped DEF Punctual, InTime
    <3>11. left[t] = IF 1 >= Due(k, t) THEN 1 ELSE Due(k, t)
      BY <3>10, MaxOfTwo
    <3>12. left[t] - n \in Int /\ left[t] - n <= 0
      BY <3>6, <3>7, <3>10, <3>11
    <3> QED
      BY <3>9, <3>12, MaxOfTwo
  <2>2. CASE UNCHANGED vars
    BY <2>2
  <2> QED
    BY <1>1, <2>1, <2>2
<1>2. KInv /\ Punctual /\ [Next]_vars => [A]_vars
  BY <1>1
<1>3. Spec => [][A]_vars
  <2> HIDE DEF A
  <2> QED
    BY <1>2, KernelInvariant, TimeKept, PTL DEF Spec
<1> QED
  BY <1>3 DEF NoEarlyWake

=============================================================================
