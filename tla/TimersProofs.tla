----------------------------- MODULE TimersProofs -----------------------------
(***************************************************************************)
(* The software timers (timers.c), for every number of timers, of values   *)
(* of TickType_t and of commands in the queue, and every period: when a    *)
(* timer that is started counts as expired, and that the timers the lists  *)
(* and the queue hold are all there and due when the lists say.            *)
(***************************************************************************)
EXTENDS Timers, FiniteSetTheorems, SequenceTheorems, TLAPS

Ticks == 0..(TickMod - 1)

\* A sum of two counts wraps at most once.
LEMMA TickSum ==
  ASSUME NEW a \in Ticks, NEW b \in Ticks
  PROVE  (a + b) % TickMod = IF a + b < TickMod THEN a + b ELSE a + b - TickMod
<1>1. TickMod \in Nat \ {0}
  BY TimersAssumption
<1>2. CASE a + b < TickMod
  BY <1>1, <1>2 DEF Ticks
<1>3. CASE ~(a + b < TickMod)
  BY <1>1, <1>3 DEF Ticks
<1> QED
  BY <1>2, <1>3

\* The timer t is started for the time commanded and the service task handles
\* that age ticks later: prvInsertTimerInActiveList says "expired" exactly when
\* the period has gone, over every wrap but one (the next theorem).
THEOREM InsertExact ==
  ASSUME NEW s, NEW t, NEW commanded \in Ticks, NEW age \in Ticks, NEW now, NEW time,
         s.period[t] \in Ticks,
         now = (commanded + age) % TickMod,
         time = (commanded + s.period[t]) % TickMod,
         ~(now < commanded /\ time <= now)
  PROVE  prvInsertTimerInActiveList(s, t, time, now, commanded).expired <=> age >= s.period[t]
<1>1. TickMod \in Nat
  BY TimersAssumption
<1>2. now = IF commanded + age < TickMod THEN commanded + age ELSE commanded + age - TickMod
  BY TickSum
<1>3. time = IF commanded + s.period[t] < TickMod THEN commanded + s.period[t]
             ELSE commanded + s.period[t] - TickMod
  BY TickSum
<1>4. CASE time <= now /\ now - commanded >= s.period[t]
  <2>1. age >= s.period[t]
    BY <1>1, <1>2, <1>3, <1>4 DEF Ticks
  <2>2. ~(now - commanded < s.period[t]) /\ ~(time > now)
    BY <1>1, <1>2, <1>3, <1>4 DEF Ticks
  <2> QED
    BY <1>4, <2>1, <2>2 DEF prvInsertTimerInActiveList
<1>5. CASE time <= now /\ now - commanded < s.period[t]
  <2>1. age < s.period[t]
    BY <1>1, <1>2, <1>3, <1>5 DEF Ticks
  <2>2. ~(now - commanded >= s.period[t]) /\ ~(time > now)
    BY <1>1, <1>2, <1>3, <1>5 DEF Ticks
  <2> QED
    BY <1>1, <1>5, <2>1, <2>2 DEF prvInsertTimerInActiveList, Ticks
<1>6. CASE time > now /\ now < commanded /\ time >= commanded
  <2>1. age >= s.period[t] /\ ~(time <= now)
    BY <1>1, <1>2, <1>3, <1>6 DEF Ticks
  <2> QED
    BY <1>6, <2>1 DEF prvInsertTimerInActiveList
<1>7. CASE time > now /\ ~(now < commanded /\ time >= commanded)
  <2>1. age < s.period[t] /\ ~(time <= now)
    BY <1>1, <1>2, <1>3, <1>7 DEF Ticks
  <2> QED
    BY <1>1, <1>7, <2>1 DEF prvInsertTimerInActiveList, Ticks
<1>8. now \in Int /\ time \in Int
  BY <1>1, <1>2, <1>3 DEF Ticks
<1> QED
  BY <1>1, <1>4, <1>5, <1>6, <1>7, <1>8 DEF Ticks

\* The one wrap: the count wrapped since the command and passed the expiry time.
\* The period has gone, but the difference of the counts is computed in int and
\* negative, so the timer goes to the overflow list: late by a whole cycle.
THEOREM InsertMissed ==
  ASSUME NEW s, NEW t, NEW commanded \in Ticks, NEW age \in Ticks, NEW now, NEW time,
         s.period[t] \in Ticks,
         now = (commanded + age) % TickMod,
         time = (commanded + s.period[t]) % TickMod,
         now < commanded /\ time <= now
  PROVE  /\ age >= s.period[t]
         /\ ~prvInsertTimerInActiveList(s, t, time, now, commanded).expired
<1>1. TickMod \in Nat
  BY TimersAssumption
<1>2. now = IF commanded + age < TickMod THEN commanded + age ELSE commanded + age - TickMod
  BY TickSum
<1>3. time = IF commanded + s.period[t] < TickMod THEN commanded + s.period[t]
             ELSE commanded + s.period[t] - TickMod
  BY TickSum
<1>4. age >= s.period[t]
  BY <1>1, <1>2, <1>3 DEF Ticks
<1>5. now - commanded < s.period[t] /\ ~(now - commanded >= s.period[t]) /\ ~(time > now)
  BY <1>1, <1>2, <1>3 DEF Ticks
<1> QED
  BY <1>4, <1>5 DEF prvInsertTimerInActiveList

-----------------------------------------------------------------------------
\* What holds of the service task's data.

Data == [current : Seq(Timer), overflow : Seq(Timer), expiry : [Timer -> Ticks],
         period : [Timer -> Periods], queue : Seq(Commands), restarts : Seq(Commands),
         last : Ticks,
         alive : SUBSET Timer, awaited : SUBSET Timer, due : [Timer -> Int],
         early : SUBSET Timer]

Sorted(l, value) == \A i, j \in 1..Len(l) : i <= j => value[l[i]] <= value[l[j]]

Tidy(s) ==
  /\ s \in Data
  /\ IsInjective(s.current) /\ IsInjective(s.overflow)
  /\ ToSet(s.current) \cap ToSet(s.overflow) = {}
  /\ Sorted(s.current, s.expiry) /\ Sorted(s.overflow, s.expiry)
  /\ Len(s.queue) <= QueueLength

Restarting(s, t) ==
  /\ t \in AutoReload
  /\ \E m \in ToSet(s.queue) \cup ToSet(s.restarts) : m.timer = t /\ m.id = "start"

\* A timer whose next callback is awaited is due when its list says, c ticks after
\* the cycle of the current list began, and so soon that the count cannot wrap
\* twice before, with e ticks since the last sample; it is at most l ticks
\* overdue.  Or it is in no list and its restart is in the queue.
Fine(s, c, e, l, t) ==
  t \in s.awaited =>
    \/ /\ t \in Active(s)
       /\ t \in ToSet(s.current) => s.due[t] = s.expiry[t] - c
       /\ t \in ToSet(s.overflow) => s.due[t] = s.expiry[t] + TickMod - c
       /\ s.due[t] + e + MaxLate < TickMod
       /\ s.due[t] + l >= 0
    \/ t \notin Active(s) /\ Restarting(s, t)

\* r differs from s at the timer t at most.
Elsewhere(s, r, t) ==
  \A u \in Timer \ {t} :
    /\ u \in ToSet(r.current) <=> u \in ToSet(s.current)
    /\ u \in ToSet(r.overflow) <=> u \in ToSet(s.overflow)
    /\ r.expiry[u] = s.expiry[u] /\ r.due[u] = s.due[u]
    /\ u \in r.awaited <=> u \in s.awaited
    /\ u \in r.early <=> u \in s.early
    /\ Restarting(s, u) => Restarting(r, u)

\* The timers of the current list at the ticks of the cycle by which they expire:
\* fewer after each round of the loop of prvSwitchTimerLists.
Ahead(s) == {p \in Timer \X Ticks : p[1] \in ToSet(s.current) /\ s.expiry[p[1]] <= p[2]}

Round(c, s, i) == IF s.current = <<>> THEN s ELSE ExpireHead(s)

\* After n rounds from the data c.s, c.now ticks after the wrap.
Switching(c, n, s) ==
  /\ Tidy(s) /\ s.early = {} /\ s.overflow = c.s.overflow
  /\ s.period = c.s.period /\ s.last = c.s.last /\ s.alive = c.s.alive
  /\ \A t \in Timer \ ToSet(c.s.current) :
       /\ t \notin ToSet(s.current)
       /\ s.expiry[t] = c.s.expiry[t] /\ s.due[t] = c.s.due[t]
       /\ t \in s.awaited <=> t \in c.s.awaited
       /\ Restarting(c.s, t) => Restarting(s, t)
  /\ \A t \in ToSet(c.s.current) \cap s.awaited :
       /\ t \in c.s.awaited
       /\ t \in ToSet(s.current) => s.due[t] = s.expiry[t] - c.now - TickMod
       /\ t \notin ToSet(s.current) => Restarting(s, t)
  /\ s.current = <<>> \/ Cardinality(Ahead(s)) + n <= TickMod * Cardinality(Timer)

Loop == INSTANCE FoldFacts WITH Op <- Round, Good <- Switching

LEMMA SelectIndex ==
  ASSUME NEW n \in Nat, NEW I \in SUBSET (1..n), I # {}
  PROVE  Min(I) \in I /\ \A j \in I : Min(I) <= j
<1>1. I \in SUBSET (0..n)
  OBVIOUS
<1>2. \E x \in I : \A y \in I : x <= y
  BY <1>1, Loop!Least
<1> QED
  BY <1>2 DEF Min

-----------------------------------------------------------------------------
\* The lists: what they hold and in which order.

\* A list without the item at i.
LEMMA RemoveAtItems ==
  ASSUME NEW l \in Seq(Timer), NEW i \in 1..Len(l)
  PROVE  /\ RemoveAt(l, i) \in Seq(Timer) /\ Len(RemoveAt(l, i)) = Len(l) - 1
         /\ \A j \in 1..Len(l) - 1 : RemoveAt(l, i)[j] = IF j < i THEN l[j] ELSE l[j + 1]
<1> DEFINE a == SubSeq(l, 1, i - 1)
           b == SubSeq(l, i + 1, Len(l))
<1>1. Len(l) \in Nat /\ i \in Nat /\ 1 <= i /\ i <= Len(l)
  OBVIOUS
<1>2. a \in Seq(Timer) /\ Len(a) = i - 1 /\ \A j \in 1..i - 1 : a[j] = l[j]
  BY <1>1
<1>3. b \in Seq(Timer) /\ Len(b) = Len(l) - i /\ \A j \in 1..Len(l) - i : b[j] = l[i + j]
  BY <1>1
<1>4. RemoveAt(l, i) = a \o b
  BY DEF RemoveAt
<1> HIDE DEF a, b
<1>5. /\ a \o b \in Seq(Timer) /\ Len(a \o b) = Len(a) + Len(b)
      /\ \A j \in 1..Len(a) + Len(b) : (a \o b)[j] = IF j <= Len(a) THEN a[j] ELSE b[j - Len(a)]
  BY <1>2, <1>3, ConcatProperties
<1>6. Len(a) + Len(b) = Len(l) - 1
  BY <1>1, <1>2, <1>3
<1>7. ASSUME NEW j \in 1..Len(l) - 1
      PROVE  (a \o b)[j] = IF j < i THEN l[j] ELSE l[j + 1]
  <2>1. CASE j < i
    BY <1>1, <1>2, <1>3, <1>5, <2>1
  <2>2. CASE ~(j < i)
    <3>1. (a \o b)[j] = b[j - (i - 1)] /\ j - (i - 1) \in 1..Len(l) - i
      BY <1>1, <1>2, <1>3, <1>5, <2>2
    <3>2. b[j - (i - 1)] = l[i + (j - (i - 1))] /\ i + (j - (i - 1)) = j + 1
      BY <1>1, <1>3, <3>1
    <3> QED
      BY <2>2, <3>1, <3>2
  <2> QED
    BY <2>1, <2>2
<1> QED
  BY <1>4, <1>5, <1>6, <1>7

\* A list with an item more, at i.
LEMMA InsertAtItems ==
  ASSUME NEW l \in Seq(Timer), NEW i \in 1..Len(l) + 1, NEW t \in Timer
  PROVE  /\ InsertAt(l, i, t) \in Seq(Timer) /\ Len(InsertAt(l, i, t)) = Len(l) + 1
         /\ \A j \in 1..Len(l) + 1 :
              InsertAt(l, i, t)[j] = IF j < i THEN l[j] ELSE IF j = i THEN t ELSE l[j - 1]
<1> DEFINE a == SubSeq(l, 1, i - 1) \o <<t>>
           b == SubSeq(l, i, Len(l))
<1>1. Len(l) \in Nat /\ i \in Nat /\ 1 <= i /\ i <= Len(l) + 1
  OBVIOUS
<1>2. a \in Seq(Timer) /\ Len(a) = i /\ \A j \in 1..i : a[j] = IF j < i THEN l[j] ELSE t
  BY <1>1
<1>3. /\ b \in Seq(Timer) /\ Len(b) = Len(l) + 1 - i
      /\ \A j \in 1..Len(l) + 1 - i : b[j] = l[i + j - 1]
  BY <1>1
<1>4. InsertAt(l, i, t) = a \o b
  BY DEF InsertAt
<1> HIDE DEF a, b
<1>5. /\ a \o b \in Seq(Timer) /\ Len(a \o b) = Len(a) + Len(b)
      /\ \A j \in 1..Len(a) + Len(b) : (a \o b)[j] = IF j <= Len(a) THEN a[j] ELSE b[j - Len(a)]
  BY <1>2, <1>3, ConcatProperties
<1>6. Len(a) + Len(b) = Len(l) + 1
  BY <1>1, <1>2, <1>3
<1>7. ASSUME NEW j \in 1..Len(l) + 1
      PROVE  (a \o b)[j] = IF j < i THEN l[j] ELSE IF j = i THEN t ELSE l[j - 1]
  <2>1. CASE j <= i
    BY <1>1, <1>2, <1>3, <1>5, <2>1
  <2>2. CASE ~(j <= i)
    <3>1. (a \o b)[j] = b[j - i] /\ j - i \in 1..Len(l) + 1 - i
      BY <1>1, <1>2, <1>3, <1>5, <2>2
    <3>2. b[j - i] = l[i + (j - i) - 1] /\ i + (j - i) - 1 = j - 1
      BY <1>1, <1>3, <3>1
    <3> QED
      BY <2>2, <3>1, <3>2
  <2> QED
    BY <2>1, <2>2
<1> QED
  BY <1>4, <1>5, <1>6, <1>7

\* The items of a list that is a part of another, in its order.
LEMMA PartOf ==
  ASSUME NEW l \in Seq(Timer), NEW r \in Seq(Timer), IsInjective(l), NEW f \in [1..Len(r) -> 1..Len(l)],
         \A i \in 1..Len(r) : r[i] = l[f[i]],
         \A i, j \in 1..Len(r) : i < j => f[i] < f[j],
         NEW value, Sorted(l, value)
  PROVE  IsInjective(r) /\ Sorted(r, value)
<1>1. DOMAIN r = 1..Len(r) /\ DOMAIN l = 1..Len(l) /\ Len(r) \in Nat /\ Len(l) \in Nat
  OBVIOUS
<1>2. \A i, j \in 1..Len(r) : i <= j => f[i] <= f[j]
  <2> SUFFICES ASSUME NEW i \in 1..Len(r), NEW j \in 1..Len(r), i <= j PROVE f[i] <= f[j]
    OBVIOUS
  <2>1. CASE i = j
    BY <2>1
  <2>2. CASE i < j
    BY <2>2
  <2> QED
    BY <2>1, <2>2
<1>3. ASSUME NEW i \in 1..Len(r), NEW j \in 1..Len(r), r[i] = r[j] PROVE i = j
  <2>1. f[i] = f[j]
    <3>1. f[i] \in DOMAIN l /\ f[j] \in DOMAIN l /\ l[f[i]] = l[f[j]]
      BY <1>1, <1>3
    <3> QED
      BY <3>1 DEF IsInjective
  <2>2. ~(i < j) /\ ~(j < i)
    BY <2>1
  <2> QED
    BY <2>2
<1>4. Sorted(r, value)
  BY <1>2 DEF Sorted
<1> QED
  BY <1>1, <1>3, <1>4 DEF IsInjective

\* uxListRemove takes one item out and leaves the rest in its order, whatever
\* happens to the value of that item.
LEMMA RemoveKeeps ==
  ASSUME NEW l \in Seq(Timer), IsInjective(l), NEW t, NEW value, Sorted(l, value),
         NEW new, \A u \in Timer : u # t => new[u] = value[u]
  PROVE  LET r == uxListRemove(l, t)
         IN  /\ r \in Seq(Timer) /\ IsInjective(r) /\ ToSet(r) = ToSet(l) \ {t} /\ Sorted(r, new)
             /\ t \notin ToSet(l) => r = l
<1> DEFINE here == {i \in 1..Len(l) : l[i] = t}
           r == uxListRemove(l, t)
<1>1. DOMAIN l = 1..Len(l) /\ Len(l) \in Nat /\ \A i \in 1..Len(l) : l[i] \in Timer
  OBVIOUS
<1>2. CASE here = {}
  <2>1. r = l
    BY <1>2 DEF uxListRemove
  <2>2. t \notin ToSet(l)
    BY <1>1, <1>2 DEF ToSet
  <2>3. \A i \in 1..Len(l) : new[l[i]] = value[l[i]]
    BY <1>1, <1>2
  <2>4. Sorted(l, new)
    BY <2>3 DEF Sorted
  <2> HIDE DEF r
  <2> QED
    BY <2>1, <2>2, <2>4 DEF r
<1>3. CASE here # {}
  <2> DEFINE p == Min(here)
             f == [j \in 1..Len(r) |-> IF j < p THEN j ELSE j + 1]
  <2>1. p \in here
    <3>1. here \in SUBSET (1..Len(l))
      OBVIOUS
    <3> HIDE DEF here
    <3> QED
      BY <1>1, <1>3, <3>1, SelectIndex
  <2>2. r = RemoveAt(l, p)
    BY <1>3 DEF uxListRemove
  <2>3. p \in 1..Len(l) /\ l[p] = t
    BY <2>1
  <2> HIDE DEF here, p, r
  <2>4. /\ r \in Seq(Timer) /\ Len(r) = Len(l) - 1
        /\ \A j \in 1..Len(r) : r[j] = IF j < p THEN l[j] ELSE l[j + 1]
    BY <2>2, <2>3, RemoveAtItems
  <2>5. /\ f \in [1..Len(r) -> 1..Len(l)]
        /\ \A i \in 1..Len(r) : r[i] = l[f[i]] /\ f[i] # p
        /\ \A i, j \in 1..Len(r) : i < j => f[i] < f[j]
    BY <1>1, <2>3, <2>4
  <2> HIDE DEF f
  <2>6. IsInjective(r) /\ Sorted(r, value)
    BY <2>4, <2>5, PartOf
  <2>7. \A i \in 1..Len(r) : r[i] # t /\ r[i] \in Timer
    <3> TAKE i \in 1..Len(r)
    <3>1. f[i] \in DOMAIN l /\ p \in DOMAIN l /\ f[i] # p /\ r[i] = l[f[i]]
      BY <1>1, <2>3, <2>5
    <3>2. l[f[i]] # l[p]
      BY <3>1 DEF IsInjective
    <3> QED
      BY <1>1, <2>3, <3>1, <3>2
  <2>8. Sorted(r, new)
    BY <2>6, <2>7 DEF Sorted
  <2>9. ToSet(r) \subseteq ToSet(l) \ {t}
    BY <1>1, <2>4, <2>5, <2>7 DEF ToSet
  <2>10. ASSUME NEW u \in ToSet(l), u # t PROVE u \in ToSet(r)
    <3>1. PICK j \in 1..Len(l) : l[j] = u /\ j # p
      BY <1>1, <2>3, <2>10 DEF ToSet
    <3> DEFINE i == IF j < p THEN j ELSE j - 1
    <3>2. i \in 1..Len(r) /\ r[i] = l[j]
      BY <1>1, <2>3, <2>4, <3>1
    <3> QED
      BY <2>4, <3>1, <3>2 DEF ToSet
  <2>11. t \in ToSet(l)
    BY <1>1, <2>3 DEF ToSet
  <2> QED
    BY <2>4, <2>6, <2>8, <2>9, <2>10, <2>11 DEF r
<1> QED
  BY <1>2, <1>3

\* vListInsert puts one item where its value belongs.
LEMMA InsertKeeps ==
  ASSUME NEW l \in Seq(Timer), IsInjective(l), NEW t \in Timer, t \notin ToSet(l),
         NEW value \in [Timer -> Ticks], Sorted(l, value)
  PROVE  LET r == vListInsert(l, t, value)
         IN  r \in Seq(Timer) /\ IsInjective(r) /\ ToSet(r) = ToSet(l) \cup {t} /\ Sorted(r, value)
<1> DEFINE r == vListInsert(l, t, value)
<1>1. DOMAIN l = 1..Len(l) /\ Len(l) \in Nat /\ \A i \in 1..Len(l) : l[i] \in Timer
  OBVIOUS
<1>2. \A u \in Timer : value[u] \in Int
  BY DEF Ticks
<1>3. PICK p \in 1..Len(l) + 1 :
        /\ r = InsertAt(l, p, t)
        /\ \A j \in 1..Len(l) : IF j < p THEN value[l[j]] <= value[t] ELSE value[t] < value[l[j]]
  <2> DEFINE larger == {i \in 1..Len(l) : value[l[i]] > value[t]}
             first == Min(larger)
  <2>1. CASE larger = {}
    <3>1. r = InsertAt(l, Len(l) + 1, t)
      BY <2>1 DEF vListInsert
    <3>2. \A j \in 1..Len(l) : j < Len(l) + 1 /\ value[l[j]] <= value[t]
      BY <1>1, <1>2, <2>1
    <3>3. Len(l) + 1 \in 1..Len(l) + 1
      BY <1>1
    <3> HIDE DEF r
    <3> QED
      BY <3>1, <3>2, <3>3
  <2>2. CASE larger # {}
    <3>1. r = InsertAt(l, first, t)
      BY <2>2 DEF vListInsert
    <3>2. larger \in SUBSET (1..Len(l)) /\ \A j \in 1..Len(l) : j \in larger <=> value[l[j]] > value[t]
      OBVIOUS
    <3> HIDE DEF larger, r
    <3>3. first \in larger /\ \A j \in larger : first <= j
      BY <1>1, <2>2, <3>2, SelectIndex
    <3> HIDE DEF first
    <3>4. first \in 1..Len(l) /\ value[l[first]] > value[t]
      BY <3>2, <3>3
    <3>5. ASSUME NEW j \in 1..Len(l), j < first PROVE value[l[j]] <= value[t]
      BY <1>1, <1>2, <3>2, <3>3, <3>4, <3>5
    <3>6. ASSUME NEW j \in 1..Len(l), ~(j < first) PROVE value[t] < value[l[j]]
      <4>1. value[l[first]] <= value[l[j]]
        BY <3>4, <3>6 DEF Sorted
      <4> QED
        BY <1>1, <1>2, <3>4, <4>1
    <3>7. first \in 1..Len(l) + 1
      BY <1>1, <3>4
    <3>8. \A j \in 1..Len(l) : IF j < first THEN value[l[j]] <= value[t] ELSE value[t] < value[l[j]]
      BY <3>5, <3>6
    <3> QED
      BY <3>1, <3>7, <3>8, Zenon
  <2> QED
    BY <2>1, <2>2
<1> DEFINE of(j) == IF j < p THEN j ELSE j - 1
<1> HIDE DEF r, of
<1>5. /\ r \in Seq(Timer) /\ Len(r) = Len(l) + 1
      /\ \A j \in 1..Len(l) + 1 : r[j] = IF j < p THEN l[j] ELSE IF j = p THEN t ELSE l[j - 1]
  <2> DEFINE x == InsertAt(l, p, t)
  <2>1. /\ x \in Seq(Timer) /\ Len(x) = Len(l) + 1
        /\ \A j \in 1..Len(l) + 1 : x[j] = IF j < p THEN l[j] ELSE IF j = p THEN t ELSE l[j - 1]
    <3>1. p \in 1..Len(l) + 1
      BY <1>3
    <3> QED
      BY <3>1, InsertAtItems
  <2>2. r = x
    BY <1>3, Zenon
  <2> HIDE DEF x
  <2> QED
    BY <2>1, <2>2, Zenon
<1>6. DOMAIN r = 1..Len(r) /\ r[p] = t
  BY <1>1, <1>3, <1>5
<1>7. \A j \in 1..Len(r) : j # p => of(j) \in 1..Len(l) /\ r[j] = l[of(j)]
  BY <1>1, <1>3, <1>5 DEF of
<1>8. \A i, j \in 1..Len(r) : i # p /\ j # p => (i < j => of(i) < of(j)) /\ (of(i) = of(j) => i = j)
  BY <1>1, <1>3, <1>5 DEF of
<1>9. \A j \in 1..Len(r) : j < p => of(j) < p
  BY <1>1, <1>3, <1>5 DEF of
<1>10. \A j \in 1..Len(r) : p < j => ~(of(j) < p)
  BY <1>1, <1>3, <1>5 DEF of
<1>11. \A j \in 1..Len(r) : r[j] = t => j = p
  BY <1>1, <1>7 DEF ToSet
<1>12. IsInjective(r)
  <2> SUFFICES ASSUME NEW i \in 1..Len(r), NEW j \in 1..Len(r), r[i] = r[j] PROVE i = j
    BY <1>6 DEF IsInjective
  <2>1. CASE i = p \/ j = p
    BY <1>6, <1>11, <2>1
  <2>2. CASE i # p /\ j # p
    <3>1. of(i) = of(j)
      BY <1>1, <1>7, <2>2 DEF IsInjective
    <3> QED
      BY <1>8, <2>2, <3>1
  <2> QED
    BY <2>1, <2>2
<1>13. ToSet(r) = ToSet(l) \cup {t}
  <2>1. ToSet(r) \subseteq ToSet(l) \cup {t}
    <3> SUFFICES ASSUME NEW j \in 1..Len(r), j # p PROVE r[j] \in ToSet(l)
      BY <1>6 DEF ToSet
    <3> QED
      BY <1>1, <1>7 DEF ToSet
  <2>2. t \in ToSet(r)
    BY <1>1, <1>3, <1>5, <1>6 DEF ToSet
  <2>3. ASSUME NEW u \in ToSet(l) PROVE u \in ToSet(r)
    <3>1. PICK j \in 1..Len(l) : l[j] = u
      BY <1>1 DEF ToSet
    <3> DEFINE i == IF j < p THEN j ELSE j + 1
    <3>2. i \in 1..Len(r) /\ r[i] = l[j]
      BY <1>1, <1>3, <1>5
    <3> QED
      BY <1>6, <3>1, <3>2 DEF ToSet
  <2> QED
    BY <2>1, <2>2, <2>3
<1>14. Sorted(r, value)
  <2> SUFFICES ASSUME NEW i \in 1..Len(r), NEW j \in 1..Len(r), i <= j
               PROVE  value[r[i]] <= value[r[j]]
    BY DEF Sorted
  <2>1. CASE i = j
    <3>1. r[i] \in Timer
      BY <1>5
    <3> QED
      BY <1>2, <2>1, <3>1
  <2>2. CASE i < j /\ i # p /\ j # p
    <3>1. of(i) \in 1..Len(l) /\ of(j) \in 1..Len(l) /\ of(i) <= of(j)
      BY <1>7, <1>8, <2>2
    <3> QED
      BY <1>7, <2>2, <3>1 DEF Sorted
  <2>3. CASE i < j /\ i = p
    <3>1. of(j) \in 1..Len(l) /\ ~(of(j) < p) /\ r[j] = l[of(j)] /\ l[of(j)] \in Timer
      BY <1>1, <1>7, <1>10, <2>3
    <3>2. value[t] < value[r[j]]
      BY <1>3, <3>1
    <3> QED
      BY <1>2, <1>6, <2>3, <3>1, <3>2
  <2>4. CASE i < j /\ j = p
    <3>1. of(i) \in 1..Len(l) /\ of(i) < p /\ r[i] = l[of(i)]
      BY <1>7, <1>9, <2>4
    <3> QED
      BY <1>3, <1>6, <2>4, <3>1
  <2> QED
    BY <2>1, <2>2, <2>3, <2>4
<1> QED
  BY <1>5, <1>12, <1>13, <1>14 DEF r

\* A message sent is in the queue behind those that were.
LEMMA AppendSet ==
  ASSUME NEW S, NEW l \in Seq(S), NEW m \in S
  PROVE  /\ Append(l, m) \in Seq(S) /\ Len(Append(l, m)) = Len(l) + 1
         /\ ToSet(Append(l, m)) = ToSet(l) \cup {m}
<1> DEFINE r == Append(l, m)
<1>1. /\ r \in Seq(S) /\ Len(r) = Len(l) + 1 /\ Len(l) \in Nat
      /\ \A i \in 1..Len(l) : r[i] = l[i]
      /\ r[Len(l) + 1] = m
  OBVIOUS
<1> HIDE DEF r
<1>2. DOMAIN r = 1..Len(l) + 1 /\ DOMAIN l = 1..Len(l)
  BY <1>1
<1>3. ToSet(r) = ToSet(l) \cup {m}
  <2>1. ToSet(r) \subseteq ToSet(l) \cup {m}
    <3> SUFFICES ASSUME NEW i \in 1..Len(l) + 1, r[i] # m PROVE r[i] \in ToSet(l)
      BY <1>2 DEF ToSet
    <3>1. i \in 1..Len(l)
      BY <1>1
    <3> QED
      BY <1>1, <1>2, <3>1 DEF ToSet
  <2>2. m \in ToSet(r)
    <3>1. Len(l) + 1 \in 1..Len(l) + 1
      BY <1>1
    <3> QED
      BY <1>1, <1>2, <3>1 DEF ToSet
  <2>3. ASSUME NEW x \in ToSet(l) PROVE x \in ToSet(r)
    <3>1. PICK i \in 1..Len(l) : l[i] = x
      BY <1>2 DEF ToSet
    <3>2. i \in 1..Len(l) + 1
      BY <1>1
    <3> QED
      BY <1>1, <1>2, <3>1, <3>2 DEF ToSet
  <2> QED
    BY <2>1, <2>2, <2>3
<1> QED
  BY <1>1, <1>3 DEF r

\* What the rest of the queue holds when its head is taken.
LEMMA TailSet ==
  ASSUME NEW S, NEW l \in Seq(S), l # <<>>
  PROVE  /\ Tail(l) \in Seq(S) /\ Len(Tail(l)) = Len(l) - 1 /\ Head(l) \in S
         /\ ToSet(l) \ {Head(l)} \subseteq ToSet(Tail(l))
<1> DEFINE r == Tail(l)
<1>1. /\ r \in Seq(S) /\ Len(r) = Len(l) - 1 /\ Len(l) \in Nat \ {0} /\ Head(l) = l[1] /\ Head(l) \in S
      /\ \A i \in 1..Len(l) - 1 : r[i] = l[i + 1]
  OBVIOUS
<1> HIDE DEF r
<1>2. DOMAIN r = 1..Len(l) - 1 /\ DOMAIN l = 1..Len(l)
  BY <1>1
<1>3. ASSUME NEW x \in ToSet(l) \ {Head(l)} PROVE x \in ToSet(r)
  <2>1. PICK i \in 1..Len(l) : l[i] = x /\ i # 1
    BY <1>1, <1>2 DEF ToSet
  <2>2. i - 1 \in 1..Len(l) - 1 /\ (i - 1) + 1 = i
    BY <1>1, <2>1
  <2>3. r[i - 1] = x
    BY <1>1, <2>1, <2>2
  <2> QED
    BY <1>2, <2>2, <2>3 DEF ToSet
<1> QED
  BY <1>1, <1>3 DEF r

-----------------------------------------------------------------------------
\* What the operations on the data do.

LEMMA ElsewhereFine ==
  ASSUME NEW s, NEW r, NEW t, Elsewhere(s, r, t), NEW u \in Timer \ {t},
         NEW c, NEW e, NEW l, Fine(s, c, e, l, u)
  PROVE  Fine(r, c, e, l, u)
<1>1. /\ u \in ToSet(r.current) <=> u \in ToSet(s.current)
      /\ u \in ToSet(r.overflow) <=> u \in ToSet(s.overflow)
      /\ r.expiry[u] = s.expiry[u] /\ r.due[u] = s.due[u]
      /\ u \in r.awaited <=> u \in s.awaited
      /\ Restarting(s, u) => Restarting(r, u)
  BY DEF Elsewhere
<1>2. u \in Active(r) <=> u \in Active(s)
  BY <1>1 DEF Active
<1> QED
  BY <1>1, <1>2 DEF Fine

LEMMA ElsewhereOn ==
  ASSUME NEW s, NEW r, NEW x, NEW t, Elsewhere(s, r, t), Elsewhere(r, x, t)
  PROVE  Elsewhere(s, x, t)
BY DEF Elsewhere

\* What no placing in a list touches.
Rest(s) == <<s.period, s.queue, s.restarts, s.last, s.alive, s.awaited, s.due, s.early>>

LEMMA DataFields ==
  ASSUME NEW s \in Data
  PROVE  /\ s.current \in Seq(Timer) /\ s.overflow \in Seq(Timer) /\ s.queue \in Seq(Commands)
         /\ s.restarts \in Seq(Commands) /\ s.expiry \in [Timer -> Ticks] /\ s.period \in [Timer -> Periods] /\ s.last \in Ticks
         /\ s.alive \in SUBSET Timer /\ s.awaited \in SUBSET Timer /\ s.early \in SUBSET Timer
         /\ s.due \in [Timer -> Int]
BY DEF Data

\* Every period is shorter than a cycle of the tick count.
LEMMA PeriodFits ==
  ASSUME NEW s \in Data, NEW t \in Timer
  PROVE  /\ s.period[t] \in Periods /\ s.period[t] \in Ticks /\ s.period[t] > 0
         /\ s.period[t] \in Int /\ s.period[t] + MaxLate < TickMod
<1>1. s.period[t] \in Periods
  BY DEF Data
<1>2. \A p \in Periods : p \in 1..TickMod - 1 /\ p + MaxLate < TickMod
  BY TimersAssumption, SampledInTime
<1>3. TickMod \in Nat
  BY TimersAssumption
<1>4. \A p \in 1..TickMod - 1 : p \in Ticks /\ p > 0 /\ p \in Int
  BY <1>3 DEF Ticks
<1> QED
  BY <1>1, <1>2, <1>4

LEMMA TidyStays ==
  ASSUME NEW s, Tidy(s), NEW r \in Data, r.current = s.current, r.overflow = s.overflow,
         r.expiry = s.expiry, Len(r.queue) <= QueueLength
  PROVE  Tidy(r)
BY DEF Tidy

\* The timer leaves its list.
LEMMA DeactivateEffect ==
  ASSUME NEW s, Tidy(s), NEW t \in Timer
  PROVE  LET r == Deactivate(s, t)
         IN  /\ Tidy(r) /\ Elsewhere(s, r, t) /\ Rest(r) = Rest(s) /\ t \notin Active(r)
             /\ t \notin ToSet(s.overflow) => r.overflow = s.overflow
<1> DEFINE v == [s.expiry EXCEPT ![t] = 0]
           cu == uxListRemove(s.current, t)
           ov == uxListRemove(s.overflow, t)
           r == Deactivate(s, t)
<1>1. /\ s \in Data /\ IsInjective(s.current) /\ IsInjective(s.overflow)
      /\ ToSet(s.current) \cap ToSet(s.overflow) = {}
      /\ Sorted(s.current, s.expiry) /\ Sorted(s.overflow, s.expiry)
      /\ Len(s.queue) <= QueueLength
  BY DEF Tidy
<1>2. 0 \in Ticks
  BY TimersAssumption DEF Ticks
<1>3. v \in [Timer -> Ticks] /\ \A u \in Timer : u # t => v[u] = s.expiry[u]
  BY <1>1, <1>2, DataFields
<1>4. r = [s EXCEPT !.current = cu, !.overflow = ov, !.expiry = v]
  BY DEF Deactivate
<1> HIDE DEF r, v, cu, ov
<1>5. cu \in Seq(Timer) /\ IsInjective(cu) /\ ToSet(cu) = ToSet(s.current) \ {t} /\ Sorted(cu, v)
  BY <1>1, <1>3, DataFields, RemoveKeeps DEF cu
<1>6. /\ ov \in Seq(Timer) /\ IsInjective(ov) /\ ToSet(ov) = ToSet(s.overflow) \ {t} /\ Sorted(ov, v)
      /\ t \notin ToSet(s.overflow) => ov = s.overflow
  BY <1>1, <1>3, DataFields, RemoveKeeps DEF ov
<1>7. r \in Data
  BY <1>1, <1>3, <1>4, <1>5, <1>6 DEF Data
<1>8. /\ r.current = cu /\ r.overflow = ov /\ r.expiry = v /\ r.period = s.period
      /\ r.queue = s.queue /\ r.restarts = s.restarts /\ r.last = s.last /\ r.alive = s.alive /\ r.awaited = s.awaited
      /\ r.due = s.due /\ r.early = s.early
  BY <1>1, <1>4 DEF Data
<1>9. Tidy(r)
  BY <1>1, <1>5, <1>6, <1>7, <1>8 DEF Tidy
<1>10. Elsewhere(s, r, t)
  BY <1>3, <1>5, <1>6, <1>8 DEF Elsewhere, Restarting
<1>11. t \notin Active(r)
  BY <1>5, <1>6, <1>8 DEF Active
<1> QED
  BY <1>6, <1>8, <1>9, <1>10, <1>11 DEF r, Rest

\* The timer goes to a list, where its expiry belongs.
LEMMA InsertEffect ==
  ASSUME NEW s, Tidy(s), NEW t \in Timer, t \notin Active(s), NEW time \in Ticks
  PROVE  /\ LET r == InsertCurrent(s, t, time)
            IN  /\ Tidy(r) /\ Elsewhere(s, r, t) /\ Rest(r) = Rest(s) /\ r.expiry[t] = time
                /\ t \in ToSet(r.current) /\ t \notin ToSet(r.overflow)
                /\ r.overflow = s.overflow
         /\ LET r == InsertOverflow(s, t, time)
            IN  /\ Tidy(r) /\ Elsewhere(s, r, t) /\ Rest(r) = Rest(s) /\ r.expiry[t] = time
                /\ t \in ToSet(r.overflow) /\ t \notin ToSet(r.current)
<1> DEFINE v == [s.expiry EXCEPT ![t] = time]
<1>1. /\ s \in Data /\ IsInjective(s.current) /\ IsInjective(s.overflow)
      /\ ToSet(s.current) \cap ToSet(s.overflow) = {}
      /\ Sorted(s.current, s.expiry) /\ Sorted(s.overflow, s.expiry)
      /\ Len(s.queue) <= QueueLength
  BY DEF Tidy
<1>2. t \notin ToSet(s.current) /\ t \notin ToSet(s.overflow)
  BY DEF Active
<1>3. v \in [Timer -> Ticks] /\ v[t] = time /\ \A u \in Timer : u # t => v[u] = s.expiry[u]
  BY <1>1, DataFields
<1>4. ASSUME NEW l \in Seq(Timer), Sorted(l, s.expiry), t \notin ToSet(l)
      PROVE  Sorted(l, v)
  <2>1. \A i \in 1..Len(l) : l[i] \in Timer /\ l[i] # t
    BY <1>4 DEF ToSet
  <2> QED
    BY <1>3, <1>4, <2>1 DEF Sorted
<1>5. Sorted(s.current, v) /\ Sorted(s.overflow, v)
  BY <1>1, <1>2, <1>4, DataFields
<1> HIDE DEF v
<1>6. LET r == InsertCurrent(s, t, time)
      IN  /\ Tidy(r) /\ Elsewhere(s, r, t) /\ Rest(r) = Rest(s) /\ r.expiry[t] = time
          /\ t \in ToSet(r.current) /\ t \notin ToSet(r.overflow) /\ r.overflow = s.overflow
  <2> DEFINE l == vListInsert(s.current, t, v)
             r == InsertCurrent(s, t, time)
  <2>1. l \in Seq(Timer) /\ IsInjective(l) /\ ToSet(l) = ToSet(s.current) \cup {t} /\ Sorted(l, v)
    BY <1>1, <1>2, <1>3, <1>5, DataFields, InsertKeeps
  <2>2. r = [s EXCEPT !.expiry = v, !.current = l]
    BY DEF InsertCurrent, v
  <2> HIDE DEF l, r
  <2>3. r \in Data
    BY <1>1, <1>3, <2>1, <2>2 DEF Data
  <2>4. /\ r.current = l /\ r.overflow = s.overflow /\ r.expiry = v /\ r.period = s.period
        /\ r.queue = s.queue /\ r.restarts = s.restarts /\ r.last = s.last /\ r.alive = s.alive /\ r.awaited = s.awaited
        /\ r.due = s.due /\ r.early = s.early
    BY <1>1, <2>2 DEF Data
  <2>5. Tidy(r)
    BY <1>1, <1>2, <1>5, <2>1, <2>3, <2>4 DEF Tidy
  <2>6. Elsewhere(s, r, t)
    BY <1>3, <2>1, <2>4 DEF Elsewhere, Restarting
  <2> QED
    BY <1>2, <1>3, <2>1, <2>4, <2>5, <2>6 DEF r, Rest
<1>7. LET r == InsertOverflow(s, t, time)
      IN  /\ Tidy(r) /\ Elsewhere(s, r, t) /\ Rest(r) = Rest(s) /\ r.expiry[t] = time
          /\ t \in ToSet(r.overflow) /\ t \notin ToSet(r.current)
  <2> DEFINE l == vListInsert(s.overflow, t, v)
             r == InsertOverflow(s, t, time)
  <2>1. l \in Seq(Timer) /\ IsInjective(l) /\ ToSet(l) = ToSet(s.overflow) \cup {t} /\ Sorted(l, v)
    BY <1>1, <1>2, <1>3, <1>5, DataFields, InsertKeeps
  <2>2. r = [s EXCEPT !.expiry = v, !.overflow = l]
    BY DEF InsertOverflow, v
  <2> HIDE DEF l, r
  <2>3. r \in Data
    BY <1>1, <1>3, <2>1, <2>2 DEF Data
  <2>4. /\ r.current = s.current /\ r.overflow = l /\ r.expiry = v /\ r.period = s.period
        /\ r.queue = s.queue /\ r.restarts = s.restarts /\ r.last = s.last /\ r.alive = s.alive /\ r.awaited = s.awaited
        /\ r.due = s.due /\ r.early = s.early
    BY <1>1, <2>2 DEF Data
  <2>5. Tidy(r)
    BY <1>1, <1>2, <1>5, <2>1, <2>3, <2>4 DEF Tidy
  <2>6. Elsewhere(s, r, t)
    BY <1>3, <2>1, <2>4 DEF Elsewhere, Restarting
  <2> QED
    BY <1>2, <1>3, <2>1, <2>4, <2>5, <2>6 DEF r, Rest
<1> QED
  BY <1>6, <1>7

\* The lists are as they were.
SameLists(s, r) == r.current = s.current /\ r.overflow = s.overflow /\ r.expiry = s.expiry

\* A callback is early only when the timer is not due.
LEMMA CallbackEffect ==
  ASSUME NEW s, Tidy(s), NEW t \in Timer
  PROVE  LET r == Callback(s, t)
         IN  /\ Tidy(r) /\ Elsewhere(s, r, t) /\ SameLists(s, r)
             /\ r.period = s.period /\ r.queue = s.queue /\ r.restarts = s.restarts /\ r.last = s.last /\ r.alive = s.alive
             /\ t \in r.awaited <=> t \in s.awaited /\ t \in AutoReload
             /\ t \in r.awaited => r.due[t] = s.due[t] + s.period[t]
             /\ (t \in s.awaited => s.due[t] <= 0) => r.early = s.early
<1> DEFINE r == Callback(s, t)
<1>1. s \in Data /\ Len(s.queue) <= QueueLength
  BY DEF Tidy
<1>2. CASE t \notin s.awaited
  <2>1. r = s
    BY <1>2 DEF Callback
  <2>2. Elsewhere(s, s, t)
    BY DEF Elsewhere
  <2> HIDE DEF r
  <2> QED
    BY <1>2, <2>1, <2>2 DEF r, SameLists
<1>3. CASE t \in s.awaited
  <2> DEFINE ea == IF s.due[t] > 0 THEN s.early \cup {t} ELSE s.early
             du == [s.due EXCEPT ![t] = IF t \in AutoReload THEN @ + s.period[t] ELSE 0]
             aw == IF t \in AutoReload THEN s.awaited ELSE s.awaited \ {t}
  <2>1. r = [s EXCEPT !.early = ea, !.due = du, !.awaited = aw]
    BY <1>3 DEF Callback
  <2>2. ea \in SUBSET Timer /\ aw \in SUBSET Timer
    BY <1>1, DataFields
  <2>3. s.period[t] \in Int /\ s.due[t] \in Int
    BY <1>1, PeriodFits DEF Data
  <2>4. du \in [Timer -> Int] /\ \A u \in Timer \ {t} : du[u] = s.due[u]
    BY <1>1, <2>3, DataFields
  <2>5. t \in AutoReload => du[t] = s.due[t] + s.period[t]
    BY <1>1, DataFields
  <2>6. /\ \A u \in Timer \ {t} : u \in ea <=> u \in s.early
        /\ \A u \in Timer \ {t} : u \in aw <=> u \in s.awaited
        /\ t \in aw <=> t \in AutoReload
        /\ s.due[t] <= 0 => ea = s.early
    BY <1>3, <2>3
  <2> HIDE DEF r, ea, du, aw
  <2>7. r \in Data
    BY <1>1, <2>1, <2>2, <2>4 DEF Data
  <2>8. /\ r.current = s.current /\ r.overflow = s.overflow /\ r.expiry = s.expiry
        /\ r.period = s.period /\ r.queue = s.queue /\ r.restarts = s.restarts /\ r.last = s.last /\ r.alive = s.alive
        /\ r.awaited = aw /\ r.due = du /\ r.early = ea
    BY <1>1, <2>1 DEF Data
  <2>9. Tidy(r)
    BY <1>1, <2>7, <2>8, TidyStays
  <2>10. Elsewhere(s, r, t)
    BY <2>4, <2>6, <2>8 DEF Elsewhere, Restarting
  <2> QED
    BY <1>3, <2>5, <2>6, <2>8, <2>9, <2>10 DEF r, SameLists
<1> QED
  BY <1>2, <1>3

\* The service task's own command is on its way to the queue.
LEMMA RestartEffect ==
  ASSUME NEW s, Tidy(s), NEW t \in AutoReload, NEW time \in Ticks
  PROVE  LET r == RestartCommand(s, t, time)
         IN  /\ Tidy(r) /\ Elsewhere(s, r, t) /\ SameLists(s, r)
             /\ r.period = s.period /\ r.last = s.last /\ r.alive = s.alive /\ r.early = s.early
             /\ r.awaited = s.awaited /\ r.due = s.due /\ Restarting(r, t)
<1> DEFINE r == RestartCommand(s, t, time)
           m == [id |-> "start", timer |-> t, value |-> time]
           qu == Append(s.restarts, m)
<1>1. s \in Data /\ Len(s.queue) <= QueueLength /\ t \in Timer /\ s.restarts \in Seq(Commands)
  BY TimersAssumption, DataFields DEF Tidy
<1>2. m \in Commands
  BY <1>1 DEF Commands, Ticks
<1>3. r = [s EXCEPT !.restarts = qu]
  BY DEF RestartCommand
<1>4. qu \in Seq(Commands) /\ ToSet(qu) = ToSet(s.restarts) \cup {m}
  <2> HIDE DEF m
  <2> QED
    BY <1>1, <1>2, AppendSet
<1> HIDE DEF r, qu
<1>5. r \in Data
  BY <1>1, <1>3, <1>4 DEF Data
<1>6. /\ r.current = s.current /\ r.overflow = s.overflow /\ r.expiry = s.expiry
      /\ r.period = s.period /\ r.queue = s.queue /\ r.restarts = qu /\ r.last = s.last
      /\ r.alive = s.alive /\ r.awaited = s.awaited /\ r.due = s.due /\ r.early = s.early
  BY <1>1, <1>3 DEF Data
<1>7. Tidy(r)
  BY <1>1, <1>5, <1>6, TidyStays
<1>8. Elsewhere(s, r, t) /\ Restarting(r, t)
  <2>1. m \in ToSet(r.restarts) /\ m.timer = t /\ m.id = "start"
    BY <1>4, <1>6
  <2>2. ToSet(s.queue) \cup ToSet(s.restarts) \subseteq ToSet(r.queue) \cup ToSet(r.restarts)
    BY <1>4, <1>6
  <2> HIDE DEF m
  <2> QED
    BY <1>6, <2>1, <2>2 DEF Elsewhere, Restarting
<1> QED
  BY <1>6, <1>7, <1>8 DEF r, SameLists

\* One round of the loop of prvSwitchTimerLists, for a timer that is due.
LEMMA ExpireEffect ==
  ASSUME NEW s, Tidy(s), s.current # <<>>,
         Head(s.current) \in s.awaited => s.due[Head(s.current)] <= 0
  PROVE  LET t == Head(s.current)
             r == ExpireHead(s)
         IN  /\ Tidy(r) /\ Elsewhere(s, r, t) /\ r.overflow = s.overflow
             /\ r.period = s.period /\ r.last = s.last /\ r.alive = s.alive /\ r.early = s.early
             /\ t \in r.awaited => t \in s.awaited
             /\ \/ t \notin Active(r) /\ (t \in r.awaited => Restarting(r, t))
                \/ /\ t \in ToSet(r.current) /\ r.expiry[t] = s.expiry[t] + s.period[t]
                   /\ t \in r.awaited => r.due[t] = s.due[t] + s.period[t]
<1> DEFINE t == Head(s.current)
           time == s.expiry[t]
           again == (time + s.period[t]) % TickMod
           gone == Deactivate(s, t)
           called == Callback(gone, t)
           r == ExpireHead(s)
<1>1. s \in Data /\ t \in Timer /\ t \in ToSet(s.current)
  <2>1. s \in Data
    BY DEF Tidy
  <2>2. s.current \in Seq(Timer)
    BY <2>1, DataFields
  <2>3. t \in Timer /\ 1 \in DOMAIN s.current /\ s.current[1] = t
    BY <2>2
  <2> QED
    BY <2>1, <2>3 DEF ToSet
<1>2. t \notin ToSet(s.overflow)
  BY <1>1 DEF Tidy
<1>3. time \in Ticks /\ s.period[t] \in Ticks /\ s.period[t] > 0
  <2>1. s.expiry[t] \in Ticks
    BY <1>1 DEF Data
  <2> QED
    BY <1>1, <2>1, PeriodFits
<1>4. again = (IF time + s.period[t] < TickMod THEN time + s.period[t]
               ELSE time + s.period[t] - TickMod)
  BY <1>3, TickSum
<1>5. again \in Ticks /\ (again > time => again = time + s.period[t])
  <2> HIDE DEF again, time, t
  <2>1. TickMod \in Nat
    BY TimersAssumption
  <2>2. time \in 0..TickMod - 1 /\ s.period[t] \in 0..TickMod - 1
    BY <1>3 DEF Ticks
  <2>3. again \in 0..TickMod - 1
    BY <1>4, <2>1, <2>2
  <2>4. again > time => again = time + s.period[t]
    BY <1>4, <2>1, <2>2
  <2> QED
    BY <2>3, <2>4 DEF Ticks
<1> HIDE DEF t, time, again, gone
<1>6. /\ Tidy(gone) /\ Elsewhere(s, gone, t) /\ t \notin Active(gone)
      /\ gone.overflow = s.overflow
      /\ gone.period = s.period /\ gone.queue = s.queue /\ gone.restarts = s.restarts /\ gone.last = s.last
      /\ gone.alive = s.alive /\ gone.awaited = s.awaited /\ gone.due = s.due
      /\ gone.early = s.early
  BY <1>1, <1>2, DeactivateEffect DEF gone, Rest
<1> HIDE DEF called
<1>7. /\ Tidy(called) /\ Elsewhere(gone, called, t) /\ SameLists(gone, called)
      /\ called.period = gone.period /\ called.last = gone.last /\ called.alive = gone.alive
      /\ called.early = gone.early
      /\ t \in called.awaited <=> t \in gone.awaited /\ t \in AutoReload
      /\ t \in called.awaited => called.due[t] = gone.due[t] + gone.period[t]
  BY <1>1, <1>6, CallbackEffect DEF called, t
<1>8. Elsewhere(s, called, t) /\ t \notin Active(called) /\ called.overflow = s.overflow
  BY <1>6, <1>7, ElsewhereOn DEF SameLists, Active
<1> HIDE DEF r
<1>9. CASE t \notin AutoReload
  <2>1. r = called
    BY <1>9 DEF r, ExpireHead, called, gone, t
  <2> QED
    BY <1>6, <1>7, <1>8, <1>9, <2>1 DEF r, t
<1>10. CASE t \in AutoReload /\ again > time
  <2>1. r = InsertCurrent(called, t, again)
    <3>1. ~(again <= time)
      BY <1>3, <1>5, <1>10 DEF Ticks
    <3> QED
      BY <1>10, <3>1 DEF r, ExpireHead, called, gone, t, again, time
  <2>2. /\ Tidy(r) /\ Elsewhere(called, r, t) /\ Rest(r) = Rest(called) /\ r.expiry[t] = again
        /\ t \in ToSet(r.current) /\ r.overflow = called.overflow
    BY <1>1, <1>5, <1>7, <1>8, <2>1, InsertEffect
  <2>3. Elsewhere(s, r, t)
    BY <1>8, <2>2, ElsewhereOn
  <2>4. r.expiry[t] = s.expiry[t] + s.period[t]
    BY <1>5, <1>10, <2>2 DEF time
  <2>5. /\ r.period = called.period /\ r.last = called.last /\ r.alive = called.alive
        /\ r.awaited = called.awaited /\ r.due = called.due /\ r.early = called.early
    BY <2>2 DEF Rest
  <2> QED
    BY <1>6, <1>7, <1>8, <2>2, <2>3, <2>4, <2>5 DEF r, t
<1>11. CASE t \in AutoReload /\ again <= time
  <2>1. r = RestartCommand(called, t, time)
    <3>1. ~(again > time)
      BY <1>3, <1>5, <1>11 DEF Ticks
    <3> QED
      BY <1>11, <3>1 DEF r, ExpireHead, called, gone, t, again, time
  <2>2. /\ Tidy(r) /\ Elsewhere(called, r, t) /\ SameLists(called, r)
        /\ r.period = called.period /\ r.last = called.last /\ r.alive = called.alive
        /\ r.early = called.early
        /\ t \in r.awaited => t \in called.awaited /\ Restarting(r, t)
    BY <1>3, <1>7, <1>11, <2>1, RestartEffect
  <2>3. Elsewhere(s, r, t)
    BY <1>8, <2>2, ElsewhereOn
  <2>4. t \notin Active(r) /\ r.overflow = s.overflow
    BY <1>8, <2>2 DEF SameLists, Active
  <2> QED
    BY <1>6, <1>7, <2>2, <2>3, <2>4 DEF r, t
<1>12. again > time \/ again <= time
  BY <1>3, <1>5 DEF Ticks
<1> QED
  BY <1>9, <1>10, <1>11, <1>12

\* A round takes something from what is ahead.
LEMMA RoundProgress ==
  ASSUME NEW s, Tidy(s), NEW r, Tidy(r), NEW t \in ToSet(s.current), Elsewhere(s, r, t),
         t \notin Active(r) \/ r.expiry[t] = s.expiry[t] + s.period[t]
  PROVE  Cardinality(Ahead(r)) + 1 <= Cardinality(Ahead(s))
<1> DEFINE p == <<t, s.expiry[t]>>
<1>1. s \in Data /\ r \in Data /\ t \in Timer
  <2>1. s \in Data /\ r \in Data
    BY DEF Tidy
  <2>2. s.current \in Seq(Timer)
    BY <2>1, DataFields
  <2> QED
    BY <2>1, <2>2 DEF ToSet
<1>2. s.expiry \in [Timer -> Ticks] /\ r.expiry \in [Timer -> Ticks] /\ s.period[t] \in Int
      /\ s.period[t] > 0 /\ \A x \in Ticks : x \in Int
  BY <1>1, DataFields, PeriodFits DEF Ticks
<1>3. p \in Ahead(s)
  BY <1>1, <1>2 DEF Ahead
<1>4. p \notin Ahead(r)
  BY <1>1, <1>2 DEF Ahead, Active
<1>5. Ahead(r) \subseteq Ahead(s)
  <2> SUFFICES ASSUME NEW x \in Ahead(r) PROVE x \in Ahead(s)
    OBVIOUS
  <2>1. x[1] \in Timer /\ x[2] \in Ticks /\ x \in Timer \X Ticks
        /\ x[1] \in ToSet(r.current) /\ r.expiry[x[1]] <= x[2]
    BY DEF Ahead
  <2>2. CASE x[1] # t
    BY <2>1, <2>2 DEF Elsewhere, Ahead
  <2>3. CASE x[1] = t
    <3>1. r.expiry[t] = s.expiry[t] + s.period[t]
      BY <2>1, <2>3 DEF Active
    <3>2. s.expiry[t] <= x[2]
      BY <1>1, <1>2, <2>1, <2>3, <3>1
    <3> QED
      BY <2>1, <2>3, <3>2 DEF Ahead
  <2> QED
    BY <2>2, <2>3
<1>6. IsFiniteSet(Ahead(s))
  <2>1. IsFiniteSet(Timer) /\ IsFiniteSet(Ticks)
    BY TimersAssumption, FS_Interval DEF Ticks
  <2>2. IsFiniteSet(Timer \X Ticks)
    BY <2>1, FS_Product
  <2> QED
    BY <2>2, FS_Subset DEF Ahead
<1> HIDE DEF p
<1>7. IsFiniteSet(Ahead(s) \ {p}) /\ Cardinality(Ahead(s) \ {p}) = Cardinality(Ahead(s)) - 1
  BY <1>3, <1>6, FS_RemoveElement
<1>8. Ahead(r) \subseteq Ahead(s) \ {p}
  BY <1>4, <1>5
<1>9. IsFiniteSet(Ahead(r)) /\ Cardinality(Ahead(r)) <= Cardinality(Ahead(s) \ {p})
  BY <1>7, <1>8, FS_Subset
<1>10. Cardinality(Ahead(r)) \in Nat /\ Cardinality(Ahead(s)) \in Nat
  BY <1>6, <1>9, FS_CardinalityType
<1> QED
  BY <1>7, <1>9, <1>10

\* No more rounds are needed than there are timers and ticks.
LEMMA AheadBound ==
  ASSUME NEW s
  PROVE  /\ IsFiniteSet(Ahead(s)) /\ Cardinality(Ahead(s)) \in Nat
         /\ Cardinality(Ahead(s)) <= TickMod * Cardinality(Timer)
         /\ TickMod * Cardinality(Timer) \in Nat
<1>1. TickMod \in Nat \ {0} /\ IsFiniteSet(Timer)
  BY TimersAssumption
<1>2. IsFiniteSet(Ticks) /\ Cardinality(Ticks) = TickMod
  <2>1. 0 \in Int /\ TickMod - 1 \in Int /\ ~(0 > TickMod - 1) /\ (TickMod - 1) - 0 + 1 = TickMod
    BY <1>1
  <2> QED
    BY <2>1, FS_Interval DEF Ticks
<1>3. IsFiniteSet(Timer \X Ticks) /\ Cardinality(Timer \X Ticks) = Cardinality(Timer) * TickMod
  BY <1>1, <1>2, FS_Product
<1>4. Ahead(s) \subseteq Timer \X Ticks
  BY DEF Ahead
<1>5. /\ IsFiniteSet(Ahead(s)) /\ Cardinality(Ahead(s)) <= Cardinality(Timer \X Ticks)
  BY <1>3, <1>4, FS_Subset
<1>6. Cardinality(Ahead(s)) \in Nat /\ Cardinality(Timer) \in Nat
  BY <1>1, <1>5, FS_CardinalityType
<1>7. Cardinality(Timer) * TickMod = TickMod * Cardinality(Timer)
      /\ TickMod * Cardinality(Timer) \in Nat
  BY <1>1, <1>6
<1> QED
  BY <1>3, <1>5, <1>6, <1>7

\* The body of the loop keeps its invariant.
LEMMA RoundKeeps ==
  ASSUME NEW c, c.now \in Ticks, c.s.current \in Seq(Timer),
         ToSet(c.s.current) \cap ToSet(c.s.overflow) = {},
         NEW i \in Nat \ {0}, NEW s, Switching(c, i - 1, s)
  PROVE  Switching(c, i, Round(c, s, i))
<1>1. CASE s.current = <<>>
  <2>1. Round(c, s, i) = s
    BY <1>1 DEF Round
  <2> QED
    BY <1>1, <2>1 DEF Switching
<1>2. CASE s.current # <<>>
  <2> DEFINE t == Head(s.current)
             r == ExpireHead(s)
  <2>1. /\ Tidy(s) /\ s.early = {} /\ s.overflow = c.s.overflow
        /\ s.period = c.s.period /\ s.last = c.s.last /\ s.alive = c.s.alive
    BY DEF Switching
  <2>2. \A u \in Timer \ ToSet(c.s.current) :
          /\ u \notin ToSet(s.current)
          /\ s.expiry[u] = c.s.expiry[u] /\ s.due[u] = c.s.due[u]
          /\ u \in s.awaited <=> u \in c.s.awaited
          /\ Restarting(c.s, u) => Restarting(s, u)
    BY Zenon DEF Switching
  <2>3. \A u \in ToSet(c.s.current) \cap s.awaited :
          /\ u \in c.s.awaited
          /\ u \in ToSet(s.current) => s.due[u] = s.expiry[u] - c.now - TickMod
          /\ u \notin ToSet(s.current) => Restarting(s, u)
    BY Zenon DEF Switching
  <2>4. s \in Data /\ s.current \in Seq(Timer)
    BY <2>1, DataFields DEF Tidy
  <2>5. t \in Timer /\ t \in ToSet(s.current)
    <3>1. t \in Timer /\ 1 \in DOMAIN s.current /\ s.current[1] = t
      BY <1>2, <2>4
    <3> QED
      BY <3>1 DEF ToSet
  <2> HIDE DEF t
  <2>6. t \in ToSet(c.s.current) /\ t \notin ToSet(s.overflow)
    BY <2>1, <2>2, <2>5
  <2>7. \A u \in Timer : s.expiry[u] \in Int /\ s.expiry[u] < TickMod /\ s.due[u] \in Int
        /\ s.period[u] \in Int /\ s.period[u] > 0
    <3>1. s.expiry \in [Timer -> Ticks] /\ s.due \in [Timer -> Int]
      BY <2>4, DataFields
    <3>2. \A x \in Ticks : x \in Int /\ x < TickMod
      BY TimersAssumption DEF Ticks
    <3> QED
      BY <2>4, <3>1, <3>2, PeriodFits
  <2>8. c.now \in Int /\ c.now >= 0 /\ TickMod \in Int
    BY TimersAssumption DEF Ticks
  <2>9. t \in s.awaited => s.due[t] = s.expiry[t] - c.now - TickMod
    BY <2>3, <2>5, <2>6
  <2>10. t \in s.awaited => s.due[t] <= 0
    BY <2>5, <2>7, <2>8, <2>9
  <2>11. /\ Tidy(r) /\ Elsewhere(s, r, t) /\ r.overflow = s.overflow
         /\ r.period = s.period /\ r.last = s.last /\ r.alive = s.alive /\ r.early = s.early
         /\ t \in r.awaited => t \in s.awaited
         /\ \/ t \notin Active(r) /\ (t \in r.awaited => Restarting(r, t))
            \/ /\ t \in ToSet(r.current) /\ r.expiry[t] = s.expiry[t] + s.period[t]
               /\ t \in r.awaited => r.due[t] = s.due[t] + s.period[t]
    BY <1>2, <2>1, <2>10, ExpireEffect DEF t
  <2> HIDE DEF r
  <2>12. \A u \in Timer \ {t} :
           /\ u \in ToSet(r.current) <=> u \in ToSet(s.current)
           /\ r.expiry[u] = s.expiry[u] /\ r.due[u] = s.due[u]
           /\ u \in r.awaited <=> u \in s.awaited
           /\ Restarting(s, u) => Restarting(r, u)
    BY <2>11 DEF Elsewhere
  <2>13. ASSUME NEW u \in Timer \ ToSet(c.s.current)
         PROVE  /\ u \notin ToSet(r.current)
                /\ r.expiry[u] = c.s.expiry[u] /\ r.due[u] = c.s.due[u]
                /\ u \in r.awaited <=> u \in c.s.awaited
                /\ Restarting(c.s, u) => Restarting(r, u)
    <3>1. u # t
      BY <2>6
    <3> QED
      BY <2>2, <2>12, <3>1
  <2>14. ASSUME NEW u \in ToSet(c.s.current) \cap r.awaited
         PROVE  /\ u \in c.s.awaited
                /\ u \in ToSet(r.current) => r.due[u] = r.expiry[u] - c.now - TickMod
                /\ u \notin ToSet(r.current) => Restarting(r, u)
    <3>0. u \in Timer
      BY DEF ToSet
    <3>1. CASE u # t
      BY <2>3, <2>12, <3>0, <3>1
    <3>2. CASE u = t
      <4>1. t \in s.awaited /\ t \in c.s.awaited
        BY <2>3, <2>6, <2>11, <3>2
      <4>2. CASE t \notin Active(r) /\ Restarting(r, t)
        BY <3>2, <4>1, <4>2 DEF Active
      <4>3. CASE /\ t \in ToSet(r.current) /\ r.expiry[t] = s.expiry[t] + s.period[t]
                 /\ r.due[t] = s.due[t] + s.period[t]
        <5>1. r.due[t] = r.expiry[t] - c.now - TickMod
          BY <2>5, <2>7, <2>8, <2>9, <4>1, <4>3
        <5> QED
          BY <3>2, <4>1, <4>3, <5>1
      <4> QED
        BY <2>11, <3>2, <4>2, <4>3
    <3> QED
      BY <3>1, <3>2
  <2>15. r.current = <<>> \/ Cardinality(Ahead(r)) + i <= TickMod * Cardinality(Timer)
    <3>1. Cardinality(Ahead(s)) + (i - 1) <= TickMod * Cardinality(Timer)
      BY <1>2 DEF Switching
    <3>2. Cardinality(Ahead(r)) + 1 <= Cardinality(Ahead(s))
      BY <2>1, <2>5, <2>11, RoundProgress
    <3>3. Cardinality(Ahead(r)) \in Nat /\ Cardinality(Ahead(s)) \in Nat
          /\ TickMod * Cardinality(Timer) \in Nat
      BY AheadBound
    <3> DEFINE bound == TickMod * Cardinality(Timer)
    <3> HIDE DEF bound
    <3>4. Cardinality(Ahead(s)) + (i - 1) <= bound /\ bound \in Nat
      BY <3>1, <3>3 DEF bound
    <3>5. Cardinality(Ahead(r)) + i <= bound
      BY <3>2, <3>3, <3>4
    <3> QED
      BY <3>5 DEF bound
  <2>16. Switching(c, i, r)
    BY <2>1, <2>11, <2>13, <2>14, <2>15, Zenon DEF Switching
  <2>17. Round(c, s, i) = r
    BY <1>2 DEF Round, r
  <2> QED
    BY <2>16, <2>17
<1> QED
  BY <1>1, <1>2

\* prvSwitchTimerLists, now ticks after the wrap: the timers of the overflow list
\* are those of the current list, and due as before; the auto-reload timers that
\* were left in the current list are to be restarted.
LEMMA SwitchEffect ==
  ASSUME NEW s, Tidy(s), s.early = {}, NEW now \in Ticks, NEW e \in Nat, NEW l,
         \A t \in Timer : Fine(s, now + TickMod, e, l, t)
  PROVE  LET r == prvSwitchTimerLists(s)
         IN  /\ Tidy(r) /\ r.early = {} /\ r.period = s.period /\ r.alive = s.alive
             /\ Active(r) \subseteq Active(s) /\ r.awaited \subseteq s.awaited
             /\ \A t \in Timer : Fine(r, now, 0, l, t)
<1> DEFINE c == [s |-> s, now |-> now]
           n == TickMod * Cardinality(Timer)
           rounds == [i \in 1..n |-> i]
           x == Loop!Folded(c, s, rounds)
           r == prvSwitchTimerLists(s)
<1>1. c.s = s /\ c.now = now
  OBVIOUS
<1>2. n \in Nat /\ DOMAIN rounds = 1..n /\ \A i \in 1..n : rounds[i] = i
  BY AheadBound
<1>3. s \in Data /\ s.current \in Seq(Timer) /\ s.overflow \in Seq(Timer)
      /\ s.awaited \in SUBSET Timer /\ ToSet(s.current) \cap ToSet(s.overflow) = {}
  BY DataFields DEF Tidy
<1>4. \A t \in ToSet(s.current) \cup ToSet(s.overflow) : t \in Timer
  BY <1>3 DEF ToSet
<1> HIDE DEF c, n
<1>5. Switching(c, 0, s)
  <2>1. ASSUME NEW t \in ToSet(s.current) \cap s.awaited
        PROVE  s.due[t] = s.expiry[t] - now - TickMod
    <3>1. Fine(s, now + TickMod, e, l, t) /\ t \in Active(s) /\ t \in Timer
      BY <1>4 DEF Active
    <3>2. s.due[t] = s.expiry[t] - (now + TickMod)
      BY <3>1 DEF Fine
    <3>3. s.expiry[t] \in Int /\ now \in Int /\ TickMod \in Int
      BY <1>3, <3>1, DataFields, TimersAssumption DEF Ticks
    <3> QED
      BY <3>2, <3>3
  <2>2. Cardinality(Ahead(s)) + 0 <= n
    BY AheadBound DEF n
  <2> QED
    BY <1>1, <2>1, <2>2 DEF Switching, n
<1>6. Switching(c, n, x)
  <2>1. ASSUME NEW i \in 1..n, NEW y, Switching(c, i - 1, y)
        PROVE  Switching(c, i, Round(c, y, rounds[i]))
    <3>1. /\ c.now \in Ticks /\ c.s.current \in Seq(Timer)
          /\ ToSet(c.s.current) \cap ToSet(c.s.overflow) = {}
      BY <1>1, <1>3
    <3>2. i \in Nat \ {0}
      BY <1>2
    <3>3. Switching(c, i, Round(c, y, i))
      BY <2>1, <3>1, <3>2, RoundKeeps, Zenon
    <3> QED
      BY <1>2, <3>3 DEF Round
  <2> HIDE DEF rounds
  <2> QED
    BY <1>2, <1>5, <2>1, Loop!FoldInvariant
<1>7. r = [x EXCEPT !.current = x.overflow, !.overflow = <<>>]
  BY DEF prvSwitchTimerLists, rounds, n, Loop!Folded, FoldLeft, MapThenFoldSet,
         Loop!MapThenFoldSet, Max, Loop!Max, Round
<1> HIDE DEF x, r, rounds
<1>8. /\ Tidy(x) /\ x.early = {} /\ x.overflow = s.overflow
      /\ x.period = s.period /\ x.last = s.last /\ x.alive = s.alive
  BY <1>1, <1>6 DEF Switching
<1>9. \A t \in Timer \ ToSet(s.current) :
        /\ t \notin ToSet(x.current)
        /\ x.expiry[t] = s.expiry[t] /\ x.due[t] = s.due[t]
        /\ t \in x.awaited <=> t \in s.awaited
        /\ Restarting(s, t) => Restarting(x, t)
  BY <1>1, <1>6, Zenon DEF Switching
<1>10. \A t \in ToSet(s.current) \cap x.awaited :
         t \in s.awaited /\ (t \notin ToSet(x.current) => Restarting(x, t))
  BY <1>1, <1>6, Zenon DEF Switching
<1>11. x \in Data /\ x.current \in Seq(Timer) /\ IsInjective(x.overflow)
       /\ Sorted(x.overflow, x.expiry) /\ Len(x.queue) <= QueueLength
       /\ x.expiry \in [Timer -> Ticks] /\ x.awaited \in SUBSET Timer
  BY <1>8, DataFields DEF Tidy
<1>12. x.current = <<>>
  <2> SUFFICES ASSUME x.current # <<>> PROVE FALSE
    OBVIOUS
  <2> DEFINE t == x.current[1]
  <2>1. t \in Timer /\ t \in ToSet(x.current)
    <3>1. t \in Timer /\ 1 \in DOMAIN x.current
      BY <1>11
    <3> QED
      BY <3>1 DEF ToSet
  <2> HIDE DEF t
  <2>2. x.expiry[t] \in Ticks /\ x.expiry[t] <= x.expiry[t]
    BY <1>11, <2>1 DEF Ticks
  <2>3. <<t, x.expiry[t]>> \in Ahead(x)
    BY <2>1, <2>2 DEF Ahead
  <2>4. IsFiniteSet(Ahead(x)) /\ Cardinality(Ahead(x)) \in Nat
    BY AheadBound
  <2>5. Cardinality(Ahead(x)) + n <= n
    BY <1>6 DEF Switching, n
  <2>6. Cardinality(Ahead(x)) = 0
    BY <1>2, <2>4, <2>5
  <2> QED
    BY <2>3, <2>4, <2>6, FS_EmptySet
<1>13. ToSet(<<>>) = {} /\ <<>> \in Seq(Timer) /\ IsInjective(<<>>) /\ Sorted(<<>>, x.expiry)
  BY DEF ToSet, IsInjective, Sorted
<1>14. r \in Data
  BY <1>3, <1>7, <1>8, <1>11, <1>13 DEF Data
<1>15. /\ r.current = s.overflow /\ r.overflow = <<>> /\ r.expiry = x.expiry /\ r.period = s.period
       /\ r.queue = x.queue /\ r.restarts = x.restarts /\ r.alive = s.alive /\ r.awaited = x.awaited
       /\ r.due = x.due /\ r.early = {}
  BY <1>7, <1>8, <1>11 DEF Data
<1>16. Tidy(r)
  BY <1>8, <1>11, <1>13, <1>14, <1>15 DEF Tidy
<1>17. Active(r) = ToSet(s.overflow)
  BY <1>13, <1>15 DEF Active
<1>18. r.awaited \subseteq s.awaited
  BY <1>9, <1>10, <1>11, <1>15
<1>19. ASSUME NEW t \in Timer PROVE Fine(r, now, 0, l, t)
  <2> SUFFICES ASSUME t \in x.awaited PROVE Fine(r, now, 0, l, t)
    BY <1>15 DEF Fine
  <2>1. CASE t \in ToSet(s.overflow)
    <3>1. t \in s.awaited /\ x.due[t] = s.due[t] /\ x.expiry[t] = s.expiry[t]
      BY <1>3, <1>9, <2>1
    <3>2. /\ s.due[t] = s.expiry[t] + TickMod - (now + TickMod)
          /\ s.due[t] + e + MaxLate < TickMod /\ s.due[t] + l >= 0
      <4>1. Fine(s, now + TickMod, e, l, t) /\ t \in Active(s)
        BY <2>1 DEF Active
      <4> QED
        BY <2>1, <3>1, <4>1 DEF Fine
    <3>3. s.expiry[t] \in Int /\ s.due[t] \in Int /\ now \in Int /\ TickMod \in Int /\ MaxLate \in Int
      BY <1>3, DataFields, TimersAssumption DEF Ticks
    <3>4. s.due[t] = s.expiry[t] - now /\ s.due[t] + 0 + MaxLate < TickMod
      BY <3>2, <3>3
    <3> QED
      BY <1>13, <1>15, <1>17, <2>1, <3>1, <3>2, <3>4 DEF Fine
  <2>2. CASE t \in ToSet(s.current)
    <3>1. Restarting(x, t)
      BY <1>10, <1>12, <1>13, <2>2
    <3>2. Restarting(r, t) /\ t \notin Active(r)
      BY <1>3, <1>15, <1>17, <2>2, <3>1 DEF Restarting
    <3> QED
      BY <3>2 DEF Fine
  <2>3. CASE t \notin Active(s)
    <3>1. t \in s.awaited /\ (Restarting(s, t) => Restarting(x, t)) /\ t \notin Active(r)
      BY <1>9, <1>17, <2>3 DEF Active
    <3>2. Restarting(s, t)
      BY <2>3, <3>1 DEF Fine
    <3>3. Restarting(r, t)
      BY <1>15, <3>1, <3>2 DEF Restarting
    <3> QED
      BY <3>1, <3>3 DEF Fine
  <2> QED
    BY <2>1, <2>2, <2>3 DEF Active
<1>20. Active(r) \subseteq Active(s)
  BY <1>17 DEF Active
<1> QED
  BY <1>15, <1>16, <1>18, <1>19, <1>20 DEF r

-----------------------------------------------------------------------------
\* The clock.

\* What the count has gone through since the last sample, and the cycle of the
\* lists it has left.
Elapsed(s) == (tick - s.last) % TickMod
Wrapped(s) == IF tick < s.last THEN TickMod ELSE 0

LEMMA TickDifference ==
  ASSUME NEW a \in Ticks, NEW b \in Ticks
  PROVE  /\ (a - b) % TickMod = IF a < b THEN a - b + TickMod ELSE a - b
         /\ (a - b) % TickMod \in Ticks
<1>1. TickMod \in Nat \ {0} /\ a \in 0..TickMod - 1 /\ b \in 0..TickMod - 1
  BY TimersAssumption DEF Ticks
<1>2. CASE a < b
  <2>1. a - b + TickMod \in 0..TickMod - 1
    BY <1>1, <1>2
  <2>2. (a - b) % TickMod = a - b + TickMod
    BY <1>1, <1>2, <2>1
  <2> QED
    BY <1>2, <2>1, <2>2 DEF Ticks
<1>3. CASE ~(a < b)
  <2>1. a - b \in 0..TickMod - 1
    BY <1>1, <1>3
  <2>2. (a - b) % TickMod = a - b
    BY <1>1, <2>1
  <2> QED
    BY <1>3, <2>1, <2>2 DEF Ticks
<1> QED
  BY <1>2, <1>3

LEMMA Clock ==
  ASSUME tick \in Ticks, NEW s, s.last \in Ticks
  PROVE  /\ Elapsed(s) = tick + Wrapped(s) - s.last /\ Elapsed(s) \in Ticks
         /\ Wrapped(s) \in Nat /\ tick \in Nat /\ s.last \in Nat
<1>1. TickMod \in Nat /\ tick \in Nat /\ s.last \in Nat
  BY TimersAssumption DEF Ticks
<1>2. Elapsed(s) \in Ticks
      /\ Elapsed(s) = IF tick < s.last THEN tick - s.last + TickMod ELSE tick - s.last
  BY TickDifference DEF Elapsed
<1> QED
  BY <1>1, <1>2 DEF Wrapped

\* Where prvInsertTimerInActiveList puts a timer that is to go off togo ticks from
\* now: it says that the timer has expired, or the list says when it will.
Placed(s, r, t, now, togo) ==
  /\ Tidy(r.s) /\ Elsewhere(s, r.s, t)
  /\ r.s.period = s.period /\ r.s.queue = s.queue /\ r.s.restarts = s.restarts /\ r.s.last = s.last
  /\ r.s.alive = s.alive /\ r.s.early = s.early
  /\ t \in r.s.awaited => t \in s.awaited /\ r.s.due[t] = s.due[t]
  /\ r.expired \in BOOLEAN
  /\ r.expired => t \notin Active(r.s) /\ togo <= 0 /\ r.s.awaited = s.awaited
  /\ ~r.expired /\ t \in r.s.awaited =>
       /\ t \in Active(r.s) /\ togo > 0
       /\ t \in ToSet(r.s.current) => r.s.expiry[t] = now + togo
       /\ t \in ToSet(r.s.overflow) => r.s.expiry[t] + TickMod = now + togo

LEMMA PlaceEffect ==
  ASSUME NEW s, Tidy(s), NEW t \in Timer, t \notin Active(s),
         NEW now \in Ticks, NEW commanded \in Ticks
  PROVE  Placed(s, prvInsertTimerInActiveList(s, t, (commanded + s.period[t]) % TickMod,
                                              now, commanded),
                t, now, s.period[t] - ((now - commanded) % TickMod))
<1> DEFINE p == s.period[t]
           time == (commanded + p) % TickMod
           age == (now - commanded) % TickMod
           r == prvInsertTimerInActiveList(s, t, time, now, commanded)
<1> SUFFICES Placed(s, r, t, now, p - age)
  OBVIOUS
<1>1. s \in Data /\ Len(s.queue) <= QueueLength
  BY DEF Tidy
<1>2. p \in Ticks /\ p > 0
  BY <1>1, PeriodFits
<1>3. time = IF commanded + p < TickMod THEN commanded + p ELSE commanded + p - TickMod
  BY <1>2, TickSum
<1>4. age = IF now < commanded THEN now - commanded + TickMod ELSE now - commanded
  BY TickDifference
<1> HIDE DEF age
<1>5. TickMod \in Nat /\ now \in 0..TickMod - 1 /\ commanded \in 0..TickMod - 1
      /\ p \in 1..TickMod - 1
  BY <1>2, TimersAssumption DEF Ticks
<1> HIDE DEF p, time
<1>6. time \in Ticks /\ time \in Nat /\ age \in Nat
  BY <1>3, <1>4, <1>5 DEF Ticks
\* The timer is not placed.
<1>7. ASSUME r = [s |-> [s EXCEPT !.expiry[t] = 0], expired |-> TRUE], age >= p
      PROVE  /\ Tidy(r.s) /\ Elsewhere(s, r.s, t)
             /\ r.s.period = s.period /\ r.s.queue = s.queue /\ r.s.restarts = s.restarts /\ r.s.last = s.last
             /\ r.s.alive = s.alive /\ r.s.early = s.early /\ r.expired = TRUE
             /\ r.s.awaited = s.awaited /\ r.s.due = s.due
             /\ t \notin Active(r.s) /\ p - age <= 0
  <2> DEFINE x == [s EXCEPT !.expiry[t] = 0]
             v == [s.expiry EXCEPT ![t] = 0]
  <2>1. 0 \in Ticks
    BY <1>5 DEF Ticks
  <2>2. v \in [Timer -> Ticks] /\ \A u \in Timer : u # t => v[u] = s.expiry[u]
    BY <1>1, <2>1, DataFields
  <2>3. x = [s EXCEPT !.expiry = v]
    OBVIOUS
  <2> HIDE DEF v, x
  <2>4. x \in Data
    BY <1>1, <2>2, <2>3 DEF Data
  <2>5. /\ x.current = s.current /\ x.overflow = s.overflow /\ x.expiry = v
        /\ x.period = s.period /\ x.queue = s.queue /\ x.restarts = s.restarts /\ x.last = s.last /\ x.alive = s.alive
        /\ x.awaited = s.awaited /\ x.due = s.due /\ x.early = s.early
    BY <1>1, <2>3 DEF Data
  <2>6. ASSUME NEW q \in Seq(Timer), Sorted(q, s.expiry), t \notin ToSet(q)
        PROVE  Sorted(q, v)
    <3>1. \A i \in 1..Len(q) : q[i] \in Timer /\ q[i] # t
      BY <2>6 DEF ToSet
    <3> QED
      BY <2>2, <2>6, <3>1 DEF Sorted
  <2>7. Sorted(s.current, v) /\ Sorted(s.overflow, v)
    BY <1>1, <2>6, DataFields DEF Tidy, Active
  <2>8. Tidy(x)
    BY <2>4, <2>5, <2>7 DEF Tidy
  <2>9. Elsewhere(s, x, t)
    BY <2>2, <2>5 DEF Elsewhere, Restarting
  <2>10. t \notin Active(x)
    BY <2>5 DEF Active
  <2>11. r.s = x /\ r.expired = TRUE
    BY <1>7 DEF x
  <2>12. p - age <= 0
    BY <1>5, <1>6, <1>7
  <2> QED
    BY <2>5, <2>8, <2>9, <2>10, <2>11, <2>12
<1>8. CASE time <= now /\ now - commanded >= p
  <2>1. age >= p
    BY <1>4, <1>5, <1>8
  <2>2. r = [s |-> [s EXCEPT !.expiry[t] = 0], expired |-> TRUE]
    <3>1. ~(now - commanded < p) /\ ~(time > now)
      BY <1>5, <1>6, <1>8
    <3> QED
      BY <1>8, <3>1 DEF prvInsertTimerInActiveList, p
  <2> HIDE DEF r
  <2> QED
    BY <1>7, <2>1, <2>2 DEF Placed
<1>9. CASE time > now /\ now < commanded /\ time >= commanded
  <2>1. age >= p
    BY <1>3, <1>4, <1>5, <1>9
  <2>2. r = [s |-> [s EXCEPT !.expiry[t] = 0], expired |-> TRUE]
    <3>1. ~(time <= now)
      BY <1>5, <1>6, <1>9
    <3> QED
      BY <1>9, <3>1 DEF prvInsertTimerInActiveList, p
  <2> HIDE DEF r
  <2> QED
    BY <1>7, <2>1, <2>2 DEF Placed
<1>10. CASE time <= now /\ now - commanded < p
  <2> DEFINE o == InsertOverflow(s, t, time)
             aw == IF now < commanded THEN o.awaited \ {t} ELSE o.awaited
             du == [o.due EXCEPT ![t] = IF now < commanded THEN 0 ELSE @]
             x == [o EXCEPT !.awaited = IF now < commanded THEN @ \ {t} ELSE @,
                            !.due[t] = IF now < commanded THEN 0 ELSE @]
  <2>1. r = [s |-> x, expired |-> FALSE]
    <3>1. ~(now - commanded >= p) /\ ~(time > now)
      BY <1>5, <1>6, <1>10
    <3> QED
      BY <1>10, <3>1 DEF prvInsertTimerInActiveList, p
  <2>2. x = [o EXCEPT !.awaited = aw, !.due = du]
    OBVIOUS
  <2> HIDE DEF r, x, aw, du, o
  <2>3. /\ Tidy(o) /\ Elsewhere(s, o, t) /\ Rest(o) = Rest(s) /\ o.expiry[t] = time
        /\ t \in ToSet(o.overflow) /\ t \notin ToSet(o.current)
    BY <1>6, InsertEffect DEF o
  <2>4. /\ o.period = s.period /\ o.queue = s.queue /\ o.restarts = s.restarts /\ o.last = s.last /\ o.alive = s.alive
        /\ o.awaited = s.awaited /\ o.due = s.due /\ o.early = s.early
    BY <2>3 DEF Rest
  <2>5. o \in Data /\ Len(o.queue) <= QueueLength
    BY <2>3 DEF Tidy
  <2>6. o.due \in [Timer -> Int] /\ o.awaited \in SUBSET Timer
    BY <2>5, DataFields
  <2>7. /\ aw \in SUBSET Timer /\ du \in [Timer -> Int]
        /\ \A u \in Timer \ {t} : du[u] = o.due[u] /\ (u \in aw <=> u \in o.awaited)
    BY <2>6 DEF aw, du
  <2>8. t \in aw => t \in o.awaited /\ du[t] = o.due[t] /\ ~(now < commanded)
    BY <2>6 DEF aw, du
  <2>9. x \in Data
    BY <2>2, <2>5, <2>7 DEF Data
  <2>10. /\ x.current = o.current /\ x.overflow = o.overflow /\ x.expiry = o.expiry
         /\ x.period = o.period /\ x.queue = o.queue /\ x.restarts = o.restarts /\ x.last = o.last /\ x.alive = o.alive
         /\ x.awaited = aw /\ x.due = du /\ x.early = o.early
    BY <2>2, <2>5 DEF Data
  <2>11. Tidy(x)
    BY <2>3, <2>5, <2>9, <2>10, TidyStays
  <2>12. Elsewhere(o, x, t)
    BY <2>7, <2>10 DEF Elsewhere, Restarting
  <2>13. Elsewhere(s, x, t)
    BY <2>3, <2>12, ElsewhereOn
  <2>14. ~(now < commanded) => time + TickMod = now + (p - age) /\ p - age > 0
    BY <1>3, <1>4, <1>5, <1>10
  <2>15. r.s = x /\ r.expired = FALSE
    BY <2>1
  <2>16. t \in Active(x)
    BY <2>3, <2>10 DEF Active
  <2>17. /\ Tidy(r.s) /\ Elsewhere(s, r.s, t)
         /\ r.s.period = s.period /\ r.s.queue = s.queue /\ r.s.restarts = s.restarts /\ r.s.last = s.last
         /\ r.s.alive = s.alive /\ r.s.early = s.early
         /\ t \in r.s.awaited => t \in s.awaited /\ r.s.due[t] = s.due[t]
    BY <2>4, <2>8, <2>10, <2>11, <2>13, <2>15
  <2>18. t \in r.s.awaited =>
           /\ t \in Active(r.s) /\ p - age > 0 /\ t \notin ToSet(r.s.current)
           /\ r.s.expiry[t] + TickMod = now + (p - age)
    BY <2>3, <2>8, <2>10, <2>14, <2>15, <2>16
  <2> QED
    BY <2>15, <2>17, <2>18 DEF Placed
<1>11. CASE time > now /\ ~(now < commanded /\ time >= commanded)
  <2> DEFINE x == InsertCurrent(s, t, time)
  <2>1. r = [s |-> x, expired |-> FALSE]
    <3>1. ~(time <= now)
      BY <1>5, <1>6, <1>11
    <3> QED
      BY <1>11, <3>1 DEF prvInsertTimerInActiveList, p
  <2> HIDE DEF r, x
  <2>2. /\ Tidy(x) /\ Elsewhere(s, x, t) /\ Rest(x) = Rest(s) /\ x.expiry[t] = time
        /\ t \in ToSet(x.current) /\ t \notin ToSet(x.overflow)
    BY <1>6, InsertEffect DEF x
  <2>3. /\ x.period = s.period /\ x.queue = s.queue /\ x.restarts = s.restarts /\ x.last = s.last /\ x.alive = s.alive
        /\ x.awaited = s.awaited /\ x.due = s.due /\ x.early = s.early
    BY <2>2 DEF Rest
  <2>4. time = now + (p - age) /\ p - age > 0
    BY <1>3, <1>4, <1>5, <1>11
  <2>5. r.s = x /\ r.expired = FALSE /\ t \in Active(x)
    BY <2>1, <2>2 DEF Active
  <2> QED
    BY <2>2, <2>3, <2>4, <2>5 DEF Placed
<1> QED
  BY <1>5, <1>6, <1>8, <1>9, <1>10, <1>11

\* Just after a sample.
LEMMA FreshClock ==
  ASSUME tick \in Ticks, NEW s, s.last = tick
  PROVE  Wrapped(s) = 0 /\ Elapsed(s) = 0
<1>1. tick \in Nat /\ ~(tick < tick)
  BY TimersAssumption DEF Ticks
<1>2. Wrapped(s) = 0
  BY <1>1 DEF Wrapped
<1>3. Elapsed(s) = tick + Wrapped(s) - s.last
  BY Clock
<1> QED
  BY <1>1, <1>2, <1>3

LEMMA FineFresh ==
  ASSUME NEW s, s \in Data, NEW c, NEW e \in Nat, NEW l, NEW t \in Timer, Fine(s, c, e, l, t)
  PROVE  Fine(s, c, 0, l, t)
<1>1. s.due[t] \in Int /\ MaxLate \in Nat /\ TickMod \in Nat
  BY DataFields, TimersAssumption
<1>2. s.due[t] + e + MaxLate < TickMod => s.due[t] + 0 + MaxLate < TickMod
  BY <1>1
<1> QED
  BY <1>2 DEF Fine

\* prvSampleTimeNow: the lists are those of the cycle that the count is in.
LEMMA SampleEffect ==
  ASSUME tick \in Ticks, NEW s, Tidy(s), s.early = {}, NEW l,
         \A t \in Timer : Fine(s, tick + Wrapped(s), Elapsed(s), l, t)
  PROVE  LET r == prvSampleTimeNow(s).s
         IN  /\ Tidy(r) /\ r.early = {} /\ r.last = tick /\ r.period = s.period /\ r.alive = s.alive
             /\ Active(r) \subseteq Active(s) /\ r.awaited \subseteq s.awaited
             /\ \A t \in Timer : Fine(r, tick, 0, l, t)
             /\ ~(tick < s.last) => SameLists(s, r) /\ r.queue = s.queue /\ r.restarts = s.restarts
<1> DEFINE x == IF tick < s.last THEN prvSwitchTimerLists(s) ELSE s
           r == prvSampleTimeNow(s).s
<1>1. s \in Data /\ s.last \in Ticks /\ tick \in Nat
  BY DataFields, TimersAssumption DEF Tidy, Ticks
<1>2. Elapsed(s) \in Nat /\ TickMod \in Nat
  BY <1>1, Clock, TimersAssumption DEF Ticks
<1>3. /\ Tidy(x) /\ x.early = {} /\ x.period = s.period /\ x.alive = s.alive
      /\ Active(x) \subseteq Active(s) /\ x.awaited \subseteq s.awaited
      /\ \A t \in Timer : Fine(x, tick, 0, l, t)
      /\ ~(tick < s.last) => x = s
  <2>1. CASE tick < s.last
    <3>1. x = prvSwitchTimerLists(s)
      BY <2>1
    <3>2. Wrapped(s) = TickMod
      BY <2>1 DEF Wrapped
    <3>3. \A t \in Timer : Fine(s, tick + TickMod, Elapsed(s), l, t)
      BY <3>2
    <3> HIDE DEF x
    <3> QED
      BY <1>2, <2>1, <3>1, <3>3, SwitchEffect
  <2>2. CASE ~(tick < s.last)
    <3>1. x = s
      BY <2>2
    <3>2. Wrapped(s) = 0 /\ tick + 0 = tick
      BY <1>1, <2>2 DEF Wrapped
    <3>3. \A t \in Timer : Fine(s, tick, 0, l, t)
      BY <1>1, <1>2, <3>2, FineFresh
    <3> HIDE DEF x
    <3> QED
      BY <3>1, <3>3
  <2> QED
    BY <2>1, <2>2
<1>4. r = [x EXCEPT !.last = tick]
  BY DEF prvSampleTimeNow
<1> HIDE DEF x, r
<1>5. x \in Data /\ Len(x.queue) <= QueueLength
  BY <1>3 DEF Tidy
<1>6. r \in Data
  BY <1>4, <1>5 DEF Data
<1>7. /\ r.current = x.current /\ r.overflow = x.overflow /\ r.expiry = x.expiry
      /\ r.period = x.period /\ r.queue = x.queue /\ r.restarts = x.restarts /\ r.last = tick /\ r.alive = x.alive
      /\ r.awaited = x.awaited /\ r.due = x.due /\ r.early = x.early
  BY <1>4, <1>5 DEF Data
<1>8. Tidy(r)
  BY <1>3, <1>5, <1>6, <1>7, TidyStays
<1>9. Active(r) = Active(x)
  BY <1>7 DEF Active
<1>10. \A t \in Timer : Fine(r, tick, 0, l, t)
  BY <1>3, <1>7, <1>9 DEF Fine, Restarting
<1> QED
  BY <1>3, <1>7, <1>8, <1>9, <1>10 DEF r, SameLists

\* A timer that is placed at the current tick is fine; one that has expired goes
\* off, and has its restart in the queue or is not awaited any more.
LEMMA PlacedFine ==
  ASSUME tick \in Ticks, NEW s \in Data, NEW r, NEW t \in Timer, NEW togo \in Int, NEW l \in Nat,
         Placed(s, r, t, tick, togo), ~r.expired, t \in s.awaited => s.due[t] = togo,
         togo <= s.period[t]
  PROVE  Fine(r.s, tick, 0, l, t)
<1> SUFFICES ASSUME t \in r.s.awaited PROVE Fine(r.s, tick, 0, l, t)
  BY DEF Fine
<1>1. /\ Tidy(r.s) /\ t \in s.awaited /\ r.s.due[t] = s.due[t]
      /\ t \in Active(r.s) /\ togo > 0
      /\ t \in ToSet(r.s.current) => r.s.expiry[t] = tick + togo
      /\ t \in ToSet(r.s.overflow) => r.s.expiry[t] + TickMod = tick + togo
  BY DEF Placed
<1>2. r.s \in Data
  BY <1>1 DEF Tidy
<1>3. r.s.expiry[t] \in Int /\ TickMod \in Nat /\ tick \in Nat /\ MaxLate \in Nat
  BY <1>2, DataFields, TimersAssumption DEF Ticks
<1>4. s.period[t] \in Int /\ s.period[t] + MaxLate < TickMod
  BY PeriodFits
<1>5. r.s.due[t] = togo
  BY <1>1
<1>6. r.s.expiry[t] = tick + togo => togo = r.s.expiry[t] - tick
  BY <1>3
<1>7. r.s.expiry[t] + TickMod = tick + togo => togo = r.s.expiry[t] + TickMod - tick
  BY <1>3
<1>8. togo + 0 + MaxLate < TickMod /\ togo + l >= 0
  BY <1>1, <1>3, <1>4
<1> QED
  BY <1>1, <1>5, <1>6, <1>7, <1>8 DEF Fine

\* xTimerStart and the like, when the command is handled.
LEMMA StartEffect ==
  ASSUME tick \in Ticks, NEW s, Tidy(s), s.early = {}, NEW t \in Timer, t \notin Active(s),
         NEW time \in Ticks, NEW l \in Nat, \A u \in Timer : Fine(s, tick, 0, l, u)
  PROVE  LET r == Start(s, t, time)
         IN  Tidy(r) /\ r.early = {} /\ r.last = s.last /\ \A u \in Timer : Fine(r, tick, 0, l, u)
<1> DEFINE togo == s.period[t] - Age(time, tick)
           known == [s EXCEPT !.awaited = @ \cup {t}, !.due[t] = s.period[t] - Age(time, tick)]
           again == (time + s.period[t]) % TickMod
           p == prvInsertTimerInActiveList(known, t, again, tick, time)
           called == Callback(p.s, t)
           r == Start(s, t, time)
<1>1. s \in Data /\ Len(s.queue) <= QueueLength
  BY DEF Tidy
<1>2. s.period[t] \in Ticks /\ s.period[t] \in Int /\ Age(time, tick) \in Ticks
  BY <1>1, PeriodFits, TickDifference DEF Age
<1>3. togo \in Int /\ togo <= s.period[t] /\ again \in Ticks
  <2>1. again = IF time + s.period[t] < TickMod THEN time + s.period[t]
                ELSE time + s.period[t] - TickMod
    BY <1>2, TickSum
  <2>2. TickMod \in Nat /\ time \in 0..TickMod - 1 /\ s.period[t] \in 0..TickMod - 1
        /\ Age(time, tick) \in 0..TickMod - 1
    BY <1>2, TimersAssumption DEF Ticks
  <2> HIDE DEF again
  <2>3. again \in 0..TickMod - 1
    BY <2>1, <2>2
  <2>4. togo \in Int /\ togo <= s.period[t]
    BY <2>2
  <2> QED
    BY <2>3, <2>4 DEF Ticks
<1> DEFINE du == [s.due EXCEPT ![t] = togo]
<1>4. known = [s EXCEPT !.awaited = s.awaited \cup {t}, !.due = du]
  OBVIOUS
<1>5. du \in [Timer -> Int] /\ du[t] = togo /\ \A u \in Timer \ {t} : du[u] = s.due[u]
  BY <1>1, <1>3, DataFields
<1>6. s.awaited \cup {t} \in SUBSET Timer
  BY <1>1, DataFields
<1>7. r = IF ~p.expired THEN p.s
          ELSE IF t \in AutoReload THEN RestartCommand(called, t, again) ELSE called
  BY DEF Start
<1> HIDE DEF r, du
<1>8. p = prvInsertTimerInActiveList(known, t, again, tick, time) /\ called = Callback(p.s, t)
      /\ again = (time + s.period[t]) % TickMod /\ togo = s.period[t] - ((tick - time) % TickMod)
  BY DEF Age
<1> HIDE DEF known, p, called, again, togo
<1>9. known \in Data
  BY <1>1, <1>4, <1>5, <1>6 DEF Data
<1>10. /\ known.current = s.current /\ known.overflow = s.overflow /\ known.expiry = s.expiry
       /\ known.period = s.period /\ known.queue = s.queue /\ known.restarts = s.restarts /\ known.last = s.last
       /\ known.alive = s.alive /\ known.awaited = s.awaited \cup {t} /\ known.due = du
       /\ known.early = s.early
  BY <1>1, <1>4 DEF Data
<1>11. Tidy(known) /\ Elsewhere(s, known, t) /\ t \notin Active(known)
  <2>1. Tidy(known)
    BY <1>1, <1>9, <1>10, TidyStays
  <2>2. Elsewhere(s, known, t)
    BY <1>5, <1>10 DEF Elsewhere, Restarting
  <2>3. t \notin Active(known)
    BY <1>10 DEF Active
  <2> QED
    BY <2>1, <2>2, <2>3
<1>12. Placed(known, p, t, tick, togo)
  BY <1>8, <1>10, <1>11, PlaceEffect
<1>13. /\ Tidy(p.s) /\ Elsewhere(known, p.s, t) /\ p.s.last = s.last /\ p.s.early = {}
       /\ t \in p.s.awaited => p.s.due[t] = togo
       /\ p.expired \in BOOLEAN
       /\ p.expired => t \notin Active(p.s) /\ togo <= 0
  BY <1>5, <1>10, <1>12 DEF Placed
<1>14. Elsewhere(s, p.s, t)
  BY <1>11, <1>13, ElsewhereOn
<1>15. CASE ~p.expired
  <2>1. Fine(p.s, tick, 0, l, t)
    BY <1>3, <1>5, <1>9, <1>10, <1>12, <1>15, PlacedFine
  <2>2. \A u \in Timer : Fine(p.s, tick, 0, l, u)
    <3> TAKE u \in Timer
    <3>1. CASE u = t
      BY <2>1, <3>1
    <3>2. CASE u # t
      BY <1>14, <3>2, ElsewhereFine
    <3> QED
      BY <3>1, <3>2
  <2>3. r = p.s
    BY <1>7, <1>15
  <2> QED
    BY <1>13, <2>2, <2>3 DEF r
<1>16. CASE p.expired
  <2>0. t \in p.s.awaited => p.s.due[t] <= 0
    BY <1>13, <1>16
  <2>1. /\ Tidy(called) /\ Elsewhere(p.s, called, t) /\ SameLists(p.s, called)
        /\ called.last = p.s.last /\ called.early = p.s.early
        /\ t \in called.awaited <=> t \in p.s.awaited /\ t \in AutoReload
    <3> DEFINE x == Callback(p.s, t)
    <3>1. /\ Tidy(x) /\ Elsewhere(p.s, x, t) /\ SameLists(p.s, x)
          /\ x.last = p.s.last /\ x.early = p.s.early
          /\ t \in x.awaited <=> t \in p.s.awaited /\ t \in AutoReload
      BY <1>13, <2>0, CallbackEffect, Zenon
    <3>2. called = x
      BY <1>8, Zenon
    <3> HIDE DEF x
    <3> QED
      BY <3>1, <3>2, Zenon
  <2>2. Elsewhere(s, called, t) /\ t \notin Active(called)
    BY <1>13, <1>14, <1>16, <2>1, ElsewhereOn DEF SameLists, Active
  <2>3. /\ Tidy(r) /\ Elsewhere(s, r, t) /\ t \notin Active(r) /\ r.last = s.last /\ r.early = {}
        /\ t \in r.awaited => Restarting(r, t)
    <3>1. CASE t \notin AutoReload
      <4>1. r = called
        BY <1>7, <1>16, <3>1
      <4> QED
        BY <1>13, <2>1, <2>2, <3>1, <4>1
    <3>2. CASE t \in AutoReload
      <4>1. r = RestartCommand(called, t, again)
        BY <1>7, <1>16, <3>2
      <4>2. /\ Tidy(r) /\ Elsewhere(called, r, t) /\ SameLists(called, r)
            /\ r.last = called.last /\ r.early = called.early
            /\ t \in r.awaited => Restarting(r, t)
        BY <1>3, <2>1, <3>2, <4>1, RestartEffect
      <4>3. Elsewhere(s, r, t)
        BY <2>2, <4>2, ElsewhereOn
      <4>4. t \notin Active(r)
        BY <2>2, <4>2 DEF SameLists, Active
      <4> QED
        BY <1>13, <2>1, <4>2, <4>3, <4>4
    <3> QED
      BY <3>1, <3>2
  <2>4. \A u \in Timer : Fine(r, tick, 0, l, u)
    <3> TAKE u \in Timer
    <3>1. CASE u = t
      BY <2>3, <3>1 DEF Fine
    <3>2. CASE u # t
      BY <2>3, <3>2, ElsewhereFine
    <3> QED
      BY <3>1, <3>2
  <2> QED
    BY <2>3, <2>4 DEF r
<1> QED
  BY <1>13, <1>15, <1>16

\* A period's command, when it is handled: the timer goes off that many ticks on.
LEMMA PeriodEffect ==
  ASSUME tick \in Ticks, NEW s, Tidy(s), s.early = {}, NEW t \in Timer, t \notin Active(s),
         NEW value \in Periods, NEW l \in Nat, \A u \in Timer : Fine(s, tick, 0, l, u)
  PROVE  LET r == prvInsertTimerInActiveList(
                    [s EXCEPT !.period[t] = value, !.awaited = @ \cup {t}, !.due[t] = value],
                    t, (tick + value) % TickMod, tick, tick).s
         IN  Tidy(r) /\ r.early = {} /\ r.last = s.last /\ \A u \in Timer : Fine(r, tick, 0, l, u)
<1> DEFINE pe == [s.period EXCEPT ![t] = value]
           du == [s.due EXCEPT ![t] = value]
           x == [s EXCEPT !.period[t] = value, !.awaited = @ \cup {t}, !.due[t] = value]
           p == prvInsertTimerInActiveList(x, t, (tick + value) % TickMod, tick, tick)
<1>1. s \in Data /\ Len(s.queue) <= QueueLength
  BY DEF Tidy
<1>2. value \in 1..TickMod - 1 /\ TickMod \in Nat /\ value \in Int /\ value > 0
  BY TimersAssumption
<1>3. /\ pe \in [Timer -> Periods] /\ pe[t] = value
      /\ du \in [Timer -> Int] /\ du[t] = value /\ \A u \in Timer \ {t} : du[u] = s.due[u]
  BY <1>1, <1>2, DataFields
<1>4. s.awaited \cup {t} \in SUBSET Timer
  BY <1>1, DataFields
<1>5. x = [s EXCEPT !.period = pe, !.awaited = s.awaited \cup {t}, !.due = du]
  OBVIOUS
<1> HIDE DEF x, pe, du
<1>6. x \in Data
  BY <1>1, <1>3, <1>4, <1>5 DEF Data
<1>7. /\ x.current = s.current /\ x.overflow = s.overflow /\ x.expiry = s.expiry
      /\ x.period = pe /\ x.queue = s.queue /\ x.restarts = s.restarts /\ x.last = s.last /\ x.alive = s.alive
      /\ x.awaited = s.awaited \cup {t} /\ x.due = du /\ x.early = s.early
  BY <1>1, <1>5 DEF Data
<1>8. Tidy(x)
  BY <1>1, <1>6, <1>7, TidyStays
<1>9. Elsewhere(s, x, t) /\ t \notin Active(x)
  BY <1>3, <1>7 DEF Elsewhere, Restarting, Active
<1>10. x.period[t] = value /\ value - ((tick - tick) % TickMod) = value
  <2>1. (tick - tick) % TickMod = 0
    <3>1. tick - tick = 0 /\ ~(tick < tick)
      BY <1>2 DEF Ticks
    <3> QED
      BY <3>1, TickDifference
  <2> QED
    BY <1>2, <1>3, <1>7, <2>1
<1>11. Placed(x, p, t, tick, value)
  <2>1. Placed(x, prvInsertTimerInActiveList(x, t, (tick + x.period[t]) % TickMod, tick, tick),
               t, tick, x.period[t] - ((tick - tick) % TickMod))
    BY <1>8, <1>9, PlaceEffect
  <2> QED
    BY <1>10, <2>1
<1> HIDE DEF p
<1>12. /\ Tidy(p.s) /\ Elsewhere(x, p.s, t) /\ p.s.last = s.last /\ p.s.early = {}
       /\ ~p.expired
  BY <1>2, <1>7, <1>11 DEF Placed
<1>13. Fine(p.s, tick, 0, l, t)
  BY <1>2, <1>3, <1>6, <1>7, <1>10, <1>11, <1>12, PlacedFine
<1>14. Elsewhere(s, p.s, t)
  BY <1>9, <1>12, ElsewhereOn
<1>15. \A u \in Timer : Fine(p.s, tick, 0, l, u)
  <2> TAKE u \in Timer
  <2>1. CASE u = t
    BY <1>13, <2>1
  <2>2. CASE u # t
    BY <1>14, <2>2, ElsewhereFine
  <2> QED
    BY <2>1, <2>2
<1> QED
  BY <1>12, <1>15 DEF p, x

\* prvProcessExpiredTimer's work on the data: e ticks after the sample now, the
\* head of the current list has expired.
LEMMA ExpiredEffect ==
  ASSUME NEW s, Tidy(s), s.early = {}, s.current # <<>>, NEW now \in Ticks, NEW e \in Nat,
         NEW l \in Nat, \A u \in Timer : Fine(s, now + e, e, l, u),
         s.expiry[Head(s.current)] <= now
  PROVE  LET t == Head(s.current)
             next == s.expiry[t]
             r == prvInsertTimerInActiveList(Deactivate(s, t), t,
                    (next + s.period[t]) % TickMod, now, next)
             reloaded == CASE t \notin AutoReload -> Deactivate(s, t)
                           [] t \in AutoReload /\ r.expired -> RestartCommand(r.s, t, next)
                           [] OTHER -> r.s
             x == Callback(reloaded, t)
         IN  Tidy(x) /\ x.early = {} /\ x.last = s.last /\ \A u \in Timer : Fine(x, now + e, e, l, u)
<1> DEFINE t == Head(s.current)
           next == s.expiry[t]
           gone == Deactivate(s, t)
           togo == s.period[t] - ((now - next) % TickMod)
           r == prvInsertTimerInActiveList(gone, t, (next + s.period[t]) % TickMod, now, next)
           reloaded == CASE t \notin AutoReload -> gone
                         [] t \in AutoReload /\ r.expired -> RestartCommand(r.s, t, next)
                         [] OTHER -> r.s
           x == Callback(reloaded, t)
<1> SUFFICES Tidy(x) /\ x.early = {} /\ x.last = s.last /\ \A u \in Timer : Fine(x, now + e, e, l, u)
  OBVIOUS
<1>1. s \in Data /\ t \in Timer /\ t \in ToSet(s.current)
  <2>1. s \in Data
    BY DEF Tidy
  <2>2. s.current \in Seq(Timer)
    BY <2>1, DataFields
  <2>3. t \in Timer /\ 1 \in DOMAIN s.current /\ s.current[1] = t
    BY <2>2
  <2> QED
    BY <2>1, <2>3 DEF ToSet
<1>2. next \in Ticks /\ next <= now
  BY <1>1, DataFields
<1>3. gone = Deactivate(s, t) /\ x = Callback(reloaded, t)
      /\ r = prvInsertTimerInActiveList(gone, t, (next + s.period[t]) % TickMod, now, next)
      /\ togo = s.period[t] - ((now - next) % TickMod) /\ next = s.expiry[t]
  OBVIOUS
<1>4. /\ t \notin AutoReload => reloaded = gone
      /\ t \in AutoReload /\ r.expired => reloaded = RestartCommand(r.s, t, next)
      /\ t \in AutoReload /\ ~r.expired => reloaded = r.s
  OBVIOUS
<1> HIDE DEF t, next, gone, r, reloaded, x, togo
<1>5. TickMod \in Nat /\ MaxLate \in Nat /\ now \in Nat /\ next \in Nat /\ next <= now
      /\ s.period[t] \in Int /\ s.period[t] > 0 /\ s.period[t] + MaxLate < TickMod
      /\ s.due[t] \in Int
  <2>1. s.period[t] \in Int /\ s.period[t] > 0 /\ s.period[t] + MaxLate < TickMod
    BY <1>1, PeriodFits
  <2>2. TickMod \in Nat /\ MaxLate \in Nat /\ now \in Nat /\ next \in Nat
    BY <1>2, TimersAssumption DEF Ticks
  <2> QED
    BY <1>1, <1>2, <2>1, <2>2, DataFields
<1>6. togo = s.period[t] - (now - next)
  <2>1. (now - next) % TickMod = now - next
    BY <1>2, <1>5, TickDifference
  <2> QED
    BY <1>3, <2>1
<1>7. t \in s.awaited => s.due[t] = next - now - e /\ s.due[t] + l >= 0 /\ s.due[t] <= 0
  <2> SUFFICES ASSUME t \in s.awaited PROVE s.due[t] = next - now - e /\ s.due[t] + l >= 0 /\ s.due[t] <= 0
    OBVIOUS
  <2>1. Fine(s, now + e, e, l, t) /\ t \in Active(s)
    BY <1>1 DEF Active
  <2>2. s.due[t] = next - (now + e) /\ s.due[t] + l >= 0
    BY <1>1, <1>3, <2>1 DEF Fine
  <2> QED
    BY <1>5, <2>2
<1>8. /\ Tidy(gone) /\ Elsewhere(s, gone, t) /\ t \notin Active(gone)
      /\ gone.period = s.period /\ gone.last = s.last /\ gone.awaited = s.awaited
      /\ gone.due = s.due /\ gone.early = s.early
  BY <1>1, <1>3, DeactivateEffect DEF Rest
<1>9. Placed(gone, r, t, now, togo)
  BY <1>1, <1>2, <1>3, <1>8, PlaceEffect
<1>10. /\ Tidy(r.s) /\ Elsewhere(gone, r.s, t) /\ r.s.period = s.period /\ r.s.last = s.last
       /\ r.s.early = {} /\ r.expired \in BOOLEAN
       /\ t \in r.s.awaited => t \in s.awaited /\ r.s.due[t] = s.due[t]
       /\ r.expired => t \notin Active(r.s)
       /\ ~r.expired /\ t \in r.s.awaited =>
            /\ t \in Active(r.s)
            /\ t \in ToSet(r.s.current) => r.s.expiry[t] = now + togo
            /\ t \in ToSet(r.s.overflow) => r.s.expiry[t] + TickMod = now + togo
  BY <1>8, <1>9 DEF Placed
<1>11. Elsewhere(s, r.s, t)
  BY <1>8, <1>10, ElsewhereOn
\* Whatever becomes of the timer, the callback is not early.
<1>12. ASSUME Tidy(reloaded), Elsewhere(s, reloaded, t), reloaded.early = {},
              reloaded.last = s.last, reloaded.period = s.period,
              t \in reloaded.awaited => t \in s.awaited /\ reloaded.due[t] = s.due[t]
       PROVE  /\ Tidy(x) /\ Elsewhere(s, x, t) /\ SameLists(reloaded, x)
              /\ x.last = s.last /\ x.early = {} /\ x.queue = reloaded.queue /\ x.restarts = reloaded.restarts
              /\ t \in x.awaited => /\ t \in reloaded.awaited /\ t \in AutoReload
                                    /\ x.due[t] = s.due[t] + s.period[t]
  <2>1. t \in reloaded.awaited => reloaded.due[t] <= 0
    BY <1>7, <1>12
  <2>2. /\ Tidy(x) /\ Elsewhere(reloaded, x, t) /\ SameLists(reloaded, x)
        /\ x.last = reloaded.last /\ x.early = reloaded.early /\ x.queue = reloaded.queue /\ x.restarts = reloaded.restarts
        /\ t \in x.awaited <=> t \in reloaded.awaited /\ t \in AutoReload
        /\ t \in x.awaited => x.due[t] = reloaded.due[t] + reloaded.period[t]
    BY <1>1, <1>3, <1>12, <2>1, CallbackEffect
  <2>3. Elsewhere(s, x, t)
    BY <1>12, <2>2, ElsewhereOn
  <2> QED
    BY <1>12, <2>2, <2>3
<1>13. /\ Tidy(x) /\ Elsewhere(s, x, t) /\ x.last = s.last /\ x.early = {}
       /\ Fine(x, now + e, e, l, t)
  <2>1. CASE t \notin AutoReload
    <3>1. reloaded = gone
      BY <1>4, <2>1
    <3>2. /\ Tidy(x) /\ Elsewhere(s, x, t) /\ x.last = s.last /\ x.early = {} /\ t \notin x.awaited
      BY <1>8, <1>12, <2>1, <3>1
    <3> QED
      BY <3>2 DEF Fine
  <2>2. CASE t \in AutoReload /\ r.expired
    <3>1. reloaded = RestartCommand(r.s, t, next)
      BY <1>4, <2>2
    <3>2. /\ Tidy(reloaded) /\ Elsewhere(r.s, reloaded, t) /\ SameLists(r.s, reloaded)
          /\ reloaded.period = r.s.period /\ reloaded.last = r.s.last
          /\ reloaded.early = r.s.early
          /\ t \in reloaded.awaited => /\ t \in r.s.awaited /\ reloaded.due[t] = r.s.due[t]
                                       /\ Restarting(reloaded, t)
      BY <1>2, <1>10, <2>2, <3>1, RestartEffect
    <3>3. Elsewhere(s, reloaded, t)
      BY <1>11, <3>2, ElsewhereOn
    <3>4. /\ Tidy(x) /\ Elsewhere(s, x, t) /\ SameLists(reloaded, x)
          /\ x.last = s.last /\ x.early = {} /\ x.queue = reloaded.queue /\ x.restarts = reloaded.restarts
          /\ t \in x.awaited => t \in reloaded.awaited
      BY <1>10, <1>12, <3>2, <3>3
    <3>5. t \notin Active(x)
      BY <1>10, <2>2, <3>2, <3>4 DEF SameLists, Active
    <3>6. t \in x.awaited => Restarting(x, t)
      BY <3>2, <3>4 DEF Restarting
    <3> QED
      BY <3>4, <3>5, <3>6 DEF Fine
  <2>3. CASE t \in AutoReload /\ ~r.expired
    <3>1. reloaded = r.s
      BY <1>4, <2>3
    <3>2. /\ Tidy(x) /\ Elsewhere(s, x, t) /\ SameLists(r.s, x) /\ x.last = s.last /\ x.early = {}
          /\ t \in x.awaited => t \in r.s.awaited /\ x.due[t] = s.due[t] + s.period[t]
      BY <1>10, <1>11, <1>12, <3>1
    <3>3. ASSUME t \in x.awaited
          PROVE  /\ t \in Active(x)
                 /\ t \in ToSet(x.current) => x.due[t] = x.expiry[t] - (now + e)
                 /\ t \in ToSet(x.overflow) => x.due[t] = x.expiry[t] + TickMod - (now + e)
                 /\ x.due[t] + e + MaxLate < TickMod
                 /\ x.due[t] + l >= 0
      <4>1. /\ t \in Active(x)
            /\ t \in ToSet(x.current) => x.expiry[t] = now + togo
            /\ t \in ToSet(x.overflow) => x.expiry[t] + TickMod = now + togo
        BY <1>10, <2>3, <3>2, <3>3 DEF SameLists, Active
      <4>2. x.due[t] = togo - e /\ x.due[t] + l >= 0
        <5>1. t \in s.awaited /\ x.due[t] = s.due[t] + s.period[t]
          BY <1>10, <3>2, <3>3
        <5>2. s.due[t] = next - now - e /\ s.due[t] + l >= 0
          BY <1>7, <5>1
        <5>3. x.due[t] = togo - e
          BY <1>5, <1>6, <5>1, <5>2
        <5>4. x.due[t] + l >= 0
          <6>1. s.due[t] \in Int /\ s.period[t] \in Int /\ s.period[t] > 0 /\ l \in Int
            BY <1>5
          <6>2. s.due[t] + s.period[t] + l >= 0
            BY <5>2, <6>1
          <6> QED
            BY <5>1, <6>2
        <5> QED
          BY <5>3, <5>4
      <4>3. togo \in Int /\ togo <= s.period[t]
        BY <1>5, <1>6
      <4>4. x.due[t] + e + MaxLate < TickMod
        BY <1>5, <4>2, <4>3
      <4>5. x \in Data /\ x.expiry[t] \in Int
        <5>1. x \in Data
          BY <3>2 DEF Tidy
        <5>2. x.expiry[t] \in Ticks
          BY <1>1, <5>1, DataFields
        <5> QED
          BY <5>1, <5>2 DEF Ticks
      <4>6. x.expiry[t] = now + togo => x.due[t] = x.expiry[t] - (now + e)
        BY <1>5, <4>2, <4>3
      <4>7. x.expiry[t] + TickMod = now + togo => x.due[t] = x.expiry[t] + TickMod - (now + e)
        BY <1>5, <4>2, <4>3, <4>5, SMTT(30)
      <4> QED
        BY <4>1, <4>2, <4>4, <4>6, <4>7
    <3>4. Fine(x, now + e, e, l, t)
      BY <3>3 DEF Fine
    <3> QED
      BY <3>2, <3>4
  <2> QED
    BY <1>10, <2>1, <2>2, <2>3
<1>14. \A u \in Timer : Fine(x, now + e, e, l, u)
  <2> TAKE u \in Timer
  <2>1. CASE u = t
    BY <1>13, <2>1
  <2>2. CASE u # t
    BY <1>13, <2>2, ElsewhereFine
  <2> QED
    BY <2>1, <2>2
<1> QED
  BY <1>13, <1>14

-----------------------------------------------------------------------------
\* The invariant.

TimerTypes ==
  /\ tick \in Ticks /\ late \in 0..MaxLate /\ uptime \in 0..MaxLate
  /\ task \in [pc : {"next", "sample", "expired", "commands", "received", "blocked"}, empty : BOOLEAN,
               next : Ticks, now : Ticks, sleep : 0..TickMod, hand : SUBSET Commands]
  /\ Tidy(d)

\* Every awaited timer is in a list when it is due, or on its way there.
Accounted ==
  /\ d.early = {}
  /\ \A t \in Timer : Fine(d, tick + Wrapped(d), Elapsed(d), late, t)

\* What the service task has read is still so: only it touches the lists.
HeadKnown ==
  task.pc \in {"sample", "expired"} =>
    /\ task.empty <=> d.current = <<>>
    /\ d.current = <<>> => task.next = 0
    /\ d.current # <<>> => task.next = d.expiry[Head(d.current)]
    /\ task.pc = "expired" =>
         d.current # <<>> /\ task.now = d.last /\ task.next <= task.now /\ Elapsed(d) <= late

\* It does not sleep past an expiry.
SleepsInTime ==
  task.pc = "blocked" =>
    /\ d.queue = <<>> /\ task.sleep >= 1
    /\ \A t \in d.awaited : t \in Active(d) /\ d.due[t] >= task.sleep

\* The timer of the command it has received is in no list; what it restarts itself
\* is in the queue before it goes on.
InHand ==
  /\ task.pc = "received" => \A m \in task.hand : m.timer \notin Active(d)
  /\ task.pc # "commands" => d.restarts = <<>>

TInv == TimerTypes /\ Accounted /\ HeadKnown /\ SleepsInTime /\ InHand

LEMMA InitEstablishes == Init => TInv
<1> SUFFICES ASSUME Init PROVE TInv
  OBVIOUS
<1>1. PICK p \in [Timer -> Periods] :
        d = [current |-> <<>>, overflow |-> <<>>, expiry |-> [t \in Timer |-> 0], period |-> p,
             queue |-> <<>>, restarts |-> <<>>, last |-> 0, alive |-> Timer,
             awaited |-> {}, due |-> [t \in Timer |-> 0], early |-> {}]
  BY DEF Init
<1>2. tick = 0 /\ uptime = 0 /\ late = 0
      /\ task = [pc |-> "next", empty |-> TRUE, next |-> 0, now |-> 0, sleep |-> 0, hand |-> {}]
  BY DEF Init
<1>3. TickMod \in Nat \ {0} /\ MaxLate \in Nat /\ QueueLength \in Nat
  BY TimersAssumption
<1>4. 0 \in Ticks /\ 0 \in 0..TickMod /\ 0 \in 0..MaxLate
  BY <1>3 DEF Ticks
<1>5. d \in Data
  BY <1>1, <1>4 DEF Data
<1>6. /\ d.current = <<>> /\ d.overflow = <<>> /\ d.queue = <<>> /\ d.awaited = {} /\ d.early = {}
      /\ Len(d.queue) <= QueueLength /\ d.restarts = <<>>
  BY <1>1, <1>3
<1>7. ToSet(<<>>) = {} /\ IsInjective(<<>>) /\ Sorted(<<>>, d.expiry)
  BY DEF ToSet, IsInjective, Sorted
<1>8. TimerTypes
  BY <1>2, <1>4, <1>5, <1>6, <1>7 DEF TimerTypes, Tidy
<1>9. Accounted
  BY <1>6 DEF Accounted, Fine
<1>10. HeadKnown /\ SleepsInTime /\ InHand
  BY <1>2, <1>6 DEF HeadKnown, SleepsInTime, InHand
<1> QED
  BY <1>8, <1>9, <1>10 DEF TInv

\* The data do not change and the clock stands.
LEMMA AccountedStays ==
  ASSUME Accounted, UNCHANGED <<tick, d, late>>
  PROVE  Accounted'
BY DEF Accounted, Fine, Wrapped, Elapsed, Active, Restarting

LEMMA TidyUnchanged == ASSUME Tidy(d), d' = d PROVE Tidy(d)'
BY DEF Tidy, Data, Sorted

\* The service task on its way to its commands.
LEMMA AtCommandsType ==
  ASSUME task \in [pc : {"next", "sample", "expired", "commands", "received", "blocked"},
                   empty : BOOLEAN, next : Ticks, now : Ticks, sleep : 0..TickMod,
                   hand : SUBSET Commands]
  PROVE  /\ AtCommands \in [pc : {"next", "sample", "expired", "commands", "received", "blocked"},
                            empty : BOOLEAN, next : Ticks, now : Ticks, sleep : 0..TickMod,
                            hand : SUBSET Commands]
         /\ AtCommands.pc = "commands"
<1>1. 0 \in Ticks /\ 0 \in 0..TickMod
  BY TimersAssumption DEF Ticks
<1> QED
  BY <1>1 DEF AtCommands

LEMMA GetNextKeeps == TInv /\ prvGetNextExpireTime => TInv'
<1> SUFFICES ASSUME TInv, prvGetNextExpireTime PROVE TInv'
  OBVIOUS
<1>1. /\ task.pc = "next"
      /\ task' = [task EXCEPT !.pc = "sample", !.empty = (d.current = <<>>),
                              !.next = IF d.current = <<>> THEN 0 ELSE d.expiry[Head(d.current)]]
      /\ UNCHANGED <<tick, d, uptime, late>>
  BY DEF prvGetNextExpireTime
<1>2. TimerTypes
  BY DEF TInv
<1>3. (IF d.current = <<>> THEN 0 ELSE d.expiry[Head(d.current)]) \in Ticks
  <2>1. d.current \in Seq(Timer) /\ d.expiry \in [Timer -> Ticks]
    BY <1>2, DataFields DEF TimerTypes, Tidy
  <2>2. 0 \in Ticks
    BY TimersAssumption DEF Ticks
  <2> QED
    BY <2>1, <2>2
<1>4. task' \in [pc : {"next", "sample", "expired", "commands", "received", "blocked"}, empty : BOOLEAN,
                 next : Ticks, now : Ticks, sleep : 0..TickMod, hand : SUBSET Commands]
  BY <1>1, <1>2, <1>3 DEF TimerTypes
<1>5. TimerTypes'
  BY <1>1, <1>2, <1>4, TidyUnchanged DEF TimerTypes
<1>6. Accounted'
  BY <1>1, AccountedStays DEF TInv
<1>7. HeadKnown'
  <2>1. /\ task'.pc = "sample" /\ task'.empty = (d.current = <<>>)
        /\ task'.next = IF d.current = <<>> THEN 0 ELSE d.expiry[Head(d.current)]
    BY <1>1, <1>2 DEF TimerTypes
  <2> QED
    BY <1>1, <2>1 DEF HeadKnown
<1>8. SleepsInTime' /\ InHand'
  <2>1. task'.pc = "sample"
    BY <1>1, <1>2 DEF TimerTypes
  <2>2. d'.restarts = <<>>
    BY <1>1 DEF TInv, InHand
  <2> QED
    BY <2>1, <2>2 DEF SleepsInTime, InHand
<1> QED
  BY <1>5, <1>6, <1>7, <1>8 DEF TInv

\* xTimerGenericCommand: a command more in the queue, and the service task awake.
LEMMA SendKeeps == TInv /\ xTimerGenericCommand => TInv'
<1> SUFFICES ASSUME TInv, xTimerGenericCommand PROVE TInv'
  OBVIOUS
<1>1. PICK m \in Commands :
        d' = [d EXCEPT !.queue = Append(@, m),
                       !.alive = IF m.id = "delete" THEN @ \ {m.timer} ELSE @]
  BY DEF xTimerGenericCommand
<1>2. Len(d.queue) < QueueLength /\ task' = Woken /\ UNCHANGED <<tick, uptime, late>>
  BY DEF xTimerGenericCommand
<1>3. TimerTypes
  BY DEF TInv
<1> DEFINE qu == Append(d.queue, m)
           al == IF m.id = "delete" THEN d.alive \ {m.timer} ELSE d.alive
<1>4. d' = [d EXCEPT !.queue = qu, !.alive = al]
  BY <1>1
<1>5. d \in Data /\ Tidy(d)
  BY <1>3 DEF TimerTypes, Tidy
<1>6. qu \in Seq(Commands) /\ Len(qu) = Len(d.queue) + 1 /\ ToSet(qu) = ToSet(d.queue) \cup {m}
  BY <1>5, DataFields, AppendSet
<1>7. al \in SUBSET Timer
  BY <1>5, DataFields
<1> HIDE DEF qu, al
<1>8. d' \in Data
  BY <1>4, <1>5, <1>6, <1>7 DEF Data
<1>9. /\ d'.current = d.current /\ d'.overflow = d.overflow /\ d'.expiry = d.expiry
      /\ d'.queue = qu /\ d'.restarts = d.restarts /\ d'.last = d.last
      /\ d'.awaited = d.awaited /\ d'.due = d.due /\ d'.early = d.early
  BY <1>4, <1>5 DEF Data
<1>10. Len(qu) <= QueueLength
  <2>1. Len(d.queue) \in Nat /\ QueueLength \in Nat
    BY <1>5, DataFields, TimersAssumption
  <2> QED
    BY <1>2, <1>6, <2>1
<1>11. Tidy(d')
  BY <1>5, <1>8, <1>9, <1>10, TidyStays
<1>12. /\ task' \in [pc : {"next", "sample", "expired", "commands", "received", "blocked"},
                     empty : BOOLEAN, next : Ticks, now : Ticks, sleep : 0..TickMod,
                     hand : SUBSET Commands]
       /\ task'.pc # "blocked"
       /\ task'.pc # "commands" => task' = task
  <2>1. CASE task.pc = "blocked"
    BY <1>2, <1>3, <2>1, AtCommandsType DEF Woken, TimerTypes
  <2>2. CASE task.pc # "blocked"
    BY <1>2, <1>3, <2>2 DEF Woken, TimerTypes
  <2> QED
    BY <2>1, <2>2
<1>13. TimerTypes'
  BY <1>2, <1>3, <1>11, <1>12 DEF TimerTypes, Tidy, Data, Sorted
<1>14. Accounted'
  <2>1. d'.early = {} /\ Wrapped(d)' = Wrapped(d) /\ Elapsed(d)' = Elapsed(d)
        /\ tick' = tick /\ late' = late
    BY <1>2, <1>9 DEF TInv, Accounted, Wrapped, Elapsed
  <2>2. Active(d') = Active(d)
    BY <1>9 DEF Active
  <2>3. \A t \in Timer : Restarting(d, t) => Restarting(d', t)
    BY <1>6, <1>9 DEF Restarting
  <2>4. \A t \in Timer : Fine(d', tick + Wrapped(d), Elapsed(d), late, t)
    BY <1>9, <2>2, <2>3 DEF TInv, Accounted, Fine
  <2>5. \A t \in Timer : Fine(d', tick' + Wrapped(d)', Elapsed(d)', late', t)
    BY <2>1, <2>4
  <2> QED
    BY <2>1, <2>5 DEF Accounted, Fine, Restarting, Active
<1>15. HeadKnown'
  BY <1>2, <1>9, <1>12 DEF TInv, HeadKnown, Elapsed
<1>16. SleepsInTime' /\ InHand'
  <2>1. Active(d)' = Active(d)
    BY <1>9 DEF Active
  <2> QED
    BY <1>9, <1>12, <2>1 DEF TInv, SleepsInTime, InHand
<1> QED
  BY <1>13, <1>14, <1>15, <1>16 DEF TInv

\* SendRestart: the restart is in the queue, or its timer is given up.
LEMMA SendRestartKeeps == TInv /\ SendRestart => TInv'
<1> SUFFICES ASSUME TInv, SendRestart PROVE TInv'
  OBVIOUS
<1> DEFINE m == Head(d.restarts)
           t == m.timer
           re == Tail(d.restarts)
           qu == Append(d.queue, m)
           du == [d.due EXCEPT ![t] = 0]
<1>1. /\ task.pc = "commands" /\ d.restarts # <<>>
      /\ Len(d.queue) < QueueLength => d' = [d EXCEPT !.restarts = re, !.queue = qu]
      /\ ~(Len(d.queue) < QueueLength) =>
           d' = [d EXCEPT !.restarts = re, !.awaited = d.awaited \ {t}, !.due = du]
      /\ UNCHANGED <<tick, task, uptime, late>>
  <2>1. d \in Data
    BY DEF TInv, TimerTypes, Tidy
  <2>2. /\ [d EXCEPT !.restarts = re].queue = d.queue
        /\ [d EXCEPT !.restarts = re].awaited = d.awaited
        /\ [d EXCEPT !.restarts = re].due = d.due
    BY <2>1 DEF Data
  <2> QED
    BY <2>1, <2>2 DEF SendRestart, Data
<1>2. TimerTypes /\ Accounted /\ d \in Data /\ Tidy(d) /\ Len(d.queue) <= QueueLength
  BY DEF TInv, TimerTypes, Tidy
<1>3. /\ d.restarts \in Seq(Commands) /\ d.queue \in Seq(Commands) /\ d.due \in [Timer -> Int]
      /\ d.awaited \in SUBSET Timer
  BY <1>2, DataFields
<1>4. /\ re \in Seq(Commands) /\ m \in Commands
      /\ ToSet(d.restarts) \ {m} \subseteq ToSet(re)
  BY <1>1, <1>3, TailSet
<1>5. t \in Timer
  BY <1>4 DEF Commands
<1>6. /\ qu \in Seq(Commands) /\ Len(qu) = Len(d.queue) + 1 /\ ToSet(qu) = ToSet(d.queue) \cup {m}
  <2> HIDE DEF m
  <2> QED
    BY <1>3, <1>4, AppendSet
<1>7. du \in [Timer -> Int] /\ \A u \in Timer \ {t} : du[u] = d.due[u]
  BY <1>3, <1>5
<1> HIDE DEF re, qu, du, t, m
\* The data but for the restart, whichever way it goes.
<1>8. /\ Tidy(d') /\ d'.last = d.last /\ d'.early = {} /\ Active(d') = Active(d)
      /\ \A u \in Timer : Fine(d, tick + Wrapped(d), Elapsed(d), late, u)
                            => Fine(d', tick + Wrapped(d), Elapsed(d), late, u)
  <2>1. CASE Len(d.queue) < QueueLength
    <3>1. d' = [d EXCEPT !.restarts = re, !.queue = qu]
      BY <1>1, <2>1
    <3>2. d' \in Data
      BY <1>2, <1>4, <1>6, <3>1 DEF Data
    <3>3. /\ d'.current = d.current /\ d'.overflow = d.overflow /\ d'.expiry = d.expiry
          /\ d'.queue = qu /\ d'.restarts = re /\ d'.last = d.last
          /\ d'.awaited = d.awaited /\ d'.due = d.due /\ d'.early = d.early
      BY <1>2, <3>1 DEF Data
    <3>4. Len(qu) <= QueueLength
      <4>1. Len(d.queue) \in Nat /\ QueueLength \in Nat
        BY <1>3, TimersAssumption
      <4> QED
        BY <1>6, <2>1, <4>1
    <3>5. Tidy(d') /\ Active(d') = Active(d)
      BY <1>2, <3>2, <3>3, <3>4, TidyStays DEF Active
    <3>6. \A u \in Timer : Restarting(d, u) => Restarting(d', u)
      BY <1>4, <1>6, <3>3 DEF Restarting
    <3> QED
      BY <1>2, <3>3, <3>5, <3>6 DEF Fine, Accounted
  <2>2. CASE ~(Len(d.queue) < QueueLength)
    <3>1. d' = [d EXCEPT !.restarts = re, !.awaited = d.awaited \ {t}, !.due = du]
      BY <1>1, <2>2
    <3>2. d.awaited \ {t} \in SUBSET Timer
      BY <1>3
    <3>3. d' \in Data
      BY <1>2, <1>4, <1>7, <3>1, <3>2 DEF Data
    <3>4. /\ d'.current = d.current /\ d'.overflow = d.overflow /\ d'.expiry = d.expiry
          /\ d'.queue = d.queue /\ d'.restarts = re /\ d'.last = d.last
          /\ d'.awaited = d.awaited \ {t} /\ d'.due = du /\ d'.early = d.early
      BY <1>2, <3>1 DEF Data
    <3>5. Tidy(d') /\ Active(d') = Active(d)
      BY <1>2, <3>3, <3>4, TidyStays DEF Active
    <3>6. \A u \in Timer \ {t} : Restarting(d, u) => Restarting(d', u)
      <4> SUFFICES ASSUME NEW u \in Timer \ {t}, Restarting(d, u) PROVE Restarting(d', u)
        OBVIOUS
      <4>1. PICK k \in ToSet(d.queue) \cup ToSet(d.restarts) : k.timer = u /\ k.id = "start"
        BY DEF Restarting
      <4>2. k # m
        BY <4>1 DEF t
      <4>3. k \in ToSet(d'.queue) \cup ToSet(d'.restarts)
        BY <1>4, <3>4, <4>1, <4>2
      <4> QED
        BY <4>1, <4>3 DEF Restarting
    <3>7. \A u \in Timer : Fine(d, tick + Wrapped(d), Elapsed(d), late, u)
                             => Fine(d', tick + Wrapped(d), Elapsed(d), late, u)
      BY <1>7, <3>4, <3>5, <3>6 DEF Fine
    <3> QED
      BY <1>2, <3>4, <3>5, <3>7 DEF Accounted
  <2> QED
    BY <2>1, <2>2
<1>9. TimerTypes'
  <2>1. Tidy(d)'
    BY <1>8 DEF Tidy, Data, Sorted
  <2> QED
    BY <1>1, <1>2, <2>1 DEF TimerTypes
<1>10. Accounted'
  <2>1. Wrapped(d)' = Wrapped(d) /\ Elapsed(d)' = Elapsed(d)
    BY <1>1, <1>8 DEF Wrapped, Elapsed
  <2>2. \A u \in Timer : Fine(d', tick' + Wrapped(d)', Elapsed(d)', late', u)
    BY <1>1, <1>2, <1>8, <2>1 DEF Accounted
  <2> QED
    BY <1>8, <2>2 DEF Accounted, Fine, Active, Restarting
<1>11. HeadKnown' /\ SleepsInTime' /\ InHand'
  BY <1>1 DEF HeadKnown, SleepsInTime, InHand
<1> QED
  BY <1>9, <1>10, <1>11 DEF TInv

\* The count goes on; it has not gone round since the last sample as long as a
\* timer is awaited.
LEMMA ClockOn ==
  ASSUME tick \in Ticks, d.last \in Ticks, tick' = (tick + 1) % TickMod, d'.last = d.last
  PROVE  /\ tick' \in Ticks
         /\ \/ /\ Elapsed(d) + 1 < TickMod /\ Elapsed(d)' = Elapsed(d) + 1
               /\ tick' + Wrapped(d)' = tick + Wrapped(d) + 1
            \/ Elapsed(d) + 1 = TickMod /\ Elapsed(d)' = 0
<1>1. TickMod \in Nat \ {0} /\ tick \in 0..TickMod - 1 /\ d.last \in 0..TickMod - 1
  BY TimersAssumption DEF Ticks
<1>2. tick' = IF tick + 1 < TickMod THEN tick + 1 ELSE 0
  <2>1. CASE tick + 1 < TickMod
    BY <1>1, <2>1
  <2>2. CASE ~(tick + 1 < TickMod)
    <3>1. tick + 1 = TickMod
      BY <1>1, <2>2
    <3>2. TickMod % TickMod = 0
      BY <1>1
    <3> QED
      BY <2>2, <3>1, <3>2
  <2> QED
    BY <2>1, <2>2
<1>3. tick' \in Ticks
  BY <1>1, <1>2 DEF Ticks
<1>4. Elapsed(d) = IF tick < d.last THEN tick - d.last + TickMod ELSE tick - d.last
  BY TickDifference DEF Elapsed
<1>5. Elapsed(d)' = IF tick' < d.last THEN tick' - d.last + TickMod ELSE tick' - d.last
  BY <1>3, TickDifference DEF Elapsed
<1>6. Wrapped(d) = (IF tick < d.last THEN TickMod ELSE 0)
      /\ Wrapped(d)' = (IF tick' < d.last THEN TickMod ELSE 0)
  BY DEF Wrapped
<1>7. CASE tick + 1 < TickMod
  <2>1. tick' = tick + 1
    BY <1>2, <1>7
  <2> QED
    BY <1>1, <1>3, <1>4, <1>5, <1>6, <2>1
<1>8. CASE ~(tick + 1 < TickMod)
  <2>1. tick' = 0 /\ tick = TickMod - 1
    BY <1>1, <1>2, <1>8
  <2> QED
    BY <1>1, <1>3, <1>4, <1>5, <1>6, <2>1
<1> QED
  BY <1>7, <1>8

LEMMA TickKeeps == TInv /\ Tick => TInv'
<1> SUFFICES ASSUME TInv, Tick PROVE TInv'
  OBVIOUS
<1> DEFINE du == [t \in Timer |-> IF t \in d.awaited THEN d.due[t] - 1 ELSE 0]
<1>1. /\ late < MaxLate \/ task.pc = "blocked"
      /\ tick' = (tick + 1) % TickMod
      /\ d' = [d EXCEPT !.due = du]
      /\ task' = CASE task.pc # "blocked" -> task
                   [] task.pc = "blocked" /\ task.sleep > 1 -> [task EXCEPT !.sleep = @ - 1]
                   [] task.pc = "blocked" /\ task.sleep = 1 -> Woken
      /\ late' = IF task.pc = "blocked" THEN 0 ELSE late + 1
      /\ uptime' = IF uptime < MaxLate THEN uptime + 1 ELSE uptime
  BY DEF Tick
<1>2. TimerTypes /\ Accounted /\ HeadKnown /\ SleepsInTime /\ InHand
  BY DEF TInv
<1>3. Tidy(d) /\ d \in Data /\ Len(d.queue) <= QueueLength /\ tick \in Ticks /\ d.last \in Ticks
      /\ d.due \in [Timer -> Int] /\ d.awaited \in SUBSET Timer
  BY <1>2, DataFields DEF TimerTypes, Tidy
<1>4. du \in [Timer -> Int] /\ \A t \in d.awaited : du[t] = d.due[t] - 1
  BY <1>3
<1> HIDE DEF du
<1>5. d' \in Data
  BY <1>1, <1>3, <1>4 DEF Data
<1>6. /\ d'.current = d.current /\ d'.overflow = d.overflow /\ d'.expiry = d.expiry
      /\ d'.queue = d.queue /\ d'.restarts = d.restarts /\ d'.last = d.last /\ d'.awaited = d.awaited
      /\ d'.due = du /\ d'.early = d.early
  BY <1>1, <1>3 DEF Data
<1>7. Tidy(d')
  BY <1>3, <1>5, <1>6, TidyStays
<1>8. /\ tick' \in Ticks
      /\ \/ /\ Elapsed(d) + 1 < TickMod /\ Elapsed(d)' = Elapsed(d) + 1
            /\ tick' + Wrapped(d)' = tick + Wrapped(d) + 1
         \/ Elapsed(d) + 1 = TickMod /\ Elapsed(d)' = 0
  BY <1>1, <1>3, <1>6, ClockOn
<1>9. late \in Nat /\ MaxLate \in Nat /\ TickMod \in Nat /\ late' \in 0..MaxLate
      /\ late' = IF task.pc = "blocked" THEN 0 ELSE late + 1
  <2>1. late \in 0..MaxLate /\ MaxLate \in Nat /\ TickMod \in Nat
    BY <1>2, TimersAssumption DEF TimerTypes
  <2> QED
    BY <1>1, <2>1
<1>10. Elapsed(d) \in Nat /\ Wrapped(d) \in Nat /\ tick \in Nat /\ d.last \in Nat
       /\ Elapsed(d) = tick + Wrapped(d) - d.last
  BY <1>3, Clock, TimersAssumption DEF Ticks
<1>11. task \in [pc : {"next", "sample", "expired", "commands", "received", "blocked"}, empty : BOOLEAN,
                 next : Ticks, now : Ticks, sleep : 0..TickMod, hand : SUBSET Commands]
  BY <1>2 DEF TimerTypes
<1>12. task.pc = "blocked" => task.sleep \in Nat /\ (task.sleep > 1 \/ task.sleep = 1)
  BY <1>2, <1>9, <1>11 DEF SleepsInTime
\* What becomes of the sleep.
<1>13. /\ task.pc # "blocked" => task' = task
       /\ task.pc = "blocked" /\ task.sleep > 1 => task' = [task EXCEPT !.sleep = @ - 1]
       /\ task.pc = "blocked" /\ task.sleep = 1 => task' = AtCommands
  BY <1>1, <1>12 DEF Woken
<1>14. task' \in [pc : {"next", "sample", "expired", "commands", "received", "blocked"}, empty : BOOLEAN,
                  next : Ticks, now : Ticks, sleep : 0..TickMod, hand : SUBSET Commands]
  <2>1. CASE task.pc # "blocked"
    BY <1>11, <1>13, <2>1
  <2>2. CASE task.pc = "blocked" /\ task.sleep > 1
    <3>1. task.sleep - 1 \in 0..TickMod
      BY <1>9, <1>11, <2>2
    <3> QED
      BY <1>11, <1>13, <2>2, <3>1
  <2>3. CASE task.pc = "blocked" /\ task.sleep = 1
    BY <1>11, <1>13, <2>3, AtCommandsType
  <2> QED
    BY <1>12, <2>1, <2>2, <2>3
<1>15. TimerTypes'
  <2>1. Tidy(d)'
    BY <1>7 DEF Tidy, Data, Sorted
  <2>2. uptime' \in 0..MaxLate
    BY <1>1, <1>2, <1>9 DEF TimerTypes
  <2> QED
    BY <1>2, <1>8, <1>9, <1>14, <2>1, <2>2 DEF TimerTypes
<1>16. Active(d') = Active(d) /\ \A t : Restarting(d', t) <=> Restarting(d, t)
  BY <1>6 DEF Active, Restarting
\* A timer is not overdue by more than the task is late.
<1>17. ASSUME NEW t \in d.awaited, t \in Active(d)
       PROVE  /\ d.due[t] \in Int /\ d.due[t] - 1 + late' >= 0
              /\ d.due[t] + Elapsed(d) + MaxLate < TickMod
              /\ t \in ToSet(d.current) => d.due[t] = d.expiry[t] - (tick + Wrapped(d))
              /\ t \in ToSet(d.overflow) => d.due[t] = d.expiry[t] + TickMod - (tick + Wrapped(d))
              /\ Elapsed(d) + 1 < TickMod
  <2>1. t \in Timer /\ d.due[t] \in Int
    BY <1>3
  <2>2. /\ t \in ToSet(d.current) => d.due[t] = d.expiry[t] - (tick + Wrapped(d))
        /\ t \in ToSet(d.overflow) => d.due[t] = d.expiry[t] + TickMod - (tick + Wrapped(d))
        /\ d.due[t] + Elapsed(d) + MaxLate < TickMod /\ d.due[t] + late >= 0
    <3>1. Fine(d, tick + Wrapped(d), Elapsed(d), late, t)
      BY <1>2, <2>1 DEF Accounted
    <3> QED
      BY <1>17, <3>1 DEF Fine
  <2>3. d.due[t] - 1 + late' >= 0 /\ Elapsed(d) + 1 < TickMod
    <3>1. CASE task.pc = "blocked"
      <4>1. d.due[t] >= 1
        BY <1>2, <1>12, <2>1, <3>1 DEF SleepsInTime
      <4>2. late' = 0
        BY <1>9, <3>1
      <4> QED
        BY <1>9, <1>10, <2>1, <2>2, <4>1, <4>2
    <3>2. CASE task.pc # "blocked"
      <4>1. late' = late + 1 /\ late < MaxLate
        BY <1>1, <1>9, <3>2
      <4> QED
        BY <1>9, <1>10, <2>1, <2>2, <4>1
    <3> QED
      BY <3>1, <3>2
  <2> QED
    BY <2>1, <2>2, <2>3
<1>18. ASSUME NEW t \in Timer PROVE Fine(d', tick' + Wrapped(d)', Elapsed(d)', late', t)
  <2> SUFFICES ASSUME t \in d.awaited PROVE Fine(d', tick' + Wrapped(d)', Elapsed(d)', late', t)
    BY <1>6 DEF Fine
  <2>1. CASE t \in Active(d)
    <3>1. /\ Elapsed(d)' = Elapsed(d) + 1
          /\ tick' + Wrapped(d)' = tick + Wrapped(d) + 1
      BY <1>8, <1>10, <1>9, <1>17, <2>1
    <3>2. d'.due[t] = d.due[t] - 1
      BY <1>4, <1>6
    <3>3. d.expiry[t] \in Int /\ d.due[t] \in Int /\ late' \in Nat
      BY <1>3, <1>9, DataFields DEF Ticks
    <3>4. /\ t \in ToSet(d.current) => d'.due[t] = d.expiry[t] - (tick' + Wrapped(d)')
          /\ t \in ToSet(d.overflow) => d'.due[t] = d.expiry[t] + TickMod - (tick' + Wrapped(d)')
      BY <1>9, <1>10, <1>17, <2>1, <3>1, <3>2, <3>3
    <3>5. d'.due[t] + Elapsed(d)' + MaxLate < TickMod /\ d'.due[t] + late' >= 0
      BY <1>9, <1>10, <1>17, <2>1, <3>1, <3>2, <3>3
    <3> QED
      BY <1>6, <1>16, <2>1, <3>4, <3>5 DEF Fine
  <2>2. CASE t \notin Active(d)
    <3>1. Restarting(d, t)
      BY <1>2, <2>2 DEF Accounted, Fine
    <3> QED
      BY <1>16, <2>2, <3>1 DEF Fine
  <2> QED
    BY <2>1, <2>2
<1>19. Accounted'
  BY <1>2, <1>6, <1>18 DEF Accounted, Fine, Active, Restarting
<1>20. HeadKnown'
  <2> SUFFICES ASSUME task'.pc \in {"sample", "expired"} PROVE HeadKnown'
    BY DEF HeadKnown
  <2>1. task.pc # "blocked" /\ task' = task
    BY <1>11, <1>12, <1>13, AtCommandsType
  <2>2. task.pc = "expired" => Elapsed(d)' <= late'
    <3>1. late' = late + 1
      BY <1>9, <2>1
    <3> QED
      BY <1>2, <1>8, <1>9, <1>10, <3>1 DEF HeadKnown
  <2> QED
    BY <1>2, <1>6, <2>1, <2>2 DEF HeadKnown
<1>21. SleepsInTime'
  <2> SUFFICES ASSUME task'.pc = "blocked" PROVE SleepsInTime'
    BY DEF SleepsInTime
  <2>1. task.pc = "blocked" /\ task.sleep > 1 /\ task'.sleep = task.sleep - 1 /\ task.sleep \in Nat
    BY <1>11, <1>12, <1>13, AtCommandsType
  <2>2. task'.sleep >= 1
    BY <2>1
  <2>3. ASSUME NEW t \in d'.awaited PROVE t \in Active(d') /\ d'.due[t] >= task'.sleep
    <3>1. t \in d.awaited /\ t \in Active(d) /\ d.due[t] >= task.sleep /\ t \in Timer
      BY <1>2, <1>3, <1>6, <2>1 DEF SleepsInTime
    <3>2. d.due[t] \in Int /\ d'.due[t] = d.due[t] - 1
      BY <1>3, <1>4, <1>6, <3>1
    <3> QED
      BY <1>16, <2>1, <3>1, <3>2
  <2> QED
    BY <1>2, <1>6, <2>1, <2>2, <2>3 DEF SleepsInTime, Active
<1>22. InHand'
  <2>1. task'.pc = "received" => task' = task
    BY <1>11, <1>12, <1>13, AtCommandsType
  <2>2. task'.pc # "commands" => task.pc # "commands"
    BY <1>11, <1>12, <1>13, AtCommandsType
  <2>3. Active(d)' = Active(d)
    BY <1>16 DEF Active
  <2> QED
    BY <1>2, <1>6, <2>1, <2>2, <2>3 DEF InHand
<1> QED
  BY <1>15, <1>19, <1>20, <1>21, <1>22 DEF TInv

LEMMA LargerOf ==
  ASSUME NEW a \in Int, NEW b \in Int
  PROVE  Max({a, b}) \in {a, b} /\ Max({a, b}) >= a /\ Max({a, b}) >= b
<1>1. \E x \in {a, b} : \A y \in {a, b} : x >= y
  <2>1. CASE a >= b
    BY <2>1
  <2>2. CASE b >= a
    BY <2>2
  <2> QED
    BY <2>1, <2>2
<1> QED
  BY <1>1 DEF Max

\* The head of a sorted list is due first.
LEMMA HeadFirst ==
  ASSUME NEW s, Tidy(s), NEW t \in ToSet(s.current)
  PROVE  s.current # <<>> /\ s.expiry[Head(s.current)] <= s.expiry[t]
<1>1. s \in Data /\ Sorted(s.current, s.expiry)
  BY DEF Tidy
<1>2. s.current \in Seq(Timer)
  BY <1>1, DataFields
<1>3. PICK i \in 1..Len(s.current) : s.current[i] = t
  BY <1>2 DEF ToSet
<1>4. 1 \in 1..Len(s.current) /\ 1 <= i /\ Head(s.current) = s.current[1] /\ s.current # <<>>
  BY <1>2, <1>3
<1> QED
  BY <1>1, <1>3, <1>4 DEF Sorted

\* After a sample the invariant of the data needs no clock.
LEMMA SampledAccounted ==
  ASSUME tick \in Ticks, tick' = tick, d'.last = tick, d'.early = {},
         \A t \in Timer : Fine(d', tick, 0, late', t)
  PROVE  Accounted' /\ Elapsed(d)' = 0
<1>1. Wrapped(d') = 0 /\ Elapsed(d') = 0 /\ tick + 0 = tick
  BY FreshClock, TimersAssumption DEF Ticks
<1>2. Wrapped(d)' = 0 /\ Elapsed(d)' = 0
  BY <1>1 DEF Wrapped, Elapsed
<1>3. \A t \in Timer : Fine(d', tick' + Wrapped(d)', Elapsed(d)', late', t)
  BY <1>1, <1>2
<1> QED
  BY <1>2, <1>3 DEF Accounted, Fine, Active, Restarting

\* The service task blocks only as long as nothing is due.
LEMMA BlockKeeps == TInv /\ prvProcessTimerOrBlockTask => TInv'
<1> SUFFICES ASSUME TInv, prvProcessTimerOrBlockTask PROVE TInv'
  OBVIOUS
<1> DEFINE r == prvSampleTimeNow(d)
           overdue == ~task.empty /\ task.next <= tick
           block == ~r.switched /\ ~overdue /\ r.s.queue = <<>>
           sleep == Max({1, (task.next - tick) % TickMod})
<1>1. /\ task.pc = "sample" /\ d' = r.s
      /\ task' = CASE ~r.switched /\ overdue -> [task EXCEPT !.pc = "expired", !.now = tick]
                   [] block -> [AtCommands EXCEPT !.pc = "blocked", !.sleep = sleep]
                   [] OTHER -> AtCommands
      /\ late' = IF block THEN 0 ELSE late
      /\ UNCHANGED <<tick, uptime>>
  BY DEF prvProcessTimerOrBlockTask
<1>2. r.switched = (tick < d.last)
  BY DEF prvSampleTimeNow
<1>3. TimerTypes /\ Accounted /\ HeadKnown /\ d.restarts = <<>>
  BY <1>1 DEF TInv, InHand
<1>4. /\ tick \in Ticks /\ late \in 0..MaxLate /\ Tidy(d) /\ d.early = {}
      /\ task \in [pc : {"next", "sample", "expired", "commands", "received", "blocked"}, empty : BOOLEAN,
                   next : Ticks, now : Ticks, sleep : 0..TickMod, hand : SUBSET Commands]
  BY <1>3 DEF TimerTypes, Accounted
<1>5. \A t \in Timer : Fine(d, tick + Wrapped(d), Elapsed(d), late, t)
  BY <1>3 DEF Accounted
<1> HIDE DEF r
<1>6. /\ Tidy(d') /\ d'.early = {} /\ d'.last = tick
      /\ \A t \in Timer : Fine(d', tick, 0, late, t)
      /\ ~(tick < d.last) => SameLists(d, d') /\ d'.queue = d.queue /\ d'.restarts = d.restarts
  <2>1. d' = prvSampleTimeNow(d).s
    BY <1>1 DEF r
  <2> QED
    BY <1>4, <1>5, <2>1, SampleEffect
<1>7. TickMod \in Nat \ {0} /\ MaxLate \in Nat /\ tick \in 0..TickMod - 1 /\ task.next \in 0..TickMod - 1
  BY <1>4, TimersAssumption DEF Ticks
<1>8. /\ (task.next - tick) % TickMod = IF task.next < tick THEN task.next - tick + TickMod ELSE task.next - tick
      /\ (task.next - tick) % TickMod \in 0..TickMod - 1
  BY <1>4, TickDifference DEF Ticks
<1>9. sleep \in {1, (task.next - tick) % TickMod} /\ sleep >= 1 /\ sleep \in 0..TickMod
  <2>1. sleep \in {1, (task.next - tick) % TickMod} /\ sleep >= 1
    BY <1>8, LargerOf
  <2> HIDE DEF sleep
  <2>2. CASE sleep = 1
    BY <1>7, <2>2, <2>1
  <2>3. CASE sleep = (task.next - tick) % TickMod
    BY <1>7, <1>8, <2>1, <2>3
  <2> QED
    BY <2>1, <2>2, <2>3
<1> HIDE DEF sleep
<1>10. Tidy(d)' /\ uptime' \in 0..MaxLate /\ tick' \in Ticks
  BY <1>1, <1>3, <1>4, <1>6 DEF Tidy, Data, Sorted, TimerTypes
<1>11. task.empty <=> d.current = <<>>
  BY <1>1, <1>3 DEF HeadKnown
<1>12. d.current = <<>> => task.next = 0
  BY <1>1, <1>3 DEF HeadKnown
<1>13. d.current # <<>> => task.next = d.expiry[Head(d.current)]
  BY <1>1, <1>3 DEF HeadKnown
\* A timer has expired.
<1>14. CASE ~r.switched /\ overdue
  <2>1. task' = [task EXCEPT !.pc = "expired", !.now = tick] /\ late' = late
    BY <1>1, <1>14
  <2>2. TimerTypes'
    BY <1>4, <1>10, <2>1 DEF TimerTypes
  <2>3. Accounted' /\ Elapsed(d)' = 0
    BY <1>1, <1>4, <1>6, <2>1, SampledAccounted
  <2>4. SameLists(d, d')
    BY <1>2, <1>6, <1>14
  <2>5. d.current # <<>> /\ task.next <= tick
    BY <1>11, <1>14
  <2>6. task'.now = tick /\ task'.next = task.next /\ (task'.empty <=> task.empty)
    BY <1>4, <2>1
  <2>7. HeadKnown'
    <3>1. 0 <= late'
      BY <1>4, <1>7, <2>1
    <3> QED
      BY <1>6, <1>11, <1>13, <2>3, <2>4, <2>5, <2>6, <3>1 DEF HeadKnown, SameLists
  <2>8. SleepsInTime' /\ InHand'
    <3>1. d'.restarts = <<>> /\ task'.pc = "expired"
      BY <1>2, <1>3, <1>4, <1>6, <1>14, <2>1
    <3> QED
      BY <3>1 DEF SleepsInTime, InHand
  <2> QED
    BY <2>2, <2>3, <2>7, <2>8 DEF TInv
\* It blocks.
<1>15. CASE block
  <2>1. task' = [AtCommands EXCEPT !.pc = "blocked", !.sleep = sleep] /\ late' = 0
    BY <1>1, <1>15
  <2>0. /\ AtCommands \in [pc : {"next", "sample", "expired", "commands", "received", "blocked"},
                           empty : BOOLEAN, next : Ticks, now : Ticks, sleep : 0..TickMod,
                           hand : SUBSET Commands]
        /\ AtCommands.pc = "commands"
    BY <1>4, AtCommandsType
  <2>2. TimerTypes'
    <3>1. 0 \in 0..MaxLate
      BY <1>7
    <3> QED
      BY <1>9, <1>10, <2>0, <2>1, <3>1 DEF TimerTypes
  <2>3. SameLists(d, d') /\ d'.queue = <<>> /\ d'.restarts = <<>> /\ ~overdue
    BY <1>1, <1>2, <1>3, <1>6, <1>15 DEF r
  <2>4. d' \in Data /\ d'.expiry \in [Timer -> Ticks] /\ d'.due \in [Timer -> Int]
        /\ d'.awaited \in SUBSET Timer
    BY <1>6, DataFields DEF Tidy
  <2>5. ASSUME NEW t \in d'.awaited
        PROVE  t \in Active(d') /\ d'.due[t] >= sleep
    <3>1. t \in Timer /\ Fine(d', tick, 0, late, t)
      BY <1>6, <2>4
    <3>2. ~Restarting(d', t)
      BY <2>3 DEF Restarting, ToSet
    <3>3. /\ t \in Active(d')
          /\ t \in ToSet(d'.current) => d'.due[t] = d'.expiry[t] - tick
          /\ t \in ToSet(d'.overflow) => d'.due[t] = d'.expiry[t] + TickMod - tick
      BY <3>1, <3>2 DEF Fine
    <3>4. d'.expiry[t] \in Nat /\ d'.expiry[t] = d.expiry[t]
      BY <2>3, <2>4, <3>1 DEF SameLists, Ticks
    <3>5. CASE t \in ToSet(d'.current)
      <4>1. d.current # <<>> /\ task.next <= d.expiry[t]
        BY <1>4, <1>13, <2>3, <3>5, HeadFirst DEF SameLists
      <4>2. task.next > tick
        BY <1>7, <1>11, <2>3, <4>1
      <4>3. (task.next - tick) % TickMod = task.next - tick
        BY <1>7, <1>8, <4>2
      <4>4. d'.due[t] >= task.next - tick /\ d'.due[t] >= 1
        BY <1>7, <3>3, <3>4, <3>5, <4>1, <4>2
      <4>5. d'.due[t] >= sleep
        BY <1>9, <4>3, <4>4
      <4> QED
        BY <3>3, <4>5
    <3>6. CASE t \in ToSet(d'.overflow)
      <4>1. d'.due[t] >= TickMod - tick /\ d'.due[t] \in Int
        BY <1>7, <2>4, <3>1, <3>3, <3>4, <3>6
      <4>2. TickMod - tick >= 1
        BY <1>7
      <4>3. (task.next - tick) % TickMod <= TickMod - tick
        <5>1. CASE d.current = <<>>
          BY <1>7, <1>8, <1>12, <5>1
        <5>2. CASE d.current # <<>>
          <6>1. task.next > tick
            BY <1>7, <1>11, <2>3, <5>2
          <6> QED
            BY <1>7, <1>8, <6>1
        <5> QED
          BY <5>1, <5>2
      <4>4. d'.due[t] >= sleep
        <5>1. sleep <= TickMod - tick
          BY <1>9, <4>2, <4>3
        <5>2. sleep \in Int /\ TickMod - tick \in Int
          BY <1>7, <1>9
        <5> QED
          BY <4>1, <5>1, <5>2
      <4> QED
        BY <3>3, <4>4
    <3> QED
      BY <3>3, <3>5, <3>6 DEF Active
  <2>6. \A t \in Timer : Fine(d', tick, 0, late', t)
    <3> SUFFICES ASSUME NEW t \in Timer, t \in d'.awaited PROVE Fine(d', tick, 0, late', t)
      BY DEF Fine
    <3>1. Fine(d', tick, 0, late, t)
      BY <1>6
    <3>2. t \in Active(d') /\ d'.due[t] >= sleep /\ d'.due[t] \in Int
      BY <2>4, <2>5
    <3>3. d'.due[t] + late' >= 0
      BY <1>9, <2>1, <3>2
    <3> QED
      BY <3>1, <3>2, <3>3 DEF Fine
  <2>7. Accounted'
    BY <1>1, <1>4, <1>6, <2>6, SampledAccounted
  <2>8. task'.sleep = sleep /\ task'.pc = "blocked"
    BY <2>0, <2>1
  <2>9. HeadKnown' /\ SleepsInTime' /\ InHand'
    BY <1>9, <2>3, <2>5, <2>8 DEF HeadKnown, SleepsInTime, InHand, Active
  <2> QED
    BY <2>2, <2>7, <2>9 DEF TInv
\* It goes on to the commands.
<1>16. CASE ~(~r.switched /\ overdue) /\ ~block
  <2>1. task' = AtCommands /\ late' = late
    BY <1>1, <1>16
  <2>2. TimerTypes' /\ task'.pc = "commands"
    BY <1>4, <1>10, <2>1, AtCommandsType DEF TimerTypes
  <2>3. Accounted'
    BY <1>1, <1>4, <1>6, <2>1, SampledAccounted
  <2>4. HeadKnown' /\ SleepsInTime' /\ InHand'
    BY <2>2 DEF HeadKnown, SleepsInTime, InHand
  <2> QED
    BY <2>2, <2>3, <2>4 DEF TInv
<1> QED
  BY <1>14, <1>15, <1>16

\* The expired timer is called back, and an auto-reload timer goes on.
LEMMA ExpiredKeeps == TInv /\ prvProcessExpiredTimer => TInv'
<1> SUFFICES ASSUME TInv, prvProcessExpiredTimer PROVE TInv'
  OBVIOUS
<1> DEFINE t == Head(d.current)
           next == d.expiry[t]
           r == prvInsertTimerInActiveList(Deactivate(d, t), t, (next + d.period[t]) % TickMod,
                                           d.last, next)
           reloaded == CASE t \notin AutoReload -> Deactivate(d, t)
                         [] t \in AutoReload /\ r.expired -> RestartCommand(r.s, t, next)
                         [] OTHER -> r.s
           x == Callback(reloaded, t)
<1>1. TimerTypes /\ Accounted /\ HeadKnown
  BY DEF TInv
<1>2. /\ task.pc = "expired" /\ task' = AtCommands
      /\ UNCHANGED <<tick, uptime, late>>
  BY DEF prvProcessExpiredTimer
<1>3. d.current # <<>> /\ task.next = next /\ task.now = d.last /\ next <= d.last
  BY <1>1, <1>2 DEF HeadKnown
<1>4. d' = x
  BY <1>3 DEF prvProcessExpiredTimer
<1>5. /\ tick \in Ticks /\ late \in 0..MaxLate /\ Tidy(d) /\ d.early = {}
      /\ task \in [pc : {"next", "sample", "expired", "commands", "received", "blocked"}, empty : BOOLEAN,
                   next : Ticks, now : Ticks, sleep : 0..TickMod, hand : SUBSET Commands]
  BY <1>1 DEF TimerTypes, Accounted
<1>6. d.last \in Ticks /\ late \in Nat
  BY <1>5, DataFields, TimersAssumption DEF Tidy
<1>7. /\ Elapsed(d) \in Nat /\ tick + Wrapped(d) = d.last + Elapsed(d)
  BY <1>5, <1>6, Clock, TimersAssumption DEF Ticks
<1>8. \A u \in Timer : Fine(d, d.last + Elapsed(d), Elapsed(d), late, u)
  BY <1>1, <1>7 DEF Accounted
<1>9. /\ Tidy(x) /\ x.early = {} /\ x.last = d.last
      /\ \A u \in Timer : Fine(x, d.last + Elapsed(d), Elapsed(d), late, u)
  BY <1>3, <1>5, <1>6, <1>7, <1>8, ExpiredEffect
<1> HIDE DEF x
<1>10. TimerTypes' /\ task'.pc = "commands"
  <2>1. Tidy(d)'
    BY <1>4, <1>9 DEF Tidy, Data, Sorted
  <2> QED
    BY <1>1, <1>2, <1>5, <2>1, AtCommandsType DEF TimerTypes
<1>11. Accounted'
  <2>1. Wrapped(d)' = Wrapped(d) /\ Elapsed(d)' = Elapsed(d)
    BY <1>2, <1>4, <1>9 DEF Wrapped, Elapsed
  <2>2. \A u \in Timer : Fine(d', tick' + Wrapped(d)', Elapsed(d)', late', u)
    BY <1>2, <1>4, <1>7, <1>9, <2>1
  <2> QED
    BY <1>4, <1>9, <2>2 DEF Accounted, Fine, Active, Restarting
<1>12. HeadKnown' /\ SleepsInTime' /\ InHand'
  BY <1>10 DEF HeadKnown, SleepsInTime, InHand
<1> QED
  BY <1>10, <1>11, <1>12 DEF TInv

\* What a command's handler sets out with: its timer in no list and not awaited.
Idle(s, t) ==
  [Deactivate(s, t) EXCEPT !.queue = Tail(@), !.awaited = @ \ {t}, !.due[t] = 0]

LEMMA IdleEffect ==
  ASSUME NEW s, Tidy(s), s.early = {}, s.queue # <<>>, NEW c, NEW e, NEW l,
         \A u \in Timer : Fine(s, c, e, l, u)
  PROVE  LET t == Head(s.queue).timer
             r == Idle(s, t)
         IN  /\ t \in Timer /\ Tidy(r) /\ r.early = {} /\ r.last = s.last /\ t \notin Active(r)
             /\ r.restarts = s.restarts
             /\ \A u \in Timer : Fine(r, c, e, l, u)
<1> DEFINE m == Head(s.queue)
           t == m.timer
           gone == Deactivate(s, t)
           du == [s.due EXCEPT ![t] = 0]
           r == Idle(s, t)
<1> SUFFICES /\ t \in Timer /\ Tidy(r) /\ r.early = {} /\ r.last = s.last /\ t \notin Active(r)
             /\ r.restarts = s.restarts
             /\ \A u \in Timer : Fine(r, c, e, l, u)
  OBVIOUS
<1>1. s \in Data /\ s.queue \in Seq(Commands) /\ s.due \in [Timer -> Int]
      /\ s.awaited \in SUBSET Timer /\ Len(s.queue) <= QueueLength
  BY DataFields DEF Tidy
<1>2. /\ Tail(s.queue) \in Seq(Commands) /\ Len(Tail(s.queue)) = Len(s.queue) - 1
      /\ m \in Commands /\ ToSet(s.queue) \ {m} \subseteq ToSet(Tail(s.queue))
  BY <1>1, TailSet
<1>3. t \in Timer
  BY <1>2 DEF Commands
<1>4. /\ Tidy(gone) /\ Elsewhere(s, gone, t) /\ Rest(gone) = Rest(s) /\ t \notin Active(gone)
  BY <1>3, DeactivateEffect
<1>5. /\ gone.queue = s.queue /\ gone.restarts = s.restarts /\ gone.last = s.last /\ gone.awaited = s.awaited
      /\ gone.due = s.due /\ gone.early = s.early /\ gone \in Data
  BY <1>4 DEF Rest, Tidy
<1>6. du \in [Timer -> Int] /\ \A u \in Timer \ {t} : du[u] = s.due[u]
  BY <1>1, <1>3
<1>7. r = [gone EXCEPT !.queue = Tail(s.queue), !.awaited = s.awaited \ {t}, !.due = du]
  BY <1>5 DEF Idle
<1> HIDE DEF r, gone, du, m
<1>8. r \in Data
  BY <1>1, <1>2, <1>5, <1>6, <1>7 DEF Data
<1>9. /\ r.current = gone.current /\ r.overflow = gone.overflow /\ r.expiry = gone.expiry
      /\ r.queue = Tail(s.queue) /\ r.restarts = s.restarts /\ r.last = s.last
      /\ r.awaited = s.awaited \ {t} /\ r.due = du /\ r.early = {}
  BY <1>5, <1>7 DEF Data
<1>10. Tidy(r)
  <2>1. Len(r.queue) <= QueueLength
    BY <1>1, <1>2, <1>9, TimersAssumption
  <2> QED
    BY <1>4, <1>8, <1>9, <2>1, TidyStays
<1>11. t \notin Active(r)
  BY <1>4, <1>9 DEF Active
<1>12. ASSUME NEW u \in Timer \ {t}, Restarting(s, u) PROVE Restarting(r, u)
  <2>1. PICK k \in ToSet(s.queue) \cup ToSet(s.restarts) : k.timer = u /\ k.id = "start"
    BY <1>12 DEF Restarting
  <2>2. k # m
    BY <2>1 DEF m
  <2>3. k \in ToSet(r.queue) \cup ToSet(r.restarts)
    BY <1>2, <1>9, <2>1, <2>2
  <2> QED
    BY <1>12, <2>1, <2>3 DEF Restarting
<1>13. Elsewhere(s, r, t)
  <2> SUFFICES ASSUME NEW u \in Timer \ {t}
               PROVE  /\ u \in ToSet(r.current) <=> u \in ToSet(s.current)
                      /\ u \in ToSet(r.overflow) <=> u \in ToSet(s.overflow)
                      /\ r.expiry[u] = s.expiry[u] /\ r.due[u] = s.due[u]
                      /\ u \in r.awaited <=> u \in s.awaited
                      /\ u \in r.early <=> u \in s.early
                      /\ Restarting(s, u) => Restarting(r, u)
    BY DEF Elsewhere
  <2>1. /\ u \in ToSet(gone.current) <=> u \in ToSet(s.current)
        /\ u \in ToSet(gone.overflow) <=> u \in ToSet(s.overflow)
        /\ gone.expiry[u] = s.expiry[u]
    BY <1>4 DEF Elsewhere
  <2> QED
    BY <1>6, <1>9, <1>12, <2>1
<1>14. \A u \in Timer : Fine(r, c, e, l, u)
  <2> TAKE u \in Timer
  <2>1. CASE u = t
    BY <1>9, <2>1 DEF Fine
  <2>2. CASE u # t
    BY <1>13, <2>2, ElsewhereFine
  <2> QED
    BY <2>1, <2>2
<1> QED
  BY <1>3, <1>9, <1>10, <1>11, <1>14

LEMMA CommandValue ==
  ASSUME NEW m \in Commands
  PROVE  \/ m.id = "start" /\ m.value \in Ticks
         \/ m.id \in {"stop", "delete"}
         \/ m.id = "period" /\ m.value \in Periods
<1>1. CASE m \in [id : {"start"}, timer : Timer, value : 0..TickMod - 1]
  BY <1>1 DEF Ticks
<1>2. CASE m \in [id : {"stop", "delete"}, timer : Timer, value : {0}]
  BY <1>2
<1>3. CASE m \in [id : {"period"}, timer : Timer, value : Periods]
  BY <1>3
<1> QED
  BY <1>1, <1>2, <1>3 DEF Commands

\* A command is taken from the queue, or there is none.
LEMMA ReceiveKeeps == TInv /\ ReceiveCommand => TInv'
<1> SUFFICES ASSUME TInv, ReceiveCommand PROVE TInv'
  OBVIOUS
<1>1. TimerTypes /\ Accounted
  BY DEF TInv
<1>2. /\ task.pc = "commands" /\ d.restarts = <<>> /\ UNCHANGED <<tick, uptime, late>>
  BY DEF ReceiveCommand
<1>3. /\ tick \in Ticks /\ late \in 0..MaxLate /\ Tidy(d) /\ d.early = {} /\ uptime \in 0..MaxLate
      /\ task \in [pc : {"next", "sample", "expired", "commands", "received", "blocked"},
                   empty : BOOLEAN, next : Ticks, now : Ticks, sleep : 0..TickMod,
                   hand : SUBSET Commands]
  BY <1>1 DEF TimerTypes, Accounted
<1>4. CASE d.queue = <<>>
  <2>1. d' = d /\ task' = [task EXCEPT !.pc = "next"]
    BY <1>4 DEF ReceiveCommand
  <2>2. TimerTypes' /\ task'.pc = "next"
    BY <1>2, <1>3, <2>1, TidyUnchanged DEF TimerTypes
  <2>3. Accounted'
    BY <1>1, <1>2, <2>1, AccountedStays
  <2>4. HeadKnown' /\ SleepsInTime' /\ InHand'
    BY <1>2, <2>1, <2>2 DEF HeadKnown, SleepsInTime, InHand
  <2> QED
    BY <2>2, <2>3, <2>4 DEF TInv
<1>5. CASE d.queue # <<>>
  <2> DEFINE m == Head(d.queue)
             t == m.timer
  <2>1. d' = Idle(d, t) /\ task' = [task EXCEPT !.pc = "received", !.hand = {m}]
    BY <1>5 DEF ReceiveCommand, Idle
  <2>2. /\ t \in Timer /\ Tidy(d') /\ d'.early = {} /\ d'.last = d.last
        /\ t \notin Active(d') /\ d'.restarts = <<>>
        /\ \A u \in Timer : Fine(d', tick + Wrapped(d), Elapsed(d), late, u)
    BY <1>1, <1>2, <1>3, <1>5, <2>1, IdleEffect DEF Accounted
  <2>3. m \in Commands
    <3>1. d.queue \in Seq(Commands)
      BY <1>3, DataFields DEF Tidy
    <3> QED
      BY <1>5, <3>1
  <2> HIDE DEF m
  <2>4. TimerTypes' /\ task'.pc = "received" /\ task'.hand = {m}
    <3>1. Tidy(d)'
      BY <2>2 DEF Tidy, Data, Sorted
    <3> QED
      BY <1>2, <1>3, <2>1, <2>3, <3>1 DEF TimerTypes
  <2>5. Accounted'
    <3>1. Wrapped(d)' = Wrapped(d) /\ Elapsed(d)' = Elapsed(d)
      BY <1>2, <2>2 DEF Wrapped, Elapsed
    <3>2. \A u \in Timer : Fine(d', tick' + Wrapped(d)', Elapsed(d)', late', u)
      BY <1>2, <2>2, <3>1
    <3> QED
      BY <2>2, <3>2 DEF Accounted, Fine, Active, Restarting
  <2>6. HeadKnown' /\ SleepsInTime' /\ InHand'
    <3>1. t \notin Active(d)'
      BY <2>2 DEF Active
    <3> QED
      BY <2>2, <2>4, <3>1 DEF HeadKnown, SleepsInTime, InHand
  <2> QED
    BY <2>4, <2>5, <2>6 DEF TInv
<1> QED
  BY <1>4, <1>5

\* The command is handled: the timer stands still, goes on, or has expired.
LEMMA CommandsKeep == TInv /\ prvProcessReceivedCommands => TInv'
<1> SUFFICES ASSUME TInv, prvProcessReceivedCommands PROVE TInv'
  OBVIOUS
<1>1. TimerTypes /\ Accounted /\ InHand
  BY DEF TInv
<1>2. /\ task.pc = "received" /\ task' = AtCommands /\ UNCHANGED <<tick, uptime, late>>
  BY DEF prvProcessReceivedCommands
<1>3. /\ tick \in Ticks /\ late \in 0..MaxLate /\ Tidy(d) /\ d.early = {} /\ uptime \in 0..MaxLate
      /\ task \in [pc : {"next", "sample", "expired", "commands", "received", "blocked"},
                   empty : BOOLEAN, next : Ticks, now : Ticks, sleep : 0..TickMod,
                   hand : SUBSET Commands]
  BY <1>1 DEF TimerTypes, Accounted
<1> DEFINE s == prvSampleTimeNow(d).s
           known(m) == [s EXCEPT !.period[m.timer] = m.value, !.awaited = @ \cup {m.timer},
                                 !.due[m.timer] = m.value]
           periodic(m) == prvInsertTimerInActiveList(known(m), m.timer,
                            (tick + m.value) % TickMod, tick, tick).s
<1>4. PICK m \in task.hand :
        d' = CASE m.id = "start" -> Start(s, m.timer, m.value)
               [] m.id = "stop" -> s
               [] m.id = "period" -> periodic(m)
               [] m.id = "delete" -> s
  BY DEF prvProcessReceivedCommands
<1> DEFINE t == m.timer
<1>5. m \in Commands /\ t \in Timer /\ t \notin Active(d)
  <2>1. m \in Commands /\ t \notin Active(d)
    BY <1>1, <1>2, <1>3 DEF InHand
  <2> QED
    BY <2>1 DEF Commands
<1>6. /\ Tidy(s) /\ s.early = {} /\ s.last = tick /\ Active(s) \subseteq Active(d)
      /\ \A u \in Timer : Fine(s, tick, 0, late, u)
  BY <1>1, <1>3, SampleEffect DEF Accounted
<1>7. late \in Nat /\ t \notin Active(s)
  BY <1>3, <1>5, <1>6, TimersAssumption
<1>8. \/ m.id = "start" /\ m.value \in Ticks
      \/ m.id \in {"stop", "delete"}
      \/ m.id = "period" /\ m.value \in Periods
  BY <1>5, CommandValue
<1> HIDE DEF s, known, periodic
<1>9. Tidy(d') /\ d'.early = {} /\ d'.last = tick /\ \A u \in Timer : Fine(d', tick, 0, late, u)
  <2>1. CASE m.id = "start" /\ m.value \in Ticks
    <3>1. d' = Start(s, t, m.value)
      BY <1>4, <2>1
    <3> QED
      BY <1>3, <1>5, <1>6, <1>7, <2>1, <3>1, StartEffect
  <2>2. CASE m.id \in {"stop", "delete"}
    <3>1. d' = s
      BY <1>4, <2>2
    <3> QED
      BY <1>6, <3>1
  <2>3. CASE m.id = "period" /\ m.value \in Periods
    <3>1. d' = periodic(m)
      BY <1>4, <2>3
    <3>2. m.value \in Periods /\ late \in Nat
      BY <1>7, <2>3
    <3>3. /\ Tidy(periodic(m)) /\ periodic(m).early = {} /\ periodic(m).last = s.last
          /\ \A u \in Timer : Fine(periodic(m), tick, 0, late, u)
      BY <1>3, <1>5, <1>6, <1>7, <3>2, PeriodEffect, Zenon DEF periodic, known
    <3> QED
      BY <1>6, <3>1, <3>3
  <2> QED
    BY <1>8, <2>1, <2>2, <2>3
<1>10. TimerTypes' /\ task'.pc = "commands"
  <2>1. Tidy(d)'
    BY <1>9 DEF Tidy, Data, Sorted
  <2> QED
    BY <1>2, <1>3, <2>1, AtCommandsType DEF TimerTypes
<1>11. Accounted'
  BY <1>2, <1>3, <1>9, SampledAccounted
<1>12. HeadKnown' /\ SleepsInTime' /\ InHand'
  BY <1>10 DEF HeadKnown, SleepsInTime, InHand
<1> QED
  BY <1>10, <1>11, <1>12 DEF TInv

-----------------------------------------------------------------------------
\* The theorems.


LEMMA StepKeeps == TInv /\ [Next]_vars => TInv'
<1> SUFFICES ASSUME TInv, [Next]_vars PROVE TInv'
  OBVIOUS
<1>1. CASE prvGetNextExpireTime
  BY <1>1, GetNextKeeps
<1>2. CASE prvProcessTimerOrBlockTask
  BY <1>2, BlockKeeps
<1>3. CASE prvProcessExpiredTimer
  BY <1>3, ExpiredKeeps
<1>4. CASE prvProcessReceivedCommands
  BY <1>4, CommandsKeep
<1>5. CASE ReceiveCommand
  BY <1>5, ReceiveKeeps
<1>6. CASE xTimerGenericCommand
  BY <1>6, SendKeeps
<1>7. CASE Tick
  BY <1>7, TickKeeps
<1>8. CASE SendRestart
  BY <1>8, SendRestartKeeps
<1>9. CASE UNCHANGED vars
  <2>1. UNCHANGED <<tick, d, task, uptime, late>>
    BY <1>9 DEF vars
  <2>2. TimerTypes'
    BY <2>1, TidyUnchanged DEF TInv, TimerTypes
  <2>3. Accounted'
    BY <2>1, AccountedStays DEF TInv
  <2>4. HeadKnown' /\ SleepsInTime' /\ InHand'
    BY <2>1 DEF TInv, HeadKnown, SleepsInTime, InHand, Elapsed, Active
  <2> QED
    BY <2>2, <2>3, <2>4 DEF TInv
<1> QED
  BY <1>1, <1>2, <1>3, <1>4, <1>5, <1>6, <1>7, <1>8, <1>9 DEF Next

\* The inductive invariant: where every awaited timer is and when it is due, over
\* the wrap of the count; what the service task has read and how long it sleeps.
THEOREM TimersInvariant == Spec => []TInv
<1>1. Init => TInv
  BY InitEstablishes
<1>2. TInv /\ [Next]_vars => TInv'
  BY StepKeeps
<1> QED
  BY <1>1, <1>2, PTL DEF Spec

\* The service task's data are what timers.c keeps: counts in range, timers in the
\* lists, no more commands in the queue than it has room for.
THEOREM TypesHold == Spec => []TypeOK
<1>1. TInv => TypeOK
  <2> SUFFICES ASSUME TInv PROVE TypeOK
    OBVIOUS
  <2>1. TimerTypes /\ Tidy(d) /\ d \in Data /\ Len(d.queue) <= QueueLength
    BY DEF TInv, TimerTypes, Tidy
  <2>2. /\ d.current \in Seq(Timer) /\ d.overflow \in Seq(Timer) /\ d.queue \in Seq(Commands)
        /\ d.restarts \in Seq(Commands)
        /\ d.expiry \in [Timer -> Ticks] /\ d.period \in [Timer -> Periods] /\ d.last \in Ticks
        /\ d.alive \subseteq Timer /\ d.awaited \subseteq Timer /\ d.early \subseteq Timer
    BY <2>1, DataFields
  <2>3. ToSet(d.current) \subseteq Timer /\ ToSet(d.overflow) \subseteq Timer
        /\ ToSet(d.queue) \subseteq Commands /\ ToSet(d.restarts) \subseteq Commands
    BY <2>2 DEF ToSet
  <2> QED
    BY <2>1, <2>2, <2>3 DEF TimerTypes, TypeOK, Active, Ticks
<1> QED
  BY <1>1, TimersInvariant, PTL

\* A callback never comes before its time, counted from the time of the command,
\* however late the command and the service task are and whether or not the count
\* wraps in between.
THEOREM CallbacksInTime == Spec => []NeverEarly
<1>1. TInv => NeverEarly
  BY DEF TInv, Accounted, NeverEarly
<1> QED
  BY <1>1, TimersInvariant, PTL

\* While the service task is blocked no timer is overdue: the time it sleeps, until
\* the head of the current list or until the wrap, ends no later than any expiry.
THEOREM SleepsNotOver == Spec => []NoOverdueAsleep
<1>1. TInv => NoOverdueAsleep
  <2> SUFFICES ASSUME TInv, task.pc = "blocked", NEW t \in d.awaited PROVE d.due[t] > 0
    BY DEF NoOverdueAsleep
  <2>1. d.due[t] >= task.sleep /\ task.sleep >= 1
    BY DEF TInv, SleepsInTime
  <2>2. d.due[t] \in Int /\ task.sleep \in Int
    <3>1. d \in Data /\ task.sleep \in 0..TickMod
      BY DEF TInv, TimerTypes, Tidy
    <3>2. d.due \in [Timer -> Int] /\ t \in Timer
      BY <3>1, DataFields
    <3> QED
      BY <3>1, <3>2, TimersAssumption
  <2> QED
    BY <2>1, <2>2
<1> QED
  BY <1>1, TimersInvariant, PTL

\* A running auto-reload timer is in one of the lists or its restart is in the
\* queue, whatever the switch of the lists did with it.
THEOREM AutoReloadStays == Spec => []AutoReloadGoesOn
<1>1. TInv => AutoReloadGoesOn
  <2> SUFFICES ASSUME TInv, NEW t \in AutoReload \cap d.awaited
               PROVE  t \in Active(d) \/ \E m \in ToSet(d.queue) \cup ToSet(d.restarts) :
                                              m.timer = t /\ m.id = "start"
    BY DEF AutoReloadGoesOn
  <2>1. t \in Timer
    BY TimersAssumption
  <2> QED
    BY <2>1 DEF TInv, Accounted, Fine, Restarting
<1> QED
  BY <1>1, TimersInvariant, PTL
=============================================================================
