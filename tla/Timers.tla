------------------------------ MODULE Timers ------------------------------
(***************************************************************************)
(* The software timers of FreeRTOS (timers.c): the timer service task, its *)
(* two lists of active timers, the commands other tasks and handlers queue *)
(* for it, and the tick count, which wraps.                                *)
(*                                                                         *)
(* The task's data and its commands are one record d:                      *)
(*   current, overflow  pxCurrentTimerList and pxOverflowTimerList         *)
(*   expiry, period     xTimerListItem's value and xTimerPeriodInTicks     *)
(*   queue              xTimerQueue            last   xLastTime            *)
(*   restarts           what the task is about to queue for itself         *)
(* and, as history, the timers whose next callback has a known time        *)
(* (awaited), how many ticks off it is (due), and the timers called back   *)
(* before their time (early).                                              *)
(***************************************************************************)
EXTENDS RtosLists

CONSTANTS
  Timer,          \* the timers
  AutoReload,     \* those with uxAutoReload set
  Periods,        \* periods a timer can be given
  Applications,   \* sets of <<timer, command>>: what the rest of an application does
  TickMod,        \* number of values of TickType_t, 2^16
  QueueLength,    \* configTIMER_QUEUE_LENGTH
  MaxLate         \* bound: ticks that pass while the service task has something
                  \* to do, or between a client's reading of the time and its send

ASSUME TimersAssumption ==
  /\ IsFiniteSet(Timer) /\ AutoReload \subseteq Timer
  /\ Periods \subseteq 1..TickMod - 1 /\ Periods # {}
  /\ {TickMod, QueueLength, MaxLate} \subseteq Nat \ {0}
  /\ \A a \in Applications : a \subseteq Timer \X {"start", "stop", "period", "delete"}

\* A wrap is seen only if the count is below xLastTime after it: the service task
\* must sample it more often than once in a cycle.
ASSUME SampledInTime == \A p \in Periods : p + MaxLate < TickMod

VARIABLES
  application,    \* the one that runs
  tick,           \* xTickCount
  d,
  task,           \* the service task: [pc, empty, next, now, sleep, hand]
  uptime,         \* ticks since the start, up to MaxLate
  late            \* ticks since the service task was last blocked
vars == <<application, tick, d, task, uptime, late>>

Commands == [id : {"start"}, timer : Timer, value : 0..TickMod - 1]
              \cup [id : {"stop", "delete"}, timer : Timer, value : {0}]
              \cup [id : {"period"}, timer : Timer, value : Periods]
Active(s) == ToSet(s.current) \cup ToSet(s.overflow)
Age(time, now) == (now - time) % TickMod

TypeOK ==
  /\ tick \in 0..TickMod - 1 /\ d.last \in 0..TickMod - 1
  /\ Active(d) \cup d.awaited \cup d.early \cup d.alive \subseteq Timer
  /\ ToSet(d.queue) \cup ToSet(d.restarts) \subseteq Commands /\ Len(d.queue) <= QueueLength
  /\ d.expiry \in [Timer -> 0..TickMod - 1] /\ d.period \in [Timer -> Periods]
  /\ task \in [pc : {"next", "sample", "expired", "commands", "received", "blocked"},
               empty : BOOLEAN, next : 0..TickMod - 1, now : 0..TickMod - 1,
               sleep : 0..TickMod, hand : SUBSET Commands]
  /\ late \in 0..MaxLate /\ uptime \in 0..MaxLate

\* prvCheckForValidListAndQueue, and xTimerCreate for each timer.
Init ==
  /\ application \in Applications
  /\ tick = 0 /\ uptime = 0 /\ late = 0
  /\ \E p \in [Timer -> Periods] :
       d = [current |-> <<>>, overflow |-> <<>>, expiry |-> [t \in Timer |-> 0], period |-> p,
            queue |-> <<>>, restarts |-> <<>>, last |-> 0, alive |-> Timer,
            awaited |-> {}, due |-> [t \in Timer |-> 0], early |-> {}]
  /\ task = [pc |-> "next", empty |-> TRUE, next |-> 0, now |-> 0, sleep |-> 0, hand |-> {}]

-----------------------------------------------------------------------------
\* The lists.

Deactivate(s, t) ==
  [s EXCEPT !.current = uxListRemove(@, t), !.overflow = uxListRemove(@, t), !.expiry[t] = 0]
InsertCurrent(s, t, time) ==
  LET v == [s.expiry EXCEPT ![t] = time]
  IN  [s EXCEPT !.expiry = v, !.current = vListInsert(@, t, v)]
InsertOverflow(s, t, time) ==
  LET v == [s.expiry EXCEPT ![t] = time]
  IN  [s EXCEPT !.expiry = v, !.overflow = vListInsert(@, t, v)]

\* pxCallbackFunction, which is the application's; history only.
Callback(s, t) ==
  IF t \notin s.awaited THEN s
  ELSE [s EXCEPT !.early = IF s.due[t] > 0 THEN @ \cup {t} ELSE @,
                 !.due[t] = IF t \in AutoReload THEN @ + s.period[t] ELSE 0,
                 !.awaited = IF t \in AutoReload THEN @ ELSE @ \ {t}]

\* The service task's own command; SendRestart puts it in the queue.
RestartCommand(s, t, time) ==
  [s EXCEPT !.restarts = Append(@, [id |-> "start", timer |-> t, value |-> time])]

\* Faulty variant: a time beyond the wrap goes to the current list.
InsertInOneList(s, t, time, now, commanded) ==
  [s |-> InsertCurrent(s, t, time), expired |-> FALSE]

\* Where a timer goes, or that it has expired already.  xTimeNow - xCommandTime
\* is an int: after a wrap it is negative, and a timer that expired since goes
\* round once more.
prvInsertTimerInActiveList(s, t, time, now, commanded) ==
  CASE time <= now /\ now - commanded >= s.period[t] ->
         [s |-> [s EXCEPT !.expiry[t] = 0], expired |-> TRUE]
    [] time <= now /\ now - commanded < s.period[t] ->
         [s |-> [InsertOverflow(s, t, time) EXCEPT
                   !.awaited = IF now < commanded THEN @ \ {t} ELSE @,
                   !.due[t] = IF now < commanded THEN 0 ELSE @],
          expired |-> FALSE]
    [] time > now /\ now < commanded /\ time >= commanded ->
         [s |-> [s EXCEPT !.expiry[t] = 0], expired |-> TRUE]
    [] OTHER -> [s |-> InsertCurrent(s, t, time), expired |-> FALSE]

\* Faulty variant: what the current list still holds is not looked at.
SwitchOnly(s) == [s EXCEPT !.current = s.overflow, !.overflow = s.current]

\* Faulty variant: a timer due again after the wrap is not restarted.
SwitchWithoutRestart(s) ==
  LET left == FoldLeft(LAMBDA r, t : Callback(Deactivate(r, t), t), s, s.current)
  IN  [left EXCEPT !.current = left.overflow, !.overflow = left.current]

\* The head of the current list has expired before the wrap; an auto-reload timer
\* does so again as often as its period fits.
ExpireHead(s) ==
  LET t == Head(s.current)
      time == s.expiry[t]
      again == (time + s.period[t]) % TickMod
      called == Callback(Deactivate(s, t), t)
  IN  CASE t \notin AutoReload -> called
        [] t \in AutoReload /\ again > time -> InsertCurrent(called, t, again)
        [] t \in AutoReload /\ again <= time -> RestartCommand(called, t, time)

\* The tick count has wrapped: every timer left in the current list has expired.
\* Each round of the loop takes a timer out or makes it expire later.
prvSwitchTimerLists(s) ==
  LET rounds == [i \in 1..TickMod * Cardinality(Timer) |-> i]
      empty == FoldLeft(LAMBDA r, i : IF r.current = <<>> THEN r ELSE ExpireHead(r), s, rounds)
  IN  [empty EXCEPT !.current = empty.overflow, !.overflow = <<>>]

\* prvSampleTimeNow: the lists are switched if the count has wrapped.
prvSampleTimeNow(s) ==
  [s |-> [IF tick < s.last THEN prvSwitchTimerLists(s) ELSE s EXCEPT !.last = tick],
   switched |-> tick < s.last]

-----------------------------------------------------------------------------
\* The service task.  Only it touches the lists; from prvSampleTimeNow to the
\* placing in the list of waiting tasks the scheduler is suspended, so that the
\* tick count stands still.

prvGetNextExpireTime ==
  /\ task.pc = "next"
  /\ LET empty == d.current = <<>> IN
     task' = [task EXCEPT !.pc = "sample", !.empty = empty,
                          !.next = IF empty THEN 0 ELSE d.expiry[Head(d.current)]]
  /\ UNCHANGED <<tick, d, uptime, late>>

\* The task goes on to the commands; what it has read of the list is out of use.
AtCommands ==
  [task EXCEPT !.pc = "commands", !.empty = TRUE, !.next = 0, !.now = 0, !.sleep = 0, !.hand = {}]

\* With nothing due and no command it blocks until the next expiry, or with no
\* timer in the current list until the count wraps; for one tick at least.
prvProcessTimerOrBlockTask ==
  /\ task.pc = "sample"
  /\ LET r == prvSampleTimeNow(d)
         due == ~task.empty /\ task.next <= tick
         block == ~r.switched /\ ~due /\ r.s.queue = <<>>
     IN  /\ d' = r.s
         /\ task' = CASE ~r.switched /\ due -> [task EXCEPT !.pc = "expired", !.now = tick]
                      [] block -> [AtCommands EXCEPT !.pc = "blocked",
                                    !.sleep = Max({1, (task.next - tick) % TickMod})]
                      [] OTHER -> AtCommands
         /\ late' = IF block THEN 0 ELSE late
  /\ UNCHANGED <<tick, uptime>>

prvProcessExpiredTimer ==
  /\ task.pc = "expired"
  /\ LET t == Head(d.current)
         r == prvInsertTimerInActiveList(Deactivate(d, t), t, (task.next + d.period[t]) % TickMod,
                                         task.now, task.next)
         reloaded == CASE t \notin AutoReload -> Deactivate(d, t)
                       [] t \in AutoReload /\ r.expired -> RestartCommand(r.s, t, task.next)
                       [] OTHER -> r.s
     IN  d' = Callback(reloaded, t)
  /\ task' = AtCommands
  /\ UNCHANGED <<tick, uptime, late>>

Start(s, t, time) ==
  LET known == [s EXCEPT !.awaited = @ \cup {t}, !.due[t] = s.period[t] - Age(time, tick)]
      again == (time + s.period[t]) % TickMod
      r == prvInsertTimerInActiveList(known, t, again, tick, time)
  IN  IF ~r.expired THEN r.s
      ELSE LET called == Callback(r.s, t)
           IN  IF t \in AutoReload THEN RestartCommand(called, t, again) ELSE called

\* Faulty variant: the queue is not asked for room.
SendRestartUnchecked ==
  /\ task.pc = "commands" /\ d.restarts # <<>>
  /\ d' = [d EXCEPT !.queue = Append(@, Head(d.restarts)), !.restarts = Tail(@)]
  /\ UNCHANGED <<tick, task, uptime, late>>

\* xTimerGenericCommand of the service task itself: it does not wait, and with the
\* queue full, by commands that came after the one it handles too, the timer is not
\* restarted (configASSERT is empty).
SendRestart ==
  /\ task.pc = "commands" /\ d.restarts # <<>>
  /\ LET m == Head(d.restarts)
         rest == [d EXCEPT !.restarts = Tail(@)]
     IN  d' = IF Len(d.queue) < QueueLength THEN [rest EXCEPT !.queue = Append(@, m)]
              ELSE [rest EXCEPT !.awaited = @ \ {m.timer}, !.due[m.timer] = 0]
  /\ UNCHANGED <<tick, task, uptime, late>>

\* prvProcessReceivedCommands takes one command, and its timer out of its list.
ReceiveCommand ==
  /\ task.pc = "commands" /\ d.restarts = <<>>
  /\ IF d.queue = <<>> THEN UNCHANGED d /\ task' = [task EXCEPT !.pc = "next"]
     ELSE LET m == Head(d.queue) IN
          /\ d' = [Deactivate(d, m.timer) EXCEPT !.queue = Tail(@), !.awaited = @ \ {m.timer},
                                                 !.due[m.timer] = 0]
          /\ task' = [task EXCEPT !.pc = "received", !.hand = {m}]
  /\ UNCHANGED <<tick, uptime, late>>

\* It handles the command, at a time that it samples only now.
prvProcessReceivedCommands ==
  /\ task.pc = "received"
  /\ \E m \in task.hand :
       LET t == m.timer
           s == prvSampleTimeNow(d).s
       IN  d' = CASE m.id = "start" -> Start(s, t, m.value)
                  [] m.id = "stop" -> s
                  [] m.id = "period" ->
                       prvInsertTimerInActiveList(
                         [s EXCEPT !.period[t] = m.value, !.awaited = @ \cup {t},
                                   !.due[t] = m.value],
                         t, (tick + m.value) % TickMod, tick, tick).s
                  [] m.id = "delete" -> s
  /\ task' = AtCommands
  /\ UNCHANGED <<tick, uptime, late>>

-----------------------------------------------------------------------------
\* Everything else.

\* xTimerStart, xTimerReset and the like read the time for their command before they
\* send it: any number of clients may have done so in the last MaxLate ticks.
Stamped(m) == m.id = "start" => Age(m.value, tick) <= uptime

Woken == IF task.pc = "blocked" THEN AtCommands ELSE task

\* xTimerGenericCommand from a task that does not wait, or from a handler.  With the
\* queue full it fails; a timer is not used any more once its deletion is asked for.
xTimerGenericCommand ==
  /\ Len(d.queue) < QueueLength
  /\ \E m \in Commands :
       /\ Stamped(m) /\ m.timer \in d.alive /\ <<m.timer, m.id>> \in application
       /\ d' = [d EXCEPT !.queue = Append(@, m),
                         !.alive = IF m.id = "delete" THEN @ \ {m.timer} ELSE @]
  /\ task' = Woken
  /\ UNCHANGED <<tick, uptime, late>>

Tick ==
  /\ late < MaxLate \/ task.pc = "blocked"
  /\ tick' = (tick + 1) % TickMod
  /\ d' = [d EXCEPT !.due = [t \in Timer |-> IF t \in d.awaited THEN @[t] - 1 ELSE 0]]
  /\ task' = CASE task.pc # "blocked" -> task
               [] task.pc = "blocked" /\ task.sleep > 1 -> [task EXCEPT !.sleep = @ - 1]
               [] task.pc = "blocked" /\ task.sleep = 1 -> Woken
  /\ late' = IF task.pc = "blocked" THEN 0 ELSE late + 1
  /\ uptime' = IF uptime < MaxLate THEN uptime + 1 ELSE uptime

Next ==
  /\ \/ prvGetNextExpireTime \/ prvProcessTimerOrBlockTask \/ prvProcessExpiredTimer
     \/ ReceiveCommand \/ prvProcessReceivedCommands \/ SendRestart \/ xTimerGenericCommand \/ Tick
  /\ UNCHANGED application

Spec == Init /\ [][Next]_vars

-----------------------------------------------------------------------------
\* No callback before its time, counted from the time of the command, over the
\* wrap of the tick count, with commands and the service task late.
NeverEarly == d.early = {}

\* While the service task sleeps no timer is overdue: it neither sleeps past an
\* expiry nor leaves a timer in the list of the other cycle.  Not so a timer
\* that expired before its start was handled, over a wrap (see the insertion).
NoOverdueAsleep == task.pc = "blocked" => \A t \in d.awaited : d.due[t] > 0

\* A running auto-reload timer stays active: it is in one list, or its restart is
\* in the queue or on the way there; not so one whose restart found the queue full.
AutoReloadGoesOn ==
  \A t \in AutoReload \cap d.awaited :
    \/ t \in Active(d)
    \/ \E m \in ToSet(d.queue) \cup ToSet(d.restarts) : m.timer = t /\ m.id = "start"
=============================================================================
