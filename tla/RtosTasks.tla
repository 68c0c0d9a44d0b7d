---------------------------- MODULE RtosTasks ----------------------------
(***************************************************************************)
(* The scheduler of the FreeRTOS kernel (tasks.c) as operators on its      *)
(* state, a record with one field per variable of tasks.c:                 *)
(*                                                                         *)
(*   cur        pxCurrentTCB            ready      pxReadyTasksLists       *)
(*   top        uxTopReadyPriority      delayed    pxDelayedTaskList       *)
(*   overflow   pxOverflowDelayedTaskList                                  *)
(*   ended      xTasksWaitingTermination, with uxTasksDeleted its length   *)
(*   event      the lists event items are in: xPendingReadyList and the    *)
(*              lists of tasks waiting for a queue or an event group       *)
(*   wake       value of xGenericListItem: the tick a task wakes at        *)
(*   tick       xTickCount              next       xNextTaskUnblockTime    *)
(*   wraps      xNumOfOverflows         pended     uxPendedTicks           *)
(*   yield      xYieldPending           susp       uxSchedulerSuspended    *)
(*                                                                         *)
(* The configuration is FreeRTOSConfig.h: preemption, time slicing, no     *)
(* vTaskSuspend (portMAX_DELAY is a long wait, not an endless one).        *)
(***************************************************************************)
EXTENDS RtosLists

CONSTANTS
  Task, Idle,     \* the tasks, and the idle task among them
  Prio,           \* uxPriority of a task
  EventList,      \* the event lists besides xPendingReadyList
  TickMod,        \* number of values of TickType_t, 2^16
  WrapMod         \* number of values of xNumOfOverflows, 2^8

tskIDLE_PRIORITY == 0
portMAX_DELAY == TickMod - 1
Prios == 0..Max({Prio[t] : t \in Task})

ASSUME RtosAssumption ==
  /\ IsFiniteSet(Task) /\ xListEnd \notin Task
  /\ Idle \in Task /\ Prio \in [Task -> Nat] /\ Prio[Idle] = tskIDLE_PRIORITY
  /\ TickMod \in Nat /\ TickMod > 1 /\ WrapMod \in Nat \ {0}
  /\ "pending" \notin EventList

\* The value of xEventListItem: the highest priority first.
EventValue == [t \in Task |-> Max(Prios) + 1 - Prio[t]]

-----------------------------------------------------------------------------
\* Lists of tasks.

taskRECORD_READY_PRIORITY(k, t) == Max({k.top, Prio[t]})

prvAddTaskToReadyList(k, t) ==
  [k EXCEPT !.top = taskRECORD_READY_PRIORITY(k, t),
            !.ready[Prio[t]] = vListInsertEnd(@, t)]

\* uxListRemove of xGenericListItem, from the list that contains it.  Its value
\* means nothing outside the lists of delayed tasks: the model clears it.
RemoveGenericItem(k, t) ==
  [k EXCEPT !.wake[t] = 0, !.ready[Prio[t]] = uxListRemove(@, t), !.delayed = uxListRemove(@, t),
            !.overflow = uxListRemove(@, t), !.ended = uxListRemove(@, t)]

\* uxListRemove of xEventListItem, when a list contains it.
RemoveEventItem(k, t) ==
  [k EXCEPT !.event = [l \in DOMAIN @ |-> uxListRemove(@[l], t)]]

MakeReady(k, t) == prvAddTaskToReadyList(RemoveGenericItem(k, t), t)

\* The state in which the tasks have been created and the scheduler starts.
prvInitialiseTaskLists(created) ==
  LET empty == [cur |-> created[1], ready |-> [p \in Prios |-> vListInitialise], top |-> 0,
                delayed |-> <<>>, overflow |-> <<>>, ended |-> <<>>,
                event |-> [l \in EventList \cup {"pending"} |-> <<>>],
                wake |-> [t \in Task |-> 0], tick |-> 0, next |-> portMAX_DELAY,
                wraps |-> 0, pended |-> 0, yield |-> FALSE, susp |-> 0]
  IN  FoldLeft(prvAddTaskToReadyList, empty, created)

\* Each new task of at least the current priority is the one to start with.
xTaskGenericCreate(k, created) ==
  [k EXCEPT !.cur = FoldLeft(LAMBDA cur, t : IF Prio[cur] <= Prio[t] THEN t ELSE cur,
                             created[1], created)]

-----------------------------------------------------------------------------
\* Which task runs.

taskSELECT_HIGHEST_PRIORITY_TASK(k) ==
  LET p == Max({q \in 0..k.top : listCURRENT_LIST_LENGTH(k.ready[q]) > 0})
      l == listGET_OWNER_OF_NEXT_ENTRY(k.ready[p])
  IN  [k EXCEPT !.top = p, !.ready[p] = l, !.cur = Last(l)]

\* Faulty variant: the scheduler lock is not looked at.
SwitchAlways(k) == taskSELECT_HIGHEST_PRIORITY_TASK([k EXCEPT !.yield = FALSE])

\* While the scheduler is suspended a switch is only noted.
vTaskSwitchContext(k) ==
  IF k.susp # 0 THEN [k EXCEPT !.yield = TRUE]
  ELSE taskSELECT_HIGHEST_PRIORITY_TASK([k EXCEPT !.yield = FALSE])

-----------------------------------------------------------------------------
\* Time.

prvResetNextTaskUnblockTime(k) ==
  [k EXCEPT !.next = IF k.delayed = <<>> THEN portMAX_DELAY ELSE k.wake[Head(k.delayed)]]

taskSWITCH_DELAYED_LISTS(k) ==
  prvResetNextTaskUnblockTime(
    [k EXCEPT !.delayed = k.overflow, !.overflow = k.delayed, !.wraps = (@ + 1) % WrapMod])

\* The tasks whose time has come become ready, head first, up to the first whose
\* time has not.
UnblockExpired(k) ==
  LET later   == {i \in 1..Len(k.delayed) : k.wake[k.delayed[i]] > k.tick}
      expired == IF later = {} THEN k.delayed ELSE SubSeq(k.delayed, 1, Min(later) - 1)
      woken   == FoldLeft(LAMBDA s, t : MakeReady(RemoveEventItem(s, t), t), k, expired)
  IN  prvResetNextTaskUnblockTime(woken)

\* [k |-> the new state, switch |-> whether a context switch is required].
xTaskIncrementTick(k) ==
  IF k.susp # 0
  THEN [k |-> [k EXCEPT !.pended = @ + 1], switch |-> k.yield]
  ELSE LET t1 == [k EXCEPT !.tick = (@ + 1) % TickMod]
           t2 == IF t1.tick = 0 THEN taskSWITCH_DELAYED_LISTS(t1) ELSE t1
           t3 == IF t2.tick >= t2.next THEN UnblockExpired(t2) ELSE t2
           woken == ToSet(t2.delayed) \ ToSet(t3.delayed)
       IN  [k      |-> t3,
            switch |-> \/ \E t \in woken : Prio[t] >= Prio[k.cur]
                       \/ listCURRENT_LIST_LENGTH(t3.ready[Prio[k.cur]]) > 1
                       \/ k.yield]

\* Faulty variant: the time of the next wake-up is not brought forward.
DelayKeepingNext(k, time) ==
  LET w == [k EXCEPT !.wake[k.cur] = time]
  IN  IF time < k.tick
      THEN [w EXCEPT !.overflow = vListInsert(@, k.cur, w.wake)]
      ELSE [w EXCEPT !.delayed = vListInsert(@, k.cur, w.wake)]

\* Faulty variant: a wake-up beyond the wrap goes to the current list.
DelayInOneList(k, time) ==
  LET w == [k EXCEPT !.wake[k.cur] = time]
  IN  [w EXCEPT !.delayed = vListInsert(@, k.cur, w.wake), !.next = Min({@, time})]

\* Called by the current task on itself: it is in no list of its own any more.
prvAddCurrentTaskToDelayedList(k, time) ==
  LET w == [k EXCEPT !.wake[k.cur] = time]
  IN  IF time < k.tick
      THEN [w EXCEPT !.overflow = vListInsert(@, k.cur, w.wake)]
      ELSE [w EXCEPT !.delayed = vListInsert(@, k.cur, w.wake),
                     !.next = Min({@, time})]

DelayCurrentTask(k, ticks) ==
  prvAddCurrentTaskToDelayedList(RemoveGenericItem(k, k.cur), (k.tick + ticks) % TickMod)

-----------------------------------------------------------------------------
\* Waiting for an event.

vTaskPlaceOnEventList(k, l, ticks) ==
  DelayCurrentTask([k EXCEPT !.event[l] = vListInsert(@, k.cur, EventValue)], ticks)

\* Faulty variant: the switch is left to the caller.
RemoveUnnoted(k, l) ==
  LET t == Head(k.event[l])
      r == RemoveEventItem(k, t)
  IN  [k |-> IF k.susp = 0 THEN MakeReady(r, t)
             ELSE [r EXCEPT !.event["pending"] = Append(@, t)],
       yield |-> Prio[t] > Prio[k.cur]]

\* [k |-> the new state, yield |-> the woken task is above the running one].
xTaskRemoveFromEventList(k, l) ==
  LET t == Head(k.event[l])
      r == RemoveEventItem(k, t)
      w == IF k.susp = 0 THEN MakeReady(r, t)
           ELSE [r EXCEPT !.event["pending"] = Append(@, t)]
      above == Prio[t] > Prio[k.cur]
  IN  [k |-> [w EXCEPT !.yield = @ \/ above], yield |-> above]

\* vTaskSetTimeOutState.
vTaskSetTimeOutState(k) == [wraps |-> k.wraps, at |-> k.tick]

\* The wait has run out when the count wrapped and passed the entry time again,
\* or when the difference is not below the wait.  The difference of two 16-bit
\* counts is computed in int: after a wrap it is negative.
TimedOut(k, from, wait) ==
  \/ k.wraps # from.wraps /\ k.tick >= from.at
  \/ k.tick - from.at >= wait

\* [expired, and else the wait that is left and its new start].
xTaskCheckForTimeOut(k, from, wait) ==
  IF TimedOut(k, from, wait)
  THEN [expired |-> TRUE, wait |-> wait, from |-> from]
  ELSE [expired |-> FALSE, wait |-> (wait - (k.tick - from.at)) % TickMod,
        from |-> vTaskSetTimeOutState(k)]

-----------------------------------------------------------------------------
\* The end of vTaskSuspendAll ... xTaskResumeAll.

MovePending(k) ==
  FoldLeft(LAMBDA s, t : [MakeReady(RemoveEventItem(s, t), t)
                            EXCEPT !.yield = @ \/ Prio[t] >= Prio[k.cur]],
           k, k.event["pending"])

\* The ticks that came while the scheduler was suspended are counted now.
CountPended(k) ==
  LET tick(s, i) == LET r == xTaskIncrementTick(s)
                    IN  [r.k EXCEPT !.pended = @ - 1, !.yield = @ \/ r.switch]
  IN  FoldLeft(tick, k, [i \in 1..k.pended |-> i])

\* [k |-> the new state, yielded |-> xAlreadyYielded].
xTaskResumeAll(k) ==
  LET s1 == [k EXCEPT !.susp = @ - 1]
      s2 == IF s1.susp = 0 THEN CountPended(MovePending(s1)) ELSE s1
      due == s1.susp = 0 /\ s2.yield
  IN  [k |-> IF due THEN vTaskSwitchContext(s2) ELSE s2, yielded |-> due]
=============================================================================
