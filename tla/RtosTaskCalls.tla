--------------------------- MODULE RtosTaskCalls --------------------------
(***************************************************************************)
(* The calls on tasks (tasks.c): delays, notifications, creation, deletion *)
(* and the idle task.                                                      *)
(***************************************************************************)
EXTENDS RtosCalls

\* Delays.

\* The body of vTaskDelay, scheduler suspended.
vTaskDelay(t) ==
  /\ pc[t] = "delay" /\ at[t].call.fn = "delay"
  /\ k' = DelayCurrentTask(k, at[t].wait)
  /\ Goto(t, "resume", [at[t] EXCEPT !.onward = "blocked"])

\* vTaskDelay of no ticks is a yield.
vTaskDelayZero(t) ==
  /\ \E c \in CallsNow(t) : c.fn = "yield" /\ Here(t, "yield", c)
  /\ k' = vTaskSwitchContext(k)
  /\ Leave(t)

\* Whether the time of vTaskDelayUntil is still to come, both counts having
\* wrapped or not.
ShouldDelay(previous, time) ==
  IF k.tick < previous THEN time < previous /\ time > k.tick
  ELSE time < previous \/ time > k.tick

vTaskDelayUntil(t) ==
  /\ pc[t] = "delay" /\ at[t].call.fn = "until"
  /\ LET previous == at[t].previous
         time == (previous + at[t].wait) % TickMod
     IN  /\ IF ShouldDelay(previous, time)
            THEN k' = prvAddCurrentTaskToDelayedList(RemoveGenericItem(k, t), time)
            ELSE UNCHANGED k
         /\ Goto(t, "resume", [at[t] EXCEPT !.onward = "blocked", !.previous = time])

-----------------------------------------------------------------------------
\* Notifications.

\* A notification that has not been taken: for ulTaskNotifyTake it is counted,
\* for xTaskNotifyWait the state tells.
NotificationHeld(t, fn) ==
  IF fn = "take" THEN note[t].val # 0 ELSE note[t].state = "notified"

\* The first critical section of ulTaskNotifyTake and of xTaskNotifyWait; it
\* yields inside.
NotifyTakeOrWait(t) ==
  \E c \in CallsNow(t) :
    /\ c.fn \in {"take", "notifywait"} /\ Here(t, "take", c)
    /\ IF NotificationHeld(t, c.fn) THEN UNCHANGED <<k, note>>
       ELSE /\ note' = [note EXCEPT ![t].state = "waiting"]
            /\ k' = IF c.wait > 0 THEN vTaskSwitchContext(DelayCurrentTask(k, c.wait)) ELSE k
    /\ Goto(t, "taken", Locals(t, c))

\* The second one: a count is decremented; the bits of a notification that came
\* are cleared, those of one that did not are left.
NotifyTaken(t) ==
  /\ pc[t] = "taken"
  /\ LET val == IF at[t].call.fn = "take" THEN Max({note[t].val - 1, 0})
                ELSE IF note[t].state = "waiting" THEN note[t].val ELSE 0
     IN  note' = [note EXCEPT ![t] = [val |-> val, state |-> "not"]]
  /\ Leave(t) /\ UNCHANGED k

\* Every eAction sets the state; of the values the model keeps eIncrement's.
Notified(u) == [note EXCEPT ![u] = [val |-> @.val + 1, state |-> "notified"]]

\* xTaskGenericNotify by a task.
xTaskGenericNotify(t) ==
  \E c \in CallsNow(t) :
    /\ c.fn = "give" /\ Here(t, "give", c) /\ Alive(c.to)
    /\ note[c.to].val < program.held
    /\ note' = Notified(c.to)
    /\ k' = IF note[c.to].state = "waiting"
            THEN Switched(MakeReady(k, c.to), Prio[c.to] > Prio[k.cur]) ELSE k
    /\ Leave(t)

\* Faulty variant: nothing is done while the scheduler is suspended.
GiveUnlessSuspended(u) ==
  IF note[u].state = "waiting" /\ k.susp = 0 THEN MakeReady(k, u) ELSE k

\* vTaskNotifyGiveFromISR tells the handler of a task above the current one but
\* does not set xYieldPending.
GiveTo(u) ==
  IF note[u].state # "waiting" THEN k
  ELSE IF k.susp = 0 THEN MakeReady(k, u)
  ELSE [k EXCEPT !.event["pending"] = Append(@, u)]

vTaskNotifyGiveFromISR(u) ==
  /\ "give" \in program.isr /\ Alive(u) /\ note[u].val < program.held
  /\ \E c \in program.calls[u] : c.fn \in {"take", "notifywait"}
  /\ note' = Notified(u)
  /\ k' = GiveTo(u)

-----------------------------------------------------------------------------
\* Creation and deletion.

\* Faulty variant: its event item stays.
LeaveGenericList(u) == [RemoveGenericItem(k, u) EXCEPT !.ended = Append(@, u)]

\* A deleted task leaves the lists of both its items.
LeaveLists(u) == [RemoveEventItem(RemoveGenericItem(k, u), u) EXCEPT !.ended = Append(@, u)]

\* vTaskDelete: the critical section, with the tasks of other callers known by
\* their handles.  A task is deleted once.
vTaskDelete(t) ==
  \E c \in CallsNow(t) :
    /\ c.fn = "delete" /\ Here(t, "delete", c) /\ Alive(c.to)
    /\ k' = LeaveLists(c.to)
    /\ Goto(t, IF c.to = t THEN "yield" ELSE "resettime", Locals(t, c))

\* Deleting another task: its wake-up time may have been the next one.
ResetTime(t) ==
  /\ pc[t] = "resettime"
  /\ k' = prvResetNextTaskUnblockTime(k)
  /\ Leave(t)

\* xTaskGenericCreate while the scheduler runs: its critical section, after both
\* allocations; the yield comes after it.
CreateTask(t) ==
  LET u == at[t].call.to IN
    /\ pc[t] = "create" /\ New(u)
    /\ k' = prvAddTaskToReadyList(k, u)
    /\ IF Prio[u] > Prio[t] THEN Goto(t, "yield", at[t]) ELSE Leave(t)

\* prvCheckTasksWaitingTermination, called by the idle task in a loop.
xListIsEmpty(t) ==
  /\ pc[t] = "isempty"
  /\ Goto(t, "resume", [at[t] EXCEPT !.onward = IF k.ended = <<>> THEN "return" ELSE "reap"])
  /\ UNCHANGED <<k, freed>>

\* Its critical section and prvDeleteTCB.
ReapTask(t) ==
  /\ pc[t] = "reap"
  /\ k' = [k EXCEPT !.ended = Tail(@)]
  /\ freed' = freed \cup {Head(k.ended)}
  /\ Leave(t)

\* prvIdleTask gives way to the other tasks of its priority: the length of the
\* list is read before the yield.
IdleYields(t) ==
  /\ t = Idle /\ k.cur = t
  /\ \/ /\ pc[t] = "run" /\ k.ended = <<>>
        /\ listCURRENT_LIST_LENGTH(k.ready[tskIDLE_PRIORITY]) > 1
        /\ Goto(t, "alone", at[t]) /\ UNCHANGED k
     \/ pc[t] = "alone" /\ k' = vTaskSwitchContext(k) /\ Leave(t)
=============================================================================
