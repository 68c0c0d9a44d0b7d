------------------------------- MODULE Rtos -------------------------------
(***************************************************************************)
(* The FreeRTOS kernel as the tasks and interrupt handlers of an           *)
(* application meet it: RtosCalls' machinery, the calls of RtosQueue,      *)
(* RtosEvents and RtosTaskCalls, and the tick.                             *)
(***************************************************************************)
EXTENDS RtosQueue, RtosEvents, RtosTaskCalls

Labels == {"run", "try", "suspend", "lock", "timeout", "check", "place",
           "delay", "unlockTx", "unlockRx", "resume", "yield", "take", "taken", "bits",
           "bitsback", "begin", "create", "resettime", "isempty", "reap", "alone"}

TypeOK ==
  /\ program \in Programs
  /\ k.cur \in Task /\ k.top \in Prios /\ {k.tick, k.next} \subseteq 0..TickMod - 1
  /\ k.wraps \in 0..WrapMod - 1 /\ k.pended \in 0..program.held /\ k.yield \in BOOLEAN
  /\ q \in [n : 0..uxLength, rx : -1..127, tx : -1..127]
  /\ note \in [Task -> [val : 0..program.held, state : {"not", "waiting", "notified"}]]
  /\ group.bits \subseteq Bits /\ \A t \in Task : group.item[t].want \subseteq Bits
  /\ pc \in [Task -> Labels] /\ \A t \in Task : at[t].call \in Calls
  /\ freed \subseteq Task /\ left \in [Task -> 0..TickMod - 1]

Init ==
  /\ program \in Programs
  /\ k = xTaskGenericCreate(prvInitialiseTaskLists(program.created), program.created)
  /\ q = [n |-> 0, rx |-> queueUNLOCKED, tx |-> queueUNLOCKED]
  /\ note = [t \in Task |-> [val |-> 0, state |-> "not"]]
  /\ group = [bits |-> {}, item |-> [t \in Task |-> NotInUse]]
  /\ pc = [t \in Task |-> "run"] /\ at = [t \in Task |-> AtRest]
  /\ freed = {} /\ left = [t \in Task |-> 0]

\* The timer interrupt: port.c's vPortYieldFromTick.  The port has no way to
\* switch tasks at the end of any other interrupt.
Tick ==
  /\ k.susp = 0 \/ k.pended < program.held
  /\ LET r == xTaskIncrementTick(k) IN k' = Switched(r.k, r.switch)

Step(t) ==
  \/ /\ \/ BeginSuspended(t) \/ vTaskSuspendAll(t) \/ ResumeAll(t) \/ Yield(t)
        \/ vTaskDelay(t) \/ vTaskDelayZero(t) \/ vTaskDelayUntil(t)
        \/ vTaskDelete(t) \/ ResetTime(t) \/ CreateTask(t) \/ IdleYields(t)
     /\ UNCHANGED <<q, note, group, freed>>
  \/ /\ \/ xQueueGenericSend(t) \/ xQueueGenericReceive(t) \/ prvLockQueue(t)
        \/ CheckForTimeOut(t) \/ CheckQueue(t) \/ PlaceOnEventList(t) \/ prvUnlockQueue(t)
        \/ xQueueGenericReset(t)
     /\ UNCHANGED <<note, group, freed>>
  \/ /\ NotifyTakeOrWait(t) \/ NotifyTaken(t) \/ xTaskGenericNotify(t)
     /\ UNCHANGED <<q, group, freed>>
  \/ /\ \/ xEventGroupWaitBits(t) \/ xEventGroupSync(t) \/ SetBits(t)
        \/ xEventGroupClearBits(t) \/ WaitOver(t)
     /\ UNCHANGED <<q, note, freed>>
  \/ (xListIsEmpty(t) \/ ReapTask(t)) /\ UNCHANGED <<q, note, group>>

Interrupt ==
  /\ \/ Tick /\ UNCHANGED <<q, note>>
     \/ (xQueueGenericSendFromISR \/ xQueueReceiveFromISR) /\ UNCHANGED note
     \/ (\E u \in Task : vTaskNotifyGiveFromISR(u)) /\ UNCHANGED q
  /\ UNCHANGED <<group, pc, at, freed>>

\* History: how long a task that starts to sleep has to, and what is left of it.
Sleepers(s) == ToSet(s.delayed) \cup ToSet(s.overflow)
ToSleep(t) ==
  Max({1, IF at'[t].call.fn = "until" THEN (at'[t].previous - k.tick) % TickMod ELSE at'[t].wait})
CountDown ==
  left' = [t \in Task |->
             CASE t \in Sleepers(k) -> Max({0, left[t] - ((k'.tick - k.tick) % TickMod)})
               [] t \notin Sleepers(k) /\ t \in Sleepers(k') -> ToSleep(t)
               [] OTHER -> 0]

Next == (Step(k.cur) \/ Interrupt) /\ CountDown /\ UNCHANGED program

Spec == Init /\ [][Next]_vars

-----------------------------------------------------------------------------
\* Every task is in one list by its generic item and in one at most by its
\* event item, and a freed one in none; a task that waits for an event also
\* waits for the clock, so that no wake-up finds a task that has left, or leaves
\* one behind (vTaskDelete, xTaskIncrementTick, xTaskRemoveFromEventList).
Places(t, l) == {i \in DOMAIN l : l[i] = t}
Events(t) == {l \in DOMAIN k.event : t \in ToSet(k.event[l])}
ListsAgree ==
  \A t \in Task :
    /\ Cardinality(Places(t, k.ready[Prio[t]]))
         + Cardinality(Places(t, k.delayed \o k.overflow \o k.ended)) <= 1
    /\ Cardinality(Events(t)) <= 1
    /\ Events(t) \ {"pending"} # {} => t \in Sleepers(k)
    /\ listCURRENT_LIST_LENGTH(k.ready[Prio[t]]) > 0 => k.top >= Prio[t]
    /\ t \in freed => k.cur # t /\ ~Listed(t) /\ Events(t) = {}

\* While a task has suspended the scheduler it is the one that runs, and the
\* count is right although ++ and -- are not atomic.
Suspending == {"lock", "timeout", "check", "place", "delay", "unlockTx", "unlockRx",
               "resume", "isempty", "bits"}
SuspendExcludes ==
  /\ \A t \in Task : pc[t] \in Suspending => k.cur = t /\ k.susp = 1
  /\ k.susp # 0 => pc[k.cur] \in Suspending

\* The task that runs is of the highest priority, or the switch has been noted,
\* or the task will ask for it in its next step; but for a task that a handler
\* has notified, for which the kernel notes nothing.
HighestRuns ==
  k.susp = 0 /\ ~k.yield /\ pc[k.cur] # "yield" =>
    \A t \in Task : t \in ToSet(k.ready[Prio[t]]) =>
      Prio[t] <= Prio[k.cur] \/ (pc[t] = "taken" /\ "give" \in program.isr)

\* While the queue is unlocked, no task stays blocked on it for nothing: tasks
\* enough to take the messages there are have been woken, and to fill the room
\* there is (queue.c's counting of what handlers did while it was locked).
AwakeFor(fns, l) ==
  {t \in Task : /\ at[t].call.fn \in fns /\ t \notin ToSet(k.event[l])
                /\ \/ pc[t] = "try"
                   \/ pc[t] \in {"unlockRx", "resume", "yield"} /\ at[t].onward # "return"}
NoWaiterForgotten ==
  /\ (q.tx = queueUNLOCKED /\ k.event[toReceive] # <<>>)
       => q.n <= Cardinality(AwakeFor({"receive", "peek"}, toReceive))
  /\ (q.rx = queueUNLOCKED /\ k.event[toSend] # <<>>)
       => uxLength - q.n <= Cardinality(AwakeFor({"send"}, toSend))

\* A task sleeps exactly as long as it asked, counted in ticks, over the wrap of
\* the tick count and with ticks counted late: never longer ...
NoOversleep == \A t \in Sleepers(k) : left[t] > 0
\* ... and, unless an event woke it, never shorter.
NoEarlyWake ==
  [][\A t \in Sleepers(k) : (t \notin Sleepers(k') /\ k'.tick # k.tick /\ Events(t) # {"pending"})
        => left'[t] = 0]_vars

\* A notification finds its task: a task that sleeps in ulTaskNotifyTake or
\* xTaskNotifyWait has not been notified, unless it is to be made ready when the
\* scheduler resumes (vTaskNotifyGiveFromISR while the scheduler is suspended).
GiveWakes ==
  \A t \in Sleepers(k) : pc[t] = "taken" =>
    \/ Events(t) = {"pending"}
    \/ note[t].state = "waiting" /\ (at[t].call.fn = "take" => note[t].val = 0)

\* No task waits for bits that are there (the race of xEventGroupSetBits and a
\* wait that runs out, and of the test with the placing in the list).
NoBitsMissed ==
  k.susp = 0 =>
    \A t \in ToSet(k.event[forBits]) : ~prvTestWaitCondition(group.bits, group.item[t])

\* The bits that release one task release every task waiting for them: a
\* rendezvous lets all go, although each clears the bits on its way out.
ReleasedTogether ==
  [][\A t, u \in Task :
       (~group.item[t].unblocked /\ group'.item[t].unblocked /\ u \in ToSet(k.event[forBits])
          /\ prvTestWaitCondition(group'.item[t].by, group.item[u]))
         => u \notin ToSet(k'.event[forBits])]_vars
=============================================================================
