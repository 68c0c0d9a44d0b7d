----------------------------- MODULE RtosQueue ----------------------------
(***************************************************************************)
(* The calls on a queue or semaphore (queue.c), as a task and as an        *)
(* interrupt handler makes them.                                           *)
(***************************************************************************)
EXTENDS RtosCalls

queueUNLOCKED == -1
queueLOCKED_UNMODIFIED == 0

\* The yield inside a critical section when a woken task is above the caller.
Wake(l) ==
  IF k.event[l] = <<>> THEN k
  ELSE LET r == xTaskRemoveFromEventList(k, l) IN Switched(r.k, r.yield)

Refused(t, c) ==
  /\ UNCHANGED <<k, q>>
  /\ IF Locals(t, c).wait = 0 THEN Leave(t)
     ELSE ReadAndSuspend(t,
            IF Locals(t, c).set THEN at[t]
            ELSE [Locals(t, c) EXCEPT !.set = TRUE, !.from = vTaskSetTimeOutState(k)])

\* Faulty variant: overwriting counts as sending.
CountEach(n) == n + 1

\* The number of messages after one is copied in: a full queue has been overwritten.
prvCopyDataToQueue(n) == Min({n + 1, uxLength})

\* The critical section at the head of the loop of xQueueGenericSend.
xQueueGenericSend(t) ==
  \E c \in CallsNow(t) :
    /\ c.fn \in {"send", "overwrite"} /\ Here(t, "try", c)
    /\ \/ /\ q.n < uxLength \/ c.fn = "overwrite"
          /\ q' = [q EXCEPT !.n = prvCopyDataToQueue(@)]
          /\ k' = Wake(toReceive)
          /\ Leave(t)
       \/ q.n = uxLength /\ c.fn = "send" /\ Refused(t, c)

\* The critical section at the head of the loop of xQueueGenericReceive.
xQueueGenericReceive(t) ==
  \E c \in CallsNow(t) :
    /\ c.fn \in {"receive", "peek"} /\ Here(t, "try", c)
    /\ \/ /\ q.n > 0 /\ c.fn = "receive"
          /\ q' = [q EXCEPT !.n = @ - 1]
          /\ k' = Wake(toSend)
          /\ Leave(t)
       \/ /\ q.n > 0 /\ c.fn = "peek"
          /\ k' = Wake(toReceive)
          /\ Leave(t) /\ UNCHANGED q
       \/ q.n = 0 /\ Refused(t, c)

prvLockQueue(t) ==
  /\ pc[t] = "lock"
  /\ LET lock(l) == IF l = queueUNLOCKED THEN queueLOCKED_UNMODIFIED ELSE l
     IN  q' = [q EXCEPT !.rx = lock(@), !.tx = lock(@)]
  /\ Goto(t, "timeout", at[t])
  /\ UNCHANGED k

CheckForTimeOut(t) ==
  /\ pc[t] = "timeout"
  /\ LET r == xTaskCheckForTimeOut(k, at[t].from, at[t].wait) IN
     IF r.expired THEN Goto(t, "unlockTx", [at[t] EXCEPT !.onward = "return"])
     ELSE Goto(t, "check", [at[t] EXCEPT !.wait = r.wait, !.from = r.from])
  /\ UNCHANGED <<k, q>>

\* prvIsQueueFull and prvIsQueueEmpty.
CheckQueue(t) ==
  /\ pc[t] = "check"
  /\ LET still == q.n = IF at[t].call.fn = "send" THEN uxLength ELSE 0 IN
     IF still THEN Goto(t, "place", at[t])
     ELSE Goto(t, "unlockTx", [at[t] EXCEPT !.onward = "try"])
  /\ UNCHANGED <<k, q>>

\* The queue is locked and the scheduler suspended: no interrupt touches the
\* lists this step changes.
PlaceOnEventList(t) ==
  /\ pc[t] = "place"
  /\ k' = vTaskPlaceOnEventList(k, IF at[t].call.fn = "send" THEN toSend ELSE toReceive,
                                at[t].wait)
  /\ Goto(t, "unlockTx", [at[t] EXCEPT !.onward = "blocked"])
  /\ UNCHANGED q

\* One waiting task is woken for each item counted while the queue was locked.
\* xTaskRemoveFromEventList has set xYieldPending; vTaskMissedYield sets it again.
WakeCounted(l, count) ==
  FoldLeft(LAMBDA s, i : IF s.event[l] = <<>> THEN s ELSE xTaskRemoveFromEventList(s, l).k,
           k, [i \in 1..count |-> i])

prvUnlockQueue(t) ==
  /\ k.cur = t
  /\ \/ /\ pc[t] = "unlockTx"
        /\ k' = WakeCounted(toReceive, q.tx)
        /\ q' = [q EXCEPT !.tx = queueUNLOCKED]
        /\ Goto(t, "unlockRx", at[t])
     \/ /\ pc[t] = "unlockRx"
        /\ k' = WakeCounted(toSend, q.rx)
        /\ q' = [q EXCEPT !.rx = queueUNLOCKED]
        /\ Goto(t, "resume", at[t])

xQueueGenericReset(t) ==
  \E c \in CallsNow(t) :
    /\ c.fn = "reset" /\ Here(t, "reset", c)
    /\ q' = [n |-> 0, rx |-> queueUNLOCKED, tx |-> queueUNLOCKED]
    /\ k' = Wake(toSend)
    /\ Leave(t)

-----------------------------------------------------------------------------
\* The calls of interrupt handlers.

\* What a handler does for the waiting tasks: wakes one, or counts if locked.
WakeOrCount(l, lock) ==
  IF lock # queueUNLOCKED THEN UNCHANGED k
  ELSE k' = IF k.event[l] = <<>> THEN k ELSE xTaskRemoveFromEventList(k, l).k

\* Faulty variant: not counted.
NotCounted(lock) == lock

Counted(lock) == IF lock = queueUNLOCKED THEN lock ELSE lock + 1

xQueueGenericSendFromISR ==
  /\ "send" \in program.isr /\ q.n < uxLength /\ q.tx < program.held
  /\ WakeOrCount(toReceive, q.tx)
  /\ q' = [q EXCEPT !.n = prvCopyDataToQueue(@), !.tx = Counted(@)]

xQueueReceiveFromISR ==
  /\ "receive" \in program.isr /\ q.n > 0 /\ q.rx < program.held
  /\ WakeOrCount(toSend, q.rx)
  /\ q' = [q EXCEPT !.n = @ - 1, !.rx = Counted(@)]
=============================================================================
