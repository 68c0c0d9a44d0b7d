---------------------------- MODULE RtosCalls ----------------------------
(***************************************************************************)
(* Tasks and interrupts that call the FreeRTOS kernel: the state, and what *)
(* all calls share.                                                        *)
(*                                                                         *)
(* A step is what runs with interrupts disabled, or what touches nothing   *)
(* an interrupt may touch; between two steps a tick or another interrupt   *)
(* may come, and a tick may switch to another task.  Only the current task *)
(* steps.  What the port does to resume a task is PortContext's subject.   *)
(*                                                                         *)
(* A program is chosen in Init and kept: which calls each task makes, in   *)
(* any order and any number, and which calls interrupt handlers make.      *)
(***************************************************************************)
EXTENDS RtosTasks

CONSTANTS
  Programs,       \* [calls: task -> set of calls, isr: set of handler calls,
                  \*  created: the tasks in the order of their creation,
                  \*  held: bound on the ticks and handler calls that come
                  \*        while the scheduler is suspended]
  uxLength,       \* length of the queue
  Bits            \* the bits of the event group

VARIABLES
  program,
  k,              \* the scheduler
  q,              \* [n |-> uxMessagesWaiting, rx |-> xRxLock, tx |-> xTxLock]
  note,           \* task -> [val |-> ulNotifiedValue, state |-> eNotifyState]
  group,          \* [bits |-> uxEventBits, item |-> task -> value of xEventListItem
                  \*  while it is the bits and options of an event-group call]
  pc, at,         \* where each task is, and the locals of its call
  freed,          \* tasks whose TCB has been freed
  left            \* history: ticks a sleeping task has still to sleep
vars == <<program, k, q, note, group, pc, at, freed, left>>

toSend == "xTasksWaitingToSend"
toReceive == "xTasksWaitingToReceive"
forBits == "xTasksWaitingForBits"
\* What is held is counted in 8 bits (uxPendedTicks, the locks of the queue), the
\* tick count has 16: the ticks of a suspension do not go round it.
ASSUME CallsAssumption ==
  /\ EventList = {toSend, toReceive, forBits} /\ uxLength \in 1..127
  /\ \A p \in Programs :
       p.held \in 1..127 /\ p.held < TickMod /\ Idle \in ToSet(p.created)

None == [fn |-> "none", wait |-> 0]
Calls == {None} \cup UNION {UNION {p.calls[t] : t \in Task} : p \in Programs}
NoTime == [wraps |-> 0, at |-> 0]
\* call, xTicksToWait, xTimeOut, whether it is set, the scheduler-lock count
\* read by ++, the way on after xTaskResumeAll, and pxPreviousWakeTime.
AtRest == [call |-> None, wait |-> 0, from |-> NoTime, set |-> FALSE, read |-> 0,
           onward |-> "return", previous |-> 0]

-----------------------------------------------------------------------------
\* Where a task is.

\* The step of a call that comes first.
First == [send |-> "try", overwrite |-> "try", receive |-> "try", peek |-> "try",
          reset |-> "reset", delay |-> "begin", until |-> "begin", take |-> "take",
          notifywait |-> "take", give |-> "give", delete |-> "delete", create |-> "begin",
          waitbits |-> "begin", sync |-> "begin", setbits |-> "begin",
          clearbits |-> "clearbits", yield |-> "yield", exclusive |-> "begin", idle |-> "begin"]

\* The handles an application may pass are of tasks, waits are tick counts, and the
\* idle task makes no call of its own: it must never block, and is not deleted.
\* A rendezvous always waits for all its bits and clears them.  A created task is
\* a new one, so a task has one creator.
ASSUME ProgramsAssumption ==
  \A p \in Programs :
    /\ p.created \in Seq(Task) /\ IsInjective(p.created)
    /\ \A t, u \in Task : \A c \in p.calls[t], d \in p.calls[u] :
         (c.fn = "create" /\ d.fn = "create" /\ c.to = d.to) => t = u
    /\ \A t \in Task : \A c \in p.calls[t] :
         /\ c.fn \in DOMAIN First /\ c.wait \in 0..portMAX_DELAY
         /\ c.fn \in {"delay", "until"} => c.wait > 0
         /\ c.fn = "idle" <=> t = Idle
         /\ c.fn \in {"give", "delete", "create"} => c.to \in Task
         /\ c.fn = "delete" => c.to # Idle
         /\ c.fn \in {"sync", "setbits", "clearbits"} => c.set \subseteq Bits
         /\ c.fn \in {"waitbits", "sync"} =>
              c.want \subseteq Bits /\ {c.all, c.clear} \subseteq BOOLEAN
         /\ c.fn = "sync" => c.all /\ c.clear

\* The call task t is in, or those it may make now.
CallsNow(t) == IF pc[t] = "run" THEN program.calls[t] ELSE {at[t].call}

\* The next step of task t, which runs, is step l of call c: it has come there,
\* or it makes the call now.
Here(t, l, c) == pc[t] = l \/ (pc[t] = "run" /\ First[c.fn] = l)

\* The locals at the start of a call, and later.
Locals(t, c) ==
  IF pc[t] = "run" THEN [at[t] EXCEPT !.call = c, !.wait = c.wait] ELSE at[t]

\* pxPreviousWakeTime outlives the call.
Leave(t) ==
  /\ pc' = [pc EXCEPT ![t] = "run"]
  /\ at' = [at EXCEPT ![t] = [AtRest EXCEPT !.previous = at[t].previous]]

Goto(t, l, locals) == pc' = [pc EXCEPT ![t] = l] /\ at' = [at EXCEPT ![t] = locals]

Switched(r, always) == IF always THEN vTaskSwitchContext(r) ELSE r

\* A task that has been created and not yet freed; one that may still be named.
Listed(u) == \/ u \in ToSet(k.ended) \cup ToSet(k.delayed) \cup ToSet(k.overflow)
             \/ u \in ToSet(k.ready[Prio[u]])
Alive(u) == Listed(u) /\ u \notin ToSet(k.ended)

\* A task yet to be created.
New(u) == ~Listed(u) /\ u \notin freed

Waits(fn) == fn \in {"send", "receive", "peek"}

\* What a task does when it runs again after it was blocked.
GoOn(t) ==
  LET fn == at[t].call.fn IN
  CASE Waits(fn) -> Goto(t, "try", at[t])
    [] fn \in {"waitbits", "sync"} -> Goto(t, "bitsback", at[t])
    [] OTHER -> Leave(t)

-----------------------------------------------------------------------------
\* vTaskSuspendAll: ++uxSchedulerSuspended is a read and a write.  The read is
\* part of the step before, which leaves a critical section or begins a call.
ReadAndSuspend(t, locals) == Goto(t, "suspend", [locals EXCEPT !.read = k.susp])

\* Where xTaskGenericCreate goes after a pvPortMalloc: the first is for the stack,
\* the second for the TCB.
Allocated(onward) == IF onward = "begin" THEN "create" ELSE "begin"

vTaskSuspendAll(t) ==
  /\ pc[t] = "suspend"
  /\ k' = [k EXCEPT !.susp = at[t].read + 1]
  /\ LET fn == at[t].call.fn IN
     Goto(t, CASE Waits(fn) -> "lock"
               [] fn \in {"delay", "until"} -> "delay"
               [] fn \in {"waitbits", "sync", "setbits"} -> "bits"
               [] fn = "idle" -> "isempty"
               [] fn \in {"exclusive", "create"} -> "resume",
          [at[t] EXCEPT !.read = 0, !.onward = IF fn = "create" THEN Allocated(@) ELSE @])

\* The calls that begin with vTaskSuspendAll; for xTaskGenericCreate that is each
\* of its two pvPortMalloc.
BeginSuspended(t) ==
  /\ \E c \in CallsNow(t) :
       /\ Here(t, "begin", c)
       /\ c.fn = "idle" => k.ended # <<>>
       /\ c.fn = "create" => New(c.to)
       /\ ReadAndSuspend(t, Locals(t, c))
  /\ UNCHANGED k

\* xTaskResumeAll, with what its caller does next: pvPortMalloc may have found the
\* heap used up, and then no task is created.
ResumeAll(t) ==
  /\ pc[t] = "resume"
  /\ LET r == xTaskResumeAll(k) IN
     /\ k' = r.k
     /\ CASE at[t].onward = "blocked" /\ ~r.yielded -> Goto(t, "yield", at[t])
          [] at[t].onward = "blocked" /\ r.yielded -> GoOn(t)
          [] at[t].onward \in {"try", "reap"} -> Goto(t, at[t].onward, at[t])
          [] at[t].onward \in {"begin", "create"} -> Goto(t, at[t].onward, at[t]) \/ Leave(t)
          [] at[t].onward = "return" -> Leave(t)

\* portYIELD_WITHIN_API, outside any critical section.
Yield(t) ==
  /\ pc[t] = "yield"
  /\ k' = vTaskSwitchContext(k)
  /\ GoOn(t)
=============================================================================
