---------------------------- MODULE PortContext ----------------------------
(***************************************************************************)
(* How the FreeRTOS port leaves and resumes a task: vPortYield and         *)
(* vPortYieldFromTick (port.c), the entry of the timer interrupt and       *)
(* end_except (crt0.riscv.S), int_disable and int_enable (int.h).          *)
(*                                                                         *)
(* A task's code is a cycle of points <<task, n>>.  The stack is the       *)
(* sequence of the frames on it, outermost first; of an interrupt's frame  *)
(* it keeps the return address in it.  "scratch" tells whether the         *)
(* registers other than x1 and x2 hold what the task left in them.         *)
(* Which task goes on is vTaskSwitchContext's choice: any.                 *)
(***************************************************************************)
EXTENDS Integers, Sequences, SequencesExt

CONSTANTS
  Task, First,    \* the tasks, and the first to run
  Length,         \* points in the code of a task
  MaxFrames       \* bound: interrupt frames on a stack

VARIABLES
  cur,            \* pxCurrentTCB
  cpu,            \* [pc, ra, stack, scratch, mepc, mie, mpie]
  saved,          \* task -> what portSAVE_CONTEXT put on its stack
  stopped         \* history: the state a task is to be resumed in
vars == <<cur, cpu, saved, stopped>>

Point == Task \X (0..Length - 1)
endExcept == <<"end_except", 0>>
Succ(p) == <<p[1], (p[2] + 1) % Length>>
\* What counts of the processor's state for the task that runs.
TaskView(c) == [pc |-> c.pc, ra |-> c.ra, stack |-> c.stack, scratch |-> c.scratch, mie |-> c.mie]

\* A task that has never run starts at its code by either way.
pxPortInitialiseStack(t) ==
  [mepc |-> <<t, 0>>, ra |-> <<t, 0>>, stack |-> <<>>, scratch |-> TRUE]

\* int_disable writes mstatus twice: all of it becomes zero.
int_disable(c) == [c EXCEPT !.mie = FALSE, !.mpie = FALSE]
int_enable(c) == [c EXCEPT !.mie = TRUE]

portSAVE_CONTEXT(c) == [mepc |-> c.mepc, ra |-> c.ra, stack |-> c.stack, scratch |-> c.scratch]
portRESTORE_CONTEXT(c, s) ==
  [c EXCEPT !.mepc = s.mepc, !.ra = s.ra, !.stack = s.stack, !.scratch = s.scratch]

ret(c) == [c EXCEPT !.pc = c.ra]
mret(c) == [c EXCEPT !.pc = c.mepc, !.mie = c.mpie, !.mpie = TRUE]

\* xPortStartScheduler restores the first task and returns to it.
Init ==
  /\ cur = First
  /\ saved = [t \in Task |-> pxPortInitialiseStack(t)]
  /\ LET boot == [pc |-> <<First, 0>>, ra |-> <<First, 0>>, stack |-> <<>>, scratch |-> TRUE,
                  mepc |-> <<First, 0>>, mie |-> FALSE, mpie |-> FALSE]
     IN  cpu = ret(int_enable(portRESTORE_CONTEXT(boot, saved[First])))
  /\ stopped = [t \in Task |-> [pc |-> <<t, 0>>, ra |-> <<t, 0>>, stack |-> <<>>,
                                scratch |-> TRUE, mie |-> TRUE]]

\* The task that runs executes an instruction that is none of those below; what
\* it leaves in its registers is its own.
Instruction ==
  /\ cpu.pc \in Point
  /\ cpu' = [cpu EXCEPT !.pc = Succ(cpu.pc), !.scratch = TRUE]
  /\ stopped' = [stopped EXCEPT ![cur] = TaskView(cpu')]
  /\ UNCHANGED <<cur, saved>>

\* A call: it is to return behind the call with the stack as it was.  The
\* compiler expects no other register of it that matters here.
vPortYield ==
  /\ cpu.pc \in Point
  /\ LET called == [cpu EXCEPT !.ra = Succ(cpu.pc)]
         off    == int_disable(called)
     IN  /\ saved' = [saved EXCEPT ![cur] = portSAVE_CONTEXT(off)]
         /\ stopped' = [stopped EXCEPT ![cur] =
                          [TaskView(called) EXCEPT !.pc = called.ra, !.mie = TRUE]]
         /\ cur' \in Task
         /\ cpu' = ret(int_enable(portRESTORE_CONTEXT(off, saved'[cur'])))

\* The interrupt; ISR_TA_CMP_ASM, which stores x1 and the registers a call may
\* change in a frame of its own and uses x28 to x30; ISR_TA_CMP.  After the
\* restore, the code that clears the interrupt uses registers of the task.
vPortYieldFromTick ==
  /\ cpu.mie /\ Len(cpu.stack) < MaxFrames
  /\ LET taken   == [cpu EXCEPT !.mepc = cpu.pc, !.mpie = cpu.mie, !.mie = FALSE]
         entered == [taken EXCEPT !.stack = Append(@, cpu.ra), !.ra = endExcept, !.scratch = FALSE]
         off     == int_disable(entered)
     IN  /\ saved' = [saved EXCEPT ![cur] = portSAVE_CONTEXT(off)]
         /\ stopped' = IF cpu.pc \in Point THEN [stopped EXCEPT ![cur] = TaskView(cpu)] ELSE stopped
         /\ cur' \in Task
         /\ LET back == portRESTORE_CONTEXT(off, saved'[cur'])
            IN  cpu' = mret(int_enable([back EXCEPT !.scratch = FALSE]))

\* The end of an interrupt in crt0.riscv.S.
end_except ==
  /\ cpu.pc = endExcept /\ cpu.stack # <<>>
  /\ cpu' = mret([cpu EXCEPT !.ra = Last(cpu.stack), !.stack = Front(@), !.scratch = TRUE])
  /\ UNCHANGED <<cur, saved, stopped>>

Next == Instruction \/ vPortYield \/ vPortYieldFromTick \/ end_except

Spec == Init /\ [][Next]_vars

-----------------------------------------------------------------------------
\* "next time the stored task will resume from here" (port.c): a task that goes
\* on finds its place, its return address, its stack, its registers and the
\* interrupt enable as it left them, however it was left and is resumed.
ResumesAsItStopped == cpu.pc \in Point => TaskView(cpu) = stopped[cur]
=============================================================================
