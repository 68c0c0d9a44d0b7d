# TLA+ models of PULPino

PULPino is a single-core microcontroller: a RISC-V core (RI5CY), two memories,
an AXI/APB interconnect and a set of peripherals, with the software that runs on
it: system and Arduino libraries and a port of FreeRTOS. This directory models
the parts of it whose correctness rests on *when* things happen. In hardware:
the control of the core, the event unit that puts it to sleep and wakes it, the
path between the two, and the FIFO that crosses clocks. In software: the FreeRTOS
kernel, its software timers, what its port does to leave and resume a task, and
the interrupt-driven I2C driver. All definitions are translated from the sources;
`PROJECT.json` gives, for each definition, the file and the lines.

## 1. The system

| Part | State | Operations | Talks to |
|---|---|---|---|
| Controller (`riscv_controller.sv`) | an FSM of 19 states, `boot_done_q`, `jump_done_q` | one transition per clock: boot, decode, flush, interrupt entry, sleep, debug | all pipeline stages (halt, valid, ready), interrupt controller, debug unit, CSRs |
| Interrupt controller (`riscv_int_controller.sv`) | IDLE / PENDING / DONE, latched number | latch, acknowledge, kill | event unit (line and number), controller, mstatus |
| Debug unit (`riscv_debug_unit.sv`) | RUNNING / HALT_REQ / HALT, settings, jump request, PC tracking | debugger writes and reads, trap, acknowledge | debug bus, controller, CSRs, registers |
| Pipeline (`riscv_if_stage`, `id_stage`, `ex_stage`, `load_store_unit`) | IF/ID and ID/EX registers, outstanding data access | fetch, decode, execute, redirect, stall | prefetcher, data bus |
| CSRs (`riscv_cs_registers.sv`) | mstatus, mepc, mcause, counters | CSR instruction, save, restore, debugger | controller, debug unit |
| Prefetch buffer, fetch FIFO | outstanding requests, FIFO | request, redirect, hardware loop | instruction memory |
| Event unit (`apb_event_unit`) | enable, pending, set and clear registers for interrupts and events; sleep FSM | latch lines, APB writes, sleep, wake | peripherals, core clock gate, fetch enable |
| core2axi, axi2apb | one FSM each, channel buffers | one access at a time | core, interconnect, peripherals |
| AXI node, memory interfaces, RAM multiplexers | arbiters, burst counters | route and arbitrate | everything on AXI |
| Dual-clock FIFO (`axi_slice_dc/dc_*.v`) | token rings, buffer, synchronizers | write edge, read edge | two unrelated clocks (SPI slave) |
| I2C master (`apb_i2c`) and its driver (`twi.c`, `Wire.cpp`) | command register, byte engine, interrupt flag; `twi_state`, indices, error | start, next byte, stop, handler | bus, event unit, the sketch that waits |
| FreeRTOS kernel (`tasks.c`, `list.c`, `queue.c`, `event_groups.c`) | ready, delayed, pending and waiting lists, tick count, suspension count, queue locks, event bits | calls of tasks and handlers, the tick | port, applications |
| FreeRTOS timers (`timers.c`) | two lists of active timers, command queue | service task, commands | kernel |
| FreeRTOS port (`port.c`, `crt0.riscv.S`) | a context and interrupt frames on each task's stack, mepc, mstatus | yield, tick interrupt, start | kernel, interrupt entry and exit |
| Timer, UART, SPI, GPIO, SoC control | registers, FIFOs, bit engines | APB accesses, pins | event unit lines |
| Advanced debug interface | JTAG TAP, bus modules | scan, AXI access, CPU control | debug unit, AXI |
| Other software (`sys_lib`, Arduino core libraries, tests) | global variables shared with handlers | sleep idiom, time functions, serial buffers | all of the above |

The behaviours that are hard here: several units decide in the same clock cycle
from registers the others are changing; a request is latched in one cycle and
used many cycles later; a store takes an unknown time to reach the register it
writes; the clock of one part is stopped by another according to a busy signal
that is a cycle old; a debugger acts at any moment; two clocks sample each
other's moving signals. In the software, the tick and other interrupts come
between any two steps that are not a critical section, tick counts of 16 bits
wrap, and a task and a handler share variables without a lock. What would make
each part correct:

- **Core control.** Exactly the instructions the program reaches take effect,
  none is lost at an interrupt, a flush or a halt; a handler starts only for a
  held request with interrupts enabled, and once per request; the debugger and
  the controller agree about who owns the core; every request is answered.
- **Event unit.** No line, trigger or acknowledge is lost or invented; an event
  ends sleep, and for good; the clock is gated only when the core is at rest.
- **Sleep as a whole.** A program that sleeps until something happens does not
  miss it, at whatever cycle it happens.
- **FIFOs.** A bounded queue: nothing lost, repeated, reordered or overwritten,
  and it neither blocks nor starves.
- **Kernel.** Its lists agree with each other; the highest ready task runs; no
  task waits for what is already there, wakes early or sleeps too long, over the
  wrap of the tick count and with the scheduler suspended.
- **Timers.** No callback early, none missed, an auto-reload timer goes on.
- **Port.** A task goes on in the state in which it was left.
- **I2C driver.** A transfer reports what happened on the wire, and returns.

`PROJECT.json` lists the hazards behind these, each at the line where it bites.

## 2. Modules

| Module | Models | Depends on |
|---|---|---|
| `ServiceUnit` | `generic_service_unit.sv`: one latch of the event unit | |
| `SleepUnit` | `sleep_unit.sv` | |
| `EventUnit` | `apb_event_unit.sv`: two latches, the sleep unit, the APB write port | INSTANCEs of both |
| `EventUnitProofs` | theorems about `EventUnit` | `EventUnit` |
| `RiscyCore` | controller, interrupt controller, debug unit, mstatus, pipeline handshakes | |
| `RiscyCoreProofs` | theorems about `RiscyCore` | `RiscyCore` |
| `WakeUp` | the core, the event unit, the clock gate, the store path and a program, composed | INSTANCEs of `RiscyCore`, `EventUnit` |
| `WakeUpProofs` | theorems about `WakeUp` | `WakeUp` |
| `Fifo` | abstract specification: a bounded queue | |
| `DcFifo` | the dual-clock FIFO; implements `Fifo` | INSTANCE of `Fifo` |
| `DcFifoProofs` | theorems about `DcFifo`, and that it implements `Fifo` | `DcFifo` |
| `FoldFacts` | what a loop over a list (a fold) computes: the rule the kernel's proofs instantiate | |
| `RtosLists` | `list.c`: lists as sequences | |
| `RtosTasks` | the scheduler of `tasks.c` as operators on its state | `RtosLists` |
| `RtosCalls` | the state of tasks in calls, and what all calls share | `RtosTasks` |
| `RtosQueue`, `RtosEvents`, `RtosTaskCalls` | the calls of `queue.c`, `event_groups.c`, `tasks.c`, step by step | `RtosCalls` |
| `Rtos` | the kernel: all calls, handlers and the tick; the properties | the three above |
| `RtosProofs` | theorems about the kernel: its invariant, and its arithmetic on tick counts | `Rtos`, INSTANCEs of `FoldFacts` |
| `Timers` | `timers.c`: the service task, its lists and commands | `RtosLists` |
| `TimersProofs` | theorems: where every timer is and when it is due; where a started one goes | `Timers`, `FoldFacts` |
| `PortContext` | `port.c` with the interrupt entry and exit of `crt0.riscv.S` | |
| `Twi` | `twi.c` as `Wire.cpp` calls it, on `apb_i2c` | |
| `TwiProofs` | theorems about `Twi` | `Twi` |
| `MC*` | values of the constants for TLC | |

Definitions named as "Faulty variant" in a comment are not part of the models.
Each is the form a definition would have after a plausible mistake in the code
and is there to show that a property notices it.

### RiscyCore

One step is one rising edge of the core's clock. Every action is one state of the
controller FSM, or one branch of the `case` inside DECODE, and carries the name of
that state. It names the outputs the controller drives in that state (a set:
`halt_if`, `halt_id`, `pc_set`, `save`, ...), and `Edge(inp, o)` clocks the rest of
the core with these outputs: the pipeline registers (`Stages`), the interrupt
controller (`IntController`), the interrupt-enable bits (`Mstatus`) and the debug unit
(`DebugUnit`). A write of mstatus sets MIE and MPIE; what a CSR instruction leaves in
MPIE is open, and the debugger writes the next PC and mstatus only while the core is
halted (`DebugBus`). Combinational wires are operators of the same name as in the code
(`id_ready`, `ex_valid`, `load_stall`, `jr_stall`, `dbg_req`, ...).

Data is left out: an instruction is a class (`alu`, `div`, `load`, `store`,
`elw`, taken and untaken branch, `jal`, `jalr`, writes of mstatus that enable or
disable interrupts, `ecall`, `illegal`, `mret`, `wfi`, `ebreak`), and whether it
reads the result of an older load or ALU instruction is chosen when it is
fetched. `inp` is what the surroundings do in the cycle: the instruction offered
(or none), grant and response of the data bus, the divider's ready, fetch
enable, interrupt line and number, and a debugger's write. `Possible(inp)` says
what they can do (a response only for an outstanding access, a grant only for a
request, as the assertions at the end of `riscv_load_store_unit.sv` demand).
`SlowData` distinguishes the data RAM, which answers in the cycle after the
grant, from AXI, which may answer at any later time.

Three history variables record what the hardware does not know. `path` is
"wrong" from the moment an instruction that will redirect the fetch has been
fetched until it does; instructions fetched meanwhile carry the tag `wrong`.
`owed` is an instruction of the program that left ID without being executed,
until the controller executes it (FLUSH_WB) or saves it as return address.
`stepped` counts the instructions since a resume with single-step on. None of
them is read by an action.

It is the configuration of pulpino: `PULP_SECURE = 0`, `FPU = 0`, machine mode
only, no APU, `debug_halt_i` and `debug_resume_i` tied to 0 (`core_region.sv`).

Two abstractions to keep in mind. An instruction that is no longer valid still
feeds the stall logic in the hardware; outside ELW_EXE this can only delay the
next fetch, which is one of the choices of the environment, and in ELW_EXE (an
event load that overwrites its own address register) it is a choice of the
action. And a division that was killed leaves its operator in the ID/EX register
and may keep the ALU busy in a bubble: `aluReady` may be FALSE there too.

### EventUnit, ServiceUnit, SleepUnit

One step is one edge of HCLK and clocks all three units. A register is the set
of lines whose bit is 1; the one-hot choice of a pending line is an operator
(the lowest number wins, as in the code; the name `Highest` is the code's). The
APB bridge holds PSEL high and performs a write in one cycle, so a write is two
steps of `EventUnit`: `BusRequest` (address and data are in the bridge's buffers)
and `BusAccess`. Reads change nothing and are part of `BusIdle`. Lines, core
activity and the fetch-enable pin are free in every cycle. HCLK could be gated by
software through the SoC control register; the model assumes it is not.

### WakeUp

The composition. `RiscyCore` and `EventUnit` are INSTANCEd with their own variables;
`Cycle` conjoins a cycle of the core (or its clock being gated, `CoreGated`) with a
clock of the event unit, a step of the store path (`Bus`) and the history (`News`).
Programs are functions from addresses to instructions; the program counters of the
stages and mepc are added so that interrupts return to the right place. `image`, the
program in memory, is chosen in the initial state. The two programs are the sleep
idiom of `sys_lib` (`utils.h:65-68`) as used by `testEvents.c` and
`imperio_tests/testInterrupt`:

- `EventLoop`: enable the line as event and as interrupt, enable interrupts,
  then for ever: ask for sleep, `wfi`, clear the event, do the work. The handler
  clears the interrupt.
- `IrqOnly`: only the interrupt is enabled; the handler clears it and triggers
  the event by software (a write of SET_PENDING), as `ISR_TA_CMP` does.

### Fifo, DcFifo

`Fifo` is what every FIFO promises. `DcFifo` has an action per clock. A token is
two adjacent bits, so it is represented by a position; the masks of the code
become positions relative to it. What crosses the clocks is sampled while it
may be moving: immediately after a step that moved a token, the sampled bits
that differ between old and new may each have either value, and the output of
the full detector, a gate fed by changing bits, may glitch. This is more than
two-valued simulation shows. The refinement mapping takes `Contents`, the slots
from the read pointer to the write pointer, as the queue; its capacity is one
less than the number of slots.

### Rtos and the modules it is built from

`k` is the scheduler's state, a record with a field for each variable of
`tasks.c` (the table is in the head of `RtosTasks`); what runs with interrupts
disabled is an operator on it. A list is a sequence of the tasks whose items are
in it; a ready list also holds its end marker and ends with the item `pxIndex`
points at. Item values that decide an order (wake-up times, priorities) are
kept, those that mean nothing where the item is are cleared.

`pc[t]` is where task `t` is in a call and `at[t]` the locals of the call. One
step is a critical section, or code that touches nothing an interrupt may touch;
between two steps a tick or a handler may come, and the tick may switch. So
`xQueueGenericSend` is: try in a critical section; suspend the scheduler (read the
counter, write it back: `++uxSchedulerSuspended` is not atomic); lock the queue;
check the time-out; check the queue; join the waiting list; unlock each side;
resume the scheduler; yield; and round again. `xTaskResumeAll`, in one critical
section, moves the pended tasks, counts the pended ticks and notes the yield.
Handlers send, receive and notify. The port has no switch at the end of a handler
other than the tick's, so a handler only notes that a yield is wanted.

`xTaskGenericCreate` allocates the stack and then the TCB. Each `pvPortMalloc` of
`heap_1.c` suspends the scheduler and resumes it, so that ticks and switches come
between (`begin`, and `create` for the critical section after both); either may find
the heap used up, and then no task is created.

`program`, chosen in the initial state, says which calls each task makes (in any
order, for ever) and which handlers exist. It is how the runs bring calls
together without all of them at once. `left` is history: for a task that sleeps,
how many ticks it still has to.

The configuration is `FreeRTOSConfig.h`: pre-emption and time slicing, 16-bit
ticks, no mutexes, no `vTaskSuspend` (so `portMAX_DELAY` is a long wait and not an
endless one), no queue sets, no tickless idle. Of the files modelled the
repository's application builds `list.c`, `queue.c`, `tasks.c` and `port.c`; event
groups and timers are part of the port's source tree and not of that build.
Items of a queue are counted, not copied: no decision of `queue.c` looks at them.

### Timers

The service task, from the next expiry it reads to the command it handles, with the
scheduler suspended where the code suspends it; the commands of other tasks and
handlers; the tick. Between receiving a command and sampling the time for it, and
between a callback and sending the restart, the service task can be pre-empted, so
these are steps of their own (`ReceiveCommand`, `prvProcessReceivedCommands`,
`SendRestart`); `hand` and `restarts` are what it holds meanwhile. Any number of
clients may be between stamping a command with the time and sending it: a command
carries any time of the last `MaxLate` ticks (`Stamped`), in any order; `uptime` says
that no time is from before the start. All of the service task's data is one record
`d`, so that `prvSwitchTimerLists` and the insertions are operators on it. History:
`awaited`, the timers whose next callback has a known time, and `due`, how many ticks
off it is; `early`, those called back before. `SampledInTime` is an assumption the
code makes without saying so: it notices a wrap only if the count is then below the
last sample, so the service task must look more often than once in a cycle.

### PortContext

A task's code is a cycle of points; its stack the frames that interrupts have
pushed; of its registers, x1 and whether the others hold what the task left in
them. `vPortYield` and `vPortYieldFromTick` are the two ways out of a task and
into one, each with the entry and exit that belongs to it, and `int_disable` does
what it does: two CSR writes that leave mstatus zero. `stopped` is history: the
state in which a task is to go on.

### Twi

The sketch's side (`Call`, `Prepare`, `StartTransfer`, `EnterState`, `Return`) and
the handler, one action per branch of `ISR_I2C`. The I2C master is what the driver
sees of it: a command register, a byte engine that is idle, writing, reading or
stopping, the flags for interrupt, acknowledge, arbitration and busy. Two facts
of it matter, and both are in the Verilog rather than in the driver's comments:
every finished command raises the interrupt flag, the STOP too, and the flag is
cleared only by software; and the acknowledge bit stays what the last byte left.
Devices acknowledge or not, another master may win the bus while the driver writes, or
put a STOP on it while it writes or reads, as TLC chooses.
Two timing assumptions are built in: an interrupt that is pending when the
transfer starts is taken before `twi_state` is stored (`twi.c:260` relies on it),
and a byte on the wire takes longer than the few stores after the command.
`clean` is history: no transfer so far was refused or left without STOP.

## 3. What is checked

| Run | Instance | Properties | Shows |
|---|---|---|---|
| `event_unit` | one line, every write, every level, every core activity | `TypeOK`, `TriggerLands`, `OnlySoftwareClears`, `NoRelapse`, `EventWakes` | the unit alone neither loses nor invents anything; an event always brings it back to RUN |
| `core_fastbus` | 15 classes, next-cycle data, no debugger | `OnlyRightPathExecutes`, `NothingForgotten` | the pipeline executes the program, whatever interrupts do |
| `core_slowbus` | `FairSpec`, five classes with `jalr`, `elw` and `mret` (whose second execution enables interrupts), late data, halting debugger | `TypeOK`, `JumpDoneIsMine`, `NoReLatch`, `HaltAnswered`, `IrqResolved` | jumps redirect once; a request is served once; none is ignored for ever |
| `core_debug` | seven classes with a CSR write that disables interrupts, `mret` and `ebreak`; halt, resume, single step, ebreak trap, new PC, mstatus writes | `SingleStep`, `HaltAgreement`, `BranchNotLost`, `TakenOnlyWhenEnabled` | debugger and controller agree, a step is one instruction; a handler starts only with interrupts enabled, whoever disables them while a request is held |
| `wake` | programs `EventLoop` and `IrqOnly`, three pulses | `GatedOnlyAtRest`, `IrqIsReal`, `SleepMeansAsleep`, `NoLostWakeUp` | sleeping until an event, or until an interrupt, works |
| `dc_fifo` | five slots, two values | `Implements`, `Drains`, `Reopens` | the token ring is a queue that neither blocks nor starves |
| `rtos` | ten programs on four tasks of three priorities | `TypeOK`, `ListsAgree`, `SuspendExcludes`, `HighestRuns`, `NoWaiterForgotten`, `NoOversleep`, `NoEarlyWake`, `GiveWakes`, `NoBitsMissed`, `ReleasedTogether` | the kernel under every interleaving of tasks, ticks and handlers |
| `timers` | a one-shot and an auto-reload timer, four applications, any number of clients | `TypeOK`, `NeverEarly`, `NoOverdueAsleep`, `AutoReloadGoesOn` | timers over many wraps of the tick count |
| `twi` | reads and writes of 0 to 2 bytes, with and without STOP, a second master that wins a byte or stops the bus | `HandlerExcluded`, `ReturnMeans`, `EveryTransferReturns` | sketch and handler do not meet, results are true, clean transfers return |
| `core_wrongpath` | late data, the instruction mix of finding 1 | `OnlyRightPathExecutes` | violated: finding 1 |
| `port_resume` | two tasks, yields and ticks | `ResumesAsItStopped` | violated: finding 2 |
| `twi_hang` | transfers that end in STOP | `AnyTransferReturns` | violated: finding 3 |

Deadlock is checked except in `twi` and `twi_hang`: there the sketch may really be
stuck in a loop that nothing ends (finding 3, and the repeated start below).

Why the bounds are enough:

- *One line* in `event_unit`: lines do not interact except through the one-hot
  choice, which only decides the number the core sees; the properties are about
  each line. The proofs hold for any set of lines.
- *Instruction classes.* No state counts instructions, so runs of any length are
  covered; a run leaves a class out only when it cannot matter to its properties
  or when a class is the subject of another run. `jalr` is left out of
  `core_fastbus` because with it finding 1 appears there too.
- *One interrupt number* in the core runs: no decision depends on it. The
  composition uses two (0, the value of an idle encoder, and the line).
- *Three pulses* in `WakeUp` (`MaxPulses`): one to wake, one during the handler
  or the clearing of the first, one in the window in which the second is being
  cleared. The main loop itself is not bounded.
- *Five slots* in `dc_fifo`: the detector looks at three neighbouring slots and
  the empty detector at two, so five is the least ring on which all of them
  differ; two values tell an old slot from a new one. The default depth is 8.
- *Tasks* in `rtos`: idle, two of the same priority (they share a ready list and
  time slices) and one above them. A queue of length 1 is empty or full, the two
  states in which a call waits, after each message.
- *Tick count* in `rtos`: `TickMod` = 3, so that waits of up to two ticks end
  before and after a wrap and every list change happens within a few steps;
  `WrapMod` = 2 is the count of wraps, compared only for equality. The number of
  wraps itself is not bounded: the count goes round.
- *`held`* bounds the ticks and handler calls during one suspension of the
  scheduler (one or two, per program): one is before and one after any step of
  the suspended task. It also bounds the notifications a task holds; handlers are
  unbounded otherwise.
- *`MaxLate`* in `timers`: up to two ticks pass between reading the time for a command
  and sending it, and up to two while the service task has work, so that commands
  arrive out of the order of their times and after their timers have expired. Periods
  1 and 2 with `TickMod` = 5 are the greatest `SampledInTime` allows, and make every
  order of expiry, command and wrap happen.
- *`Lengths`* in `twi`: no data byte (only an address), one, and two (there is a
  byte before the last). *`MaxFrames`* in `port_resume` only stops the stack
  growing; the shortest counterexample is well below it.

### Fairness

In hardware a clock keeps running; that is the only scheduling there is, and it
is given. Beyond it:

- `EventUnit!Spec`: an edge of HCLK is always possible, so that the unit goes on
  taking steps (`[]<><<TRUE>>_vars` says it without an ENABLED for TLC to evaluate).
- `RiscyCore!FairSpec`: fairness only of a *quiet* cycle, in which no interrupt,
  debugger access or fetch enable occurs, so nothing from outside helps. What the
  core waits for does come: the data bus moves an access on (it does not hold
  one for ever), the divider finishes, and the prefetcher does not leave ID empty
  for ever in DECODE.
- `WakeUp!Spec`: fairness of cycles without a pulse (a peripheral may stay
  silent for ever); a store on its way arrives; instruction memory answers.
- `DcFifo!FairSpec`: both clocks run as long as their synchronizers have something
  to pass on, and the reader is ready; the writer may stop offering.
- `Twi!Spec`: the sketch's code runs, a pending enabled interrupt is taken, a byte
  on the wire ends, another master that has the bus lets it go. That a device
  acknowledges, or that a call is ever made, is not assumed.
- `Rtos` and `Timers` have no fairness: what must happen is stated against the
  tick count (`NoOversleep`, `NoOverdueAsleep`), and a task of the application may
  keep the processor as long as its priority allows.

### Findings

Three runs expect a violation. Each states what a comment in the code says, and
TLC shows a behaviour of the code that contradicts it.

1. `core_wrongpath` (`riscv_id_stage.sv:508`). A branch that is taken while the
   instruction behind it is stalled in ID does not kill that instruction:
   `clear_instr_valid_o` is `id_ready_o | halt_id`, and `id_ready_o` is low. The
   branch leaves EX (a branch makes `ex_ready` high by itself), the fetch is
   redirected, and the instruction is decoded next. It needs a load whose data
   is late behind which both the branch and its successor stand; with next-cycle
   data memory only a register jump reaches it.
2. `port_resume` (`port.c:279`). "Next time the stored task will resume from here",
   but the interrupt entry of `crt0.riscv.S` has by then pushed a frame and put
   `end_except` in x1, and the `mret` at the end of `vPortYieldFromTick` goes back to
   the task without popping either. The task goes on with a stack one frame too
   low, x1 and caller-saved registers that are not its own, and interrupts off
   (`int_disable` zeroed MPIE). The comment at line 295 assumes an entry that does
   nothing.
3. `twi_hang` (`twi.c:361`). After a transfer that was not acknowledged, the
   interrupt of its STOP is still pending and the acknowledge bit still set. The
   next transfer enables the interrupt, the handler's branch for a missing
   acknowledge does not ask in which state the driver is, stops and disables the
   interrupt; the sketch then waits for ever. `twi.c:260` says the state is stored
   late so that "the previous interrupt doesn't act at all".

Seen while modelling, and not given a run:

- `xTaskCheckForTimeOut` (`tasks.c:2613-2621`) with 16-bit ticks: the difference of
  two counts is an `int`, negative once the count has wrapped since the wait began.
  The time-out is then missed and the rest of the wait grows
  (theorem `TimeOutMissedAfterWrap`).
- `prvInsertTimerInActiveList` (`timers.c:555`) has the same difference: a timer that
  expired after a wrap and before its start was handled is late by a whole cycle
  (theorem `InsertMissed`). A restart by the service task is lost when its queue is
  full (`timers.c:399`, 661, 753; `configASSERT` is empty), be it by commands that
  clients sent while it handled the one before; `AutoReloadGoesOn` gives such a timer
  up.
- `vTaskNotifyGiveFromISR` (`tasks.c:4425`) only tells its caller that a yield is
  wanted and never sets `xYieldPending`, unlike the queue's calls; on a port whose
  handlers cannot switch, the notified task waits: `HighestRuns` exempts it.
- A repeated start never works: the master ignores a START alone
  (`i2c_master_byte_ctrl.sv`), so the next transfer waits for a bus that the driver
  itself holds (`twi.c:132`, 222). `EveryTransferReturns` is about the others.
- The master acknowledges the last byte it reads too.
- A debug request in the cycle in which `mret`, `ecall`, `wfi`, `ebreak` or an
  illegal instruction is decoded replaces FLUSH_EX after `halt_id` has invalidated
  ID: no stage has the instruction any more and nobody executes it
  (`riscv_controller.sv:425`, theorem `HaltForgets`).
- The assertion that debug and interrupt requests never meet
  (`riscv_controller.sv:856`) does not hold; the FSM copes.
- The comments of `sleep_unit.sv` (63, 165) say sleep is not entered while an
  interrupt is pending; the code looks at events, and at interrupts only in
  SHUTDOWN. No wake-up is lost by it.

## 4. What is proved

TLAPS checks the theorems for every value of the constants: any set of
instruction classes, interrupt numbers, debugger accesses and either kind of
data bus; any set of event lines; any program in memory; any lengths of transfers;
any depth of the FIFO; any number of tasks, priorities, bits and values of the tick
count, any program of kernel calls.

Most assumptions only give the constants their types (`CoreAssumption`,
`LinesAssumption`, `TwiAssumption`, `RtosAssumption`, `TimersAssumption`,
`ProgramAssumption`). Five say more:

- `DepthAssumption`: the ring has at least four slots; with fewer the full
  detector, which warns early, would never let anything in.
- `ProgramsAssumption` (`RtosCalls`): the idle task makes no call of its own, so it
  never blocks, and nobody deletes it. That is the kernel's own rule, and the
  kernel depends on it: there is always a task to run. A task has one creator, as each
  call of `xTaskCreate` makes a task of its own. And a rendezvous waits for all its
  bits and clears them, as `xEventGroupSync` always asks (`event_groups.c:199`).
- `CallsAssumption` (`RtosCalls`): `held` is below `TickMod`, so that the ticks of one
  suspension do not go round the tick count. `uxPendedTicks` has 8 bits and the tick
  count 16.
- `SampledInTime` (`Timers`): see section 2.
- `HandlerAssumption` (`WakeUpProofs`), described with `WakeInvariant` below.

TLC evaluates every one of them on the instances of section 3.

### The core: `RiscyCoreProofs`

- `CoreInvariant`: `Spec => []IInv`. The three interesting properties are not
  inductive. That a handler is entered with interrupts enabled needs to know that
  no write of mstatus is in EX at that moment (it would clear the bit in the very
  cycle of the entry) and that the debugger does not own the core (it could write
  mstatus). So `IInv` adds `CsrAlone`, a write of mstatus in EX has nothing valid
  behind it and the controller is in one of four states; `Ownership`, the debug
  unit is in HALT exactly in the controller's wait states and a halt is announced
  only while it is asked for; and `NotBooted`, without which the debugger's first
  halt out of reset would break `CsrAlone`.
- The proof goes through one intermediate notion. `Shape(inp, o)` lists what the
  invariant needs to know of a step: its outputs and which states it can lead
  to. `CycleShape` proves it of each of the 22 actions; `ShapeKeepsInvariant`
  proves each part of the invariant from it alone, and `EdgeType` is type
  correctness of a clock edge for whatever outputs.
- `TypeCorrect`, `TakenSafely` (`TakenOnlyWhenEnabled`), `AcknowledgedOnce`
  (`NoReLatch`) and `OneOwner` (`HaltAgreement`) follow.
- `ConductInvariant`: a second invariant on top of the first, `XInv`, laid out the
  same way with `Conduct` in the place of `Shape`. Its one new notion is `Stopping`:
  once an instruction has taken effect under single-step the controller is on its
  way to the halt, in a state that signals it, in one that waits, or in the flush
  after a write of mstatus, and from there nothing takes effect. `BranchRedirects`
  (`BranchNotLost`), `JumpDoneMine` (`JumpDoneIsMine`) and `StepsOnce`
  (`SingleStep`) follow.
- `PathInvariant`: `[]PathInv`, about the program the pipeline executes, under `Direct`:
  data memory answers in the next cycle and there is no debugger. Both are needed, as
  finding 1 and the instruction a debug request loses show; TLC has counterexamples
  to both properties without either. `Astray` is the heart of it: wherever the
  fetch is on the wrong path, what redirects it is under way, as the instruction in ID,
  as a branch in EX, as what the controller is about to execute or as what an interrupt
  is about to save. `Held` says what of the wrong path ID and EX may hold meanwhile,
  `Owed` that an interrupt that has pushed an instruction out of ID cannot go away
  before it is saved. The proof has one lemma for the states in which ID is empty, one
  for those before the first instruction, and one for each way to decode;
  `EdgeMoves` reduces a clock edge to what they need of it.
- `NothingIsForgotten` (`NothingForgotten`) follows. `OnlyRegisterJumpsStray` is
  finding 1 with fast data: all that can take effect from the wrong path is a register
  jump that waited in ID for its operand. `RightPathExecutes`
  (`OnlyRightPathExecutes`) therefore needs a program without them, like the run
  `core_fastbus`.
- `HaltForgets` says what a debugger does to `NothingForgotten`: a debug request that
  finds an `mret`, a trap, `wfi` or `ebreak` ready to leave ID takes the place of its
  flush, and after that step the instruction is in no stage and the property is false.

### The event unit and the way to the core: `EventUnitProofs`, `WakeUpProofs`

- `TypeCorrect`; `TriggersLand` (`TriggerLands`): a software trigger is never lost.
  In the code clearing beats setting, so the theorem rests on the invariant
  `SetClearApart`: the one-cycle set and clear registers are never active
  together, because one bus write fills at most one of them and each lasts one
  cycle. `OnlySoftware` (`OnlySoftwareClears`) and `WakeLasts` (`NoRelapse`) are
  action properties from the same invariant.
- `GatedAtRest` (`GatedOnlyAtRest`): for every program, with or without a sensible
  handler, the core's clock stops only in RESET or SLEEP with nothing in EX and WB. The
  invariant behind it follows the controller into sleep: `WAIT_SLEEP` is reached
  only from a flush that has waited for EX.
- `WakeInvariant` and from it `IrqReal` (`IrqIsReal`) and `SleepAsleep`
  (`SleepMeansAsleep`). An interrupt the core takes is still pending in the event
  unit, although the handler's clear takes many cycles to get there. The invariant
  follows the clear from the store in EX through the store path into the event
  unit, and says that until it has arrived interrupts are off: the handler is
  entered with them off, nothing in it turns them on, and `mret` waits in the flush
  for the store before it to be granted.
- These need `HandlerAssumption`: the addresses of the handler are a set that is
  entered only through the vector, holds only loads, stores and `mret`, nothing
  outside it acknowledges, and a store that acknowledges directly before `mret` has
  no other store directly before itself. The last clause was found by the
  proof: with two stores back to back before `mret`, the second still waits in EX
  for the first when `mret` is decoded, the return enables interrupts before the
  acknowledge has been granted, and the same level is taken twice. TLC confirms it
  on a program with such a handler. The repository's handlers acknowledge first and
  restore registers, with loads, before `mret`.

### The dual-clock FIFO: `DcFifoProofs`

- `ViewsLate`: `Spec => []IInv`, for every depth. What the reader's synchronizer
  stages hold are values the write token had, in order of age, none older than the
  read token and none newer than the write token; the full detector's samples, each
  possibly a glitch, still warn the writer before the last free slot is gone.
  `NearlyFull` is the heart of it: what the detector sees of a token that is moving
  is full if the ring was or will be.
- `RingsAreQueue` (`Implements`): every step of the two clocks is a step of
  `Fifo` or a stutter under the refinement mapping (`WriteRefines`, `ReadRefines`).
  `SlotsInOrder` turns the rotation of the ring into the order of a sequence.

### The I2C driver: `TwiProofs`

- `TransferExclusive` (`HandlerExcluded`). The property is inductive as it stands.
  The one fact behind it is `HandlerLeavesDisabled`: every branch of the handler
  either leaves `twi_state` and the interrupt enable alone or disables the
  interrupt, so the sketch leaves its loop only with the interrupt off.
- `TwiTypes`: the types, with `CommandTypes` for the command register.
- `ReturnIsTrue` (`ReturnMeans`): a clean transfer returns the truth about the
  bus. Its invariant cuts a transfer into stages, by where the sketch is and what
  the byte engine does, and says for each what is on the wire so far and what the
  flags and the driver's index then are (`SketchStages`, `WireStages`,
  `HandlerStages`: one lemma for each of the actors that move it).

### The kernel: `RtosProofs`

- `KernelInvariant`: `Spec => []KInv`, for every program of calls, every number of
  tasks, and ticks and handlers wherever they may come. Before the proof TLC checked
  `KInv` as an invariant of the `rtos` instance. It is a conjunction of `Base` and
  `Data` (the types, lists and locals included) and `Control`: `Sound`, how the lists
  agree (`Tidy`: no list holds a task twice, no task is in two lists of a kind; the
  idle task is ready; who waits for an event waits for the clock); `SuspendExcludes`;
  the current task is ready unless it is about to yield; nothing is pending unless the
  scheduler is suspended; and `Placed`, what each task's place in its call says of the
  lists it is in.
- The proof has three layers. What an operation of `list.c` does to a list
  (`RemoveEffect`, `InsertEffect`, ...). What an operation of `tasks.c` does to the
  scheduler's state, in one vocabulary: `Moves(c, s, B, L)`, from `c` to `s` all is
  sound, and but for the tasks in `B` no task ceases to be ready, alive or ended, and
  but for those in `L` none comes to wait. It composes, so a context switch, a tick, a
  resumption with all its pended ticks are moves too. Then each action of the calls,
  with `Carried` as the one lemma through which a move of the scheduler and a new
  place of the current task keep `Control`.
- `TypesHold` (`TypeOK`), `SuspensionHolds` (`SuspendExcludes`) and `ListsStayRight`
  (`ListsAgree`) follow; the last turns injective sequences into counts of places.
- `CallsServed`: `Spec => []CallInv`, that nobody waits for what has come. `GiveWakes`
  and `NoBitsMissed` are not inductive: each is about a task that waits, and what
  makes it true is decided when the task begins to. `CallInv` adds to `KInv`
  `Told`, that a task that sleeps in its second step of a wait for a notification has
  not been notified, or hangs in the pending list, where a handler put it; and
  `BitsAwaited`, that no waiting task's condition is met by the bits that are set,
  which holds with the scheduler suspended too. The release of
  several tasks is a loop over a list that shrinks while it runs (`SetReleases`), and
  clearing bits afterwards cannot make a condition true that was not
  (`TestMonotone`). `NotificationsWake` (`GiveWakes`) and `BitsAreSeen` (`NoBitsMissed`)
  follow. `RendezvousHolds` (`ReleasedTogether`) is an action property from `KInv`:
  when bits release a task, every other whose condition they meet leaves in the same
  step, before any bit is cleared.
- `TimeKept`: `Spec => []Punctual`, the invariant behind priority and time. `Prompt` is
  `HighestRuns` as a statement about every ready task. The other parts relate the lists
  of delayed tasks to the clock. `OnTime`: both are sorted, the times in the current one
  are still to come and none before `xNextTaskUnblockTime`, those of the other come
  after the wrap; and while the current one holds anything the count is not at its
  last value, because every time in it is looked at before the wrap. `InTime`: the ticks
  a sleeping task has still to sleep, which the history counts, are those from the count
  to its time, through the wrap if its list says so. `WaitFits`: what a call is about to
  sleep is what its caller asked for, and only just before the wrap is nothing left.
- Their proof has the layers of `KInv`'s. `Ticked` says what `n` ticks do to the
  sleeping, `TickMoves` that one tick does so, through the switch of the two lists at
  the wrap, and a resumption is a fold of ticks. `SleepsFor` says the same of the one
  task that goes to sleep. `StepMinds` then sums up each action in two notions, `Minds`,
  what it does about the tasks it makes ready, and `Timely`.
- `HighestPriorityRuns` (`HighestRuns`), `SleepEnds` (`NoOversleep`) and `SleepLasts`
  (`NoEarlyWake`) follow: for every number of tasks and priorities, wherever the count
  wraps, and with the ticks of a suspension counted late, no task runs while a higher
  one is ready and no switch is noted, and nobody wakes too late or too early.
- `FoldFacts`. The kernel walks its lists in loops, and the models write a loop as a
  fold. The lemma `FoldInvariant` is the rule of the loop: what holds before it and is
  kept by its body holds after it. Body and invariant are constants of the module, so
  that each loop (waking those whose time has come, moving the pending, counting
  pended ticks, waking a queue's waiters, releasing a group's, creating tasks,
  choosing the first) is an instance; the induction is on sets of numbers
  (`Induction`), not on predicates, which the provers could not instantiate.
- `DelayUntilExact`: `vTaskDelayUntil` waits exactly when less than a period has gone.
  `OverflowBeyondWrap` is about `DelayCurrentTask`, the task's removal from its ready
  list and `prvAddCurrentTaskToDelayedList`: in every state with sound lists the task
  is then in the overflow list exactly when it wakes after the wrap, in the current
  one exactly when it wakes before, and only in the second case `xNextTaskUnblockTime`
  is brought forward, to that time at the latest.
- `TimeOutExact` and `TimeOutMissedAfterWrap`: when a time-out is reported, and
  when it is missed. The second theorem shows that the condition of the first is
  needed. These settle the arithmetic on a wrapping count that a small `TickMod` only
  samples.

### The software timers: `TimersProofs`

- `TimersInvariant`: `Spec => []TInv`, for any number of timers, any `TickMod`,
  periods that satisfy `SampledInTime`, any length of the queue and any application.
  None of the properties is inductive: that no callback is early depends on the value
  in the list, the list it is in, the cycle that list belongs to, and how often the
  count can wrap before the next look at it. `TInv` says all of it. `Tidy`: the lists
  hold no timer twice and are sorted. `Accounted`: an awaited timer in the current
  list is due at its value, one in the overflow list at its value a cycle on, both
  soon enough that the service task samples the count before it comes round twice, and
  overdue by at most the task's lateness; or it is in no list and its restart is in
  the queue or about to be (`restarts`). All counted from the last sample, with
  `Wrapped` for a wrap since and `Elapsed` for its age. `HeadKnown`: what the task
  read of the head of the list is still so when it uses it, because only it touches
  the lists. `InHand`: the timer of a command it has received is in no list until it
  is handled, and nothing waits to be sent to itself but where it sends.
  `SleepsInTime`: it sleeps no longer than to any timer's expiry and with no command
  in the queue.
- `SwitchEffect` is the hard lemma. After a wrap the service task empties the current
  list in a loop that can put timers back, so the number of rounds is not the length
  of a list. `Ahead`, the pairs of a timer in the list and a tick from its expiry to
  the wrap, has fewer elements after each round (`RoundProgress`) and at most
  `TickMod * Cardinality(Timer)` (`AheadBound`), which is the model's bound on the
  loop: it is shown to end there. That what is left of a timer fits is `Switching`, an
  instance of `FoldInvariant`.
- Each action then has one lemma, on the effect of what it does with the timer at hand
  (`ExpiredEffect`, `StartEffect`, `PeriodEffect`, `IdleEffect`) and on all others
  (`Elsewhere`). `TypesHold` (`TypeOK`), `CallbacksInTime` (`NeverEarly`),
  `SleepsNotOver` (`NoOverdueAsleep`) and `AutoReloadStays` (`AutoReloadGoesOn`)
  follow.
- `InsertExact` and `InsertMissed`: when a started timer counts as expired, and the one
  wrap over which the difference in int goes wrong. `Accounted` is stated of awaited
  timers because of it: such a timer goes off a whole cycle late, and is not awaited.

### What proving changed in the models

`Code` of `Twi` and `NotifyTaken` of `RtosTaskCalls` had CASE arms that overlapped;
which of them applies is then not determined, though TLC always takes the first. They
are nested conditions now, as in the code. `UnblockExpired` takes the leading part of
the delayed list, as the code's loop does, where it took every entry that had expired;
on a sorted list these are the same. The body of the loop of `prvSwitchTimerLists` is
an operator of its own, `ExpireHead`. The rules for handlers and for the idle task
above were not written down before.

### Only model-checked

Liveness under fairness is out of the prover's reach, as is ENABLED: `EventWakes`,
`HaltAnswered`, `IrqResolved`, `NoLostWakeUp`, `Drains`, `Reopens`,
`EveryTransferReturns`.

`NoWaiterForgotten` of the kernel is checked with a queue of one place, and is not true
of longer ones: `xQueueGenericReset` makes the whole queue free and wakes one sender,
after which others wait for room that is there. Even with one place it needs to
know that a task woken for what has come is not deleted before it takes it.

No module declares a RECURSIVE operator.

## 5. What is not modelled, and the plan

Left out for good: data paths (ALU, multiplier, FPU, register file, decoding of bit
patterns), the FPGA and simulation infrastructure, the test programs and benchmarks
with their data (most of the lines of the repository), FreeRTOS files and options that
are not configured (mutexes, queue sets, co-routines, tickless idle, the heaps but for
when `heap_1` suspends the scheduler), and zero-riscy, which the default configuration
does not instantiate. Resets other than power-on are not modelled. Widths other than
the tick count's are left out: `uxPendedTicks` has 8 bits, and 256 ticks in one
suspension would be counted as none.

Next, in this order:

1. In the kernel: `vTaskSuspend` and `vTaskResume`, priority changes, mutexes with
   priority inheritance, `xTaskNotifyWait` in full and the other notify calls from
   handlers, event group deletion; the timer service task on the kernel's queue
   (composition of `Timers` and `Rtos`).
2. The timer together with `micros()`, `delay()` and the overflow handler of the
   Arduino library, and the serial ring buffers shared with handlers.
3. The UART: its synchronous FIFO as a second refinement of `Fifo`, the receiver
   and its interrupt conditions. Then the I2C bit engine and the SPI master.
4. `PrefetchBuffer` and `FetchFifo` (outstanding requests, redirect, compressed
   instructions), refining an abstract instruction stream; then the core's `fetch`
   input becomes its output.
5. The load-store unit with misaligned accesses, `core2axi` with its separate
   address and data grants, `axi2apb32`, and the `core_region` split between RAM
   and AXI: one access at a time as the abstract specification.
6. The AXI node's arbiters and error responses, the RAM multiplexers and the memory
   interfaces; the JTAG debug interface's clock crossings and the NPC/PPC tracking
   of the debug unit.

## 6. Running

Each `X.cfg` belongs to the module its run names in `PROJECT.json`, for example `tlc
-config core_debug.cfg MCRiscyCore`. The proofs are checked with `tlapm
RiscyCoreProofs.tla` and so on for the other modules of proofs; `RtosProofs` takes
about twenty minutes from nothing. The longest runs, `core_slowbus`, `core_debug`,
`rtos` and `timers`, take one to three minutes.
