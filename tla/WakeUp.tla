------------------------------ MODULE WakeUp ------------------------------
(***************************************************************************)
(* How a program sleeps and is woken: the core (RiscyCore), the event unit *)
(* (EventUnit), the gate of the core's clock (riscv_core.sv), the encoding *)
(* of the interrupt number (core_region.sv), the store path through        *)
(* axi2apb32.sv, and a program in the style of sw/apps/riscv_tests/        *)
(* testEvents and imperio_tests/testInterrupt: set up, then for ever       *)
(* sleep, clear the event and do the work.                                 *)
(*                                                                         *)
(* One step is one edge of the ungated clock.  A peripheral may pulse its  *)
(* line in any cycle; the path of a store to the bridge takes any time.    *)
(***************************************************************************)
EXTENDS Naturals, FiniteSets

CONSTANTS
  Line,                     \* the one peripheral line in use
  Images,                   \* what may be loaded: records of
                            \*   program: address -> [k, to (jump target), wr (stored)]
                            \*   vector:  address of the interrupt handler
                            \*   work:    address of the work the main loop must do
  MaxPulses                 \* bound: how often the peripheral pulses

VARIABLES
  ctrl, boot_done, jump_done, exc, irq_id, mie, mpie, stall, settings,
  jump_req, id, instr_valid, ex, wb, path, owed, stepped,        \* RiscyCore
  ier, ipr, isp, icp, irq_o, eer, epr, esp, ecp, events, sleep_state,
  sleep_enable, sleep_status, fetch_ff1, fetch_ff2, request,     \* EventUnit
  image,                    \* the one that is loaded; it never changes
  core_busy_q,              \* riscv_core.sv
  pc_if, pc_id, pc_ex, pc_wb,   \* address of the next fetch and of id, ex, wb
  mepc,
  bus,                      \* where the core's store is
  pulses,                   \* how often the line has pulsed so far
  news                      \* history: a pulse no work has followed yet

Program   == image.program
Addresses == DOMAIN Program
Insns == UNION {{i.program[a].k : a \in DOMAIN i.program} : i \in Images}

Core == INSTANCE RiscyCore WITH
          Ids <- {0, Line}, SlowData <- TRUE, DbgWrites <- {}
EU   == INSTANCE EventUnit WITH Lines <- {Line}

coreVars == <<ctrl, boot_done, jump_done, exc, irq_id, mie, mpie, stall, settings,
              jump_req, id, instr_valid, ex, wb, path, owed, stepped>>
pcs  == <<pc_if, pc_id, pc_ex, pc_wb, mepc>>
vars == <<coreVars, EU!vars, image, core_busy_q, pcs, bus, pulses, news>>

ASSUME ProgramAssumption ==
  /\ MaxPulses \in Nat /\ Line \in Nat
  /\ Insns \subseteq {"load", "store", "jal", "csrEI", "wfi", "mret"}
  /\ \A i \in Images :
       /\ DOMAIN i.program \subseteq Nat
       /\ {0, i.vector, i.work} \subseteq DOMAIN i.program
       /\ \A a \in DOMAIN i.program :
            /\ i.program[a].k = "store" => i.program[a].wr \in EU!Transfers
            /\ i.program[a].k = "jal" => i.program[a].to \in DOMAIN i.program

Init ==
  /\ Core!Init /\ EU!Init
  /\ image \in Images
  /\ core_busy_q = FALSE
  /\ pc_if = 0 /\ pc_id = 0 /\ pc_ex = 0 /\ pc_wb = 0 /\ mepc = 0
  /\ bus = "idle" /\ pulses = 0 /\ news = FALSE

-----------------------------------------------------------------------------
\* Wires.

core_busy_o == ctrl = "FIRST_FETCH" \/ core_busy_q
clock_en    == EU!clk_gate_core_o \/ core_busy_o

\* Faulty variant: the controller's own activity does not count.
core_busy_intMemory(prefetching) == prefetching \/ Core!MemRequest \/ wb # "none"

\* Prefetches still under way keep the core busy after it stops requesting.
core_busy_int(prefetching) ==
  \/ ctrl \notin {"RESET", "WAIT_SLEEP", "SLEEP"} \/ prefetching
  \/ Core!MemRequest \/ wb # "none"

\* What the core sees in this cycle.
Inputs(fetched) ==
  [fetch        |-> IF fetched THEN [k |-> Program[pc_if].k, uses |-> {}]
                    ELSE Core!NoFetch,
   gnt          |-> \/ ex.k = "store" /\ bus = "idle"
                    \/ ex.k = "load" /\ bus \in {"idle", "back"},
   rvalid       |-> bus = "back",
   aluReady     |-> TRUE,
   fetch_enable |-> EU!fetch_enable_o,
   irq          |-> EU!irq,
   irq_id_i     |-> IF irq_o = {} THEN 0 ELSE CHOOSE l \in irq_o : TRUE,
   dbg          |-> Core!DbgIdle]

\* The IF/ID register took an instruction; ID's instruction went to EX.
Fetched(inp)    == Core!id_ready(inp) /\ instr_valid'
Dispatched(inp) == Core!id_ready(inp) /\ ex'.k # "none"

Next_pc == IF pc_if + 1 \in Addresses THEN pc_if + 1 ELSE pc_if

ProgramCounters(inp) ==
  /\ pc_if' = CASE ctrl = "BOOT_SET" -> 0
                [] ctrl \in {"IRQ_TAKEN_ID", "IRQ_TAKEN_IF"} -> image.vector
                [] ctrl = "FLUSH_WB" /\ id.k = "mret" -> mepc
                [] Core!Decoding(inp) /\ id.k = "jal" /\ ~jump_done -> Program[pc_id].to
                [] OTHER -> IF Fetched(inp) THEN Next_pc ELSE pc_if
  /\ pc_id' = IF Fetched(inp) THEN pc_if ELSE pc_id
  /\ pc_ex' = IF Dispatched(inp) THEN pc_id ELSE pc_ex
  /\ pc_wb' = IF inp.gnt THEN pc_ex ELSE pc_wb
  /\ mepc' = CASE ctrl = "IRQ_TAKEN_ID" -> pc_id
               [] ctrl = "IRQ_TAKEN_IF" -> pc_if
               [] OTHER -> mepc

CoreRuns(inp) ==
  /\ clock_en
  /\ Core!Cycle(inp)
  /\ ProgramCounters(inp)
  /\ \E prefetching \in BOOLEAN : core_busy_q' = core_busy_int(prefetching)

CoreGated ==
  /\ ~clock_en
  /\ UNCHANGED <<coreVars, pcs, core_busy_q>>

-----------------------------------------------------------------------------
\* core2axi.sv and axi2apb32.sv: one store at a time.  It reaches the bridge
\* some time after its grant, is performed in one cycle, answered in the next
\* and seen by core2axi after the response buffer.  The data RAM answers the
\* load of the work in the next cycle.
Bus(inp) ==
  /\ \/ bus \in {"idle", "back"} /\ inp.gnt
        /\ bus' = IF ex.k = "store" THEN "travel" ELSE "back"
     \/ bus \in {"idle", "back"} /\ ~inp.gnt /\ bus' = "idle"
     \/ bus = "travel" /\ bus' \in {"travel", "bridge"}
     \/ bus = "bridge" /\ bus' = "response"
     \/ bus = "response" /\ bus' = "back"
  /\ request' = IF bus' = "bridge" THEN Program[pc_wb].wr ELSE EU!NoTransfer

\* A pulse on an enabled line is news until the work is done after it.
News(inp, sig) ==
  /\ pulses' = pulses + Cardinality(sig)
  /\ news' = \/ sig \cap (ier \cup eer) # {}
             \/ news /\ ~(inp.gnt /\ pc_ex = image.work)

Cycle(sig, fetched) ==
  LET inp == Inputs(fetched) IN
  /\ CoreRuns(inp) \/ CoreGated
  /\ EU!Clk(request, sig, core_busy_o, TRUE)
  /\ Bus(inp)
  /\ News(inp, sig)
  /\ UNCHANGED image

Next ==
  \E sig \in IF pulses < MaxPulses THEN SUBSET {Line} ELSE {{}}, fetched \in BOOLEAN :
    Cycle(sig, fetched)

\* The board's clock runs, stores arrive, instruction memory answers; no pulse
\* is promised.
Spec ==
  /\ Init /\ [][Next]_vars /\ WF_vars(\E fetched \in BOOLEAN : Cycle({}, fetched))
  /\ []<>(bus # "travel")
  /\ []<>~(ctrl = "DECODE" /\ ~instr_valid)

-----------------------------------------------------------------------------
\* No wake-up is lost: whenever the peripheral pulses while its line is
\* enabled, the program later does the work of its main loop, although the
\* pulse may come in any cycle of going to sleep, waking, handling the
\* interrupt or clearing the event.
NoLostWakeUp == news ~> ~news

\* The core's clock stops only while nothing is under way in the core.
GatedOnlyAtRest ==
  ~clock_en => ctrl \in {"RESET", "SLEEP"} /\ ex.k = "none" /\ wb = "none"

\* The handler runs only for a line that is still pending in the event unit:
\* the number the core latched is not out of date when it is used, although
\* the handler's clear takes many cycles to reach the event unit and its
\* return enables interrupts again.  It needs a handler whose acknowledging
\* store is not queued behind another when mret executes.
IrqIsReal == ctrl \in {"IRQ_TAKEN_ID", "IRQ_TAKEN_IF"} => irq_id \in ipr

\* When the sleep unit reports sleep, the controller sleeps.
SleepMeansAsleep == sleep_state = "SLEEP" => ctrl = "SLEEP"
=============================================================================
