----------------------------- MODULE EventUnit -----------------------------
(***************************************************************************)
(* apb_event_unit.sv: an interrupt latch, an event latch and the sleep     *)
(* controller behind one APB slave port, plus the two-flop synchronizer of *)
(* the fetch-enable pin.  In pulpino both latches see the same 32 lines    *)
(* (peripherals.sv connects irq_i and event_i to the same vector).         *)
(*                                                                         *)
(* One step is one rising edge of HCLK.  The environment chooses the level *)
(* of the lines, of the fetch-enable pin and of core_busy, and what is     *)
(* written.  The APB master is axi2apb32.sv, which performs the write at   *)
(* the head of its buffers in one cycle (PSEL is constantly high) and      *)
(* spends the next one on the response: at most every other cycle writes.  *)
(***************************************************************************)
EXTENDS Naturals

CONSTANT Lines

ASSUME LinesAssumption == Lines \subseteq Nat

VARIABLES
  ier, ipr, isp, icp, irq_o,            \* i_interrupt_unit
  eer, epr, esp, ecp, events,           \* i_event_unit
  sleep_state, sleep_enable, sleep_status,   \* i_sleep_unit
  fetch_ff1, fetch_ff2,                 \* fetch_enable_ff1, fetch_enable_ff2
  request                               \* write at the head of the bridge's buffers

IRQ == INSTANCE ServiceUnit WITH enable <- ier, pending <- ipr,
         set_pending <- isp, clear_pending <- icp
EVT == INSTANCE ServiceUnit WITH enable <- eer, pending <- epr,
         set_pending <- esp, clear_pending <- ecp, irq_o <- events
SLP == INSTANCE SleepUnit

irqUnit   == <<ier, ipr, isp, icp, irq_o>>
eventUnit == <<eer, epr, esp, ecp, events>>
sleepUnit == <<sleep_state, sleep_enable, sleep_status>>
vars == <<irqUnit, eventUnit, sleepUnit, fetch_ff1, fetch_ff2, request>>

-----------------------------------------------------------------------------
\* APB write transfers; a read changes no register.
NoTransfer == [unit |-> "NONE"]
Transfers ==
       [unit : {"IRQ", "EVENT"}, wr : IRQ!Writes]
  \cup [unit : {"SLEEP"}, wr : SLP!Writes]

\* Faulty variant: the address decoder confuses the two latches.
EventWriteAliased(t) == IF t.unit \in {"IRQ", "EVENT"} THEN t.wr ELSE EVT!NoWrite

IrqWrite(t)   == IF t.unit = "IRQ" THEN t.wr ELSE IRQ!NoWrite
EventWrite(t) == IF t.unit = "EVENT" THEN t.wr ELSE EVT!NoWrite
SleepWrite(t) == IF t.unit = "SLEEP" THEN t.wr ELSE SLP!NoWrite

\* The wires between the three units and to the core.
event == events # {}
irq   == irq_o # {}
fetch_enable_o  == fetch_ff2 /\ SLP!fetch_en_o(event)
clk_gate_core_o == SLP!clk_gate_core_o(event)

-----------------------------------------------------------------------------
TypeOK ==
  /\ IRQ!TypeOK
  /\ EVT!TypeOK
  /\ SLP!TypeOK
  /\ fetch_ff1 \in BOOLEAN
  /\ fetch_ff2 \in BOOLEAN
  /\ request \in Transfers \cup {NoTransfer}

Init ==
  /\ IRQ!Init
  /\ EVT!Init
  /\ SLP!Init
  /\ fetch_ff1 = FALSE
  /\ fetch_ff2 = FALSE
  /\ request = NoTransfer

\* One clock edge with the write transfer t in its access phase.
Clk(t, sig, core_busy, fetch_enable_i) ==
  /\ IRQ!Clk(sig, IrqWrite(t))
  /\ EVT!Clk(sig, EventWrite(t))
  /\ SLP!Clk(irq, event, core_busy, SleepWrite(t))
  /\ fetch_ff1' = fetch_enable_i
  /\ fetch_ff2' = fetch_ff1

\* The bus is idle, or reading.
BusIdle(sig, core_busy, fe) ==
  /\ request = NoTransfer
  /\ Clk(NoTransfer, sig, core_busy, fe)
  /\ UNCHANGED request

\* Faulty variant: the unit that is addressed gets lost on the way.
BusRequestUnaddressed(t, sig, core_busy, fe) ==
  /\ request = NoTransfer
  /\ Clk(NoTransfer, sig, core_busy, fe)
  /\ request' = t.wr

\* Address and data of a write have both reached the bridge.
BusRequest(t, sig, core_busy, fe) ==
  /\ request = NoTransfer
  /\ Clk(NoTransfer, sig, core_busy, fe)
  /\ request' = t

\* PENABLE with PREADY, which is always high: the register is written.
BusAccess(sig, core_busy, fe) ==
  /\ request # NoTransfer
  /\ Clk(request, sig, core_busy, fe)
  /\ request' = NoTransfer

Next ==
  \E sig \in SUBSET Lines, core_busy, fe \in BOOLEAN :
    \/ BusIdle(sig, core_busy, fe)
    \/ \E t \in Transfers : BusRequest(t, sig, core_busy, fe)
    \/ BusAccess(sig, core_busy, fe)

\* HCLK is not gated by this unit: it keeps running.  An edge is always possible,
\* so steps that change something for ever are weak fairness of Next.
Spec == Init /\ [][Next]_vars /\ []<><<TRUE>>_vars

-----------------------------------------------------------------------------
\* A software trigger (a write of SET_PENDING, e.g. ESP) is never lost: the
\* lines of the one-cycle set register are pending after the next edge unless
\* that edge writes the pending register itself.  It needs the set and clear
\* registers never to be active together.
TriggerLands ==
  [][ /\ isp \subseteq ipr' \/ (request.unit = "IRQ" /\ request.wr.reg = "PENDING")
      /\ esp \subseteq epr' \/ (request.unit = "EVENT" /\ request.wr.reg = "PENDING")
    ]_vars

\* An acknowledge (a write of CLEAR_PENDING) never removes a line software did
\* not name, and no line disappears from the pending register on its own.
OnlySoftwareClears ==
  [][ \A l \in epr \ epr' :
        \/ l \in ecp
        \/ request.unit = "EVENT" /\ request.wr.reg = "PENDING" /\ l \notin request.wr.data
    ]_vars

\* Once an event has woken the unit it does not fall back towards sleep until
\* software writes the control register again: the enable bit is gone when RUN
\* is entered (sleep_unit.sv clears it on core_sleeping_int or event_i).
NoRelapse ==
  [][ sleep_state # "RUN" /\ sleep_state' = "RUN"
        => ~sleep_enable' \/ request.unit = "SLEEP" ]_vars

\* Every pending event brings the unit back to RUN, even one that software
\* clears in the cycle after it was latched.
EventWakes == (epr # {}) ~> (sleep_state = "RUN")
=============================================================================
