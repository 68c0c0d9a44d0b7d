----------------------------- MODULE SleepUnit -----------------------------
(***************************************************************************)
(* sleep_unit.sv: the state machine that stops the core's fetching and     *)
(* gates its clock when software asks for sleep, and wakes it on an event  *)
(* (for good) or on an interrupt (to run the handler).                     *)
(***************************************************************************)
VARIABLES
  sleep_state,              \* SLEEP_STATE_Q
  sleep_enable,             \* bit SLEEP_ENABLE of REG_SLEEP_CTRL
  sleep_status              \* bit SLEEP_STATUS of REG_SLEEP_STATUS

regs == <<sleep_state, sleep_enable, sleep_status>>

States == {"RUN", "SHUTDOWN", "SLEEP"}

Writes  == [reg : {"SLEEP_CTRL"}, data : BOOLEAN]
NoWrite == [reg |-> "NONE", data |-> FALSE]

TypeOK ==
  /\ sleep_state \in States
  /\ sleep_enable \in BOOLEAN
  /\ sleep_status \in BOOLEAN

Init ==
  /\ sleep_state = "RUN"
  /\ sleep_enable = FALSE
  /\ sleep_status = FALSE

-----------------------------------------------------------------------------
\* Outputs, functions of the state and of the event wire of this cycle.

fetch_en_o(event)  == sleep_state = "RUN" /\ (sleep_enable => event)
clk_gate_core_o(event) == sleep_state = "SLEEP" => event
core_sleeping == sleep_state = "SLEEP"

-----------------------------------------------------------------------------
\* Software asked for sleep and no event is pending.
Shutdown(event) ==
  /\ sleep_state = "RUN" /\ sleep_enable /\ ~event
  /\ sleep_state' = "SHUTDOWN"

\* Faulty variant: the clock is stopped without waiting for the core.
FallAsleepBusy(irq, event, core_busy) ==
  /\ sleep_state = "SHUTDOWN" /\ ~event /\ ~irq
  /\ sleep_state' = "SLEEP"

\* The core has drained and nothing is pending.
FallAsleep(irq, event, core_busy) ==
  /\ sleep_state = "SHUTDOWN" /\ ~event /\ ~core_busy /\ ~irq
  /\ sleep_state' = "SLEEP"

\* Faulty variant: an event only restarts the clock, like an interrupt.
WakeToShutdown(event) ==
  /\ sleep_state \in {"SHUTDOWN", "SLEEP"} /\ event
  /\ sleep_state' = IF sleep_state = "SLEEP" THEN "SHUTDOWN" ELSE "RUN"

\* An event ends the sleep, also before the core is down.
Wake(event) ==
  /\ sleep_state \in {"SHUTDOWN", "SLEEP"} /\ event
  /\ sleep_state' = "RUN"

\* An interrupt restarts the clock; fetching stays off.
WakeForIrq(irq, event) ==
  /\ sleep_state = "SLEEP" /\ irq /\ ~event
  /\ sleep_state' = "SHUTDOWN"

Stay(irq, event, core_busy) ==
  /\ \/ sleep_state = "RUN" /\ (sleep_enable => event)
     \/ sleep_state = "SHUTDOWN" /\ ~event /\ (core_busy \/ irq)
     \/ sleep_state = "SLEEP" /\ ~event /\ ~irq
  /\ UNCHANGED sleep_state

\* Faulty variant: an event does not withdraw the request to sleep.
RegistersKeepRequest(event, wr) ==
  /\ sleep_status' = core_sleeping
  /\ sleep_enable' =
       IF wr.reg = "SLEEP_CTRL" THEN wr.data ELSE sleep_enable /\ ~core_sleeping

\* The control and status registers: a bus write beats the automatic clear.
Registers(event, wr) ==
  /\ sleep_status' = core_sleeping
  /\ sleep_enable' =
       IF wr.reg = "SLEEP_CTRL" THEN wr.data
       ELSE sleep_enable /\ ~core_sleeping /\ ~event

Clk(irq, event, core_busy, wr) ==
  /\ \/ Shutdown(event)
     \/ FallAsleep(irq, event, core_busy)
     \/ Wake(event)
     \/ WakeForIrq(irq, event)
     \/ Stay(irq, event, core_busy)
  /\ Registers(event, wr)
=============================================================================
