--------------------------- MODULE EventUnitProofs ---------------------------
(***************************************************************************)
(* Proofs about EventUnit, for any number of lines.                        *)
(***************************************************************************)
EXTENDS EventUnit, TLAPS

\* No line is triggered and acknowledged by software in the same cycle.
SetClearApart ==
  /\ isp = {} \/ icp = {}
  /\ esp = {} \/ ecp = {}

IInv == TypeOK /\ SetClearApart

\* Every step clocks all registers, with one write transfer at most.
LEMMA StepIsClk ==
  ASSUME TypeOK, Next
  PROVE  \E t \in Transfers \cup {NoTransfer}, sig \in SUBSET Lines,
            core_busy, fe \in BOOLEAN :
           /\ Clk(t, sig, core_busy, fe)
           /\ t = NoTransfer \/ t = request
           /\ request' \in Transfers \cup {NoTransfer}
BY DEF Next, BusIdle, BusRequest, BusAccess, TypeOK

\* What a transfer writes into either latch is a set of lines.
LEMMA WriteType ==
  ASSUME NEW t \in Transfers \cup {NoTransfer}
  PROVE  /\ IrqWrite(t) \in IRQ!Writes \cup {IRQ!NoWrite}
         /\ EventWrite(t) \in EVT!Writes \cup {EVT!NoWrite}
         /\ SleepWrite(t) \in SLP!Writes \cup {SLP!NoWrite}
<1> USE DEF IrqWrite, EventWrite, SleepWrite
<1>1. CASE t \in [unit : {"IRQ", "EVENT"}, wr : IRQ!Writes]
  <2>1. t.unit \in {"IRQ", "EVENT"} /\ t.wr \in IRQ!Writes
    BY <1>1
  <2>2. IRQ!Writes = EVT!Writes
    BY DEF IRQ!Writes, EVT!Writes, IRQ!RegNames, EVT!RegNames
  <2> QED BY <2>1, <2>2
<1>2. CASE t \in [unit : {"SLEEP"}, wr : SLP!Writes]
  <2>1. t.unit = "SLEEP" /\ t.wr \in SLP!Writes
    BY <1>2
  <2> QED BY <2>1
<1>3. CASE t = NoTransfer
  BY <1>3 DEF NoTransfer
<1> QED BY <1>1, <1>2, <1>3 DEF Transfers

\* One clock edge keeps the interrupt latch well typed, and its one-cycle
\* registers apart.
LEMMA IrqLatch ==
  ASSUME IRQ!TypeOK, NEW sig \in SUBSET Lines,
         NEW w \in IRQ!Writes \cup {IRQ!NoWrite}, IRQ!Clk(sig, w)
  PROVE  IRQ!TypeOK' /\ (isp' = {} \/ icp' = {})
BY DEF IRQ!TypeOK, IRQ!Clk, IRQ!Written, IRQ!Latched, IRQ!Highest, IRQ!Writes, IRQ!NoWrite,
       IRQ!RegNames

\* The same of the event latch.
LEMMA EventLatch ==
  ASSUME EVT!TypeOK, NEW sig \in SUBSET Lines,
         NEW w \in EVT!Writes \cup {EVT!NoWrite}, EVT!Clk(sig, w)
  PROVE  EVT!TypeOK' /\ (esp' = {} \/ ecp' = {})
BY DEF EVT!TypeOK, EVT!Clk, EVT!Written, EVT!Latched, EVT!Highest, EVT!Writes, EVT!NoWrite,
       EVT!RegNames

\* One clock edge keeps the sleep unit well typed.
LEMMA SleepType ==
  ASSUME SLP!TypeOK, NEW i \in BOOLEAN, NEW e \in BOOLEAN, NEW b \in BOOLEAN,
         NEW w \in SLP!Writes \cup {SLP!NoWrite}, SLP!Clk(i, e, b, w)
  PROVE  SLP!TypeOK'
<1>1. sleep_state' \in SLP!States
  BY DEF SLP!TypeOK, SLP!Clk, SLP!Shutdown, SLP!FallAsleep, SLP!Wake, SLP!WakeForIrq,
         SLP!Stay, SLP!States
<1>2. sleep_enable' \in BOOLEAN /\ sleep_status' \in BOOLEAN
  <2>1. w.reg = "SLEEP_CTRL" => w.data \in BOOLEAN
    BY DEF SLP!Writes, SLP!NoWrite
  <2> QED
    BY <2>1 DEF SLP!TypeOK, SLP!Clk, SLP!Registers, SLP!core_sleeping
<1> QED BY <1>1, <1>2 DEF SLP!TypeOK

LEMMA InitInvariant == Init => IInv
BY DEF Init, IInv, SetClearApart, TypeOK, IRQ!Init, EVT!Init, SLP!Init, IRQ!TypeOK, EVT!TypeOK,
       SLP!TypeOK, SLP!States

LEMMA StepInvariant == IInv /\ [Next]_vars => IInv'
<1> SUFFICES ASSUME IInv, [Next]_vars PROVE IInv'
  OBVIOUS
<1>1. CASE Next
  <2>1. PICK t \in Transfers \cup {NoTransfer}, sig \in SUBSET Lines,
             core_busy \in BOOLEAN, fe \in BOOLEAN :
          Clk(t, sig, core_busy, fe) /\ request' \in Transfers \cup {NoTransfer}
    BY <1>1, StepIsClk DEF IInv
  <2>2. IRQ!TypeOK' /\ (isp' = {} \/ icp' = {})
    BY <2>1, WriteType, IrqLatch DEF IInv, TypeOK, Clk
  <2>3. EVT!TypeOK' /\ (esp' = {} \/ ecp' = {})
    BY <2>1, WriteType, EventLatch DEF IInv, TypeOK, Clk
  <2>4. SLP!TypeOK'
    BY <2>1, WriteType, SleepType DEF IInv, TypeOK, Clk, irq, event
  <2>5. fetch_ff1' \in BOOLEAN /\ fetch_ff2' \in BOOLEAN
    BY <2>1 DEF IInv, TypeOK, Clk
  <2> QED BY <2>1, <2>2, <2>3, <2>4, <2>5 DEF IInv, TypeOK, SetClearApart
<1>2. CASE UNCHANGED vars
  BY <1>2 DEF vars, irqUnit, eventUnit, sleepUnit, IInv, TypeOK, SetClearApart,
     IRQ!TypeOK, EVT!TypeOK, SLP!TypeOK
<1> QED BY <1>1, <1>2

\* The registers stay in their types.
THEOREM TypeCorrect == Spec => []TypeOK
<1>1. IInv => TypeOK
  BY DEF IInv
<1> QED BY <1>1, InitInvariant, StepInvariant, PTL DEF Spec

\* A software trigger lands, whatever the lines and the bus do: one transfer
\* at a time reaches the registers, so trigger and acknowledge stay apart.
THEOREM TriggersLand == Spec => TriggerLands
<1>1. IInv /\ [Next]_vars =>
        [ /\ isp \subseteq ipr' \/ (request.unit = "IRQ" /\ request.wr.reg = "PENDING")
          /\ esp \subseteq epr' \/ (request.unit = "EVENT" /\ request.wr.reg = "PENDING") ]_vars
  <2> SUFFICES ASSUME IInv, Next
               PROVE  /\ isp \subseteq ipr' \/ (request.unit = "IRQ" /\ request.wr.reg = "PENDING")
                      /\ esp \subseteq epr' \/ (request.unit = "EVENT" /\ request.wr.reg = "PENDING")
    OBVIOUS
  <2>1. PICK t \in Transfers \cup {NoTransfer}, sig \in SUBSET Lines,
             core_busy \in BOOLEAN, fe \in BOOLEAN :
          Clk(t, sig, core_busy, fe) /\ (t = NoTransfer \/ t = request)
    BY StepIsClk DEF IInv
  <2>2. isp \subseteq ipr' \/ (t.unit = "IRQ" /\ t.wr.reg = "PENDING")
    BY <2>1 DEF IInv, SetClearApart, Clk, IRQ!Clk, IRQ!Written, IRQ!Latched, IrqWrite, IRQ!NoWrite
  <2>3. esp \subseteq epr' \/ (t.unit = "EVENT" /\ t.wr.reg = "PENDING")
    BY <2>1 DEF IInv, SetClearApart, Clk, EVT!Clk, EVT!Written, EVT!Latched, EventWrite, EVT!NoWrite
  <2> QED BY <2>1, <2>2, <2>3 DEF NoTransfer
<1> QED BY <1>1, InitInvariant, StepInvariant, PTL DEF Spec, TriggerLands
\* No line leaves the event latch on its own: it was acknowledged by name in the
\* cycle before, or software writes the latch itself and leaves it out.
THEOREM OnlySoftware == Spec => OnlySoftwareClears
<1> DEFINE Cleared ==
      \A l \in epr \ epr' :
        \/ l \in ecp
        \/ request.unit = "EVENT" /\ request.wr.reg = "PENDING" /\ l \notin request.wr.data
<1>1. IInv /\ [Next]_vars => [Cleared]_vars
  <2> SUFFICES ASSUME IInv, Next, NEW l \in epr \ epr', l \notin ecp
               PROVE  /\ request.unit = "EVENT" /\ request.wr.reg = "PENDING"
                      /\ l \notin request.wr.data
    OBVIOUS
  <2>1. PICK t \in Transfers \cup {NoTransfer}, sig \in SUBSET Lines,
             core_busy \in BOOLEAN, fe \in BOOLEAN :
          Clk(t, sig, core_busy, fe) /\ (t = NoTransfer \/ t = request)
    BY StepIsClk DEF IInv
  <2>2. epr' = EVT!Written(EventWrite(t), "PENDING", EVT!Latched(sig))
    BY <2>1 DEF Clk, EVT!Clk
  <2>3. EventWrite(t).reg = "PENDING" /\ l \notin EventWrite(t).data
    BY <2>2 DEF EVT!Written, EVT!Latched
  <2>4. t.unit = "EVENT" /\ EventWrite(t) = t.wr
    BY <2>3 DEF EventWrite, EVT!NoWrite
  <2> QED BY <2>1, <2>3, <2>4 DEF NoTransfer
<1> QED BY <1>1, InitInvariant, StepInvariant, PTL DEF Spec, OnlySoftwareClears

\* The unit enters RUN with its enable bit cleared, so a wake-up lasts: RUN is
\* only entered on an event, and the register bank drops the bit on that event
\* unless software writes it in the same cycle.
THEOREM WakeLasts == Spec => NoRelapse
<1> DEFINE Lasting == sleep_state # "RUN" /\ sleep_state' = "RUN"
                        => ~sleep_enable' \/ request.unit = "SLEEP"
<1>1. IInv /\ [Next]_vars => [Lasting]_vars
  <2> SUFFICES ASSUME IInv, Next, sleep_state # "RUN", sleep_state' = "RUN",
                      request.unit # "SLEEP"
               PROVE  ~sleep_enable'
    OBVIOUS
  <2>1. PICK t \in Transfers \cup {NoTransfer}, sig \in SUBSET Lines,
             core_busy \in BOOLEAN, fe \in BOOLEAN :
          Clk(t, sig, core_busy, fe) /\ (t = NoTransfer \/ t = request)
    BY StepIsClk DEF IInv
  <2>2. event
    BY <2>1 DEF Clk, SLP!Clk, SLP!Shutdown, SLP!FallAsleep, SLP!Wake, SLP!WakeForIrq, SLP!Stay
  <2>3. SleepWrite(t) = SLP!NoWrite
    BY <2>1 DEF SleepWrite, NoTransfer
  <2>4. SLP!Registers(event, SLP!NoWrite)
    BY <2>1, <2>3 DEF Clk, SLP!Clk
  <2>5. sleep_enable' = (sleep_enable /\ ~SLP!core_sleeping /\ ~event)
    BY <2>4 DEF SLP!Registers, SLP!NoWrite
  <2> QED BY <2>2, <2>5
<1> QED BY <1>1, InitInvariant, StepInvariant, PTL DEF Spec, NoRelapse
=============================================================================
