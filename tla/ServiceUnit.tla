---------------------------- MODULE ServiceUnit ----------------------------
(***************************************************************************)
(* generic_service_unit.sv: the register block that latches interrupt      *)
(* lines (or event lines) of the PULPino event unit.  A register is the    *)
(* set of the line numbers whose bit is 1.  All registers are clocked      *)
(* together, so there is one action, Clk, for one rising edge of HCLK; its *)
(* parameters are the wires of that cycle.                                 *)
(***************************************************************************)
EXTENDS Naturals

CONSTANT Lines              \* the input lines, 0..31 in the hardware

VARIABLES
  enable,                   \* REG_ENABLE:  lines that may become pending
  pending,                  \* REG_PENDING: lines waiting for software
  set_pending,              \* REG_SET_PENDING: one-cycle software trigger
  clear_pending,            \* REG_CLEAR_PENDING: one-cycle acknowledge
  irq_o                     \* registered one-hot output

regs == <<enable, pending, set_pending, clear_pending, irq_o>>

RegNames == {"ENABLE", "PENDING", "SET_PENDING", "CLEAR_PENDING"}

\* The APB write of a cycle: what the select, enable and write wires say.
Writes  == [reg : RegNames, data : SUBSET Lines]
NoWrite == [reg |-> "NONE", data |-> {}]

TypeOK ==
  /\ enable \in SUBSET Lines
  /\ pending \in SUBSET Lines
  /\ set_pending \in SUBSET Lines
  /\ clear_pending \in SUBSET Lines
  /\ irq_o \in SUBSET Lines

\* The one-hot choice among pending lines: the lowest number wins.
Highest(S) == {i \in S : \A j \in S : i <= j}

\* Faulty variants: no software trigger; pending lines masked by the enable
\* register.
LatchedNoTrigger(sig) == ((enable \cap sig) \cup pending) \ clear_pending
LatchedMasked(sig) == ((enable \cap (sig \cup pending)) \cup set_pending) \ clear_pending

\* What the pending register becomes when software does not write it.
Latched(sig) ==
  ((enable \cap sig) \cup pending \cup set_pending) \ clear_pending

\* The value a register takes: the APB data if it is addressed, else dflt.
Written(wr, name, dflt) == IF wr.reg = name THEN wr.data ELSE dflt

Init ==
  /\ enable = {}
  /\ pending = {}
  /\ set_pending = {}
  /\ clear_pending = {}
  /\ irq_o = {}

Clk(sig, wr) ==
  /\ enable' = Written(wr, "ENABLE", enable)
  /\ pending' = Written(wr, "PENDING", Latched(sig))
  /\ set_pending' = Written(wr, "SET_PENDING", {})
  /\ clear_pending' = Written(wr, "CLEAR_PENDING", {})
  /\ irq_o' = Highest(pending)
=============================================================================
