--------------------------- MODULE RiscyCoreProofs ---------------------------
(***************************************************************************)
(* Proofs about RiscyCore, for every set of instruction classes, interrupt *)
(* numbers and debugger accesses and for slow and fast data buses.         *)
(***************************************************************************)
EXTENDS RiscyCore, TLAPS

Halted   == {"DBG_WAIT", "DBG_WAIT_SLEEP", "DBG_WAIT_ELW"}
Signals  == {"DBG_SIGNAL", "DBG_SIGNAL_SLEEP", "DBG_SIGNAL_ELW", "DBG_WAIT_BRANCH"}
Entering == {"IRQ_TAKEN_ID", "IRQ_TAKEN_IF"}

\* The controller announces a halt only while the debug unit asks for it.
Ownership ==
  /\ stall = "HALT" <=> ctrl \in Halted
  /\ ctrl \in Signals => stall = "HALT_REQ"

\* Where an mstatus write may still be in EX.
CsrWindow == {"DECODE", "FLUSH_EX", "DBG_SIGNAL", "DBG_WAIT"}

\* A write to mstatus executes alone: nothing valid is behind it in ID, and
\* it is gone before the controller decides about an interrupt.
CsrAlone ==
  ex.k \in CsrStatus => ~instr_valid /\ ctrl \in CsrWindow /\ boot_done

\* Before the boot address is set the core is in reset, or halted there.
NotBooted == ~boot_done => ctrl \in {"RESET", "BOOT_SET", "DBG_SIGNAL", "DBG_WAIT"}

IInv ==
  /\ TypeOK
  /\ Ownership
  /\ CsrAlone
  /\ NotBooted
  /\ TakenOnlyWhenEnabled
  /\ NoReLatch

-----------------------------------------------------------------------------
\* The inputs of a cycle.
Inputs ==
  [fetch : Offers, gnt : BOOLEAN, rvalid : BOOLEAN, aluReady : BOOLEAN,
   fetch_enable : BOOLEAN, irq : BOOLEAN, irq_id_i : Ids,
   dbg : DbgWrites \cup {DbgIdle}]

\* Every step is a cycle with well-formed and possible inputs.
LEMMA NextIsCycle ==
  ASSUME Next PROVE \E inp \in Inputs : Possible(inp) /\ Cycle(inp)
<1>1. PICK a \in BOOLEAN, g \in BOOLEAN, r \in BOOLEAN, fe \in FetchEnables,
           q \in IrqLines, d \in DebugBus, f \in Offered :
        /\ Possible(Wires(f, g, r, a, fe, q, d))
        /\ Cycle(Wires(f, g, r, a, fe, q, d))
  BY DEF Next, Clk
<1>2. fe \in BOOLEAN /\ f \in Offers
  BY DEF FetchEnables, Offered, Offers
<1>3. q \in IrqWires
  BY DEF IrqLines, IrqWires
<1>4. q.irq \in BOOLEAN /\ q.id \in Ids
  <2>1. CASE q = NoIrq
    BY <2>1, CoreAssumption DEF NoIrq
  <2>2. CASE q \in [irq : {TRUE}, id : Ids]
    BY <2>2
  <2> QED BY <1>3, <2>1, <2>2 DEF IrqWires
<1>5. Wires(f, g, r, a, fe, q, d) \in Inputs
  BY <1>2, <1>4 DEF Wires, Inputs, DebugBus
<1> QED BY <1>1, <1>5

\* What the prefetcher offers is an instruction of the program or nothing.
LEMMA OfferType ==
  ASSUME NEW f \in Offers
  PROVE  f = NoFetch \/ (f.k \in Insns /\ f.uses \in SUBSET {"load", "alu"})
<1>1. CASE f \in UNION {[k : {i}, uses : Operands(i)] : i \in Insns}
  <2>1. PICK i \in Insns : f \in [k : {i}, uses : Operands(i)]
    BY <1>1
  <2>2. Operands(i) \subseteq SUBSET {"load", "alu"}
    BY DEF Operands
  <2> QED BY <2>1, <2>2
<1> QED BY <1>1 DEF Offers

\* A debugger write carries Booleans.
LEMMA DbgType ==
  ASSUME NEW d \in DbgWrites \cup {DbgIdle}
  PROVE  /\ d.reg = "MSTATUS" => d.mie \in BOOLEAN /\ d.mpie \in BOOLEAN
         /\ d.reg = "CTRL" => d.halt \in BOOLEAN /\ d.sste \in BOOLEAN
         /\ d.reg = "IE" => d.traps \subseteq DbgTraps
BY CoreAssumption DEF DbgBus, DbgIdle

\* A clock edge keeps everything but the controller state well typed,
\* whatever the controller puts out.
LEMMA EdgeType ==
  ASSUME TypeOK, NEW inp \in Inputs, NEW o, Edge(inp, o),
         ctrl' \in CtrlStates
  PROVE  TypeOK'
<1> USE DEF TypeOK
<1>1. boot_done' \in BOOLEAN /\ jump_done' \in BOOLEAN
  BY DEF Edge
<1>2. exc' \in {"IDLE", "IRQ_PENDING", "IRQ_DONE"} /\ irq_id' \in Ids
  BY DEF Edge, IntController, Inputs
<1>3. mie' \in BOOLEAN /\ mpie' \in BOOLEAN
  BY DbgType DEF Edge, Mstatus, Inputs
<1>4. stall' \in {"RUNNING", "HALT_REQ", "HALT"} /\ jump_req' \in BOOLEAN
  BY DEF Edge, DebugUnit
<1>5. settings' \in SUBSET Settings
  BY DbgType DEF Edge, DebugUnit, Inputs, Settings, When
<1>6. id' \in [k : Insns \cup {"none"}, uses : SUBSET {"load", "alu"}, wrong : BOOLEAN]
  BY OfferType DEF Edge, Stages, Inputs, if_valid
<1>7. instr_valid' \in BOOLEAN
  BY DEF Edge, Stages
<1>8. ex' \in [k : Insns \cup {"none"}, wrong : BOOLEAN]
  BY DEF Edge, Stages, Bubble
<1>9. wb' \in MemOps \cup {"none"}
  BY DEF Edge, Stages, MemRequest
<1>10. path' \in {"right", "wrong"} /\ owed' \in Insns \cup {"none"}
  BY DEF Edge, History
<1>11. stepped' \in {"off", "zero", "one", "many"}
  BY DEF Edge, History
<1> QED
  BY <1>1, <1>2, <1>3, <1>4, <1>5, <1>6, <1>7, <1>8, <1>9, <1>10, <1>11

-----------------------------------------------------------------------------
\* What every action of the controller has in common, as far as the invariant
\* depends on it: which transitions it makes and with which outputs.
Acknowledging == {"DBG_SIGNAL", "DBG_SIGNAL_SLEEP", "DBG_SIGNAL_ELW"}

Shape(inp, o) ==
  /\ Edge(inp, o)
  /\ ctrl' \in CtrlStates
  /\ "irq_ack" \in o => "save" \in o
  \* the debugger gets the core by an acknowledged request and keeps it
  /\ "dbg_ack" \in o <=> ctrl \in Acknowledging
  /\ ctrl' \in Halted <=> ctrl \in Acknowledging \/ (ctrl \in Halted /\ ~dbg_resume(inp))
  /\ ctrl' \in Signals => "dbg_ack" \notin o /\ dbg_req(inp, "trap" \in o)
  \* a handler is entered for a request that is held and enabled
  /\ ctrl' \in Entering =>
       /\ ctrl \in {"FIRST_FETCH", "IRQ_FLUSH"} /\ irq_req /\ mie
       /\ "save" \notin o /\ "restore" \notin o /\ "irq_ack" \notin o /\ "kill" \notin o
  \* mstatus writes are decoded with the fetch halted, and drain
  /\ "is_decoding" \in o /\ "halt_id" \notin o /\ id.k \in CsrStatus =>
       /\ "halt_if" \in o /\ instr_valid /\ boot_done
       /\ ctrl' \in {"DECODE", "FLUSH_EX", "DBG_SIGNAL"}
  /\ ex.k \in CsrStatus /\ ~ex_ready(inp) => ctrl' \in CsrWindow
  /\ ~boot_done /\ "boot" \notin o => ctrl' \in {"RESET", "BOOT_SET", "DBG_SIGNAL", "DBG_WAIT"}

LEMMA CycleShape ==
  ASSUME IInv, NEW inp \in Inputs, Cycle(inp)
  PROVE  \E o : Shape(inp, o)
<1> USE DEF Shape, Quiet, HaltIF, HaltAll, When, Halted, Signals, Entering,
            Acknowledging, CsrWindow, CtrlStates, CsrStatus, Ownership, CsrAlone,
            NotBooted, dbg_req, irq_req
<1>0. Ownership /\ CsrAlone /\ NotBooted
  BY DEF IInv
<1>1. CASE Reset(inp)
  BY <1>0, <1>1 DEF Reset
<1>2. CASE BootSet(inp)
  BY <1>0, <1>2 DEF BootSet
<1>3. CASE WaitSleep(inp)
  BY <1>0, <1>3 DEF WaitSleep
<1>4. CASE Sleep(inp)
  BY <1>0, <1>4 DEF Sleep
<1>5. CASE FirstFetch(inp)
  BY <1>0, <1>5 DEF FirstFetch
<1>6. CASE FirstFetchIrq(inp)
  BY <1>0, <1>6 DEF FirstFetchIrq, irq_enable_int
<1>7. CASE DecodeBranch(inp)
  BY <1>0, <1>7 DEF DecodeBranch, branch_taken_ex
<1>8. CASE DecodeNothing(inp)
  BY <1>0, <1>8 DEF DecodeNothing, branch_taken_ex
<1>9. CASE DecodeIrq(inp)
  BY <1>0, <1>9 DEF DecodeIrq, branch_taken_ex
<1>10. CASE DecodeJump(inp)
  BY <1>0, <1>10 DEF DecodeJump, branch_taken_ex, Decoding, Decoded, Jumps, Flushing, Traps, Branches
<1>11. CASE DecodeFlush(inp)
  BY <1>0, <1>11 DEF DecodeFlush, branch_taken_ex, Decoding, Decoded, Jumps, Flushing, Traps, Branches
<1>12. CASE DecodeCsr(inp)
  BY <1>0, <1>12 DEF DecodeCsr, branch_taken_ex, Decoding, Decoded, Jumps, Flushing, Traps, Branches
<1>13. CASE DecodeElw(inp)
  BY <1>0, <1>13 DEF DecodeElw, branch_taken_ex, Decoding, Decoded, Jumps, Flushing, Traps, Branches
<1>14. CASE DecodePlain(inp)
  BY <1>0, <1>14 DEF DecodePlain, branch_taken_ex, Decoding, Decoded, Jumps, Flushing, Traps, Branches
<1>15. CASE ElwExe(inp)
  BY <1>0, <1>15 DEF ElwExe
<1>16. CASE IrqFlush(inp)
  BY <1>0, <1>16 DEF IrqFlush, irq_enable_int
<1>17. CASE IrqTaken(inp)
  BY <1>0, <1>17 DEF IrqTaken
<1>18. CASE FlushEx(inp)
  BY <1>0, <1>18 DEF FlushEx, ex_ready
<1>19. CASE FlushWb(inp)
  BY <1>0, <1>19 DEF FlushWb, Traps
<1>20. CASE DbgWaitBranch(inp)
  BY <1>0, <1>20 DEF DbgWaitBranch
<1>21. CASE DbgSignal(inp)
  BY <1>0, <1>21 DEF DbgSignal
<1>22. CASE DbgWait(inp)
  BY <1>0, <1>22 DEF DbgWait, dbg_stall, debug_halted
<1> QED
  BY <1>1, <1>2, <1>3, <1>4, <1>5, <1>6, <1>7, <1>8, <1>9, <1>10, <1>11, <1>12, <1>13, <1>14, <1>15, <1>16, <1>17, <1>18, <1>19, <1>20, <1>21, <1>22 DEF Cycle

\* The invariant is inductive: each part follows from what all steps share.
LEMMA ShapeKeepsInvariant ==
  ASSUME IInv, NEW inp \in Inputs, NEW o, Shape(inp, o)
  PROVE  IInv'
<1> USE DEF IInv, Halted, Signals, Entering, Acknowledging
<1>1. TypeOK'
  BY EdgeType DEF Shape
<1>2. Ownership'
  BY DEF Shape, Edge, DebugUnit, Ownership, TypeOK, dbg_req, dbg_halt, dbg_resume,
         debug_halted
<1>3. CsrAlone'
  <2> SUFFICES ASSUME ex'.k \in CsrStatus
               PROVE  ~instr_valid' /\ ctrl' \in CsrWindow /\ boot_done'
    BY DEF CsrAlone
  \* It entered EX in this cycle, with the fetch halted ...
  <2>1. CASE executes(inp, o)
    <3>1. id.k \in CsrStatus
      BY <2>1 DEF Shape, Edge, Stages
    <3> QED
      BY <2>1, <3>1 DEF Shape, Edge, Stages, executes, id_valid, if_valid,
                        clear_instr_valid, CsrWindow
  \* ... or it is held there, and then ID is not ready either.
  <2>2. CASE ~executes(inp, o)
    <3>1. ex' = ex /\ ~ex_ready(inp)
      BY <2>2 DEF Shape, Edge, Stages, Bubble, CsrStatus
    <3>2. ex.k \in CsrStatus
      BY <3>1
    <3> QED
      BY <3>1, <3>2 DEF Shape, Edge, Stages, if_valid, id_ready, CsrAlone
  <2> QED BY <2>1, <2>2
<1>4. NotBooted'
  BY DEF Shape, Edge, NotBooted
<1>5. TakenOnlyWhenEnabled'
  <2> SUFFICES ASSUME ctrl' \in Entering PROVE irq_req' /\ mie'
    BY DEF TakenOnlyWhenEnabled
  <2>1. ex.k \notin CsrStatus /\ stall # "HALT"
    BY DEF Shape, CsrAlone, CsrWindow, Ownership
  <2>2. mie'
    BY <2>1 DEF Shape, Edge, Mstatus, debug_halted
  <2>3. irq_req'
    BY DEF Shape, Edge, IntController, irq_req
  <2> QED BY <2>2, <2>3
<1>6. NoReLatch'
  BY DEF Shape, Edge, IntController, Mstatus, NoReLatch, TypeOK
<1> QED BY <1>1, <1>2, <1>3, <1>4, <1>5, <1>6

LEMMA InitInvariant == Init => IInv
<1> SUFFICES ASSUME Init PROVE IInv
  OBVIOUS
<1>1. TypeOK
  <2>1. id \in [k : Insns \cup {"none"}, uses : SUBSET {"load", "alu"}, wrong : BOOLEAN]
    BY DEF Init
  <2>2. ex \in [k : Insns \cup {"none"}, wrong : BOOLEAN]
    BY DEF Init, Bubble
  <2>3. ctrl \in CtrlStates /\ settings \in SUBSET Settings /\ irq_id \in Ids
    BY CoreAssumption DEF Init, CtrlStates
  <2> QED BY <2>1, <2>2, <2>3 DEF Init, TypeOK
<1>2. Ownership
  BY DEF Init, Ownership, Halted, Signals
<1>3. CsrAlone
  BY DEF Init, CsrAlone, Bubble, CsrStatus
<1>4. NotBooted /\ TakenOnlyWhenEnabled /\ NoReLatch
  BY DEF Init, NotBooted, TakenOnlyWhenEnabled, NoReLatch
<1> QED BY <1>1, <1>2, <1>3, <1>4 DEF IInv

LEMMA StepInvariant == IInv /\ [Next]_coreVars => IInv'
<1> SUFFICES ASSUME IInv, [Next]_coreVars PROVE IInv'
  OBVIOUS
<1>1. CASE Next
  <2>1. PICK inp \in Inputs : Cycle(inp)
    BY <1>1, NextIsCycle
  <2>2. PICK o : Shape(inp, o)
    BY <2>1, CycleShape
  <2> QED BY <2>2, ShapeKeepsInvariant
<1>2. CASE UNCHANGED coreVars
  BY <1>2 DEF coreVars, ctlVars, irqVars, dbgVars, pipeVars, history, IInv, TypeOK,
     Ownership, CsrAlone, NotBooted, TakenOnlyWhenEnabled, NoReLatch, irq_req
<1> QED BY <1>1, <1>2

\* The combined invariant holds in every reachable state.
THEOREM CoreInvariant == Spec => []IInv
BY InitInvariant, StepInvariant, PTL DEF Spec

\* Every register of the core's control stays in its type.
THEOREM TypeCorrect == Spec => []TypeOK
<1>1. IInv => TypeOK
  BY DEF IInv
<1> QED BY <1>1, CoreInvariant, PTL

\* A handler is entered only for a request the interrupt controller holds and
\* with interrupts enabled, whatever a pending mstatus write, a debugger or a
\* slow bus does between the decision and the entry.
THEOREM TakenSafely == Spec => []TakenOnlyWhenEnabled
<1>1. IInv => TakenOnlyWhenEnabled
  BY DEF IInv
<1> QED BY <1>1, CoreInvariant, PTL

\* While an acknowledged request is retired, interrupts are off.
THEOREM AcknowledgedOnce == Spec => []NoReLatch
<1>1. IInv => NoReLatch
  BY DEF IInv
<1> QED BY <1>1, CoreInvariant, PTL

\* The debug unit and the controller agree on who owns the core.
THEOREM OneOwner == Spec => []HaltAgreement
<1>1. IInv => HaltAgreement
  BY DEF IInv, Ownership, HaltAgreement, Halted
<1> QED BY <1>1, CoreInvariant, PTL
-----------------------------------------------------------------------------
\* Branches, jumps and single steps.

\* The core is on its way to a halt, or halted, with nothing left to execute:
\* after an mstatus write it first drains the pipeline.
Stopping ==
  \/ ctrl \in Signals \cup Halted
  \/ ctrl \in {"FLUSH_EX", "FLUSH_WB"} /\ id.k \in CsrStatus

\* A step is counted only while single-stepping is on, and the instruction that was
\* stepped has the core stopping.
Stepping ==
  /\ stepped # "off" => sste
  /\ stepped # "many"
  /\ stepped = "one" => Stopping

XInv == BranchNotLost /\ JumpDoneIsMine /\ Stepping

\* What every action of the controller has in common, as far as these depend on it.
Conduct(inp, o) ==
  /\ Edge(inp, o)
  \* a branch goes to EX under the eyes of a state that redirects the fetch
  /\ executes(inp, o) /\ id.k = "brTaken" => ctrl' \in {"DECODE", "DBG_WAIT_BRANCH"}
  \* jump_done is set with the redirect
  /\ "jump" \in o => "pc_set" \in o /\ id.k \in Jumps
  \* whatever takes effect in single-step mode brings the core to a halt
  /\ sste /\ retired(inp, o) =>
       \/ ctrl' \in Signals
       \/ ctrl' = "FLUSH_EX" /\ id.k \in CsrStatus /\ "halt_if" \in o
  /\ sste /\ Stopping =>
       /\ ~retired(inp, o)
       /\ \/ ctrl' \in Signals \cup Halted
          \/ ctrl' \in {"FLUSH_EX", "FLUSH_WB"} /\ id.k \in CsrStatus /\ "halt_if" \in o
          \/ dbg_resume(inp)

LEMMA CycleConduct ==
  ASSUME IInv, NEW inp \in Inputs, Cycle(inp)
  PROVE  \E o : Conduct(inp, o)
<1> USE DEF Conduct, Quiet, HaltIF, HaltAll, When, Halted, Signals, Stopping, CsrStatus, Ownership,
            dbg_req, irq_req, retired, executes, id_valid, Flushing, Traps
<1>0. Ownership
  BY DEF IInv
<1>00. stall \in {"RUNNING", "HALT_REQ", "HALT"}
  BY DEF IInv, TypeOK
<1>1. CASE Reset(inp)
  BY <1>0, <1>1 DEF Reset
<1>2. CASE BootSet(inp)
  BY <1>0, <1>2 DEF BootSet
<1>3. CASE WaitSleep(inp)
  BY <1>0, <1>3 DEF WaitSleep
<1>4. CASE Sleep(inp)
  BY <1>0, <1>4 DEF Sleep
<1>5. CASE FirstFetch(inp)
  BY <1>0, <1>5 DEF FirstFetch
<1>6. CASE FirstFetchIrq(inp)
  BY <1>0, <1>6 DEF FirstFetchIrq
<1>7. CASE DecodeBranch(inp)
  BY <1>0, <1>7 DEF DecodeBranch
<1>8. CASE DecodeNothing(inp)
  BY <1>0, <1>8 DEF DecodeNothing
<1>9. CASE DecodeIrq(inp)
  BY <1>0, <1>9 DEF DecodeIrq
<1>10. CASE DecodeJump(inp)
  <2> DEFINE b == When(~jr_stall /\ ~jump_done, "pc_set") \cup When(~jr_stall /\ ~jump_done, "jump")
                    \cup When(sste, "trap")
             dbg == dbg_req(inp, "trap" \in b)
             o == b \cup {"is_decoding"} \cup When(irq_req, "kill") \cup When(dbg, "halt_if")
  <2>1. Edge(inp, o) /\ ctrl = "DECODE" /\ id.k \in Jumps
        /\ ctrl' = IF dbg /\ id_ready(inp)
                   THEN (IF id.k \in Branches THEN "DBG_WAIT_BRANCH" ELSE "DBG_SIGNAL")
                   ELSE "DECODE"
    BY <1>10 DEF DecodeJump, Decoding, Decoded
  <2>2. sste => dbg
    BY <1>0, <1>00, <2>1
  <2>3. retired(inp, o) => id_ready(inp)
    OBVIOUS
  <2>4. Conduct(inp, o)
    BY <1>0, <2>1, <2>2, <2>3 DEF Jumps, Branches
  <2> QED BY <2>4
<1>11. CASE DecodeFlush(inp)
  BY <1>0, <1>11 DEF DecodeFlush, Decoding, Decoded, Jumps, Branches
<1>12. CASE DecodeCsr(inp)
  BY <1>0, <1>12 DEF DecodeCsr, Decoding, Decoded, Jumps, Branches
<1>13. CASE DecodeElw(inp)
  <2> DEFINE b == HaltIF \cup When(sste, "trap")
             dbg == dbg_req(inp, "trap" \in b)
             o == b \cup {"is_decoding"} \cup When(irq_req, "kill") \cup When(dbg, "halt_if")
  <2>1. Edge(inp, o) /\ ctrl = "DECODE" /\ id.k = "elw"
        /\ ctrl' = IF dbg /\ id_ready(inp)
                   THEN (IF id.k \in Branches THEN "DBG_WAIT_BRANCH" ELSE "DBG_SIGNAL")
                   ELSE IF id_ready(inp) THEN "ELW_EXE" ELSE "DECODE"
    BY <1>13 DEF DecodeElw, Decoding, Decoded
  <2>2. sste => dbg
    BY <1>0, <1>00, <2>1
  <2>3. retired(inp, o) => id_ready(inp)
    OBVIOUS
  <2>4. Conduct(inp, o)
    BY <1>0, <2>1, <2>2, <2>3 DEF Jumps, Branches
  <2> QED BY <2>4
<1>14. CASE DecodePlain(inp)
  <2> DEFINE b == When(sste, "trap")
             dbg == dbg_req(inp, "trap" \in b)
             o == b \cup {"is_decoding"} \cup When(irq_req, "kill") \cup When(dbg, "halt_if")
  <2>1. Edge(inp, o) /\ ctrl = "DECODE" /\ id.k \in {"alu", "div", "load", "store"} \cup Branches
        /\ ctrl' = IF dbg /\ id_ready(inp)
                   THEN (IF id.k \in Branches THEN "DBG_WAIT_BRANCH" ELSE "DBG_SIGNAL")
                   ELSE "DECODE"
    BY <1>14 DEF DecodePlain, Decoding, Decoded
  <2>2. sste => dbg
    BY <1>0, <1>00, <2>1
  <2>3. retired(inp, o) => id_ready(inp)
    OBVIOUS
  <2>4. Conduct(inp, o)
    BY <1>0, <2>1, <2>2, <2>3 DEF Jumps, Branches
  <2> QED BY <2>4
<1>15. CASE ElwExe(inp)
  BY <1>0, <1>15 DEF ElwExe
<1>16. CASE IrqFlush(inp)
  BY <1>0, <1>16 DEF IrqFlush
<1>17. CASE IrqTaken(inp)
  BY <1>0, <1>17 DEF IrqTaken
<1>18. CASE FlushEx(inp)
  BY <1>0, <1>18 DEF FlushEx
<1>19. CASE FlushWb(inp)
  <2> DEFINE trap == sste \/ id.k \in settings
             dbg  == dbg_req(inp, trap)
             o == HaltAll \cup {"retire"} \cup When(trap, "trap")
                    \cup When(id.k \in Traps \cup {"mret"}, "pc_set")
                    \cup When(id.k \in Traps, "save")
                    \cup When(id.k = "mret", "restore")
  <2>1. Edge(inp, o) /\ ctrl = "FLUSH_WB" /\ (dbg => ctrl' \in {"DBG_SIGNAL", "DBG_SIGNAL_SLEEP"})
    BY <1>19 DEF FlushWb
  <2>2. sste => dbg
    BY <1>0, <1>00, <2>1
  <2>3. Conduct(inp, o)
    BY <1>0, <2>1, <2>2
  <2> QED BY <2>3
<1>20. CASE DbgWaitBranch(inp)
  BY <1>0, <1>20 DEF DbgWaitBranch
<1>21. CASE DbgSignal(inp)
  BY <1>0, <1>21 DEF DbgSignal
<1>22. CASE DbgWait(inp)
  BY <1>0, <1>22 DEF DbgWait, dbg_stall, debug_halted
<1> QED
  BY <1>1, <1>2, <1>3, <1>4, <1>5, <1>6, <1>7, <1>8, <1>9, <1>10, <1>11, <1>12, <1>13, <1>14, <1>15,
     <1>16, <1>17, <1>18, <1>19, <1>20, <1>21, <1>22 DEF Cycle

LEMMA ConductKeeps ==
  ASSUME IInv, XInv, NEW inp \in Inputs, NEW o, Conduct(inp, o)
  PROVE  XInv'
<1> USE DEF XInv, Conduct
<1>1. BranchNotLost'
  <2> SUFFICES ASSUME ex'.k = "brTaken"
               PROVE  ctrl' \in {"DECODE", "DBG_WAIT_BRANCH"}
    BY DEF BranchNotLost, branch_taken_ex
  \* a branch leaves EX in any case, so this one entered it now
  <2>1. executes(inp, o) /\ id.k = "brTaken"
    BY DEF Edge, Stages, Bubble, ex_ready, Branches
  <2> QED
    BY <2>1
<1>2. JumpDoneIsMine'
  <2> SUFFICES ASSUME jump_done', instr_valid'
               PROVE  id'.k \in Jumps /\ path' = "right"
    BY DEF JumpDoneIsMine
  <2>1. ~id_ready(inp) /\ ("jump" \in o \/ jump_done)
    BY DEF Edge
  <2>2. id' = id /\ instr_valid /\ (path' = "right" \/ path' = path) /\ ("pc_set" \in o => path' = "right")
    BY <2>1 DEF Edge, Stages, History, if_valid
  <2> QED
    BY <2>1, <2>2 DEF JumpDoneIsMine
<1>3. Stepping'
  <2>1. stepped' # "off" => sste'
    BY DEF Edge, History, sste, Stepping
  <2>2. stepped' # "many"
    BY DEF Edge, History, Stepping, IInv, TypeOK
  <2>3. stepped' = "one" => Stopping'
    <3> SUFFICES ASSUME stepped' = "one" PROVE Stopping'
      OBVIOUS
    <3>1. ~dbg_resume(inp) /\ stepped # "off"
      BY DEF Edge, History
    <3>2. "halt_if" \in o => id' = id
      BY DEF Edge, Stages, if_valid
    <3>3. CASE retired(inp, o)
      BY <3>1, <3>2, <3>3 DEF Stepping, Stopping
    <3>4. CASE ~retired(inp, o)
      <4>1. stepped = "one"
        BY <3>1, <3>4 DEF Edge, History
      <4> QED
        BY <3>1, <3>2, <4>1 DEF Stepping, Stopping
    <3> QED
      BY <3>3, <3>4
  <2> QED
    BY <2>1, <2>2, <2>3 DEF Stepping
<1> QED
  BY <1>1, <1>2, <1>3

\* Branches, jump_done and the step counter: none of the three is inductive alone
\* (a counted step matters only with where the controller then is).
THEOREM ConductInvariant == Spec => []XInv
<1>1. Init => XInv
  BY DEF Init, XInv, BranchNotLost, branch_taken_ex, Bubble, JumpDoneIsMine, Stepping
<1>2. IInv /\ XInv /\ [Next]_coreVars => XInv'
  <2> SUFFICES ASSUME IInv, XInv, [Next]_coreVars PROVE XInv'
    OBVIOUS
  <2>1. CASE Next
    <3>1. PICK inp \in Inputs : Cycle(inp)
      BY <2>1, NextIsCycle
    <3>2. PICK o : Conduct(inp, o)
      BY <3>1, CycleConduct
    <3> QED BY <3>2, ConductKeeps
  <2>2. CASE UNCHANGED coreVars
    BY <2>2 DEF coreVars, ctlVars, irqVars, dbgVars, pipeVars, history, XInv, BranchNotLost,
       branch_taken_ex, JumpDoneIsMine, Stepping, Stopping, sste
  <2> QED BY <2>1, <2>2
<1> QED BY <1>1, <1>2, CoreInvariant, PTL DEF Spec

\* A taken branch in EX is always seen by a state that redirects the fetch to its
\* target, also when a debug request arrives with it.
THEOREM BranchRedirects == Spec => []BranchNotLost
<1>1. XInv => BranchNotLost
  BY DEF XInv
<1> QED BY <1>1, ConductInvariant, PTL

\* jump_done never hides the redirect of another jump, however long ID is stalled.
THEOREM JumpDoneMine == Spec => []JumpDoneIsMine
<1>1. XInv => JumpDoneIsMine
  BY DEF XInv
<1> QED BY <1>1, ConductInvariant, PTL

\* A resume in single-step mode executes one instruction at most, whatever its class,
\* the bus, interrupts and writes of the debugger in between.
THEOREM StepsOnce == Spec => []SingleStep
<1>1. XInv => SingleStep
  BY DEF XInv, Stepping, SingleStep
<1> QED BY <1>1, ConductInvariant, PTL
-----------------------------------------------------------------------------
\* The program's path, with data memory that answers in the next cycle and without
\* a debugger.  (With late data a wrong-path instruction survives the redirect; a
\* debug request may replace the flush of an instruction that has left ID.)

Direct == ~SlowData /\ DbgWrites = {}

\* Nobody debugs the core.
Alone == stall = "RUNNING" /\ settings = {} /\ ~jump_req

\* Classes after which the program goes on elsewhere.
Redirecting == Jumps \cup Traps \cup {"brTaken", "mret"}

\* States in which ID is empty, those in which it has kept the instruction that was
\* decoded last, and those before the first instruction.
Resting == {"ELW_EXE", "IRQ_FLUSH", "IRQ_TAKEN_ID", "IRQ_TAKEN_IF", "FLUSH_EX", "FLUSH_WB",
            "WAIT_SLEEP", "SLEEP"}
Keeping == {"ELW_EXE", "IRQ_FLUSH", "IRQ_TAKEN_ID", "FLUSH_EX", "FLUSH_WB"}
Booting == {"RESET", "BOOT_SET", "FIRST_FETCH"}

\* What ID and EX may hold of the wrong path: an instruction behind a taken branch,
\* what was fetched before the boot address was set, and a register jump that was
\* waiting for its operand when the branch redirected the fetch.
Held ==
  /\ ex.wrong => ex.k = "jalr"
  /\ instr_valid => id.k \in Insns /\ ctrl \notin Resting
  /\ instr_valid /\ id.wrong => ex.k = "brTaken" \/ ctrl \in Booting \/ id.k = "jalr"
  /\ instr_valid /\ ctrl \in Booting => id.wrong
  /\ instr_valid /\ ex.k = "brTaken" => id.wrong
  /\ ctrl \in Keeping /\ id.wrong => id.k = "jalr"

\* Wherever the fetch is on the wrong path, what redirects it is on its way; and a
\* taken branch has led the fetch astray until it does.
Astray ==
  /\ path = "wrong" =>
       \/ ~boot_done
       \/ ex.k = "brTaken"
       \/ instr_valid /\ ~id.wrong /\ ~jump_done /\ id.k \in Redirecting
       \/ ctrl \in {"FLUSH_EX", "FLUSH_WB"} /\ id.k \in Traps \cup {"mret"}
       \/ ctrl \in {"IRQ_FLUSH", "IRQ_TAKEN_ID"} /\ owed # "none"
  /\ ~boot_done => path = "wrong"
  /\ ctrl \in {"RESET", "BOOT_SET"} => ~boot_done
  /\ ex.k = "brTaken" => path = "wrong"
  /\ instr_valid /\ ~id.wrong /\ id.k = "brTaken" => path = "wrong"

\* An instruction that an interrupt pushed out of ID is saved: the interrupt cannot
\* go away meanwhile.
Owed ==
  /\ NothingForgotten
  /\ ctrl = "IRQ_FLUSH" /\ owed # "none" => irq_req /\ mie

PathInv == Alone /\ Held /\ Astray /\ Owed

\* What a clock edge does to what the invariant speaks of, whatever the controller
\* puts out, as long as it does not ask for a halt.
Moved(inp, o) ==
  /\ Alone'
  /\ boot_done' <=> "boot" \in o \/ boot_done
  /\ jump_done' => "jump" \in o \/ jump_done
  /\ \/ /\ if_valid(inp, o) /\ instr_valid' /\ ~jump_done'
        /\ id'.k \in Insns /\ (id'.wrong <=> path = "wrong")
        /\ path' = IF id'.k \in Redirecting THEN "wrong" ELSE path
     \/ /\ ~if_valid(inp, o) /\ id' = id
        /\ instr_valid' <=> instr_valid /\ ~clear_instr_valid(inp, o)
        /\ path' = IF "pc_set" \in o THEN "right" ELSE path
  /\ \/ executes(inp, o) /\ ex'.k = id.k /\ ex'.wrong = id.wrong
     \/ ~executes(inp, o) /\ ex'.k # "brTaken" /\ (ex'.wrong => ex.wrong /\ ex'.k = ex.k)
  /\ owed' = IF dropped(inp, o) THEN id.k
             ELSE IF "retire" \in o \/ "save" \in o THEN "none" ELSE owed

LEMMA EdgeMoves ==
  ASSUME Direct, TypeOK, Alone, NEW inp \in Inputs, NEW o, Edge(inp, o), "trap" \notin o
  PROVE  Moved(inp, o)
<1>1. inp.dbg = DbgIdle
  BY DEF Direct, Inputs
<1>2. Alone'
  <2>1. ~dbg_req(inp, "trap" \in o)
    BY <1>1 DEF Alone, DbgIdle, dbg_req, dbg_halt
  <2>2. stall' = "RUNNING"
    BY <2>1 DEF Edge, DebugUnit, Alone
  <2>3. settings' = settings
    BY <1>1 DEF Edge, DebugUnit, DbgIdle
  <2>4. ~jump_req'
    BY DEF Edge, DebugUnit, Alone, debug_halted
  <2> QED
    BY <2>2, <2>3, <2>4 DEF Alone
<1>3. ASSUME if_valid(inp, o)
      PROVE  /\ instr_valid' /\ ~jump_done' /\ id'.k \in Insns /\ (id'.wrong <=> path = "wrong")
             /\ path' = IF id'.k \in Redirecting THEN "wrong" ELSE path
  <2>1. inp.fetch.k \in Insns
    BY <1>3, OfferType DEF if_valid, Inputs
  <2>2. /\ instr_valid' /\ ~jump_done' /\ id'.k \in Insns /\ (id'.wrong <=> path = "wrong")
        /\ id'.k = inp.fetch.k
    BY <1>3, <2>1 DEF Edge, Stages, if_valid
  <2>3. path' = IF id'.k \in Redirecting THEN "wrong" ELSE path
    BY <1>3, <2>2 DEF Edge, History, if_valid, Redirecting
  <2> QED
    BY <2>2, <2>3
<1>4. ASSUME ~if_valid(inp, o)
      PROVE  /\ id' = id
             /\ instr_valid' <=> instr_valid /\ ~clear_instr_valid(inp, o)
             /\ path' = IF "pc_set" \in o THEN "right" ELSE path
  BY <1>4 DEF Edge, Stages, History
<1>5. ASSUME executes(inp, o) PROVE ex'.k = id.k /\ ex'.wrong = id.wrong
  BY <1>5 DEF Edge, Stages
<1>6. ASSUME ~executes(inp, o) PROVE ex'.k # "brTaken" /\ (ex'.wrong => ex.wrong /\ ex'.k = ex.k)
  BY <1>6 DEF Edge, Stages, Bubble, ex_ready, Branches
<1>7. /\ boot_done' <=> "boot" \in o \/ boot_done
      /\ jump_done' => "jump" \in o \/ jump_done
      /\ owed' = IF dropped(inp, o) THEN id.k
                 ELSE IF "retire" \in o \/ "save" \in o THEN "none" ELSE owed
  BY DEF Edge, History
<1> HIDE DEF Alone
<1> QED
  BY <1>2, <1>3, <1>4, <1>5, <1>6, <1>7 DEF Moved

\* Without a debugger nothing asks for a halt.
LEMMA NobodyAsks ==
  ASSUME Direct, Alone, NEW inp \in Inputs
  PROVE  ~sste /\ ~dbg_stall(inp) /\ ~dbg_req(inp, FALSE)
<1>1. inp.dbg = DbgIdle
  BY DEF Direct, Inputs
<1> QED
  BY <1>1 DEF Alone, DbgIdle, dbg_req, dbg_halt, dbg_stall, debug_halted, sste

\* The states in which ID is empty.
LEMMA RestingKeeps ==
  ASSUME Direct, IInv, XInv, PathInv, NEW inp \in Inputs, Cycle(inp), ctrl \in Resting
  PROVE  PathInv'
<1>1. /\ Alone /\ Held /\ Astray /\ Owed /\ TypeOK /\ ~instr_valid /\ boot_done /\ ex.k # "brTaken"
  BY DEF PathInv, Held, Resting, IInv, NotBooted, XInv, BranchNotLost, branch_taken_ex
<1>2. PICK o :
        /\ Edge(inp, o) /\ "trap" \notin o /\ "is_decoding" \notin o
        /\ "halt_if" \in o \/ "pc_set" \in o
        /\ ctrl' \in (Resting \ {"IRQ_TAKEN_IF"}) \cup {"FIRST_FETCH", "DECODE"}
        /\ ctrl' \in Keeping => ctrl \in Keeping
        /\ ctrl' = "IRQ_FLUSH" => ctrl = "ELW_EXE"
        /\ ctrl = "IRQ_FLUSH" /\ irq_req /\ mie => ctrl' = "IRQ_TAKEN_ID"
        /\ ctrl = "IRQ_FLUSH" => "retire" \notin o /\ "save" \notin o
        /\ ctrl = "FLUSH_EX" => ctrl' \in {"FLUSH_EX", "FLUSH_WB"}
        /\ ctrl \in {"FLUSH_WB", "IRQ_TAKEN_ID"} => "retire" \in o \/ "save" \in o
        /\ ctrl = "IRQ_TAKEN_ID" => "pc_set" \in o
        /\ ctrl = "FLUSH_WB" /\ id.k \in Traps \cup {"mret"} => "pc_set" \in o
  <2> DEFINE P(o) ==
        /\ Edge(inp, o) /\ "trap" \notin o /\ "is_decoding" \notin o
        /\ "halt_if" \in o \/ "pc_set" \in o
        /\ ctrl' \in (Resting \ {"IRQ_TAKEN_IF"}) \cup {"FIRST_FETCH", "DECODE"}
        /\ ctrl' \in Keeping => ctrl \in Keeping
        /\ ctrl' = "IRQ_FLUSH" => ctrl = "ELW_EXE"
        /\ ctrl = "IRQ_FLUSH" /\ irq_req /\ mie => ctrl' = "IRQ_TAKEN_ID"
        /\ ctrl = "IRQ_FLUSH" => "retire" \notin o /\ "save" \notin o
        /\ ctrl = "FLUSH_EX" => ctrl' \in {"FLUSH_EX", "FLUSH_WB"}
        /\ ctrl \in {"FLUSH_WB", "IRQ_TAKEN_ID"} => "retire" \in o \/ "save" \in o
        /\ ctrl = "IRQ_TAKEN_ID" => "pc_set" \in o
        /\ ctrl = "FLUSH_WB" /\ id.k \in Traps \cup {"mret"} => "pc_set" \in o
  <2>0. ~sste /\ ~dbg_req(inp, FALSE) /\ settings = {}
    BY <1>1, NobodyAsks DEF Alone
  <2> USE DEF Resting, Keeping, HaltAll, When
  <2>1. CASE WaitSleep(inp)
    <3>1. P(HaltAll)
      BY <2>1 DEF WaitSleep
    <3> QED BY <3>1
  <2>2. CASE Sleep(inp)
    <3>1. Edge(inp, HaltAll) /\ ctrl = "SLEEP" /\ ctrl' \in {"FIRST_FETCH", "SLEEP"}
      <4>1. HaltAll \cup When(sste, "trap") = HaltAll
        BY <2>0
      <4>2. ~dbg_req(inp, sste)
        BY <2>0 DEF dbg_req
      <4> QED
        BY <2>2, <4>1, <4>2 DEF Sleep
    <3>2. P(HaltAll)
      BY <3>1
    <3> QED BY <3>2
  <2>3. CASE ElwExe(inp)
    <3>1. P(HaltAll)
      BY <2>0, <2>3 DEF ElwExe
    <3> QED BY <3>1
  <2>4. CASE IrqFlush(inp)
    <3>1. P(HaltAll)
      BY <2>4 DEF IrqFlush, irq_enable_int
    <3> QED BY <3>1
  <2>5. CASE IrqTaken(inp)
    <3>1. P({"pc_set", "save", "irq_ack"})
      BY <2>5 DEF IrqTaken
    <3> QED BY <3>1
  <2>6. CASE FlushEx(inp)
    <3>1. P(HaltAll)
      BY <2>6 DEF FlushEx
    <3> QED BY <3>1
  <2>7. CASE FlushWb(inp)
    <3> DEFINE o == HaltAll \cup {"retire"} \cup When(id.k \in Traps \cup {"mret"}, "pc_set")
                      \cup When(id.k \in Traps, "save") \cup When(id.k = "mret", "restore")
    <3>1. Edge(inp, o) /\ ctrl = "FLUSH_WB" /\ ctrl' \in {"WAIT_SLEEP", "DECODE"}
      <4>1. ~(sste \/ id.k \in settings)
        BY <2>0
      <4>2. /\ o = HaltAll \cup {"retire"} \cup When(sste \/ id.k \in settings, "trap")
                     \cup When(id.k \in Traps \cup {"mret"}, "pc_set")
                     \cup When(id.k \in Traps, "save") \cup When(id.k = "mret", "restore")
            /\ ~dbg_req(inp, sste \/ id.k \in settings)
        BY <2>0, <4>1
      <4> HIDE DEF o
      <4> QED
        BY <2>7, <4>2 DEF FlushWb
    <3>2. /\ "trap" \notin o /\ "is_decoding" \notin o /\ "halt_if" \in o /\ "retire" \in o
          /\ id.k \in Traps \cup {"mret"} => "pc_set" \in o
      OBVIOUS
    <3> HIDE DEF o
    <3>3. P(o)
      BY <3>1, <3>2
    <3> QED BY <3>3
  <2> QED
    BY <2>1, <2>2, <2>3, <2>4, <2>5, <2>6, <2>7 DEF Cycle, Reset, BootSet, FirstFetch, FirstFetchIrq,
       DecodeBranch, DecodeNothing, DecodeIrq, DecodeJump, DecodeFlush, DecodeCsr, DecodeElw,
       DecodePlain, Decoding, DbgWaitBranch, DbgSignal, DbgWait
<1>3. /\ Alone' /\ boot_done' /\ id' = id /\ ~instr_valid'
      /\ path' = IF "pc_set" \in o THEN "right" ELSE path
      /\ ex'.k # "brTaken" /\ (ex'.wrong => ex.wrong /\ ex'.k = ex.k)
      /\ owed' = IF "retire" \in o \/ "save" \in o THEN "none" ELSE owed
  BY <1>1, <1>2, EdgeMoves DEF Moved, if_valid, executes, dropped
<1>4. Held'
  BY <1>1, <1>2, <1>3 DEF Held
<1>5. Astray'
  <2>1. CASE path = "wrong" /\ "pc_set" \notin o
    BY <1>1, <1>2, <1>3, <2>1 DEF Astray, Resting, Owed
  <2>2. CASE ~(path = "wrong" /\ "pc_set" \notin o)
    BY <1>1, <1>2, <1>3, <2>2 DEF Astray, Resting, TypeOK
  <2> QED BY <2>1, <2>2
<1>6. Owed'
  BY <1>1, <1>2, <1>3 DEF Owed, NothingForgotten, Resting
<1> QED
  BY <1>3, <1>4, <1>5, <1>6 DEF PathInv

\* The states before the first instruction.
LEMMA BootingKeeps ==
  ASSUME Direct, IInv, XInv, PathInv, NEW inp \in Inputs, Cycle(inp), ctrl \in Booting
  PROVE  PathInv'
<1>1. /\ Alone /\ Held /\ Astray /\ Owed /\ TypeOK /\ ex.k # "brTaken" /\ owed = "none"
      /\ ctrl = "FIRST_FETCH" => boot_done
      /\ ctrl # "FIRST_FETCH" => ~boot_done /\ path = "wrong"
      /\ instr_valid => id.wrong
  BY DEF PathInv, Held, Booting, IInv, NotBooted, XInv, BranchNotLost, branch_taken_ex, Astray,
     Owed, NothingForgotten
<1>2. ctrl = "FIRST_FETCH" => path = "right"
  BY <1>1 DEF Astray, TypeOK
<1>3. PICK o :
        /\ Edge(inp, o) /\ "trap" \notin o /\ "is_decoding" \notin o
        /\ \/ /\ ctrl = "RESET" /\ ctrl' \in {"RESET", "BOOT_SET"}
              /\ "boot" \notin o /\ "pc_set" \notin o
           \/ /\ ctrl = "BOOT_SET" /\ ctrl' = "FIRST_FETCH" /\ "boot" \in o /\ "pc_set" \in o
           \/ /\ ctrl = "FIRST_FETCH" /\ "pc_set" \notin o
              /\ \/ ctrl' = "FIRST_FETCH" /\ ~id_ready(inp) /\ "halt_id" \notin o
                 \/ ctrl' = "DECODE" /\ id_ready(inp)
                 \/ ctrl' = "IRQ_TAKEN_IF" /\ "halt_if" \in o /\ "halt_id" \in o
  <2>0. ~dbg_req(inp, FALSE) /\ ~dbg_stall(inp)
    BY <1>1, NobodyAsks
  <2>1. CASE Reset(inp)
    <3>1. Edge(inp, {}) /\ ctrl = "RESET" /\ ctrl' \in {"RESET", "BOOT_SET"}
      BY <2>0, <2>1 DEF Reset, Quiet
    <3> QED BY <3>1
  <2>2. CASE BootSet(inp)
    <3>1. Edge(inp, {"pc_set", "boot"}) /\ ctrl = "BOOT_SET" /\ ctrl' = "FIRST_FETCH"
      BY <2>2 DEF BootSet
    <3> QED BY <3>1
  <2>3. CASE FirstFetch(inp)
    <3>1. /\ Edge(inp, {}) /\ ctrl = "FIRST_FETCH"
          /\ \/ ctrl' = "FIRST_FETCH" /\ ~id_ready(inp)
             \/ ctrl' = "DECODE" /\ id_ready(inp)
      BY <2>0, <2>3 DEF FirstFetch, Quiet
    <3> QED BY <3>1
  <2>4. CASE FirstFetchIrq(inp)
    <3>1. Edge(inp, HaltAll) /\ ctrl = "FIRST_FETCH" /\ ctrl' = "IRQ_TAKEN_IF"
      BY <2>4 DEF FirstFetchIrq
    <3> QED BY <3>1 DEF HaltAll
  <2> QED
    BY <2>1, <2>2, <2>3, <2>4 DEF Cycle, Booting, WaitSleep, Sleep, ElwExe, IrqFlush, IrqTaken,
       FlushEx, FlushWb, DecodeBranch, DecodeNothing, DecodeIrq, DecodeJump, DecodeFlush,
       DecodeCsr, DecodeElw, DecodePlain, Decoding, DbgWaitBranch, DbgSignal, DbgWait
<1>4. /\ Alone' /\ (boot_done' <=> "boot" \in o \/ boot_done)
      /\ ex'.k # "brTaken" /\ (ex'.wrong => ex.wrong /\ ex'.k = ex.k)
      /\ owed' = "none"
      /\ \/ /\ "pc_set" \notin o /\ "halt_if" \notin o /\ id_ready(inp)
            /\ instr_valid' /\ ~jump_done' /\ id'.k \in Insns /\ (id'.wrong <=> path = "wrong")
            /\ path' = IF id'.k \in Redirecting THEN "wrong" ELSE path
         \/ /\ id' = id /\ path' = IF "pc_set" \in o THEN "right" ELSE path
            /\ instr_valid' <=> instr_valid /\ ~id_ready(inp) /\ "halt_id" \notin o
  BY <1>1, <1>3, EdgeMoves DEF Moved, if_valid, executes, dropped, clear_instr_valid
<1>5. Held'
  BY <1>1, <1>2, <1>3, <1>4 DEF Held, Resting, Keeping, Booting, TypeOK
<1>6. Astray'
  BY <1>1, <1>2, <1>3, <1>4 DEF Astray, TypeOK, Redirecting
<1>7. Owed'
  BY <1>4 DEF Owed, NothingForgotten
<1> QED
  BY <1>4, <1>5, <1>6, <1>7 DEF PathInv

\* A taken branch in EX clears ID, but for a register jump that waits there, and
\* redirects the fetch.
LEMMA BranchKeeps ==
  ASSUME Direct, IInv, PathInv, NEW inp \in Inputs, Possible(inp), DecodeBranch(inp)
  PROVE  PathInv'
<1>1. /\ Alone /\ Held /\ Astray /\ Owed /\ TypeOK /\ boot_done /\ owed = "none"
      /\ ctrl = "DECODE" /\ ex.k = "brTaken" /\ ~ex.wrong /\ (instr_valid => id.wrong)
  BY DEF PathInv, Held, IInv, NotBooted, Owed, NothingForgotten, DecodeBranch, branch_taken_ex
<1>2. ~id_ready(inp) => id.k = "jalr"
  BY <1>1 DEF Direct, Possible, id_ready, ex_ready, Branches, load_stall, wb_ready, Loads, jr_stall
<1>3. Edge(inp, {"pc_set"}) /\ ctrl' = "DECODE"
  <2>1. {"pc_set"} \cup When(sste, "trap") = {"pc_set"} /\ ~sste /\ ~dbg_req(inp, FALSE)
    BY <1>1, NobodyAsks DEF When
  <2>2. ~dbg_req(inp, sste)
    BY <2>1 DEF dbg_req
  <2> QED
    BY <1>1, <2>1, <2>2 DEF DecodeBranch
<1>4. /\ Alone' /\ boot_done' /\ path' = "right" /\ owed' = "none"
      /\ ex'.k # "brTaken" /\ (ex'.wrong => ex.wrong /\ ex'.k = ex.k)
      /\ id' = id /\ (instr_valid' => instr_valid /\ ~id_ready(inp))
  BY <1>1, <1>3, EdgeMoves DEF Moved, if_valid, executes, dropped, clear_instr_valid
<1>5. Held'
  BY <1>1, <1>2, <1>3, <1>4 DEF Held, Resting, Keeping, Booting
<1>6. Astray'
  BY <1>1, <1>3, <1>4 DEF Astray
<1>7. Owed'
  BY <1>3, <1>4 DEF Owed, NothingForgotten
<1> QED
  BY <1>4, <1>5, <1>6, <1>7 DEF PathInv

LEMMA NothingKeeps ==
  ASSUME Direct, IInv, PathInv, NEW inp \in Inputs, DecodeNothing(inp)
  PROVE  PathInv'
<1>1. /\ Alone /\ Held /\ Astray /\ Owed /\ TypeOK /\ boot_done /\ owed = "none"
      /\ ctrl = "DECODE" /\ ex.k # "brTaken" /\ ~instr_valid /\ ctrl' = "DECODE"
  BY DEF PathInv, IInv, NotBooted, Owed, NothingForgotten, DecodeNothing, branch_taken_ex
<1>2. path = "right"
  BY <1>1 DEF Astray, TypeOK
<1>3. /\ Alone' /\ boot_done' /\ owed' = "none"
      /\ ex'.k # "brTaken" /\ (ex'.wrong => ex.wrong /\ ex'.k = ex.k)
      /\ \/ /\ instr_valid' /\ ~jump_done' /\ id'.k \in Insns /\ ~id'.wrong
            /\ path' = IF id'.k \in Redirecting THEN "wrong" ELSE "right"
         \/ ~instr_valid' /\ path' = "right"
  <2>1. Edge(inp, {})
    BY DEF DecodeNothing, Quiet
  <2> QED
    BY <1>1, <1>2, <2>1, EdgeMoves DEF Moved, TypeOK, executes, dropped
<1>4. Held'
  BY <1>1, <1>3 DEF Held, Resting, Keeping, Booting
<1>5. Astray'
  BY <1>1, <1>3 DEF Astray, Redirecting
<1>6. Owed'
  BY <1>1, <1>3 DEF Owed, NothingForgotten
<1> QED
  BY <1>3, <1>4, <1>5, <1>6 DEF PathInv

\* An interrupt empties ID; what it pushes out is owed until it has been saved.
LEMMA IrqKeeps ==
  ASSUME Direct, IInv, PathInv, NEW inp \in Inputs, DecodeIrq(inp)
  PROVE  PathInv'
<1>1. /\ Alone /\ Held /\ Astray /\ Owed /\ TypeOK /\ boot_done /\ instr_valid
      /\ ctrl = "DECODE" /\ ex.k # "brTaken" /\ ctrl' = "IRQ_FLUSH" /\ irq_req /\ mie
      /\ Edge(inp, HaltAll \cup {"is_decoding"}) /\ CsrAlone
  BY DEF PathInv, IInv, NotBooted, DecodeIrq, branch_taken_ex, irq_enable_int
<1>2. irq_req' /\ mie'
  <2>1. ex.k \notin CsrStatus /\ ~debug_halted
    BY <1>1 DEF CsrAlone, Alone, debug_halted
  <2> QED
    BY <1>1, <2>1 DEF Edge, IntController, Mstatus, irq_req, HaltAll
<1>3. /\ Alone' /\ boot_done' /\ id' = id /\ ~instr_valid' /\ path' = path
      /\ ex'.k # "brTaken" /\ (ex'.wrong => ex.wrong /\ ex'.k = ex.k)
      /\ ~id.wrong => owed' = id.k
  <2> DEFINE o == HaltAll \cup {"is_decoding"}
  <2>1. /\ "halt_if" \in o /\ "halt_id" \in o /\ "trap" \notin o /\ "boot" \notin o
        /\ "pc_set" \notin o /\ Edge(inp, o)
    BY <1>1 DEF HaltAll
  <2> HIDE DEF o
  <2> QED
    BY <1>1, <2>1, EdgeMoves DEF Moved, if_valid, executes, id_valid, dropped, clear_instr_valid
<1>4. Held'
  BY <1>1, <1>3 DEF Held, Resting, Keeping, Booting
<1>5. Astray'
  <2>1. ~id.wrong => owed' # "none"
    BY <1>1, <1>3, CoreAssumption DEF Held, Classes, MemOps, Branches, Jumps, CsrStatus, Flushing, Traps
  <2> QED
    BY <1>1, <1>3, <2>1 DEF Astray
<1>6. Owed'
  BY <1>1, <1>2 DEF Owed, NothingForgotten
<1> QED
  BY <1>3, <1>4, <1>5, <1>6 DEF PathInv

\* The common end of the decoding cases, when nobody asks for a halt.
LEMMA DecodedOnly ==
  ASSUME Direct, Alone, NEW inp \in Inputs, NEW o, "trap" \notin o, NEW s, Decoded(inp, o, s)
  PROVE  ctrl' = s /\ Edge(inp, o \cup {"is_decoding"} \cup When(irq_req, "kill"))
<1>1. ~dbg_req(inp, "trap" \in o)
  <2>1. ~dbg_req(inp, FALSE)
    BY NobodyAsks
  <2> QED
    BY <2>1 DEF dbg_req
<1>2. ctrl' = s /\ Edge(inp, o \cup {"is_decoding"} \cup When(irq_req, "kill") \cup {})
  BY <1>1 DEF Decoded, When
<1>3. o \cup {"is_decoding"} \cup When(irq_req, "kill") \cup {} = o \cup {"is_decoding"} \cup When(irq_req, "kill")
  OBVIOUS
<1> QED
  BY <1>2, <1>3

\* Decoding an instruction: it goes to EX when ID is ready, or waits; one that is
\* executed by the controller leaves ID at once.
LEMMA DecodingKeeps ==
  ASSUME Direct, IInv, XInv, PathInv, NEW inp \in Inputs, Cycle(inp), Decoding(inp)
  PROVE  PathInv'
<1>1. /\ Alone /\ Held /\ Astray /\ Owed /\ TypeOK /\ boot_done /\ instr_valid /\ owed = "none"
      /\ ctrl = "DECODE" /\ ex.k # "brTaken" /\ (jump_done => path = "right")
      /\ (id.wrong => id.k = "jalr") /\ (path = "wrong" => ~id.wrong /\ id.k \in Redirecting)
  BY DEF PathInv, Held, Astray, Booting, IInv, XInv, NotBooted, Decoding, branch_taken_ex, Owed,
     NothingForgotten, JumpDoneIsMine
<1>2. PICK o :
        /\ Edge(inp, o) /\ "trap" \notin o /\ "is_decoding" \in o /\ "boot" \notin o
        /\ "retire" \notin o /\ "save" \notin o
        /\ \/ /\ id.k \in Jumps /\ ctrl' = "DECODE" /\ "halt_id" \notin o
              /\ "jump" \in o => "pc_set" \in o
              /\ "pc_set" \in o <=> ~jr_stall /\ ~jump_done
           \/ /\ id.k \in Flushing /\ ctrl' = "FLUSH_EX" /\ "halt_if" \in o /\ "halt_id" \in o
              /\ "pc_set" \notin o
           \/ /\ id.k \in CsrStatus \cup {"elw"} /\ "halt_if" \in o /\ "halt_id" \notin o
              /\ "pc_set" \notin o
              /\ ctrl' = "DECODE" \/ (id_ready(inp) /\ ctrl' \in {"FLUSH_EX", "ELW_EXE"})
           \/ /\ id.k \in {"alu", "div", "load", "store"} \cup Branches /\ ctrl' = "DECODE"
              /\ "halt_id" \notin o /\ "pc_set" \notin o /\ "jump" \notin o
  <2> DEFINE end == {"is_decoding"} \cup When(irq_req, "kill")
  <2>0. end \in {{"is_decoding"}, {"is_decoding", "kill"}} /\ When(sste, "trap") = {}
    BY <1>1, NobodyAsks DEF When
  <2> HIDE DEF end
  <2>1. CASE DecodeJump(inp)
    <3> DEFINE go == ~jr_stall /\ ~jump_done
               b  == When(go, "pc_set") \cup When(go, "jump") \cup When(sste, "trap")
    <3>1. b = IF go THEN {"pc_set", "jump"} ELSE {}
      BY <2>0 DEF When
    <3>2. Decoded(inp, b, "DECODE") /\ id.k \in Jumps
      BY <2>1 DEF DecodeJump
    <3> HIDE DEF b
    <3>3. ctrl' = "DECODE" /\ Edge(inp, b \cup end)
      <4>1. "trap" \notin b
        BY <3>1
      <4>2. b \cup {"is_decoding"} \cup When(irq_req, "kill") = b \cup end
        BY DEF end
      <4> QED
        BY <1>1, <3>2, <4>1, <4>2, DecodedOnly
    <3>4. b \cup end \in {{"is_decoding"}, {"is_decoding", "kill"}, {"is_decoding", "pc_set", "jump"},
                          {"is_decoding", "kill", "pc_set", "jump"}}
          /\ ("pc_set" \in b \cup end <=> go)
      BY <2>0, <3>1
    <3> QED
      BY <3>2, <3>3, <3>4
  <2>2. CASE DecodeFlush(inp)
    <3>1. ctrl' = "FLUSH_EX" /\ Edge(inp, HaltAll \cup end) /\ id.k \in Flushing
      <4>1. "trap" \notin HaltAll /\ Decoded(inp, HaltAll, "FLUSH_EX") /\ id.k \in Flushing
        BY <2>2 DEF DecodeFlush, HaltAll
      <4>2. HaltAll \cup {"is_decoding"} \cup When(irq_req, "kill") = HaltAll \cup end
        BY DEF end
      <4> QED
        BY <1>1, <4>1, <4>2, DecodedOnly
    <3> QED
      BY <2>0, <3>1 DEF HaltAll
  <2>3. CASE DecodeCsr(inp) \/ DecodeElw(inp)
    <3>1. PICK s : /\ Decoded(inp, HaltIF, s) /\ id.k \in CsrStatus \cup {"elw"}
                   /\ s = "DECODE" \/ (id_ready(inp) /\ s \in {"FLUSH_EX", "ELW_EXE"})
      <4>1. HaltIF \cup When(sste, "trap") = HaltIF
        BY <2>0
      <4>2. CASE id_ready(inp)
        <5>1. /\ Decoded(inp, HaltIF, "FLUSH_EX") \/ Decoded(inp, HaltIF, "ELW_EXE")
              /\ id.k \in CsrStatus \cup {"elw"}
          BY <2>3, <4>1, <4>2 DEF DecodeCsr, DecodeElw
        <5> QED BY <4>2, <5>1
      <4>3. CASE ~id_ready(inp)
        <5>1. Decoded(inp, HaltIF, "DECODE") /\ id.k \in CsrStatus \cup {"elw"}
          BY <2>3, <4>1, <4>3 DEF DecodeCsr, DecodeElw
        <5> QED BY <5>1
      <4> QED
        BY <4>2, <4>3
    <3>2. ctrl' = s /\ Edge(inp, HaltIF \cup end)
      <4>1. "trap" \notin HaltIF
        BY DEF HaltIF
      <4>2. HaltIF \cup {"is_decoding"} \cup When(irq_req, "kill") = HaltIF \cup end
        BY DEF end
      <4> QED
        BY <1>1, <3>1, <4>1, <4>2, DecodedOnly
    <3> QED
      BY <2>0, <3>1, <3>2 DEF HaltIF
  <2>4. CASE DecodePlain(inp)
    <3>1. /\ ctrl' = "DECODE" /\ Edge(inp, {} \cup end)
          /\ id.k \in {"alu", "div", "load", "store"} \cup Branches
      <4>1. Decoded(inp, {}, "DECODE") /\ id.k \in {"alu", "div", "load", "store"} \cup Branches
        BY <2>0, <2>4 DEF DecodePlain
      <4>2. {} \cup {"is_decoding"} \cup When(irq_req, "kill") = {} \cup end
        BY DEF end
      <4> QED
        BY <1>1, <4>1, <4>2, DecodedOnly
    <3> QED
      BY <2>0, <3>1
  <2> QED
    BY <1>1, <2>1, <2>2, <2>3, <2>4 DEF Cycle, Decoding, Reset, BootSet, WaitSleep, Sleep,
       FirstFetch, FirstFetchIrq, DecodeBranch, DecodeNothing, DecodeIrq, ElwExe, IrqFlush,
       IrqTaken, FlushEx, FlushWb, DbgWaitBranch, DbgSignal, DbgWait
<1>3. Moved(inp, o)
  BY <1>1, <1>2, EdgeMoves
\* ID waits, with what it holds.
<1>4. CASE ~id_ready(inp) /\ "halt_id" \notin o
  <2>1. /\ Alone' /\ boot_done' /\ id' = id /\ instr_valid' /\ ctrl' = "DECODE"
        /\ path' = IF "pc_set" \in o THEN "right" ELSE path
        /\ ex'.k # "brTaken" /\ (ex'.wrong => ex.wrong /\ ex'.k = ex.k)
        /\ owed' = "none" /\ (jump_done' => "jump" \in o \/ jump_done)
    BY <1>1, <1>2, <1>3, <1>4 DEF Moved, if_valid, executes, id_valid, clear_instr_valid, dropped,
       Flushing, Traps, Jumps, CsrStatus, Branches
  <2>2. Held'
    BY <1>1, <2>1 DEF Held, Resting, Keeping, Booting
  <2>3. Astray'
    BY <1>1, <1>2, <1>4, <2>1 DEF Astray, Redirecting, Jumps, Flushing, Traps, CsrStatus, Branches
  <2>4. Owed'
    BY <2>1 DEF Owed, NothingForgotten
  <2> QED
    BY <2>1, <2>2, <2>3, <2>4 DEF PathInv
\* The controller will execute it.
<1>5. CASE "halt_id" \in o
  <2>1. /\ Alone' /\ boot_done' /\ id' = id /\ ~instr_valid' /\ ctrl' = "FLUSH_EX"
        /\ path' = path /\ id.k \in Flushing
        /\ ex'.k # "brTaken" /\ (ex'.wrong => ex.wrong /\ ex'.k = ex.k)
    BY <1>1, <1>2, <1>3, <1>5 DEF Moved, if_valid, executes, id_valid, clear_instr_valid
  <2>2. Held'
    BY <1>1, <2>1 DEF Held, Resting, Keeping, Booting
  <2>3. Astray'
    BY <1>1, <2>1 DEF Astray, Redirecting, Jumps, Flushing, Traps
  <2>4. Owed'
    BY <2>1 DEF Owed, NothingForgotten
  <2> QED
    BY <2>1, <2>2, <2>3, <2>4 DEF PathInv
\* It goes to EX.
<1>6. CASE id_ready(inp) /\ "halt_id" \notin o
  <2>1. ~jr_stall
    BY <1>1, <1>6 DEF id_ready
  <2>2. /\ Alone' /\ boot_done' /\ ex'.k = id.k /\ ex'.wrong = id.wrong /\ owed' = "none"
        /\ \/ /\ instr_valid' /\ ~jump_done' /\ id'.k \in Insns /\ (id'.wrong <=> path = "wrong")
              /\ path' = IF id'.k \in Redirecting THEN "wrong" ELSE path
              /\ "halt_if" \notin o /\ "pc_set" \notin o
           \/ /\ id' = id /\ ~instr_valid' /\ path' = IF "pc_set" \in o THEN "right" ELSE path
    BY <1>1, <1>2, <1>3, <1>6 DEF Moved, if_valid, executes, id_valid, clear_instr_valid, dropped
  \* only a branch leaves the fetch on the wrong path
  <2>3. path = "wrong" /\ "pc_set" \notin o => id.k = "brTaken"
    BY <1>1, <1>2, <1>6, <2>1 DEF TypeOK, Redirecting, Flushing, Traps, Jumps, CsrStatus, Branches
  <2>4. id.k = "brTaken" => path = "wrong" /\ "pc_set" \notin o
    BY <1>1, <1>2 DEF Astray, Flushing, Traps, Jumps, CsrStatus, Branches
  <2>5. ctrl' \in {"DECODE", "FLUSH_EX", "ELW_EXE"} /\ (ctrl' # "DECODE" => "halt_if" \in o /\ id.k # "jalr")
    BY <1>2, <1>6 DEF Flushing, Traps, CsrStatus
  <2>6. Held'
    BY <1>1, <2>2, <2>3, <2>4, <2>5 DEF Held, Resting, Keeping, Booting
  <2>7. Astray'
    BY <1>1, <2>2, <2>3, <2>4, <2>5 DEF Astray, Redirecting, TypeOK
  <2>8. Owed'
    BY <2>2, <2>5 DEF Owed, NothingForgotten
  <2> QED
    BY <2>2, <2>6, <2>7, <2>8 DEF PathInv
<1> QED
  BY <1>4, <1>5, <1>6

LEMMA PathInvKept ==
  ASSUME Direct, IInv, XInv, PathInv, [Next]_coreVars
  PROVE  PathInv'
<1>1. CASE Next
  <2>1. PICK inp \in Inputs : Possible(inp) /\ Cycle(inp)
    BY <1>1, NextIsCycle
  <2>2. Ownership /\ Alone /\ TypeOK
    BY DEF IInv, PathInv
  <2>3. ctrl \notin Signals \cup Halted
    BY <2>2 DEF Ownership, Alone
  <2>4. CASE ctrl \in Resting
    BY <2>1, <2>4, RestingKeeps
  <2>5. CASE ctrl \in Booting
    BY <2>1, <2>5, BootingKeeps
  <2>6. CASE ctrl = "DECODE"
    <3>1. /\ ~Reset(inp) /\ ~BootSet(inp) /\ ~WaitSleep(inp) /\ ~Sleep(inp) /\ ~FirstFetch(inp)
          /\ ~FirstFetchIrq(inp) /\ ~ElwExe(inp) /\ ~IrqFlush(inp) /\ ~IrqTaken(inp)
          /\ ~FlushEx(inp) /\ ~FlushWb(inp) /\ ~DbgWaitBranch(inp) /\ ~DbgSignal(inp)
          /\ ~DbgWait(inp)
      BY <2>6 DEF Reset, BootSet, WaitSleep, Sleep, FirstFetch, FirstFetchIrq, ElwExe, IrqFlush,
         IrqTaken, FlushEx, FlushWb, DbgWaitBranch, DbgSignal, DbgWait
    <3>2. DecodeJump(inp) \/ DecodeFlush(inp) \/ DecodeCsr(inp) \/ DecodeElw(inp) \/ DecodePlain(inp)
            => Decoding(inp)
      BY DEF DecodeJump, DecodeFlush, DecodeCsr, DecodeElw, DecodePlain
    <3>3. DecodeBranch(inp) \/ DecodeNothing(inp) \/ DecodeIrq(inp) \/ Decoding(inp)
      BY <2>1, <3>1, <3>2 DEF Cycle
    <3> QED
      BY <2>1, <3>3, BranchKeeps, NothingKeeps, IrqKeeps, DecodingKeeps
  <2> QED
    BY <2>2, <2>3, <2>4, <2>5, <2>6 DEF TypeOK, CtrlStates, Resting, Booting, Signals, Halted
<1>2. CASE UNCHANGED coreVars
  BY <1>2 DEF coreVars, ctlVars, irqVars, dbgVars, pipeVars, history, PathInv, Alone, Held, Astray,
     Owed, NothingForgotten, irq_req
<1> QED
  BY <1>1, <1>2

\* With next-cycle data and no debugger the fetch is on the program's path, or what
\* brings it back is on its way; at most a register jump strays.
THEOREM PathInvariant ==
  ASSUME Direct
  PROVE  Spec => []PathInv
<1>1. Init => PathInv
  BY DEF Init, PathInv, Alone, Held, Astray, Owed, NothingForgotten, Bubble, Resting, Keeping, Booting
<1>2. IInv /\ XInv /\ PathInv /\ [Next]_coreVars => PathInv'
  BY PathInvKept
<1> QED
  BY <1>1, <1>2, CoreInvariant, ConductInvariant, PTL DEF Spec

\* NothingForgotten: what left ID without being executed is executed by the controller
\* or saved as the return address (the flush and the interrupt entry of the controller).
THEOREM NothingIsForgotten ==
  ASSUME Direct
  PROVE  Spec => []NothingForgotten
<1>1. PathInv => NothingForgotten
  BY DEF PathInv, Owed
<1> QED
  BY <1>1, PathInvariant, PTL

\* Without Direct it is not so.  A debug request that finds an mret, a trap, wfi or
\* ebreak in ID, which the controller would execute after a flush, overrides the way
\* there although ID has been told to let go of it: the core halts, and neither EX, ID
\* nor the controller has the instruction any more (riscv_controller.sv:422-438, "make
\* sure the current instruction has been executed before changing state").
THEOREM HaltForgets ==
  ASSUME NEW inp, Cycle(inp), Decoding(inp), id.k \in Flushing, ~id.wrong, boot_done,
         id_ready(inp), dbg_req(inp, FALSE)
  PROVE  /\ ctrl' = "DBG_SIGNAL" /\ ex' = Bubble /\ ~instr_valid'
         /\ owed' = id.k /\ ~NothingForgotten'
<1>1. ctrl = "DECODE" /\ instr_valid /\ ~branch_taken_ex
  BY DEF Decoding
<1>2. /\ id.k \notin Jumps \cup CsrStatus \cup Branches \cup {"elw", "alu", "div", "load", "store"}
      /\ id.k # "none"
  BY DEF Flushing, Traps, Jumps, CsrStatus, Branches
<1>3. DecodeFlush(inp)
  <2>1. ~DecodeBranch(inp) /\ ~DecodeNothing(inp) /\ ~DecodeIrq(inp)
    BY <1>1 DEF Decoding, DecodeBranch, DecodeNothing, DecodeIrq
  <2>2. ~DecodeJump(inp) /\ ~DecodeCsr(inp) /\ ~DecodeElw(inp) /\ ~DecodePlain(inp)
    BY <1>2 DEF DecodeJump, DecodeCsr, DecodeElw, DecodePlain
  <2> QED
    BY <1>1, <2>1, <2>2 DEF Cycle, Reset, BootSet, WaitSleep, Sleep, FirstFetch, FirstFetchIrq, ElwExe,
       IrqFlush, IrqTaken, FlushEx, FlushWb, DbgWaitBranch, DbgSignal, DbgWait
<1> DEFINE o == HaltAll \cup {"is_decoding"} \cup When(irq_req, "kill") \cup {"halt_if"}
<1>4. ctrl' = "DBG_SIGNAL" /\ Edge(inp, o)
  <2>1. "trap" \notin HaltAll
    BY DEF HaltAll
  <2>2. dbg_req(inp, "trap" \in HaltAll)
    BY <2>1 DEF dbg_req
  <2> QED
    BY <1>2, <1>3, <2>2 DEF DecodeFlush, Decoded, When
<1>5. "halt_id" \in o /\ "halt_if" \in o
  BY DEF HaltAll
<1> HIDE DEF o
<1>6. ~executes(inp, o) /\ ~if_valid(inp, o) /\ clear_instr_valid(inp, o) /\ ex_ready(inp)
  BY <1>5 DEF executes, id_valid, if_valid, clear_instr_valid, id_ready
<1>7. ex' = Bubble /\ ~instr_valid'
  BY <1>4, <1>6 DEF Edge, Stages
<1>8. owed' = id.k
  BY <1>1, <1>4, <1>6 DEF Edge, History, dropped
<1> QED
  BY <1>2, <1>4, <1>7, <1>8 DEF NothingForgotten

\* All that can take effect from the wrong path is a register jump, which waited in ID
\* for its operand while the branch before it redirected the fetch (clear_instr_valid_o
\* follows id_ready_o).
THEOREM OnlyRegisterJumpsStray ==
  ASSUME Direct
  PROVE  Spec => [](ex.wrong => ex.k = "jalr")
<1>1. PathInv => (ex.wrong => ex.k = "jalr")
  BY DEF PathInv, Held
<1> QED
  BY <1>1, PathInvariant, PTL

\* OnlyRightPathExecutes: in a program without register jumps nothing behind a taken
\* branch, a jump or a trap takes effect.
THEOREM RightPathExecutes ==
  ASSUME Direct, "jalr" \notin Insns
  PROVE  Spec => []OnlyRightPathExecutes
<1>1. IInv /\ PathInv => OnlyRightPathExecutes
  <2> SUFFICES ASSUME IInv, PathInv PROVE OnlyRightPathExecutes
    OBVIOUS
  <2>1. ex.k # "jalr" /\ id.k # "jalr"
    BY DEF IInv, TypeOK
  <2> QED
    BY <2>1 DEF PathInv, Held, Keeping, OnlyRightPathExecutes, IInv, TypeOK
<1> QED
  BY <1>1, CoreInvariant, PathInvariant, PTL
=============================================================================
