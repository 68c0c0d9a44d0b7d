----------------------------- MODULE RiscyCore -----------------------------
(***************************************************************************)
(* The control of the RI5CY core: the main controller FSM and its stall    *)
(* logic (riscv_controller.sv), the interrupt controller                   *)
(* (riscv_int_controller.sv), the run/halt FSM of the debug unit           *)
(* (riscv_debug_unit.sv), the interrupt-enable bits of mstatus             *)
(* (riscv_cs_registers.sv) and the valid/ready chain of the IF, ID, EX and *)
(* WB stages (riscv_if_stage.sv, riscv_id_stage.sv, riscv_ex_stage.sv,     *)
(* riscv_load_store_unit.sv).  It is the configuration pulpino uses:       *)
(* PULP_SECURE = 0, FPU = 0, machine mode only.                            *)
(*                                                                         *)
(* One step is one rising edge of the core's clock; every action is one    *)
(* state (or one branch of a state) of the controller FSM.  The action     *)
(* names the controller's outputs in that state and Edge(inp, o) clocks    *)
(* the rest of the core with them.                                         *)
(*                                                                         *)
(* Instructions are classes, data is left out.  Three history variables    *)
(* (path, owed, stepped) and the tag "wrong" record what the hardware does *)
(* not know: whether an instruction is one the program really reaches.     *)
(***************************************************************************)
EXTENDS Naturals, FiniteSets

CONSTANTS
  Insns,                    \* instruction classes that occur in the program
  Ids,                      \* interrupt numbers
  SlowData,                 \* TRUE: the data bus may answer late (AXI);
                            \* FALSE: one cycle after the grant (data RAM)
  DbgWrites                 \* writes the debugger may put on the debug bus

Loads     == {"load", "elw"}
MemOps    == {"load", "elw", "store"}
Branches  == {"brTaken", "brNot"}
Jumps     == {"jal", "jalr"}
CsrStatus == {"csrEI", "csrDI"}                  \* write mstatus.MIE
Traps     == {"ecall", "illegal"}
Flushing  == Traps \cup {"mret", "ebreak", "wfi"}     \* executed in FLUSH_WB
Classes   == {"alu", "div"} \cup MemOps \cup Branches \cup Jumps
               \cup CsrStatus \cup Flushing

\* Classes that write a register from the ALU port.
AluWriters == {"alu", "div", "jal", "jalr"} \cup CsrStatus

\* Which older results an instruction of class k may read: that of the
\* youngest load, or that of the youngest ALU write.
Operands(k) == IF k = "jalr" THEN {{}, {"load"}, {"alu"}}
               ELSE IF k \in {"alu", "div"} \cup MemOps \cup Branches \cup CsrStatus
               THEN {{}, {"load"}} ELSE {{}}

\* The debugger's settings: single step, and the traps that stop the core.
\* (DBG_IE's bit for load faults has no effect in this core.)
DbgTraps == {"ecall", "illegal", "ebreak"}
Settings == {"SSTE"} \cup DbgTraps
DbgBus == [reg : {"CTRL"}, halt : BOOLEAN, sste : BOOLEAN]
     \cup [reg : {"IE"}, traps : SUBSET DbgTraps]
     \cup [reg : {"NPC"}]
     \cup [reg : {"MSTATUS"}, mie : BOOLEAN, mpie : BOOLEAN]
DbgIdle == [reg |-> "NONE"]

ASSUME CoreAssumption ==
  /\ Insns \subseteq Classes
  /\ Ids \subseteq Nat /\ 0 \in Ids
  /\ SlowData \in BOOLEAN
  /\ DbgWrites \subseteq DbgBus

CtrlStates ==
  {"RESET", "BOOT_SET", "SLEEP", "WAIT_SLEEP", "FIRST_FETCH", "DECODE",
   "IRQ_TAKEN_ID", "IRQ_TAKEN_IF", "IRQ_FLUSH", "ELW_EXE", "FLUSH_EX",
   "FLUSH_WB", "DBG_SIGNAL", "DBG_SIGNAL_SLEEP", "DBG_SIGNAL_ELW",
   "DBG_WAIT", "DBG_WAIT_BRANCH", "DBG_WAIT_SLEEP", "DBG_WAIT_ELW"}

VARIABLES
  ctrl,                     \* ctrl_fsm_cs
  boot_done, jump_done,     \* boot_done_q, jump_done_q
  exc, irq_id,              \* exc_ctrl_cs, irq_id_q
  mie, mpie,                \* mstatus_q
  stall,                    \* stall_cs of the debug unit
  settings, jump_req,       \* settings_q, jump_req_q
  id, instr_valid,          \* IF/ID register and instr_valid_id_o
  ex,                       \* ID/EX register
  wb,                       \* LSU: the access waiting for data_rvalid
  path, owed, stepped       \* history variables, see above

ctlVars  == <<ctrl, boot_done, jump_done>>
irqVars  == <<exc, irq_id, mie, mpie>>
dbgVars  == <<stall, settings, jump_req>>
pipeVars == <<id, instr_valid, ex, wb>>
history  == <<path, owed, stepped>>
coreVars == <<ctlVars, irqVars, dbgVars, pipeVars, history>>

Bubble == [k |-> "none", wrong |-> FALSE]

TypeOK ==
  /\ ctrl \in CtrlStates
  /\ boot_done \in BOOLEAN /\ jump_done \in BOOLEAN
  /\ exc \in {"IDLE", "IRQ_PENDING", "IRQ_DONE"}
  /\ irq_id \in Ids
  /\ mie \in BOOLEAN /\ mpie \in BOOLEAN
  /\ stall \in {"RUNNING", "HALT_REQ", "HALT"}
  /\ settings \in SUBSET Settings
  /\ jump_req \in BOOLEAN
  /\ id \in [k : Insns \cup {"none"}, uses : SUBSET {"load", "alu"}, wrong : BOOLEAN]
  /\ instr_valid \in BOOLEAN
  /\ ex \in [k : Insns \cup {"none"}, wrong : BOOLEAN]
  /\ wb \in MemOps \cup {"none"}
  /\ path \in {"right", "wrong"}
  /\ owed \in Insns \cup {"none"}
  /\ stepped \in {"off", "zero", "one", "many"}

\* Reset; until the boot address is set the fetch address means nothing.
Init ==
  /\ ctrl = "RESET" /\ boot_done = FALSE /\ jump_done = FALSE
  /\ exc = "IDLE" /\ irq_id = 0
  /\ mie = FALSE /\ mpie = FALSE
  /\ stall = "RUNNING" /\ settings = {} /\ jump_req = FALSE
  /\ id = [k |-> "none", uses |-> {}, wrong |-> TRUE] /\ instr_valid = FALSE
  /\ ex = Bubble /\ wb = "none"
  /\ path = "wrong" /\ owed = "none" /\ stepped = "off"

-----------------------------------------------------------------------------
\* The wires of one cycle.  inp holds what comes from outside the core:
\*   fetch     the instruction the prefetcher offers, or NoFetch
\*   gnt, rvalid  the data bus;   aluReady  a division is done
\*   fetch_enable, irq, irq_id_i  from the event unit;   dbg  the debug bus

NoFetch == [k |-> "none", uses |-> {}]

MemRequest == ex.k \in MemOps

wb_ready(inp) == wb # "none" => inp.rvalid
lsu_ready_ex(inp) == MemRequest => inp.gnt
ex_valid(inp) == inp.aluReady /\ lsu_ready_ex(inp) /\ wb_ready(inp)
ex_ready(inp) == ex_valid(inp) \/ ex.k \in Branches
branch_taken_ex == ex.k = "brTaken"

\* A load result that is needed in ID is not there yet.
load_stall(inp) ==
  "load" \in id.uses /\ (ex.k \in Loads \/ (wb \in Loads /\ ~wb_ready(inp)))

\* A jump register operand is still in the pipeline.
jr_stall == /\ id.k = "jalr"
            /\ \/ "load" \in id.uses /\ (ex.k \in Loads \/ wb \in Loads)
               \/ "alu" \in id.uses /\ ex.k \in AluWriters

\* An instruction that is no longer valid still raises its stalls; in DECODE
\* they only delay the next fetch, which NoFetch covers, and see ElwExe.
id_ready(inp) ==
  ex_ready(inp) /\ (instr_valid => ~load_stall(inp) /\ ~jr_stall)

\* What the surroundings can do in the present state.  A bubble can hold a
\* division that left its traces in the ID/EX register and runs without effect.
Possible(inp) ==
  /\ inp.gnt => MemRequest /\ (wb # "none" => inp.rvalid)
  /\ inp.rvalid => wb # "none"
  /\ ~SlowData => (inp.rvalid <=> wb # "none")
  /\ ~inp.aluReady => ex.k = "div" \/ (ex.k = "none" /\ "div" \in Insns)
  /\ inp.fetch # NoFetch => id_ready(inp)

irq_req == exc = "IRQ_PENDING"
irq_enable_int == mie

debug_halted == stall = "HALT"
dbg_halt(inp)   == inp.dbg.reg = "CTRL" /\ inp.dbg.halt /\ ~debug_halted
dbg_resume(inp) == inp.dbg.reg = "CTRL" /\ ~inp.dbg.halt /\ debug_halted
dbg_stall(inp)  == debug_halted /\ ~dbg_resume(inp)
sste == "SSTE" \in settings

\* dbg_req_o: the request starts in the very cycle of the trap or halt write.
dbg_req(inp, trap) ==
  stall = "HALT_REQ" \/ (stall = "RUNNING" /\ (dbg_halt(inp) \/ trap))

\* The controller's outputs in a cycle: the set of those that are 1.
Outputs == {"halt_if", "halt_id", "is_decoding", "pc_set", "jump", "boot", "save",
            "irq_ack", "restore", "kill", "dbg_ack", "trap", "retire"}
Quiet   == {}
HaltIF  == {"halt_if"}
HaltAll == {"halt_if", "halt_id"}

When(condition, output) == IF condition THEN {output} ELSE {}

-----------------------------------------------------------------------------
\* The pipeline stages.  o is the set of the controller's outputs.

id_valid(inp, o) == "halt_id" \notin o /\ id_ready(inp)
executes(inp, o) == id_valid(inp, o) /\ "is_decoding" \in o
\* Faulty variant: a redirect does not stop the instruction being fetched.
if_validDuringRedirect(inp, o) ==
  "halt_if" \notin o /\ inp.fetch # NoFetch /\ id_ready(inp)

if_valid(inp, o) ==
  "halt_if" \notin o /\ "pc_set" \notin o /\ inp.fetch # NoFetch /\ id_ready(inp)
clear_instr_valid(inp, o) == id_ready(inp) \/ "halt_id" \in o

\* Faulty variant: everything that leaves EX waits for the data bus.
StagesAllWait(inp, o) ==
  /\ ex' = IF executes(inp, o) THEN [k |-> id.k, wrong |-> id.wrong]
           ELSE IF id_valid(inp, o) \/ ex_ready(inp) THEN Bubble ELSE ex
  /\ wb' = IF ex_valid(inp) THEN ex.k ELSE IF wb_ready(inp) THEN "none" ELSE wb
  /\ id' = IF if_valid(inp, o)
           THEN [k |-> inp.fetch.k, uses |-> inp.fetch.uses, wrong |-> path = "wrong"]
           ELSE id
  /\ instr_valid' = (if_valid(inp, o) \/ (instr_valid /\ ~clear_instr_valid(inp, o)))

\* IF/ID, ID/EX and the LSU's outstanding access.  When the controller is not
\* decoding, all write enables are off and what enters EX has no effect.
Stages(inp, o) ==
  /\ ex' = IF executes(inp, o) THEN [k |-> id.k, wrong |-> id.wrong]
           ELSE IF id_valid(inp, o) \/ ex_ready(inp) THEN Bubble ELSE ex
  /\ wb' = IF ex_valid(inp) THEN (IF MemRequest THEN ex.k ELSE "none")
           ELSE IF wb_ready(inp) THEN "none" ELSE wb
  /\ id' = IF if_valid(inp, o)
           THEN [k |-> inp.fetch.k, uses |-> inp.fetch.uses, wrong |-> path = "wrong"]
           ELSE id
  /\ instr_valid' = (if_valid(inp, o) \/ (instr_valid /\ ~clear_instr_valid(inp, o)))

\* riscv_int_controller.sv
IntController(inp, o) ==
  \/ /\ exc = "IDLE" /\ mie /\ inp.irq
     /\ exc' = "IRQ_PENDING" /\ irq_id' = inp.irq_id_i
  \/ /\ exc = "IDLE" /\ ~(mie /\ inp.irq)
     /\ UNCHANGED <<exc, irq_id>>
  \/ /\ exc = "IRQ_PENDING"
     /\ exc' = IF "irq_ack" \in o THEN "IRQ_DONE" ELSE IF "kill" \in o THEN "IDLE" ELSE exc
     /\ UNCHANGED irq_id
  \/ /\ exc = "IRQ_DONE"
     /\ exc' = "IDLE"
     /\ UNCHANGED irq_id

\* mstatus: an exception or a return has priority over a CSR instruction in
\* EX, whose place a debugger access to the CSRs takes.  A write is one of the
\* whole register; what a CSR instruction writes to MPIE is left open.
Mstatus(inp, o) ==
  LET dbgWrite == inp.dbg.reg = "MSTATUS" /\ debug_halted IN
  /\ mie' = IF "save" \in o THEN FALSE
            ELSE IF "restore" \in o THEN mpie
            ELSE IF dbgWrite THEN inp.dbg.mie
            ELSE IF ex.k \in CsrStatus THEN ex.k = "csrEI"
            ELSE mie
  /\ mpie' \in IF "save" \in o THEN {mie}
              ELSE IF "restore" \in o THEN {TRUE}
              ELSE IF dbgWrite THEN {inp.dbg.mpie}
              ELSE IF ex.k \in CsrStatus THEN BOOLEAN
              ELSE {mpie}

\* The debug unit's registers and its run/halt FSM.
DebugUnit(inp, o) ==
  /\ stall' = CASE stall = "RUNNING"  -> IF dbg_req(inp, "trap" \in o) THEN "HALT_REQ" ELSE stall
                [] stall = "HALT_REQ" -> IF "dbg_ack" \in o THEN "HALT" ELSE stall
                [] stall = "HALT"     -> IF dbg_resume(inp) THEN "RUNNING" ELSE stall
  /\ settings' = CASE inp.dbg.reg = "CTRL" -> (settings \ {"SSTE"}) \cup When(inp.dbg.sste, "SSTE")
                   [] inp.dbg.reg = "IE" -> (settings \ DbgTraps) \cup inp.dbg.traps
                   [] OTHER -> settings
  /\ jump_req' = (inp.dbg.reg = "NPC" /\ debug_halted)

-----------------------------------------------------------------------------
\* History.  An instruction of the program leaves ID unexecuted:
dropped(inp, o) ==
  /\ boot_done /\ instr_valid /\ ~id.wrong
  /\ clear_instr_valid(inp, o) /\ ~executes(inp, o)

\* An instruction takes effect, in EX or (FLUSH_WB) by the controller.
retired(inp, o) ==
  \/ executes(inp, o)
  \/ "retire" \in o /\ id.k \in Flushing

History(inp, o) ==
  /\ path' = IF "pc_set" \in o THEN "right"
             ELSE IF if_valid(inp, o)
                     /\ inp.fetch.k \in Jumps \cup Traps \cup {"brTaken", "mret"}
             THEN "wrong" ELSE path
  /\ owed' = IF dropped(inp, o) THEN id.k
             ELSE IF "retire" \in o \/ "save" \in o THEN "none" ELSE owed
  /\ stepped' = IF dbg_resume(inp) THEN (IF "SSTE" \in settings' THEN "zero" ELSE "off")
                ELSE IF stepped = "off" \/ "SSTE" \notin settings' THEN "off"
                ELSE IF ~retired(inp, o) THEN stepped
                ELSE IF stepped = "zero" THEN "one" ELSE "many"

\* Faulty variant: jump_done is not cleared when ID is ready.
EdgeKeepsJumpDone(inp, o) ==
  /\ boot_done' = ("boot" \in o \/ boot_done)
  /\ jump_done' = ("jump" \in o \/ jump_done)
  /\ Stages(inp, o)
  /\ IntController(inp, o)
  /\ Mstatus(inp, o)
  /\ DebugUnit(inp, o)
  /\ History(inp, o)

Edge(inp, o) ==
  /\ boot_done' = ("boot" \in o \/ boot_done)
  /\ jump_done' = (("jump" \in o \/ jump_done) /\ ~id_ready(inp))
  /\ Stages(inp, o)
  /\ IntController(inp, o)
  /\ Mstatus(inp, o)
  /\ DebugUnit(inp, o)
  /\ History(inp, o)

-----------------------------------------------------------------------------
\* The controller FSM, one action per state.

\* Just reset: wait for fetch_enable; the debugger may come first.
Reset(inp) ==
  /\ ctrl = "RESET"
  /\ ctrl' = IF inp.fetch_enable THEN "BOOT_SET"
             ELSE IF dbg_req(inp, FALSE) THEN "DBG_SIGNAL" ELSE ctrl
  /\ Edge(inp, Quiet)

\* Send the boot address to the prefetcher.
BootSet(inp) ==
  /\ ctrl = "BOOT_SET"
  /\ ctrl' = "FIRST_FETCH"
  /\ Edge(inp, {"pc_set", "boot"})

WaitSleep(inp) ==
  /\ ctrl = "WAIT_SLEEP"
  /\ ctrl' = "SLEEP"
  /\ Edge(inp, HaltAll)

\* Faulty variant: a sleeping core does not look at interrupts.
SleepIgnoresIrq(inp) ==
  /\ ctrl = "SLEEP"
  /\ ctrl' = IF dbg_req(inp, sste)
             THEN (IF inp.fetch_enable THEN "DBG_SIGNAL" ELSE "DBG_SIGNAL_SLEEP")
             ELSE IF inp.fetch_enable THEN "FIRST_FETCH" ELSE ctrl
  /\ Edge(inp, HaltAll \cup When(sste, "trap"))

\* Faulty variant: a sleeping core does not look at debug requests.
SleepIgnoresDebug(inp) ==
  /\ ctrl = "SLEEP"
  /\ ctrl' = IF inp.fetch_enable \/ irq_req THEN "FIRST_FETCH" ELSE ctrl
  /\ Edge(inp, HaltAll \cup When(sste, "trap"))

\* fetch_enable or an interrupt starts execution again.
Sleep(inp) ==
  /\ ctrl = "SLEEP"
  /\ LET wake == inp.fetch_enable \/ irq_req
         dbg  == dbg_req(inp, sste)
     IN  ctrl' = IF dbg THEN (IF wake THEN "DBG_SIGNAL" ELSE "DBG_SIGNAL_SLEEP")
                 ELSE IF wake THEN "FIRST_FETCH" ELSE ctrl
  /\ Edge(inp, HaltAll \cup When(sste, "trap"))

FirstFetch(inp) ==
  /\ ctrl = "FIRST_FETCH" /\ ~(irq_req /\ irq_enable_int)
  /\ ctrl' = IF id_ready(inp) /\ ~dbg_stall(inp) THEN "DECODE" ELSE ctrl
  /\ Edge(inp, Quiet)

FirstFetchIrq(inp) ==
  /\ ctrl = "FIRST_FETCH" /\ irq_req /\ irq_enable_int
  /\ ctrl' = "IRQ_TAKEN_IF"
  /\ Edge(inp, HaltAll)

\* A taken branch in EX: what is in ID is not decoded.
DecodeBranch(inp) ==
  /\ ctrl = "DECODE" /\ branch_taken_ex
  /\ ctrl' = IF dbg_req(inp, sste) THEN "DBG_SIGNAL" ELSE ctrl
  /\ Edge(inp, {"pc_set"} \cup When(sste, "trap"))

DecodeNothing(inp) ==
  /\ ctrl = "DECODE" /\ ~branch_taken_ex /\ ~instr_valid
  /\ UNCHANGED ctrl
  /\ Edge(inp, Quiet)

DecodeIrq(inp) ==
  /\ ctrl = "DECODE" /\ ~branch_taken_ex /\ instr_valid
  /\ irq_req /\ irq_enable_int
  /\ ctrl' = "IRQ_FLUSH"
  /\ Edge(inp, HaltAll \cup {"is_decoding"})

Decoding(inp) ==
  /\ ctrl = "DECODE" /\ ~branch_taken_ex /\ instr_valid
  /\ ~(irq_req /\ irq_enable_int)

\* Faulty variant: a branch in ID is not waited for before a halt.
DecodedNoBranchWait(inp, o, successor) ==
  LET dbg == dbg_req(inp, "trap" \in o) IN
  /\ ctrl' = IF dbg /\ id_ready(inp) THEN "DBG_SIGNAL" ELSE successor
  /\ Edge(inp, o \cup {"is_decoding"} \cup When(irq_req, "kill") \cup When(dbg, "halt_if"))

\* Common end of the decoding cases: a request that is no longer enabled is
\* dropped, and a debug request overrides the successor state.
Decoded(inp, o, successor) ==
  LET dbg == dbg_req(inp, "trap" \in o) IN
  /\ ctrl' = IF dbg /\ id_ready(inp)
             THEN (IF id.k \in Branches THEN "DBG_WAIT_BRANCH" ELSE "DBG_SIGNAL")
             ELSE successor
  /\ Edge(inp, o \cup {"is_decoding"} \cup When(irq_req, "kill") \cup When(dbg, "halt_if"))

\* Jumps redirect the fetch once, as soon as the target is known.
DecodeJump(inp) ==
  /\ Decoding(inp) /\ id.k \in Jumps
  /\ LET go == ~jr_stall /\ ~jump_done IN
     Decoded(inp, When(go, "pc_set") \cup When(go, "jump") \cup When(sste, "trap"), "DECODE")

\* mret, ecall, wfi, ebreak and illegal instructions wait for an empty EX.
DecodeFlush(inp) ==
  /\ Decoding(inp) /\ id.k \in Flushing
  /\ Decoded(inp, HaltAll, "FLUSH_EX")

\* A write to mstatus executes alone.
DecodeCsr(inp) ==
  /\ Decoding(inp) /\ id.k \in CsrStatus
  /\ Decoded(inp, HaltIF, IF id_ready(inp) THEN "FLUSH_EX" ELSE "DECODE")

\* Faulty variant: an event load is not a step for the debugger.
DecodeElwNoTrap(inp) ==
  /\ Decoding(inp) /\ id.k = "elw"
  /\ Decoded(inp, HaltIF, IF id_ready(inp) THEN "ELW_EXE" ELSE "DECODE")

DecodeElw(inp) ==
  /\ Decoding(inp) /\ id.k = "elw"
  /\ Decoded(inp, HaltIF \cup When(sste, "trap"),
             IF id_ready(inp) THEN "ELW_EXE" ELSE "DECODE")

DecodePlain(inp) ==
  /\ Decoding(inp) /\ id.k \in {"alu", "div", "load", "store"} \cup Branches
  /\ Decoded(inp, When(sste, "trap"), "DECODE")

\* The event load waits in EX.  One that overwrites its own address register
\* also keeps ID busy until its data is there.
ElwExe(inp) ==
  /\ ctrl = "ELW_EXE"
  /\ \/ id_ready(inp) /\ ctrl' = "IRQ_FLUSH"
     \/ /\ ~id_ready(inp) \/ ex.k = "elw" \/ ~wb_ready(inp)
        /\ ctrl' = IF dbg_req(inp, FALSE) THEN "DBG_SIGNAL_ELW" ELSE ctrl
  /\ Edge(inp, HaltAll)

\* Faulty variant: that interrupts are still enabled is not looked at again.
IrqFlushUnasked(inp) ==
  /\ ctrl = "IRQ_FLUSH"
  /\ ctrl' = IF irq_req THEN "IRQ_TAKEN_ID" ELSE "DECODE"
  /\ Edge(inp, HaltAll)

IrqFlush(inp) ==
  /\ ctrl = "IRQ_FLUSH"
  /\ ctrl' = IF irq_req /\ irq_enable_int THEN "IRQ_TAKEN_ID" ELSE "DECODE"
  /\ Edge(inp, HaltAll)

\* Faulty variant: entering a handler from sleep leaves interrupts on.
IrqTakenNoSave(inp) ==
  /\ ctrl \in {"IRQ_TAKEN_ID", "IRQ_TAKEN_IF"}
  /\ ctrl' = "DECODE"
  /\ Edge(inp, {"pc_set", "irq_ack"} \cup When(ctrl = "IRQ_TAKEN_ID", "save"))

\* Save the return address, disable interrupts, jump to the vector.
IrqTaken(inp) ==
  /\ ctrl \in {"IRQ_TAKEN_ID", "IRQ_TAKEN_IF"}
  /\ ctrl' = "DECODE"
  /\ Edge(inp, {"pc_set", "save", "irq_ack"})

\* Faulty variant: after the flush the controller decodes on.
FlushExOnly(inp) ==
  /\ ctrl = "FLUSH_EX"
  /\ ctrl' = IF ex_valid(inp) THEN "DECODE" ELSE ctrl
  /\ Edge(inp, HaltAll)

FlushEx(inp) ==
  /\ ctrl = "FLUSH_EX"
  /\ ctrl' = IF ex_valid(inp) THEN "FLUSH_WB" ELSE ctrl
  /\ Edge(inp, HaltAll)

FlushWb(inp) ==
  LET trap == sste \/ id.k \in settings
      dbg  == dbg_req(inp, trap)
  IN
  /\ ctrl = "FLUSH_WB"
  /\ ctrl' = CASE dbg /\ inp.fetch_enable  -> "DBG_SIGNAL"
               [] dbg /\ ~inp.fetch_enable -> "DBG_SIGNAL_SLEEP"
               [] ~dbg /\ ~inp.fetch_enable /\ id.k \in {"mret", "wfi"} -> "WAIT_SLEEP"
               [] OTHER -> "DECODE"
  /\ Edge(inp, HaltAll \cup {"retire"} \cup When(trap, "trap")
                 \cup When(id.k \in Traps \cup {"mret"}, "pc_set")
                 \cup When(id.k \in Traps, "save")
                 \cup When(id.k = "mret", "restore"))

\* A conditional branch was in ID when the debug request came.
DbgWaitBranch(inp) ==
  /\ ctrl = "DBG_WAIT_BRANCH"
  /\ ctrl' = "DBG_SIGNAL"
  /\ Edge(inp, HaltIF \cup When(branch_taken_ex, "pc_set"))

\* Faulty variant: no acknowledge while an event load waits.
DbgSignalNoElwAck(inp) ==
  /\ ctrl \in {"DBG_SIGNAL", "DBG_SIGNAL_SLEEP", "DBG_SIGNAL_ELW"}
  /\ ctrl' = CASE ctrl = "DBG_SIGNAL" -> "DBG_WAIT"
               [] ctrl = "DBG_SIGNAL_SLEEP" -> "DBG_WAIT_SLEEP"
               [] ctrl = "DBG_SIGNAL_ELW" -> "DBG_WAIT_ELW"
  /\ Edge(inp, {"halt_if"} \cup When(ctrl # "DBG_SIGNAL_ELW", "dbg_ack"))

\* Tell the debug unit that the pipeline is empty.
DbgSignal(inp) ==
  /\ ctrl \in {"DBG_SIGNAL", "DBG_SIGNAL_SLEEP", "DBG_SIGNAL_ELW"}
  /\ ctrl' = CASE ctrl = "DBG_SIGNAL" -> "DBG_WAIT"
               [] ctrl = "DBG_SIGNAL_SLEEP" -> "DBG_WAIT_SLEEP"
               [] ctrl = "DBG_SIGNAL_ELW" -> "DBG_WAIT_ELW"
  /\ Edge(inp, {"halt_if", "dbg_ack"})

\* The debugger has the core; it may set a new PC before it resumes.
DbgWait(inp) ==
  /\ ctrl \in {"DBG_WAIT", "DBG_WAIT_SLEEP", "DBG_WAIT_ELW"}
  /\ ctrl' = IF dbg_stall(inp) THEN (IF jump_req THEN "DBG_WAIT" ELSE ctrl)
             ELSE CASE ctrl = "DBG_WAIT" -> IF boot_done THEN "DECODE" ELSE "RESET"
                    [] ctrl = "DBG_WAIT_SLEEP" -> "SLEEP"
                    [] ctrl = "DBG_WAIT_ELW" -> "ELW_EXE"
  /\ Edge(inp, HaltIF \cup When(jump_req, "pc_set"))

Cycle(inp) ==
  \/ Reset(inp) \/ BootSet(inp) \/ WaitSleep(inp) \/ Sleep(inp)
  \/ FirstFetch(inp) \/ FirstFetchIrq(inp)
  \/ DecodeBranch(inp) \/ DecodeNothing(inp) \/ DecodeIrq(inp)
  \/ DecodeJump(inp) \/ DecodeFlush(inp) \/ DecodeCsr(inp) \/ DecodeElw(inp)
  \/ DecodePlain(inp)
  \/ ElwExe(inp) \/ IrqFlush(inp) \/ IrqTaken(inp)
  \/ FlushEx(inp) \/ FlushWb(inp)
  \/ DbgWaitBranch(inp) \/ DbgSignal(inp) \/ DbgWait(inp)

-----------------------------------------------------------------------------
\* The core alone, in surroundings that may do anything Possible allows.
Offers == {NoFetch} \cup UNION {[k : {i}, uses : Operands(i)] : i \in Insns}

NoIrq == [irq |-> FALSE, id |-> 0]
IrqWires == {NoIrq} \cup [irq : {TRUE}, id : Ids]

Wires(f, g, r, a, fe, q, d) ==
  [fetch |-> f, gnt |-> g, rvalid |-> r, aluReady |-> a, fetch_enable |-> fe,
   irq |-> q.irq, irq_id_i |-> q.id, dbg |-> d]

\* An input the core does not look at in the present state has one value.
FetchEnables == IF ctrl \in {"RESET", "SLEEP", "FLUSH_WB"} THEN BOOLEAN ELSE {FALSE}
IrqLines     == IF exc = "IDLE" /\ mie THEN IrqWires ELSE {NoIrq}
Offered      == IF ctrl \in {"RESET", "FIRST_FETCH", "DECODE"} THEN Offers ELSE {NoFetch}
DebugBus     == {DbgIdle} \cup
                {d \in DbgWrites : d.reg \in {"NPC", "MSTATUS"} => debug_halted}

Clk(aluReady) ==
  \E g, r \in BOOLEAN, fe \in FetchEnables, q \in IrqLines,
     d \in DebugBus, f \in Offered :
    /\ Possible(Wires(f, g, r, aluReady, fe, q, d))
    /\ Cycle(Wires(f, g, r, aluReady, fe, q, d))

Next == \E aluReady \in BOOLEAN : Clk(aluReady)

Spec == Init /\ [][Next]_coreVars

\* A cycle in which nobody outside the core wants anything of it.
QuietClk ==
  \E g, r \in BOOLEAN, f \in Offered :
    /\ Possible(Wires(f, g, r, TRUE, FALSE, NoIrq, DbgIdle))
    /\ Cycle(Wires(f, g, r, TRUE, FALSE, NoIrq, DbgIdle))

\* What the core waits for comes: the clock runs, the divider finishes, the bus
\* answers (the access moves on), the prefetcher fills an empty ID stage.  No
\* interrupt, debugger or fetch-enable is promised.
FairSpec ==
  /\ Spec
  /\ WF_coreVars(QuietClk)
  /\ []<>(ex.k \notin MemOps /\ wb = "none") \/ []<><<TRUE>>_<<ex, wb>>
  /\ []<>~(ctrl = "DECODE" /\ ~instr_valid)

-----------------------------------------------------------------------------
\* Safety.

\* Only instructions the program reaches take effect: never one fetched after
\* a taken branch, a jump or a trap and not yet flushed when that redirects
\* the fetch (riscv_controller.sv: decode and execute only if the branch in EX
\* is not taken).
OnlyRightPathExecutes ==
  /\ ~ex.wrong
  /\ ctrl \in {"FLUSH_EX", "FLUSH_WB", "IRQ_TAKEN_ID"} => ~id.wrong

\* An instruction that left ID without being executed is on its way to be
\* executed by the controller or to be saved as the return address; it is
\* never forgotten ("make sure the current instruction has been executed
\* before changing state to non-decode").
NothingForgotten ==
  owed # "none" => ctrl \in {"FLUSH_EX", "FLUSH_WB", "IRQ_FLUSH", "IRQ_TAKEN_ID"}

\* The core enters a handler only for a request the interrupt controller still
\* holds, with interrupts enabled; the acknowledge therefore always meets the
\* controller in IRQ_PENDING.
TakenOnlyWhenEnabled ==
  ctrl \in {"IRQ_TAKEN_ID", "IRQ_TAKEN_IF"} => irq_req /\ mie

\* While an acknowledged request is being retired interrupts are off, so the
\* same level of the line is not latched a second time.
NoReLatch == exc = "IRQ_DONE" => ~mie

\* jump_done only ever refers to the jump that is in ID: no other jump can
\* find its redirect already marked done.
JumpDoneIsMine == jump_done /\ instr_valid => id.k \in Jumps /\ path = "right"

\* In single-step mode the core halts after one instruction.
SingleStep == stepped # "many"

\* The two FSMs agree on who owns the core: the debugger has it exactly in the
\* wait states.
HaltAgreement ==
  stall = "HALT" <=> ctrl \in {"DBG_WAIT", "DBG_WAIT_SLEEP", "DBG_WAIT_ELW"}

\* A taken branch in EX is seen by a state that redirects the fetch: in every
\* other state its target would be lost and the next instruction executed.
BranchNotLost == branch_taken_ex => ctrl \in {"DECODE", "DBG_WAIT_BRANCH"}

-----------------------------------------------------------------------------
\* Liveness.

\* A halt request is always answered, whatever the program executes and even
\* if interrupts keep coming: no state of the controller ignores it for ever.
HaltAnswered == (stall = "HALT_REQ") ~> (stall = "HALT")

\* A latched interrupt request is taken or dropped, unless a debugger keeps
\* the core.
IrqResolved == (exc = "IRQ_PENDING") ~> (exc # "IRQ_PENDING" \/ stall = "HALT")
=============================================================================
