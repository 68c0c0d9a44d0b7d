---------------------------- MODULE WakeUpProofs ----------------------------
(***************************************************************************)
(* Proofs about WakeUp: the core, the event unit, the clock gate and the   *)
(* bus together, for every program, line and pulse.                        *)
(***************************************************************************)
EXTENDS WakeUp, TLAPS

\* The states of the controller without a debugger.
Undebugged ==
  {"RESET", "BOOT_SET", "SLEEP", "WAIT_SLEEP", "FIRST_FETCH", "DECODE", "IRQ_TAKEN_ID",
   "IRQ_TAKEN_IF", "IRQ_FLUSH", "ELW_EXE", "FLUSH_EX", "FLUSH_WB"}

NoDebug == ctrl \in Undebugged /\ stall = "RUNNING" /\ settings = {}

\* What a cycle of the controller does then: its successor state and its outputs.
Decoded(base) == base \cup {"is_decoding"} \cup Core!When(Core!irq_req, "kill")
Decodes(inp, o) ==
  /\ instr_valid
  /\ \/ /\ id.k \in Core!Jumps
        /\ o = Decoded(IF ~Core!jr_stall /\ ~jump_done THEN {"pc_set", "jump"} ELSE {})
        /\ ctrl' = "DECODE"
     \/ id.k \in Core!Flushing /\ o = Decoded({"halt_if", "halt_id"}) /\ ctrl' = "FLUSH_EX"
     \/ /\ id.k \in Core!CsrStatus /\ o = Decoded({"halt_if"})
        /\ ctrl' = IF Core!id_ready(inp) THEN "FLUSH_EX" ELSE "DECODE"
     \/ /\ id.k = "elw" /\ o = Decoded({"halt_if"})
        /\ ctrl' = IF Core!id_ready(inp) THEN "ELW_EXE" ELSE "DECODE"
     \/ /\ id.k \in {"alu", "div", "load", "store", "brTaken", "brNot"} /\ o = Decoded({})
        /\ ctrl' = "DECODE"

Moves(inp, o) ==
  \/ ctrl = "RESET" /\ o = {} /\ ctrl' = IF inp.fetch_enable THEN "BOOT_SET" ELSE "RESET"
  \/ ctrl = "BOOT_SET" /\ o = {"pc_set", "boot"} /\ ctrl' = "FIRST_FETCH"
  \/ ctrl = "WAIT_SLEEP" /\ o = {"halt_if", "halt_id"} /\ ctrl' = "SLEEP"
  \/ /\ ctrl = "SLEEP" /\ o = {"halt_if", "halt_id"}
     /\ ctrl' = IF inp.fetch_enable \/ Core!irq_req THEN "FIRST_FETCH" ELSE "SLEEP"
  \/ /\ ctrl = "FIRST_FETCH" /\ o = {} /\ ~(Core!irq_req /\ mie)
     /\ ctrl' = IF Core!id_ready(inp) THEN "DECODE" ELSE "FIRST_FETCH"
  \/ /\ ctrl = "FIRST_FETCH" /\ o = {"halt_if", "halt_id"} /\ Core!irq_req /\ mie
     /\ ctrl' = "IRQ_TAKEN_IF"
  \/ ctrl = "DECODE" /\ ex.k = "brTaken" /\ o = {"pc_set"} /\ ctrl' = "DECODE"
  \/ ctrl = "DECODE" /\ ex.k # "brTaken" /\ ~instr_valid /\ o = {} /\ ctrl' = "DECODE"
  \/ /\ ctrl = "DECODE" /\ ex.k # "brTaken" /\ instr_valid /\ Core!irq_req /\ mie
     /\ o = {"halt_if", "halt_id", "is_decoding"} /\ ctrl' = "IRQ_FLUSH"
  \/ /\ ctrl = "DECODE" /\ ex.k # "brTaken" /\ ~(Core!irq_req /\ mie)
     /\ Decodes(inp, o)
  \/ /\ ctrl = "ELW_EXE" /\ o = {"halt_if", "halt_id"} /\ ctrl' \in {"ELW_EXE", "IRQ_FLUSH"}
  \/ /\ ctrl = "IRQ_FLUSH" /\ o = {"halt_if", "halt_id"}
     /\ ctrl' = IF Core!irq_req /\ mie THEN "IRQ_TAKEN_ID" ELSE "DECODE"
  \/ /\ ctrl \in {"IRQ_TAKEN_ID", "IRQ_TAKEN_IF"} /\ o = {"pc_set", "save", "irq_ack"}
     /\ ctrl' = "DECODE"
  \/ /\ ctrl = "FLUSH_EX" /\ o = {"halt_if", "halt_id"}
     /\ ctrl' = IF Core!ex_valid(inp) THEN "FLUSH_WB" ELSE "FLUSH_EX"
  \/ /\ ctrl = "FLUSH_WB"
     /\ o = {"halt_if", "halt_id", "retire"}
              \cup Core!When(id.k \in Core!Traps \cup {"mret"}, "pc_set")
              \cup Core!When(id.k \in Core!Traps, "save")
              \cup Core!When(id.k = "mret", "restore")
     /\ ctrl' = IF ~inp.fetch_enable /\ id.k \in {"mret", "wfi"} THEN "WAIT_SLEEP" ELSE "DECODE"

\* Without a debugger every cycle of the core is one of these moves and clocks the core
\* with its outputs.
LEMMA CoreMoves ==
  ASSUME NoDebug, NEW inp, inp.dbg = Core!DbgIdle, Core!Cycle(inp)
  PROVE  \E o : Core!Edge(inp, o) /\ Moves(inp, o)
<1> USE DEF NoDebug, Undebugged, Core!DbgIdle, Core!Quiet, Core!HaltIF, Core!HaltAll, Core!When,
            Core!dbg_req, Core!dbg_halt, Core!sste, Core!branch_taken_ex, Core!irq_enable_int
<1>1. CASE Core!Reset(inp)
  BY <1>1 DEF Core!Reset, Moves
<1>2. CASE Core!BootSet(inp)
  BY <1>2 DEF Core!BootSet, Moves
<1>3. CASE Core!WaitSleep(inp)
  BY <1>3 DEF Core!WaitSleep, Moves
<1>4. CASE Core!Sleep(inp)
  BY <1>4 DEF Core!Sleep, Moves
<1>5. CASE Core!FirstFetch(inp)
  BY <1>5 DEF Core!FirstFetch, Core!dbg_stall, Core!debug_halted, Moves
<1>6. CASE Core!FirstFetchIrq(inp)
  BY <1>6 DEF Core!FirstFetchIrq, Moves
<1>7. CASE Core!DecodeBranch(inp)
  BY <1>7 DEF Core!DecodeBranch, Moves
<1>8. CASE Core!DecodeNothing(inp)
  BY <1>8 DEF Core!DecodeNothing, Moves
<1>9. CASE Core!DecodeIrq(inp)
  BY <1>9 DEF Core!DecodeIrq, Moves
<1>10. CASE Core!DecodeJump(inp)
  <2> DEFINE base == IF ~Core!jr_stall /\ ~jump_done THEN {"pc_set", "jump"} ELSE {}
             o == Decoded(base)
  <2>1. Core!Edge(inp, o)
    BY <1>10 DEF Core!DecodeJump, Core!Decoding, Core!Decoded, Decoded
  <2>2. Decodes(inp, o)
    BY <1>10 DEF Core!DecodeJump, Core!Decoding, Core!Decoded, Decodes
  <2> QED
    BY <1>10, <2>1, <2>2 DEF Core!DecodeJump, Core!Decoding, Moves
<1>11. CASE Core!DecodeFlush(inp)
  <2> DEFINE base == {"halt_if", "halt_id"}
             o == Decoded(base)
  <2>1. Core!Edge(inp, o)
    BY <1>11 DEF Core!DecodeFlush, Core!Decoding, Core!Decoded, Decoded
  <2>2. Decodes(inp, o)
    BY <1>11 DEF Core!DecodeFlush, Core!Decoding, Core!Decoded, Decodes
  <2> QED
    BY <1>11, <2>1, <2>2 DEF Core!DecodeFlush, Core!Decoding, Moves
<1>12. CASE Core!DecodeCsr(inp)
  <2> DEFINE base == {"halt_if"}
             o == Decoded(base)
  <2>1. Core!Edge(inp, o)
    BY <1>12 DEF Core!DecodeCsr, Core!Decoding, Core!Decoded, Decoded
  <2>2. Decodes(inp, o)
    BY <1>12 DEF Core!DecodeCsr, Core!Decoding, Core!Decoded, Decodes
  <2> QED
    BY <1>12, <2>1, <2>2 DEF Core!DecodeCsr, Core!Decoding, Moves
<1>13. CASE Core!DecodeElw(inp)
  <2> DEFINE base == {"halt_if"}
             o == Decoded(base)
  <2>1. Core!Edge(inp, o)
    BY <1>13 DEF Core!DecodeElw, Core!Decoding, Core!Decoded, Decoded
  <2>2. Decodes(inp, o)
    BY <1>13 DEF Core!DecodeElw, Core!Decoding, Core!Decoded, Decodes
  <2> QED
    BY <1>13, <2>1, <2>2 DEF Core!DecodeElw, Core!Decoding, Moves
<1>14. CASE Core!DecodePlain(inp)
  <2> DEFINE base == {}
             o == Decoded(base)
  <2>1. Core!Edge(inp, o)
    BY <1>14 DEF Core!DecodePlain, Core!Decoding, Core!Decoded, Decoded
  <2>2. Decodes(inp, o)
    BY <1>14 DEF Core!DecodePlain, Core!Decoding, Core!Decoded, Decodes, Core!Branches
  <2> QED
    BY <1>14, <2>1, <2>2 DEF Core!DecodePlain, Core!Decoding, Moves
<1>15. CASE Core!ElwExe(inp)
  BY <1>15 DEF Core!ElwExe, Moves
<1>16. CASE Core!IrqFlush(inp)
  BY <1>16 DEF Core!IrqFlush, Moves
<1>17. CASE Core!IrqTaken(inp)
  BY <1>17 DEF Core!IrqTaken, Moves
<1>18. CASE Core!FlushEx(inp)
  BY <1>18 DEF Core!FlushEx, Moves
<1>19. CASE Core!FlushWb(inp)
  BY <1>19 DEF Core!FlushWb, Moves
<1>20. CASE Core!DbgWaitBranch(inp)
  BY <1>20 DEF Core!DbgWaitBranch
<1>21. CASE Core!DbgSignal(inp)
  BY <1>21 DEF Core!DbgSignal
<1>22. CASE Core!DbgWait(inp)
  BY <1>22 DEF Core!DbgWait
<1> QED
  BY <1>1, <1>2, <1>3, <1>4, <1>5, <1>6, <1>7, <1>8, <1>9, <1>10, <1>11, <1>12, <1>13, <1>14, <1>15,
     <1>16, <1>17, <1>18, <1>19, <1>20, <1>21, <1>22 DEF Core!Cycle

-----------------------------------------------------------------------------
\* The clock gate.

\* What a cycle of the whole is for the core: a move, or nothing.
CoreStep(fetched) ==
  \/ /\ clock_en
     /\ \E o : Core!Edge(Inputs(fetched), o) /\ Moves(Inputs(fetched), o)
     /\ ProgramCounters(Inputs(fetched))
     /\ \E prefetching \in BOOLEAN : core_busy_q' = core_busy_int(prefetching)
  \/ CoreGated

Step(sig, fetched) ==
  /\ CoreStep(fetched)
  /\ EU!Clk(request, sig, core_busy_o, TRUE)
  /\ Bus(Inputs(fetched))
  /\ UNCHANGED image

LEMMA NextIsStep ==
  ASSUME NoDebug, Next
  PROVE  \E sig \in SUBSET {Line}, fetched \in BOOLEAN : Step(sig, fetched)
<1>1. PICK sig \in SUBSET {Line}, fetched \in BOOLEAN : Cycle(sig, fetched)
  BY DEF Next
<1>2. Inputs(fetched).dbg = Core!DbgIdle
  BY DEF Inputs
<1>3. CASE CoreRuns(Inputs(fetched))
  BY <1>1, <1>2, <1>3, CoreMoves DEF CoreRuns, Cycle, Step, CoreStep
<1>4. CASE CoreGated
  BY <1>1, <1>4 DEF Cycle, Step, CoreStep
<1> QED BY <1>1, <1>3, <1>4 DEF Cycle

\* Until the boot address is set nothing has reached the event unit.
Unbooted == {"RESET", "BOOT_SET"}
Untouched ==
  ctrl \in Unbooted =>
    wb = "none" /\ bus = "idle" /\ request = EU!NoTransfer /\ sleep_state = "RUN" /\ ~sleep_enable

\* EX is empty where the core can come to rest, and it is not busy only there; the
\* busy flag is one cycle old, so that the core may already be leaving.
Empty == ctrl \in Unbooted \cup {"FLUSH_WB", "WAIT_SLEEP", "SLEEP"} => ex.k = "none"
Idle  == ~core_busy_q => ctrl \in Unbooted \cup {"SLEEP", "FIRST_FETCH"} /\ wb = "none"

RestInv == NoDebug /\ Untouched /\ Empty /\ Idle

LEMMA RestStep ==
  ASSUME RestInv, NEW sig \in SUBSET {Line}, NEW fetched \in BOOLEAN, Step(sig, fetched)
  PROVE  RestInv'
<1> DEFINE inp == Inputs(fetched)
<1> USE DEF RestInv, Unbooted
<1>1. inp.dbg = Core!DbgIdle /\ inp.aluReady = TRUE /\ (inp.gnt => ex.k \in {"load", "store"})
  BY DEF Inputs
<1>2. NoDebug'
  <2>1. CASE CoreGated
    BY <2>1 DEF CoreGated, coreVars, NoDebug
  <2>2. ASSUME NEW o, Core!Edge(inp, o), Moves(inp, o) PROVE NoDebug'
    <3>1. ctrl' \in Undebugged
      BY <2>2 DEF Moves, Decodes, NoDebug, Undebugged
    <3>2. "trap" \notin o
      BY <2>2 DEF Moves, Decodes, Decoded, Core!When
    <3>3. stall' = "RUNNING" /\ settings' = {}
      BY <1>1, <2>2, <3>2 DEF NoDebug, Core!Edge, Core!DebugUnit, Core!DbgIdle, Core!dbg_req, Core!dbg_halt
    <3> QED BY <3>1, <3>3 DEF NoDebug
  <2> QED BY <2>1, <2>2 DEF Step, CoreStep
<1>3. Untouched'
  <2> SUFFICES ASSUME ctrl' \in Unbooted
               PROVE  /\ wb' = "none" /\ bus' = "idle" /\ request' = EU!NoTransfer
                      /\ sleep_state' = "RUN" /\ ~sleep_enable'
    BY DEF Untouched
  <2>1. ctrl \in Unbooted
    BY DEF Step, CoreStep, CoreGated, coreVars, Moves, Decodes
  <2>2. /\ wb = "none" /\ bus = "idle" /\ request = EU!NoTransfer
        /\ sleep_state = "RUN" /\ ~sleep_enable /\ ex.k = "none"
    BY <2>1 DEF Untouched, Empty
  <2>3. wb' = "none"
    BY <2>2 DEF Step, CoreStep, CoreGated, coreVars, Core!Edge, Core!Stages, Core!MemRequest,
       Core!MemOps, Core!wb_ready
  <2>4. bus' = "idle"
    BY <1>1, <2>2 DEF Step, Bus
  <2>5. request' = EU!NoTransfer
    BY <2>4 DEF Step, Bus
  <2>6. sleep_state' = "RUN" /\ ~sleep_enable'
    BY <2>2 DEF Step, EU!Clk, EU!SLP!Clk, EU!SLP!Shutdown, EU!SLP!FallAsleep, EU!SLP!Wake,
       EU!SLP!WakeForIrq, EU!SLP!Stay, EU!SLP!Registers, EU!SleepWrite, EU!NoTransfer, EU!SLP!NoWrite
  <2> QED BY <2>3, <2>4, <2>5, <2>6
<1>4. Empty'
  <2> SUFFICES ASSUME ctrl' \in Unbooted \cup {"FLUSH_WB", "WAIT_SLEEP", "SLEEP"}
               PROVE  ex'.k = "none"
    BY DEF Empty
  <2>1. CASE CoreGated
    BY <2>1 DEF CoreGated, coreVars, Empty
  <2>2. ASSUME NEW o, Core!Edge(inp, o), Moves(inp, o) PROVE ex'.k = "none"
    <3>1. ~Core!executes(inp, o)
      BY <2>2 DEF Moves, Decodes, Decoded, Core!When, Core!executes, Core!id_valid
    <3>2. ex.k = "none" \/ Core!ex_valid(inp)
      BY <2>2 DEF Moves, Decodes, Empty
    <3> QED
      BY <2>2, <3>1, <3>2 DEF Core!Edge, Core!Stages, Core!Bubble, Core!ex_ready
  <2> QED BY <2>1, <2>2 DEF Step, CoreStep
<1>5. Idle'
  <2> SUFFICES ASSUME ~core_busy_q'
               PROVE  ctrl' \in Unbooted \cup {"SLEEP", "FIRST_FETCH"} /\ wb' = "none"
    BY DEF Idle
  <2>1. CASE CoreGated
    BY <2>1 DEF CoreGated, coreVars, Idle
  <2>2. ASSUME NEW o, Core!Edge(inp, o), Moves(inp, o), NEW p, core_busy_q' = core_busy_int(p)
        PROVE  ctrl' \in Unbooted \cup {"SLEEP", "FIRST_FETCH"} /\ wb' = "none"
    <3>1. ctrl \in {"RESET", "WAIT_SLEEP", "SLEEP"} /\ ~Core!MemRequest /\ wb = "none"
      BY <2>2 DEF core_busy_int
    <3>2. ctrl' \in Unbooted \cup {"SLEEP", "FIRST_FETCH"}
      BY <2>2, <3>1 DEF Moves
    <3>3. wb' = "none"
      BY <2>2, <3>1 DEF Core!Edge, Core!Stages, Core!wb_ready
    <3> QED BY <3>2, <3>3
  <2> QED BY <2>1, <2>2 DEF Step, CoreStep
<1> QED BY <1>2, <1>3, <1>4, <1>5

LEMMA RestInvariant == Spec => []RestInv
<1>1. Init => RestInv
  BY DEF Init, Core!Init, EU!Init, EU!SLP!Init, RestInv, NoDebug, Undebugged, Untouched, Empty, Idle,
     Unbooted, Core!Bubble
<1>2. RestInv /\ [Next]_vars => RestInv'
  <2> SUFFICES ASSUME RestInv, [Next]_vars PROVE RestInv'
    OBVIOUS
  <2>1. CASE Next
    <3>1. NoDebug
      BY DEF RestInv
    <3> QED BY <2>1, <3>1, NextIsStep, RestStep
  <2>2. CASE UNCHANGED vars
    BY <2>2 DEF vars, coreVars, EU!vars, EU!sleepUnit, RestInv, NoDebug, Untouched, Empty, Idle
  <2> QED BY <2>1, <2>2
<1> QED BY <1>1, <1>2, PTL DEF Spec

\* The clock of the core stops only in its sleep state or in reset, and with nothing in
\* EX and no data access under way, whatever the program, its stores and the line do.
THEOREM GatedAtRest == Spec => []GatedOnlyAtRest
<1>1. RestInv => GatedOnlyAtRest
  BY DEF RestInv, Untouched, Empty, Idle, Unbooted, GatedOnlyAtRest, clock_en, core_busy_o,
     EU!clk_gate_core_o, EU!SLP!clk_gate_core_o
<1> QED BY <1>1, RestInvariant, PTL
-----------------------------------------------------------------------------
\* Programs and their handlers.

Kinds == {"load", "store", "jal", "csrEI", "wfi", "mret"}
Following(a) == IF a + 1 \in Addresses THEN a + 1 ELSE a

\* A store that takes a request back which the core may have latched.
Acknowledges(t) == t.unit = "IRQ" /\ t.wr.reg \in {"PENDING", "CLEAR_PENDING"}

\* The addresses in H are the handlers of image i: straight-line code up to mret that
\* the rest of the program only enters by an interrupt, and that alone acknowledges
\* requests.  Its last access, if an acknowledge directly before mret, must not wait
\* behind another access: the controller takes an mret as executed when the store
\* before it is granted, and the acknowledge would be under way with interrupts on.
HandlersIn(i, H) ==
  LET p == i.program
      Acks(a) == p[a].k = "store" /\ Acknowledges(p[a].wr)
  IN
  /\ i.vector \in H /\ 0 \notin H
  /\ \A a \in H :
       /\ p[a].k \in {"load", "store", "mret"}
       /\ p[a].k # "mret" => a + 1 \in H
       /\ Acks(a) /\ p[a + 1].k = "mret" => \A b \in H : b + 1 = a => p[b].k = "mret"
  /\ \A a \in DOMAIN p \ H :
       /\ ~Acks(a)
       /\ p[a].k = "jal" => p[a].to \notin H
       /\ p[a].k \notin {"jal", "mret"} => a + 1 \notin H

ASSUME HandlerAssumption ==
  \A i \in Images : \E H \in SUBSET DOMAIN i.program : HandlersIn(i, H)

H == CHOOSE h \in SUBSET DOMAIN image.program : HandlersIn(image, h)
Acks(a) == Program[a].k = "store" /\ Acknowledges(Program[a].wr)

-----------------------------------------------------------------------------
\* The invariant.

\* What is in a stage is what the program has at its address.
Labels ==
  /\ image \in Images
  /\ {pc_if, pc_id, pc_ex, pc_wb, mepc} \subseteq Addresses
  /\ instr_valid \/ ctrl \in {"FLUSH_EX", "FLUSH_WB"} => id.k = Program[pc_id].k
  /\ ex.k \in {"none", Program[pc_ex].k}
  /\ wb \in {"none", Program[pc_wb].k}

\* The store on its way is the one in WB.
OnBus ==
  /\ bus \in {"idle", "travel", "bridge", "response", "back"}
  /\ bus = "idle" <=> wb = "none"
  /\ bus \in {"travel", "bridge", "response"} => wb = "store"
  /\ request = IF bus = "bridge" THEN Program[pc_wb].wr ELSE EU!NoTransfer

\* Nothing is in ID outside DECODE once booted, and no event load is ever met.
InDecode == (instr_valid => ctrl \in Unbooted \cup {"DECODE"}) /\ ctrl # "ELW_EXE"

\* The fetch is right behind the instruction in ID, unless that jumps.
Behind == ctrl = "DECODE" /\ instr_valid /\ id.k # "jal" => pc_if = Following(pc_id)

\* An mstatus write is alone in the pipeline.
CsrAlone ==
  ex.k = "csrEI" =>
    ctrl = "FLUSH_EX" /\ ~instr_valid /\ id.k = "csrEI" /\ pc_if \notin H

\* Interrupts are off, and none is latched.
Off == ~mie /\ ~Core!irq_req

\* A handler is entered for a request that is held; nothing is before the boot.
Entered == ctrl \in {"IRQ_FLUSH", "IRQ_TAKEN_ID", "IRQ_TAKEN_IF"} => Core!irq_req /\ mie
BootOff == ctrl \in Unbooted => Off

\* The address of the fetch is replaced before it is used.
Redirected ==
  \/ ctrl \in {"IRQ_FLUSH", "IRQ_TAKEN_ID"}
  \/ ctrl = "DECODE" /\ instr_valid /\ id.k = "jal" /\ ~jump_done
  \/ ctrl = "DECODE" /\ instr_valid /\ id.k = "mret"
  \/ ctrl \in {"FLUSH_EX", "FLUSH_WB"} /\ id.k = "mret"

\* In a handler interrupts are off; it returns outside.
HandlerOff ==
  /\ \/ instr_valid
     \/ ctrl \in {"FLUSH_EX", "FLUSH_WB", "IRQ_FLUSH", "IRQ_TAKEN_ID"}
     => (pc_id \in H => Off)
  /\ pc_if \in H => Off \/ Redirected
  /\ mepc \notin H

\* An acknowledge in EX or on its way to the event unit.
AckInEx == ex.k = "store" /\ Acks(pc_ex)
AckSent == wb = "store" /\ Acks(pc_wb)

\* The handler that issued it goes on, and its mret waits for it.
AckCovered ==
  /\ AckInEx \/ AckSent =>
       /\ Off /\ ctrl \in {"DECODE", "FLUSH_EX"}
       /\ IF instr_valid \/ ctrl = "FLUSH_EX" THEN pc_id \in H ELSE pc_if \in H
  /\ AckInEx => ctrl = "DECODE"
  /\ AckInEx /\ instr_valid /\ id.k = "mret" => wb = "none"
  /\ ctrl = "DECODE" /\ instr_valid /\ Acks(pc_id) /\ Program[pc_if].k = "mret" =>
       ex.k \notin {"load", "store"}

FlowInv ==
  /\ Labels /\ OnBus /\ InDecode /\ Behind /\ CsrAlone
  /\ Entered /\ BootOff /\ HandlerOff /\ AckCovered

\* What the event unit holds; irq_o lags behind the pending register by a cycle.
IrqHeld ==
  /\ ipr \subseteq {Line} /\ isp \subseteq {Line} /\ irq_o \subseteq {Line}
  /\ icp # {} => AckSent /\ bus = "response"
  /\ irq_o \subseteq ipr \/ (AckSent /\ bus \in {"response", "back"})
  /\ Core!irq_req => irq_id \in ipr /\ irq_o # {}

Asleep == sleep_state = "SLEEP" => ctrl = "SLEEP" /\ ~Core!irq_req

LEMMA ProgramFacts ==
  ASSUME image \in Images
  PROVE  /\ Addresses \subseteq Nat /\ 0 \in Addresses /\ image.vector \in Addresses
         /\ \A a \in Addresses :
              /\ Program[a].k \in Kinds
              /\ Program[a].k = "jal" => Program[a].to \in Addresses
              /\ Program[a].k = "store" => Program[a].wr \in EU!Transfers
              /\ Following(a) \in Addresses
         /\ H \in SUBSET Addresses /\ HandlersIn(image, H)
<1>1. \A a \in Addresses : Program[a].k \in Insns
  BY DEF Insns, Addresses, Program
<1>2. \E h \in SUBSET DOMAIN image.program : HandlersIn(image, h)
  BY HandlerAssumption
<1>3. H \in SUBSET DOMAIN image.program /\ HandlersIn(image, H)
  BY <1>2 DEF H
<1> QED
  BY <1>1, <1>3, ProgramAssumption DEF Addresses, Program, Kinds, Following

\* Where control goes from inside a handler and from outside.
LEMMA HandlerFacts ==
  ASSUME image \in Images
  PROVE  /\ image.vector \in H /\ 0 \notin H
         /\ \A a \in H :
              /\ Program[a].k \in {"load", "store", "mret"}
              /\ Program[a].k # "mret" => Following(a) \in H /\ Following(a) = a + 1
              /\ Acks(a) /\ Program[Following(a)].k = "mret" =>
                   \A b \in H : Following(b) = a => Program[b].k = "mret"
         /\ \A a \in Addresses \ H :
              /\ ~Acks(a)
              /\ Program[a].k = "jal" => Program[a].to \notin H
              /\ Program[a].k \notin {"jal", "mret"} => Following(a) \notin H
<1>1. Addresses \subseteq Nat /\ H \in SUBSET Addresses /\ HandlersIn(image, H)
  BY ProgramFacts
<1>2. image.vector \in H /\ 0 \notin H
  BY <1>1 DEF HandlersIn
<1>3. ASSUME NEW a \in H
      PROVE  /\ Program[a].k \in {"load", "store", "mret"}
             /\ Program[a].k # "mret" => Following(a) \in H /\ Following(a) = a + 1
             /\ Acks(a) /\ Program[Following(a)].k = "mret" =>
                  \A b \in H : Following(b) = a => Program[b].k = "mret"
  <2>1. /\ Program[a].k \in {"load", "store", "mret"}
        /\ Program[a].k # "mret" => a + 1 \in H
        /\ Acks(a) /\ Program[a + 1].k = "mret" => \A b \in H : b + 1 = a => Program[b].k = "mret"
    BY <1>1, <1>3 DEF HandlersIn, Acks, Program
  <2>2. Program[a].k # "mret" => Following(a) \in H /\ Following(a) = a + 1
    BY <1>1, <2>1 DEF Following
  <2>3. \A b \in H : Program[b].k # "mret" => Following(b) = b + 1
    BY <1>1 DEF HandlersIn, Following, Program
  <2> QED BY <2>1, <2>2, <2>3 DEF Acks
<1>4. ASSUME NEW a \in Addresses \ H
      PROVE  /\ ~Acks(a)
             /\ Program[a].k = "jal" => Program[a].to \notin H
             /\ Program[a].k \notin {"jal", "mret"} => Following(a) \notin H
  BY <1>1, <1>4 DEF HandlersIn, Acks, Program, Addresses, Following
<1> QED BY <1>2, <1>3, <1>4

-----------------------------------------------------------------------------
\* What one clocked cycle does to the stages, the program counters and the
\* interrupt enable, in terms of the controller's outputs.
Took(inp, o) == Core!if_valid(inp, o)
Goes(inp, o) == Core!executes(inp, o)

Fetches(inp, o) ==
  /\ Took(inp, o) =>
       /\ instr_valid' /\ pc_id' = pc_if /\ id'.k = Program[pc_if].k /\ ~jump_done'
       /\ Core!ex_valid(inp) /\ "halt_if" \notin o /\ "pc_set" \notin o
  /\ ~Took(inp, o) =>
       /\ id' = id /\ pc_id' = pc_id
       /\ instr_valid' => instr_valid /\ "halt_id" \notin o /\ ~Core!id_ready(inp)
  /\ "pc_set" \notin o => pc_if' = IF Took(inp, o) THEN Following(pc_if) ELSE pc_if
  /\ ctrl = "BOOT_SET" => pc_if' = 0
  /\ ctrl \in {"IRQ_TAKEN_ID", "IRQ_TAKEN_IF"} => pc_if' = image.vector
  /\ ctrl = "FLUSH_WB" /\ id.k = "mret" => pc_if' = mepc
  /\ "jump" \in o => pc_if' = Program[pc_id].to
  /\ mepc' = IF ctrl = "IRQ_TAKEN_ID" THEN pc_id ELSE IF ctrl = "IRQ_TAKEN_IF" THEN pc_if ELSE mepc

Executes(inp, o) ==
  /\ Core!id_ready(inp) => Core!ex_valid(inp)
  /\ Goes(inp, o) => Core!id_ready(inp) /\ ex'.k = id.k /\ pc_ex' = pc_id
  /\ ~Goes(inp, o) => \/ ex'.k = "none"
                      \/ ex' = ex /\ pc_ex' = pc_ex /\ ~Core!ex_valid(inp)
  /\ Core!ex_valid(inp) =>
       /\ wb # "none" => bus = "back"
       /\ IF ex.k \in {"load", "store"} THEN inp.gnt /\ wb' = ex.k /\ pc_wb' = pc_ex
          ELSE wb' = "none"
  /\ ~Core!ex_valid(inp) =>
       ~inp.gnt /\ (wb' = "none" \/ (wb' = wb /\ pc_wb' = pc_wb /\ bus # "back"))

Enables(inp, o) ==
  /\ "save" \in o => ~mie'
  /\ mie' => mie \/ ex.k = "csrEI" \/ "restore" \in o
  /\ mie /\ "save" \notin o /\ "restore" \notin o => mie'
  /\ Core!irq_req' => IF Core!irq_req THEN "irq_ack" \notin o /\ irq_id' = irq_id
                      ELSE mie /\ EU!irq /\ irq_id' = inp.irq_id_i
  /\ Core!irq_req /\ "irq_ack" \notin o /\ "kill" \notin o => Core!irq_req'

\* What may be in EX.
LEMMA ExKinds ==
  ASSUME Labels
  PROVE  ex.k \in {"none"} \cup Kinds
BY ProgramFacts DEF Labels

LEMMA CycleFetches ==
  ASSUME Labels, NoDebug, NEW fetched \in BOOLEAN, NEW o, Core!Edge(Inputs(fetched), o),
         Moves(Inputs(fetched), o), ProgramCounters(Inputs(fetched))
  PROVE  Fetches(Inputs(fetched), o)
<1> DEFINE inp == Inputs(fetched)
<1>1. Program[pc_if].k # "none" /\ (instr_valid => id.k \in Kinds)
  BY ProgramFacts DEF Labels, Kinds
<1>2. inp.fetch = IF fetched THEN [k |-> Program[pc_if].k, uses |-> {}] ELSE Core!NoFetch
  BY DEF Inputs
<1>3. Core!id_ready(inp) => Core!ex_valid(inp)
  BY ExKinds DEF Core!id_ready, Core!ex_ready, Core!Branches, Kinds
<1>4. ASSUME Took(inp, o)
      PROVE  /\ instr_valid' /\ pc_id' = pc_if /\ id'.k = Program[pc_if].k /\ ~jump_done'
             /\ Core!ex_valid(inp) /\ "halt_if" \notin o /\ "pc_set" \notin o
  <2>1. inp.fetch = [k |-> Program[pc_if].k, uses |-> {}]
    BY <1>2, <1>4 DEF Took, Core!if_valid
  <2>2. Core!id_ready(inp) /\ "halt_if" \notin o /\ "pc_set" \notin o
    BY <1>4 DEF Took, Core!if_valid
  <2>3. instr_valid' /\ id'.k = Program[pc_if].k
    <3>1. Core!if_valid(inp, o)
      BY <1>4 DEF Took
    <3>2. instr_valid'
      BY <3>1 DEF Core!Edge, Core!Stages
    <3>3. id' = [k |-> inp.fetch.k, uses |-> inp.fetch.uses, wrong |-> path = "wrong"]
      BY <3>1 DEF Core!Edge, Core!Stages
    <3>4. id'.k = inp.fetch.k
      BY <3>3
    <3> HIDE DEF inp
    <3> QED BY <2>1, <3>2, <3>4
  <2>4. ~jump_done'
    BY <2>2 DEF Core!Edge
  <2>5. pc_id' = pc_if
    BY <2>2, <2>3 DEF ProgramCounters, Fetched
  <2> QED BY <1>3, <2>2, <2>3, <2>4, <2>5
<1>5. ASSUME ~Took(inp, o)
      PROVE  /\ id' = id /\ pc_id' = pc_id
             /\ instr_valid' => instr_valid /\ "halt_id" \notin o /\ ~Core!id_ready(inp)
  BY <1>5 DEF Took, Core!Edge, Core!Stages, Core!clear_instr_valid, ProgramCounters, Fetched
<1>6. Took(inp, o) <=> Fetched(inp)
  BY <1>4, <1>5 DEF Took, Core!if_valid, Fetched
<1>7. Core!Decoding(inp) /\ id.k = "jal" /\ ~jump_done <=> "jump" \in o
  <2>1. ~Core!jr_stall \/ id.k = "jalr"
    BY DEF Core!jr_stall
  <2> QED
    BY <1>1, <2>1 DEF Moves, Decodes, Decoded, Core!When, Core!Decoding, Core!branch_taken_ex,
       Core!irq_enable_int, Core!Jumps, Core!Flushing, Core!Traps, Core!CsrStatus, Kinds
<1>8. "jump" \in o => ctrl = "DECODE" /\ "pc_set" \in o
  BY DEF Moves, Decodes, Decoded, Core!When
<1>9. "pc_set" \notin o => ctrl \notin {"BOOT_SET", "IRQ_TAKEN_ID", "IRQ_TAKEN_IF"}
                           /\ ~(ctrl = "FLUSH_WB" /\ id.k = "mret")
  BY DEF Moves, Core!When
<1>10. "pc_set" \notin o => pc_if' = IF Took(inp, o) THEN Following(pc_if) ELSE pc_if
  BY <1>6, <1>7, <1>8, <1>9 DEF ProgramCounters, Next_pc, Following
<1>11. "jump" \in o => pc_if' = Program[pc_id].to
  BY <1>7, <1>8 DEF ProgramCounters
<1>12. /\ ctrl = "BOOT_SET" => pc_if' = 0
       /\ ctrl \in {"IRQ_TAKEN_ID", "IRQ_TAKEN_IF"} => pc_if' = image.vector
       /\ ctrl = "FLUSH_WB" /\ id.k = "mret" => pc_if' = mepc
       /\ mepc' = IF ctrl = "IRQ_TAKEN_ID" THEN pc_id ELSE IF ctrl = "IRQ_TAKEN_IF" THEN pc_if ELSE mepc
  BY DEF ProgramCounters, Core!Decoding
<1> QED BY <1>4, <1>5, <1>10, <1>11, <1>12 DEF Fetches

LEMMA CycleExecutes ==
  ASSUME Labels, OnBus, NoDebug, NEW fetched \in BOOLEAN, NEW o, Core!Edge(Inputs(fetched), o),
         Moves(Inputs(fetched), o), ProgramCounters(Inputs(fetched))
  PROVE  Executes(Inputs(fetched), o)
<1> DEFINE inp == Inputs(fetched)
<1>1. /\ inp.gnt <=> (ex.k = "store" /\ bus = "idle") \/ (ex.k = "load" /\ bus \in {"idle", "back"})
      /\ inp.rvalid <=> bus = "back"
      /\ inp.aluReady = TRUE
  BY DEF Inputs
<1>2. ex.k \in {"none"} \cup Kinds
  BY ExKinds
<1>3. /\ Core!ex_valid(inp) <=> (ex.k \in {"load", "store"} => inp.gnt) /\ (wb # "none" => bus = "back")
      /\ Core!ex_ready(inp) <=> Core!ex_valid(inp)
      /\ Core!MemRequest <=> ex.k \in {"load", "store"}
  BY <1>1, <1>2 DEF Core!ex_valid, Core!ex_ready, Core!lsu_ready_ex, Core!wb_ready, Core!MemRequest,
     Core!MemOps, Core!Branches, Kinds
<1>4. Core!id_ready(inp) => Core!ex_valid(inp)
  BY <1>3 DEF Core!id_ready
<1>5. ASSUME Goes(inp, o) PROVE Core!id_ready(inp) /\ ex'.k = id.k /\ pc_ex' = pc_id
  <2>1. instr_valid /\ Core!id_ready(inp) /\ ex'.k = id.k
    BY <1>5 DEF Goes, Core!executes, Core!id_valid, Core!Edge, Core!Stages, Moves, Decodes, Decoded,
       Core!When
  <2>2. id.k # "none"
    BY <2>1, ProgramFacts DEF Labels, Kinds
  <2> QED BY <2>1, <2>2 DEF ProgramCounters, Dispatched
<1>6. ASSUME ~Goes(inp, o)
      PROVE  ex'.k = "none" \/ (ex' = ex /\ pc_ex' = pc_ex /\ ~Core!ex_valid(inp))
  BY <1>3, <1>4, <1>6 DEF Goes, Core!Edge, Core!Stages, Core!Bubble, ProgramCounters, Dispatched
<1>7. ASSUME Core!ex_valid(inp)
      PROVE  /\ wb # "none" => bus = "back"
             /\ IF ex.k \in {"load", "store"} THEN inp.gnt /\ wb' = ex.k /\ pc_wb' = pc_ex
                ELSE wb' = "none"
  BY <1>3, <1>7 DEF Core!Edge, Core!Stages, ProgramCounters
<1>8. ASSUME ~Core!ex_valid(inp)
      PROVE  ~inp.gnt /\ (wb' = "none" \/ (wb' = wb /\ pc_wb' = pc_wb /\ bus # "back"))
  <2>1. ~inp.gnt
    BY <1>1, <1>3, <1>8 DEF OnBus
  <2> QED
    BY <1>1, <1>8, <2>1 DEF Core!Edge, Core!Stages, Core!wb_ready, ProgramCounters
<1> QED BY <1>4, <1>5, <1>6, <1>7, <1>8 DEF Executes

LEMMA CycleEnables ==
  ASSUME Labels, NoDebug, NEW fetched \in BOOLEAN, NEW o, Core!Edge(Inputs(fetched), o)
  PROVE  Enables(Inputs(fetched), o)
<1> DEFINE inp == Inputs(fetched)
<1>1. inp.irq <=> EU!irq
  BY DEF Inputs
<1>2. inp.dbg.reg = "NONE"
  BY DEF Inputs, Core!DbgIdle
<1>3. ex.k \in {"none"} \cup Kinds
  BY ExKinds
<1> QED
  BY <1>1, <1>2, <1>3 DEF Enables, Kinds, Core!Edge, Core!Mstatus, Core!CsrStatus, Core!IntController,
     Core!irq_req

-----------------------------------------------------------------------------
\* One clocked cycle keeps the invariant, part by part.
Running(fetched, o) ==
  /\ RestInv /\ FlowInv /\ image' = image
  /\ Core!Edge(Inputs(fetched), o) /\ Moves(Inputs(fetched), o)
  /\ ProgramCounters(Inputs(fetched)) /\ Bus(Inputs(fetched))
  /\ Fetches(Inputs(fetched), o) /\ Executes(Inputs(fetched), o) /\ Enables(Inputs(fetched), o)

LEMMA SameImage ==
  ASSUME image' = image
  PROVE  Program' = Program /\ Addresses' = Addresses /\ H' = H
BY DEF Program, Addresses, H

\* A move of a program of these kinds, without the cases that cannot occur.
LEMMA Plainly ==
  ASSUME NEW fetched \in BOOLEAN, NEW o, Running(fetched, o)
  PROVE  /\ ex.k # "brTaken"
         /\ instr_valid \/ ctrl \in {"FLUSH_EX", "FLUSH_WB"} => id.k \in Kinds /\ id.k = Program[pc_id].k
         /\ "jump" \in o => ctrl = "DECODE" /\ instr_valid /\ id.k = "jal" /\ ~jump_done
         /\ "pc_set" \in o => \/ ctrl \in {"BOOT_SET", "IRQ_TAKEN_ID", "IRQ_TAKEN_IF"}
                              \/ ctrl = "FLUSH_WB" /\ id.k = "mret"
                              \/ "jump" \in o
         /\ "restore" \in o => ctrl = "FLUSH_WB" /\ id.k = "mret"
<1>1. ex.k # "brTaken"
  BY ExKinds DEF Running, FlowInv, Kinds
<1>2. instr_valid \/ ctrl \in {"FLUSH_EX", "FLUSH_WB"} => id.k \in Kinds /\ id.k = Program[pc_id].k
  BY ProgramFacts DEF Running, FlowInv, Labels
<1>3. "jump" \in o => ctrl = "DECODE" /\ instr_valid /\ id.k = "jal" /\ ~jump_done
  BY <1>2 DEF Running, Moves, Decodes, Decoded, Core!When, Core!Jumps, Kinds
<1>4. "pc_set" \in o => \/ ctrl \in {"BOOT_SET", "IRQ_TAKEN_ID", "IRQ_TAKEN_IF"}
                        \/ ctrl = "FLUSH_WB" /\ id.k = "mret"
                        \/ "jump" \in o
  BY <1>1, <1>2 DEF Running, Moves, Decodes, Decoded, Core!When, Core!Traps, Kinds
<1>5. "restore" \in o => ctrl = "FLUSH_WB" /\ id.k = "mret"
  BY DEF Running, Moves, Decodes, Decoded, Core!When
<1> QED BY <1>1, <1>2, <1>3, <1>4, <1>5

\* Where the fetch goes.
LEMMA FetchAddress ==
  ASSUME NEW fetched \in BOOLEAN, NEW o, Running(fetched, o)
  PROVE  \/ "pc_set" \notin o /\ Took(Inputs(fetched), o) /\ pc_if' = Following(pc_if)
         \/ "pc_set" \notin o /\ ~Took(Inputs(fetched), o) /\ pc_if' = pc_if
         \/ ctrl = "BOOT_SET" /\ pc_if' = 0
         \/ ctrl \in {"IRQ_TAKEN_ID", "IRQ_TAKEN_IF"} /\ pc_if' = image.vector
         \/ ctrl = "FLUSH_WB" /\ id.k = "mret" /\ pc_if' = mepc
         \/ /\ ctrl = "DECODE" /\ instr_valid /\ id.k = "jal"
            /\ Program[pc_id].k = "jal" /\ pc_if' = Program[pc_id].to
BY Plainly DEF Running, Fetches

LEMMA LabelsStep ==
  ASSUME NEW fetched \in BOOLEAN, NEW o, Running(fetched, o)
  PROVE  Labels'
<1> DEFINE inp == Inputs(fetched)
<1>1. Program' = Program /\ Addresses' = Addresses /\ image' = image /\ image \in Images /\ Labels
  BY SameImage DEF Running, FlowInv, Labels
<1>2. {pc_if, pc_id, pc_ex, pc_wb, mepc}' \subseteq Addresses
  <2>1. pc_if' \in Addresses
    BY <1>1, FetchAddress, ProgramFacts DEF Labels
  <2>2. pc_id' \in Addresses /\ pc_ex' \in Addresses /\ pc_wb' \in Addresses /\ mepc' \in Addresses
    BY <1>1 DEF Labels, Running, ProgramCounters
  <2> QED BY <2>1, <2>2
<1>3. instr_valid' \/ ctrl' \in {"FLUSH_EX", "FLUSH_WB"} => id'.k = Program[pc_id'].k
  <2>1. CASE Took(inp, o)
    BY <2>1 DEF Running, Fetches
  <2>2. CASE ~Took(inp, o)
    <3>1. id' = id /\ pc_id' = pc_id /\ (instr_valid' => instr_valid)
      BY <2>2 DEF Running, Fetches
    <3>2. ctrl' \in {"FLUSH_EX", "FLUSH_WB"} => instr_valid \/ ctrl \in {"FLUSH_EX", "FLUSH_WB"}
      BY DEF Running, Moves, Decodes
    <3> QED BY <1>1, <3>1, <3>2 DEF Labels
  <2> QED BY <2>1, <2>2
<1>4. ex'.k \in {"none", Program[pc_ex'].k}
  <2>1. CASE Goes(inp, o)
    <3>1. instr_valid
      BY <2>1 DEF Running, Moves, Decodes, Decoded, Core!When, Goes, Core!executes
    <3> QED BY <1>1, <2>1, <3>1 DEF Running, Executes, Labels
  <2>2. CASE ~Goes(inp, o)
    BY <1>1, <2>2 DEF Running, Executes, Labels
  <2> QED BY <2>1, <2>2
<1>5. wb' \in {"none", Program[pc_wb'].k}
  BY <1>1 DEF Running, Executes, Labels
<1> QED BY <1>1, <1>2, <1>3, <1>4, <1>5 DEF Labels

LEMMA OnBusStep ==
  ASSUME NEW fetched \in BOOLEAN, NEW o, Running(fetched, o)
  PROVE  OnBus'
<1> DEFINE inp == Inputs(fetched)
<1>1. OnBus /\ Labels
  BY DEF Running, FlowInv
<1>2. Program' = Program
  BY SameImage DEF Running
<1>3. inp.gnt <=> (ex.k = "store" /\ bus = "idle") \/ (ex.k = "load" /\ bus \in {"idle", "back"})
  BY DEF Inputs
<1>4. Core!ex_valid(inp) => IF ex.k \in {"load", "store"} THEN inp.gnt /\ wb' = ex.k ELSE wb' = "none"
  BY DEF Running, Executes
<1>5. ~Core!ex_valid(inp) => ~inp.gnt /\ (wb' = "none" \/ (wb' = wb /\ bus # "back"))
  BY DEF Running, Executes
<1>6. wb' = "none" /\ ~Core!ex_valid(inp) => bus \in {"idle", "back"}
  BY <1>1 DEF OnBus, Running, Core!Edge, Core!Stages, Core!wb_ready, Inputs
<1>7. /\ bus' \in {"idle", "travel", "bridge", "response", "back"}
      /\ bus' = "idle" <=> wb' = "none"
      /\ bus' \in {"travel", "bridge", "response"} => wb' = "store"
  <2>1. CASE inp.gnt
    BY <1>1, <1>3, <1>4, <1>5, <2>1 DEF Running, Bus, OnBus
  <2>2. CASE ~inp.gnt
    BY <1>1, <1>3, <1>4, <1>5, <1>6, <2>2 DEF Running, Bus, OnBus, Executes
  <2> QED BY <2>1, <2>2
<1>8. request' = IF bus' = "bridge" THEN Program'[pc_wb'] .wr ELSE EU!NoTransfer
  <2>1. bus' = "bridge" => pc_wb' = pc_wb
    BY <1>1, <1>3 DEF OnBus, Running, Bus, ProgramCounters
  <2> QED BY <1>2, <2>1 DEF Running, Bus
<1> QED BY <1>7, <1>8 DEF OnBus

LEMMA InDecodeStep ==
  ASSUME NEW fetched \in BOOLEAN, NEW o, Running(fetched, o)
  PROVE  InDecode'
<1> DEFINE inp == Inputs(fetched)
<1>1. InDecode /\ NoDebug /\ Untouched /\ Empty
  BY DEF Running, FlowInv, RestInv
<1>2. ctrl' # "ELW_EXE"
  BY <1>1, Plainly DEF Running, Moves, Decodes, InDecode, Kinds
<1>3. ASSUME Took(inp, o) PROVE ctrl' \in Unbooted \cup {"DECODE"}
  <2>1. Core!id_ready(inp) /\ "halt_if" \notin o /\ "pc_set" \notin o
    BY <1>3 DEF Took, Core!if_valid
  <2> QED
    BY <1>1, <2>1, Plainly DEF Running, Moves, Decodes, Decoded, Core!When, InDecode, Unbooted, Kinds,
       Core!Traps, Core!Flushing, Core!Jumps, Core!CsrStatus
<1>4. ASSUME ~Took(inp, o), instr_valid' PROVE ctrl' \in Unbooted \cup {"DECODE"}
  <2>1. instr_valid /\ "halt_id" \notin o /\ ~Core!id_ready(inp)
    BY <1>4 DEF Running, Fetches
  <2>2. CASE ctrl = "DECODE"
    BY <2>1, <2>2, Plainly DEF Running, Moves, Decodes, Decoded, Core!When, Kinds,
       Core!Traps, Core!Flushing, Core!Jumps, Core!CsrStatus
  <2>3. CASE ctrl = "RESET"
    BY <2>3 DEF Running, Moves, Unbooted
  <2>4. CASE ctrl = "BOOT_SET"
    <3>1. ex.k = "none" /\ wb = "none"
      BY <1>1, <2>4 DEF Untouched, Empty, Unbooted
    <3>2. Core!id_ready(inp)
      BY <3>1 DEF Core!id_ready, Core!ex_ready, Core!ex_valid, Core!lsu_ready_ex, Core!wb_ready,
         Core!MemRequest, Core!MemOps, Core!load_stall, Core!Loads, Core!jr_stall, Core!AluWriters,
         Core!CsrStatus, Inputs
    <3> QED BY <2>1, <3>2
  <2> QED BY <1>1, <2>1, <2>2, <2>3, <2>4 DEF InDecode, Unbooted
<1> QED BY <1>2, <1>3, <1>4 DEF InDecode

LEMMA BehindStep ==
  ASSUME NEW fetched \in BOOLEAN, NEW o, Running(fetched, o)
  PROVE  Behind'
<1> DEFINE inp == Inputs(fetched)
<1>1. Addresses' = Addresses
  BY SameImage DEF Running
<1>2. SUFFICES ASSUME ctrl' = "DECODE", instr_valid', id'.k # "jal"
               PROVE  pc_if' = IF pc_id' + 1 \in Addresses THEN pc_id' + 1 ELSE pc_id'
  BY <1>1 DEF Behind, Following
<1>3. CASE Took(inp, o)
  BY <1>3 DEF Running, Fetches, Following
<1>4. CASE ~Took(inp, o)
  <2>1. id' = id /\ pc_id' = pc_id /\ instr_valid /\ "halt_id" \notin o
    BY <1>2, <1>4 DEF Running, Fetches
  <2>2. ctrl = "DECODE"
    BY <1>2, <2>1 DEF Running, FlowInv, InDecode, Unbooted, Moves
  <2>3. pc_if' = pc_if
    BY <1>2, <1>4, <2>1, <2>2, Plainly DEF Running, Fetches
  <2> QED BY <1>2, <2>1, <2>2, <2>3 DEF Running, FlowInv, Behind, Following
<1> QED BY <1>3, <1>4

LEMMA CsrAloneStep ==
  ASSUME NEW fetched \in BOOLEAN, NEW o, Running(fetched, o)
  PROVE  CsrAlone'
<1> DEFINE inp == Inputs(fetched)
<1>1. H' = H
  BY SameImage DEF Running
<1>2. SUFFICES ASSUME ex'.k = "csrEI"
               PROVE  ctrl' = "FLUSH_EX" /\ ~instr_valid' /\ id'.k = "csrEI" /\ pc_if' \notin H
  BY <1>1 DEF CsrAlone
<1>3. CASE Goes(inp, o)
  <2>1. Core!id_ready(inp) /\ id.k = "csrEI"
    BY <1>2, <1>3 DEF Running, Executes
  <2>2. ctrl = "DECODE" /\ instr_valid /\ "halt_if" \in o /\ "pc_set" \notin o /\ ctrl' = "FLUSH_EX"
    BY <1>3, <2>1 DEF Running, Moves, Decodes, Decoded, Core!When, Goes, Core!executes, Core!id_valid,
       Core!Jumps, Core!Flushing, Core!Traps, Core!CsrStatus
  <2>3. ~Took(inp, o)
    BY <2>2 DEF Took, Core!if_valid
  <2>4. id' = id /\ ~instr_valid' /\ pc_if' = pc_if
    BY <2>1, <2>2, <2>3 DEF Running, Fetches
  <2>5. pc_id \in Addresses /\ Program[pc_id].k = "csrEI" /\ pc_if = Following(pc_id)
    BY <2>1, <2>2 DEF Running, FlowInv, Labels, Behind
  <2>6. pc_id \notin H
    BY <2>5, HandlerFacts DEF Running, FlowInv, Labels
  <2>7. pc_if \notin H
    BY <2>5, <2>6, HandlerFacts DEF Running, FlowInv, Labels
  <2> QED BY <2>1, <2>2, <2>4, <2>7
<1>4. CASE ~Goes(inp, o)
  <2>1. ex.k = "csrEI" /\ ~Core!ex_valid(inp)
    BY <1>2, <1>4 DEF Running, Executes
  <2>2. ctrl = "FLUSH_EX" /\ ~instr_valid /\ id.k = "csrEI" /\ pc_if \notin H
    BY <2>1 DEF Running, FlowInv, CsrAlone
  <2>3. ctrl' = "FLUSH_EX" /\ "pc_set" \notin o
    BY <2>1, <2>2 DEF Running, Moves
  <2>4. ~Took(inp, o)
    BY <2>1 DEF Running, Fetches
  <2> QED BY <2>2, <2>3, <2>4 DEF Running, Fetches
<1> QED BY <1>3, <1>4

LEMMA EnteredStep ==
  ASSUME NEW fetched \in BOOLEAN, NEW o, Running(fetched, o)
  PROVE  Entered' /\ BootOff'
<1>1. ASSUME ctrl' \in {"IRQ_FLUSH", "IRQ_TAKEN_ID", "IRQ_TAKEN_IF"} PROVE Core!irq_req' /\ mie'
  <2>1. /\ Core!irq_req /\ mie
        /\ "save" \notin o /\ "restore" \notin o /\ "irq_ack" \notin o /\ "kill" \notin o
    BY <1>1 DEF Running, FlowInv, InDecode, Moves, Decodes
  <2> QED BY <2>1 DEF Running, Enables
<1>2. ASSUME ctrl' \in Unbooted PROVE Off'
  <2>1. ctrl = "RESET" /\ "restore" \notin o
    BY <1>2 DEF Unbooted, Running, Moves, Decodes
  <2>2. ex.k = "none" /\ ~mie /\ ~Core!irq_req
    BY <2>1 DEF Running, RestInv, FlowInv, Empty, BootOff, Off, Unbooted
  <2>3. ~mie' /\ ~Core!irq_req'
    BY <2>1, <2>2 DEF Running, Enables
  <2> QED BY <2>3 DEF Off
<1> QED BY <1>1, <1>2 DEF Entered, BootOff

\* Interrupts stay off but for a write of mstatus or an mret.
LEMMA OffStays ==
  ASSUME NEW fetched \in BOOLEAN, NEW o, Running(fetched, o), Off,
         ex.k # "csrEI", ~(ctrl = "FLUSH_WB" /\ id.k = "mret")
  PROVE  Off'
<1>1. "restore" \notin o
  BY Plainly
<1>2. ~mie' /\ ~Core!irq_req'
  BY <1>1 DEF Running, Enables, Off
<1> QED BY <1>2 DEF Off

LEMMA HandlerOffStep ==
  ASSUME NEW fetched \in BOOLEAN, NEW o, Running(fetched, o)
  PROVE  HandlerOff'
<1> DEFINE inp == Inputs(fetched)
           inId == instr_valid \/ ctrl \in {"FLUSH_EX", "FLUSH_WB", "IRQ_FLUSH", "IRQ_TAKEN_ID"}
<1>0. /\ H' = H /\ image \in Images /\ pc_if \in Addresses /\ pc_id \in Addresses
      /\ HandlerOff /\ InDecode /\ CsrAlone /\ Entered
  BY SameImage DEF Running, FlowInv, Labels
\* an instruction of a handler that is fetched finds interrupts off
<1>1. ASSUME Took(inp, o), pc_if \in H PROVE Off'
  <2>1. Core!id_ready(inp) /\ "halt_if" \notin o /\ "pc_set" \notin o
    BY <1>1 DEF Took, Core!if_valid
  <2>2. ~Redirected
    BY <2>1, Plainly DEF Running, Moves, Decodes, Decoded, Core!When, Redirected, Kinds, Core!jr_stall,
       Core!Jumps, Core!Flushing, Core!Traps, Core!CsrStatus
  <2>3. Off
    BY <1>0, <1>1, <2>2 DEF HandlerOff
  <2>4. ex.k # "csrEI" /\ ~(ctrl = "FLUSH_WB" /\ id.k = "mret")
    BY <1>0, <1>1, <2>2 DEF CsrAlone, Redirected
  <2> QED BY <2>3, <2>4, OffStays
<1>2. inId' /\ pc_id' \in H => Off'
  <2> SUFFICES ASSUME inId', pc_id' \in H PROVE Off'
    OBVIOUS
  <2>1. CASE Took(inp, o)
    BY <1>1, <2>1 DEF Running, Fetches
  <2>2. CASE ~Took(inp, o)
    <3>1. pc_id' = pc_id /\ (instr_valid' => instr_valid)
      BY <2>2 DEF Running, Fetches
    <3>2. inId
      BY <3>1, <1>0 DEF Running, Moves, Decodes, InDecode
    <3>3. Off
      BY <1>0, <3>1, <3>2 DEF HandlerOff
    <3>4. ex.k # "csrEI"
      <4> SUFFICES ASSUME ex.k = "csrEI" PROVE FALSE
        OBVIOUS
      <4>1. Program[pc_id].k = "csrEI"
        BY <1>0, Plainly DEF CsrAlone
      <4> QED BY <1>0, <3>1, <4>1, HandlerFacts
    <3>5. ~(ctrl = "FLUSH_WB" /\ id.k = "mret")
      BY <1>0, <3>1 DEF Running, Moves, InDecode, Unbooted
    <3> QED BY <3>3, <3>4, <3>5, OffStays
  <2> QED BY <2>1, <2>2
<1>3. mepc' \notin H
  <2>1. CASE ctrl = "IRQ_TAKEN_ID"
    BY <1>0, <2>1 DEF Running, Fetches, HandlerOff, Entered, Off
  <2>2. CASE ctrl = "IRQ_TAKEN_IF"
    BY <1>0, <2>2 DEF Running, Fetches, HandlerOff, Entered, Off, Redirected
  <2>3. CASE ctrl \notin {"IRQ_TAKEN_ID", "IRQ_TAKEN_IF"}
    BY <1>0, <2>3 DEF Running, Fetches, HandlerOff
  <2> QED BY <2>1, <2>2, <2>3
<1>4. pc_if' \in H => Off' \/ Redirected'
  <2> SUFFICES ASSUME pc_if' \in H PROVE Off' \/ Redirected'
    OBVIOUS
  <2>1. CASE "pc_set" \notin o /\ Took(inp, o) /\ pc_if' = Following(pc_if)
    <3>1. CASE pc_if \in H
      BY <1>1, <2>1, <3>1
    <3>2. CASE pc_if \notin H
      <4>1. Program[pc_if].k \in {"jal", "mret"}
        BY <1>0, <2>1, <3>2, HandlerFacts
      <4>2. instr_valid' /\ id'.k \in {"jal", "mret"} /\ ~jump_done'
        BY <2>1, <4>1 DEF Running, Fetches
      <4>3. ctrl' \in Unbooted \cup {"DECODE"}
        BY <4>2, InDecodeStep DEF InDecode
      <4>4. ctrl' \in Unbooted => Off'
        BY EnteredStep DEF BootOff
      <4> QED BY <4>2, <4>3, <4>4 DEF Redirected
    <3> QED BY <3>1, <3>2
  <2>2. CASE "pc_set" \notin o /\ ~Took(inp, o) /\ pc_if' = pc_if
    <3>1. CASE Redirected
      <4>1. id' = id
        BY <2>2 DEF Running, Fetches
      <4> QED
        BY <1>0, <2>2, <3>1, <4>1, Plainly DEF Running, Moves, Decodes, Decoded, Core!When, Redirected,
           Entered, Kinds, Core!jr_stall, Core!Jumps, Core!Flushing, Core!Traps, Core!CsrStatus
    <3>2. CASE ~Redirected
      <4>1. Off
        BY <1>0, <2>2, <3>2 DEF HandlerOff
      <4>2. ex.k # "csrEI" /\ ~(ctrl = "FLUSH_WB" /\ id.k = "mret")
        BY <1>0, <2>2, <3>2 DEF CsrAlone, Redirected
      <4> QED BY <4>1, <4>2, OffStays
    <3> QED BY <3>1, <3>2
  <2>3. CASE ctrl = "BOOT_SET" /\ pc_if' = 0
    BY <1>0, <2>3, HandlerFacts
  <2>4. CASE ctrl \in {"IRQ_TAKEN_ID", "IRQ_TAKEN_IF"} /\ pc_if' = image.vector
    <3>1. "save" \in o /\ "irq_ack" \in o /\ Core!irq_req
      BY <1>0, <2>4 DEF Running, Moves, Entered
    <3>2. ~mie' /\ ~Core!irq_req'
      BY <3>1 DEF Running, Enables
    <3> QED BY <3>2 DEF Off
  <2>5. CASE ctrl = "FLUSH_WB" /\ id.k = "mret" /\ pc_if' = mepc
    BY <1>0, <2>5 DEF HandlerOff
  <2>6. CASE /\ ctrl = "DECODE" /\ instr_valid /\ id.k = "jal"
             /\ Program[pc_id].k = "jal" /\ pc_if' = Program[pc_id].to
    BY <1>0, <2>6, HandlerFacts
  <2> QED BY <2>1, <2>2, <2>3, <2>4, <2>5, <2>6, FetchAddress
<1> QED BY <1>0, <1>2, <1>3, <1>4 DEF HandlerOff

\* An acknowledge enters EX from a handler, or it was on its way before.
LEMMA AckFrom ==
  ASSUME NEW fetched \in BOOLEAN, NEW o, Running(fetched, o)
  PROVE  /\ AckInEx' => \/ Goes(Inputs(fetched), o) /\ id.k = "store" /\ Acks(pc_id)
                        \/ AckInEx /\ ~Core!ex_valid(Inputs(fetched))
         /\ AckSent' => \/ AckInEx
                        \/ AckSent /\ ~Core!ex_valid(Inputs(fetched))
<1> DEFINE inp == Inputs(fetched)
<1>1. Program' = Program
  BY SameImage DEF Running
<1>2. AckInEx' => ex'.k = "store" /\ Program[pc_ex'].k = "store" /\ Acknowledges(Program[pc_ex'].wr)
  BY <1>1 DEF AckInEx, Acks, Acknowledges
<1>3. AckSent' => wb' = "store" /\ Program[pc_wb'].k = "store" /\ Acknowledges(Program[pc_wb'].wr)
  BY <1>1 DEF AckSent, Acks, Acknowledges
<1>4. AckInEx' => \/ Goes(inp, o) /\ id.k = "store" /\ Acks(pc_id)
                  \/ AckInEx /\ ~Core!ex_valid(inp)
  BY <1>2 DEF Running, Executes, Acks, AckInEx
<1>5. AckSent' => AckInEx \/ (AckSent /\ ~Core!ex_valid(inp))
  BY <1>3 DEF Running, Executes, Acks, AckInEx, AckSent
<1> QED BY <1>4, <1>5

\* One that waits in EX while mret is in ID is granted at once.
LEMMA AckGranted ==
  ASSUME NEW fetched \in BOOLEAN, NEW o, Running(fetched, o),
         AckInEx, instr_valid, id.k = "mret"
  PROVE  Core!ex_valid(Inputs(fetched))
<1>1. wb = "none" /\ OnBus
  BY DEF Running, FlowInv, AckCovered
<1>2. Inputs(fetched).gnt
  BY <1>1 DEF OnBus, AckInEx, Inputs
<1> QED BY <1>2 DEF Running, Executes

LEMMA AckStep ==
  ASSUME NEW fetched \in BOOLEAN, NEW o, Running(fetched, o)
  PROVE  AckCovered'
<1> DEFINE inp == Inputs(fetched)
           At(valid, c, a, f) == IF valid \/ c = "FLUSH_EX" THEN a \in H ELSE f \in H
<1>0. /\ H' = H /\ Program' = Program /\ image \in Images /\ pc_if \in Addresses /\ pc_id \in Addresses
      /\ HandlerOff /\ InDecode /\ CsrAlone /\ AckCovered /\ Behind /\ Labels
  BY SameImage DEF Running, FlowInv, Labels
<1>1. ASSUME Goes(inp, o)
      PROVE  /\ ctrl = "DECODE" /\ instr_valid /\ Core!id_ready(inp) /\ Core!ex_valid(inp)
             /\ id.k \in {"load", "store"} => ctrl' = "DECODE" /\ "pc_set" \notin o
  BY <1>1 DEF Goes, Core!executes, Core!id_valid, Running, Moves, Decodes, Decoded, Core!When, Executes,
     Core!Jumps, Core!Flushing, Core!Traps, Core!CsrStatus
\* it enters EX
<1>2. ASSUME Goes(inp, o), id.k = "store", Acks(pc_id)
      PROVE  /\ Off' /\ ctrl' = "DECODE" /\ At(instr_valid', ctrl', pc_id', pc_if')
             /\ instr_valid' /\ id'.k = "mret" => wb' = "none"
  <2>1. /\ ctrl = "DECODE" /\ instr_valid /\ Core!id_ready(inp) /\ Core!ex_valid(inp)
        /\ ctrl' = "DECODE" /\ "pc_set" \notin o
    BY <1>1, <1>2
  <2>2. pc_id \in H
    BY <1>0, <1>2, HandlerFacts
  <2>3. pc_if \in H /\ pc_if = Following(pc_id)
    BY <1>0, <1>2, <2>1, <2>2, HandlerFacts, Plainly DEF Behind
  <2>4. Off'
    BY <1>0, <2>1, <2>2, OffStays DEF HandlerOff, CsrAlone
  <2>5. At(instr_valid', ctrl', pc_id', pc_if')
    BY <2>1, <2>3 DEF Running, Fetches
  <2>6. ASSUME instr_valid', id'.k = "mret" PROVE wb' = "none"
    <3>1. Took(inp, o)
      BY <2>1, <2>6 DEF Running, Fetches
    <3>2. Program[pc_if].k = "mret"
      BY <2>6, <3>1 DEF Running, Fetches
    <3>3. ex.k \notin {"load", "store"}
      BY <1>0, <1>2, <2>1, <3>2 DEF AckCovered
    <3> QED BY <2>1, <3>3 DEF Running, Executes
  <2> QED BY <2>1, <2>4, <2>5, <2>6
\* it was on its way, and still is
<1>3. ASSUME AckInEx \/ (AckSent /\ ~Core!ex_valid(inp))
      PROVE  Off' /\ ctrl' \in {"DECODE", "FLUSH_EX"} /\ At(instr_valid', ctrl', pc_id', pc_if')
  <2>1. Off /\ ctrl \in {"DECODE", "FLUSH_EX"} /\ At(instr_valid, ctrl, pc_id, pc_if)
    BY <1>0, <1>3 DEF AckCovered
  <2>2. Off'
    <3>1. ex.k # "csrEI"
      <4> SUFFICES ASSUME ex.k = "csrEI" PROVE FALSE
        OBVIOUS
      <4>1. ctrl = "FLUSH_EX" /\ id.k = "csrEI"
        BY <1>0 DEF CsrAlone
      <4>2. pc_id \in H /\ Program[pc_id].k = "csrEI"
        BY <2>1, <4>1, Plainly
      <4> QED BY <1>0, <4>2, HandlerFacts
    <3> QED BY <2>1, <3>1, OffStays
  <2>3. CASE ctrl = "FLUSH_EX"
    <3>1. ~Core!ex_valid(inp)
      BY <1>0, <1>3, <2>3 DEF AckCovered
    <3>2. ctrl' = "FLUSH_EX"
      BY <2>3, <3>1 DEF Running, Moves
    <3>3. pc_id' = pc_id
      BY <3>1 DEF Running, Fetches
    <3> QED BY <2>1, <2>2, <2>3, <3>2, <3>3
  <2>4. CASE ctrl = "DECODE" /\ ~instr_valid
    <3>1. ctrl' = "DECODE" /\ "pc_set" \notin o
      BY <2>4, Plainly DEF Running, Moves, Decodes
    <3> QED BY <2>1, <2>2, <2>4, <3>1 DEF Running, Fetches
  <2>5. CASE ctrl = "DECODE" /\ instr_valid
    <3>1. pc_id \in H /\ id.k = Program[pc_id].k /\ id.k \in {"load", "store", "mret"}
      BY <1>0, <2>1, <2>5, Plainly, HandlerFacts
    <3>2. CASE id.k = "mret"
      <4>1. ctrl' = "FLUSH_EX" /\ "halt_if" \in o
        BY <2>1, <2>5, <3>2, Plainly DEF Off, Running, Moves, Decodes, Decoded, Core!When, Core!Jumps,
           Core!CsrStatus
      <4>2. pc_id' = pc_id
        BY <4>1 DEF Running, Fetches
      <4> QED BY <2>2, <3>1, <4>1, <4>2
    <3>3. CASE id.k \in {"load", "store"}
      <4>1. ctrl' = "DECODE" /\ "pc_set" \notin o
        BY <2>1, <2>5, <3>3, Plainly DEF Off, Running, Moves, Decodes, Decoded, Core!When, Core!Jumps,
           Core!CsrStatus, Core!Flushing, Core!Traps
      <4>2. pc_if \in H
        BY <1>0, <2>5, <3>1, <3>3, HandlerFacts DEF Behind
      <4> QED BY <2>2, <3>1, <4>1, <4>2 DEF Running, Fetches
    <3> QED BY <3>1, <3>2, <3>3
  <2> QED BY <2>1, <2>3, <2>4, <2>5
<1>4. AckInEx' \/ AckSent' =>
        Off' /\ ctrl' \in {"DECODE", "FLUSH_EX"} /\ At(instr_valid', ctrl', pc_id', pc_if')
  BY <1>2, <1>3, AckFrom
\* it stays in EX only in DECODE, with no mret in ID
<1>5. ASSUME AckInEx, ~Core!ex_valid(inp)
      PROVE  ctrl' = "DECODE" /\ ~(instr_valid' /\ id'.k = "mret")
  <2>1. Off /\ ctrl = "DECODE" /\ (instr_valid => pc_id \in H)
    BY <1>0, <1>5 DEF AckCovered
  <2>2. ~(instr_valid /\ id.k = "mret")
    BY <1>5, AckGranted
  <2>3. ~(instr_valid' /\ id'.k = "mret")
    BY <1>5, <2>2 DEF Running, Fetches
  <2>4. instr_valid => id.k \in {"load", "store"}
    BY <1>0, <2>1, <2>2, Plainly, HandlerFacts
  <2>5. ctrl' = "DECODE"
    BY <2>1, <2>4, Plainly DEF Off, Running, Moves, Decodes, Core!Jumps, Core!CsrStatus, Core!Flushing,
       Core!Traps
  <2> QED BY <2>3, <2>5
<1>6. AckInEx' => ctrl' = "DECODE" /\ (instr_valid' /\ id'.k = "mret" => wb' = "none")
  BY <1>2, <1>5, AckFrom
<1>7. ASSUME ctrl' = "DECODE", instr_valid', Acks(pc_id)', Program[pc_if'].k = "mret"
      PROVE  ex'.k \notin {"load", "store"}
  <2>1. Program[pc_id'].k = "store" /\ Acknowledges(Program[pc_id'].wr)
    BY <1>0, <1>7 DEF Acks, Acknowledges
  <2>2. CASE Took(inp, o)
    <3>1. pc_id' = pc_if /\ pc_if' = Following(pc_if) /\ Core!ex_valid(inp)
      BY <2>2 DEF Running, Fetches
    <3>2. pc_if \in H /\ Acks(pc_if) /\ Program[Following(pc_if)].k = "mret"
      BY <1>0, <1>7, <2>1, <3>1, HandlerFacts DEF Acks
    <3>3. ASSUME Goes(inp, o) PROVE id.k \notin {"load", "store"}
      <4> SUFFICES ASSUME id.k \in {"load", "store"} PROVE FALSE
        OBVIOUS
      <4>1. pc_if = Following(pc_id) /\ Program[pc_id].k \in {"load", "store"}
        BY <1>0, <1>1, <3>3, Plainly DEF Behind
      <4>2. pc_id \in H
        BY <1>0, <3>2, <4>1, HandlerFacts
      <4> QED BY <1>0, <3>2, <4>1, <4>2, HandlerFacts
    <3> QED BY <3>1, <3>3 DEF Running, Executes
  <2>3. CASE ~Took(inp, o)
    <3>1. id' = id /\ pc_id' = pc_id /\ instr_valid /\ ~Core!id_ready(inp)
      BY <1>7, <2>3 DEF Running, Fetches
    <3>2. ctrl = "DECODE"
      BY <1>0, <1>7, <3>1 DEF Running, InDecode, Unbooted, Moves
    <3>3. id.k = "store" /\ Acks(pc_id)
      BY <2>1, <3>1, Plainly DEF Acks
    <3>4. pc_if' = pc_if
      BY <2>3, <3>2, <3>3, Plainly DEF Running, Fetches
    <3>5. ex.k \notin {"load", "store"}
      BY <1>0, <1>7, <3>1, <3>2, <3>3, <3>4 DEF AckCovered
    <3> QED BY <3>1, <3>5 DEF Running, Executes
  <2> QED BY <2>2, <2>3
<1>8. (ctrl = "DECODE" /\ instr_valid /\ Acks(pc_id) /\ Program[pc_if].k = "mret" =>
         ex.k \notin {"load", "store"})'
  BY <1>0, <1>7
<1> QED BY <1>0, <1>4, <1>6, <1>8 DEF AckCovered

LEMMA FlowStep ==
  ASSUME RestInv, FlowInv, NEW sig \in SUBSET {Line}, NEW fetched \in BOOLEAN, Step(sig, fetched)
  PROVE  FlowInv'
<1>1. ASSUME NEW o, Core!Edge(Inputs(fetched), o), Moves(Inputs(fetched), o),
             ProgramCounters(Inputs(fetched))
      PROVE  FlowInv'
  <2>1. Labels /\ OnBus /\ NoDebug
    BY DEF FlowInv, RestInv
  <2>2. Fetches(Inputs(fetched), o) /\ Executes(Inputs(fetched), o) /\ Enables(Inputs(fetched), o)
    BY <1>1, <2>1, CycleFetches, CycleExecutes, CycleEnables
  <2>3. Running(fetched, o)
    BY <1>1, <2>2 DEF Running, Step
  <2> QED
    BY <2>3, LabelsStep, OnBusStep, InDecodeStep, BehindStep, CsrAloneStep, EnteredStep,
       HandlerOffStep, AckStep DEF FlowInv
<1>2. ASSUME CoreGated PROVE FlowInv'
  <2>1. UNCHANGED coreVars /\ UNCHANGED pcs /\ UNCHANGED image
    BY <1>2 DEF CoreGated, Step
  <2>2. ex.k = "none" /\ wb = "none"
    BY <1>2 DEF RestInv, Untouched, Empty, Idle, Unbooted, CoreGated, clock_en, core_busy_o,
       EU!clk_gate_core_o, EU!SLP!clk_gate_core_o
  <2>3. bus = "idle"
    BY <2>2 DEF FlowInv, OnBus
  <2>4. ~Inputs(fetched).gnt
    BY <2>2 DEF Inputs
  <2>5. bus' = "idle"
    BY <2>3, <2>4 DEF Step, Bus
  <2>6. request' = EU!NoTransfer
    BY <2>5 DEF Step, Bus
  <2>7. OnBus'
    BY <2>1, <2>2, <2>5, <2>6 DEF OnBus, coreVars
  <2>8. Program' = Program /\ Addresses' = Addresses /\ H' = H
    BY <2>1, SameImage
  <2>9. Labels' /\ InDecode' /\ Behind' /\ CsrAlone' /\ Entered' /\ BootOff' /\ HandlerOff'
    BY <2>1, <2>8 DEF FlowInv, Labels, InDecode, Behind, Following, CsrAlone, Entered, BootOff,
       HandlerOff, Redirected, Off, Core!irq_req, coreVars, pcs
  <2>10. AckCovered'
    BY <2>1, <2>8 DEF FlowInv, AckCovered, AckInEx, AckSent, Acks, Acknowledges, Off, Core!irq_req,
       coreVars, pcs
  <2> QED BY <2>7, <2>9, <2>10 DEF FlowInv
<1> QED BY <1>1, <1>2 DEF Step, CoreStep

\* The interrupt latch under one cycle of the whole: only an acknowledge takes a pending
\* line away, and while one is under way no request is latched.
LEMMA IrqHeldStep ==
  ASSUME RestInv, FlowInv, IrqHeld,
         NEW sig \in SUBSET {Line}, NEW fetched \in BOOLEAN, Step(sig, fetched)
  PROVE  IrqHeld'
<1> DEFINE w == EU!IrqWrite(request)
<1>0. Labels /\ OnBus /\ AckCovered /\ NoDebug /\ image \in Images /\ FlowInv'
  BY FlowStep DEF FlowInv, RestInv, Labels
<1>1. EU!IRQ!Clk(sig, w)
  BY DEF Step, EU!Clk
<1>2. w.data \subseteq {Line} /\ (w.reg \in {"PENDING", "CLEAR_PENDING"} => bus = "bridge" /\ AckSent)
  <2>1. CASE bus # "bridge"
    BY <1>0, <2>1 DEF OnBus, EU!IrqWrite, EU!NoTransfer, EU!IRQ!NoWrite
  <2>2. CASE bus = "bridge"
    <3>1. wb = "store" /\ Program[pc_wb].k = "store" /\ request = Program[pc_wb].wr /\ pc_wb \in Addresses
      BY <1>0, <2>2 DEF OnBus, Labels
    <3>2. request \in EU!Transfers
      BY <1>0, <3>1, ProgramFacts
    <3>3. CASE request \in [unit : {"IRQ", "EVENT"}, wr : EU!IRQ!Writes]
      BY <2>2, <3>1, <3>3 DEF EU!IrqWrite, EU!IRQ!NoWrite, EU!IRQ!Writes, AckSent, Acks, Acknowledges
    <3>4. CASE request \in [unit : {"SLEEP"}, wr : EU!SLP!Writes]
      BY <3>4 DEF EU!IrqWrite, EU!IRQ!NoWrite
    <3> QED BY <3>2, <3>3, <3>4 DEF EU!Transfers
  <2> QED BY <2>1, <2>2
\* while it is at the bridge and in the event unit, the acknowledge is in WB
<1>3. ASSUME AckSent, bus \in {"bridge", "response"}
      PROVE  AckSent' /\ bus' = (IF bus = "bridge" THEN "response" ELSE "back")
  <2>1. bus' = IF bus = "bridge" THEN "response" ELSE "back"
    BY <1>3 DEF Step, Bus
  <2>2. wb # "none" /\ wb' # "none"
    BY <1>0, <1>3, <2>1 DEF FlowInv, OnBus
  <2>3. wb' = wb /\ pc_wb' = pc_wb
    <3>1. CASE CoreGated
      BY <3>1 DEF CoreGated, coreVars, pcs
    <3>2. ASSUME NEW o, Core!Edge(Inputs(fetched), o), Moves(Inputs(fetched), o),
                 ProgramCounters(Inputs(fetched))
          PROVE  wb' = wb /\ pc_wb' = pc_wb
      <4>1. Executes(Inputs(fetched), o)
        BY <1>0, <3>2, CycleExecutes
      <4> QED BY <1>3, <2>2, <4>1 DEF Executes
    <3> QED BY <3>1, <3>2 DEF Step, CoreStep
  <2>4. Program' = Program
    BY SameImage DEF Step
  <2> QED BY <1>3, <2>1, <2>3, <2>4 DEF AckSent, Acks, Acknowledges
<1>4. ipr' \subseteq {Line} /\ isp' \subseteq {Line} /\ irq_o' \subseteq ipr
  <2>1. EU!IRQ!Latched(sig) \subseteq {Line}
    BY DEF IrqHeld, EU!IRQ!Latched
  <2>2. ipr' \subseteq {Line} /\ isp' \subseteq {Line}
    BY <1>1, <1>2, <2>1 DEF EU!IRQ!Clk, EU!IRQ!Written
  <2>3. irq_o' \subseteq ipr
    BY <1>1 DEF EU!IRQ!Clk, EU!IRQ!Highest
  <2> QED BY <2>2, <2>3
<1>5. icp' # {} => AckSent' /\ bus' = "response"
  BY <1>1, <1>2, <1>3 DEF EU!IRQ!Clk, EU!IRQ!Written
<1>6. irq_o' \subseteq ipr' \/ (AckSent' /\ bus' \in {"response", "back"})
  <2>1. CASE w.reg = "PENDING"
    BY <1>2, <1>3, <2>1
  <2>2. CASE icp # {}
    BY <1>3, <2>2 DEF IrqHeld
  <2>3. CASE w.reg # "PENDING" /\ icp = {}
    BY <1>1, <1>4, <2>3 DEF EU!IRQ!Clk, EU!IRQ!Written, EU!IRQ!Latched
  <2> QED BY <2>1, <2>2, <2>3
<1>7. ASSUME Core!irq_req' PROVE irq_id' \in ipr' /\ irq_o' # {}
  <2>1. IF Core!irq_req THEN irq_id' = irq_id
        ELSE mie /\ EU!irq /\ irq_id' = Inputs(fetched).irq_id_i
    <3>1. CASE CoreGated
      BY <1>7, <3>1 DEF CoreGated, coreVars, Core!irq_req
    <3>2. ASSUME NEW o, Core!Edge(Inputs(fetched), o)
          PROVE  IF Core!irq_req THEN irq_id' = irq_id
                 ELSE mie /\ EU!irq /\ irq_id' = Inputs(fetched).irq_id_i
      <4>1. Enables(Inputs(fetched), o)
        BY <1>0, <3>2, CycleEnables
      <4> QED BY <1>7, <4>1 DEF Enables
    <3> QED BY <3>1, <3>2 DEF Step, CoreStep
  <2>2. ~AckSent
    BY <1>0, <2>1 DEF AckCovered, Off
  <2>3. ipr \subseteq ipr' /\ irq_o \subseteq ipr
    BY <1>1, <1>2, <2>2 DEF IrqHeld, EU!IRQ!Clk, EU!IRQ!Written, EU!IRQ!Latched
  <2>4. irq_id' \in ipr
    <3>1. CASE Core!irq_req
      BY <2>1, <3>1 DEF IrqHeld
    <3>2. CASE ~Core!irq_req
      <4>1. irq_o # {} /\ irq_id' = CHOOSE l \in irq_o : TRUE
        BY <2>1, <3>2 DEF Inputs, EU!irq
      <4> QED BY <2>3, <4>1
    <3> QED BY <3>1, <3>2
  <2>5. ipr = {Line} /\ Line \in Nat
    BY <2>4, ProgramAssumption DEF IrqHeld
  <2>6. Line \in irq_o'
    BY <1>1, <2>5 DEF EU!IRQ!Clk, EU!IRQ!Highest
  <2> QED BY <2>3, <2>4, <2>6
<1> QED BY <1>4, <1>5, <1>6, <1>7 DEF IrqHeld

LEMMA AsleepStep ==
  ASSUME RestInv, FlowInv, IrqHeld, Asleep,
         NEW sig \in SUBSET {Line}, NEW fetched \in BOOLEAN, Step(sig, fetched)
  PROVE  Asleep'
<1> SUFFICES ASSUME sleep_state' = "SLEEP" PROVE ctrl' = "SLEEP" /\ ~Core!irq_req'
  BY DEF Asleep
<1>1. /\ ~EU!irq
      /\ sleep_state = "SLEEP" \/ (sleep_state = "SHUTDOWN" /\ ~core_busy_o)
  BY DEF Step, EU!Clk, EU!SLP!Clk, EU!SLP!Shutdown, EU!SLP!FallAsleep, EU!SLP!Wake,
     EU!SLP!WakeForIrq, EU!SLP!Stay
<1>2. ctrl = "SLEEP" /\ ~Core!irq_req
  <2>1. CASE sleep_state = "SLEEP"
    BY <2>1 DEF Asleep
  <2>2. CASE sleep_state = "SHUTDOWN" /\ ~core_busy_o
    <3>1. ctrl = "SLEEP"
      BY <2>2 DEF RestInv, Idle, Untouched, Unbooted, core_busy_o
    <3>2. ~Core!irq_req
      BY <1>1 DEF IrqHeld, EU!irq
    <3> QED BY <3>1, <3>2
  <2> QED BY <1>1, <2>1, <2>2
<1>3. ~Inputs(fetched).fetch_enable
  BY <1>1 DEF Inputs, EU!fetch_enable_o, EU!SLP!fetch_en_o
<1>4. CASE CoreGated
  BY <1>2, <1>4 DEF CoreGated, coreVars, Core!irq_req
<1>5. ASSUME NEW o, Core!Edge(Inputs(fetched), o), Moves(Inputs(fetched), o)
      PROVE  ctrl' = "SLEEP" /\ ~Core!irq_req'
  <2>1. ctrl' = "SLEEP"
    BY <1>2, <1>3, <1>5 DEF Moves
  <2>2. Labels /\ NoDebug
    BY DEF FlowInv, RestInv
  <2>3. Enables(Inputs(fetched), o)
    BY <1>5, <2>2, CycleEnables
  <2> QED BY <1>1, <1>2, <2>1, <2>3 DEF Enables
<1> QED BY <1>4, <1>5 DEF Step, CoreStep

WakeInv == RestInv /\ FlowInv /\ IrqHeld /\ Asleep

LEMMA InitWake == Init => WakeInv
<1> SUFFICES ASSUME Init PROVE WakeInv
  OBVIOUS
<1>0. image \in Images /\ 0 \in Addresses /\ 0 \notin H
  BY ProgramFacts, HandlerFacts DEF Init
<1>1. RestInv
  BY DEF Init, Core!Init, EU!Init, EU!SLP!Init, RestInv, NoDebug, Undebugged, Untouched, Empty, Idle,
     Unbooted, Core!Bubble
<1>2. Labels /\ OnBus /\ InDecode /\ Behind /\ CsrAlone
  BY <1>0 DEF Init, Core!Init, EU!Init, Core!Bubble, Labels, OnBus, InDecode, Behind, CsrAlone
<1>3. Entered /\ BootOff /\ HandlerOff /\ AckCovered
  BY <1>0 DEF Init, Core!Init, Core!Bubble, Entered, BootOff, HandlerOff, AckCovered, Off, AckInEx,
     AckSent, Core!irq_req
<1>4. IrqHeld /\ Asleep
  BY DEF Init, Core!Init, EU!Init, EU!IRQ!Init, EU!SLP!Init, IrqHeld, Asleep, Core!irq_req
<1> QED BY <1>1, <1>2, <1>3, <1>4 DEF WakeInv, FlowInv

\* The invariant of going to sleep and waking: where the core can rest, which store is
\* on its way, what is in the stages, and that in a handler, and until its acknowledge
\* has reached the event unit, interrupts are off.
THEOREM WakeInvariant == Spec => []WakeInv
<1>1. WakeInv /\ [Next]_vars => WakeInv'
  <2> SUFFICES ASSUME WakeInv, [Next]_vars PROVE WakeInv'
    OBVIOUS
  <2>1. CASE Next
    <3>1. NoDebug
      BY DEF WakeInv, RestInv
    <3>2. PICK sig \in SUBSET {Line}, fetched \in BOOLEAN : Step(sig, fetched)
      BY <2>1, <3>1, NextIsStep
    <3> QED BY <3>2, RestStep, FlowStep, IrqHeldStep, AsleepStep DEF WakeInv
  <2>2. CASE UNCHANGED vars
    <3>1. UNCHANGED coreVars /\ UNCHANGED pcs /\ UNCHANGED image /\ UNCHANGED bus /\ UNCHANGED EU!vars
          /\ UNCHANGED core_busy_q
      BY <2>2 DEF vars
    <3>2. Program' = Program /\ Addresses' = Addresses /\ H' = H
      BY <3>1, SameImage
    <3>3. RestInv' /\ Asleep' /\ OnBus'
      BY <3>1, <3>2 DEF WakeInv, coreVars, pcs, EU!vars, EU!sleepUnit, RestInv, NoDebug, Untouched, Empty, Idle,
         Asleep, Core!irq_req, FlowInv, OnBus
    <3>4. Labels' /\ InDecode' /\ Behind' /\ CsrAlone' /\ Entered' /\ BootOff' /\ HandlerOff'
      BY <3>1, <3>2 DEF WakeInv, FlowInv, Labels, InDecode, Behind, Following, CsrAlone, Entered, BootOff,
         HandlerOff, Redirected, Off, Core!irq_req, coreVars, pcs
    <3>5. AckCovered' /\ IrqHeld'
      BY <3>1, <3>2 DEF WakeInv, FlowInv, AckCovered, IrqHeld, AckInEx, AckSent, Acks, Acknowledges, Off,
         Core!irq_req, coreVars, pcs, EU!vars, EU!irqUnit
    <3> QED BY <3>3, <3>4, <3>5 DEF WakeInv, FlowInv
  <2> QED BY <2>1, <2>2
<1> QED BY <1>1, InitWake, PTL DEF Spec

\* A handler is entered only for a line that is still pending, however long the stores
\* that acknowledge it take, for all programs whose handlers keep to the rules above.
THEOREM IrqReal == Spec => []IrqIsReal
<1>1. WakeInv => IrqIsReal
  BY DEF WakeInv, FlowInv, Entered, IrqHeld, IrqIsReal
<1> QED BY <1>1, WakeInvariant, PTL

\* The sleep unit reports sleep only while the controller sleeps.
THEOREM SleepAsleep == Spec => []SleepMeansAsleep
<1>1. WakeInv => SleepMeansAsleep
  BY DEF WakeInv, Asleep, SleepMeansAsleep
<1> QED BY <1>1, WakeInvariant, PTL
=============================================================================
