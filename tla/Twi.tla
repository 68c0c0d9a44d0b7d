-------------------------------- MODULE Twi --------------------------------
(***************************************************************************)
(* The Arduino I2C driver (twi.c, called by Wire.cpp) on the I2C master of *)
(* the APB (apb_i2c).  The sketch fills in a transfer, starts it and spins  *)
(* on twi_state; the interrupt handler moves it on, a byte at a time.       *)
(*                                                                         *)
(* Two facts of the master matter: every finished command raises irq_flag,  *)
(* the STOP too, and the flag stays up while the interrupt is disabled, so   *)
(* a transfer begins with the interrupt of the STOP before it; and the        *)
(* acknowledge bit of the status stays what the last byte left.               *)
(*                                                                           *)
(* Timing the driver relies on (comment at twi.c:260): an interrupt that is  *)
(* pending when the transfer starts is taken before twi_state is stored, and *)
(* a byte on the wire takes longer than the stores after the command.        *)
(***************************************************************************)
EXTENDS Naturals, Sequences

CONSTANTS
  Lengths,   \* the numbers of bytes the sketch transfers
  SendStop   \* the values it passes for sendStop

ASSUME TwiAssumption == Lengths \subseteq Nat /\ SendStop \subseteq BOOLEAN

VARIABLES
  pc,                       \* where the sketch is in twi_readFrom or twi_writeTo
  op, length,               \* the transfer: "write" or "read", twi_masterBufferLength
  twi_state, twi_error, twi_sendStop, twi_inRepStart,
  index,                    \* twi_masterBufferIndex
  Address_ACK,
  received,                 \* twi_masterBuffer as far as it was read
  result,                   \* what the last call returned
  \* apb_i2c and the bus
  ien, cmd, tx, phase, rxack, al, irq_flag, busy,
  \* what went over the wire since the call, and whether every transfer before
  \* this one ended with an acknowledged byte and a STOP
  wire, clean

call   == <<pc, op, length, result, clean>>
driver == <<twi_state, twi_error, twi_sendStop, twi_inRepStart, index, Address_ACK, received>>
master == <<ien, cmd, tx, phase, rxack, al, irq_flag, busy>>
vars   == <<call, driver, master, wire>>

Address == 0                      \* the address byte; data bytes are 1, 2, ...
Running == IF op = "write" THEN "MTX" ELSE "MRX"
Interrupt == ien /\ irq_flag

\* A byte on the wire and who acknowledged it.
Byte(b, acked) == [byte |-> b, acked |-> acked]

Init ==
  /\ pc = "idle" /\ op = "write" /\ length = 0
  /\ result = [code |-> "none", count |-> 0] /\ clean = TRUE
  /\ twi_state = "READY" /\ twi_error = "none" /\ twi_sendStop = TRUE
  /\ twi_inRepStart = FALSE /\ index = 0 /\ Address_ACK = FALSE /\ received = <<>>
  /\ ien = FALSE /\ cmd = {} /\ tx = Address /\ phase = "idle" /\ rxack = FALSE
  /\ al = FALSE /\ irq_flag = FALSE /\ busy = "free"
  /\ wire = <<>>

-----------------------------------------------------------------------------
\* The command register.  A write replaces it; the byte controller looks at it
\* when idle, and only READ, WRITE and STOP make it go: a START alone does nothing.
GoesTo(c) ==
  IF "WRITE" \in c THEN "writing" ELSE IF "READ" \in c THEN "reading"
  ELSE IF "STOP" \in c THEN "stopping" ELSE "idle"

Command(c) ==
  /\ cmd' = c
  /\ phase' = IF phase = "idle" THEN GoesTo(c) ELSE phase
  /\ al' = (al /\ "START" \notin c)
  /\ busy' = IF phase = "idle" /\ "START" \in c /\ GoesTo(c) # "idle" THEN "ours" ELSE busy

\* The byte controller finished: it clears the command and flags the interrupt.
Done == phase' = "idle" /\ cmd' = {} /\ irq_flag' = TRUE

\* A byte went out and the device acknowledged it or not.  A STOP found in the
\* command register now follows without a separate completion.
WriteByte ==
  /\ phase = "writing"
  /\ \E acked \in BOOLEAN :
       /\ rxack' = ~acked
       /\ wire' = Append(wire, Byte(tx, acked))
  /\ IF "STOP" \in cmd THEN phase' = "stopping" /\ UNCHANGED <<cmd, irq_flag>> ELSE Done
  /\ UNCHANGED <<call, driver, ien, tx, al, busy>>

\* A byte came in; the master acknowledges it (the last one too), and reads its
\* own acknowledge.
ReadByte ==
  /\ phase = "reading"
  /\ rxack' = FALSE
  /\ wire' = Append(wire, Byte(Len(wire), TRUE))
  /\ Done
  /\ UNCHANGED <<call, driver, ien, tx, al, busy>>

Stopped ==
  /\ phase = "stopping"
  /\ Done
  /\ busy' = "free"
  /\ UNCHANGED <<call, driver, wire, ien, tx, rxack, al>>

\* Another master's bit wins while we write, or somebody else's STOP comes while
\* we write or read; after that the bus is free.
LoseArbitration ==
  /\ \/ phase = "writing" /\ busy' = "theirs"
     \/ phase \in {"writing", "reading"} /\ busy' = "free"
  /\ Done
  /\ al' = TRUE /\ rxack' = FALSE
  /\ UNCHANGED <<call, driver, wire, ien, tx>>

OtherMasterStops ==
  /\ busy = "theirs"
  /\ busy' = "free"
  /\ UNCHANGED <<call, driver, wire, ien, cmd, tx, phase, rxack, al, irq_flag>>

-----------------------------------------------------------------------------
\* The sketch: Wire.endTransmission calls twi_writeTo, Wire.requestFrom
\* twi_readFrom.  Wire waits for the result, so twi_state is READY on entry, and
\* it cuts the length to the buffer's: the two early returns never happen.
Call ==
  /\ pc = "idle"
  /\ pc' = "busyWait"
  /\ op' \in {"write", "read"} /\ length' \in Lengths
  /\ twi_sendStop' \in SendStop
  /\ clean' = (clean /\ ~rxack /\ ~twi_inRepStart)
  /\ wire' = <<>>
  /\ UNCHANGED <<result, twi_state, twi_error, twi_inRepStart, index, Address_ACK, received, master>>

\* The bus is free: fill in the transfer, the address byte, the interrupt enable.
Prepare ==
  /\ pc = "busyWait" /\ busy = "free"
  /\ pc' = "armed"
  /\ twi_error' = "none" /\ index' = 0 /\ received' = <<>>
  /\ tx' = Address /\ ien' = TRUE
  /\ UNCHANGED <<op, length, result, clean, twi_state, twi_sendStop, twi_inRepStart,
                 Address_ACK, cmd, phase, rxack, al, irq_flag, busy, wire>>

\* After a repeated start the ISR has already commanded the START.
StartTransfer ==
  /\ pc = "armed"
  /\ pc' = "commanded"
  /\ twi_inRepStart' = FALSE
  /\ Command(IF twi_inRepStart THEN {"WRITE"} ELSE {"START", "WRITE"})
  /\ UNCHANGED <<op, length, result, clean, twi_state, twi_error, twi_sendStop, index,
                 Address_ACK, received, ien, tx, rxack, irq_flag, wire>>

\* twi_state, and for a read the flag that the next interrupt is the address's.
EnterState ==
  /\ pc = "commanded" /\ ~Interrupt
  /\ pc' = "wait"
  /\ twi_state' = Running
  /\ Address_ACK' = IF op = "read" THEN TRUE ELSE Address_ACK
  /\ UNCHANGED <<op, length, result, clean, twi_error, twi_sendStop, twi_inRepStart, index,
                 received, master, wire>>

\* The end of the wait: an error code, or the number of bytes read.
Code ==
  IF op = "read" THEN "count"
  ELSE CASE twi_error = "none" -> "ok" [] twi_error = "SLA_NACK" -> "addressNack"
         [] twi_error = "DATA_NACK" -> "dataNack" [] OTHER -> "other"

Return ==
  /\ pc = "wait" /\ twi_state # Running
  /\ pc' = "idle"
  /\ result' = [code |-> Code, count |-> IF index < length THEN index ELSE length]
  /\ UNCHANGED <<op, length, clean, driver, master, wire>>

-----------------------------------------------------------------------------
\* ISR_I2C.  Its last statements clear irq_flag (I2C_CMD |= 1) and the event unit.
twi_stop ==
  /\ Command({"STOP"})
  /\ ien' = FALSE
  /\ twi_state' = "READY"
  /\ UNCHANGED twi_inRepStart

\* Faulty variant: the interrupt stays enabled for the next transfer.
StartInterrupting ==
  /\ twi_inRepStart' = TRUE
  /\ UNCHANGED ien
  /\ Command({"START"})
  /\ twi_state' = "READY"

\* The else branch of sendStop: a START that does not go until a byte follows.
RepeatedStart ==
  /\ twi_inRepStart' = TRUE
  /\ ien' = FALSE
  /\ Command({"START"})
  /\ twi_state' = "READY"

EndTransfer ==
  /\ IF twi_sendStop THEN twi_stop ELSE RepeatedStart
  /\ UNCHANGED tx

\* Faulty variant: the error is noted but the sketch not released.
KeepWaiting ==
  /\ al
  /\ twi_error' = "ARB_LOST" /\ ien' = FALSE /\ UNCHANGED twi_state
  /\ UNCHANGED <<twi_inRepStart, index, Address_ACK, received, tx, cmd, phase, al, busy>>

\* twi_releaseBus, the bus was lost.
Arbitration ==
  /\ al
  /\ twi_error' = "ARB_LOST" /\ ien' = FALSE /\ twi_state' = "READY"
  /\ UNCHANGED <<twi_inRepStart, index, Address_ACK, received, tx, cmd, phase, al, busy>>

NextByteOut ==
  /\ ~al /\ ~rxack /\ twi_state = "MTX"
  /\ IF index < length
       THEN /\ index' = index + 1 /\ tx' = index + 1
            /\ Command({"WRITE"})
            /\ UNCHANGED <<ien, twi_state, twi_inRepStart>>
       ELSE EndTransfer /\ UNCHANGED index
  /\ UNCHANGED <<twi_error, Address_ACK, received>>

NextByteIn ==
  /\ ~al /\ ~rxack /\ twi_state = "MRX"
  /\ Address_ACK' = FALSE
  /\ IF Address_ACK THEN UNCHANGED <<index, received>>
     ELSE index' = index + 1 /\ received' = Append(received, wire[Len(wire)].byte)
  /\ IF index' < length
       THEN Command({"READ"}) /\ UNCHANGED <<ien, tx, twi_state, twi_inRepStart>>
       ELSE EndTransfer
  /\ UNCHANGED twi_error

\* The interrupt of the STOP before: nothing is done in state READY ...
Leftover ==
  /\ ~al /\ ~rxack /\ twi_state = "READY"
  /\ UNCHANGED <<driver, ien, tx, cmd, phase, al, busy>>

\* Faulty variant: the error is chosen by the length asked for.
ErrorByLength ==
  /\ ~al /\ rxack
  /\ twi_error' = IF twi_state # "MTX" THEN twi_error
                  ELSE IF length = 0 THEN "SLA_NACK" ELSE "DATA_NACK"
  /\ twi_stop
  /\ UNCHANGED <<index, Address_ACK, received, tx>>

\* ... but the branch for a missing acknowledge does not look at the state.
NotAcknowledged ==
  /\ ~al /\ rxack
  /\ twi_error' = IF twi_state # "MTX" THEN twi_error
                  ELSE IF index = 0 THEN "SLA_NACK" ELSE "DATA_NACK"
  /\ twi_stop
  /\ UNCHANGED <<index, Address_ACK, received, tx>>

ISR_I2C ==
  /\ Interrupt
  /\ Arbitration \/ NextByteOut \/ NextByteIn \/ Leftover \/ NotAcknowledged
  /\ irq_flag' = FALSE
  /\ UNCHANGED <<call, wire, rxack, twi_sendStop>>

-----------------------------------------------------------------------------
Bus == WriteByte \/ ReadByte \/ Stopped
\* A byte takes longer than the sketch needs from its command to twi_state.
BusStep == pc # "commanded" /\ Bus
Sketch == Prepare \/ StartTransfer \/ EnterState \/ Return
Next == Call \/ Sketch \/ ISR_I2C \/ BusStep \/ (pc # "commanded" /\ LoseArbitration) \/ OtherMasterStops

\* The sketch runs, the interrupt is taken, the wire moves, other masters let go.
Fairness ==
  /\ WF_vars(Sketch) /\ WF_vars(ISR_I2C) /\ WF_vars(BusStep) /\ WF_vars(OtherMasterStops)

Spec == Init /\ [][Next]_vars /\ Fairness

-----------------------------------------------------------------------------
\* The types of what is not a flag.
TypeOK ==
  /\ pc \in {"idle", "busyWait", "armed", "commanded", "wait"}
  /\ op \in {"write", "read"} /\ length \in Nat /\ index \in Nat
  /\ twi_state \in {"READY", "MTX", "MRX"}
  /\ twi_error \in {"none", "ARB_LOST", "SLA_NACK", "DATA_NACK"}
  /\ cmd \subseteq {"START", "STOP", "READ", "WRITE"}
  /\ phase \in {"idle", "writing", "reading", "stopping"} /\ busy \in {"free", "ours", "theirs"}

\* The sketch fills in a transfer and reads its result with no lock: nothing else
\* may write those variables then.  The interrupt is enabled only from the
\* preparation of a transfer to its end, and once the sketch waits it is the
\* handler, never the sketch, that leaves the state it waits in.
HandlerExcluded ==
  ien => pc \in {"armed", "commanded", "wait"} /\ (pc = "wait" => twi_state = Running)

\* What the sketch is told is what happened on the wire: 0 only when the address
\* and each data byte went out once, in order, and were acknowledged; 2 and 3
\* name the byte that was not (twi.c:201-205); a read delivers the bytes
\* the device sent, in order, and stops short only without an acknowledge or
\* the bus.  For a transfer none before which was refused or left without STOP:
\* after those the interrupt of the STOP or the missing START does damage.
ReturnMeans ==
  pc = "idle" /\ clean /\ result.code # "none" =>
    LET n == Len(wire)
        sent(k) == n = k /\ \A i \in 1..k : wire[i].byte = i - 1
        refusedAt(k) == sent(k) /\ \A i \in 1..k : wire[i].acked <=> i # k
    IN  CASE result.code = "ok" -> sent(length + 1) /\ \A i \in 1..n : wire[i].acked
          [] result.code = "addressNack" -> refusedAt(1)
          [] result.code = "dataNack" -> n > 1 /\ refusedAt(n)
          [] result.code = "other" -> twi_error = "ARB_LOST" /\ n <= length
          [] result.code = "count" ->
               /\ received = [i \in 1..result.count |-> i]
               /\ result.count = length \/ twi_error = "ARB_LOST" \/ refusedAt(1)

\* A transfer comes back to the sketch, whatever the device acknowledges and
\* whoever wins the bus, if the one before it was not refused and ended in a STOP.
EveryTransferReturns == (pc # "idle" /\ clean) ~> (pc = "idle")

\* The same without the condition: the comments say that the interrupt left by
\* the previous transfer does not act (twi.c:260) and that a transfer
\* without STOP can be followed by another (Wire.cpp:142-145).
AnyTransferReturns == (pc # "idle") ~> (pc = "idle")
=============================================================================
