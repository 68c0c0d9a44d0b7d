------------------------------ MODULE TwiProofs ------------------------------
(***************************************************************************)
(* The sketch and the handler never work on a transfer at the same time,   *)
(* for every set of lengths and both ways to end a transfer.                *)
(***************************************************************************)
EXTENDS Twi, TLAPS

\* HandlerExcluded is inductive: the sketch returns only from a state it does
\* not wait for, in which the handler has disabled the interrupt.
LEMMA ExcludedInit == Init => HandlerExcluded
BY DEF Init, HandlerExcluded

\* Each branch of ISR_I2C that leaves the state it found disables the interrupt.
LEMMA HandlerLeavesDisabled ==
  ISR_I2C => \/ twi_state' = twi_state /\ pc' = pc /\ op' = op /\ ien' = ien
             \/ ien' = FALSE
<1> SUFFICES ASSUME ISR_I2C
             PROVE  \/ twi_state' = twi_state /\ pc' = pc /\ op' = op /\ ien' = ien
                    \/ ien' = FALSE
  OBVIOUS
<1>0. pc' = pc /\ op' = op
  BY DEF ISR_I2C, call
<1>1. CASE Arbitration
  BY <1>1 DEF Arbitration
<1>2. CASE NextByteOut
  BY <1>0, <1>2 DEF NextByteOut, EndTransfer, twi_stop, RepeatedStart
<1>3. CASE NextByteIn
  BY <1>0, <1>3 DEF NextByteIn, EndTransfer, twi_stop, RepeatedStart
<1>4. CASE Leftover
  BY <1>0, <1>4 DEF Leftover, driver
<1>5. CASE NotAcknowledged
  BY <1>5 DEF NotAcknowledged, twi_stop
<1> QED
  BY <1>1, <1>2, <1>3, <1>4, <1>5 DEF ISR_I2C

\* One step of the sketch, the handler, the wire or another master keeps it.
LEMMA ExcludedNext == HandlerExcluded /\ [Next]_vars => HandlerExcluded'
<1> SUFFICES ASSUME HandlerExcluded, [Next]_vars PROVE HandlerExcluded'
  OBVIOUS
<1>1. CASE Call
  BY <1>1 DEF Call, master, HandlerExcluded
<1>2. CASE Prepare
  BY <1>2 DEF Prepare, HandlerExcluded
<1>3. CASE StartTransfer
  BY <1>3 DEF StartTransfer, HandlerExcluded
<1>4. CASE EnterState
  BY <1>4 DEF EnterState, Running, master, HandlerExcluded
<1>5. CASE Return
  BY <1>5 DEF Return, driver, master, HandlerExcluded
<1>6. CASE ISR_I2C
  BY <1>6, HandlerLeavesDisabled DEF HandlerExcluded, Running
<1>7. CASE Bus
  BY <1>7 DEF Bus, WriteByte, ReadByte, Stopped, call, driver, HandlerExcluded, Running
<1>8. CASE LoseArbitration
  BY <1>8 DEF LoseArbitration, call, driver, HandlerExcluded, Running
<1>9. CASE OtherMasterStops
  BY <1>9 DEF OtherMasterStops, call, driver, HandlerExcluded, Running
<1>10. CASE UNCHANGED vars
  BY <1>10 DEF vars, call, driver, master, HandlerExcluded, Running
<1> QED
  BY <1>1, <1>2, <1>3, <1>4, <1>5, <1>6, <1>7, <1>8, <1>9, <1>10 DEF Next, Sketch, BusStep

\* The sketch finds the transfer's variables to itself whenever it writes them,
\* and is released by the handler alone.
THEOREM TransferExclusive == Spec => []HandlerExcluded
BY ExcludedInit, ExcludedNext, PTL DEF Spec

-----------------------------------------------------------------------------
\* Writing a command keeps the types of what it writes.
LEMMA CommandTypes ==
  ASSUME TypeOK, NEW c \in SUBSET {"START", "STOP", "READ", "WRITE"}, Command(c)
  PROVE  /\ cmd' \subseteq {"START", "STOP", "READ", "WRITE"}
         /\ phase' \in {"idle", "writing", "reading", "stopping"}
         /\ busy' \in {"free", "ours", "theirs"}
<1>1. cmd' = c
  BY DEF Command
<1>2. phase' \in {"idle", "writing", "reading", "stopping"}
  BY DEF Command, GoesTo, TypeOK
<1>3. busy' \in {"free", "ours", "theirs"}
  BY DEF Command, TypeOK
<1> QED
  BY <1>1, <1>2, <1>3

\* The end of a transfer, in either way, does too.
LEMMA EndTypes ==
  ASSUME TypeOK, EndTransfer
  PROVE  /\ cmd' \subseteq {"START", "STOP", "READ", "WRITE"}
         /\ phase' \in {"idle", "writing", "reading", "stopping"}
         /\ busy' \in {"free", "ours", "theirs"}
         /\ twi_state' = "READY"
<1>1. Command({"STOP"}) \/ Command({"START"})
  BY DEF EndTransfer, twi_stop, RepeatedStart
<1>2. twi_state' = "READY"
  BY DEF EndTransfer, twi_stop, RepeatedStart
<1> QED
  BY <1>1, <1>2, CommandTypes

\* The handler keeps the types of the transfer and the master.
LEMMA HandlerData == TypeOK /\ ISR_I2C => TypeOK'
<1> SUFFICES ASSUME TypeOK, ISR_I2C PROVE TypeOK'
  OBVIOUS
<1>0. pc' = pc /\ op' = op /\ length' = length
  BY DEF ISR_I2C, call
<1>1. CASE Arbitration
  BY <1>0, <1>1 DEF Arbitration, TypeOK
<1>2. CASE NextByteOut
  <2>1. CASE index < length
    <3>1. Command({"WRITE"}) /\ index' = index + 1 /\ UNCHANGED <<twi_state, twi_error>>
      BY <1>2, <2>1 DEF NextByteOut
    <3> QED
      BY <1>0, <3>1, CommandTypes DEF TypeOK
  <2>2. CASE ~(index < length)
    <3>1. EndTransfer /\ UNCHANGED <<index, twi_error>>
      BY <1>2, <2>2 DEF NextByteOut
    <3> QED
      BY <1>0, <3>1, EndTypes DEF TypeOK
  <2> QED
    BY <2>1, <2>2
<1>3. CASE NextByteIn
  <2>1. index' \in Nat /\ twi_error' = twi_error
    BY <1>3 DEF NextByteIn, TypeOK
  <2>2. CASE index' < length
    <3>1. Command({"READ"}) /\ twi_state' = twi_state
      BY <1>3, <2>2 DEF NextByteIn
    <3> QED
      BY <1>0, <2>1, <3>1, CommandTypes DEF TypeOK
  <2>3. CASE ~(index' < length)
    <3>1. EndTransfer
      BY <1>3, <2>3 DEF NextByteIn
    <3> QED
      BY <1>0, <2>1, <3>1, EndTypes DEF TypeOK
  <2> QED
    BY <2>2, <2>3
<1>4. CASE Leftover
  BY <1>0, <1>4 DEF Leftover, driver, TypeOK
<1>5. CASE NotAcknowledged
  <2>1. Command({"STOP"}) /\ twi_state' = "READY" /\ index' = index
    BY <1>5 DEF NotAcknowledged, twi_stop
  <2>2. twi_error' \in {"none", "ARB_LOST", "SLA_NACK", "DATA_NACK"}
    BY <1>5 DEF NotAcknowledged, TypeOK
  <2> QED
    BY <1>0, <2>1, <2>2, CommandTypes DEF TypeOK
<1> QED
  BY <1>1, <1>2, <1>3, <1>4, <1>5 DEF ISR_I2C

LEMMA DataNext == TypeOK /\ [Next]_vars => TypeOK'
<1> SUFFICES ASSUME TypeOK, [Next]_vars PROVE TypeOK'
  OBVIOUS
<1>1. CASE Call
  BY <1>1, TwiAssumption DEF Call, master, TypeOK
<1>2. CASE Prepare
  BY <1>2 DEF Prepare, TypeOK
<1>3. CASE StartTransfer
  <2>1. Command({"WRITE"}) \/ Command({"START", "WRITE"})
    BY <1>3 DEF StartTransfer
  <2> QED
    BY <1>3, <2>1, CommandTypes DEF StartTransfer, TypeOK
<1>4. CASE EnterState
  <2>1. twi_state' \in {"MTX", "MRX"}
    BY <1>4 DEF EnterState, Running
  <2> QED
    BY <1>4, <2>1 DEF EnterState, master, TypeOK
<1>5. CASE Return
  BY <1>5 DEF Return, driver, master, TypeOK
<1>6. CASE ISR_I2C
  BY <1>6, HandlerData
<1>7. CASE WriteByte
  BY <1>7 DEF WriteByte, Done, call, driver, TypeOK
<1>8. CASE ReadByte
  BY <1>8 DEF ReadByte, Done, call, driver, TypeOK
<1>9. CASE Stopped
  BY <1>9 DEF Stopped, Done, call, driver, TypeOK
<1>10. CASE LoseArbitration
  BY <1>10 DEF LoseArbitration, Done, call, driver, TypeOK
<1>11. CASE OtherMasterStops
  BY <1>11 DEF OtherMasterStops, call, driver, TypeOK
<1>12. CASE UNCHANGED vars
  BY <1>12 DEF vars, call, driver, master, TypeOK
<1> QED
  BY <1>1, <1>2, <1>3, <1>4, <1>5, <1>6, <1>7, <1>8, <1>9, <1>10, <1>11, <1>12
     DEF Next, Sketch, BusStep, Bus

\* The transfer and the I2C master keep their types.
THEOREM TwiTypes == Spec => []TypeOK
<1>1. Init => TypeOK
  BY DEF Init, TypeOK
<1> QED
  BY <1>1, DataNext, PTL DEF Spec
-----------------------------------------------------------------------------
\* What the result of a transfer means.  The invariant follows a transfer that
\* is "clean" (the ones before it ended with an acknowledged byte and a STOP)
\* from the call to the return; index, the wire and the phase of the master move
\* together, and the interrupt flag says whose turn it is.
WireType == tx \in Nat /\ wire \in Seq([byte : Nat, acked : BOOLEAN])

\* What went over the wire: bytes 0, 1, ... in order; all but the last
\* acknowledged; all of them.
Sent(k) == Len(wire) = k /\ \A i \in 1..k : wire[i].byte = i - 1
RefusedAt(k) == Sent(k) /\ \A i \in 1..k : wire[i].acked <=> i # k
AllAcked == \A i \in 1..Len(wire) : wire[i].acked

\* The bytes 1, 2, ..., k as the device sent them.
Counted(k) == [i \in 1..k |-> i]

\* No transfer is under way: the handler is off, the master at most stops, and a
\* lost arbitration leaves no interrupt behind.
AtRest ==
  /\ ~ien /\ twi_state = "READY"
  /\ phase \in {"idle", "stopping"}
  /\ phase = "stopping" => busy = "ours"
  /\ al => ~irq_flag /\ phase = "idle"

\* A transfer was called, filled in, commanded; the master acts on no earlier one.
Called == wire = <<>> /\ ~rxack /\ ~twi_inRepStart /\ twi_state = "READY"

Filled ==
  /\ Called /\ ien
  /\ index = 0 /\ received = <<>> /\ twi_error = "none" /\ tx = Address

Armed == Filled /\ phase = "idle" /\ (al => ~irq_flag)

Commanded ==
  Filled /\ phase = "writing" /\ cmd = {"START", "WRITE"} /\ busy = "ours" /\ ~al

\* The sketch waits: what all stages of the transfer share ...
UnderWay == ien /\ twi_state = Running /\ twi_error = "none" /\ index <= length

\* ... and the stages.  The address or a data byte goes out; it was answered; the
\* bus was lost before it was, or while a byte came in; a byte comes in; it has come in.
Outgoing == received = <<>> /\ (op = "read" => index = 0 /\ Address_ACK)

Sending ==
  /\ Outgoing /\ phase = "writing" /\ "STOP" \notin cmd /\ tx = index
  /\ ~irq_flag /\ ~al /\ busy = "ours"
  /\ Sent(index) /\ AllAcked

Answered ==
  /\ Outgoing /\ phase = "idle" /\ irq_flag /\ ~al /\ busy = "ours"
  /\ Sent(index + 1)
  /\ \A i \in 1..index : wire[i].acked
  /\ wire[index + 1].acked <=> ~rxack

Lost ==
  /\ phase = "idle" /\ irq_flag /\ al
  /\ op = "write" => Len(wire) = index
  /\ op = "read" => received = Counted(index)

Incoming ==
  /\ op = "read" /\ ~Address_ACK /\ index < length /\ received = Counted(index)
  /\ ~rxack /\ ~al /\ busy = "ours"

Receiving == Incoming /\ phase = "reading" /\ ~irq_flag /\ Len(wire) = index + 1

Delivered ==
  /\ Incoming /\ phase = "idle" /\ irq_flag
  /\ Len(wire) = index + 2 /\ wire[index + 2].byte = index + 1

\* What the handler leaves for the sketch to find.
Outcome ==
  IF op = "write"
  THEN /\ twi_error = "none" => Sent(length + 1) /\ AllAcked
       /\ twi_error = "SLA_NACK" => RefusedAt(1)
       /\ twi_error = "DATA_NACK" => Len(wire) > 1 /\ RefusedAt(Len(wire))
       /\ twi_error = "ARB_LOST" => Len(wire) <= length
  ELSE /\ index <= length /\ received = Counted(index)
       /\ index = length \/ twi_error = "ARB_LOST" \/ RefusedAt(1)

\* What the result says, as ReturnMeans puts it.
Meaning ==
  CASE result.code = "ok" -> Sent(length + 1) /\ AllAcked
    [] result.code = "addressNack" -> RefusedAt(1)
    [] result.code = "dataNack" -> Len(wire) > 1 /\ RefusedAt(Len(wire))
    [] result.code = "other" -> twi_error = "ARB_LOST" /\ Len(wire) <= length
    [] result.code = "count" ->
         /\ received = Counted(result.count)
         /\ result.count = length \/ twi_error = "ARB_LOST" \/ RefusedAt(1)

Stages ==
  /\ pc = "idle" => AtRest /\ (result.code # "none" => Meaning)
  /\ pc = "busyWait" => AtRest /\ Called
  /\ pc = "armed" => Armed
  /\ pc = "commanded" => Commanded
  /\ pc = "wait" =>
       \/ AtRest /\ Outcome
       \/ UnderWay /\ (Sending \/ Answered \/ Lost \/ Receiving \/ Delivered)

TInv == WireType /\ (clean => Stages)
LEMMA CountedNext ==
  ASSUME NEW k \in Nat
  PROVE  Append(Counted(k), k + 1) = Counted(k + 1)
BY DEF Counted

LEMMA CountedNone == Counted(0) = <<>>
BY DEF Counted

\* A byte more on the wire.
LEMMA WireGrows ==
  ASSUME WireType, NEW b \in Nat, NEW acked \in BOOLEAN, wire' = Append(wire, Byte(b, acked))
  PROVE  /\ wire' \in Seq([byte : Nat, acked : BOOLEAN])
         /\ Len(wire') = Len(wire) + 1
         /\ \A i \in 1..Len(wire) : wire'[i] = wire[i]
         /\ wire'[Len(wire) + 1].byte = b
         /\ wire'[Len(wire) + 1].acked = acked
<1>1. Byte(b, acked) \in [byte : Nat, acked : BOOLEAN]
  BY DEF Byte
<1>2. Byte(b, acked).byte = b /\ Byte(b, acked).acked = acked
  BY DEF Byte
<1> QED
  BY <1>1, <1>2 DEF WireType

LEMMA WireTyped == WireType /\ TypeOK /\ [Next]_vars => WireType'
<1> SUFFICES ASSUME WireType, TypeOK, [Next]_vars PROVE WireType'
  OBVIOUS
<1>1. CASE Call
  BY <1>1 DEF Call, master, WireType
<1>2. CASE Prepare
  BY <1>2 DEF Prepare, Address, WireType
<1>3. CASE StartTransfer
  BY <1>3 DEF StartTransfer, WireType
<1>4. CASE EnterState
  BY <1>4 DEF EnterState, master, WireType
<1>5. CASE Return
  BY <1>5 DEF Return, master, WireType
<1>6. CASE ISR_I2C
  <2>1. tx' = tx \/ tx' = index + 1
    BY <1>6 DEF ISR_I2C, Arbitration, NextByteOut, NextByteIn, Leftover, NotAcknowledged, EndTransfer
  <2> QED
    BY <1>6, <2>1 DEF ISR_I2C, WireType, TypeOK
<1>7. CASE WriteByte
  <2>1. PICK acked \in BOOLEAN : wire' = Append(wire, Byte(tx, acked))
    BY <1>7 DEF WriteByte
  <2> QED
    BY <1>7, <2>1, WireGrows DEF WriteByte, WireType
<1>8. CASE ReadByte
  <2>1. wire' = Append(wire, Byte(Len(wire), TRUE)) /\ tx' = tx
    BY <1>8 DEF ReadByte
  <2>2. Len(wire) \in Nat
    BY DEF WireType
  <2> QED
    BY <2>1, <2>2, WireGrows DEF WireType
<1>9. CASE Stopped
  BY <1>9 DEF Stopped, WireType
<1>10. CASE LoseArbitration
  BY <1>10 DEF LoseArbitration, WireType
<1>11. CASE OtherMasterStops
  BY <1>11 DEF OtherMasterStops, WireType
<1>12. CASE UNCHANGED vars
  BY <1>12 DEF vars, master, WireType
<1> QED
  BY <1>1, <1>2, <1>3, <1>4, <1>5, <1>6, <1>7, <1>8, <1>9, <1>10, <1>11, <1>12
     DEF Next, Sketch, BusStep, Bus
\* The sketch moves the transfer from stage to stage ...
LEMMA SketchStages ==
  ASSUME TypeOK, WireType, clean => Stages, Call \/ Sketch, clean'
  PROVE  Stages'
<1> USE DEF Stages
<1>1. CASE Call
  <2>1. AtRest /\ clean /\ ~rxack /\ ~twi_inRepStart
    BY <1>1 DEF Call
  <2>2. AtRest' /\ Called'
    BY <1>1, <2>1 DEF Call, master, AtRest, Called
  <2> QED
    BY <1>1, <2>2 DEF Call
<1>2. CASE Prepare
  <2>1. AtRest /\ Called /\ phase = "idle"
    BY <1>2 DEF Prepare, AtRest
  <2>2. Armed'
    BY <1>2, <2>1 DEF Prepare, AtRest, Called, Filled, Armed
  <2> QED
    BY <1>2, <2>2 DEF Prepare
<1>3. CASE StartTransfer
  <2>1. Armed
    BY <1>3 DEF StartTransfer
  <2>2. Command({"START", "WRITE"})
    BY <1>3, <2>1 DEF StartTransfer, Armed, Filled, Called
  <2>3. cmd' = {"START", "WRITE"} /\ phase' = "writing" /\ busy' = "ours" /\ ~al'
    BY <2>1, <2>2 DEF Command, GoesTo, Armed
  <2>4. Commanded'
    BY <1>3, <2>1, <2>3 DEF StartTransfer, Armed, Commanded, Filled, Called
  <2> QED
    BY <1>3, <2>4 DEF StartTransfer
<1>4. CASE EnterState
  <2>1. Commanded /\ ~irq_flag
    BY <1>4 DEF EnterState, Interrupt, Commanded, Filled
  <2>2. UnderWay'
    BY <1>4, <2>1 DEF EnterState, UnderWay, Running, Commanded, Filled, master, TypeOK
  <2>3. Sending'
    BY <1>4, <2>1 DEF EnterState, Commanded, Filled, Called, master, Sending, Outgoing, Sent, AllAcked,
                      Address, TypeOK
  <2> QED
    BY <1>4, <2>2, <2>3 DEF EnterState
<1>5. CASE Return
  <2>1. AtRest /\ Outcome
    BY <1>5 DEF Return, UnderWay
  <2>2. AtRest'
    BY <1>5, <2>1 DEF Return, AtRest, driver, master
  <2>3. result'.code = Code /\ result'.count = (IF index < length THEN index ELSE length)
    BY <1>5 DEF Return
  <2>4. UNCHANGED <<op, length, twi_error, received, wire, index>>
    BY <1>5 DEF Return, driver
  <2>5. CASE op = "read"
    <3>1. result'.code = "count" /\ result'.count = index
      <4>1. index <= length /\ Code = "count"
        BY <2>1, <2>5 DEF Code, Outcome
      <4> QED
        BY <2>3, <4>1 DEF TypeOK
    <3> QED
      BY <1>5, <2>1, <2>2, <2>4, <2>5, <3>1 DEF Return, Outcome, Meaning, RefusedAt, Sent, Counted
  <2>6. CASE op = "write"
    <3>1. result'.code = CASE twi_error = "none" -> "ok"
                           [] twi_error = "SLA_NACK" -> "addressNack"
                           [] twi_error = "DATA_NACK" -> "dataNack"
                           [] OTHER -> "other"
      BY <2>3, <2>6 DEF Code
    <3>2. Meaning'
      BY <2>1, <2>4, <2>6, <3>1 DEF Outcome, Meaning, RefusedAt, Sent, AllAcked, TypeOK
    <3> QED
      BY <1>5, <2>2, <3>2 DEF Return
  <2> QED
    BY <2>5, <2>6 DEF TypeOK
<1> QED
  BY <1>1, <1>2, <1>3, <1>4, <1>5 DEF Sketch

\* ... the wire and the other master do their part ...
LEMMA WireStages ==
  ASSUME TypeOK, WireType, clean, Stages, pc # "commanded",
         Bus \/ LoseArbitration
  PROVE  Stages'
<1> USE DEF Stages
<1>0. UNCHANGED <<call, driver, ien, tx>>
  BY DEF Bus, WriteByte, ReadByte, Stopped, LoseArbitration
<1>1. CASE WriteByte
  <2>1. PICK acked \in BOOLEAN :
          wire' = Append(wire, Byte(tx, acked)) /\ (rxack' <=> ~acked)
    BY <1>1 DEF WriteByte
  <2>2. pc = "wait" /\ UnderWay /\ Sending
    BY <1>1 DEF WriteByte, AtRest, Armed, Answered, Lost, Receiving, Delivered, TypeOK
  <2>3. phase' = "idle" /\ irq_flag' /\ al' = al /\ busy' = busy
    BY <1>1, <2>2 DEF WriteByte, Done, Sending
  <2>4. /\ Len(wire') = Len(wire) + 1
        /\ \A i \in 1..Len(wire) : wire'[i] = wire[i]
        /\ wire'[Len(wire) + 1].byte = tx
        /\ wire'[Len(wire) + 1].acked = acked
    BY <2>1, WireGrows DEF WireType
  <2>5. Answered'
    BY <1>0, <2>1, <2>2, <2>3, <2>4 DEF Sending, Answered, Outgoing, Sent, AllAcked, call, driver, TypeOK
  <2>6. UnderWay'
    BY <1>0, <2>2 DEF UnderWay, Running, call, driver
  <2> QED
    BY <1>0, <2>2, <2>5, <2>6 DEF call
<1>2. CASE ReadByte
  <2>1. wire' = Append(wire, Byte(Len(wire), TRUE)) /\ rxack' = FALSE
    BY <1>2 DEF ReadByte
  <2>2. pc = "wait" /\ UnderWay /\ Receiving
    BY <1>2 DEF ReadByte, AtRest, Armed, Answered, Lost, Sending, Delivered, TypeOK
  <2>3. phase' = "idle" /\ irq_flag' /\ al' = al /\ busy' = busy
    BY <1>2 DEF ReadByte, Done
  <2>4. Len(wire) \in Nat
    BY DEF WireType
  <2>5. Len(wire') = Len(wire) + 1 /\ wire'[Len(wire) + 1].byte = Len(wire)
    BY <2>1, <2>4, WireGrows
  <2>6. Incoming'
    BY <1>0, <2>1, <2>2, <2>3 DEF Receiving, Incoming, Counted, call, driver
  <2>8. Delivered'
    <3>1. Len(wire) = index + 1 /\ index' = index /\ index \in Nat
      BY <1>0, <2>2 DEF Receiving, driver, TypeOK
    <3>2. Len(wire') = index' + 2 /\ wire'[index' + 2].byte = index' + 1
      BY <2>5, <3>1
    <3> QED
      BY <2>3, <2>6, <3>2 DEF Delivered
  <2>7. UnderWay'
    BY <1>0, <2>2 DEF UnderWay, Running, call, driver
  <2> QED
    BY <1>0, <2>2, <2>7, <2>8 DEF call
<1>3. CASE Stopped
  <2>1. pc \in {"idle", "busyWait", "wait"} /\ AtRest
    BY <1>3 DEF Stopped, AtRest, Armed, Sending, Answered, Lost, Receiving, Delivered, TypeOK
  <2>2. AtRest' /\ wire' = wire /\ rxack' = rxack
    BY <1>0, <1>3, <2>1 DEF Stopped, Done, AtRest, driver
  <2>3. (Called => Called') /\ (Outcome => Outcome') /\ (Meaning => Meaning')
    BY <1>0, <2>2 DEF Called, Outcome, Meaning, Sent, RefusedAt, AllAcked, Counted, call, driver
  <2>4. ~UnderWay
    BY <2>1 DEF AtRest, UnderWay, Running
  <2> QED
    BY <1>0, <2>1, <2>2, <2>3, <2>4 DEF call
<1>4. CASE LoseArbitration
  <2>1. pc = "wait" /\ UnderWay /\ (Sending \/ Receiving)
    BY <1>4 DEF LoseArbitration, AtRest, Armed, Commanded, Answered, Lost, Delivered, TypeOK
  <2>2. phase' = "idle" /\ irq_flag' /\ al' /\ wire' = wire
    BY <1>4 DEF LoseArbitration, Done
  <2>3. UnderWay'
    BY <1>0, <2>1 DEF UnderWay, Running, call, driver
  <2>4. op = "write" => Len(wire) = index
    BY <2>1 DEF Sending, Receiving, Incoming, Sent
  <2>5. op = "read" => received = Counted(index)
    BY <2>1, CountedNone DEF Sending, Outgoing, Receiving, Incoming
  <2>6. Lost'
    BY <1>0, <2>2, <2>4, <2>5 DEF Lost, Counted, call, driver
  <2> QED
    BY <1>0, <2>1, <2>3, <2>6 DEF call
<1> QED
  BY <1>1, <1>2, <1>3, <1>4 DEF Bus
\* A transfer that ends, in either way, leaves the driver and the master at rest.
LEMMA EndsAtRest ==
  ASSUME phase = "idle", busy = "ours", ~al, EndTransfer \/ twi_stop
  PROVE  AtRest'
<1>1. CASE twi_stop
  <2>1. phase' = "stopping" /\ busy' = "ours" /\ (al' <=> FALSE)
    BY <1>1 DEF twi_stop, Command, GoesTo
  <2> QED
    BY <1>1, <2>1 DEF twi_stop, AtRest
<1>2. CASE RepeatedStart
  <2>1. phase' = "idle" /\ (al' <=> FALSE)
    BY <1>2 DEF RepeatedStart, Command, GoesTo
  <2> QED
    BY <1>2, <2>1 DEF RepeatedStart, AtRest
<1> QED
  BY <1>1, <1>2 DEF EndTransfer

\* A byte answered in a transfer that writes, or the address of one that reads.
LEMMA HandlerAnswered ==
  ASSUME TypeOK, WireType, pc = "wait", UnderWay, Answered, ISR_I2C
  PROVE  (AtRest /\ Outcome)' \/ (UnderWay /\ (Sending \/ Receiving))'
<1> USE DEF Answered, UnderWay
<1>0. UNCHANGED <<call, wire, rxack>> /\ irq_flag' = FALSE
  BY DEF ISR_I2C
<1>1. CASE ~rxack /\ op = "write"
  <2>1. NextByteOut
    BY <1>1 DEF ISR_I2C, Arbitration, NextByteIn, Leftover, NotAcknowledged, Running
  <2>2. CASE index < length
    <3>1. Command({"WRITE"}) /\ index' = index + 1 /\ tx' = index + 1
          /\ UNCHANGED <<ien, twi_state, twi_error, received>>
      BY <2>1, <2>2 DEF NextByteOut
    <3>2. phase' = "writing" /\ cmd' = {"WRITE"} /\ busy' = "ours" /\ (al' <=> FALSE)
      BY <3>1 DEF Command, GoesTo
    <3>3. Sent(index)' /\ AllAcked'
      BY <1>0, <1>1, <3>1 DEF Sent, AllAcked, TypeOK
    <3>4. Sending'
      BY <1>0, <1>1, <3>1, <3>2, <3>3 DEF Sending, Outgoing, Sent, call
    <3>5. UnderWay'
      BY <1>0, <2>2, <3>1 DEF Running, call, TypeOK
    <3> QED
      BY <3>4, <3>5
  <2>3. CASE ~(index < length)
    <3>1. EndTransfer /\ UNCHANGED twi_error
      BY <2>1, <2>3 DEF NextByteOut
    <3>2. index = length
      BY <2>3 DEF TypeOK
    <3>3. Sent(length + 1)' /\ AllAcked'
      BY <1>0, <1>1, <3>2 DEF Sent, AllAcked, call, TypeOK
    <3>4. Outcome'
      BY <1>0, <1>1, <3>1, <3>3 DEF Outcome, Sent, call
    <3> QED
      BY <3>1, <3>4, EndsAtRest
  <2> QED
    BY <2>2, <2>3
<1>2. CASE ~rxack /\ op = "read"
  <2>1. NextByteIn
    BY <1>2 DEF ISR_I2C, Arbitration, NextByteOut, Leftover, NotAcknowledged, Running
  <2>2. index' = 0 /\ index = 0 /\ received' = <<>> /\ twi_error' = "none" /\ Address_ACK' = FALSE
    BY <1>2, <2>1 DEF NextByteIn, Outgoing
  <2>3. CASE index' < length
    <3>1. Command({"READ"}) /\ UNCHANGED <<ien, twi_state>>
      BY <2>1, <2>3 DEF NextByteIn
    <3>2. phase' = "reading" /\ busy' = "ours" /\ (al' <=> FALSE)
      BY <3>1 DEF Command, GoesTo
    <3>3. Receiving'
      BY <1>0, <1>2, <2>2, <2>3, <3>2, CountedNone DEF Receiving, Incoming, Sent, Counted, call
    <3>4. UnderWay'
      BY <1>0, <2>2, <2>3, <3>1 DEF Running, call, TypeOK
    <3> QED
      BY <3>3, <3>4
  <2>4. CASE ~(index' < length)
    <3>1. EndTransfer
      BY <2>1, <2>4 DEF NextByteIn
    <3>2. length = 0
      BY <2>2, <2>4 DEF TypeOK
    <3>3. Outcome'
      BY <1>0, <1>2, <2>2, <3>2, CountedNone DEF Outcome, Counted, call
    <3> QED
      BY <3>1, <3>3, EndsAtRest
  <2> QED
    BY <2>3, <2>4
<1>3. CASE rxack
  <2>1. NotAcknowledged
    BY <1>3 DEF ISR_I2C, Arbitration, NextByteOut, NextByteIn, Leftover
  <2>2. twi_stop /\ UNCHANGED <<index, received>>
    BY <2>1 DEF NotAcknowledged
  <2>3. AtRest'
    BY <2>2, EndsAtRest
  <2>4. RefusedAt(index + 1)'
    BY <1>0, <1>3, <2>2 DEF Sent, RefusedAt, TypeOK
  <2>5. CASE op = "write"
    <3>1. twi_error' = IF index = 0 THEN "SLA_NACK" ELSE "DATA_NACK"
      BY <2>1, <2>5 DEF NotAcknowledged, Running
    <3>2. Len(wire) = index + 1 /\ wire' = wire
      BY <1>0 DEF Sent
    <3>3. twi_error' = "SLA_NACK" => RefusedAt(1)'
      BY <2>2, <2>4, <3>1 DEF RefusedAt, Sent
    <3>4. twi_error' = "DATA_NACK" => Len(wire') > 1 /\ RefusedAt(Len(wire))'
      BY <2>2, <2>4, <3>1, <3>2 DEF RefusedAt, Sent, TypeOK
    <3>5. Outcome'
      BY <1>0, <2>5, <3>1, <3>3, <3>4 DEF Outcome, call
    <3> QED
      BY <2>3, <3>5
  <2>6. CASE op = "read"
    <3>1. index' = 0 /\ received' = <<>>
      BY <2>2, <2>6 DEF Outgoing
    <3>2. RefusedAt(1)'
      BY <2>2, <2>4, <3>1 DEF RefusedAt, Sent
    <3>3. Outcome'
      BY <1>0, <2>6, <3>1, <3>2, CountedNone DEF Outcome, RefusedAt, Sent, Counted, call, TypeOK
    <3> QED
      BY <2>3, <3>3
  <2> QED
    BY <2>5, <2>6 DEF TypeOK
<1> QED
  BY <1>1, <1>2, <1>3 DEF TypeOK

\* A byte came in: it is stored, and the next one or the end commanded.
LEMMA HandlerDelivered ==
  ASSUME TypeOK, WireType, pc = "wait", UnderWay, Delivered, ISR_I2C
  PROVE  (AtRest /\ Outcome)' \/ (UnderWay /\ Receiving)'
<1> USE DEF Delivered, Incoming, UnderWay
<1>0. UNCHANGED <<call, wire, rxack>> /\ irq_flag' = FALSE
  BY DEF ISR_I2C
<1>1. NextByteIn
  BY DEF ISR_I2C, Arbitration, NextByteOut, Leftover, NotAcknowledged, Running
<1>2. index' = index + 1 /\ twi_error' = "none" /\ Address_ACK' = FALSE
  BY <1>1 DEF NextByteIn
<1>3. received' = Counted(index + 1)
  <2>1. received' = Append(received, wire[index + 2].byte)
    BY <1>1 DEF NextByteIn
  <2> QED
    BY <2>1, CountedNext DEF TypeOK
<1>4. CASE index' < length
  <2>1. Command({"READ"}) /\ UNCHANGED <<ien, twi_state>>
    BY <1>1, <1>4 DEF NextByteIn
  <2>2. phase' = "reading" /\ busy' = "ours" /\ (al' <=> FALSE)
    BY <2>1 DEF Command, GoesTo
  <2>3. Len(wire') = index' + 1
    BY <1>0, <1>2 DEF TypeOK
  <2>4. Receiving'
    BY <1>0, <1>2, <1>3, <1>4, <2>2, <2>3 DEF Receiving, Counted, call
  <2>5. UnderWay'
    BY <1>0, <1>2, <1>4, <2>1 DEF Running, call, TypeOK
  <2> QED
    BY <2>4, <2>5
<1>5. CASE ~(index' < length)
  <2>1. EndTransfer
    BY <1>1, <1>5 DEF NextByteIn
  <2>2. index' = length
    BY <1>2, <1>5 DEF TypeOK
  <2>3. Outcome'
    BY <1>0, <1>2, <1>3, <2>2 DEF Outcome, Counted, call, TypeOK
  <2> QED
    BY <2>1, <2>3, EndsAtRest
<1> QED
  BY <1>4, <1>5

\* ... and the handler ends it or goes on to the next byte.
LEMMA HandlerStages ==
  ASSUME TypeOK, WireType, clean, Stages, ISR_I2C
  PROVE  Stages'
<1> USE DEF Stages
<1>0. UNCHANGED <<call, wire, rxack>> /\ irq_flag' = FALSE /\ ien /\ irq_flag
  BY DEF ISR_I2C, Interrupt
<1>1. CASE pc = "armed" \/ pc = "commanded"
  <2>1. ~al /\ ~rxack /\ twi_state = "READY"
    BY <1>0, <1>1 DEF Armed, Commanded, Filled, Called
  <2>2. Leftover
    BY <2>1 DEF ISR_I2C, Arbitration, NextByteOut, NextByteIn, NotAcknowledged
  <2>3. (Armed => Armed') /\ (Commanded => Commanded')
    BY <1>0, <2>2 DEF Leftover, Armed, Commanded, Filled, Called, driver, call
  <2> QED
    BY <1>0, <1>1, <2>3 DEF call
<1>2. CASE pc = "wait"
  <2>1. UnderWay /\ (Answered \/ Lost \/ Delivered)
    BY <1>0, <1>2 DEF AtRest, Sending, Receiving
  <2>2. CASE Lost
    <3>1. Arbitration
      BY <2>2 DEF ISR_I2C, Lost, NextByteOut, NextByteIn, Leftover, NotAcknowledged
    <3>2. AtRest'
      BY <1>0, <2>2, <3>1 DEF Arbitration, Lost, AtRest
    <3>3. Outcome'
      BY <1>0, <2>1, <2>2, <3>1, CountedNone
         DEF Arbitration, Lost, Outgoing, Outcome, UnderWay, Counted, call, TypeOK
    <3> QED
      BY <1>0, <1>2, <3>2, <3>3 DEF call
  <2>3. CASE Answered
    BY <1>0, <1>2, <2>1, <2>3, HandlerAnswered DEF call
  <2>4. CASE Delivered
    BY <1>0, <1>2, <2>1, <2>4, HandlerDelivered DEF call
  <2> QED
    BY <2>1, <2>2, <2>3, <2>4
<1> QED
  BY <1>0, <1>1, <1>2 DEF AtRest, TypeOK

LEMMA StagesNext == TypeOK /\ TInv /\ [Next]_vars => TInv'
<1> SUFFICES ASSUME TypeOK, TInv, [Next]_vars, clean' PROVE Stages'
  BY WireTyped DEF TInv
<1>1. CASE Call \/ Sketch
  BY <1>1, SketchStages DEF TInv
<1>2. CASE pc # "commanded" /\ (Bus \/ LoseArbitration)
  <2>1. clean
    BY <1>2 DEF Bus, WriteByte, ReadByte, Stopped, LoseArbitration, call
  <2> QED
    BY <1>2, <2>1, WireStages DEF TInv
<1>3. CASE ISR_I2C
  <2>1. clean
    BY <1>3 DEF ISR_I2C, call
  <2> QED
    BY <1>3, <2>1, HandlerStages DEF TInv
<1>4. CASE OtherMasterStops
  <2>1. clean /\ Stages
    BY <1>4 DEF OtherMasterStops, call, TInv
  <2>2. busy = "theirs" /\ UNCHANGED <<call, driver, wire, ien, cmd, tx, phase, rxack, al, irq_flag>>
    BY <1>4 DEF OtherMasterStops
  <2>3. (AtRest => AtRest') /\ (Called => Called') /\ (Armed => Armed') /\ ~Commanded
    BY <2>2 DEF AtRest, Called, Armed, Filled, Commanded, driver
  <2>4. (Outcome => Outcome') /\ (Meaning => Meaning')
    BY <2>2 DEF Outcome, Meaning, Sent, RefusedAt, AllAcked, Counted, call, driver
  <2>5. (UnderWay => UnderWay') /\ (Lost => Lost') /\ ~Sending /\ ~Answered /\ ~Incoming
    BY <2>2 DEF UnderWay, Running, Lost, Outgoing, Sending, Answered, Incoming, call, driver
  <2> QED
    BY <2>1, <2>2, <2>3, <2>4, <2>5 DEF Stages, Receiving, Delivered, call
<1>5. CASE UNCHANGED vars
  <2>1. clean /\ Stages
    BY <1>5 DEF vars, call, TInv
  <2> QED
    BY <1>5, <2>1 DEF vars, call, driver, master, Stages, AtRest, Called, Filled, Armed, Commanded,
         UnderWay, Outgoing, Sending, Answered, Lost, Incoming, Receiving, Delivered, Outcome,
         Meaning, Sent, RefusedAt, AllAcked, Counted, Running
<1> QED
  BY <1>1, <1>2, <1>3, <1>4, <1>5 DEF Next, BusStep

\* The sketch is told what happened on the wire, for transfers of every length:
\* success only when each byte went out in order and was acknowledged, an error that
\* names the byte that was not, and the bytes the device sent, in order.
THEOREM ReturnIsTrue == Spec => []ReturnMeans
<1>1. Init => TypeOK /\ TInv
  BY DEF Init, TypeOK, TInv, WireType, Stages, AtRest, Address
<1>2. TypeOK /\ TInv => ReturnMeans
  <2> SUFFICES ASSUME pc = "idle", result.code # "none", Meaning
               PROVE  ReturnMeans
    BY DEF TInv, Stages, ReturnMeans
  <2> QED
    BY DEF ReturnMeans, Meaning, Sent, RefusedAt, AllAcked, Counted
<1>3. TypeOK /\ TInv /\ [Next]_vars => (TypeOK /\ TInv)'
  BY DataNext, StagesNext
<1> QED
  BY <1>1, <1>2, <1>3, PTL DEF Spec
=============================================================================
