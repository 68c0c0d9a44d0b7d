------------------------------- MODULE DcFifo -------------------------------
(***************************************************************************)
(* The dual-clock FIFO of axi_slice_dc (dc_token_ring_fifo_din.v,          *)
(* dc_token_ring_fifo_dout.v, dc_full_detector.v, dc_token_ring.v,         *)
(* dc_data_buffer.v, dc_synchronizer.v), which also carries the data of    *)
(* the SPI slave between the SPI clock and the system clock.               *)
(*                                                                         *)
(* The two clocks are unrelated: WriteClk is an edge of the writer's clock,*)
(* ReadClk one of the reader's, in any order.  A token is two adjacent     *)
(* bits that rotate through a register, so a pointer is a position.        *)
(*                                                                         *)
(* What crosses from one clock to the other is sampled by flip-flops that  *)
(* may see a bit before or after it changes.  "unsettled" says which side  *)
(* moved its token in the previous step; sampling right after that sees    *)
(* each changed bit old or new (the token), and a gate fed by changed bits *)
(* may glitch (the full detector).                                         *)
(***************************************************************************)
EXTENDS Naturals, Sequences

CONSTANTS
  BUFFER_DEPTH,
  Value

ASSUME DepthAssumption == BUFFER_DEPTH \in Nat /\ BUFFER_DEPTH >= 4

VARIABLES
  \* writer's clock
  write_token,              \* position of the lower bit of the write token
  data,                     \* the buffer
  full_middle, full_up,     \* the synchronizer of full_dn
  latched_full_s,
  \* reader's clock
  read_token,               \* position of the lower bit of the read token
  middle, write_token_dn,   \* the synchronizer of the write token: sets of bits
  \* physics
  unsettled                 \* "write", "read" or "no"

writeVars == <<write_token, data, full_middle, full_up, latched_full_s>>
readVars  == <<read_token, middle, write_token_dn>>
vars == <<writeVars, readVars, unsettled>>

Positions == 0..(BUFFER_DEPTH - 1)

\* Position p, n further round the ring.
Rot(p, n) == (p + n) % BUFFER_DEPTH

Bits(token) == {token, Rot(token, 1)}

\* A token rotated by one and masked with itself leaves its upper bit; the
\* read token is rotated by two and by three.
write_pointer == Rot(write_token, 1)
read_pointer  == Rot(read_token, 3)

\* Faulty variants of the detector: it sees only the full buffer; it also takes
\* the empty buffer for full.
FullOnlyWhenFull(r) == r = Rot(write_pointer, 1)
FullWhenEmpty(r) == \E n \in 0..3 : r = Rot(write_pointer, n)

\* full_dn for the reader at position r: full, one free or two free.
Full(r) == \E n \in 1..3 : r = Rot(write_pointer, n)

ready == ~(latched_full_s /\ full_up)

\* Faulty variant: one bit of the token decides.
valid_oOneBit == Rot(read_pointer, BUFFER_DEPTH - 1) \notin write_token_dn

\* No bit of empty is 1.
valid_o ==
  LET back2 == Rot(read_pointer, BUFFER_DEPTH - 2)
      back1 == Rot(read_pointer, BUFFER_DEPTH - 1)
  IN ~(back2 \notin write_token_dn /\ back1 \in write_token_dn)

\* What the synchronizers may sample.
SampledFull ==
  LET before == Rot(read_pointer, BUFFER_DEPTH - 1) IN
  IF unsettled = "read" /\ (Full(read_pointer) \/ Full(before)) THEN BOOLEAN
  ELSE {Full(read_pointer)}

SampledToken ==
  LET before == Rot(write_token, BUFFER_DEPTH - 1)
      stable == Bits(write_token) \cap Bits(before)
  IN IF unsettled = "write"
     THEN {stable \cup s : s \in SUBSET ((Bits(write_token) \cup Bits(before)) \ stable)}
     ELSE {Bits(write_token)}

-----------------------------------------------------------------------------
\* Reset of both sides: the write token is 'hc, the read token 'h3.
Init ==
  /\ write_token = 2 /\ read_token = 0
  /\ data \in {[p \in Positions |-> v] : v \in Value}
  /\ full_middle = FALSE /\ full_up = FALSE /\ latched_full_s = FALSE
  /\ middle = Bits(2) /\ write_token_dn = Bits(2)
  /\ unsettled = "no"

\* An edge of the writer's clock.  The buffer is written in every cycle, also
\* when nothing is offered; only the token says whether that counts.
WriteClk(valid, d) ==
  /\ data' = [data EXCEPT ![write_pointer] = d]
  /\ write_token' = IF valid /\ ready THEN Rot(write_token, 1) ELSE write_token
  /\ full_middle' \in SampledFull
  /\ full_up' = full_middle
  /\ latched_full_s' = (full_up \/ valid)
  /\ unsettled' = IF valid /\ ready THEN "write" ELSE "no"
  /\ UNCHANGED readVars

\* An edge of the reader's clock.
ReadClk(ready_i) ==
  /\ read_token' = IF valid_o /\ ready_i THEN Rot(read_token, 1) ELSE read_token
  /\ middle' \in SampledToken
  /\ write_token_dn' = middle
  /\ unsettled' = IF valid_o /\ ready_i THEN "read" ELSE "no"
  /\ UNCHANGED writeVars

Next ==
  \/ \E valid \in BOOLEAN, d \in Value : WriteClk(valid, d)
  \/ \E ready_i \in BOOLEAN : ReadClk(ready_i)

Spec == Init /\ [][Next]_vars

\* Both clocks run as long as a synchronizer has something to pass on, and the
\* reader takes what it is offered.  The writer may stop offering.
FairSpec ==
  /\ Spec
  /\ WF_readVars(ReadClk(TRUE))
  /\ WF_<<full_middle, full_up>>(\E valid \in BOOLEAN, d \in Value : WriteClk(valid, d))

-----------------------------------------------------------------------------
\* The values inside, oldest first.
Occupancy == Rot(write_pointer, BUFFER_DEPTH - read_pointer)
Contents == [i \in 1..Occupancy |-> data[Rot(read_pointer, i - 1)]]

Abstract == INSTANCE Fifo WITH queue <- Contents, Capacity <- BUFFER_DEPTH - 1

\* The two token rings carry values like one queue that holds one value less
\* than there are slots: nothing is lost, repeated, reordered or overwritten,
\* although "full" and "not empty" reach the other clock late and although a
\* token is sampled bit by bit while it moves.
Implements == Abstract!Spec

\* No value stays inside for ever.
Drains == Abstract!Drained

\* A writer that finds the FIFO full is let in again.
Reopens == ~ready ~> ready
=============================================================================
