------------------------------ MODULE UartEcho ------------------------------
(***************************************************************************)
(* The UART with the firmware that answers every byte, and the computer at *)
(* the other end of the line.  One step is one clock edge.                 *)
(*                                                                         *)
(* The firmware is the loop of firmware/asm: a prompt is printed, then     *)
(* getchar and putchar are called in turn, each access to the UART taking  *)
(* its turn on the bus; MinPause to MaxPause clocks pass before each, for  *)
(* the instructions in between.  Pressing reset restarts it.               *)
(*                                                                         *)
(* The peer is not in the repository.  It sends bytes whose bits last      *)
(* SenderBit clocks, with at least Gap clocks between two, from the prompt *)
(* on, and samples what comes back in the middle of each bit.              *)
(***************************************************************************)
EXTENDS Uart

CONSTANTS
  Sent,        \* the bytes the peer sends
  Prompt,      \* the byte the firmware prints first
  SenderBits,  \* clocks a bit of the peer may last
  Gap,
  MinPause, MaxPause,
  Resets       \* how often reset is pressed

VARIABLES
  pc, a0, pause,     \* the firmware
  out, outTime, bit, \* the peer: the frame it sends and since when; its bit time
  ear, earTime,      \* the peer: the bits it has sampled of an answer, and since when
  owed,              \* the bytes whose answer it waits for
  matched,           \* whether the last answer was the right one
  resets,
  leftover           \* the byte whose two writes of CNTL a reset came between

firmware == <<pc, a0, pause>>
peer == <<out, outTime, bit, ear, earTime>>
all == <<vars, firmware, peer, owed, matched, resets, leftover>>

EchoInit ==
  /\ Init
  /\ pc = "data" /\ a0 = Prompt /\ pause = 0
  /\ owed = <<Prompt>>
  /\ out = <<>> /\ outTime = 0 /\ bit \in SenderBits
  /\ ear = <<>> /\ earTime = 0
  /\ matched = TRUE
  /\ resets = Resets /\ leftover = {}

-----------------------------------------------------------------------------
(* putchar leaves the acknowledge bit of getchar set. *)
AccessKeepsAck ==
  CASE pc = "data"  -> Store("DAT", a0)
    [] pc = "write" -> Store("CNTL", {"tx_wr", "rx_ack"})
    [] pc \in {"clear", "ack"} -> Store("CNTL", {"rx_ack"})
    [] pc \in {"busy?", "poll"} -> Load("CNTL")
    [] pc = "read"  -> Load("DAT")
    [] OTHER        -> Idle

(* The firmware's access at this edge and where it goes from there.  A load *)
(* puts the register on the bus at one edge and has its value at the next.  *)
Access ==
  CASE pc = "data"  -> Store("DAT", a0)
    [] pc = "write" -> Store("CNTL", {"tx_wr"})
    [] pc = "clear" -> Store("CNTL", {})
    [] pc = "busy?" -> Load("CNTL")
    [] pc = "poll"  -> Load("CNTL")
    [] pc = "ack"   -> Store("CNTL", {"rx_ack"})
    [] pc = "read"  -> Load("DAT")
    [] OTHER        -> Idle

After ==
  CASE pc = "data"  -> "write"        \* putchar
    [] pc = "write" -> "clear"
    [] pc = "clear" -> "busy?"
    [] pc = "busy?" -> "busy"
    [] pc = "busy"  -> IF "tx_busy" \in d_out.status THEN "busy?" ELSE "poll"
    [] pc = "poll"  -> "avail"        \* getchar
    [] pc = "avail" -> IF "rx_avail" \in d_out.status THEN "ack" ELSE "poll"
    [] pc = "ack"   -> "read"
    [] pc = "read"  -> "take"
    [] pc = "take"  -> "data"

Waits == pc \notin {"busy", "avail", "take"}   \* a loaded value is used at once

Proceed ==
  /\ ~Waits \/ pause >= MinPause
  /\ pc' = After
  /\ a0' = IF pc = "take" THEN d_out.data ELSE a0
  /\ pause' = 0
Pause ==
  /\ Waits /\ pause < MaxPause
  /\ pause' = pause + 1
  /\ UNCHANGED <<pc, a0>>

-----------------------------------------------------------------------------
(* The peer's sender: the line is high, then a start bit, the byte, high again *)
Level(frame, t) ==
  LET k == t \div bit
  IN  IF frame = <<>> \/ k = Width + 1 THEN 1 ELSE IF k = 0 THEN 0 ELSE frame[k]
rxd == Level(out, outTime)

FrameTime == (Width + 2) * bit
Sending == out # <<>>
Prompted == \A k \in DOMAIN owed : owed[k] # Prompt
Speak ==
  \/ /\ ~Sending
     /\ outTime' = IF outTime < Gap THEN outTime + 1 ELSE outTime
     /\ UNCHANGED out
  \/ /\ ~Sending /\ outTime = Gap /\ Prompted
     /\ outTime' = 0
     /\ out' \in Sent
  \/ /\ Sending
     /\ outTime' = (outTime + 1) % FrameTime
     /\ out' = IF outTime' = 0 THEN <<>> ELSE out

(* The answers that may come next: the byte first owed, and in the place of *)
(* the prompt the one a reset left in the transmitter's registers.         *)
Due == IF owed = <<>> THEN {}
       ELSE {Head(owed)} \cup (IF Head(owed) = Prompt THEN leftover ELSE {})

(* The peer's receiver: half a bit after the line falls, then once a bit   *)
Listening == earTime > 0
Middle == earTime % bit = bit \div 2
Listen ==
  \/ /\ ~Listening
     /\ earTime' = IF uart_txd = 0 THEN 1 ELSE 0
     /\ UNCHANGED <<ear, matched>>
  \/ /\ Listening /\ ~Middle
     /\ earTime' = earTime + 1
     /\ UNCHANGED <<ear, matched>>
  \/ /\ Middle /\ Len(ear) < Width + 1
     /\ earTime' = earTime + 1
     /\ ear' = Append(ear, uart_txd)
     /\ UNCHANGED matched
  \/ /\ Middle /\ Len(ear) = Width + 1
     /\ earTime' = 0
     /\ ear' = <<>>
     /\ matched' = (uart_txd = 1 /\ \E answer \in Due : ear = <<0>> \o answer)

(* An answer pays what is owed first; a frame begun is owed last.          *)
Answered == Listening /\ earTime' = 0
Owe ==
  LET rest == IF Answered /\ owed # <<>> THEN Tail(owed) ELSE owed
  IN  owed' = IF ~Sending /\ out' # <<>> THEN Append(rest, out') ELSE rest

-----------------------------------------------------------------------------
Clock ==
  /\ \/ Proceed /\ Edge(Access, rxd)
     \/ Pause /\ Edge(Idle, rxd)
  /\ Speak
  /\ Listen
  /\ Owe
  /\ leftover' = IF Prompted THEN {} ELSE leftover
  /\ UNCHANGED <<bit, resets>>

(* Reset while the peer is silent: the firmware starts over with its prompt *)
(* and the peer drops what it was waiting for.  The wrapper's registers are *)
(* not reset.                                                               *)
Press ==
  /\ resets > 0 /\ ~Sending
  /\ resets' = resets - 1
  /\ leftover' = IF "tx_wr" \in uart_ctrl THEN {d_in_uart} ELSE {}
  /\ ResetEdge(Idle, rxd)
  /\ pc' = "data" /\ a0' = Prompt /\ pause' = 0
  /\ owed' = <<Prompt>>
  /\ outTime' = 0 /\ ear' = <<>> /\ earTime' = 0
  /\ UNCHANGED <<out, bit, matched>>

Next == Clock \/ Press

(* The clock never stops. *)
Spec == EchoInit /\ [][Next]_all /\ WF_all(Clock)

-----------------------------------------------------------------------------
EchoTypeOK ==
  /\ TypeOK
  /\ pc \in {"data", "write", "clear", "busy?", "busy", "poll", "avail", "ack", "read", "take"}
  /\ a0 \in Byte /\ pause \in 0 .. MaxPause
  /\ outTime \in 0 .. Gap + FrameTime /\ earTime \in 0 .. FrameTime
  /\ owed \in Seq(Sent \cup {Prompt})
  /\ leftover \subseteq Byte /\ matched \in BOOLEAN

(* Every byte that comes back is the one that was sent, in its turn: for   *)
(* peers whose bits are shorter or longer than the UART's, whatever the    *)
(* phase of the tick generator and of the firmware's loops, and after a    *)
(* reset.  One that falls between putchar's two writes of CNTL leaves      *)
(* tx_wr set: the byte before it is sent again, once, in the place of the  *)
(* prompt and of no answer.                                                *)
EchoesInOrder == matched

(* No byte is lost: the peer never waits for more than the byte being      *)
(* answered and the one it is sending, which the receiver holds while the  *)
(* firmware waits for the answer before it to go out.                      *)
NothingLost == Len(owed) <= 2

(* A byte never completes while the acknowledge bit getchar left in CNTL   *)
(* is still set: its flag would be gone before the firmware has seen it.   *)
SeenBeforeAcknowledged == [][rx_avail' /\ ~rx_avail => "rx_ack" \notin uart_ctrl']_all

(* Whoever waits for an answer hears one begin: no byte stays in the       *)
(* receiver or in the transmitter.                                         *)
EveryByteAnswered == owed # <<>> ~> Listening
=============================================================================
