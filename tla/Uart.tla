-------------------------------- MODULE Uart --------------------------------
(***************************************************************************)
(* The UART of the SoC, cores/uart: uart.v with its bus wrapper            *)
(* perip_uart.v, one step per clock edge.  Register 0x08 is "DAT", 0x10 is *)
(* "CNTL"; the control register is the set of its bits that are one.  A    *)
(* byte is the sequence of its bits, the first sent first.                 *)
(*                                                                         *)
(* The wrapper's registers use blocking assignments and uart.v samples     *)
(* them at the same edge: see Seen in PeriphBus.                           *)
(***************************************************************************)
EXTENDS PeriphBus, Sequences

CONSTANTS
  divisor,   \* clocks between two ticks, freq_hz/baud/16 (14 in SOC.v)
  Width      \* bits of a byte

ASSUME UartAssumption == divisor \in Nat \ {0} /\ Width \in 1 .. 13

VARIABLES
  d_in_uart, uart_ctrl, d_out,                     \* perip_uart.v
  enable16_counter,
  uart_rxd1, uart_rxd2,                            \* the synchroniser
  rx_busy, rx_count16, rx_bitcount, rxd_reg,
  rx_data, rx_avail, rx_error,
  tx_busy, tx_count16, tx_bitcount, txd_reg, uart_txd

wrapper == <<d_in_uart, uart_ctrl, d_out>>
receiver == <<rx_busy, rx_count16, rx_bitcount, rxd_reg, rx_data, rx_avail, rx_error>>
transmitter == <<tx_busy, tx_count16, tx_bitcount, txd_reg, uart_txd>>
vars == <<wrapper, enable16_counter, uart_rxd1, uart_rxd2, receiver, transmitter>>

Byte == [1 .. Width -> {0, 1}]
Zeros == [k \in 1 .. Width |-> 0]
ControlBits == {"tx_wr", "rx_ack", "led"}

(* After the power-up reset; the registers it does not reach hold zero. *)
Init ==
  /\ d_in_uart = Zeros /\ uart_ctrl = {} /\ d_out = [data |-> Zeros, status |-> {}]
  /\ enable16_counter = divisor - 1
  /\ uart_rxd1 = 1 /\ uart_rxd2 = 1
  /\ rx_busy = FALSE /\ rx_count16 = 0 /\ rx_bitcount = 0 /\ rxd_reg = Zeros
  /\ rx_data = Zeros /\ rx_avail = FALSE /\ rx_error = FALSE
  /\ tx_busy = FALSE /\ tx_count16 = 0 /\ tx_bitcount = 0 /\ txd_reg = Zeros /\ uart_txd = 1

-----------------------------------------------------------------------------
(* The wrapper: its registers, which reset does not reach, and the read multiplexer *)
Status == {bit \in {"tx_busy", "rx_avail", "rx_error"} :
             CASE bit = "tx_busy" -> tx_busy [] bit = "rx_avail" -> rx_avail [] bit = "rx_error" -> rx_error}

Wrapper(bus) ==
  /\ d_in_uart' = IF Writes(bus, "DAT") THEN bus.d ELSE d_in_uart
  /\ uart_ctrl' = IF Writes(bus, "CNTL") THEN bus.d ELSE uart_ctrl
  /\ d_out' = [data |-> IF Selects(bus, "DAT") THEN rx_data ELSE Zeros,
               status |-> IF Selects(bus, "CNTL") THEN Status ELSE {}]

(* The tick generator and the synchroniser *)
enable16 == enable16_counter = 0
Tick == enable16_counter' = IF enable16 THEN divisor - 1 ELSE enable16_counter - 1

Synchronise(rxd) == uart_rxd1' = rxd /\ uart_rxd2' = uart_rxd1

-----------------------------------------------------------------------------
(* The receiver.  Acknowledging clears the flags unless a byte ends now.   *)
Acknowledge(rx_ack) ==
  /\ rx_avail' = (rx_avail /\ ~rx_ack)
  /\ rx_error' = (rx_error /\ ~rx_ack)

(* Counts from zero: every bit is sampled near its end. *)
FindStartLate ==
  /\ ~rx_busy
  /\ IF uart_rxd2 = 0
     THEN rx_busy' = TRUE /\ rx_count16' = 0 /\ rx_bitcount' = 0
     ELSE UNCHANGED <<rx_busy, rx_count16, rx_bitcount>>
  /\ UNCHANGED <<rxd_reg, rx_data>>

FindStart ==
  /\ ~rx_busy
  /\ IF uart_rxd2 = 0
     THEN rx_busy' = TRUE /\ rx_count16' = 7 /\ rx_bitcount' = 0
     ELSE UNCHANGED <<rx_busy, rx_count16, rx_bitcount>>
  /\ UNCHANGED <<rxd_reg, rx_data>>

Between ==
  /\ rx_busy /\ rx_count16 # 0
  /\ rx_count16' = (rx_count16 + 1) % 16
  /\ UNCHANGED <<rx_busy, rx_bitcount, rxd_reg, rx_data>>

Sampling == rx_busy /\ rx_count16 = 0
NextSample ==
  /\ rx_count16' = (rx_count16 + 1) % 16
  /\ rx_bitcount' = (rx_bitcount + 1) % 16

SampleStart ==
  /\ Sampling /\ rx_bitcount = 0
  /\ NextSample
  /\ rx_busy' = (uart_rxd2 = 0)
  /\ UNCHANGED <<rxd_reg, rx_data>>

SampleBit ==
  /\ Sampling /\ rx_bitcount \notin {0, Width + 1}
  /\ NextSample
  /\ rxd_reg' = Append(Tail(rxd_reg), uart_rxd2)
  /\ UNCHANGED <<rx_busy, rx_data>>

(* Takes a low line for the stop bit. *)
SampleStopInverted(rx_ack) ==
  /\ Sampling /\ rx_bitcount = Width + 1
  /\ NextSample
  /\ rx_busy' = FALSE
  /\ IF uart_rxd2 = 0
     THEN rx_data' = rxd_reg /\ rx_avail' = TRUE /\ rx_error' = FALSE
     ELSE rx_error' = TRUE /\ rx_avail' = (rx_avail /\ ~rx_ack) /\ UNCHANGED rx_data
  /\ UNCHANGED rxd_reg

SampleStop(rx_ack) ==
  /\ Sampling /\ rx_bitcount = Width + 1
  /\ NextSample
  /\ rx_busy' = FALSE
  /\ IF uart_rxd2 = 1
     THEN rx_data' = rxd_reg /\ rx_avail' = TRUE /\ rx_error' = FALSE
     ELSE rx_error' = TRUE /\ rx_avail' = (rx_avail /\ ~rx_ack) /\ UNCHANGED rx_data
  /\ UNCHANGED rxd_reg

Receive(rx_ack) ==
  \/ enable16 /\ SampleStop(rx_ack)
  \/ enable16 /\ (FindStart \/ Between \/ SampleStart \/ SampleBit) /\ Acknowledge(rx_ack)
  \/ ~enable16 /\ Acknowledge(rx_ack) /\ UNCHANGED <<rx_busy, rx_count16, rx_bitcount, rxd_reg, rx_data>>

-----------------------------------------------------------------------------
(* The transmitter.  tx_count16 runs at every tick, so it is the count a   *)
(* write leaves, unless the tick falls on the write and overrides it.      *)
Accepts(tx_wr) == tx_wr /\ ~tx_busy

CountTick(tx_wr) ==
  tx_count16' = IF enable16 THEN (tx_count16 + 1) % 16 ELSE IF Accepts(tx_wr) THEN 0 ELSE tx_count16

Accept(tx_wr, data) ==
  /\ Accepts(tx_wr)
  /\ txd_reg' = data /\ tx_bitcount' = 0 /\ tx_busy' = TRUE
  /\ UNCHANGED uart_txd

(* Does not stop after the stop bit / does not clear the bit counter. *)
NextBitStuck ==
  /\ tx_busy /\ enable16 /\ tx_count16 = 0
  /\ uart_txd' = IF tx_bitcount = 0 THEN 0 ELSE IF tx_bitcount > Width THEN 1 ELSE txd_reg[1]
  /\ txd_reg' = IF tx_bitcount \in 1 .. Width THEN Append(Tail(txd_reg), 0) ELSE txd_reg
  /\ tx_bitcount' = IF tx_bitcount = Width + 2 THEN tx_bitcount ELSE tx_bitcount + 1
  /\ UNCHANGED tx_busy

NextBitUncleared ==
  /\ tx_busy /\ enable16 /\ tx_count16 = 0
  /\ uart_txd' = IF tx_bitcount = 0 THEN 0 ELSE IF tx_bitcount > Width THEN 1 ELSE txd_reg[1]
  /\ txd_reg' = IF tx_bitcount \in 1 .. Width THEN Append(Tail(txd_reg), 0) ELSE txd_reg
  /\ tx_bitcount' = tx_bitcount + 1
  /\ tx_busy' = (tx_bitcount < Width + 2)

NextBit ==
  /\ tx_busy /\ enable16 /\ tx_count16 = 0
  /\ uart_txd' = IF tx_bitcount = 0 THEN 0
                 ELSE IF tx_bitcount = Width + 1 THEN 1
                 ELSE IF tx_bitcount = Width + 2 THEN uart_txd
                 ELSE txd_reg[1]
  /\ txd_reg' = IF tx_bitcount \in 1 .. Width THEN Append(Tail(txd_reg), 0) ELSE txd_reg
  /\ tx_bitcount' = IF tx_bitcount = Width + 2 THEN 0 ELSE tx_bitcount + 1
  /\ tx_busy' = (tx_bitcount # Width + 2)

Hold(tx_wr) ==
  /\ ~Accepts(tx_wr) /\ ~(tx_busy /\ enable16 /\ tx_count16 = 0)
  /\ UNCHANGED <<txd_reg, tx_bitcount, tx_busy, uart_txd>>

Transmit(tx_wr, data) ==
  /\ CountTick(tx_wr)
  /\ Accept(tx_wr, data) \/ NextBit \/ Hold(tx_wr)

-----------------------------------------------------------------------------
(* One clock edge with the bus and the receive line as they stand *)
Edge(bus, rxd) ==
  /\ Wrapper(bus)
  /\ Tick
  /\ Synchronise(rxd)
  /\ \E c \in {uart_ctrl, uart_ctrl'} : \E data \in {d_in_uart, d_in_uart'} :
       /\ c \in Seen(uart_ctrl, uart_ctrl') /\ data \in Seen(d_in_uart, d_in_uart')
       /\ Receive("rx_ack" \in c)
       /\ Transmit("tx_wr" \in c, data)

(* The edge under reset.  The wrapper, the synchroniser and the shift registers run on. *)
ResetEdge(bus, rxd) ==
  /\ Wrapper(bus)
  /\ enable16_counter' = divisor - 1
  /\ Synchronise(rxd)
  /\ rx_busy' = FALSE /\ rx_count16' = 0 /\ rx_bitcount' = 0 /\ rx_avail' = FALSE /\ rx_error' = FALSE
  /\ tx_busy' = FALSE /\ uart_txd' = 1 /\ tx_count16' = 0
  /\ UNCHANGED <<rxd_reg, rx_data, tx_bitcount, txd_reg>>

TypeOK ==
  /\ {d_in_uart, rxd_reg, rx_data, txd_reg, d_out.data} \subseteq Byte
  /\ uart_ctrl \subseteq ControlBits
  /\ d_out.status \subseteq {"tx_busy", "rx_avail", "rx_error"}
  /\ enable16_counter \in 0 .. divisor - 1
  /\ {uart_rxd1, uart_rxd2, uart_txd} \subseteq {0, 1}
  /\ {rx_busy, rx_avail, rx_error, tx_busy} \subseteq BOOLEAN
  /\ rx_count16 \in 0 .. 15 /\ tx_count16 \in 0 .. 15
  /\ rx_bitcount \in 0 .. Width + 2 /\ tx_bitcount \in 0 .. Width + 2
=============================================================================
