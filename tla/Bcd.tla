-------------------------------- MODULE Bcd --------------------------------
(***************************************************************************)
(* The two radix converters of the SoC with their bus wrappers             *)
(* (cores/bin2bcd, cores/bcd2bin).  They are the same shift-and-adjust     *)
(* machine with the same control (ctrl_b2b.v); toBcd tells which of them   *)
(* this one is: the direction of the shift, the operand's half of the      *)
(* shift register and the number that adjusts a digit depend on it.        *)
(*                                                                         *)
(* One step is one clock period: the control FSM moves at the rising edge, *)
(* its outputs are combinational, and the wrapper and the datapath move at *)
(* the following falling edge under them.                                  *)
(***************************************************************************)
EXTENDS PeriphBus

CONSTANTS
  Bits,      \* bits of the binary half (16 in the code)
  Digits,    \* digits of the decimal half (5 in the code)
  DoneHold,  \* END1 is left when count > DoneHold (9 in the code)
  Data       \* what software writes into the operand register of each

Pos == 0..(Digits - 1)
Nibble == 0..15
Binary == 0..(2^Bits - 1)
Decimals == 0..(16^Digits - 1)
States == {"START", "CHECK", "SHIFT_DEC", "ADD", "LOAD_A2", "END1"}

VARIABLES
  toBcd,                 \* TRUE: bin2bcd, FALSE: bcd2bin
  A, init, d_out,        \* perip_*.v
  state, count,          \* ctrl_b2b.v
  bcd, bin,              \* the halves data[35:16] and data[15:0] of lsr4 / rsr4
  msb,                   \* reg_msb.v: the sign of each digit minus five
  cont, z,               \* count.v
  opA                    \* history: the operand of the computation

vars == <<toBcd, A, init, d_out, state, count, bcd, bin, msb, cont, z, opA>>

(* Decimal digits as wires and as a number in hexadecimal. *)
Split(n) == [k \in Pos |-> (n \div 16^k) % 16]
RECURSIVE Join(_, _)
Join(d, k) == IF k = Digits THEN 0 ELSE d[k] * 16^k + Join(d, k + 1)

(* The operand's and the result's ports. *)
OpWord == IF toBcd THEN Binary ELSE Decimals
OutWord == IF toBcd THEN Decimals ELSE Binary

(* What the registers hold after the first reset. *)
Init ==
  /\ toBcd \in BOOLEAN
  /\ A = 0 /\ init = FALSE /\ d_out = 0
  /\ state = "START" /\ count = 0
  /\ bcd = [k \in Pos |-> 0] /\ bin = 0
  /\ msb = [k \in Pos |-> FALSE] /\ cont = Bits /\ z \in BOOLEAN
  /\ opA = 0

-----------------------------------------------------------------------------
(* Rising edge. *)
Goto(s) == state' = s /\ UNCHANGED count

(* Only a reset clears the counter of END1. *)
Reset == state' = "START" /\ count' = 0

Start    == state = "START"     /\ Goto(IF init THEN "SHIFT_DEC" ELSE "START")
ShiftDec == state = "SHIFT_DEC" /\ Goto("CHECK")
Check    == state = "CHECK"     /\ Goto(IF z THEN "END1" ELSE "LOAD_A2")
LoadA2   == state = "LOAD_A2"   /\ Goto("ADD")
Add      == state = "ADD"       /\ Goto("SHIFT_DEC")

(* Mutant: an end flag held fifteen periods. *)
End1Long ==
  /\ state = "END1"
  /\ count' = (count + 1) % 16
  /\ state' = IF count' > 14 THEN "START" ELSE "END1"

End1 ==
  /\ state = "END1"
  /\ count' = (count + 1) % 16
  /\ state' = IF count' > DoneHold THEN "START" ELSE "END1"

-----------------------------------------------------------------------------
(* Control outputs, combinational in the state. *)
ld == state = "START"
sh == state = "SHIFT_DEC"
ld_msb == state \in {"SHIFT_DEC", "CHECK"}    \* and sel: the adders get 11
add == state = "LOAD_A2"
done == state = "END1"

result == IF toBcd THEN Join(bcd, 0) ELSE bin

(* Falling edge, the wrapper. *)
WriteRegisters(bus, rst) ==
  /\ A' = IF rst THEN 0 ELSE IF Writes(bus, "A") THEN bus.d ELSE A
  /\ init' = IF rst THEN FALSE
             ELSE IF Writes(bus, "INIT") THEN bus.d % 2 = 1 ELSE init
  /\ d_out' = IF rst THEN 0
              ELSE IF Selects(bus, "RESULT") THEN result
              ELSE IF Selects(bus, "DONE") THEN IF done' THEN 1 ELSE 0
              ELSE d_out

(* Falling edge, the shift register.  It may load the operand register     *)
(* before or after the wrapper writes it.                                  *)
Adjustment == IF toBcd THEN 3 ELSE 13

ShiftLeft ==
  /\ bcd' = [k \in Pos |-> (2 * bcd[k] + (IF k = 0 THEN bin \div 2^(Bits - 1)
                                          ELSE bcd[k - 1] \div 8)) % 16]
  /\ bin' = (2 * bin) % 2^Bits
ShiftRight ==
  /\ bcd' = [k \in Pos |-> bcd[k] \div 2
                           + (IF k = Digits - 1 THEN 0 ELSE 8 * (bcd[k + 1] % 2))]
  /\ bin' = bin \div 2 + (bcd[0] % 2) * 2^(Bits - 1)

ShiftRegister ==
  \/ /\ ld'
     /\ \E a \in Seen(A, A') :
          /\ opA' = a
          /\ bcd' = IF toBcd THEN [k \in Pos |-> 0] ELSE Split(a)
          /\ bin' = IF toBcd THEN a ELSE 0
  \/ sh' /\ (IF toBcd THEN ShiftLeft ELSE ShiftRight) /\ UNCHANGED opA
  \/ /\ add'
     /\ bcd' = [k \in Pos |-> IF msb[k] THEN bcd[k] ELSE (bcd[k] + Adjustment) % 16]
     /\ UNCHANGED <<bin, opA>>
  \/ ~ld' /\ ~sh' /\ ~add' /\ UNCHANGED <<bcd, bin, opA>>

SignBits ==
  msb' = IF ld' THEN [k \in Pos |-> FALSE]
         ELSE IF ld_msb' THEN [k \in Pos |-> (bcd[k] + 11) % 16 >= 8]
         ELSE msb

(* z is registered from the counter's value before this edge. *)
Iteration ==
  /\ cont' = IF ld' THEN Bits ELSE IF sh' THEN (cont - 1) % 32 ELSE cont
  /\ z' = (cont = 0)

-----------------------------------------------------------------------------
Period(bus, rst, fsm) ==
  /\ fsm /\ WriteRegisters(bus, rst) /\ ShiftRegister /\ SignBits /\ Iteration
  /\ UNCHANGED toBcd

ResetPeriod(bus) == Period(bus, TRUE, Reset)
RunPeriod(bus) ==
  \/ Period(bus, FALSE, Start)
  \/ Period(bus, FALSE, ShiftDec)
  \/ Period(bus, FALSE, Check)
  \/ Period(bus, FALSE, LoadA2)
  \/ Period(bus, FALSE, Add)
  \/ Period(bus, FALSE, End1)

Next == \E bus \in BusCycles({"A"}, Data[toBcd]) : RunPeriod(bus) \/ ResetPeriod(bus)

(* The clock never stops. *)
Spec == Init /\ [][Next]_vars /\ WF_vars(Next)

-----------------------------------------------------------------------------
TypeOK ==
  /\ A \in OpWord /\ init \in BOOLEAN /\ d_out \in OutWord
  /\ state \in States /\ count \in 0..15
  /\ bcd \in [Pos -> Nibble] /\ bin \in Binary /\ msb \in [Pos -> BOOLEAN]
  /\ cont \in 0..31 /\ z \in BOOLEAN /\ opA \in OpWord

RECURSIVE Decimal(_, _)
Decimal(d, k) == IF k = Digits THEN 0 ELSE d[k] * 10^k + Decimal(d, k + 1)
IsDecimal(d) == \A k \in Pos : d[k] <= 9

(* While `done` is high the result is the operand in the other radix: its  *)
(* decimal digits, or the low bits of the number its decimal digits spell. *)
ConvertedWhenDone ==
  done => IF toBcd
          THEN IsDecimal(bcd) /\ Decimal(bcd, 0) = opA
          ELSE IsDecimal(Split(opA)) => bin = Decimal(Split(opA), 0) % 2^Bits

(* Loop invariant: after each shift (to decimal), or each adjustment (to    *)
(* binary), the two halves hold decimal digits and together the operand.   *)
ConvertedSoFar ==
  IF toBcd
  THEN state = "CHECK" => IsDecimal(bcd) /\ Decimal(bcd, 0) = opA \div 2^cont
  ELSE state = "ADD" /\ IsDecimal(Split(opA)) =>
         /\ IsDecimal(bcd)
         /\ Decimal(Split(opA), 0) = Decimal(bcd, 0) * 2^(Bits - cont) + bin \div 2^cont
=============================================================================
