-------------------------------- MODULE Sqrt --------------------------------
(***************************************************************************)
(* The square-root unit of the SoC with its bus wrapper (cores/sqrt_ASM):  *)
(* perip_sqrt.v around sqrt.v = control + lsr2 + two lsr + addc2 + count.  *)
(*                                                                         *)
(* One step is one clock period: the control FSM moves at the rising edge, *)
(* its outputs are combinational, and the wrapper and the datapath move at *)
(* the following falling edge under them.                                  *)
(***************************************************************************)
EXTENDS PeriphBus

CONSTANTS
  Iter,      \* iterations, half the bits of the operand (8 in the code)
  P4,        \* the powers of four up to Iter
  DoneHold,  \* END1 is left when count > DoneHold (9 in the code)
  PowerUp,   \* what a register without an initial value may hold at power-up
  Data       \* the values software writes into the operand register

(* What the constants must be; module MCUnits assumes it of its values.    *)
ConstantsOK ==
  /\ Iter \in 1..15
  /\ P4 \in [0..Iter -> Nat] /\ P4[0] = 1
  /\ \A k \in 0..(Iter - 1) : P4[k + 1] = 4 * P4[k]
  /\ DoneHold \in 0..14
  /\ PowerUp \subseteq 0..(P4[Iter] - 1) /\ Data \subseteq 0..(P4[Iter] - 1)

Modulus == P4[Iter]
Half == 2 * P4[Iter - 1]     \* the weight of the sign bit
Word == 0..(Modulus - 1)
States == {"START", "SHIFT_DEC", "LOAD_TMP", "CHECK", "LOAD_A2", "CHECK_Z", "END1"}

VARIABLES
  A, init, d_out,        \* perip_sqrt.v
  state, count,          \* control.v
  rem, low,              \* the halves data[31:16] and data[15:0] of lsr2.v
  R, TMP,                \* the two lsr.v
  cont, z,               \* count.v
  opA                    \* history: the operand of the computation

vars == <<A, init, d_out, state, count, rem, low, R, TMP, cont, z, opA>>

Init ==
  /\ A \in PowerUp /\ d_out \in PowerUp
  /\ init = FALSE /\ state = "START" /\ count = 0
     \* none has an initial value in the code: zero on the FPGA, and what the
     \* first reset makes of them in simulation
  /\ rem \in PowerUp /\ low \in PowerUp /\ R \in PowerUp /\ TMP \in PowerUp
  /\ cont = Iter /\ z \in BOOLEAN
  /\ opA = 0

-----------------------------------------------------------------------------
(* Rising edge. *)

(* addc2.v: the trial subtraction of the root's next candidate.            *)
Trial == (rem - ((2 * TMP + 1) % Modulus)) % Modulus
msb == Trial >= Half

Goto(s) == state' = s /\ UNCHANGED count

(* Only a reset clears the counter of END1.                                *)
Reset == state' = "START" /\ count' = 0

Start    == state = "START"     /\ Goto(IF init THEN "SHIFT_DEC" ELSE "START")
ShiftDec == state = "SHIFT_DEC" /\ Goto("LOAD_TMP")
LoadTmp  == state = "LOAD_TMP"  /\ Goto("CHECK")
Check    == state = "CHECK"     /\ Goto(IF msb THEN "CHECK_Z" ELSE "LOAD_A2")
LoadA2   == state = "LOAD_A2"   /\ Goto("CHECK_Z")
CheckZ   == state = "CHECK_Z"   /\ Goto(IF z THEN "END1" ELSE "SHIFT_DEC")

End1 ==
  /\ state = "END1"
  /\ count' = (count + 1) % 16
  /\ state' = IF count' > DoneHold THEN "START" ELSE "END1"

-----------------------------------------------------------------------------
(* Control outputs, combinational in the state. *)
ld == state = "START"
sh == state = "SHIFT_DEC"
ld_tmp == state = "LOAD_TMP"
lda2 == state = "LOAD_A2"
done == state = "END1"

(* Falling edge, the wrapper. *)
WriteRegisters(bus, rst) ==
  /\ A' = IF rst THEN 0 ELSE IF Writes(bus, "A") THEN bus.d ELSE A
  /\ init' = IF rst THEN FALSE
             ELSE IF Writes(bus, "INIT") THEN bus.d % 2 = 1 ELSE init
  /\ d_out' = IF rst THEN 0
              ELSE IF Selects(bus, "RESULT") THEN R
              ELSE IF Selects(bus, "DONE") THEN IF done' THEN 1 ELSE 0
              ELSE d_out

(* Falling edge, the datapath; lsr2 may load the operand register before or *)
(* after the wrapper writes it.                                            *)
Remainder ==
  \E a \in Seen(A, A') :
    /\ rem' = IF ld' THEN 0
              ELSE IF lda2' THEN Trial
              ELSE IF sh' THEN (4 * rem + (low \div P4[Iter - 1])) % Modulus
              ELSE rem
    /\ low' = IF ld' THEN a ELSE IF sh' THEN (4 * low) % Modulus ELSE low
    /\ opA' = IF ld' THEN a ELSE opA

Root ==
  /\ R' = IF ld' THEN 0
          ELSE IF lda2' THEN R - (R % 2) + 1
          ELSE IF sh' THEN (2 * R) % Modulus ELSE R
  /\ TMP' = IF ld' THEN 0 ELSE IF ld_tmp' THEN R ELSE TMP

(* Mutant: a counter that is never decremented. *)
IterationStuck == cont' = (IF ld' THEN Iter ELSE cont) /\ z' = (cont = 0)

(* z is registered from the counter's value before this edge.              *)
Iteration ==
  /\ cont' = IF ld' THEN Iter ELSE IF sh' THEN (cont - 1) % 16 ELSE cont
  /\ z' = (cont = 0)

-----------------------------------------------------------------------------
Period(bus, rst, fsm) ==
  fsm /\ WriteRegisters(bus, rst) /\ Remainder /\ Root /\ Iteration

ResetPeriod(bus) == Period(bus, TRUE, Reset)
RunPeriod(bus) ==
  \/ Period(bus, FALSE, Start)
  \/ Period(bus, FALSE, ShiftDec)
  \/ Period(bus, FALSE, LoadTmp)
  \/ Period(bus, FALSE, Check)
  \/ Period(bus, FALSE, LoadA2)
  \/ Period(bus, FALSE, CheckZ)
  \/ Period(bus, FALSE, End1)

Next == \E bus \in BusCycles({"A"}, Data) : RunPeriod(bus) \/ ResetPeriod(bus)

(* The clock never stops. *)
Spec == Init /\ [][Next]_vars /\ WF_vars(Next)

-----------------------------------------------------------------------------
TypeOK ==
  /\ A \in Word /\ init \in BOOLEAN /\ d_out \in Word
  /\ state \in States /\ count \in 0..15
  /\ rem \in Word /\ low \in Word /\ R \in Word /\ TMP \in Word
  /\ cont \in 0..15 /\ z \in BOOLEAN /\ opA \in Word

(* While `done` is high the result is the integer square root of the       *)
(* operand loaded when the computation started.                            *)
RootWhenDone == done => R * R <= opA /\ opA < (R + 1) * (R + 1)

(* Loop invariant: what has been shifted out of the operand is the square  *)
(* of the root found so far plus the remainder.                            *)
Consumed == opA \div P4[cont]
RootSoFar ==
  /\ state = "CHECK_Z" =>
       /\ cont \in 0..(Iter - 1)
       /\ R * R + rem = Consumed /\ rem <= 2 * R
  /\ state = "END1" => cont = 0 /\ R * R + rem = opA /\ rem <= 2 * R
=============================================================================
