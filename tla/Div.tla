-------------------------------- MODULE Div --------------------------------
(***************************************************************************)
(* The restoring divider of the SoC with its bus wrapper (cores/div):      *)
(* perip_div.v around div.v.  One step is one rising edge; everything in   *)
(* these two files is clocked by it.  div.v mixes blocking and nonblocking *)
(* assignments: only the blocking ones can be seen early by the wrapper    *)
(* (Seen in PeriphBus).                                                    *)
(***************************************************************************)
EXTENDS PeriphBus

CONSTANTS
  Bits,      \* width of an operand register (16 in the code)
  P2,        \* the powers of two up to the width
  DoneHold,  \* END is left when count > DoneHold (29 in the code)
  PowerUp,   \* what a register without an initial value may hold at power-up
  Data       \* the values software writes into the operand registers

(* What the constants must be; module MCUnits assumes it of its values.    *)
ConstantsOK ==
  /\ Bits \in 1..31
  /\ P2 \in [0..Bits -> Nat] /\ P2[0] = 1
  /\ \A k \in 0..(Bits - 1) : P2[k + 1] = 2 * P2[k]
  /\ DoneHold \in 0..30
  /\ PowerUp \subseteq 0..(P2[Bits] - 1) /\ Data \subseteq 0..(P2[Bits] - 1)

Modulus == P2[Bits]
Half == P2[Bits - 1]      \* the weight of bit 15, the sign of A_minus_B
Word == 0..(Modulus - 1)
States == {"START", "START1", "SHIFT", "CHECK_GREATER", "CHECK_END", "END"}

VARIABLES
  A, B, init, d_out,            \* perip_div.v
  state, count, done, result,   \* div.v
  rem, quo,                     \* the halves A[31:16] and A[15:0] of div.v's A
  regB,                         \* div.v's B
  opA, opB                      \* history: the operands of the division

wrapper == <<A, B, init, d_out>>
divider == <<state, count, done, result, rem, quo, regB>>
vars == <<wrapper, divider, opA, opB>>

Init ==
  /\ A \in PowerUp /\ B \in PowerUp /\ init \in BOOLEAN
  /\ d_out \in PowerUp
  /\ state = "START"  \* no initial value in the code: zero on the FPGA, the
                      \* value the first reset gives it in simulation
  /\ count = 0 /\ done = FALSE /\ result = 0
  /\ rem \in PowerUp /\ quo \in PowerUp /\ regB \in PowerUp
  /\ opA = 0 /\ opB = 0

-----------------------------------------------------------------------------
(* The wrapper. *)

WriteRegisters(bus, rst) ==
  /\ A' = IF rst THEN 0 ELSE IF Writes(bus, "A") THEN bus.d ELSE A
  /\ B' = IF rst THEN 0 ELSE IF Writes(bus, "B") THEN bus.d ELSE B
  /\ init' = IF rst THEN FALSE
             ELSE IF Writes(bus, "INIT") THEN bus.d % 2 = 1 ELSE init

(* Only END raises done with a blocking assignment; START clears it with a *)
(* nonblocking one, and result with a blocking one.                        *)
ReadMux(bus, rst) ==
  \E seenDone \in (IF state = "END" THEN Seen(done, done') ELSE {done}),
     seenResult \in Seen(result, result') :
    d_out' = IF rst THEN 0
             ELSE IF Selects(bus, "RESULT") THEN seenResult
             ELSE IF Selects(bus, "DONE") THEN IF seenDone THEN 1 ELSE 0
             ELSE d_out

-----------------------------------------------------------------------------
(* The divider. *)

(* The asynchronous reset, taken at the edge it precedes. *)
Reset ==
  /\ state' = "START" /\ done' = FALSE /\ result' = 0
  /\ UNCHANGED <<count, rem, quo, regB, opA, opB>>

Start ==
  /\ state = "START"
  /\ count' = Bits /\ done' = FALSE /\ result' = 0
  /\ \E seenInit \in Seen(init, init') :
       state' = IF seenInit THEN "START1" ELSE "START"
  /\ UNCHANGED <<rem, quo, regB, opA, opB>>

(* The operands are sampled one edge after init was seen. *)
Start1 ==
  /\ state = "START1"
  /\ \E a \in Seen(A, A'), b \in Seen(B, B') :
       rem' = 0 /\ quo' = a /\ regB' = b /\ opA' = a /\ opB' = b
  /\ done' = FALSE /\ result' = 0 /\ state' = "SHIFT"
  /\ UNCHANGED count

Shift ==
  /\ state = "SHIFT"
  /\ rem' = (2 * rem + (quo \div Half)) % Modulus
  /\ quo' = (2 * quo) % Modulus
  /\ count' = (count - 1) % 32
  /\ done' = FALSE /\ state' = "CHECK_GREATER"
  /\ UNCHANGED <<result, regB, opA, opB>>

(* A[31:16] minus B as a 16-bit two's complement number. *)
AMinusB == (rem - regB) % Modulus

CheckGreater ==
  /\ state = "CHECK_GREATER"
  /\ IF AMinusB >= Half
     THEN rem' = rem /\ quo' = quo - (quo % 2)
     ELSE rem' = AMinusB /\ quo' = quo - (quo % 2) + 1
  /\ done' = FALSE /\ state' = "CHECK_END"
  /\ UNCHANGED <<count, result, regB, opA, opB>>

(* Mutant: the last quotient bit is left out. *)
CheckEndEarly ==
  /\ state = "CHECK_END"
  /\ IF count = 1 THEN result' = quo /\ state' = "END"
                  ELSE result' = result /\ state' = "SHIFT"
  /\ UNCHANGED <<count, done, rem, quo, regB, opA, opB>>

CheckEnd ==
  /\ state = "CHECK_END"
  /\ IF count = 0 THEN result' = quo /\ state' = "END"
                  ELSE result' = result /\ state' = "SHIFT"
  /\ UNCHANGED <<count, done, rem, quo, regB, opA, opB>>

(* Mutants: the end flag is held fifteen periods, or one. *)
EndHeld(n) ==
  /\ state = "END"
  /\ done' = TRUE
  /\ count' = (count + 1) % 32
  /\ state' = IF count' > n THEN "START" ELSE "END"
  /\ UNCHANGED <<result, rem, quo, regB, opA, opB>>
EndShort == EndHeld(14)
EndAtOnce == EndHeld(0)

End ==
  /\ state = "END"
  /\ done' = TRUE
  /\ count' = (count + 1) % 32
  /\ state' = IF count' > DoneHold THEN "START" ELSE "END"
  /\ UNCHANGED <<result, rem, quo, regB, opA, opB>>

-----------------------------------------------------------------------------
Edge(bus, rst, fsm) == WriteRegisters(bus, rst) /\ fsm /\ ReadMux(bus, rst)

ResetEdge(bus) == Edge(bus, TRUE, Reset)
RunEdge(bus) ==
  \/ Edge(bus, FALSE, Start)
  \/ Edge(bus, FALSE, Start1)
  \/ Edge(bus, FALSE, Shift)
  \/ Edge(bus, FALSE, CheckGreater)
  \/ Edge(bus, FALSE, CheckEnd)
  \/ Edge(bus, FALSE, End)

Next == \E bus \in BusCycles({"A", "B"}, Data) : RunEdge(bus) \/ ResetEdge(bus)

(* The clock never stops. *)
Spec == Init /\ [][Next]_vars /\ WF_vars(Next)

-----------------------------------------------------------------------------
TypeOK ==
  /\ A \in Word /\ B \in Word /\ init \in BOOLEAN /\ d_out \in Word \cup {0, 1}
  /\ state \in States /\ count \in 0..31 /\ done \in BOOLEAN
  /\ result \in Word /\ rem \in Word /\ quo \in Word /\ regB \in Word
  /\ opA \in Word /\ opB \in Word

(* The divisors the sign test of CHECK_GREATER can handle: not zero, and   *)
(* no larger than the weight of the sign bit.                              *)
Divisible == opB \in 1..Half

(* Whenever `done` is high for such a divisor, result is the integer       *)
(* quotient of the operands the division started from.                     *)
QuotientWhenDone == done /\ Divisible => result = opA \div opB

(* A division by zero is not detected: every trial subtraction succeeds    *)
(* until the remainder's sign bit is set, so the quotient bits are the     *)
(* negated bits that pass the remainder's top position, all ones when the  *)
(* dividend is below Half and Modulus - 2 otherwise.                       *)
DivideByZero ==
  done /\ opB = 0 => result = IF opA < Half THEN Modulus - 1 ELSE Modulus - 2
=============================================================================
