------------------------------ MODULE MCUnits ------------------------------
(* The arithmetic units of the SoC, one of them chosen when a behaviour    *)
(* starts; the others stand still.  Operands of two bits for the           *)
(* multiplier, three for the divider, six for the square root; nine bits   *)
(* and three digits for the converters, where as in the code every binary  *)
(* number has its decimal digits and some decimal numbers are too large    *)
(* for the binary half.                                                    *)
EXTENDS Mult32

VARIABLES
  which,
  dA, dB, dInit, dOut, dState, dCount, dDone, dResult, dRem, dQuo, dRegB, dOpA, dOpB,
  rA, rInit, rOut, rState, rCount, rRem, rLow, rR, rTMP, rCont, rZ, rOpA,
  toBcd, cA, cInit, cOut, cState, cCount, cBcd, cBin, cMsb, cCont, cZ, cOpA

divider32 == <<dA, dB, dInit, dOut, dState, dCount, dDone, dResult, dRem, dQuo, dRegB,
               dOpA, dOpB>>
squareRoot == <<rA, rInit, rOut, rState, rCount, rRem, rLow, rR, rTMP, rCont, rZ, rOpA>>
converter == <<toBcd, cA, cInit, cOut, cState, cCount, cBcd, cBin, cMsb, cCont, cZ, cOpA>>
units == <<vars, divider32, squareRoot, converter, which>>

MCData == {0, 1, Size - 1}
MCPowerUp == {0, Size - 1}

(* Zero, a divisor, the largest divisor the sign test can handle, and one  *)
(* that is too large for it.                                               *)
D == INSTANCE Div WITH
  Bits <- 3, P2 <- [k \in 0..3 |-> 2^k], PowerUp <- {0}, Data <- {0, 3, 4, 7},
  A <- dA, B <- dB, init <- dInit, d_out <- dOut, state <- dState, count <- dCount,
  done <- dDone, result <- dResult, rem <- dRem, quo <- dQuo, regB <- dRegB,
  opA <- dOpA, opB <- dOpB

(* A perfect square, its neighbour and the largest number. *)
S == INSTANCE Sqrt WITH
  Iter <- 3, P4 <- [k \in 0..3 |-> 4^k], PowerUp <- {0}, Data <- {35, 36, 63},
  A <- rA, init <- rInit, d_out <- rOut, state <- rState, count <- rCount, rem <- rRem,
  low <- rLow, R <- rR, TMP <- rTMP, cont <- rCont, z <- rZ, opA <- rOpA

(* 511 in binary, 999 digit by digit; a reset writes the operand 0. *)
C == INSTANCE Bcd WITH
  Bits <- 9, Digits <- 3, Data <- [b \in BOOLEAN |-> IF b THEN {511} ELSE {2457}],
  A <- cA, init <- cInit, d_out <- cOut, state <- cState, count <- cCount, bcd <- cBcd,
  bin <- cBin, msb <- cMsb, cont <- cCont, z <- cZ, opA <- cOpA

ASSUME DividerConstants == D!ConstantsOK
ASSUME RootConstants == S!ConstantsOK

(* A unit that stands still has its registers at zero. *)
MCInit ==
  /\ which \in {"mult", "div", "sqrt", "bcd"}
  /\ Init /\ D!Init /\ S!Init /\ C!Init
  /\ which # "mult" => A = 0 /\ B = 0 /\ ~init /\ d_out = 0 /\ count = 0 /\ sA = 0 /\ sB = 0
  /\ which # "div" => ~dInit
  /\ which # "sqrt" => ~rZ
  /\ which # "bcd" => toBcd /\ ~cZ

MCNext ==
  /\ \/ which = "mult" /\ Next /\ UNCHANGED <<divider32, squareRoot, converter>>
     \/ which = "div" /\ D!Next /\ UNCHANGED <<vars, squareRoot, converter>>
     \/ which = "sqrt" /\ S!Next /\ UNCHANGED <<vars, divider32, converter>>
     \/ which = "bcd" /\ C!Next /\ UNCHANGED <<vars, divider32, squareRoot>>
  /\ UNCHANGED which
MCSpec == MCInit /\ [][MCNext]_units /\ WF_units(MCNext)

-----------------------------------------------------------------------------
(* The result registers, whenever a unit announces its result: the product *)
(* is ProductWhenDone of Mult32.                                           *)

(* The divider (div.v): the quotient of the operands it sampled, and what  *)
(* a division by zero leaves; the square root: the integer root of the     *)
(* operand it loaded; the converters: the operand in the other radix.      *)
ResultsWhenDone ==
  /\ D!QuotientWhenDone /\ D!DivideByZero
  /\ S!RootWhenDone
  /\ C!ConvertedWhenDone

(* Registers keep their widths, and the loops their invariants: the        *)
(* partial product, the square of the root found so far plus the           *)
(* remainder, the two halves of a conversion.                              *)
UnitsInv ==
  /\ C!ConvertedSoFar /\ C!TypeOK
  /\ IInv
  /\ D!TypeOK
  /\ S!TypeOK /\ S!RootSoFar

(* Every computation that starts is finished or reset: Completes of the    *)
(* four units, for the one that runs.                                      *)
Running ==
  \/ which = "mult" /\ state = "CHECK"
  \/ which = "div" /\ dState = "SHIFT"
  \/ which = "sqrt" /\ rState = "SHIFT_DEC"
  \/ which = "bcd" /\ cState = "SHIFT_DEC"
Resting ==
  \/ which = "mult" /\ state \in {"END", "START"}
  \/ which = "div" /\ dState \in {"END", "START"}
  \/ which = "sqrt" /\ rState \in {"END1", "START"}
  \/ which = "bcd" /\ cState \in {"END1", "START"}
EveryUnitCompletes == Running ~> Resting
=============================================================================
