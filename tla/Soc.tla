-------------------------------- MODULE Soc --------------------------------
(***************************************************************************)
(* SOC.v: the processor, one driver of firmware/asm and the arithmetic     *)
(* peripherals, cycle by cycle and at the real sizes.                      *)
(*                                                                         *)
(* One step is one clock period.  The processor, the multiplier and the    *)
(* divider move at the rising edge; the square root and the converters     *)
(* have their wrappers at the falling edge, so they see the outputs the    *)
(* processor has from this rising edge and it sees theirs at the next one. *)
(***************************************************************************)
EXTENDS SocCpu, FiniteSets

CONSTANT Simulated   \* see PeriphBus

VARIABLES
  mA, mB, minit, mout, mfsm, mcount, mdone, msh, mreset, madd, msA, msB, mpp,
  mopA, mopB,
  dA, dB, dinit, dout, dfsm, dcount, ddone, dresult, drem, dquo, dregB, dopA, dopB,
  rA, rinit, rout, rfsm, rcount, rrem, rlow, rR, rTMP, rcont, rz, ropA,
  reset,   \* the net SOC.v names at the converters' reset ports
  toBcd, bA, binit, bout, bfsm, bcount, bbcd, bbin, bmsb, bcont, bz, bopA

(* The product of two 16-bit operands is beyond TLC's integers: 15 bits.    *)
MSize == 32768
Mul == INSTANCE Mult32 WITH Size <- MSize, DoneHold <- 14, PowerUp <- {0}, Data <- {0},
  A <- mA, B <- mB, init <- minit, d_out <- mout, state <- mfsm, count <- mcount,
  done <- mdone, sh <- msh, reset <- mreset, add <- madd, sA <- msA, sB <- msB,
  pp <- mpp, opA <- mopA, opB <- mopB

PowersOfTwo == [k \in 0..16 |-> 2^k]
DivU == INSTANCE Div WITH Bits <- 16, P2 <- PowersOfTwo, DoneHold <- 29,
  PowerUp <- {0}, Data <- {0},
  A <- dA, B <- dB, init <- dinit, d_out <- dout, state <- dfsm, count <- dcount,
  done <- ddone, result <- dresult, rem <- drem, quo <- dquo, regB <- dregB,
  opA <- dopA, opB <- dopB

PowersOfFour == [k \in 0..8 |-> 4^k]
Root == INSTANCE Sqrt WITH Iter <- 8, P4 <- PowersOfFour, DoneHold <- 9,
  PowerUp <- {0}, Data <- {0},
  A <- rA, init <- rinit, d_out <- rout, state <- rfsm, count <- rcount, rem <- rrem,
  low <- rlow, R <- rR, TMP <- rTMP, cont <- rcont, z <- rz, opA <- ropA

(* One instance stands for both converters: the firmware calls one of them. *)
Conv == INSTANCE Bcd WITH Bits <- 16, Digits <- 5, DoneHold <- 9,
  Data <- [b \in BOOLEAN |-> {0}],
  A <- bA, init <- binit, d_out <- bout, state <- bfsm, count <- bcount, bcd <- bbcd,
  bin <- bbin, msb <- bmsb, cont <- bcont, z <- bz, opA <- bopA

vars == <<cpu, Mul!vars, DivU!vars, Root!vars, Conv!vars, reset>>

Init ==
  /\ CpuInit
  /\ Mul!Init /\ ~minit /\ mcount = 0
  /\ DivU!Init /\ ~dinit
  /\ Root!Init /\ ~rz
  /\ Conv!Init /\ ~bz /\ toBcd = (driver = "bin2bcd")
  /\ reset \in (IF driver \in {"bin2bcd", "bcd2bin"} THEN BOOLEAN ELSE {FALSE})

-----------------------------------------------------------------------------
Multiplier == Mul!RunPeriod(UnitBus("mult", MSize))
Divider == DivU!RunEdge(UnitBus("div", 65536))
SquareRoot == Root!RunPeriod(UnitBus("sqrt", 65536)')

(* Nothing declares or drives the net behind the converters' reset: what    *)
(* the synthesised circuit sees is the choice of the tools, a reset that   *)
(* never ends or none at all (its registers then power up cleared).        *)
Converter ==
  LET bus == IF toBcd THEN UnitBus("bin2bcd", 65536)' ELSE UnitBus("bcd2bin", 1048576)'
  IN  IF reset THEN Conv!ResetPeriod(bus) ELSE Conv!RunPeriod(bus)

(* What the read multiplexer may show the processor at the rising edge.    *)
Shown ==
  [u \in Units |->
     CASE u = "mult" -> Mul!Seen(mout, mout')
       [] u = "div" -> DivU!Seen(dout, dout')
       [] u = "sqrt" -> {rout}
       [] OTHER -> {bout}]

Period ==
  /\ Multiplier /\ Divider
  /\ CpuEdge(Shown)
  /\ SquareRoot /\ Converter
  /\ UNCHANGED reset

Next == Period

(* The clock never stops. *)
Spec == Init /\ [][Next]_vars /\ WF_vars(Next)

-----------------------------------------------------------------------------
Result == registerFile[a0]

(* mult_hw returns the product of its arguments. *)
ReturnsProduct == Returned /\ driver = "mult" => Result = argA * argB

(* It never returns anything but the product, or the zero of a cleared     *)
(* accumulator: no partial product, no product of an earlier call.         *)
ProductOrCleared ==
  Returned /\ driver = "mult" => Result \in {argA * argB, 0}

(* What decides between the two.  The driver samples `done` every thirteen  *)
(* cycles and the result ten cycles after a sample that was high; the unit *)
(* holds them for fifteen.  So the call succeeds exactly when the unit     *)
(* finishes in one of five of the thirteen phases of the poll loop, and    *)
(* the length and the weight of the multiplier decide the phase.           *)
BitLength(b) == Cardinality({k \in 0..(XBits - 1) : 2^k <= b})
Weight(b) == Cardinality({k \in 0..(XBits - 1) : (b \div 2^k) % 2 = 1})
PhaseDecides ==
  Returned /\ driver = "mult" =>
    (Result = argA * argB <=>
       \/ (2 * BitLength(argB) + Weight(argB)) % 13 \in 2..6
       \/ argA * argB = 0)

(* div_hw returns the quotient of its arguments, for every divisor the sign *)
(* test handles: the thirty periods of the end flag cover one turn of the  *)
(* poll loop and the way from the sample to the result, and they are over  *)
(* before the tightest caller starts the next division.                    *)
ReturnsQuotient ==
  Returned /\ driver = "div" /\ argB \in 1..32768 => Result = argA \div argB

(* sqrt_hw never returns anything but the root of its argument, or the zero *)
(* of a cleared root register.                                             *)
RootOrCleared ==
  Returned /\ driver = "sqrt" =>
    \/ Result * Result <= argA /\ argA < (Result + 1) * (Result + 1)
    \/ Result = 0

(* The converters' drivers never return a conversion.  A converter takes    *)
(* the same number of cycles for every operand, so the poll loop always    *)
(* meets the end flag in the same phase, and in that one the result is     *)
(* already cleared when the driver reads it, ten cycles after the sample.  *)
(* One that is held in reset does not answer at all.                       *)
AlwaysLate ==
  Returned /\ driver \in {"bin2bcd", "bcd2bin"} =>
    Result = 0 /\ bfsm = "START" /\ ~reset

(* Every call of mult_hw and div_hw returns: the poll loop meets the end    *)
(* flag.                                                                   *)
CallReturns == (InDriver /\ driver \in {"mult", "div"}) ~> Returned

(* So does every call of sqrt_hw. *)
RootCallReturns == (InDriver /\ driver = "sqrt") ~> Returned
=============================================================================
