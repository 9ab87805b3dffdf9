---------------------------- MODULE Mult32Proofs ----------------------------
(***************************************************************************)
(* The multiplier returns the exact product, for every operand width, every*)
(* read-out window and every behaviour of software and of the reset line.  *)
(***************************************************************************)
EXTENDS Mult32, TLAPS

(* Halving a register: what comp.v and rsr.v make of an operand. *)
LEMMA Halving ==
  ASSUME NEW n \in Nat
  PROVE  /\ n \div 2 \in Nat /\ n \div 2 <= n
         /\ n % 2 \in {0, 1}
         /\ n = 2 * (n \div 2) + (n % 2)
BY SMT

(* A register of m values keeps a number that fits. *)
LEMMA Truncation ==
  ASSUME NEW n \in Nat, NEW m \in Nat, m > 0
  PROVE  /\ n % m \in 0..(m - 1)
         /\ n < m => n % m = n
BY SMT

LEMMA TimesAtLeastOne ==
  ASSUME NEW x \in Nat, NEW y \in Nat, y >= 1
  PROVE  x <= x * y
BY SMT

LEMMA Monotone ==
  ASSUME NEW a \in Nat, NEW b \in Nat, NEW m \in Nat, a <= m, b <= m
  PROVE  a * b <= m * m
<1>1. a * b <= m * b BY SMT
<1>2. m * b <= m * m BY SMT
<1>3. a * b \in Nat /\ m * b \in Nat /\ m * m \in Nat BY SMT
<1>4. QED BY <1>1, <1>2, <1>3, SMT

(* The product of two operands fits in the accumulator. *)
LEMMA ProductFits ==
  ASSUME NEW a \in Word, NEW b \in Word
  PROVE  a * b \in Nat /\ a * b < DSize
<1>1. a \in Nat /\ b \in Nat /\ a <= Size - 1 /\ b <= Size - 1 /\ Size - 1 \in Nat
  BY SizeAssumption DEF Word
<1>2. a * b <= (Size - 1) * (Size - 1) BY <1>1, Monotone
<1>3. (Size - 1) * (Size - 1) = Size * Size - 2 * Size + 1 BY SizeAssumption, SMT
<1>4. Size * Size \in Nat /\ a * b \in Nat BY <1>1, SizeAssumption, SMT
<1>5. QED BY <1>2, <1>3, <1>4, SizeAssumption, SMT DEF DSize

LEMMA WordInDWord == Word \subseteq DWord /\ DSize \in Nat /\ DSize > 1 /\ 0 \in Word /\ 1 \in Word
<1>1. Size <= Size * Size BY SizeAssumption, TimesAtLeastOne
<1>2. QED BY <1>1, SizeAssumption, SMT DEF Word, DWord, DSize

-----------------------------------------------------------------------------
(* Types. *)

(* A bus cycle never carries more than an operand register holds. *)
LEMMA BusData ==
  ASSUME NEW bus \in BusCycles({"A", "B"}, Data)
  PROVE  bus.d \in Word
<1>1. Data \subseteq Word BY DataAssumption DEF Word
<1>2. QED BY <1>1, WordInDWord DEF BusCycles, Idle, Load, Store

LEMMA WrapperTypes ==
  ASSUME TypeOK, NEW bus \in BusCycles({"A", "B"}, Data), NEW rst \in BOOLEAN,
         WriteRegisters(bus, rst)
  PROVE  A' \in Word /\ B' \in Word /\ init' \in BOOLEAN
<1>1. bus.d \in Word /\ 0 \in Word BY BusData, WordInDWord
<1>2. QED BY <1>1 DEF TypeOK, WriteRegisters

LEMMA DatapathTypes ==
  ASSUME TypeOK, A' \in Word, B' \in Word, ShiftA, ShiftB, Accumulate, LoadOperands
  PROVE  /\ sA' \in DWord /\ sB' \in Word /\ pp' \in DWord
         /\ opA' \in Word /\ opB' \in Word
<1>1. sA \in Nat /\ pp \in Nat /\ sB \in Nat /\ 2 * sA \in Nat /\ pp + sA \in Nat
  BY SizeAssumption, WordInDWord DEF TypeOK, DWord, Word
<1>2. (2 * sA) % DSize \in DWord /\ (pp + sA) % DSize \in DWord
  BY <1>1, Truncation, WordInDWord DEF DWord
<1>3. sB \div 2 \in Word
  <2>1. sB \div 2 \in Nat /\ sB \div 2 <= sB BY <1>1, Halving
  <2>2. QED BY <2>1, SizeAssumption, SMT DEF TypeOK, Word
<1>4. A' \in DWord /\ 0 \in DWord BY WordInDWord
<1>5. sA' \in DWord BY <1>2, <1>4 DEF ShiftA, TypeOK
<1>6. sB' \in Word BY <1>3 DEF ShiftB, TypeOK
<1>7. pp' \in DWord BY <1>2, <1>4 DEF Accumulate, TypeOK
<1>8. QED BY <1>5, <1>6, <1>7 DEF LoadOperands, TypeOK

LEMMA ReadMuxTypes ==
  ASSUME TypeOK, NEW bus \in BusCycles({"A", "B"}, Data), NEW rst \in BOOLEAN, ReadMux(bus, rst)
  PROVE  d_out' \in DWord
BY WordInDWord DEF TypeOK, ReadMux, Seen

(* What a clock period does to the control registers, one case per FSM state. *)
ControlStep ==
  \/ Reset \/ Start \/ Check \/ Add \/ Shift \/ End

LEMMA ControlTypes ==
  ASSUME TypeOK, init' \in BOOLEAN, ControlStep
  PROVE  /\ state' \in States /\ count' \in 0..15
         /\ done' \in BOOLEAN /\ sh' \in BOOLEAN
         /\ reset' \in BOOLEAN /\ add' \in BOOLEAN
<1>1. CASE Reset BY <1>1 DEF Reset, TypeOK, States
<1>2. CASE Start
  <2>1. state' \in States BY <1>2, Zenon DEF Start, States, Seen
  <2>2. count' \in 0..15 BY <1>2, SMT DEF Start
  <2>3. done' \in BOOLEAN /\ sh' \in BOOLEAN /\ reset' \in BOOLEAN /\ add' \in BOOLEAN
    BY <1>2, Zenon DEF Start, Drive
  <2>4. QED BY <2>1, <2>2, <2>3, Zenon
<1>3. CASE Check BY <1>3 DEF Check, Drive, TypeOK, States
<1>4. CASE Add BY <1>4 DEF Add, Drive, TypeOK, States
<1>5. CASE Shift BY <1>5 DEF Shift, Drive, TypeOK, States
<1>6. CASE End
  <2>1. count' \in 0..15
    <3>1. count' = (count + 1) % 16 /\ count + 1 \in Nat BY <1>6 DEF End, TypeOK
    <3>2. QED BY <3>1, Truncation
  <2>2. QED BY <1>6, <2>1 DEF End, Drive, TypeOK, States
<1>7. QED BY <1>1, <1>2, <1>3, <1>4, <1>5, <1>6 DEF ControlStep

(* A step of the specification is a period of one of the six kinds. *)
LEMMA NextIsPeriod ==
  ASSUME Next
  PROVE  \E bus \in BusCycles({"A", "B"}, Data), rst \in BOOLEAN :
           /\ WriteRegisters(bus, rst) /\ ReadMux(bus, rst)
           /\ ControlStep
           /\ ShiftA /\ ShiftB /\ Accumulate /\ LoadOperands
BY DEF Next, RunPeriod, ResetPeriod, Period, ControlStep

LEMMA InitTypes == Init => TypeOK
<1>1. PowerUp \subseteq Word /\ PowerUp \subseteq DWord /\ 0 \in DWord
  BY DataAssumption, WordInDWord DEF Word
<1> SUFFICES ASSUME Init PROVE TypeOK OBVIOUS
<1>2. A \in Word /\ B \in Word /\ d_out \in DWord /\ sA \in DWord /\ sB \in Word
      /\ opA \in Word /\ opB \in Word /\ pp \in DWord /\ count \in 0..15
  BY <1>1 DEF Init
<1>3. state \in States /\ init \in BOOLEAN /\ done \in BOOLEAN /\ sh \in BOOLEAN
      /\ reset \in BOOLEAN /\ add \in BOOLEAN
  BY DEF Init, States
<1>4. QED BY <1>2, <1>3 DEF TypeOK

LEMMA StepTypes == TypeOK /\ [Next]_vars => TypeOK'
<1> SUFFICES ASSUME TypeOK, [Next]_vars PROVE TypeOK' OBVIOUS
<1>1. CASE UNCHANGED vars
  BY <1>1 DEF TypeOK, vars, wrapper, control, datapath
<1>2. CASE Next
  <2>1. PICK bus \in BusCycles({"A", "B"}, Data), rst \in BOOLEAN :
           /\ WriteRegisters(bus, rst) /\ ReadMux(bus, rst)
           /\ ControlStep
           /\ ShiftA /\ ShiftB /\ Accumulate /\ LoadOperands
    BY <1>2, NextIsPeriod
  <2>2. A' \in Word /\ B' \in Word /\ init' \in BOOLEAN BY <2>1, WrapperTypes
  <2>3. d_out' \in DWord BY <2>1, ReadMuxTypes
  <2>4. /\ state' \in States /\ count' \in 0..15
        /\ done' \in BOOLEAN /\ sh' \in BOOLEAN
        /\ reset' \in BOOLEAN /\ add' \in BOOLEAN
    BY <2>1, <2>2, ControlTypes
  <2>5. /\ sA' \in DWord /\ sB' \in Word /\ pp' \in DWord
        /\ opA' \in Word /\ opB' \in Word
    BY <2>1, <2>2, DatapathTypes
  <2>6. QED BY <2>2, <2>3, <2>4, <2>5 DEF TypeOK
<1>3. QED BY <1>1, <1>2

(* Every register keeps its width in every reachable state, for every       *)
(* operand width: no step of the wrapper, the FSM or the datapath escapes it.*)
THEOREM TypeCorrect == Spec => []TypeOK
BY InitTypes, StepTypes, PTL DEF Spec

-----------------------------------------------------------------------------
(* The product. *)

(* A datapath period in which the FSM drives exactly one control line. *)
DatapathStep == ShiftA /\ ShiftB /\ Accumulate /\ LoadOperands

LEMMA ResetKeeps ==
  ASSUME IInv, Reset, DatapathStep
  PROVE  Remaining' /\ DoneAlone' /\ ProductWhenDone'
<1>1. Remaining' BY DEF Reset, Remaining
<1>2. DoneAlone' BY DEF Reset, IInv, DoneAlone
<1>3. ProductWhenDone'
  <2> SUFFICES ASSUME done' PROVE pp' = opA' * opB' BY DEF ProductWhenDone
  <2>1. done /\ ~sh' /\ ~reset' /\ ~add' BY DEF Reset, IInv, DoneAlone
  <2>2. pp' = pp /\ opA' = opA /\ opB' = opB
    BY <2>1 DEF DatapathStep, Accumulate, LoadOperands
  <2>3. QED BY <2>1, <2>2 DEF IInv, ProductWhenDone
<1>4. QED BY <1>1, <1>2, <1>3

LEMMA StartKeeps ==
  ASSUME IInv, Start, DatapathStep, A' \in Word, B' \in Word
  PROVE  Remaining' /\ DoneAlone' /\ ProductWhenDone'
<1>1. ~done' /\ reset' /\ state' \in {"START", "CHECK"} BY DEF Start, Drive, Seen
<1>2. pp' = 0 /\ sA' = opA' /\ sB' = opB' /\ opA' = A' /\ opB' = B'
  BY <1>1 DEF DatapathStep, ShiftA, ShiftB, Accumulate, LoadOperands
<1>3. pp' + sA' * sB' = opA' * opB'
  BY <1>2, ProductFits
<1>4. QED BY <1>1, <1>3 DEF Remaining, DoneAlone, ProductWhenDone

LEMMA CheckKeeps ==
  ASSUME IInv, Check, DatapathStep
  PROVE  Remaining' /\ DoneAlone' /\ ProductWhenDone'
<1>1. /\ ~done' /\ ~reset' /\ ~sh' /\ ~add'
      /\ state' = IF sB % 2 = 1 THEN "ADD" ELSE "SHIFT"
  BY DEF Check, Drive
<1>2. sA' = sA /\ sB' = sB /\ pp' = pp /\ opA' = opA /\ opB' = opB
  BY <1>1 DEF DatapathStep, ShiftA, ShiftB, Accumulate, LoadOperands
<1>3. pp + sA * sB = opA * opB BY DEF Check, IInv, Remaining
<1>4. sB % 2 # 1 => 2 * (sB \div 2) = sB
  BY Halving, SizeAssumption, SMT DEF IInv, TypeOK, Word
<1>5. sB % 2 # 1 => pp + sA * (2 * (sB \div 2)) = opA * opB BY <1>3, <1>4
<1>6. Remaining' BY <1>1, <1>2, <1>3, <1>5 DEF Remaining
<1>7. QED BY <1>1, <1>6 DEF DoneAlone, ProductWhenDone

LEMMA AddKeeps ==
  ASSUME IInv, Add, DatapathStep
  PROVE  Remaining' /\ DoneAlone' /\ ProductWhenDone'
<1> DEFINE h == sB \div 2
<1>1. ~done' /\ ~reset' /\ ~sh' /\ add' /\ state' = "SHIFT" BY DEF Add, Drive
<1>2. sA' = sA /\ sB' = sB /\ pp' = (pp + sA) % DSize /\ opA' = opA /\ opB' = opB
  BY <1>1 DEF DatapathStep, ShiftA, ShiftB, Accumulate, LoadOperands
<1>3. pp + sA * sB = opA * opB /\ sB % 2 = 1 BY DEF Add, IInv, Remaining
<1>4. pp \in Nat /\ sA \in Nat /\ sB \in Nat /\ DSize \in Nat
  BY WordInDWord, SizeAssumption DEF IInv, TypeOK, DWord, Word
<1>5. h \in Nat /\ sB = 2 * h + 1 BY <1>3, <1>4, Halving
<1>6. sA * sB = sA + sA * (2 * h) BY <1>4, <1>5, SMT
<1>7. sA * (2 * h) \in Nat BY <1>4, <1>5, SMT
<1>8. opA * opB \in Nat /\ opA * opB < DSize BY ProductFits DEF IInv, TypeOK
<1>9. (pp + sA) + sA * (2 * h) = opA * opB BY <1>3, <1>4, <1>6, <1>7, SMT
<1>10. pp + sA < DSize BY <1>4, <1>7, <1>8, <1>9, SMT
<1>11. pp' = pp + sA
  <2>1. pp + sA \in Nat BY <1>4
  <2>2. QED BY <2>1, <1>2, <1>4, <1>10, Truncation, WordInDWord
<1>12. pp' + sA' * (2 * (sB' \div 2)) = opA' * opB' BY <1>2, <1>9, <1>11
<1>13. QED BY <1>1, <1>12 DEF Remaining, DoneAlone, ProductWhenDone

LEMMA ShiftKeeps ==
  ASSUME IInv, Shift, DatapathStep
  PROVE  Remaining' /\ DoneAlone' /\ ProductWhenDone'
<1> DEFINE h == sB \div 2
<1>1. ~done' /\ ~reset' /\ sh' /\ ~add' /\ state' = IF sB = 0 THEN "END" ELSE "CHECK"
  BY DEF Shift, Drive
<1>2. sA' = (2 * sA) % DSize /\ sB' = h /\ pp' = pp /\ opA' = opA /\ opB' = opB
  BY <1>1 DEF DatapathStep, ShiftA, ShiftB, Accumulate, LoadOperands
<1>3. pp + sA * (2 * h) = opA * opB BY DEF Shift, IInv, Remaining
<1>4. pp \in Nat /\ sA \in Nat /\ sB \in Nat /\ DSize \in Nat /\ 2 * sA \in Nat
  BY WordInDWord, SizeAssumption DEF IInv, TypeOK, DWord, Word
<1>5. h \in Nat /\ h <= sB BY <1>4, Halving
<1>6. opA * opB \in Nat /\ opA * opB < DSize BY ProductFits DEF IInv, TypeOK
<1>7. sA * (2 * h) = (2 * sA) * h BY <1>4, <1>5, SMT
<1>8. CASE h = 0
  <2>1. pp = opA * opB BY <1>3, <1>4, <1>8, SMT
  <2>2. sA' * sB' = 0
    <3>1. sA' \in Nat BY <1>2, <1>4, Truncation, WordInDWord
    <3>2. QED BY <3>1, <1>2, <1>8, SMT
  <2>3. pp' + sA' * sB' = opA' * opB' BY <2>1, <2>2, <1>2, <1>4
  <2>4. QED BY <1>1, <1>2, <2>1, <2>3 DEF Remaining, DoneAlone, ProductWhenDone
<1>9. CASE h # 0
  <2>1. 2 * sA <= (2 * sA) * h BY <1>4, <1>5, <1>9, TimesAtLeastOne
  <2>2. (2 * sA) * h \in Nat BY <1>4, <1>5, SMT
  <2>3. 2 * sA < DSize BY <2>1, <2>2, <1>3, <1>4, <1>6, <1>7, SMT
  <2>4. sA' = 2 * sA BY <2>3, <1>2, <1>4, Truncation, WordInDWord
  <2>5. pp' + sA' * sB' = opA' * opB' BY <2>4, <1>2, <1>3, <1>7
  <2>6. sB # 0 BY <1>4, <1>5, <1>9, SMT
  <2>7. QED BY <1>1, <2>5, <2>6 DEF Remaining, DoneAlone, ProductWhenDone
<1>10. QED BY <1>8, <1>9

LEMMA EndKeeps ==
  ASSUME IInv, End, DatapathStep
  PROVE  Remaining' /\ DoneAlone' /\ ProductWhenDone'
<1>1. ~reset' /\ ~sh' /\ ~add' /\ state' \in {"START", "END"} BY DEF End, Drive
<1>2. pp' = pp /\ opA' = opA /\ opB' = opB
  BY <1>1 DEF DatapathStep, Accumulate, LoadOperands
<1>3. pp = opA * opB BY DEF End, IInv, Remaining
<1>4. QED BY <1>1, <1>2, <1>3 DEF Remaining, DoneAlone, ProductWhenDone

LEMMA InitIInv == Init => IInv
<1> SUFFICES ASSUME Init PROVE IInv OBVIOUS
<1>1. TypeOK BY InitTypes
<1>2. QED BY <1>1 DEF Init, IInv, Remaining, DoneAlone, ProductWhenDone

LEMMA StepIInv == IInv /\ [Next]_vars => IInv'
<1> SUFFICES ASSUME IInv, [Next]_vars PROVE IInv' OBVIOUS
<1>1. TypeOK' BY StepTypes DEF IInv
<1>2. CASE UNCHANGED vars
  BY <1>1, <1>2 DEF IInv, Remaining, DoneAlone, ProductWhenDone,
                    vars, wrapper, control, datapath
<1>3. CASE Next
  <2>1. ControlStep /\ DatapathStep BY <1>3, NextIsPeriod DEF DatapathStep
  <2>2. A' \in Word /\ B' \in Word BY <1>1 DEF TypeOK
  <2>3. Remaining' /\ DoneAlone' /\ ProductWhenDone'
    BY <2>1, <2>2, ResetKeeps, StartKeeps, CheckKeeps, AddKeeps, ShiftKeeps, EndKeeps
    DEF ControlStep
  <2>4. QED BY <1>1, <2>3 DEF IInv
<1>4. QED BY <1>2, <1>3

(* The strengthened invariant that carries the partial product.            *)
THEOREM Inductive == Spec => []IInv
BY InitIInv, StepIInv, PTL DEF Spec

(* When the multiplier raises `done` the result register is the product of *)
(* the operands it loaded, for every width of the operands, every value of *)
(* them, and every reset and bus traffic while it ran.                     *)
THEOREM ProductCorrect == Spec => []ProductWhenDone
<1>1. IInv => ProductWhenDone BY DEF IInv
<1>2. QED BY <1>1, Inductive, PTL
=============================================================================
