------------------------------- MODULE Mult32 -------------------------------
(***************************************************************************)
(* The shift-and-add multiplier of the SoC with its bus wrapper            *)
(* (cores/mult_ASM): perip_mult.v around mult_32.v = control_mult + rsr +  *)
(* lsr_mult + acc + comp.                                                  *)
(*                                                                         *)
(* One step is one clock period: at the rising edge the wrapper's          *)
(* registers and the control FSM move, at the following falling edge the   *)
(* datapath registers move, seeing the outputs the FSM has just registered.*)
(*                                                                         *)
(* Both processes of the rising edge use blocking assignments, so whether  *)
(* the FSM sees the old or the new `init`, and the read multiplexer the old*)
(* or the new `done`, depends on the order a simulator runs them in: see   *)
(* Seen in PeriphBus.                                                      *)
(***************************************************************************)
EXTENDS PeriphBus

CONSTANTS
  Size,      \* number of values of an operand register (2^16 in the code)
  DoneHold,  \* END is left when count > DoneHold (14 in the code)
  PowerUp,   \* what a register without an initial value may hold at power-up
  Data       \* the values software writes into the operand registers

ASSUME SizeAssumption == Size \in Nat /\ Size > 1
ASSUME HoldAssumption == DoneHold \in 0..14
ASSUME DataAssumption ==
  /\ PowerUp \subseteq 0..(Size - 1)
  /\ Data \subseteq 0..(Size - 1)

Word == 0..(Size - 1)
DSize == Size * Size
DWord == 0..(DSize - 1)
States == {"START", "CHECK", "SHIFT", "ADD", "END"}

VARIABLES
  A, B, init, d_out,            \* perip_mult.v
  state, count,                 \* control_mult.v
  done, sh, reset, add,         \* its registered outputs
  sA, sB, pp,                   \* lsr_mult.v, rsr.v, acc.v
  opA, opB                      \* history: the operands last loaded

wrapper == <<A, B, init, d_out>>
control == <<state, count, done, sh, reset, add>>
datapath == <<sA, sB, pp>>
vars == <<wrapper, control, datapath, opA, opB>>

Init ==
  /\ A \in PowerUp /\ B \in PowerUp /\ init \in BOOLEAN
  /\ d_out \in PowerUp
  /\ state = "START" /\ count \in {0, 15}
  /\ done = FALSE /\ sh = FALSE /\ reset = FALSE /\ add = FALSE
  /\ sA \in PowerUp /\ sB \in PowerUp /\ pp = 0
  /\ opA = sA /\ opB = sB

-----------------------------------------------------------------------------
(* Rising edge, the wrapper. *)

WriteRegisters(bus, rst) ==
  /\ A' = IF rst THEN 0 ELSE IF Writes(bus, "A") THEN bus.d ELSE A
  /\ B' = IF rst THEN 0 ELSE IF Writes(bus, "B") THEN bus.d ELSE B
  /\ init' = IF rst THEN FALSE
             ELSE IF Writes(bus, "INIT") THEN bus.d % 2 = 1 ELSE init

(* The multiplexer is registered and keeps its value when the peripheral   *)
(* is not selected.                                                        *)
ReadMux(bus, rst) ==
  \E seenDone \in Seen(done, done') :
    d_out' = IF rst THEN 0
             ELSE IF Selects(bus, "RESULT") THEN pp
             ELSE IF Selects(bus, "DONE") THEN IF seenDone THEN 1 ELSE 0
             ELSE d_out

-----------------------------------------------------------------------------
(* Rising edge, the control FSM. *)

Drive(d, s, r, a) == done' = d /\ sh' = s /\ reset' = r /\ add' = a

(* A reset returns the FSM to START and leaves every output as it stands. *)
Reset == state' = "START" /\ UNCHANGED <<done, sh, reset, add, count>>

Start ==
  /\ state = "START"
  /\ Drive(FALSE, FALSE, TRUE, FALSE)
  /\ count' = 0
  /\ \E seenInit \in Seen(init, init') :
       state' = IF seenInit THEN "CHECK" ELSE "START"

Check ==
  /\ state = "CHECK"
  /\ Drive(FALSE, FALSE, FALSE, FALSE)
  /\ state' = IF sB % 2 = 1 THEN "ADD" ELSE "SHIFT"
  /\ UNCHANGED count

Add ==
  /\ state = "ADD"
  /\ Drive(FALSE, FALSE, FALSE, TRUE)
  /\ state' = "SHIFT"
  /\ UNCHANGED count

(* z is comp.v's comparator: it sees s_B before this period's shift. *)
Shift ==
  /\ state = "SHIFT"
  /\ Drive(FALSE, TRUE, FALSE, FALSE)
  /\ state' = IF sB = 0 THEN "END" ELSE "CHECK"
  /\ UNCHANGED count

(* Mutant: the datapath is left shifting under the end flag. *)
EndShifting ==
  /\ state = "END"
  /\ Drive(TRUE, TRUE, FALSE, FALSE)
  /\ count' = (count + 1) % 16
  /\ state' = IF count' > DoneHold THEN "START" ELSE "END"

(* Mutant: the end flag is held a period less. *)
EndHeld(n) ==
  /\ state = "END"
  /\ Drive(TRUE, FALSE, FALSE, FALSE)
  /\ count' = (count + 1) % 16
  /\ state' = IF count' > n THEN "START" ELSE "END"
EndOneLess == EndHeld(DoneHold - 1)

End ==
  /\ state = "END"
  /\ Drive(TRUE, FALSE, FALSE, FALSE)
  /\ count' = (count + 1) % 16
  /\ state' = IF count' > DoneHold THEN "START" ELSE "END"

-----------------------------------------------------------------------------
(* Falling edge, the datapath. *)

(* Mutant: an accumulator that keeps the previous product. *)
AccumulateUncleared == pp' = IF add' THEN (pp + sA) % DSize ELSE pp

ShiftA == sA' = IF reset' THEN A' ELSE IF sh' THEN (2 * sA) % DSize ELSE sA
ShiftB == sB' = IF reset' THEN B' ELSE IF sh' THEN sB \div 2 ELSE sB
Accumulate ==
  pp' = IF reset' THEN 0 ELSE IF add' THEN (pp + sA) % DSize ELSE pp

LoadOperands ==
  /\ opA' = IF reset' THEN A' ELSE opA
  /\ opB' = IF reset' THEN B' ELSE opB

-----------------------------------------------------------------------------
Period(bus, rst, fsm) ==
  /\ WriteRegisters(bus, rst)
  /\ fsm
  /\ ReadMux(bus, rst)
  /\ ShiftA /\ ShiftB /\ Accumulate
  /\ LoadOperands

ResetPeriod(bus) == Period(bus, TRUE, Reset)
RunPeriod(bus) ==
  \/ Period(bus, FALSE, Start)
  \/ Period(bus, FALSE, Check)
  \/ Period(bus, FALSE, Add)
  \/ Period(bus, FALSE, Shift)
  \/ Period(bus, FALSE, End)

Next == \E bus \in BusCycles({"A", "B"}, Data) : RunPeriod(bus) \/ ResetPeriod(bus)

(* The clock never stops. *)
Spec == Init /\ [][Next]_vars /\ WF_vars(Next)

-----------------------------------------------------------------------------
TypeOK ==
  /\ A \in Word /\ B \in Word /\ init \in BOOLEAN /\ d_out \in DWord
  /\ state \in States /\ count \in 0..15
  /\ done \in BOOLEAN /\ sh \in BOOLEAN /\ reset \in BOOLEAN /\ add \in BOOLEAN
  /\ sA \in DWord /\ sB \in Word /\ pp \in DWord
  /\ opA \in Word /\ opB \in Word

(* Whenever `done` is high the accumulator holds the exact product of the  *)
(* operands the datapath last loaded, whatever software wrote meanwhile    *)
(* and even when a reset froze the FSM's outputs.                          *)
ProductWhenDone == done => pp = opA * opB

(* The partial product: what is accumulated plus what is left to add.      *)
Remaining ==
  /\ state \in {"CHECK", "ADD"} => pp + sA * sB = opA * opB
  /\ state = "ADD" => sB % 2 = 1
  /\ state = "SHIFT" => pp + sA * (2 * (sB \div 2)) = opA * opB
  /\ state = "END" => pp = opA * opB

(* `done` comes with every other output low, so a frozen FSM cannot spoil  *)
(* the result; the datapath idles in END.                                  *)
DoneAlone == done => ~sh /\ ~reset /\ ~add

(* The inductive invariant behind ProductWhenDone. *)
IInv == TypeOK /\ Remaining /\ DoneAlone /\ ProductWhenDone
=============================================================================
