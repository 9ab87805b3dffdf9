----------------------------- MODULE MCQuarkRam -----------------------------
(* Words of four one-bit bytes: every lane, sign and wrap-around case in    *)
(* sixteen values.  Eight addresses, two words of memory, registers x0-x2. *)
EXTENDS QuarkRam

AllInstructions ==
  {Instruction(op, f3, alt, rd, 1, s2, imm) :
     op \in Opcodes, f3 \in 0..7, alt \in BOOLEAN, rd \in 0..2, s2 \in {1, 2},
     imm \in {-2, 0, 1, 3, 4}}

(* What an assembler may emit, and no two instructions that differ only in *)
(* a field their format does not have.                                     *)
WellFormed(i) ==
  /\ i.f3 \in Funct3[i.op]
  /\ i.alt => (i.op = "alureg" /\ i.f3 \in {0, 5}) \/ (i.op = "aluimm" /\ i.f3 = 5)
  /\ i.op \notin {"alureg", "branch", "store"} => i.rs2 = 1
  /\ i.op \in {"store", "branch"} => i.rd = 0
  /\ i.op \in {"alureg", "system"} => i.imm = 0
  /\ i.op = "aluimm" /\ i.f3 \in {1, 5} => i.imm \in 0..3
  /\ i.op \in {"jal", "branch"} => i.imm % 2 = 0

EveryInstruction == {i \in AllInstructions : WellFormed(i)}

(* A few of each class, for sequences and resets. *)
SomeInstructions ==
  {Instruction("aluimm", 1, FALSE, 1, 1, 1, 3), Instruction("aluimm", 5, TRUE, 2, 1, 1, 1),
   Instruction("alureg", 0, TRUE, 1, 1, 2, 0), Instruction("load", 1, FALSE, 1, 1, 1, 0),
   Instruction("load", 2, FALSE, 2, 0, 1, 4), Instruction("store", 0, FALSE, 0, 1, 2, 1),
   Instruction("store", 2, FALSE, 0, 0, 2, 0), Instruction("branch", 4, FALSE, 0, 1, 2, -4),
   Instruction("jalr", 0, FALSE, 0, 1, 1, 3), Instruction("lui", 0, FALSE, 0, 1, 1, 4)}
OneInstruction == {Instruction("store", 2, FALSE, 0, 0, 2, 0)}

Regs(a, b) == [r \in RegIds |-> IF r = 0 THEN 0 ELSE IF r = 1 THEN a ELSE b]
ManyRegs == {Regs(a, b) : a \in {0, 1, 6, 7, 8, 12, 15}, b \in {0, 2, 5, 7, 8, 15}}
FewRegs == {Regs(5, 14), Regs(9, 3)}
Rams(values) == [0..(RamWords - 1) -> values]
ManyRams == Rams({6, 9})
FewRams == {[w \in 0..(RamWords - 1) |-> IF w = 0 THEN 6 ELSE 9]}

(* Scenario "isa": one instruction, every one there is, from many states.   *)
(* Scenario "reset": sequences of three, a reset between any two edges.     *)
MCScenarios == {"isa", "reset"}
MCCode == [isa |-> EveryInstruction, reset |-> SomeInstructions]
MCStale == [isa |-> OneInstruction, reset |-> SomeInstructions]
MCBudget == [isa |-> 1, reset |-> 3]
MCRegs == [isa |-> ManyRegs, reset |-> FewRegs]
MCRams == [isa |-> ManyRams, reset |-> FewRams]
MCPCs == [isa |-> {0, 4}, reset |-> {0}]
=============================================================================
