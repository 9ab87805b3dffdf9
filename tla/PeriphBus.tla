----------------------------- MODULE PeriphBus -----------------------------
(***************************************************************************)
(* The register port every arithmetic peripheral of the SoC has: a chip    *)
(* select, a write strobe, the five low address bits and the data bus.     *)
(* The address is named after the register the wrapper's decoder selects:  *)
(* 0x04 "A", 0x08 "B", 0x0C "INIT", 0x10 "RESULT", 0x14 "DONE"; any other  *)
(* address selects nothing ("NONE").                                       *)
(***************************************************************************)
EXTENDS Integers

CONSTANT
  Simulated  \* TRUE: an event-driven simulator runs the processes of an edge
             \* one by one; FALSE: the synthesised flip-flops switch together

ASSUME SimulatedAssumption == Simulated \in BOOLEAN

(* What a process of the rising edge may see of a register that another     *)
(* process of the same edge assigns with a blocking assignment.             *)
Seen(old, new) == IF Simulated THEN {old, new} ELSE {old}

RegNames == {"A", "B", "INIT", "RESULT", "DONE", "NONE"}

(* One bus cycle as the peripheral sees it. *)
BusCycle(Data) == [cs : BOOLEAN, wr : BOOLEAN, addr : RegNames, d : Data]

(* The address decoder (s) qualified by the write strobe. *)
Writes(bus, reg) == bus.cs /\ bus.wr /\ bus.addr = reg

(* The address decoder alone: it drives the read multiplexer, which does   *)
(* not look at the read strobe.                                            *)
Selects(bus, reg) == bus.cs /\ bus.addr = reg

Idle == [cs |-> FALSE, wr |-> FALSE, addr |-> "NONE", d |-> 0]
Load(reg) == [cs |-> TRUE, wr |-> FALSE, addr |-> reg, d |-> 0]
Store(reg, v) == [cs |-> TRUE, wr |-> TRUE, addr |-> reg, d |-> v]

(* The bus cycles that differ for a peripheral: a write to each operand    *)
(* register or to init, the selection of a readable register, and nothing. *)
BusCycles(operands, Data) ==
  {Idle} \cup {Load(r) : r \in {"RESULT", "DONE"}}
         \cup {Store(r, v) : r \in operands, v \in Data}
         \cup {Store("INIT", b) : b \in {0, 1}}
=============================================================================
