------------------------------ MODULE QuarkRam ------------------------------
(***************************************************************************)
(* The processor with its block memory (cores/bram/bram.v) and the reset   *)
(* button, shown to implement Isa.  Code and data share one memory in the  *)
(* SoC; here a fetch returns any instruction of Code, so the data part of  *)
(* the memory is the only part modelled and every program is covered.      *)
(***************************************************************************)
EXTENDS Quark

CONSTANTS
  RamWords,    \* words of data memory
  Scenarios,   \* names of the bounded checks the constants below describe
  Code,        \* Code[s]: the instructions a fetch may return
  Stale,       \* the instructions it may have retired just before
  Budget,      \* instructions fetched in a behaviour: bounds the check
  InitRegs,    \* register files and memories a behaviour starts from
  InitRams,
  InitPCs

ASSUME RamAssumption == RamWords \in Nat /\ RamWords * 4 = ASize
ASSUME CodeAssumption ==
  \A s \in Scenarios : Code[s] \cup Stale[s] \subseteq Instructions
(* Memory, registers and PC of a running program: x0 reads as zero. *)
ASSUME InitAssumption ==
  \A s \in Scenarios :
    /\ InitRegs[s] \subseteq {r \in [RegIds -> Word] : r[0] = 0}
    /\ InitRams[s] \subseteq [0..(RamWords - 1) -> Word]
    /\ InitPCs[s] \subseteq 0..(ASize - 1)

VARIABLES
  MEM, mem_rdata,     \* bram.v
  scenario,           \* the check this behaviour belongs to
  fetched,            \* instructions fetched so far
  arch                \* history: the state the program saw at its last fetch

ram == <<MEM, mem_rdata>>
vars == <<cpuVars, ram, scenario, fetched, arch>>

(* The memory as the program addresses it. *)
BytesOf(words) == [k \in 0..(4 * RamWords - 1) |-> Byte(words[k \div 4], k % 4)]
Arch(p, regs, words) == [pc |-> p, x |-> regs, m |-> BytesOf(words)]

(* A program about to fetch, with any of the given registers and memory.   *)
Init ==
  /\ scenario \in Scenarios
  /\ state = "FETCH_INSTR" /\ PC \in InitPCs[scenario] /\ rs1 = 0 /\ rs2 = 0
  /\ instr \in Stale[scenario]
  /\ registerFile \in InitRegs[scenario]
  /\ aluReg = 0 /\ aluShamt = 0 /\ cycles = 0
  /\ MEM \in InitRams[scenario] /\ mem_rdata = 0
  /\ fetched = 0
  /\ arch = Arch(PC, registerFile, MEM)

-----------------------------------------------------------------------------
(* A word with some byte lanes replaced. *)
Merge(w, mask, lanes) ==
  LET b(k) == IF k \in mask THEN lanes[k] ELSE Byte(w, k)
  IN  b(0) + ByteSize * b(1) + HSize * b(2) + HSize * ByteSize * b(3)

(* One edge of bram.v: the read register and the byte-lane writes. *)
Bram(addr, strobe, mask, lanes) ==
  LET word == (addr \div 4) % RamWords IN
  /\ mem_rdata' = IF strobe THEN MEM[word] ELSE mem_rdata
  /\ MEM' = [MEM EXCEPT ![word] = Merge(MEM[word], mask, lanes)]

Lanes == IF mem_wmask = {} THEN [k \in 0..3 |-> 0] ELSE mem_wdata
Ram == Bram(mem_addr, mem_rstrb, mem_wmask, Lanes)

(* The program's view moves when the next fetch starts. *)
Observe == arch' = IF state' = "FETCH_INSTR" THEN Arch(PC', registerFile', MEM') ELSE arch

(* The memory answers in one edge: mem_rbusy and mem_wbusy are tied low.    *)
Edge(rdata) == Run(rdata, FALSE, FALSE) /\ Ram /\ Observe

Fetching == fetched < Budget[scenario]

Fetch ==
  /\ state = "WAIT_INSTR" /\ Fetching
  /\ \E i \in Code[scenario] : Edge(i)
  /\ fetched' = fetched + 1 /\ UNCHANGED scenario

Tick ==
  /\ state # "WAIT_INSTR" /\ (state = "FETCH_INSTR" => Fetching)
  /\ Edge(mem_rdata)
  /\ UNCHANGED <<scenario, fetched>>

PressReset ==
  /\ Reset /\ Ram /\ Observe
  /\ Fetching
  /\ UNCHANGED <<scenario, fetched>>

Next == Tick \/ Fetch \/ PressReset
(* The clock never stops; a fetch needs no fairness for what is shown here. *)
Spec == Init /\ [][Next]_vars /\ WF_vars(Tick)

-----------------------------------------------------------------------------
TypeOK ==
  /\ state \in States /\ PC \in 0..(ASize - 1) /\ instr \in Instructions
  /\ rs1 \in Word /\ rs2 \in Word /\ registerFile \in [RegIds -> Word]
  /\ aluReg \in Word /\ aluShamt \in 0..(XBits - 1) /\ cycles \in 0..(CycleSize - 1)
  /\ MEM \in [0..(RamWords - 1) -> Word] /\ mem_rdata \in Word

(* Between two fetches the program sees exactly the instruction fetched     *)
(* last take effect as RV32I says, however many edges the FSM, the shifter  *)
(* and the memory needed and whatever was written to the register file on   *)
(* the way; a reset may only do what Isa allows a restart.                  *)
Abstract == INSTANCE Isa WITH
  pc <- arch.pc, x <- arch.x, m <- arch.m, ir <- instr
ImplementsIsa == Abstract!Spec

(* A fetched instruction reaches the next fetch. *)
Retires == state = "EXECUTE" ~> state = "FETCH_INSTR"
=============================================================================
