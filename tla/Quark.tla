------------------------------- MODULE Quark -------------------------------
(***************************************************************************)
(* The multi-cycle processor of the SoC (cores/cpu/femtorv32_quark_V2.v).  *)
(* One step is one rising edge of the clock.  Every register is assigned   *)
(* without blocking, so all of them read the values of the previous edge.  *)
(* The memory side is a parameter of the step: what mem_rdata, mem_rbusy   *)
(* and mem_wbusy show at the edge; the combinational outputs are operators.*)
(* In WAIT_INSTR mem_rdata is a decoded instruction, elsewhere a word.     *)
(***************************************************************************)
EXTENDS RvInstr

CONSTANT CycleSize   \* values of the cycle counter (2^32 in the code)
ASSUME CycleAssumption == CycleSize \in 1..WSize

VARIABLES
  state, PC, instr, rs1, rs2, registerFile, aluReg, aluShamt, cycles

cpuVars == <<state, PC, instr, rs1, rs2, registerFile, aluReg, aluShamt, cycles>>

States == {"FETCH_INSTR", "WAIT_INSTR", "EXECUTE", "WAIT_ALU_OR_MEM"}

-----------------------------------------------------------------------------
(* The ALU. *)

aluIn1 == rs1
aluIn2 == IF instr.op \in {"alureg", "branch"} THEN rs2 ELSE instr.imm % WSize
(* Mutant: an adder that keeps its carry. *)
aluPlusWide == aluIn1 + aluIn2

aluPlus == (aluIn1 + aluIn2) % WSize
aluMinus == (aluIn1 - aluIn2) % WSize
LTU == aluIn1 < aluIn2
LT == IF Negative(aluIn1, WSize) # Negative(aluIn2, WSize)
      THEN Negative(aluIn1, WSize) ELSE LTU
EQ == aluMinus = 0

isALU == instr.op \in {"aluimm", "alureg"}
funct3IsShift == instr.f3 \in {1, 5}
aluBusy == aluShamt # 0
aluWr == state = "EXECUTE" /\ isALU

Flag(b) == IF b THEN 1 ELSE 0
aluOut ==
  CASE instr.f3 = 0 -> IF instr.alt /\ instr.op = "alureg" THEN aluMinus ELSE aluPlus
    [] instr.f3 = 2 -> Flag(LT)
    [] instr.f3 = 3 -> Flag(LTU)
    [] instr.f3 = 4 -> Bitwise(aluIn1, aluIn2, XorBit)
    [] instr.f3 = 6 -> Bitwise(aluIn1, aluIn2, OrBit)
    [] instr.f3 = 7 -> Bitwise(aluIn1, aluIn2, AndBit)
    [] OTHER -> aluReg

predicate ==
  CASE instr.f3 = 0 -> EQ    [] instr.f3 = 1 -> ~EQ
    [] instr.f3 = 4 -> LT    [] instr.f3 = 5 -> ~LT
    [] instr.f3 = 6 -> LTU   [] instr.f3 = 7 -> ~LTU

-----------------------------------------------------------------------------
(* The memory port. *)

loadstore_addr == (rs1 + instr.imm) % ASize
mem_addr == IF state \in {"FETCH_INSTR", "WAIT_INSTR"} THEN PC ELSE loadstore_addr
mem_rstrb == state = "FETCH_INSTR" \/ (state = "EXECUTE" /\ instr.op = "load")

byteAccess == instr.f3 % 4 = 0
halfAccess == instr.f3 % 4 = 1
Bit0 == loadstore_addr % 2
Bit1 == (loadstore_addr \div 2) % 2

(* The byte lanes a store drives. *)
STORE_wmask ==
  CASE byteAccess -> {2 * Bit1 + Bit0}
    [] halfAccess -> {2 * Bit1, 2 * Bit1 + 1}
    [] OTHER -> 0..3
mem_wmask == IF state = "EXECUTE" /\ instr.op = "store" THEN STORE_wmask ELSE {}

(* rs2 with the low byte or halfword replicated where the address needs it. *)
mem_wdata ==
  [lane \in 0..3 |->
     CASE lane = 0 -> Byte(rs2, 0)
       [] lane = 1 -> Byte(rs2, IF Bit0 = 1 THEN 0 ELSE 1)
       [] lane = 2 -> Byte(rs2, IF Bit1 = 1 THEN 0 ELSE 2)
       [] lane = 3 -> Byte(rs2, IF Bit0 = 1 THEN 0 ELSE IF Bit1 = 1 THEN 1 ELSE 3)]

LOAD_halfword(w) == IF Bit1 = 1 THEN w \div HSize ELSE w % HSize
LOAD_byte(w) ==
  IF Bit0 = 1 THEN LOAD_halfword(w) \div ByteSize ELSE LOAD_halfword(w) % ByteSize
Extend(v, n) == IF instr.f3 < 4 THEN SignExtend(v, n) ELSE v
LOAD_data(w) ==
  CASE byteAccess -> Extend(LOAD_byte(w), ByteSize)
    [] halfAccess -> Extend(LOAD_halfword(w), HSize)
    [] OTHER -> w

-----------------------------------------------------------------------------
(* Program counter and write back. *)

PCplusImm == (PC + instr.imm) % ASize
PCplus4 == (PC + 4) % ASize
jumpToPCplusImm == instr.op = "jal" \/ (instr.op = "branch" /\ predicate)
nextPC ==
  CASE instr.op = "jalr" -> 2 * ((aluPlus % ASize) \div 2)
    [] jumpToPCplusImm -> PCplusImm
    [] OTHER -> PCplus4

writeBack ==
  /\ state \in {"EXECUTE", "WAIT_ALU_OR_MEM"}
  /\ instr.op \notin {"branch", "store"}

(* In WAIT_ALU_OR_MEM the PC has already moved: the classes that use it are *)
(* never there, except with the stale instruction of a reset.              *)
writeBackData(rdata) ==
  CASE instr.op = "system" -> cycles
    [] instr.op = "lui" -> instr.imm % WSize
    [] isALU -> aluOut
    [] instr.op = "auipc" -> PCplusImm
    [] instr.op \in {"jal", "jalr"} -> PCplus4
    [] instr.op = "load" -> LOAD_data(rdata)

(* Mutant: shifts are not waited for. *)
needToWaitMemory == instr.op \in {"load", "store"}

needToWait ==
  instr.op \in {"load", "store"} \/ (isALU /\ funct3IsShift)

-----------------------------------------------------------------------------
(* The processes of an edge. *)

WriteBack(rdata) ==
  registerFile' = IF writeBack /\ instr.rd # 0
                  THEN [registerFile EXCEPT ![instr.rd] = writeBackData(rdata)]
                  ELSE registerFile

ShiftOnce ==
  CASE instr.f3 = 1 -> (2 * aluReg) % WSize
    [] instr.f3 # 1 /\ instr.alt /\ Negative(aluReg, WSize) ->
         WSize \div 2 + aluReg \div 2
    [] OTHER -> aluReg \div 2

(* Mutant: the shift amount is never counted down. *)
ShifterStuck(rst) ==
  /\ aluShamt' = IF ~rst /\ aluWr /\ funct3IsShift THEN aluIn2 % XBits ELSE aluShamt
  /\ aluReg' = IF aluBusy THEN ShiftOnce
               ELSE IF ~rst /\ aluWr /\ funct3IsShift THEN aluIn1
               ELSE aluReg

(* The decrement is a statement of its own after the load: it wins over it, *)
(* and over the reset, whenever the shifter is still busy.                 *)
Shifter(rst) ==
  /\ aluShamt' = IF aluBusy THEN aluShamt - 1
                 ELSE IF ~rst /\ aluWr /\ funct3IsShift THEN aluIn2 % XBits
                 ELSE aluShamt
  /\ aluReg' = IF aluBusy THEN ShiftOnce
               ELSE IF ~rst /\ aluWr /\ funct3IsShift THEN aluIn1
               ELSE aluReg

Count(rst) == cycles' = IF rst THEN 0 ELSE (cycles + 1) % CycleSize

FetchInstr ==
  /\ state = "FETCH_INSTR" /\ state' = "WAIT_INSTR"
  /\ UNCHANGED <<PC, instr, rs1, rs2>>

WaitInstr(rdata, rbusy) ==
  /\ state = "WAIT_INSTR"
  /\ IF rbusy
     THEN UNCHANGED <<state, instr, rs1, rs2>>
     ELSE /\ state' = "EXECUTE" /\ instr' = rdata
          /\ rs1' = registerFile[rdata.rs1]
          /\ rs2' = registerFile[rdata.rs2]
  /\ UNCHANGED PC

Execute ==
  /\ state = "EXECUTE"
  /\ PC' = nextPC
  /\ state' = IF needToWait THEN "WAIT_ALU_OR_MEM" ELSE "FETCH_INSTR"
  /\ UNCHANGED <<instr, rs1, rs2>>

WaitAluOrMem(rbusy, wbusy) ==
  /\ state = "WAIT_ALU_OR_MEM"
  /\ state' = IF aluBusy \/ rbusy \/ wbusy THEN state ELSE "FETCH_INSTR"
  /\ UNCHANGED <<PC, instr, rs1, rs2>>

Run(rdata, rbusy, wbusy) ==
  /\ \/ FetchInstr
     \/ WaitInstr(rdata, rbusy)
     \/ Execute
     \/ WaitAluOrMem(rbusy, wbusy)
  /\ WriteBack(rdata)
  /\ Shifter(FALSE)
  /\ Count(FALSE)

(* The reset keeps the latched instruction, which is written back once more *)
(* from WAIT_ALU_OR_MEM before the first fetch.                            *)
Reset ==
  /\ state' = "WAIT_ALU_OR_MEM" /\ PC' = 0 /\ rs1' = 0 /\ rs2' = 0
  /\ registerFile' = [registerFile EXCEPT ![0] = 0]
  /\ UNCHANGED instr
  /\ Shifter(TRUE)
  /\ Count(TRUE)
=============================================================================
