------------------------------- MODULE SocCpu -------------------------------
(***************************************************************************)
(* The processor side of SOC.v: the processor running a caller that calls  *)
(* one driver of firmware/asm over and over, the address decoder and the   *)
(* reads.  Soc attaches the peripherals.                                   *)
(*                                                                         *)
(* The caller is the tightest one can be: it loads the arguments, calls,   *)
(* and calls again.  Every instruction costs what Quark's FSM makes it     *)
(* cost; there is no other notion of time.                                 *)
(***************************************************************************)
EXTENDS RvInstr, Sequences

CONSTANTS
  CycleSize,   \* see Quark
  Operands     \* the arguments a caller passes to each driver that is run

ASSUME CycleAssumption == CycleSize \in 1..WSize

VARIABLES
  cpuState, PC, instr, rs1, rs2, registerFile, aluReg, aluShamt, cycles,
  driver,      \* the driver the firmware calls
  argA, argB   \* history: the arguments of the call under way

Cpu == INSTANCE Quark WITH state <- cpuState
cpu == <<Cpu!cpuVars, driver, argA, argB>>

(* ABI names of the registers the drivers use. *)
zero == 0    ra == 1    gp == 3    t0 == 5    t1 == 6    a0 == 10    a1 == 11

-----------------------------------------------------------------------------
(* The caller, at addresses 0 to 12; the driver follows it.                *)
Caller == <<Li(a0, 0), Li(a1, 0), Jal(ra, 8), Jal(zero, -12)>>
Return == 12

(* Mutants: drivers that read the result without polling for the end flag. *)
TwoOperandsUnpolled(base) ==
  <<Lui(gp, base), Sw(a0, 4, gp), Sw(a1, 8, gp),
    Li(a0, 1), Sw(a0, 12, gp), Sw(zero, 12, gp), Lw(a0, 16, gp), Ret(ra)>>
OneOperandUnpolled(base) ==
  <<Lui(gp, base), Sw(a0, 4, gp),
    Li(a0, 1), Sw(a0, 12, gp), Sw(zero, 12, gp), Lw(a0, 16, gp), Ret(ra)>>

(* mult_hw and div_hw are the same code at two bases. *)
TwoOperandDriver(base) ==
  <<Lui(gp, base), Sw(a0, 4, gp), Sw(a1, 8, gp),
    Li(a0, 1), Sw(a0, 12, gp), Sw(zero, 12, gp),
    Li(t0, 1), Lw(t1, 20, gp), AndR(t1, t1, t0), Beqz(t1, -12),   \* .L0
    Lw(a0, 16, gp), Ret(ra)>>

(* So are the drivers of sqrt.S, bin2bcd.S and bcd2bin.S. *)
OneOperandDriver(base) ==
  <<Lui(gp, base), Sw(a0, 4, gp),
    Li(a0, 1), Sw(a0, 12, gp), Sw(zero, 12, gp),
    Li(t0, 1), Lw(t1, 20, gp), AndR(t1, t1, t0), Beqz(t1, -12),   \* .L0
    Lw(a0, 16, gp), Ret(ra)>>

InMemory(code) == [a \in {4 * (k - 1) : k \in DOMAIN code} |-> code[a \div 4 + 1]]

(* The chip selects of SOC.v, by the upper half of the address. *)
Upper16 == [sqrt |-> 65, mult |-> 66, div |-> 67, bin2bcd |-> 68, bcd2bin |-> 70]
Units == DOMAIN Upper16
Program ==
  [u \in Units |->
     InMemory(Caller \o (IF u \in {"mult", "div"}
                         THEN TwoOperandDriver(65536 * Upper16[u])
                         ELSE OneOperandDriver(65536 * Upper16[u])))]

-----------------------------------------------------------------------------
CpuInit ==
  /\ driver \in DOMAIN Operands
  /\ cpuState = "FETCH_INSTR" /\ PC = 0 /\ instr = Caller[1]
  /\ rs1 = 0 /\ rs2 = 0 /\ registerFile = [r \in RegIds |-> 0]
  /\ aluReg = 0 /\ aluShamt = 0 /\ cycles = 0
  /\ argA = 0 /\ argB = 0

(* The chip select of a peripheral and its register address. *)
Selected(u) == Cpu!mem_addr \div 65536 = Upper16[u]
RegName(off) ==
  CASE off = 4 -> "A" [] off = 8 -> "B" [] off = 12 -> "INIT"
    [] off = 16 -> "RESULT" [] off = 20 -> "DONE" [] OTHER -> "NONE"

(* The bus a peripheral sees; width is the size of its data port.          *)
UnitBus(u, width) ==
  LET w == Cpu!mem_wdata IN
  [cs |-> Selected(u), wr |-> Cpu!mem_wmask # {},
   addr |-> RegName(Cpu!mem_addr % 32),
   d |-> IF Cpu!mem_wmask = {} THEN 0
         ELSE (w[0] + ByteSize * w[1] + HSize * w[2] + HSize * ByteSize * w[3]) % width]

(* A fetch of the caller's first two instructions picks the arguments.     *)
FetchedAt(a) ==
  IF a = 0 THEN {Li(a0, v) : v \in Operands[driver]}
  ELSE IF a = 4 THEN {Li(a1, v) : v \in Operands[driver]}
  ELSE {Program[driver][a]}

(* One edge of the processor; shown[u] is what unit u's d_out may show it. *)
(* The memory is read for instructions only.                               *)
CpuEdge(shown) ==
  /\ IF cpuState = "WAIT_INSTR"
     THEN \E i \in FetchedAt(PC) :
            /\ Cpu!Run(i, FALSE, FALSE)
            /\ argA' = IF PC = 0 THEN i.imm ELSE argA
            /\ argB' = IF PC = 4 THEN i.imm ELSE argB
     ELSE /\ \E v \in (IF Selected(driver) THEN shown[driver] ELSE {0}) :
               Cpu!Run(v, FALSE, FALSE)
          /\ UNCHANGED <<argA, argB>>
  /\ UNCHANGED driver

(* The driver has just returned to its caller. *)
Returned == PC = Return /\ cpuState = "FETCH_INSTR"
InDriver == PC > Return
=============================================================================
