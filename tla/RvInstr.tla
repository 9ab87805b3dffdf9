------------------------------ MODULE RvInstr ------------------------------
(***************************************************************************)
(* The words, the byte lanes and the decoded instructions that the         *)
(* processor, its memory and the instruction-set specification share.      *)
(*                                                                         *)
(* A decoded instruction is a record: the opcode class the processor       *)
(* recognises, funct3, the alternate-operation bit instr[30], the three    *)
(* register numbers and the sign-extended immediate of its format.         *)
(***************************************************************************)
EXTENDS Integers

CONSTANTS
  ByteSize,  \* values of a byte (2^8 in the code)
  ASize,     \* values of an address, 2^ADDR_WIDTH (2^24 in the code)
  XBits,     \* bits of a word, which bounds the shift amount (32 in the code)
  RegIds     \* the register numbers in use

HSize == ByteSize * ByteSize
WSize == HSize * HSize
Word == 0..(WSize - 1)
Bytes == 0..(ByteSize - 1)

(* The numbers e becomes as XBits bits are shifted into it from the right.  *)
ShiftIn(e, bit) ==
  LET f[k \in 0..XBits] == IF k = 0 THEN e ELSE 2 * f[k - 1] + bit[k]
  IN  f
Pow2 == ShiftIn(1, [k \in 1..XBits |-> 0])

(* A byte is whole bits, a word has XBits of them and holds an address. *)
ASSUME ByteAssumption == ByteSize \in Nat /\ ByteSize > 1 /\ ByteSize % 2 = 0
ASSUME XBitsAssumption == XBits \in Nat /\ XBits > 0 /\ Pow2[XBits] = WSize
ASSUME ASizeAssumption == ASize \in Nat /\ ASize > 1 /\ ASize <= WSize
ASSUME RegAssumption == RegIds \subseteq 0..31 /\ 0 \in RegIds

LaneWeight(lane) ==
  CASE lane = 0 -> 1 [] lane = 1 -> ByteSize [] lane = 2 -> HSize
    [] lane = 3 -> HSize * ByteSize
Byte(w, lane) == (w \div LaneWeight(lane)) % ByteSize

(* The sign bit of a number of n values, and sign extension to a word. *)
Negative(v, n) == v >= n \div 2
SignExtend(v, n) == IF Negative(v, n) THEN WSize - n + v ELSE v

(* Bitwise operations: op is a function of a pair of bits. *)
Bit(a, k) == (a \div Pow2[k]) % 2
Bitwise(a, b, op) ==
  ShiftIn(0, [k \in 1..XBits |-> op[<<Bit(a, XBits - k), Bit(b, XBits - k)>>]])[XBits]
XorBit == [b \in {0, 1} \X {0, 1} |-> (b[1] + b[2]) % 2]
OrBit == [b \in {0, 1} \X {0, 1} |-> IF b[1] + b[2] > 0 THEN 1 ELSE 0]
AndBit == [b \in {0, 1} \X {0, 1} |-> b[1] * b[2]]

(* Opcode classes, quark_V2.v's isLoad ... isSYSTEM, and the funct3 values *)
(* that are legal with each.                                               *)
Funct3 == [load |-> {0, 1, 2, 4, 5}, store |-> {0, 1, 2},
           aluimm |-> 0..7, alureg |-> 0..7, branch |-> {0, 1, 4, 5, 6, 7},
           lui |-> {0}, auipc |-> {0}, jal |-> {0}, jalr |-> {0},
           system |-> {2}]
Opcodes == DOMAIN Funct3

Instruction(op, f3, alt, rd, rs1, rs2, imm) ==
  [op |-> op, f3 |-> f3, alt |-> alt, rd |-> rd, rs1 |-> rs1, rs2 |-> rs2,
   imm |-> imm]

(* The instructions there are. *)
Instructions ==
  {i \in [op : Opcodes, f3 : 0..7, alt : BOOLEAN, rd : RegIds, rs1 : RegIds,
          rs2 : RegIds, imm : Int] : i.f3 \in Funct3[i.op]}

(* The mnemonics the firmware uses. *)
Lui(rd, imm) == Instruction("lui", 0, FALSE, rd, 0, 0, imm)
Addi(rd, rs1, imm) == Instruction("aluimm", 0, FALSE, rd, rs1, 0, imm)
Li(rd, imm) == Addi(rd, 0, imm)
AndR(rd, rs1, rs2) == Instruction("alureg", 7, FALSE, rd, rs1, rs2, 0)
Lw(rd, off, rs1) == Instruction("load", 2, FALSE, rd, rs1, 0, off)
Sw(rs2, off, rs1) == Instruction("store", 2, FALSE, 0, rs1, rs2, off)
Beqz(rs1, off) == Instruction("branch", 0, FALSE, 0, rs1, 0, off)
Jal(rd, off) == Instruction("jal", 0, FALSE, rd, 0, 0, off)
Ret(ra) == Instruction("jalr", 0, FALSE, 0, ra, 0, 0)
=============================================================================
