-------------------------------- MODULE Isa --------------------------------
(***************************************************************************)
(* What the processor and its memory promise a program: RV32I instructions *)
(* executed one at a time, atomically, over registers and a byte-addressed *)
(* little-endian memory.  Instructions are chosen freely: what a program   *)
(* may do, not what one program does.  Accesses that are not aligned are   *)
(* outside the promise, except that they disturb nothing but their target. *)
(* A restart is all a reset may do to this state.                          *)
(***************************************************************************)
EXTENDS RvInstr

VARIABLES
  pc, x, m,
  ir             \* the instruction fetched last
vars == <<pc, x, m, ir>>

Signed(v) == IF Negative(v, WSize) THEN v - WSize ELSE v

Alu(i, a, b) ==
  LET s == b % XBits IN
  CASE i.f3 = 0 /\ i.alt /\ i.op = "alureg" -> (a - b) % WSize
    [] i.f3 = 0 /\ ~(i.alt /\ i.op = "alureg") -> (a + b) % WSize
    [] i.f3 = 1 -> (a * Pow2[s]) % WSize
    [] i.f3 = 2 -> IF Signed(a) < Signed(b) THEN 1 ELSE 0
    [] i.f3 = 3 -> IF a < b THEN 1 ELSE 0
    [] i.f3 = 4 -> Bitwise(a, b, XorBit)
    [] i.f3 = 5 /\ ~i.alt -> a \div Pow2[s]
    [] i.f3 = 5 /\ i.alt -> (Signed(a) \div Pow2[s]) % WSize
    [] i.f3 = 6 -> Bitwise(a, b, OrBit)
    [] i.f3 = 7 -> Bitwise(a, b, AndBit)

Taken(i, a, b) ==
  CASE i.f3 = 0 -> a = b                    [] i.f3 = 1 -> a # b
    [] i.f3 = 4 -> Signed(a) < Signed(b)    [] i.f3 = 5 -> Signed(a) >= Signed(b)
    [] i.f3 = 6 -> a < b                    [] i.f3 = 7 -> a >= b

Width(i) == CASE i.f3 % 4 = 0 -> 1 [] i.f3 % 4 = 1 -> 2 [] OTHER -> 4
Address(i) == (x[i.rs1] + i.imm) % ASize
Aligned(i) == Address(i) % Width(i) = 0

(* Little endian: the byte at the lowest address is the least significant. *)
LoadValue(i) ==
  LET a == Address(i)
      w == CASE Width(i) = 1 -> m[a]
             [] Width(i) = 2 -> m[a] + ByteSize * m[a + 1]
             [] OTHER -> m[a] + ByteSize * m[a + 1] + HSize * m[a + 2]
                           + HSize * ByteSize * m[a + 3]
      n == CASE Width(i) = 1 -> ByteSize [] Width(i) = 2 -> HSize [] OTHER -> WSize
  IN  IF i.f3 < 4 THEN SignExtend(w, n) ELSE w

StoreValue(i) ==
  LET a == Address(i) IN
  [k \in DOMAIN m |->
     IF k \in a..(a + Width(i) - 1) THEN Byte(x[i.rs2], k - a) ELSE m[k]]

SetRegister(rd, v) == x' = IF rd = 0 THEN x ELSE [x EXCEPT ![rd] = v]
Advance(to) == pc' = to % ASize

Arithmetic(i) ==
  /\ i.op \in {"aluimm", "alureg"}
  /\ SetRegister(i.rd, Alu(i, x[i.rs1], IF i.op = "alureg" THEN x[i.rs2]
                                                          ELSE i.imm % WSize))
  /\ Advance(pc + 4) /\ UNCHANGED m

Upper(i) ==
  /\ i.op \in {"lui", "auipc"}
  /\ SetRegister(i.rd, IF i.op = "lui" THEN i.imm % WSize ELSE (pc + i.imm) % ASize)
  /\ Advance(pc + 4) /\ UNCHANGED m

Jump(i) ==
  /\ i.op \in {"jal", "jalr"}
  /\ SetRegister(i.rd, (pc + 4) % ASize)
  /\ IF i.op = "jal" THEN Advance(pc + i.imm)
     ELSE LET t == (x[i.rs1] + i.imm) % WSize IN Advance(t - (t % 2))
  /\ UNCHANGED m

Branch(i) ==
  /\ i.op = "branch"
  /\ Advance(IF Taken(i, x[i.rs1], x[i.rs2]) THEN pc + i.imm ELSE pc + 4)
  /\ UNCHANGED <<x, m>>

LoadFrom(i) ==
  /\ i.op = "load"
  /\ IF Aligned(i) THEN SetRegister(i.rd, LoadValue(i))
                   ELSE \E v \in Word : SetRegister(i.rd, v)
  /\ Advance(pc + 4) /\ UNCHANGED m

(* A store that is not aligned may change bytes of the word it falls in.   *)
StoreMemory(i) ==
  IF Aligned(i) THEN m' = StoreValue(i)
  ELSE /\ m' \in [DOMAIN m -> Bytes]
       /\ \A k \in DOMAIN m : k \div 4 # Address(i) \div 4 => m'[k] = m[k]

StoreTo(i) ==
  /\ i.op = "store"
  /\ StoreMemory(i)
  /\ Advance(pc + 4) /\ UNCHANGED x

ReadCounter(i) ==
  /\ i.op = "system"
  /\ \E v \in Word : SetRegister(i.rd, v)
  /\ Advance(pc + 4) /\ UNCHANGED m

Step(i) ==
  Arithmetic(i) \/ Upper(i) \/ Jump(i) \/ Branch(i) \/ LoadFrom(i) \/ StoreTo(i)
  \/ ReadCounter(i)

(* A reset restarts the program at address zero.  It may spoil the target  *)
(* of the instruction fetched last and lose or keep its store, and nothing *)
(* else.                                                                   *)
Restart ==
  /\ pc' = 0
  /\ x' = x \/ \E v \in Word : SetRegister(ir.rd, v)
  /\ m' = m \/ (ir.op = "store" /\ StoreMemory(ir))
  /\ UNCHANGED ir

Fetch == ir' \in Instructions /\ UNCHANGED <<pc, x, m>>

Next == Fetch \/ (Step(ir) /\ UNCHANGED ir) \/ Restart
Spec == [][Next]_vars
=============================================================================
