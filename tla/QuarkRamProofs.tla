--------------------------- MODULE QuarkRamProofs ---------------------------
(***************************************************************************)
(* The processor implements Isa for every size of a byte, a word and a     *)
(* memory, every set of registers, every program and any resets.           *)
(***************************************************************************)
EXTENDS QuarkRam, WellFoundedInduction, TLAPS

-----------------------------------------------------------------------------
(* The inductive invariant. *)

(* What the program saw at its last fetch. *)
ArchOK ==
  arch \in [pc : 0..(ASize - 1), x : [RegIds -> Word],
            m : [0..(4 * RamWords - 1) -> Bytes]]

(* Before the instruction executes nothing has changed since the fetch. *)
AtFetch == arch = Arch(PC, registerFile, MEM) /\ aluShamt = 0

Latched == rs1 = arch.x[instr.rs1] /\ rs2 = arch.x[instr.rs2]

(* Only the target of the instruction may differ from what the fetch saw. *)
OthersKept ==
  \A r \in RegIds : registerFile[r] = arch.x[r] \/ (r = instr.rd /\ r # 0)

(* Memory after the store that was fetched last. *)
Stored(mm) ==
  IF Abstract!Aligned(instr) THEN mm = Abstract!StoreValue(instr)
  ELSE /\ mm \in [DOMAIN arch.m -> Bytes]
       /\ \A k \in DOMAIN arch.m :
            k \div 4 # Abstract!Address(instr) \div 4 => mm[k] = arch.m[k]

(* What is left of a shift of v by s places. *)
Signed(v) == IF Negative(v, WSize) THEN v - WSize ELSE v
Shifted(v, s) ==
  CASE instr.f3 = 1 -> (v * Pow2[s]) % WSize
    [] instr.f3 = 5 /\ ~instr.alt -> v \div Pow2[s]
    [] instr.f3 = 5 /\ instr.alt -> (Signed(v) \div Pow2[s]) % WSize

(* The instruction waits for the memory or for the shifter... *)
Retiring ==
  /\ needToWait /\ Latched
  /\ PC = (arch.pc + 4) % ASize
  /\ isALU => Shifted(aluReg, aluShamt) = Shifted(rs1, aluIn2 % XBits)
  /\ instr.op = "load" => mem_rdata = MEM[loadstore_addr \div 4]
  /\ IF instr.op = "store" THEN registerFile = arch.x /\ Stored(BytesOf(MEM))
     ELSE BytesOf(MEM) = arch.m

(* ... or a reset interrupted it, before or after its store. *)
Restarting ==
  /\ PC = 0
  /\ BytesOf(MEM) = arch.m \/ (instr.op = "store" /\ Stored(BytesOf(MEM)))

IInv ==
  /\ TypeOK /\ ArchOK /\ scenario \in Scenarios
  /\ registerFile[0] = 0
  /\ state \in {"FETCH_INSTR", "WAIT_INSTR", "EXECUTE"} => AtFetch
  /\ state = "EXECUTE" => Latched
  /\ state = "WAIT_ALU_OR_MEM" => OthersKept /\ (Retiring \/ Restarting)

-----------------------------------------------------------------------------
(* Quotients and remainders. *)

LEMMA DivisionIsUnique ==
  ASSUME NEW n \in Int, NEW b \in Nat, NEW q \in Int, NEW r \in Nat,
         r < b, n = b * q + r
  PROVE  n \div b = q /\ n % b = r
<1> DEFINE d == n \div b
           s == n % b
<1>1. d \in Int /\ s \in Nat /\ s < b /\ n = b * d + s BY SMT
<1> HIDE DEF d, s
<1>2. CASE q > d
  <2>1. PICK e \in Nat : q = d + 1 + e BY <1>1, <1>2, SMT
  <2>2. b * q = b * d + b + b * e BY <1>1, <2>1, SMT
  <2>3. b * e \in Nat /\ b * d \in Int BY <1>1, SMT
  <2>4. QED BY <1>1, <2>2, <2>3, SMT
<1>3. CASE q < d
  <2>1. PICK e \in Nat : d = q + 1 + e BY <1>1, <1>3, SMT
  <2>2. b * d = b * q + b + b * e BY <1>1, <2>1, SMT
  <2>3. b * e \in Nat /\ b * q \in Int BY <1>1, SMT
  <2>4. QED BY <1>1, <2>2, <2>3, SMT
<1>4. q = d BY <1>1, <1>2, <1>3, SMT
<1>5. r = s BY <1>1, <1>4, SMT
<1>6. QED BY <1>4, <1>5 DEF d, s

LEMMA DivisionFacts ==
  ASSUME NEW n \in Int, NEW b \in Nat, b > 0
  PROVE  n \div b \in Int /\ n % b \in 0..(b - 1) /\ n = b * (n \div b) + (n % b)
<1>1. n \div b \in Int /\ n % b \in Nat /\ n % b < b BY SMT
<1>2. n = b * (n \div b) + (n % b) BY SMT
<1>3. n % b \in 0..(b - 1) BY <1>1, SMT
<1>4. QED BY <1>1, <1>2, <1>3

(* The quotient and the remainder of a number below a product. *)
LEMMA QuotientBound ==
  ASSUME NEW n \in Nat, NEW b \in Nat, NEW c \in Nat, b > 0, n < b * c
  PROVE  n \div b \in Nat /\ n \div b < c
<1> DEFINE q == n \div b
<1>1. q \in Int /\ n % b \in 0..(b - 1) /\ n = b * q + (n % b) BY DivisionFacts
<1>2. n % b \in Nat /\ n % b < b BY <1>1, SMT
<1> HIDE DEF q
<1>3. ASSUME q < 0 PROVE FALSE
  <2>1. PICK e \in Nat : q = -1 - e BY <1>1, <1>3, SMT
  <2>2. b * q = -b - b * e /\ b * e \in Nat BY <2>1, SMT
  <2>3. QED BY <1>1, <1>2, <2>2, SMT
<1>4. ASSUME q >= c PROVE FALSE
  <2>1. PICK e \in Nat : q = c + e BY <1>1, <1>4, SMT
  <2>2. b * q = b * c + b * e /\ b * e \in Nat /\ b * c \in Nat BY <2>1, SMT
  <2>3. QED BY <1>1, <1>2, <2>2, SMT
<1>5. q \in Nat /\ q < c BY <1>1, <1>3, <1>4, SMT
<1>6. QED BY <1>5 DEF q

(* A small number is its own remainder. *)
LEMMA SmallModulo ==
  ASSUME NEW b \in Nat, NEW n \in 0..(b - 1)
  PROVE  n \div b = 0 /\ n % b = n
<1>1. n \in Nat /\ n < b /\ n = b * 0 + n /\ 0 \in Int BY SMT
<1>2. QED BY <1>1, DivisionIsUnique

(* Dividing twice is dividing by the product. *)
LEMMA DivideTwice ==
  ASSUME NEW n \in Int, NEW a \in Nat, NEW b \in Nat, a > 0, b > 0
  PROVE  (n \div a) \div b = n \div (a * b)
<1> DEFINE q == n \div a
           r == n % a
           p == q \div b
           s == q % b
<1>1. q \in Int /\ r \in 0..(a - 1) /\ n = a * q + r BY DivisionFacts
<1> HIDE DEF q, r
<1>2. p \in Int /\ s \in 0..(b - 1) /\ q = b * p + s BY <1>1, DivisionFacts
<1> HIDE DEF p, s
<1>3. PICK e \in Nat : b = s + 1 + e BY <1>2, SMT
<1>4. r \in Nat /\ s \in Nat /\ r < a BY <1>1, <1>2, SMT
<1> DEFINE t == a * s + r
<1>5. a * b = a * s + a + a * e /\ a * e \in Nat /\ a * s \in Nat BY <1>3, <1>4, SMT
<1>6. t \in Nat /\ t < a * b /\ a * b \in Nat BY <1>4, <1>5, SMT
<1>7. n = (a * b) * p + t
  <2>1. a * q = a * (b * p) + a * s BY <1>2, <1>4, SMT
  <2>2. a * (b * p) = (a * b) * p BY <1>2, SMT
  <2>3. (a * b) * p \in Int /\ a * s \in Int BY <1>2, <1>4, SMT
  <2> DEFINE aq == a * q
             bp == (a * b) * p
             sa == a * s
  <2>4. aq = bp + sa /\ n = aq + r /\ t = sa + r
    BY <1>1, <2>1, <2>2, <2>3
  <2>5. bp \in Int /\ sa \in Int BY <2>3
  <2> HIDE DEF aq, bp, sa, t
  <2>6. aq \in Int BY <2>4, <2>5, SMT
  <2>7. n = bp + t BY <1>4, <1>6, <2>4, <2>5, <2>6, SMT
  <2>8. QED BY <2>7 DEF bp
<1> HIDE DEF t
<1>8. n \div (a * b) = p BY <1>2, <1>6, <1>7, DivisionIsUnique
<1>9. QED BY <1>8 DEF p, q

(* Whole words do not change a remainder. *)
LEMMA ModuloPeriod ==
  ASSUME NEW n \in Int, NEW w \in Nat, NEW k \in Int, w > 0
  PROVE  (n + w * k) % w = n % w
<1> DEFINE q == n \div w
           r == n % w
<1>1. q \in Int /\ r \in 0..(w - 1) /\ n = w * q + r BY DivisionFacts
<1> HIDE DEF q, r
<1>2. r \in Nat /\ r < w /\ q + k \in Int BY <1>1, SMT
<1>3. w * (q + k) = w * q + w * k BY <1>1, SMT
<1>4. w * q \in Int /\ w * k \in Int BY <1>1, SMT
<1>5. n + w * k = w * (q + k) + r BY <1>1, <1>2, <1>3, <1>4, SMT
<1>6. n + w * k \in Int BY <1>4, SMT
<1>7. (n + w * k) % w = r BY <1>2, <1>5, <1>6, DivisionIsUnique
<1>8. QED BY <1>7 DEF r

LEMMA ModuloSum ==
  ASSUME NEW n \in Int, NEW m \in Int, NEW w \in Nat, w > 0
  PROVE  (n + (m % w)) % w = (n + m) % w
<1> DEFINE q == m \div w
           r == m % w
<1>1. q \in Int /\ r \in 0..(w - 1) /\ m = w * q + r BY DivisionFacts
<1> HIDE DEF q, r
<1>2. w * q \in Int BY <1>1, SMT
<1>3. n + m = (n + r) + w * q /\ n + r \in Int BY <1>1, <1>2, SMT
<1>4. ((n + r) + w * q) % w = (n + r) % w BY <1>1, <1>3, ModuloPeriod
<1>5. QED BY <1>3, <1>4 DEF r

LEMMA ModuloProduct ==
  ASSUME NEW n \in Int, NEW m \in Int, NEW w \in Nat, w > 0
  PROVE  ((n % w) * m) % w = (n * m) % w
<1> DEFINE q == n \div w
           r == n % w
<1>1. q \in Int /\ r \in 0..(w - 1) /\ n = w * q + r BY DivisionFacts
<1> HIDE DEF q, r
<1>2. r \in Int /\ r * m \in Int /\ q * m \in Int /\ w * q \in Int BY <1>1, SMT
<1>3. (w * q + r) * m = (w * q) * m + r * m BY <1>2, SMT
<1>4. (w * q) * m = w * (q * m) BY <1>1, SMT
<1>5. n * m = r * m + w * (q * m)
  <2>1. w * (q * m) \in Int BY <1>2, SMT
  <2>2. QED BY <1>1, <1>2, <1>3, <1>4, <2>1, SMT
<1>6. (r * m + w * (q * m)) % w = (r * m) % w BY <1>2, ModuloPeriod
<1>7. QED BY <1>5, <1>6 DEF r

(* Two words are equal when their difference wraps to zero. *)
LEMMA DifferenceIsZero ==
  ASSUME NEW w \in Nat, NEW a \in 0..(w - 1), NEW b \in 0..(w - 1)
  PROVE  (a - b) % w = 0 <=> a = b
<1>1. w > 0 /\ a - b \in Int BY SMT
<1> DEFINE q == (a - b) \div w
           r == (a - b) % w
<1>2. q \in Int /\ r \in 0..(w - 1) /\ a - b = w * q + r BY <1>1, DivisionFacts
<1>3. ASSUME r = 0 PROVE a = b
  <2> HIDE DEF q, r
  <2>1. CASE q = 0 BY <1>2, <1>3, <2>1, SMT
  <2>2. CASE q > 0
    <3>1. PICK e \in Nat : q = 1 + e BY <1>2, <2>2, SMT
    <3>2. w * q = w + w * e /\ w * e \in Nat BY <3>1, SMT
    <3>3. QED BY <1>2, <1>3, <3>2, SMT
  <2>3. CASE q < 0
    <3>1. PICK e \in Nat : q = -1 - e BY <1>2, <2>3, SMT
    <3>2. w * q = -w - w * e /\ w * e \in Nat BY <3>1, SMT
    <3>3. QED BY <1>2, <1>3, <3>2, SMT
  <2>4. QED BY <1>2, <2>1, <2>2, <2>3, SMT
<1>4. ASSUME a = b PROVE r = 0
  <2>1. a - b = 0 /\ 0 \in 0..(w - 1) BY <1>1, <1>4, SMT
  <2>2. 0 % w = 0 BY <2>1, SmallModulo
  <2>3. QED BY <2>1, <2>2
<1>5. QED BY <1>3, <1>4

(* Clearing bit zero before or after the address is cut to size. *)
LEMMA EvenAddress ==
  ASSUME NEW t \in Nat, NEW h \in Nat, h > 0
  PROVE  2 * ((t % (2 * h)) \div 2) = (t - (t % 2)) % (2 * h)
<1> DEFINE a == 2 * h
           q == t \div a
           r == t % a
<1>1. a \in Nat /\ a > 0 BY SMT
<1>2. q \in Int /\ r \in 0..(a - 1) /\ t = a * q + r BY <1>1, DivisionFacts
<1> HIDE DEF q, r
<1>3. a * q = 2 * (h * q) /\ h * q \in Int BY <1>2, SMT
<1> HIDE DEF a
<1>4. t % 2 = r % 2 BY <1>2, <1>3, SMT
<1>5. /\ 2 * (r \div 2) = r - (r % 2)
      /\ r - (r % 2) \in 0..(a - 1) /\ r - (r % 2) \in Int
  <2>1. r \in Nat /\ r < a BY <1>1, <1>2, SMT
  <2>2. r % 2 \in {0, 1} /\ r = 2 * (r \div 2) + (r % 2) /\ r \div 2 \in Nat BY <2>1, SMT
  <2>3. QED BY <1>1, <2>1, <2>2, SMT
<1> DEFINE d == r - (r % 2)
           z == t % 2
           aq == a * q
<1>6. t - z = d + aq
  <2>1. z = r - d /\ t = aq + r /\ d \in Int BY <1>2, <1>4, <1>5, SMT
  <2>2. aq \in Int /\ r \in Int BY <1>1, <1>2, SMT
  <2> HIDE DEF d, z, aq
  <2>3. QED BY <2>1, <2>2, SMT
<1>7. (d + a * q) % a = d % a
  <2> HIDE DEF d
  <2>1. d \in Int BY <1>5 DEF d
  <2>2. QED BY <1>1, <1>2, <2>1, ModuloPeriod
<1>8. d % a = d BY <1>1, <1>5, SmallModulo
<1>9. QED BY <1>5, <1>6, <1>7, <1>8 DEF r, a

-----------------------------------------------------------------------------
(* Shifting bits in: ShiftIn is defined by recursion on the bit number.     *)

(* Every set of natural numbers that is not empty has a least element. *)
LEMMA LeastNumber ==
  ASSUME NEW T, T \subseteq Nat, T # {}
  PROVE  \E n \in T : \A k \in T : n <= k
<1>1. IsWellFoundedOn(OpToRel(<, Nat), Nat) BY NatLessThanWellFounded
<1>2. \E n \in T : \A k \in T : ~(<<k, n>> \in OpToRel(<, Nat)) BY <1>1, WFMin
<1>3. PICK n \in T : \A k \in T : ~(<<k, n>> \in OpToRel(<, Nat)) BY <1>2
<1>4. ASSUME NEW k \in T PROVE n <= k
  <2>1. ~(<<k, n>> \in OpToRel(<, Nat)) BY <1>3
  <2>2. k < n => <<k, n>> \in OpToRel(<, Nat) BY DEF OpToRel
  <2>3. ~(k < n) BY <2>1, <2>2
  <2>4. k \in Nat /\ n \in Nat OBVIOUS
  <2>5. QED BY <2>3, <2>4, SMT
<1>5. QED BY <1>4

(* The recursion has a solution, built one bit further at a time. *)
LEMMA ShiftInDef ==
  ASSUME NEW e, NEW bit
  PROVE  /\ DOMAIN ShiftIn(e, bit) = 0..XBits
         /\ ShiftIn(e, bit)[0] = e
         /\ \A k \in 1..XBits : ShiftIn(e, bit)[k] = 2 * ShiftIn(e, bit)[k - 1] + bit[k]
<1>0. XBits \in Nat BY XBitsAssumption
<1> DEFINE Steps(f, m) == /\ f = [k \in 0..m |-> f[k]] /\ f[0] = e
                          /\ \A k \in 1..m : f[k] = 2 * f[k - 1] + bit[k]
           Missing == {m \in Nat : ~\E f : Steps(f, m)}
<1>1. Missing = {}
  <2>1. SUFFICES ASSUME Missing # {} PROVE FALSE OBVIOUS
  <2>2. PICK m \in Missing : \A j \in Missing : m <= j BY <2>1, LeastNumber
  <2>3. CASE m = 0
    <3> DEFINE f == [k \in 0..0 |-> e]
    <3>1. Steps(f, 0) BY SMT
    <3>2. QED BY <2>2, <2>3, <3>1
  <2>4. CASE m # 0
    <3>1. m \in Nat /\ m - 1 \in Nat /\ ~(m <= m - 1) BY <2>2, <2>4, SMT
    <3>2. m - 1 \notin Missing BY <2>2, <3>1
    <3>3. PICK f : Steps(f, m - 1) BY <3>1, <3>2
    <3> DEFINE g == [k \in 0..m |-> IF k = m THEN 2 * f[m - 1] + bit[m] ELSE f[k]]
    <3>4. g[0] = e BY <2>4, <3>1, <3>3
    <3>5. ASSUME NEW k \in 1..m PROVE g[k] = 2 * g[k - 1] + bit[k]
      <4>1. k - 1 \in 0..m /\ k - 1 # m /\ k \in 0..m BY <3>1, SMT
      <4>2. g[k - 1] = f[k - 1] BY <4>1
      <4>3. CASE k = m BY <4>1, <4>2, <4>3
      <4>4. CASE k # m
        <5>1. k \in 1..m - 1 BY <3>1, <4>4, SMT
        <5>2. g[k] = f[k] BY <4>1, <4>4
        <5>3. QED BY <3>3, <4>2, <5>1, <5>2
      <4>5. QED BY <4>3, <4>4
    <3>6. g = [k \in 0..m |-> g[k]] OBVIOUS
    <3> HIDE DEF g
    <3>7. Steps(g, m) BY <3>4, <3>5, <3>6
    <3>8. QED BY <2>2, <3>7
  <2>5. QED BY <2>3, <2>4
<1>2. PICK f : Steps(f, XBits) BY <1>0, <1>1
<1> DEFINE G(g) == g = [k \in 0..XBits |-> IF k = 0 THEN e ELSE 2 * g[k - 1] + bit[k]]
           after == CHOOSE g : G(g)
<1>3. G(f)
  <2>1. ASSUME NEW k \in 0..XBits
        PROVE  f[k] = IF k = 0 THEN e ELSE 2 * f[k - 1] + bit[k]
    <3>1. k = 0 \/ k \in 1..XBits BY <1>0, SMT
    <3>2. k \in 1..XBits => k # 0 BY SMT
    <3>3. QED BY <1>2, <3>1, <3>2
  <2>2. f = [k \in 0..XBits |-> f[k]] BY <1>2
  <2>3. QED BY <2>1, <2>2
<1>4. G(after) BY <1>3
<1>5. ShiftIn(e, bit) = after BY DEF ShiftIn
<1> HIDE DEF after
<1>6. /\ DOMAIN after = 0..XBits
      /\ \A k \in 0..XBits : after[k] = IF k = 0 THEN e ELSE 2 * after[k - 1] + bit[k]
  BY <1>4
<1>7. \A k \in 1..XBits : k \in 0..XBits /\ k # 0 BY <1>0, SMT
<1>8. 0 \in 0..XBits BY <1>0, SMT
<1>9. QED BY <1>5, <1>6, <1>7, <1>8

LEMMA Sizes ==
  /\ ByteSize \in Nat /\ ByteSize > 1
  /\ HSize \in Nat /\ HSize > 1 /\ HSize = ByteSize * ByteSize
  /\ WSize \in Nat /\ WSize > 1 /\ WSize = HSize * HSize
<1>1. ByteSize \in Nat /\ ByteSize > 1 BY ByteAssumption
<1>2. HSize \in Nat /\ HSize > 1
  <2>0. ByteSize - 2 \in Nat /\ ByteSize = 2 + (ByteSize - 2) BY <1>1, SMT
  <2>1. PICK e \in Nat : ByteSize = 2 + e BY <2>0
  <2>2. ByteSize * ByteSize = 4 + 4 * e + e * e /\ e * e \in Nat BY <2>1, SMT
  <2>3. QED BY <2>1, <2>2, SMT DEF HSize
<1>3. WSize \in Nat /\ WSize > 1
  <2>1. PICK e \in Nat : HSize = 2 + e BY <1>2, SMT
  <2>2. HSize * HSize = 4 + 4 * e + e * e /\ e * e \in Nat BY <2>1, SMT
  <2>3. QED BY <2>1, <2>2, SMT DEF WSize
<1>4. QED BY <1>1, <1>2, <1>3 DEF HSize, WSize

(* The powers of two up to the number of words. *)
LEMMA Powers ==
  /\ Pow2[0] = 1 /\ Pow2[XBits] = WSize
  /\ \A k \in 0..XBits : Pow2[k] \in Nat /\ Pow2[k] > 0
  /\ \A k \in 1..XBits : Pow2[k] = 2 * Pow2[k - 1]
<1>0. XBits \in Nat /\ Pow2[XBits] = WSize BY XBitsAssumption
<1> DEFINE zero == [k \in 1..XBits |-> 0]
<1>1. /\ Pow2[0] = 1
      /\ \A k \in 1..XBits : Pow2[k] = 2 * Pow2[k - 1] + zero[k]
  <2>1. Pow2 = ShiftIn(1, zero) BY DEF Pow2
  <2> HIDE DEF zero
  <2>2. QED BY <2>1, ShiftInDef
<1>2. \A k \in 1..XBits : zero[k] = 0 OBVIOUS
<1> HIDE DEF zero
<1> DEFINE Good(k) == Pow2[k] \in Nat /\ Pow2[k] > 0
           Bad == {k \in 0..XBits : ~Good(k)}
<1>3. Bad = {}
  <2>1. SUFFICES ASSUME Bad # {} PROVE FALSE OBVIOUS
  <2>2. Bad \subseteq Nat BY <1>0, SMT
  <2>3. PICK k \in Bad : \A j \in Bad : k <= j BY <2>1, <2>2, LeastNumber
  <2>4. k # 0 BY <1>1, <2>3, SMT
  <2>5. k \in 1..XBits /\ k - 1 \in 0..XBits /\ ~(k <= k - 1) BY <1>0, <2>3, <2>4, SMT
  <2>6. Good(k - 1) BY <2>3, <2>5
  <2>7. Pow2[k] = 2 * Pow2[k - 1] + 0 BY <1>1, <1>2, <2>5
  <2>8. Good(k) BY <2>6, <2>7, SMT
  <2>9. QED BY <2>3, <2>8
<1>4. \A k \in 0..XBits : Good(k) BY <1>3
<1>5. ASSUME NEW k \in 1..XBits PROVE Pow2[k] = 2 * Pow2[k - 1]
  <2>1. k - 1 \in 0..XBits BY <1>0, SMT
  <2>2. Pow2[k] = 2 * Pow2[k - 1] + 0 BY <1>1, <1>2
  <2>3. Pow2[k - 1] \in Nat BY <1>4, <2>1
  <2>4. QED BY <2>2, <2>3, SMT
<1>6. QED BY <1>0, <1>1, <1>4, <1>5

(* A number of XBits bits is a word. *)
LEMMA BitwiseWord ==
  ASSUME NEW a \in Word, NEW b \in Word,
         NEW op \in [{0, 1} \X {0, 1} -> {0, 1}]
  PROVE  Bitwise(a, b, op) \in Word
<1>0. XBits \in Nat BY XBitsAssumption
<1> DEFINE bit == [k \in 1..XBits |-> op[<<Bit(a, XBits - k), Bit(b, XBits - k)>>]]
           f == ShiftIn(0, bit)
<1>1. ASSUME NEW k \in 1..XBits PROVE bit[k] \in {0, 1}
  <2>1. XBits - k \in 0..XBits BY <1>0, SMT
  <2>2. Pow2[XBits - k] \in Nat /\ Pow2[XBits - k] > 0 BY <2>1, Powers
  <2>3. a \in Int /\ b \in Int BY Sizes, SMT DEF Word
  <2>4. a \div Pow2[XBits - k] \in Int /\ b \div Pow2[XBits - k] \in Int
    BY <2>2, <2>3, DivisionFacts
  <2>5. Bit(a, XBits - k) \in {0, 1} /\ Bit(b, XBits - k) \in {0, 1} BY <2>4, SMT DEF Bit
  <2>6. <<Bit(a, XBits - k), Bit(b, XBits - k)>> \in {0, 1} \X {0, 1} BY <2>5
  <2>7. QED BY <2>6
<1>2. /\ f[0] = 0
      /\ \A k \in 1..XBits : f[k] = 2 * f[k - 1] + bit[k]
  <2> HIDE DEF bit
  <2>1. QED BY ShiftInDef
<1>3. Bitwise(a, b, op) = f[XBits] BY DEF Bitwise
<1> HIDE DEF f, bit
<1> DEFINE Good(k) == f[k] \in Nat /\ f[k] < Pow2[k]
           Bad == {k \in 0..XBits : ~Good(k)}
<1>4. Bad = {}
  <2>1. SUFFICES ASSUME Bad # {} PROVE FALSE OBVIOUS
  <2>2. Bad \subseteq Nat BY <1>0, SMT
  <2>3. PICK k \in Bad : \A j \in Bad : k <= j BY <2>1, <2>2, LeastNumber
  <2>4. k # 0 BY <1>2, <2>3, Powers, SMT
  <2>5. k \in 1..XBits /\ k - 1 \in 0..XBits /\ ~(k <= k - 1) BY <1>0, <2>3, <2>4, SMT
  <2>6. Good(k - 1) BY <2>3, <2>5
  <2>7. f[k] = 2 * f[k - 1] + bit[k] BY <1>2, <2>5
  <2>8. bit[k] \in {0, 1} BY <1>1, <2>5
  <2>9. Pow2[k] = 2 * Pow2[k - 1] /\ Pow2[k - 1] \in Nat BY <2>5, Powers
  <2>10. Good(k) BY <2>6, <2>7, <2>8, <2>9, SMT
  <2>11. QED BY <2>3, <2>10
<1>5. XBits \in 0..XBits BY <1>0, SMT
<1>6. f[XBits] \in Nat /\ f[XBits] < WSize BY <1>4, <1>5, Powers
<1>7. QED BY <1>3, <1>6, Sizes, SMT DEF Word

-----------------------------------------------------------------------------
(* Words and their bytes. *)

(* Two digits make one number of twice the size. *)
LEMMA TwoDigits ==
  ASSUME NEW b \in Nat, b > 0, NEW p \in 0..(b - 1), NEW q \in 0..(b - 1)
  PROVE  /\ p + b * q \in 0..(b * b - 1)
         /\ (p + b * q) \div b = q /\ (p + b * q) % b = p
<1>1. p \in Nat /\ q \in Nat /\ p < b /\ q < b BY SMT
<1>2. PICK e \in Nat : b = q + 1 + e
  <2>1. b - q - 1 \in Nat /\ b = q + 1 + (b - q - 1) BY <1>1, SMT
  <2>2. QED BY <2>1
<1>3. b * q \in Nat /\ b * b = b * q + b + b * e /\ b * e \in Nat BY <1>1, <1>2, SMT
<1>4. p + b * q \in Nat /\ p + b * q = b * q + p BY <1>1, <1>3, SMT
<1>5. p + b * q < b * b /\ b * b \in Nat BY <1>1, <1>3, SMT
<1>6. (p + b * q) \div b = q /\ (p + b * q) % b = p
  <2> DEFINE n == p + b * q
  <2>1. n \in Int /\ n = b * q + p BY <1>4, SMT
  <2> HIDE DEF n
  <2>2. n \div b = q /\ n % b = p BY <1>1, <2>1, DivisionIsUnique
  <2>3. QED BY <2>2 DEF n
<1>7. p + b * q \in 0..(b * b - 1) BY <1>4, <1>5, SMT
<1>8. QED BY <1>6, <1>7

FromBytes(d0, d1, d2, d3) == d0 + ByteSize * d1 + HSize * d2 + HSize * ByteSize * d3

(* Four bytes make a word, and are its bytes. *)
LEMMA Compose ==
  ASSUME NEW d0 \in Bytes, NEW d1 \in Bytes, NEW d2 \in Bytes, NEW d3 \in Bytes,
         NEW w, w = FromBytes(d0, d1, d2, d3)
  PROVE  /\ w \in Word
         /\ Byte(w, 0) = d0 /\ Byte(w, 1) = d1 /\ Byte(w, 2) = d2 /\ Byte(w, 3) = d3
         /\ w % HSize = d0 + ByteSize * d1
         /\ w \div HSize = d2 + ByteSize * d3
         /\ (w % HSize) % ByteSize = d0 /\ (w % HSize) \div ByteSize = d1
         /\ (w \div HSize) % ByteSize = d2 /\ (w \div HSize) \div ByteSize = d3
<1> DEFINE lo == d0 + ByteSize * d1
           hi == d2 + ByteSize * d3
<1>1. lo \in 0..(HSize - 1) /\ lo \div ByteSize = d1 /\ lo % ByteSize = d0
  BY TwoDigits, Sizes, SMT DEF Bytes
<1>2. hi \in 0..(HSize - 1) /\ hi \div ByteSize = d3 /\ hi % ByteSize = d2
  BY TwoDigits, Sizes, SMT DEF Bytes
<1>3. w = lo + HSize * hi
  <2>1. d0 \in Nat /\ d1 \in Nat /\ d2 \in Nat /\ d3 \in Nat BY Sizes, SMT DEF Bytes
  <2>2. ByteSize * d3 \in Nat /\ HSize * d2 \in Nat /\ ByteSize * d1 \in Nat
    BY <2>1, Sizes, SMT
  <2>3. HSize * (ByteSize * d3) = HSize * ByteSize * d3 /\ HSize * (ByteSize * d3) \in Nat
    BY <2>1, <2>2, Sizes, SMT
  <2>4. HSize * hi = HSize * d2 + HSize * (ByteSize * d3) BY <2>1, <2>2, Sizes, SMT
  <2> DEFINE u == HSize * (ByteSize * d3)
             v == HSize * d2
             t == ByteSize * d1
  <2>5. w = d0 + t + v + u /\ lo = d0 + t BY <2>3 DEF FromBytes
  <2>6. HSize * hi = v + u BY <2>4
  <2>7. t \in Nat /\ u \in Nat /\ v \in Nat BY <2>2, <2>3
  <2> HIDE DEF u, v, t, lo, hi
  <2>8. w = d0 + t + v + u /\ lo + HSize * hi = d0 + t + (v + u) BY <2>5, <2>6
  <2>9. QED BY <2>1, <2>7, <2>8, SMT
<1> HIDE DEF lo, hi
<1>4. w \in 0..(HSize * HSize - 1) /\ w \div HSize = hi /\ w % HSize = lo
  BY <1>1, <1>2, <1>3, TwoDigits, Sizes, SMT
<1>5. w \in Word BY <1>4, Sizes, SMT DEF Word
<1>6. w \in Int BY <1>4, Sizes, SMT
<1>7. d0 \in Nat /\ d0 < ByteSize /\ d1 \in Nat /\ d1 < ByteSize BY Sizes, SMT DEF Bytes
<1>8. hi \in Int BY <1>2, SMT
<1> DEFINE q == d1 + ByteSize * hi
<1>9. w = ByteSize * q + d0 /\ q \in Int
  <2>1. HSize * hi = ByteSize * (ByteSize * hi) /\ ByteSize * hi \in Int BY <1>8, Sizes, SMT
  <2>2. ByteSize * q = ByteSize * d1 + ByteSize * (ByteSize * hi) BY <1>7, <2>1, Sizes, SMT
  <2>3. ByteSize * d1 \in Int /\ ByteSize * (ByteSize * hi) \in Int BY <1>7, <2>1, Sizes, SMT
  <2> DEFINE u == ByteSize * (ByteSize * hi)
             t == ByteSize * d1
             bq == ByteSize * q
  <2>4. w = lo + u /\ lo = d0 + t /\ bq = t + u BY <1>3, <2>1, <2>2 DEF lo
  <2>5. t \in Int /\ u \in Int BY <2>3
  <2> HIDE DEF u, t, bq
  <2>6. bq \in Int /\ lo \in Int BY <1>7, <2>4, <2>5, SMT
  <2>7. w = bq + d0 BY <1>6, <1>7, <2>4, <2>5, <2>6, SMT
  <2>8. q \in Int BY <1>7, <2>1, SMT
  <2>9. QED BY <2>7, <2>8 DEF bq
<1>10. q = ByteSize * hi + d1
  <2>1. ByteSize * hi \in Int BY <1>8, Sizes, SMT
  <2>2. QED BY <1>7, <2>1, SMT
<1> HIDE DEF q
<1>11. w \div ByteSize = q /\ w % ByteSize = d0 BY <1>6, <1>7, <1>9, Sizes, DivisionIsUnique
<1>12. q % ByteSize = d1 BY <1>7, <1>8, <1>9, <1>10, Sizes, DivisionIsUnique
<1>13. w \div 1 = w BY <1>6, SMT
<1>14. Byte(w, 0) = d0 BY <1>11, <1>13 DEF Byte, LaneWeight
<1>15. Byte(w, 1) = d1 BY <1>11, <1>12 DEF Byte, LaneWeight
<1>16. Byte(w, 2) = d2 BY <1>2, <1>4 DEF Byte, LaneWeight
<1>17. Byte(w, 3) = d3
  <2>1. w \div (HSize * ByteSize) = (w \div HSize) \div ByteSize
    BY <1>6, DivideTwice, Sizes, SMT
  <2>2. d3 % ByteSize = d3 BY SmallModulo, Sizes DEF Bytes
  <2>3. w \div (HSize * ByteSize) = d3 BY <1>2, <1>4, <2>1
  <2>4. QED BY <2>2, <2>3 DEF Byte, LaneWeight
<1>18. QED BY <1>1, <1>2, <1>4, <1>5, <1>14, <1>15, <1>16, <1>17 DEF lo, hi

(* Every word is made of four bytes. *)
LEMMA Decompose ==
  ASSUME NEW w \in Word
  PROVE  \E d0, d1, d2, d3 \in Bytes : w = FromBytes(d0, d1, d2, d3)
<1> DEFINE lo == w % HSize
           hi == w \div HSize
           d0 == lo % ByteSize
           d1 == lo \div ByteSize
           d2 == hi % ByteSize
           d3 == hi \div ByteSize
<1>1. w \in Nat /\ w < HSize * HSize BY Sizes, SMT DEF Word
<1>2. hi \in Nat /\ hi < HSize BY <1>1, QuotientBound, Sizes
<1>3. lo \in 0..(HSize - 1) /\ w = HSize * hi + lo
  <2>1. w \in Int /\ HSize \in Nat /\ HSize > 0 BY <1>1, Sizes, SMT
  <2>2. QED BY <2>1, DivisionFacts
<1>4. lo \in Nat /\ lo < HSize BY <1>3, Sizes, SMT
<1> HIDE DEF lo, hi
<1>5. d1 \in Nat /\ d1 < ByteSize BY <1>4, QuotientBound, Sizes
<1>6. d3 \in Nat /\ d3 < ByteSize BY <1>2, QuotientBound, Sizes
<1>7. d0 \in 0..(ByteSize - 1) /\ lo = ByteSize * d1 + d0 BY <1>4, DivisionFacts, Sizes, SMT
<1>8. d2 \in 0..(ByteSize - 1) /\ hi = ByteSize * d3 + d2 BY <1>2, DivisionFacts, Sizes, SMT
<1>9. d0 \in Bytes /\ d1 \in Bytes /\ d2 \in Bytes /\ d3 \in Bytes
  BY <1>5, <1>6, <1>7, <1>8, Sizes, SMT DEF Bytes
<1>10. d0 \in Nat /\ d2 \in Nat BY <1>7, <1>8, Sizes, SMT
<1> HIDE DEF d0, d1, d2, d3
<1>11. w = FromBytes(d0, d1, d2, d3)
  <2>1. ByteSize * d3 \in Nat /\ HSize * d2 \in Nat /\ ByteSize * d1 \in Nat
    BY <1>5, <1>6, <1>10, Sizes, SMT
  <2>2. HSize * (ByteSize * d3) = HSize * ByteSize * d3 /\ HSize * (ByteSize * d3) \in Nat
    BY <1>6, <2>1, Sizes, SMT
  <2>3. HSize * hi = HSize * (ByteSize * d3) + HSize * d2 BY <1>8, <1>10, <2>1, Sizes, SMT
  <2> DEFINE u == HSize * (ByteSize * d3)
             v == HSize * d2
             t == ByteSize * d1
             hh == HSize * hi
  <2>4. w = hh + lo /\ hh = u + v /\ lo = t + d0 BY <1>3, <1>7, <2>3
  <2>5. t \in Nat /\ u \in Nat /\ v \in Nat /\ lo \in Nat /\ hh \in Int
    BY <1>2, <1>4, <2>1, <2>2, Sizes, SMT
  <2>6. FromBytes(d0, d1, d2, d3) = d0 + t + v + u BY <2>2 DEF FromBytes
  <2> HIDE DEF u, v, t, hh
  <2>7. w = d0 + t + v + u BY <1>1, <1>10, <2>4, <2>5, SMT
  <2>8. QED BY <2>6, <2>7
<1>12. QED BY <1>9, <1>11

LEMMA WordBytes ==
  ASSUME NEW w \in Word
  PROVE  /\ Byte(w, 0) \in Bytes /\ Byte(w, 1) \in Bytes
         /\ Byte(w, 2) \in Bytes /\ Byte(w, 3) \in Bytes
         /\ w = FromBytes(Byte(w, 0), Byte(w, 1), Byte(w, 2), Byte(w, 3))
         /\ w % HSize = Byte(w, 0) + ByteSize * Byte(w, 1)
         /\ w \div HSize = Byte(w, 2) + ByteSize * Byte(w, 3)
         /\ (w % HSize) % ByteSize = Byte(w, 0) /\ (w % HSize) \div ByteSize = Byte(w, 1)
         /\ (w \div HSize) % ByteSize = Byte(w, 2)
         /\ (w \div HSize) \div ByteSize = Byte(w, 3)
<1>1. PICK d0, d1, d2, d3 \in Bytes : w = FromBytes(d0, d1, d2, d3) BY Decompose
<1>2. QED BY <1>1, Compose

LEMMA ByteType ==
  ASSUME NEW w \in Word, NEW k \in 0..3
  PROVE  Byte(w, k) \in Bytes
<1>1. k \in {0, 1, 2, 3} BY SMT
<1>2. QED BY <1>1, WordBytes

(* A masked write replaces the bytes under the mask. *)
LEMMA MergeBytes ==
  ASSUME NEW w \in Word, NEW mask, NEW lanes \in [0..3 -> Bytes]
  PROVE  /\ Merge(w, mask, lanes) \in Word
         /\ \A k \in 0..3 :
              Byte(Merge(w, mask, lanes), k) = IF k \in mask THEN lanes[k] ELSE Byte(w, k)
<1> DEFINE b(k) == IF k \in mask THEN lanes[k] ELSE Byte(w, k)
           v == Merge(w, mask, lanes)
<1>1. ASSUME NEW k \in 0..3 PROVE b(k) \in Bytes BY ByteType
<1>2. v = FromBytes(b(0), b(1), b(2), b(3)) BY DEF Merge, FromBytes
<1>3. 0 \in 0..3 /\ 1 \in 0..3 /\ 2 \in 0..3 /\ 3 \in 0..3 BY SMT
<1>4. b(0) \in Bytes /\ b(1) \in Bytes /\ b(2) \in Bytes /\ b(3) \in Bytes BY <1>1, <1>3
<1> HIDE DEF b, v
<1>5. /\ v \in Word
      /\ Byte(v, 0) = b(0) /\ Byte(v, 1) = b(1) /\ Byte(v, 2) = b(2) /\ Byte(v, 3) = b(3)
  BY <1>2, <1>4, Compose
<1>6. ASSUME NEW k \in 0..3 PROVE Byte(v, k) = b(k)
  <2>1. k \in {0, 1, 2, 3} BY SMT
  <2>2. QED BY <1>5, <2>1
<1>7. QED BY <1>5, <1>6 DEF v, b

(* Words with the same bytes are the same; a write of no byte changes none. *)
LEMMA MergeNothing ==
  ASSUME NEW w \in Word, NEW lanes \in [0..3 -> Bytes]
  PROVE  Merge(w, {}, lanes) = w
<1> DEFINE v == Merge(w, {}, lanes)
<1>1. v \in Word /\ \A k \in 0..3 : Byte(v, k) = Byte(w, k) BY MergeBytes
<1> HIDE DEF v
<1>2. /\ Byte(v, 0) = Byte(w, 0) /\ Byte(v, 1) = Byte(w, 1)
      /\ Byte(v, 2) = Byte(w, 2) /\ Byte(v, 3) = Byte(w, 3)
  BY <1>1, SMT
<1>3. v = w BY <1>1, <1>2, WordBytes
<1>4. QED BY <1>3 DEF v

-----------------------------------------------------------------------------
(* The memory by words and by bytes. *)

LEMMA RamSize ==
  /\ RamWords \in Nat /\ RamWords > 0 /\ 4 * RamWords = ASize
  /\ ASize \in Nat /\ ASize <= WSize
BY RamAssumption, ASizeAssumption, Sizes, SMT

LEMMA ByteAddress ==
  ASSUME NEW k \in 0..(4 * RamWords - 1)
  PROVE  /\ k \div 4 \in 0..(RamWords - 1) /\ k % 4 \in 0..3
         /\ k = 4 * (k \div 4) + (k % 4) /\ (k \div 4) % RamWords = k \div 4
<1>1. k \div 4 \in 0..(RamWords - 1) /\ k % 4 \in 0..3 /\ k = 4 * (k \div 4) + (k % 4)
  BY RamSize, SMT
<1>2. QED BY <1>1, RamSize, SmallModulo

LEMMA BytesOfType ==
  ASSUME NEW words \in [0..(RamWords - 1) -> Word]
  PROVE  BytesOf(words) \in [0..(4 * RamWords - 1) -> Bytes]
<1>1. ASSUME NEW k \in 0..(4 * RamWords - 1) PROVE Byte(words[k \div 4], k % 4) \in Bytes
  BY ByteAddress, ByteType
<1>2. QED BY <1>1 DEF BytesOf

Written(words, n, mask, lanes) == [words EXCEPT ![n] = Merge(words[n], mask, lanes)]

(* A masked write of one word changes the bytes of that word in the mask.   *)
LEMMA WrittenBytes ==
  ASSUME NEW words \in [0..(RamWords - 1) -> Word], NEW n \in 0..(RamWords - 1),
         NEW mask, NEW lanes \in [0..3 -> Bytes]
  PROVE  /\ Written(words, n, mask, lanes) \in [0..(RamWords - 1) -> Word]
         /\ \A k \in 0..(4 * RamWords - 1) :
              BytesOf(Written(words, n, mask, lanes))[k] =
                IF k \div 4 = n /\ k % 4 \in mask THEN lanes[k % 4] ELSE BytesOf(words)[k]
<1> DEFINE after == Written(words, n, mask, lanes)
<1>1. words[n] \in Word OBVIOUS
<1>2. Merge(words[n], mask, lanes) \in Word BY <1>1, MergeBytes
<1>3. after \in [0..(RamWords - 1) -> Word] BY <1>2 DEF Written
<1>4. ASSUME NEW k \in 0..(4 * RamWords - 1)
      PROVE  BytesOf(after)[k] = IF k \div 4 = n /\ k % 4 \in mask THEN lanes[k % 4]
                                 ELSE BytesOf(words)[k]
  <2>1. k \div 4 \in 0..(RamWords - 1) /\ k % 4 \in 0..3 BY ByteAddress
  <2>2. /\ BytesOf(after)[k] = Byte(after[k \div 4], k % 4)
        /\ BytesOf(words)[k] = Byte(words[k \div 4], k % 4)
    BY DEF BytesOf
  <2>3. CASE k \div 4 = n
    <3>1. after[k \div 4] = Merge(words[n], mask, lanes) BY <2>1, <2>3 DEF Written
    <3>2. Byte(after[k \div 4], k % 4) = IF k % 4 \in mask THEN lanes[k % 4]
                                         ELSE Byte(words[n], k % 4)
      BY <1>1, <2>1, <3>1, MergeBytes
    <3>3. QED BY <2>2, <2>3, <3>2
  <2>4. CASE k \div 4 # n
    <3>1. after[k \div 4] = words[k \div 4] BY <2>1, <2>4 DEF Written
    <3>2. QED BY <2>2, <2>4, <3>1
  <2>5. QED BY <2>3, <2>4
<1>5. QED BY <1>3, <1>4

-----------------------------------------------------------------------------
(* Loads and stores do what Isa says. *)

LEMMA AbstractSizes ==
  /\ Abstract!HSize = HSize /\ Abstract!WSize = WSize /\ Abstract!Word = Word
  /\ Abstract!Bytes = Bytes /\ Abstract!Pow2 = Pow2
  /\ \A v, n : Abstract!SignExtend(v, n) = SignExtend(v, n)
  /\ \A v, n : Abstract!Negative(v, n) = Negative(v, n)
  /\ \A v, n : Abstract!Byte(v, n) = Byte(v, n)
  /\ \A v : Abstract!Signed(v) = Signed(v)
  /\ \A a, b, op : Abstract!Bitwise(a, b, op) = Bitwise(a, b, op)
  /\ Abstract!Instructions = Instructions
<1>1. Abstract!HSize = HSize BY DEF Abstract!HSize, HSize
<1>2. Abstract!WSize = WSize BY <1>1 DEF Abstract!WSize, WSize
<1>3. Abstract!Word = Word BY <1>2 DEF Abstract!Word, Word
<1>4. Abstract!Bytes = Bytes BY DEF Abstract!Bytes, Bytes
<1>5. \A e, bit : Abstract!ShiftIn(e, bit) = ShiftIn(e, bit) BY DEF Abstract!ShiftIn, ShiftIn
<1>6. Abstract!Pow2 = Pow2 BY <1>5 DEF Abstract!Pow2, Pow2
<1>7. \A v, n : Abstract!Negative(v, n) = Negative(v, n) BY DEF Abstract!Negative, Negative
<1>8. \A v, n : Abstract!SignExtend(v, n) = SignExtend(v, n)
  BY <1>2, <1>7 DEF Abstract!SignExtend, SignExtend
<1>9. \A v, n : Abstract!Byte(v, n) = Byte(v, n)
  BY <1>1 DEF Abstract!Byte, Byte, Abstract!LaneWeight, LaneWeight
<1>10. \A v : Abstract!Signed(v) = Signed(v) BY <1>2, <1>7 DEF Abstract!Signed, Signed
<1>11. \A a, k : Abstract!Bit(a, k) = Bit(a, k) BY <1>6 DEF Abstract!Bit, Bit
<1>12. ASSUME NEW a, NEW b, NEW op PROVE Abstract!Bitwise(a, b, op) = Bitwise(a, b, op)
  BY <1>5, <1>11 DEF Abstract!Bitwise, Bitwise
<1>13. Abstract!Instructions = Instructions
  BY DEF Abstract!Instructions, Instructions, Abstract!Opcodes, Opcodes, Abstract!Funct3, Funct3
<1>14. QED BY <1>1, <1>2, <1>3, <1>4, <1>6, <1>7, <1>8, <1>9, <1>10, <1>12, <1>13

LEMMA InstructionFields ==
  ASSUME NEW i \in Instructions
  PROVE  /\ i.op \in Opcodes /\ i.f3 \in 0..7 /\ i.f3 \in Funct3[i.op] /\ i.alt \in BOOLEAN
         /\ i.rd \in RegIds /\ i.rs1 \in RegIds /\ i.rs2 \in RegIds /\ i.imm \in Int
BY DEF Instructions

LEMMA LoadFunct3 ==
  ASSUME NEW i \in Instructions
  PROVE  /\ i.op = "load" => i.f3 \in {0, 1, 2, 4, 5}
         /\ i.op = "store" => i.f3 \in {0, 1, 2}
         /\ i.op = "branch" => i.f3 \in {0, 1, 4, 5, 6, 7}
BY InstructionFields DEF Funct3

(* An address, its bits and its word. *)
LEMMA AddressBits ==
  ASSUME NEW a \in 0..(4 * RamWords - 1)
  PROVE  /\ a % 2 \in {0, 1} /\ (a \div 2) % 2 \in {0, 1}
         /\ a % 4 = 2 * ((a \div 2) % 2) + (a % 2)
BY RamSize, SMT

(* The bytes next to an aligned one are in the same word. *)
LEMMA Neighbours ==
  ASSUME NEW a \in 0..(4 * RamWords - 1), NEW n \in 0..3, (a % 4) + n < 4
  PROVE  /\ a + n \in 0..(4 * RamWords - 1)
         /\ (a + n) \div 4 = a \div 4 /\ (a + n) % 4 = (a % 4) + n
BY RamSize, SMT

LEMMA AddressType ==
  ASSUME TypeOK
  PROVE  /\ loadstore_addr \in 0..(4 * RamWords - 1)
         /\ loadstore_addr \div 4 \in 0..(RamWords - 1)
         /\ (loadstore_addr \div 4) % RamWords = loadstore_addr \div 4
<1>1. rs1 + instr.imm \in Int BY InstructionFields, Sizes, SMT DEF TypeOK, Word
<1>2. loadstore_addr \in 0..(ASize - 1) BY <1>1, RamSize, DivisionFacts, SMT DEF loadstore_addr
<1>3. loadstore_addr \in 0..(4 * RamWords - 1) BY <1>2, RamSize
<1>4. QED BY <1>3, ByteAddress

LEMMA LoadCorrect ==
  ASSUME TypeOK, ArchOK, Latched, instr.op = "load", Abstract!Aligned(instr),
         BytesOf(MEM) = arch.m
  PROVE  LOAD_data(MEM[loadstore_addr \div 4]) = Abstract!LoadValue(instr)
<1> DEFINE a == loadstore_addr
           w == MEM[a \div 4]
<1>1. a \in 0..(4 * RamWords - 1) /\ a \div 4 \in 0..(RamWords - 1) BY AddressType
<1>2. w \in Word BY <1>1 DEF TypeOK
<1>3. Abstract!Address(instr) = a BY DEF Abstract!Address, loadstore_addr, Latched
<1>4. \A k \in 0..(4 * RamWords - 1) : arch.m[k] = Byte(MEM[k \div 4], k % 4)
  BY DEF BytesOf
<1>5. ASSUME NEW n \in 0..3, (a % 4) + n < 4 PROVE arch.m[a + n] = Byte(w, (a % 4) + n)
  BY <1>1, <1>4, <1>5, Neighbours
<1>6. /\ Bit0 = a % 2 /\ Bit1 = (a \div 2) % 2
      /\ Bit0 \in {0, 1} /\ Bit1 \in {0, 1} /\ a % 4 = 2 * Bit1 + Bit0
  BY <1>1, AddressBits DEF Bit0, Bit1
<1>7. instr.f3 \in {0, 1, 2, 4, 5} BY LoadFunct3 DEF TypeOK
<1>8. a % Abstract!Width(instr) = 0 BY <1>3 DEF Abstract!Aligned
<1>9. a \in Nat /\ a + 0 = a BY <1>1, RamSize, SMT
<1> HIDE DEF a, w
<1>10. CASE instr.f3 \in {0, 4}
  <2>1. byteAccess /\ ~halfAccess /\ Abstract!Width(instr) = 1
    BY <1>10, SMT DEF byteAccess, halfAccess, Abstract!Width
  <2>2. arch.m[a] = Byte(w, a % 4)
    <3>1. (a % 4) + 0 = a % 4 /\ 0 \in 0..3 /\ (a % 4) + 0 < 4 BY <1>9, SMT
    <3>2. QED BY <1>5, <1>9, <3>1
  <2>3. LOAD_byte(w) = Byte(w, a % 4)
    <3>1. CASE Bit0 = 0 /\ Bit1 = 0 BY <1>2, <1>6, <3>1, WordBytes, SMT DEF LOAD_byte, LOAD_halfword
    <3>2. CASE Bit0 = 1 /\ Bit1 = 0 BY <1>2, <1>6, <3>2, WordBytes, SMT DEF LOAD_byte, LOAD_halfword
    <3>3. CASE Bit0 = 0 /\ Bit1 = 1 BY <1>2, <1>6, <3>3, WordBytes, SMT DEF LOAD_byte, LOAD_halfword
    <3>4. CASE Bit0 = 1 /\ Bit1 = 1 BY <1>2, <1>6, <3>4, WordBytes, SMT DEF LOAD_byte, LOAD_halfword
    <3>5. QED BY <1>6, <3>1, <3>2, <3>3, <3>4
  <2>4. LOAD_data(w) = Extend(arch.m[a], ByteSize) BY <2>1, <2>2, <2>3 DEF LOAD_data
  <2>5. Abstract!LoadValue(instr) = Extend(arch.m[a], ByteSize)
    BY <1>3, <2>1, AbstractSizes DEF Abstract!LoadValue, Extend
  <2>6. QED BY <2>4, <2>5 DEF a, w
<1>11. CASE instr.f3 \in {1, 5}
  <2>1. ~byteAccess /\ halfAccess /\ Abstract!Width(instr) = 2
    BY <1>11, SMT DEF byteAccess, halfAccess, Abstract!Width
  <2>2. Bit0 = 0 BY <1>6, <1>8, <2>1
  <2>3. a % 4 \in {0, 2} BY <1>6, <2>2, SMT
  <2>4. arch.m[a] = Byte(w, a % 4) /\ arch.m[a + 1] = Byte(w, (a % 4) + 1)
    <3>1. (a % 4) + 0 = a % 4 /\ 0 \in 0..3 /\ (a % 4) + 0 < 4 BY <1>9, SMT
    <3>2. 1 \in 0..3 /\ (a % 4) + 1 < 4 BY <2>3, SMT
    <3>3. QED BY <1>5, <1>9, <3>1, <3>2
  <2>5. LOAD_halfword(w) = Byte(w, a % 4) + ByteSize * Byte(w, (a % 4) + 1)
    <3>1. CASE Bit1 = 0
      <4>1. a % 4 = 0 /\ (a % 4) + 1 = 1 BY <1>6, <2>2, <3>1, SMT
      <4>2. QED BY <1>2, <3>1, <4>1, WordBytes DEF LOAD_halfword
    <3>2. CASE Bit1 = 1
      <4>1. a % 4 = 2 /\ (a % 4) + 1 = 3 BY <1>6, <2>2, <3>2, SMT
      <4>2. QED BY <1>2, <3>2, <4>1, WordBytes DEF LOAD_halfword
    <3>3. QED BY <1>6, <3>1, <3>2
  <2>6. LOAD_data(w) = Extend(arch.m[a] + ByteSize * arch.m[a + 1], HSize)
    BY <2>1, <2>4, <2>5 DEF LOAD_data
  <2>7. Abstract!LoadValue(instr) = Extend(arch.m[a] + ByteSize * arch.m[a + 1], HSize)
    BY <1>3, <2>1, AbstractSizes DEF Abstract!LoadValue, Extend
  <2>8. QED BY <2>6, <2>7 DEF a, w
<1>12. CASE instr.f3 = 2
  <2>1. ~byteAccess /\ ~halfAccess /\ Abstract!Width(instr) = 4
    BY <1>12, SMT DEF byteAccess, halfAccess, Abstract!Width
  <2>2. a % 4 = 0 BY <1>8, <2>1
  <2>3. /\ arch.m[a] = Byte(w, 0) /\ arch.m[a + 1] = Byte(w, 1)
        /\ arch.m[a + 2] = Byte(w, 2) /\ arch.m[a + 3] = Byte(w, 3)
    <3>1. ASSUME NEW n \in 0..3 PROVE arch.m[a + n] = Byte(w, n)
      <4>1. (a % 4) + n < 4 /\ (a % 4) + n = n BY <2>2, SMT
      <4>2. QED BY <1>5, <4>1
    <3>2. 0 \in 0..3 /\ 1 \in 0..3 /\ 2 \in 0..3 /\ 3 \in 0..3 BY SMT
    <3>3. QED BY <1>9, <3>1, <3>2
  <2>4. w = FromBytes(arch.m[a], arch.m[a + 1], arch.m[a + 2], arch.m[a + 3])
    BY <1>2, <2>3, WordBytes
  <2>5. LOAD_data(w) = w BY <2>1 DEF LOAD_data
  <2>6. SignExtend(w, WSize) = w
    <3>1. w \in Int BY <1>2, Sizes, SMT DEF Word
    <3>2. WSize - WSize + w = w BY <3>1, Sizes, SMT
    <3>3. QED BY <3>2 DEF SignExtend
  <2>7. Abstract!LoadValue(instr) = w
    BY <1>3, <1>12, <2>1, <2>4, <2>6, AbstractSizes DEF Abstract!LoadValue, FromBytes
  <2>8. QED BY <2>5, <2>7 DEF a, w
<1>13. QED BY <1>7, <1>10, <1>11, <1>12

(* The bytes of a store are bytes, on every lane. *)
LEMMA StoreLanes ==
  ASSUME TypeOK
  PROVE  /\ mem_wdata \in [0..3 -> Bytes] /\ Lanes \in [0..3 -> Bytes]
<1>1. rs2 \in Word BY DEF TypeOK
<1>2. ASSUME NEW lane \in 0..3 PROVE mem_wdata[lane] \in Bytes
  <2>1. lane \in {0, 1, 2, 3} BY SMT
  <2>2. QED BY <1>1, <2>1, WordBytes DEF mem_wdata
<1>3. mem_wdata \in [0..3 -> Bytes] BY <1>2 DEF mem_wdata
<1>4. 0 \in Bytes BY Sizes, SMT DEF Bytes
<1>5. [k \in 0..3 |-> 0] \in [0..3 -> Bytes] BY <1>4
<1>6. QED BY <1>3, <1>5 DEF Lanes

(* The mask covers the bytes of an aligned store and the lanes carry them.  *)
LEMMA StoreMask ==
  ASSUME TypeOK, instr.op = "store", loadstore_addr % Abstract!Width(instr) = 0,
         NEW k \in 0..(4 * RamWords - 1)
  PROVE  LET a == loadstore_addr IN
         /\ (k \div 4 = a \div 4 /\ k % 4 \in STORE_wmask)
              <=> k \in a..(a + Abstract!Width(instr) - 1)
         /\ k \in a..(a + Abstract!Width(instr) - 1) =>
              mem_wdata[k % 4] = Byte(rs2, k - a)
<1> DEFINE a == loadstore_addr
           j == k % 4
<1>1. a \in 0..(4 * RamWords - 1) BY AddressType
<1>2. /\ Bit0 = a % 2 /\ Bit1 = (a \div 2) % 2
      /\ Bit0 \in {0, 1} /\ Bit1 \in {0, 1} /\ a % 4 = 2 * Bit1 + Bit0
  BY <1>1, AddressBits DEF Bit0, Bit1
<1>3. instr.f3 \in {0, 1, 2} BY LoadFunct3 DEF TypeOK
<1>4. k = 4 * (k \div 4) + j /\ j \in 0..3 /\ k \div 4 \in Int BY ByteAddress, RamSize, SMT
<1>5. a = 4 * (a \div 4) + (a % 4) /\ a \div 4 \in Int /\ a \in Int
  BY <1>1, ByteAddress, RamSize, SMT
<1>6. /\ mem_wdata[0] = Byte(rs2, 0)
      /\ mem_wdata[1] = Byte(rs2, IF Bit0 = 1 THEN 0 ELSE 1)
      /\ mem_wdata[2] = Byte(rs2, IF Bit1 = 1 THEN 0 ELSE 2)
      /\ mem_wdata[3] = Byte(rs2, IF Bit0 = 1 THEN 0 ELSE IF Bit1 = 1 THEN 1 ELSE 3)
  <2>1. 0 \in 0..3 /\ 1 \in 0..3 /\ 2 \in 0..3 /\ 3 \in 0..3 BY SMT
  <2>2. QED BY <2>1 DEF mem_wdata
<1>7. j \in {0, 1, 2, 3} BY <1>4, SMT
<1>8. CASE instr.f3 = 0
  <2>1. byteAccess /\ Abstract!Width(instr) = 1 BY <1>8, SMT DEF byteAccess, Abstract!Width
  <2>2. STORE_wmask = {a % 4} BY <1>2, <2>1, <1>8, SMT DEF STORE_wmask, halfAccess, byteAccess
  <2> HIDE DEF a, j
  <2>3. (k \div 4 = a \div 4 /\ j \in {a % 4}) <=> k = a BY <1>4, <1>5, SMT
  <2>4. k \in a..(a + 1 - 1) <=> k = a BY <1>4, <1>5, SMT
  <2>5. ASSUME k = a PROVE mem_wdata[j] = Byte(rs2, k - a)
    <3>1. j = 2 * Bit1 + Bit0 /\ k - a = 0 BY <1>2, <1>4, <1>5, <2>5, SMT
    <3>2. CASE Bit0 = 0 /\ Bit1 = 0
      <4>1. j = 0 BY <3>1, <3>2, SMT
      <4>2. QED BY <1>6, <3>1, <4>1
    <3>3. CASE Bit0 = 1 /\ Bit1 = 0
      <4>1. j = 1 BY <3>1, <3>3, SMT
      <4>2. QED BY <1>6, <3>1, <3>3, <4>1
    <3>4. CASE Bit0 = 0 /\ Bit1 = 1
      <4>1. j = 2 BY <3>1, <3>4, SMT
      <4>2. QED BY <1>6, <3>1, <3>4, <4>1
    <3>5. CASE Bit0 = 1 /\ Bit1 = 1
      <4>1. j = 3 BY <3>1, <3>5, SMT
      <4>2. QED BY <1>6, <3>1, <3>5, <4>1
    <3>6. QED BY <1>2, <3>2, <3>3, <3>4, <3>5
  <2>6. QED BY <2>1, <2>2, <2>3, <2>4, <2>5 DEF a, j
<1>9. CASE instr.f3 = 1
  <2>1. ~byteAccess /\ halfAccess /\ Abstract!Width(instr) = 2
    BY <1>9, SMT DEF byteAccess, halfAccess, Abstract!Width
  <2>2. Bit0 = 0 BY <1>2, <2>1
  <2>3. STORE_wmask = {2 * Bit1, 2 * Bit1 + 1} BY <2>1 DEF STORE_wmask
  <2>4. a % 4 = 2 * Bit1 BY <1>2, <2>2, SMT
  <2> HIDE DEF a, j
  <2>5. (k \div 4 = a \div 4 /\ j \in {2 * Bit1, 2 * Bit1 + 1}) <=> (k = a \/ k = a + 1)
    BY <1>2, <1>4, <1>5, <2>4, SMT
  <2>6. k \in a..(a + 2 - 1) <=> (k = a \/ k = a + 1) BY <1>4, <1>5, SMT
  <2>7. ASSUME k = a PROVE mem_wdata[j] = Byte(rs2, k - a)
    <3>1. j = 2 * Bit1 /\ k - a = 0 BY <1>4, <1>5, <2>4, <2>7, SMT
    <3>2. CASE Bit1 = 0
      <4>1. j = 0 BY <3>1, <3>2, SMT
      <4>2. QED BY <1>6, <3>1, <4>1
    <3>3. CASE Bit1 = 1
      <4>1. j = 2 BY <3>1, <3>3, SMT
      <4>2. QED BY <1>6, <3>1, <3>3, <4>1
    <3>4. QED BY <1>2, <3>2, <3>3
  <2>8. ASSUME k = a + 1 PROVE mem_wdata[j] = Byte(rs2, k - a)
    <3>1. j = 2 * Bit1 + 1 /\ k - a = 1 BY <1>2, <1>4, <1>5, <2>4, <2>8, SMT
    <3>2. QED BY <1>2, <1>6, <1>7, <2>2, <3>1, SMT
  <2>9. QED BY <2>1, <2>3, <2>5, <2>6, <2>7, <2>8 DEF a, j
<1>10. CASE instr.f3 = 2
  <2>1. ~byteAccess /\ ~halfAccess /\ Abstract!Width(instr) = 4
    BY <1>10, SMT DEF byteAccess, halfAccess, Abstract!Width
  <2>2. Bit0 = 0 /\ Bit1 = 0 /\ a % 4 = 0 BY <1>2, <2>1, SMT
  <2>3. STORE_wmask = 0..3 BY <2>1 DEF STORE_wmask
  <2> HIDE DEF a, j
  <2>4. (k \div 4 = a \div 4 /\ j \in 0..3) <=> k \in a..(a + 4 - 1)
    BY <1>4, <1>5, <2>2, SMT
  <2>5. ASSUME k \div 4 = a \div 4 PROVE mem_wdata[j] = Byte(rs2, k - a)
    <3>1. k - a = j BY <1>4, <1>5, <2>2, <2>5, SMT
    <3>2. QED BY <1>6, <1>7, <2>2, <3>1, SMT
  <2>6. QED BY <2>1, <2>3, <2>4, <2>5 DEF a, j
<1>11. QED BY <1>3, <1>8, <1>9, <1>10

LEMMA StoreCorrect ==
  ASSUME TypeOK, ArchOK, Latched, instr.op = "store", BytesOf(MEM) = arch.m,
         NEW after,
         after = Written(MEM, loadstore_addr \div 4, STORE_wmask, mem_wdata)
  PROVE  after \in [0..(RamWords - 1) -> Word] /\ Stored(BytesOf(after))
<1> DEFINE a == loadstore_addr
           mm == BytesOf(after)
<1>1. a \div 4 \in 0..(RamWords - 1) /\ a \in 0..(4 * RamWords - 1) BY AddressType
<1>2. MEM \in [0..(RamWords - 1) -> Word] BY DEF TypeOK
<1>3. mem_wdata \in [0..3 -> Bytes] BY StoreLanes
<1>4. after = Written(MEM, a \div 4, STORE_wmask, mem_wdata)
  OBVIOUS
<1>5. Abstract!Address(instr) = a BY DEF Abstract!Address, loadstore_addr, Latched
<1> HIDE DEF a, mm
<1>6. /\ after \in [0..(RamWords - 1) -> Word]
      /\ \A k \in 0..(4 * RamWords - 1) :
           mm[k] = IF k \div 4 = a \div 4 /\ k % 4 \in STORE_wmask THEN mem_wdata[k % 4]
                   ELSE arch.m[k]
  <2>1. /\ after \in [0..(RamWords - 1) -> Word]
        /\ \A k \in 0..(4 * RamWords - 1) :
             BytesOf(after)[k] = IF k \div 4 = a \div 4 /\ k % 4 \in STORE_wmask
                                 THEN mem_wdata[k % 4] ELSE BytesOf(MEM)[k]
    BY <1>1, <1>2, <1>3, <1>4, WrittenBytes
  <2>2. QED BY <2>1 DEF mm
<1>7. mm \in [0..(4 * RamWords - 1) -> Bytes] BY <1>6, BytesOfType DEF mm
<1>8. DOMAIN arch.m = 0..(4 * RamWords - 1) BY DEF ArchOK
<1>9. CASE Abstract!Aligned(instr)
  <2>1. a % Abstract!Width(instr) = 0 BY <1>5, <1>9 DEF Abstract!Aligned
  <2>2. Abstract!StoreValue(instr) =
          [k \in 0..(4 * RamWords - 1) |->
             IF k \in a..(a + Abstract!Width(instr) - 1) THEN Byte(rs2, k - a) ELSE arch.m[k]]
    BY <1>5, <1>8, AbstractSizes DEF Abstract!StoreValue, Latched
  <2>3. ASSUME NEW k \in 0..(4 * RamWords - 1)
        PROVE  mm[k] = IF k \in a..(a + Abstract!Width(instr) - 1) THEN Byte(rs2, k - a)
                       ELSE arch.m[k]
    BY <1>6, <2>1, StoreMask DEF a
  <2>4. mm = Abstract!StoreValue(instr) BY <1>7, <2>2, <2>3
  <2>5. QED BY <1>6, <1>9, <2>4 DEF Stored, mm
<1>10. CASE ~Abstract!Aligned(instr)
  <2>1. \A k \in DOMAIN arch.m : k \div 4 # Abstract!Address(instr) \div 4 => mm[k] = arch.m[k]
    BY <1>5, <1>6, <1>8
  <2>2. QED BY <1>6, <1>7, <1>8, <1>10, <2>1 DEF Stored, mm
<1>11. QED BY <1>9, <1>10

-----------------------------------------------------------------------------
(* The arithmetic unit does what Isa says. *)

LEMMA BitOps ==
  /\ XorBit \in [{0, 1} \X {0, 1} -> {0, 1}]
  /\ OrBit \in [{0, 1} \X {0, 1} -> {0, 1}]
  /\ AndBit \in [{0, 1} \X {0, 1} -> {0, 1}]
<1>1. ASSUME NEW b \in {0, 1} \X {0, 1}
      PROVE  (b[1] + b[2]) % 2 \in {0, 1} /\ b[1] * b[2] \in {0, 1}
  <2>1. b[1] \in {0, 1} /\ b[2] \in {0, 1} OBVIOUS
  <2>2. QED BY <2>1, SMT
<1>2. QED BY <1>1 DEF XorBit, OrBit, AndBit

LEMMA AbstractBits ==
  Abstract!XorBit = XorBit /\ Abstract!OrBit = OrBit /\ Abstract!AndBit = AndBit
BY DEF Abstract!XorBit, XorBit, Abstract!OrBit, OrBit, Abstract!AndBit, AndBit

(* Sums, differences and immediates wrap to a word. *)
LEMMA WrapWord ==
  ASSUME NEW n \in Int
  PROVE  n % WSize \in Word
BY Sizes, DivisionFacts DEF Word

LEMMA AluInputs ==
  ASSUME TypeOK
  PROVE  aluIn1 \in Word /\ aluIn2 \in Word
<1>1. rs1 \in Word /\ rs2 \in Word /\ instr.imm \in Int BY InstructionFields DEF TypeOK
<1>2. instr.imm % WSize \in Word BY <1>1, WrapWord
<1>3. QED BY <1>1, <1>2 DEF aluIn1, aluIn2

LEMMA WordInt == \A v \in Word : v \in Nat /\ v < WSize
BY Sizes, SMT DEF Word

LEMMA SumsWrap ==
  ASSUME TypeOK
  PROVE  aluPlus \in Word /\ aluMinus \in Word
<1>1. aluIn1 + aluIn2 \in Int /\ aluIn1 - aluIn2 \in Int BY AluInputs, WordInt, SMT
<1>2. QED BY <1>1, WrapWord DEF aluPlus, aluMinus

(* The comparison with the sign bits is the comparison of the signed values. *)
LEMMA SignedComparison ==
  ASSUME TypeOK
  PROVE  LT <=> Signed(aluIn1) < Signed(aluIn2)
<1> DEFINE a == aluIn1
           b == aluIn2
<1>1. a \in Nat /\ a < WSize /\ b \in Nat /\ b < WSize BY AluInputs, WordInt
<1>2. WSize \in Nat /\ WSize \div 2 \in Int BY Sizes, SMT
<1>3. LT <=> IF Negative(a, WSize) # Negative(b, WSize) THEN Negative(a, WSize) ELSE a < b
  BY DEF LT, LTU
<1> HIDE DEF a, b
<1>4. LT <=> Signed(a) < Signed(b) BY <1>1, <1>2, <1>3, SMT DEF Signed, Negative
<1>5. QED BY <1>4 DEF a, b

LEMMA AluOutType ==
  ASSUME TypeOK
  PROVE  aluOut \in Word
<1>1. aluIn1 \in Word /\ aluIn2 \in Word /\ aluPlus \in Word /\ aluMinus \in Word
  BY AluInputs, SumsWrap
<1>2. aluReg \in Word /\ instr.f3 \in 0..7 BY InstructionFields DEF TypeOK
<1>3. 0 \in Word /\ 1 \in Word BY Sizes, SMT DEF Word
<1>4. Flag(LT) \in Word /\ Flag(LTU) \in Word BY <1>3 DEF Flag
<1>5. /\ Bitwise(aluIn1, aluIn2, XorBit) \in Word
      /\ Bitwise(aluIn1, aluIn2, OrBit) \in Word
      /\ Bitwise(aluIn1, aluIn2, AndBit) \in Word
  BY <1>1, BitOps, BitwiseWord
<1>6. instr.f3 \in {0, 1, 2, 3, 4, 5, 6, 7} BY <1>2, SMT
<1> HIDE DEF LT, LTU, Flag
<1>7. CASE instr.f3 = 0 BY <1>1, <1>7 DEF aluOut
<1>8. CASE instr.f3 \in {1, 5} BY <1>2, <1>8 DEF aluOut
<1>9. CASE instr.f3 = 2 BY <1>4, <1>9 DEF aluOut
<1>10. CASE instr.f3 = 3 BY <1>4, <1>10 DEF aluOut
<1>11. CASE instr.f3 = 4 BY <1>5, <1>11 DEF aluOut
<1>12. CASE instr.f3 = 6 BY <1>5, <1>12 DEF aluOut
<1>13. CASE instr.f3 = 7 BY <1>5, <1>13 DEF aluOut
<1>14. QED BY <1>6, <1>7, <1>8, <1>9, <1>10, <1>11, <1>12, <1>13

(* What the instruction computes, from the registers its fetch saw. *)
AluResult ==
  Abstract!Alu(instr, arch.x[instr.rs1],
               IF instr.op = "alureg" THEN arch.x[instr.rs2] ELSE instr.imm % WSize)

LEMMA AluCorrect ==
  ASSUME TypeOK, Latched, isALU, ~funct3IsShift
  PROVE  aluOut = AluResult
<1>1. AluResult = Abstract!Alu(instr, aluIn1, aluIn2)
  BY DEF AluResult, aluIn1, aluIn2, Latched, isALU
<1>2. instr.f3 \in {0, 2, 3, 4, 6, 7} /\ instr.alt \in BOOLEAN
  <2>1. instr.f3 \in 0..7 /\ instr.f3 \notin {1, 5} /\ instr.alt \in BOOLEAN
    BY InstructionFields DEF TypeOK, funct3IsShift
  <2>2. QED BY <2>1, SMT
<1>3. LT <=> Signed(aluIn1) < Signed(aluIn2) BY SignedComparison
<1> DEFINE a == aluIn1
           b == aluIn2
<1>4. /\ aluPlus = (a + b) % WSize /\ aluMinus = (a - b) % WSize
      /\ (LTU <=> a < b) /\ (LT <=> Signed(a) < Signed(b))
  BY <1>3 DEF aluPlus, aluMinus, LTU
<1> HIDE DEF a, b
<1>5. CASE instr.f3 = 0
  <2>1. CASE instr.alt /\ instr.op = "alureg"
    <3>1. Abstract!Alu(instr, a, b) = (a - b) % WSize
      BY <1>5, <2>1, AbstractSizes DEF Abstract!Alu
    <3>2. QED BY <1>1, <1>4, <1>5, <2>1, <3>1 DEF aluOut, a, b
  <2>2. CASE ~(instr.alt /\ instr.op = "alureg")
    <3>1. Abstract!Alu(instr, a, b) = (a + b) % WSize
      BY <1>5, <2>2, AbstractSizes DEF Abstract!Alu
    <3>2. QED BY <1>1, <1>4, <1>5, <2>2, <3>1 DEF aluOut, a, b
  <2>3. QED BY <2>1, <2>2
<1>6. CASE instr.f3 = 2
  <2>1. Abstract!Alu(instr, a, b) = IF Signed(a) < Signed(b) THEN 1 ELSE 0
    BY <1>6, AbstractSizes DEF Abstract!Alu
  <2>2. aluOut = Flag(LT) BY <1>6 DEF aluOut
  <2>3. QED BY <1>1, <1>4, <2>1, <2>2 DEF Flag, a, b
<1>7. CASE instr.f3 = 3
  <2>1. Abstract!Alu(instr, a, b) = IF a < b THEN 1 ELSE 0
    BY <1>7, AbstractSizes DEF Abstract!Alu
  <2>2. aluOut = Flag(LTU) BY <1>7 DEF aluOut
  <2>3. QED BY <1>1, <1>4, <2>1, <2>2 DEF Flag, a, b
<1>8. CASE instr.f3 = 4
  <2>1. Abstract!Alu(instr, a, b) = Bitwise(a, b, XorBit)
    BY <1>8, AbstractSizes, AbstractBits DEF Abstract!Alu
  <2>2. QED BY <1>1, <1>8, <2>1 DEF aluOut, a, b
<1>9. CASE instr.f3 = 6
  <2>1. Abstract!Alu(instr, a, b) = Bitwise(a, b, OrBit)
    BY <1>9, AbstractSizes, AbstractBits DEF Abstract!Alu
  <2>2. QED BY <1>1, <1>9, <2>1 DEF aluOut, a, b
<1>10. CASE instr.f3 = 7
  <2>1. Abstract!Alu(instr, a, b) = Bitwise(a, b, AndBit)
    BY <1>10, AbstractSizes, AbstractBits DEF Abstract!Alu
  <2>2. QED BY <1>1, <1>10, <2>1 DEF aluOut, a, b
<1>11. QED BY <1>2, <1>5, <1>6, <1>7, <1>8, <1>9, <1>10

(* A branch is taken when Isa takes it. *)
LEMMA BranchCorrect ==
  ASSUME TypeOK, Latched, instr.op = "branch"
  PROVE  predicate <=> Abstract!Taken(instr, arch.x[instr.rs1], arch.x[instr.rs2])
<1> DEFINE a == aluIn1
           b == aluIn2
<1>1. arch.x[instr.rs1] = a /\ arch.x[instr.rs2] = b BY DEF aluIn1, aluIn2, Latched
<1>2. instr.f3 \in {0, 1, 4, 5, 6, 7} BY LoadFunct3 DEF TypeOK
<1>3. a \in Nat /\ a < WSize /\ b \in Nat /\ b < WSize BY AluInputs, WordInt
<1>4. a \in 0..(WSize - 1) /\ b \in 0..(WSize - 1) /\ WSize \in Nat BY <1>3, Sizes, SMT
<1>5. LT <=> Signed(a) < Signed(b) BY SignedComparison
<1>6. aluMinus = (a - b) % WSize /\ (LTU <=> a < b) BY DEF aluMinus, LTU
<1> HIDE DEF a, b
<1>7. (EQ <=> a = b) BY <1>4, <1>6, DifferenceIsZero DEF EQ
<1>8. Signed(a) \in Int /\ Signed(b) \in Int BY <1>3, Sizes, SMT DEF Signed
<1>9. (~(Signed(a) < Signed(b)) <=> Signed(a) >= Signed(b)) /\ (~(a < b) <=> a >= b)
  BY <1>3, <1>8, SMT
<1> DEFINE T == Abstract!Taken(instr, a, b)
<1>10. CASE instr.f3 = 0
  <2>1. T <=> a = b BY <1>10 DEF Abstract!Taken
  <2>2. predicate <=> EQ BY <1>10 DEF predicate
  <2>3. QED BY <1>1, <1>7, <2>1, <2>2
<1>11. CASE instr.f3 = 1
  <2>1. T <=> a # b BY <1>11 DEF Abstract!Taken
  <2>2. predicate <=> ~EQ BY <1>11 DEF predicate
  <2>3. QED BY <1>1, <1>7, <2>1, <2>2
<1>12. CASE instr.f3 = 4
  <2>1. T <=> Signed(a) < Signed(b) BY <1>12, AbstractSizes DEF Abstract!Taken
  <2>2. predicate <=> LT BY <1>12 DEF predicate
  <2>3. QED BY <1>1, <1>5, <2>1, <2>2
<1>13. CASE instr.f3 = 5
  <2>1. T <=> Signed(a) >= Signed(b) BY <1>13, AbstractSizes DEF Abstract!Taken
  <2>2. predicate <=> ~LT BY <1>13 DEF predicate
  <2>3. QED BY <1>1, <1>5, <1>9, <2>1, <2>2
<1>14. CASE instr.f3 = 6
  <2>1. T <=> a < b BY <1>14 DEF Abstract!Taken
  <2>2. predicate <=> LTU BY <1>14 DEF predicate
  <2>3. QED BY <1>1, <1>6, <2>1, <2>2
<1>15. CASE instr.f3 = 7
  <2>1. T <=> a >= b BY <1>15 DEF Abstract!Taken
  <2>2. predicate <=> ~LTU BY <1>15 DEF predicate
  <2>3. QED BY <1>1, <1>6, <1>9, <2>1, <2>2
<1>16. QED BY <1>2, <1>10, <1>11, <1>12, <1>13, <1>14, <1>15

-----------------------------------------------------------------------------
(* The shifter, one place at an edge, computes the whole shift.            *)

(* A word has an even number of values: its halves are its signs.          *)
LEMMA EvenWord == \E h \in Nat : WSize = 2 * h /\ WSize \div 2 = h
<1>1. PICK c \in Nat : ByteSize = 2 * c
  <2>1. ByteSize \div 2 \in Nat /\ ByteSize = 2 * (ByteSize \div 2) BY ByteAssumption, SMT
  <2>2. QED BY <2>1
<1>2. HSize = 2 * (c * ByteSize) /\ c * ByteSize \in Nat BY <1>1, Sizes, SMT
<1> DEFINE d == c * ByteSize
<1>3. HSize = 2 * d /\ d \in Nat BY <1>2
<1> HIDE DEF d
<1>4. WSize = 2 * (d * HSize) /\ d * HSize \in Nat BY <1>3, Sizes, SMT
<1> DEFINE h == d * HSize
<1>5. WSize = 2 * h /\ h \in Nat BY <1>4
<1> HIDE DEF h
<1>6. WSize \div 2 = h BY <1>5, SMT
<1>7. QED BY <1>5, <1>6

LEMMA ShiftOnceType ==
  ASSUME TypeOK
  PROVE  ShiftOnce \in Word
<1>1. aluReg \in Word BY DEF TypeOK
<1>2. PICK h \in Nat : WSize = 2 * h /\ WSize \div 2 = h BY EvenWord
<1>3. aluReg \in Nat /\ aluReg < WSize BY <1>1, WordInt
<1>4. 2 * aluReg \in Int BY <1>3, SMT
<1>5. (2 * aluReg) % WSize \in Word BY <1>4, WrapWord
<1>6. aluReg \div 2 \in Nat /\ aluReg \div 2 < h BY <1>2, <1>3, SMT
<1>7. aluReg \div 2 \in Word /\ WSize \div 2 + (aluReg \div 2) \in Word
  BY <1>2, <1>6, SMT DEF Word
<1>8. QED BY <1>5, <1>7 DEF ShiftOnce

LEMMA ShiftStep ==
  ASSUME TypeOK, isALU, funct3IsShift, aluBusy
  PROVE  Shifted(ShiftOnce, aluShamt - 1) = Shifted(aluReg, aluShamt)
<1> DEFINE r == aluReg
           s == aluShamt
           p == Pow2[s - 1]
<1>1. r \in Nat /\ r < WSize BY WordInt DEF TypeOK
<1>2. s \in 1..XBits /\ s - 1 \in 0..XBits
  BY XBitsAssumption, SMT DEF TypeOK, aluBusy
<1>3. Pow2[s] = 2 * p /\ p \in Nat /\ p > 0 BY <1>2, Powers
<1>4. PICK h \in Nat : WSize = 2 * h /\ WSize \div 2 = h BY EvenWord
<1>5. WSize \in Nat /\ WSize > 0 BY Sizes, SMT
<1> HIDE DEF r, s, p
<1>6. CASE instr.f3 = 1
  <2>1. ShiftOnce = (2 * r) % WSize BY <1>6 DEF ShiftOnce, r
  <2>2. 2 * r \in Int /\ p \in Int BY <1>1, <1>3, SMT
  <2>3. (((2 * r) % WSize) * p) % WSize = ((2 * r) * p) % WSize
    BY <1>5, <2>2, ModuloProduct
  <2>4. (2 * r) * p = r * (2 * p) BY <1>1, <1>3, SMT
  <2>5. Shifted(ShiftOnce, s - 1) = (((2 * r) % WSize) * p) % WSize
    BY <1>6, <2>1 DEF Shifted, p
  <2>6. Shifted(r, s) = (r * (2 * p)) % WSize BY <1>3, <1>6 DEF Shifted
  <2>7. QED BY <2>3, <2>4, <2>5, <2>6 DEF r, s
<1>7. CASE instr.f3 = 5 /\ ~instr.alt
  <2>1. ShiftOnce = r \div 2 BY <1>7 DEF ShiftOnce, r
  <2>2. (r \div 2) \div p = r \div (2 * p) BY <1>1, <1>3, DivideTwice, SMT
  <2>3. Shifted(ShiftOnce, s - 1) = (r \div 2) \div p BY <1>7, <2>1 DEF Shifted, p
  <2>4. Shifted(r, s) = r \div (2 * p) BY <1>3, <1>7 DEF Shifted
  <2>5. QED BY <2>2, <2>3, <2>4 DEF r, s
<1>8. CASE instr.f3 = 5 /\ instr.alt
  <2>1. Signed(ShiftOnce) = Signed(r) \div 2
    <3>1. CASE r >= h
      <4>1. ShiftOnce = h + (r \div 2) BY <1>4, <1>8, <3>1 DEF ShiftOnce, Negative, r
      <4>2. Signed(r) = r - WSize BY <1>4, <3>1 DEF Signed, Negative
      <4>3. h + (r \div 2) >= h BY <1>1, SMT
      <4>4. Signed(ShiftOnce) = (h + (r \div 2)) - WSize BY <1>4, <4>1, <4>3 DEF Signed, Negative
      <4>5. (h + (r \div 2)) - 2 * h = (r - 2 * h) \div 2 BY <1>1, SMT
      <4>6. QED BY <1>4, <4>2, <4>4, <4>5
    <3>2. CASE ~(r >= h)
      <4>1. ShiftOnce = r \div 2 BY <1>4, <1>8, <3>2 DEF ShiftOnce, Negative, r
      <4>2. ~(r \div 2 >= h) BY <1>1, <3>2, SMT
      <4>3. QED BY <1>4, <3>2, <4>1, <4>2 DEF Signed, Negative
    <3>3. QED BY <3>1, <3>2
  <2>2. Signed(r) \in Int BY <1>1, <1>5, SMT DEF Signed
  <2>3. (Signed(r) \div 2) \div p = Signed(r) \div (2 * p) BY <1>3, <2>2, DivideTwice, SMT
  <2>4. Shifted(ShiftOnce, s - 1) = ((Signed(r) \div 2) \div p) % WSize
    BY <1>8, <2>1 DEF Shifted, p
  <2>5. Shifted(r, s) = (Signed(r) \div (2 * p)) % WSize BY <1>3, <1>8 DEF Shifted
  <2>6. QED BY <2>3, <2>4, <2>5 DEF r, s
<1>9. instr.alt \in BOOLEAN BY InstructionFields DEF TypeOK
<1>10. instr.f3 \in {1, 5} BY DEF funct3IsShift
<1>11. QED BY <1>6, <1>7, <1>8, <1>9, <1>10

(* Nothing is left to shift by zero places. *)
LEMMA ShiftedByZero ==
  ASSUME TypeOK, funct3IsShift, NEW v \in Word
  PROVE  Shifted(v, 0) = v
<1>1. v \in Nat /\ v < WSize /\ v \in 0..(WSize - 1) BY WordInt, Sizes, SMT
<1>2. WSize \in Nat /\ WSize > 0 BY Sizes, SMT
<1>3. v % WSize = v BY <1>1, <1>2, SmallModulo
<1>4. v * 1 = v /\ v \div 1 = v BY <1>1, SMT
<1>5. (Signed(v) \div 1) % WSize = v
  <2>1. Signed(v) \in Int BY <1>1, <1>2, SMT DEF Signed
  <2>2. Signed(v) \div 1 = Signed(v) BY <2>1, SMT
  <2>3. CASE Signed(v) = v BY <1>3, <2>2, <2>3
  <2>4. CASE Signed(v) = v - WSize
    <3>1. v - WSize = v + WSize * (-1) /\ v \in Int BY <1>1, <1>2, SMT
    <3>2. (v + WSize * (-1)) % WSize = v % WSize BY <1>2, <3>1, ModuloPeriod
    <3>3. QED BY <1>3, <2>2, <2>4, <3>1, <3>2
  <2>5. QED BY <2>3, <2>4 DEF Signed
<1>6. Pow2[0] = 1 BY Powers
<1>7. instr.alt \in BOOLEAN /\ instr.f3 \in {1, 5} BY InstructionFields DEF TypeOK, funct3IsShift
<1>8. CASE instr.f3 = 1 BY <1>3, <1>4, <1>6, <1>8 DEF Shifted
<1>9. CASE instr.f3 = 5 /\ ~instr.alt BY <1>4, <1>6, <1>9 DEF Shifted
<1>10. CASE instr.f3 = 5 /\ instr.alt BY <1>5, <1>6, <1>10 DEF Shifted
<1>11. QED BY <1>7, <1>8, <1>9, <1>10

LEMMA ShiftCorrect ==
  ASSUME TypeOK, Latched, isALU, funct3IsShift
  PROVE  Shifted(rs1, aluIn2 % XBits) = AluResult
<1>1. AluResult = Abstract!Alu(instr, rs1, aluIn2)
  BY DEF AluResult, aluIn2, Latched, isALU
<1>2. instr.alt \in BOOLEAN /\ instr.f3 \in {1, 5} BY InstructionFields DEF TypeOK, funct3IsShift
<1> DEFINE b == aluIn2
<1> HIDE DEF b
<1>3. CASE instr.f3 = 1
  <2>1. Abstract!Alu(instr, rs1, b) = (rs1 * Pow2[b % XBits]) % WSize
    BY <1>3, AbstractSizes DEF Abstract!Alu
  <2>2. QED BY <1>1, <1>3, <2>1 DEF Shifted, b
<1>4. CASE instr.f3 = 5 /\ ~instr.alt
  <2>1. Abstract!Alu(instr, rs1, b) = rs1 \div Pow2[b % XBits]
    BY <1>4, AbstractSizes DEF Abstract!Alu
  <2>2. QED BY <1>1, <1>4, <2>1 DEF Shifted, b
<1>5. CASE instr.f3 = 5 /\ instr.alt
  <2>1. Abstract!Alu(instr, rs1, b) = (Signed(rs1) \div Pow2[b % XBits]) % WSize
    BY <1>5, AbstractSizes DEF Abstract!Alu
  <2>2. QED BY <1>1, <1>5, <2>1 DEF Shifted, b
<1>6. QED BY <1>2, <1>3, <1>4, <1>5

-----------------------------------------------------------------------------
(* Type correctness. *)

LEMMA ExtendType ==
  ASSUME NEW n \in Nat, n <= WSize, NEW v \in 0..(n - 1)
  PROVE  Extend(v, n) \in Word
<1>1. WSize - n + v \in 0..(WSize - 1) /\ v \in 0..(WSize - 1) BY Sizes, SMT
<1>2. QED BY <1>1 DEF Extend, SignExtend, Word

LEMMA LoadType ==
  ASSUME NEW w \in Word
  PROVE  LOAD_data(w) \in Word
<1>1. LOAD_halfword(w) \in 0..(HSize - 1) /\ LOAD_byte(w) \in 0..(ByteSize - 1)
  <2> DEFINE b(k) == Byte(w, k)
  <2>1. b(0) \in Bytes /\ b(1) \in Bytes /\ b(2) \in Bytes /\ b(3) \in Bytes BY WordBytes
  <2>2. b(0) + ByteSize * b(1) \in 0..(HSize - 1) /\ b(2) + ByteSize * b(3) \in 0..(HSize - 1)
    <3> HIDE DEF b
    <3>1. /\ b(0) \in 0..(ByteSize - 1) /\ b(1) \in 0..(ByteSize - 1)
          /\ b(2) \in 0..(ByteSize - 1) /\ b(3) \in 0..(ByteSize - 1)
      BY <2>1 DEF Bytes
    <3>2. ByteSize \in Nat /\ ByteSize > 0 /\ ByteSize * ByteSize = HSize BY Sizes, SMT
    <3>3. b(0) + ByteSize * b(1) \in 0..(HSize - 1) BY <3>1, <3>2, TwoDigits
    <3>4. b(2) + ByteSize * b(3) \in 0..(HSize - 1) BY <3>1, <3>2, TwoDigits
    <3>5. QED BY <3>3, <3>4
  <2>3. w % HSize \in 0..(HSize - 1) /\ w \div HSize \in 0..(HSize - 1) BY <2>2, WordBytes
  <2>4. /\ (w % HSize) % ByteSize \in Bytes /\ (w % HSize) \div ByteSize \in Bytes
        /\ (w \div HSize) % ByteSize \in Bytes /\ (w \div HSize) \div ByteSize \in Bytes
    BY WordBytes
  <2>5. LOAD_halfword(w) \in 0..(HSize - 1) BY <2>3 DEF LOAD_halfword
  <2>6. LOAD_byte(w) \in Bytes BY <2>4 DEF LOAD_byte, LOAD_halfword
  <2>7. QED BY <2>5, <2>6 DEF Bytes
<1>2. ByteSize <= WSize /\ HSize <= WSize
  <2>1. \A n \in Nat : n > 1 => n <= n * n
    <3>1. TAKE n \in Nat
    <3>2. HAVE n > 1
    <3>3. PICK e \in Nat : n = 2 + e
      <4>1. n - 2 \in Nat /\ n = 2 + (n - 2) BY <3>2, SMT
      <4>2. QED BY <4>1
    <3>4. n * n = 2 * n + e * n /\ e * n \in Nat BY <3>3, SMT
    <3>5. QED BY <3>4, SMT
  <2>2. QED BY <2>1, Sizes, SMT
<1>3. Extend(LOAD_byte(w), ByteSize) \in Word BY <1>1, <1>2, ExtendType, Sizes
<1>4. Extend(LOAD_halfword(w), HSize) \in Word BY <1>1, <1>2, ExtendType, Sizes
<1>5. CASE byteAccess
  <2>1. LOAD_data(w) = Extend(LOAD_byte(w), ByteSize)
    <3>1. ~halfAccess BY <1>5, SMT DEF byteAccess, halfAccess
    <3>2. QED BY <1>5, <3>1 DEF LOAD_data
  <2>2. QED BY <1>3, <2>1
<1>6. CASE ~byteAccess /\ halfAccess BY <1>4, <1>6 DEF LOAD_data
<1>7. CASE ~byteAccess /\ ~halfAccess BY <1>7 DEF LOAD_data
<1>8. QED BY <1>5, <1>6, <1>7

(* Addresses are words. *)
LEMMA AddressWord ==
  /\ \A n \in Int : n % ASize \in 0..(ASize - 1)
  /\ \A a \in 0..(ASize - 1) : a \in Word /\ a \in Int
BY RamSize, ASizeAssumption, Sizes, DivisionFacts, SMT DEF Word

LEMMA NextPCType ==
  ASSUME TypeOK
  PROVE  /\ PCplus4 \in 0..(ASize - 1) /\ PCplusImm \in 0..(ASize - 1)
         /\ nextPC \in 0..(ASize - 1)
<1>1. PC \in Int /\ instr.imm \in Int BY AddressWord, InstructionFields DEF TypeOK
<1>2. PC + 4 \in Int /\ PC + instr.imm \in Int BY <1>1, SMT
<1>3. PCplus4 \in 0..(ASize - 1) /\ PCplusImm \in 0..(ASize - 1)
  BY <1>2, AddressWord DEF PCplus4, PCplusImm
<1>4. 2 * ((aluPlus % ASize) \div 2) \in 0..(ASize - 1)
  <2>1. aluPlus \in Int BY SumsWrap, WordInt, SMT
  <2>2. aluPlus % ASize \in 0..(ASize - 1) BY <2>1, AddressWord
  <2> DEFINE t == aluPlus % ASize
  <2>3. t \in 0..(ASize - 1) BY <2>2
  <2> HIDE DEF t
  <2>4. 2 * (t \div 2) \in 0..(ASize - 1) BY <2>3, RamSize, SMT
  <2>5. QED BY <2>4 DEF t
<1>5. CASE instr.op = "jalr"
  <2>1. ~jumpToPCplusImm BY <1>5 DEF jumpToPCplusImm
  <2>2. nextPC = 2 * ((aluPlus % ASize) \div 2) BY <1>5, <2>1 DEF nextPC
  <2>3. QED BY <1>3, <1>4, <2>2
<1>6. CASE instr.op # "jalr" BY <1>3, <1>6 DEF nextPC
<1>7. QED BY <1>5, <1>6

LEMMA WriteBackType ==
  ASSUME TypeOK, writeBack, NEW rdata \in Word
  PROVE  writeBackData(rdata) \in Word
<1>1. instr.op \in Opcodes /\ instr.imm \in Int BY InstructionFields DEF TypeOK
<1>2. instr.op \in {"load", "aluimm", "alureg", "lui", "auipc", "jal", "jalr", "system"}
  BY <1>1 DEF writeBack, Opcodes, Funct3
<1>3. CASE instr.op = "system"
  <2>1. cycles \in Word BY CycleAssumption, Sizes, SMT DEF TypeOK, Word
  <2>2. QED BY <1>3, <2>1 DEF writeBackData, isALU
<1>4. CASE instr.op = "lui" BY <1>1, <1>4, WrapWord DEF writeBackData, isALU
<1>5. CASE instr.op \in {"aluimm", "alureg"} BY <1>5, AluOutType DEF writeBackData, isALU
<1>6. CASE instr.op = "auipc" BY <1>6, NextPCType, AddressWord DEF writeBackData, isALU
<1>7. CASE instr.op \in {"jal", "jalr"} BY <1>7, NextPCType, AddressWord DEF writeBackData, isALU
<1>8. CASE instr.op = "load" BY <1>8, LoadType DEF writeBackData, isALU
<1>9. QED BY <1>2, <1>3, <1>4, <1>5, <1>6, <1>7, <1>8

(* One edge of the shifter. *)
LEMMA ShifterType ==
  ASSUME TypeOK, NEW rst \in BOOLEAN, Shifter(rst)
  PROVE  aluReg' \in Word /\ aluShamt' \in 0..(XBits - 1)
<1>1. aluReg \in Word /\ aluShamt \in 0..(XBits - 1) BY DEF TypeOK
<1>2. XBits \in Nat /\ XBits > 0 BY XBitsAssumption
<1>3. aluIn1 \in Word /\ aluIn2 \in Int BY AluInputs, WordInt, SMT
<1>4. aluIn2 % XBits \in 0..(XBits - 1) BY <1>2, <1>3, DivisionFacts
<1>5. aluBusy => aluShamt - 1 \in 0..(XBits - 1) BY <1>1, <1>2, SMT DEF aluBusy
<1>6. ShiftOnce \in Word BY ShiftOnceType
<1>7. aluReg' \in Word BY <1>1, <1>3, <1>6 DEF Shifter
<1>8. aluShamt' \in 0..(XBits - 1) BY <1>1, <1>4, <1>5 DEF Shifter
<1>9. QED BY <1>7, <1>8

(* One edge of the memory: only an executing store changes it. *)
LEMMA RamEdge ==
  ASSUME TypeOK, Ram
  PROVE  /\ MEM' \in [0..(RamWords - 1) -> Word] /\ mem_rdata' \in Word
         /\ ~(state = "EXECUTE" /\ instr.op = "store") => MEM' = MEM
         /\ state = "EXECUTE" /\ instr.op = "store" =>
              MEM' = Written(MEM, loadstore_addr \div 4, STORE_wmask, mem_wdata)
         /\ mem_rdata' = IF state = "FETCH_INSTR" \/ (state = "EXECUTE" /\ instr.op = "load")
                         THEN MEM[mem_addr \div 4] ELSE mem_rdata
<1> DEFINE word == (mem_addr \div 4) % RamWords
<1>1. mem_addr \in 0..(4 * RamWords - 1)
  BY AddressType, RamSize DEF mem_addr, TypeOK
<1>2. word = mem_addr \div 4 /\ word \in 0..(RamWords - 1) BY <1>1, ByteAddress
<1>3. MEM' = Written(MEM, word, mem_wmask, Lanes)
  BY DEF Ram, Bram, Written
<1>4. mem_rdata' = IF mem_rstrb THEN MEM[word] ELSE mem_rdata BY DEF Ram, Bram
<1>5. Lanes \in [0..3 -> Bytes] /\ mem_wdata \in [0..3 -> Bytes] BY StoreLanes
<1>6. MEM \in [0..(RamWords - 1) -> Word] /\ mem_rdata \in Word BY DEF TypeOK
<1> HIDE DEF word
<1>7. MEM' \in [0..(RamWords - 1) -> Word] BY <1>2, <1>3, <1>5, <1>6, WrittenBytes
<1>8. mem_rdata' \in Word BY <1>2, <1>4, <1>6
<1>9. ASSUME ~(state = "EXECUTE" /\ instr.op = "store") PROVE MEM' = MEM
  <2>1. mem_wmask = {} BY <1>9 DEF mem_wmask
  <2>2. MEM[word] \in Word BY <1>2, <1>6
  <2>3. Merge(MEM[word], {}, Lanes) = MEM[word] BY <1>5, <2>2, MergeNothing
  <2>4. QED BY <1>2, <1>3, <1>6, <2>1, <2>3 DEF Written
<1>10. ASSUME state = "EXECUTE", instr.op = "store"
       PROVE  MEM' = Written(MEM, loadstore_addr \div 4, STORE_wmask, mem_wdata)
  <2>1. mem_wmask = STORE_wmask BY <1>10 DEF mem_wmask
  <2>2. mem_addr = loadstore_addr BY <1>10 DEF mem_addr
  <2>3. STORE_wmask # {}
    <3>1. 0 \in 0..3 BY SMT
    <3>2. QED BY <3>1 DEF STORE_wmask
  <2>4. Lanes = mem_wdata BY <2>1, <2>3 DEF Lanes
  <2>5. QED BY <1>2, <1>3, <2>1, <2>2, <2>4
<1>11. QED BY <1>2, <1>4, <1>7, <1>8, <1>9, <1>10 DEF mem_rstrb

(* One edge of the processor and its memory keeps the types. *)
LEMMA EdgeType ==
  ASSUME TypeOK, NEW rdata,
         state = "WAIT_INSTR" => rdata \in Instructions,
         state # "WAIT_INSTR" => rdata \in Word,
         Edge(rdata)
  PROVE  TypeOK'
<1>1. /\ WriteBack(rdata) /\ Shifter(FALSE) /\ Count(FALSE) /\ Ram
      /\ FetchInstr \/ WaitInstr(rdata, FALSE) \/ Execute \/ WaitAluOrMem(FALSE, FALSE)
  BY DEF Edge, Run
<1>2. aluReg' \in Word /\ aluShamt' \in 0..(XBits - 1) BY <1>1, ShifterType
<1>3. MEM' \in [0..(RamWords - 1) -> Word] /\ mem_rdata' \in Word BY <1>1, RamEdge
<1>4. cycles' \in 0..(CycleSize - 1)
  <2>1. cycles \in Int /\ CycleSize \in Nat /\ CycleSize > 0
    BY CycleAssumption, Sizes, SMT DEF TypeOK
  <2>2. cycles + 1 \in Int BY <2>1, SMT
  <2>3. QED BY <1>1, <2>1, <2>2, DivisionFacts DEF Count
<1>5. registerFile' \in [RegIds -> Word]
  <2>1. registerFile \in [RegIds -> Word] BY DEF TypeOK
  <2>2. CASE writeBack
    <3>1. state # "WAIT_INSTR" BY <2>2 DEF writeBack
    <3>2. writeBackData(rdata) \in Word BY <2>2, <3>1, WriteBackType
    <3>3. QED BY <1>1, <2>1, <2>2, <3>2 DEF WriteBack
  <2>3. CASE ~writeBack BY <1>1, <2>1, <2>3 DEF WriteBack
  <2>4. QED BY <2>2, <2>3
<1>6. /\ state' \in States /\ PC' \in 0..(ASize - 1) /\ instr' \in Instructions
      /\ rs1' \in Word /\ rs2' \in Word
  <2>1. CASE FetchInstr BY <2>1 DEF FetchInstr, TypeOK, States
  <2>2. CASE WaitInstr(rdata, FALSE)
    <3>1. rdata \in Instructions BY <2>2 DEF WaitInstr
    <3>2. rdata.rs1 \in RegIds /\ rdata.rs2 \in RegIds BY <3>1, InstructionFields
    <3>3. QED BY <2>2, <3>1, <3>2 DEF WaitInstr, TypeOK, States
  <2>3. CASE Execute
    <3>1. nextPC \in 0..(ASize - 1) BY NextPCType
    <3>2. QED BY <2>3, <3>1 DEF Execute, TypeOK, States
  <2>4. CASE WaitAluOrMem(FALSE, FALSE) BY <2>4 DEF WaitAluOrMem, TypeOK, States
  <2>5. QED BY <1>1, <2>1, <2>2, <2>3, <2>4
<1>7. QED BY <1>2, <1>3, <1>4, <1>5, <1>6 DEF TypeOK

LEMMA ResetType ==
  ASSUME TypeOK, Reset, Ram
  PROVE  TypeOK'
<1>1. aluReg' \in Word /\ aluShamt' \in 0..(XBits - 1) BY ShifterType DEF Reset
<1>2. MEM' \in [0..(RamWords - 1) -> Word] /\ mem_rdata' \in Word BY RamEdge
<1>3. 0 \in Word /\ 0 \in 0..(ASize - 1) /\ 0 \in 0..(CycleSize - 1)
  BY RamSize, CycleAssumption, Sizes, SMT DEF Word
<1>4. cycles' \in 0..(CycleSize - 1) BY <1>3 DEF Reset, Count
<1>5. registerFile' \in [RegIds -> Word] BY <1>3 DEF Reset, TypeOK
<1>6. /\ state' \in States /\ PC' \in 0..(ASize - 1) /\ instr' \in Instructions
      /\ rs1' \in Word /\ rs2' \in Word
  BY <1>3 DEF Reset, TypeOK, States
<1>7. QED BY <1>1, <1>2, <1>4, <1>5, <1>6 DEF TypeOK

(* The types and the scenario are all that type correctness needs. *)
Typed == TypeOK /\ scenario \in Scenarios

LEMMA TypedInit == Init => Typed
<1> SUFFICES ASSUME Init PROVE Typed OBVIOUS
<1>1. scenario \in Scenarios BY DEF Init
<1>2. /\ InitRegs[scenario] \subseteq {r \in [RegIds -> Word] : r[0] = 0}
      /\ InitRams[scenario] \subseteq [0..(RamWords - 1) -> Word]
      /\ InitPCs[scenario] \subseteq 0..(ASize - 1)
  BY <1>1, InitAssumption
<1>3. instr \in Instructions BY <1>1, CodeAssumption DEF Init
<1>4. 0 \in Word /\ 0 \in 0..(XBits - 1) /\ 0 \in 0..(CycleSize - 1)
  BY XBitsAssumption, CycleAssumption, Sizes, SMT DEF Word
<1>5. QED BY <1>1, <1>2, <1>3, <1>4 DEF Init, Typed, TypeOK, States

LEMMA TypedNext == Typed /\ [Next]_vars => Typed'
<1> SUFFICES ASSUME Typed, [Next]_vars PROVE Typed' OBVIOUS
<1>1. TypeOK /\ scenario \in Scenarios BY DEF Typed
<1>2. CASE Tick
  <2>1. mem_rdata \in Word BY <1>1 DEF TypeOK
  <2>2. TypeOK' BY <1>1, <1>2, <2>1, EdgeType DEF Tick
  <2>3. QED BY <1>1, <1>2, <2>2 DEF Tick, Typed
<1>3. CASE Fetch
  <2>1. PICK i \in Code[scenario] : Edge(i) BY <1>3 DEF Fetch
  <2>2. i \in Instructions BY <1>1, CodeAssumption
  <2>3. TypeOK' BY <1>1, <1>3, <2>1, <2>2, EdgeType DEF Fetch
  <2>4. QED BY <1>1, <1>3, <2>3 DEF Fetch, Typed
<1>4. CASE PressReset
  <2>1. TypeOK' BY <1>1, <1>4, ResetType DEF PressReset
  <2>2. QED BY <1>1, <1>4, <2>1 DEF PressReset, Typed
<1>5. CASE UNCHANGED vars
  BY <1>1, <1>5 DEF vars, cpuVars, ram, Typed, TypeOK
<1>6. QED BY <1>2, <1>3, <1>4, <1>5 DEF Next

(* Registers, memory, shifter, counter and program counter stay in range,  *)
(* for every size, every program and any resets (quark_V2.v, bram.v).       *)
THEOREM TypeCorrect == Spec => []TypeOK
<1>1. Typed => TypeOK BY DEF Typed
<1>2. QED BY <1>1, TypedInit, TypedNext, PTL DEF Spec

-----------------------------------------------------------------------------
(* The registers of the program. *)

(* At a write back only the target differs, by the value written. *)
LEMMA WrittenRegister ==
  ASSUME TypeOK, ArchOK, OthersKept, NEW rdata, WriteBack(rdata), writeBack
  PROVE  registerFile' = IF instr.rd = 0 THEN arch.x
                         ELSE [arch.x EXCEPT ![instr.rd] = writeBackData(rdata)]
<1>1. registerFile \in [RegIds -> Word] /\ arch.x \in [RegIds -> Word]
  BY DEF TypeOK, ArchOK
<1>2. instr.rd \in RegIds BY InstructionFields DEF TypeOK
<1> DEFINE v == writeBackData(rdata)
           x == arch.x
           d == instr.rd
<1>3. registerFile' = IF d # 0 THEN [registerFile EXCEPT ![d] = v] ELSE registerFile
  BY DEF WriteBack
<1>4. \A r \in RegIds : registerFile[r] = x[r] \/ (r = d /\ r # 0) BY DEF OthersKept
<1>5. d \in RegIds /\ x \in [RegIds -> Word] BY <1>1, <1>2
<1> HIDE DEF v, x, d
<1>6. CASE d = 0
  <2>1. \A r \in RegIds : registerFile[r] = x[r] BY <1>4, <1>6
  <2>2. QED BY <1>1, <1>3, <1>5, <1>6, <2>1 DEF x, d
<1>7. CASE d # 0
  <2>1. \A r \in RegIds : [registerFile EXCEPT ![d] = v][r] = [x EXCEPT ![d] = v][r]
    BY <1>1, <1>4, <1>5
  <2>2. [registerFile EXCEPT ![d] = v] = [x EXCEPT ![d] = v] BY <1>1, <1>5, <2>1
  <2>3. QED BY <1>3, <1>7, <2>2 DEF x, d, v
<1>8. QED BY <1>6, <1>7

LEMMA StillOthersKept ==
  ASSUME TypeOK, ArchOK, OthersKept, registerFile[0] = 0, NEW rdata, WriteBack(rdata),
         instr' = instr, arch' = arch
  PROVE  OthersKept' /\ registerFile'[0] = 0
<1>1. registerFile \in [RegIds -> Word] BY DEF TypeOK
<1>2. instr.rd \in RegIds /\ 0 \in RegIds BY InstructionFields, RegAssumption DEF TypeOK
<1>3. \A r \in RegIds : r # instr.rd \/ r = 0 => registerFile'[r] = registerFile[r]
  BY <1>1, <1>2 DEF WriteBack
<1>4. OthersKept' BY <1>3 DEF OthersKept
<1>5. QED BY <1>2, <1>3, <1>4

LEMMA FetchKept ==
  ASSUME AtFetch
  PROVE  OthersKept /\ arch.pc = PC /\ arch.x = registerFile /\ arch.m = BytesOf(MEM)
BY DEF AtFetch, Arch, OthersKept

LEMMA NotWritten ==
  ASSUME NEW rdata, WriteBack(rdata), ~writeBack
  PROVE  registerFile' = registerFile
BY DEF WriteBack

(* What the program saw is a program state. *)
LEMMA ObserveType ==
  ASSUME TypeOK', ArchOK, Observe
  PROVE  ArchOK'
<1>1. BytesOf(MEM') \in [0..(4 * RamWords - 1) -> Bytes] BY BytesOfType DEF TypeOK
<1>2. Arch(PC', registerFile', MEM') \in
        [pc : 0..(ASize - 1), x : [RegIds -> Word], m : [0..(4 * RamWords - 1) -> Bytes]]
  BY <1>1 DEF Arch, TypeOK
<1>3. QED BY <1>2 DEF Observe, ArchOK

-----------------------------------------------------------------------------
(* The edges that finish an instruction are steps of Isa. *)

(* The step the program sees, by what it changes. *)
LEMMA SeenStep ==
  ASSUME Observe, state' = "FETCH_INSTR"
  PROVE  arch'.pc = PC' /\ arch'.x = registerFile' /\ arch'.m = BytesOf(MEM')
BY DEF Observe, Arch

(* A program counter that moves on. *)
LEMMA AdvanceCorrect ==
  ASSUME TypeOK, Latched, arch.pc = PC, instr.op \notin {"load", "store", "system"}
  PROVE  /\ instr.op \in {"aluimm", "alureg", "lui", "auipc"} =>
              nextPC = (arch.pc + 4) % ASize
         /\ instr.op = "jal" => nextPC = (arch.pc + instr.imm) % ASize
         /\ instr.op = "jalr" =>
              nextPC = LET t == (arch.x[instr.rs1] + instr.imm) % WSize
                       IN  (t - (t % 2)) % ASize
         /\ instr.op = "branch" =>
              nextPC = (IF Abstract!Taken(instr, arch.x[instr.rs1], arch.x[instr.rs2])
                        THEN arch.pc + instr.imm ELSE arch.pc + 4) % ASize
<1>1. ASSUME instr.op \in {"aluimm", "alureg", "lui", "auipc"}
      PROVE  nextPC = (arch.pc + 4) % ASize
  <2>1. ~jumpToPCplusImm /\ instr.op # "jalr" BY <1>1 DEF jumpToPCplusImm
  <2>2. QED BY <2>1 DEF nextPC, PCplus4
<1>2. ASSUME instr.op = "jal" PROVE nextPC = (arch.pc + instr.imm) % ASize
  <2>1. jumpToPCplusImm /\ instr.op # "jalr" BY <1>2 DEF jumpToPCplusImm
  <2>2. QED BY <2>1 DEF nextPC, PCplusImm
<1>3. ASSUME instr.op = "branch"
      PROVE  nextPC = (IF Abstract!Taken(instr, arch.x[instr.rs1], arch.x[instr.rs2])
                       THEN arch.pc + instr.imm ELSE arch.pc + 4) % ASize
  <2>1. predicate <=> Abstract!Taken(instr, arch.x[instr.rs1], arch.x[instr.rs2])
    BY <1>3, BranchCorrect
  <2>2. (jumpToPCplusImm <=> predicate) /\ instr.op # "jalr" BY <1>3 DEF jumpToPCplusImm
  <2>3. nextPC = IF predicate THEN (PC + instr.imm) % ASize ELSE (PC + 4) % ASize
    BY <2>2 DEF nextPC, PCplusImm, PCplus4
  <2>4. QED BY <2>1, <2>3
<1>4. ASSUME instr.op = "jalr"
      PROVE  nextPC = LET t == (arch.x[instr.rs1] + instr.imm) % WSize
                      IN  (t - (t % 2)) % ASize
  <2>1. ~jumpToPCplusImm BY <1>4 DEF jumpToPCplusImm
  <2>2. nextPC = 2 * ((aluPlus % ASize) \div 2) BY <1>4, <2>1 DEF nextPC
  <2>3. rs1 \in Int /\ instr.imm \in Int BY InstructionFields, WordInt, SMT DEF TypeOK
  <2>4. aluPlus = (rs1 + (instr.imm % WSize)) % WSize BY <1>4 DEF aluPlus, aluIn1, aluIn2
  <2>5. aluPlus = (rs1 + instr.imm) % WSize
    <3>1. WSize \in Nat /\ WSize > 0 BY Sizes, SMT
    <3>2. QED BY <2>3, <2>4, <3>1, ModuloSum
  <2>6. aluPlus \in Nat BY SumsWrap, WordInt
  <2>7. ASize = 2 * (2 * RamWords) /\ 2 * RamWords \in Nat /\ 2 * RamWords > 0
    BY RamSize, SMT
  <2> DEFINE t == aluPlus
             h == 2 * RamWords
  <2>8. t \in Nat /\ h \in Nat /\ h > 0 /\ ASize = 2 * h BY <2>6, <2>7
  <2> HIDE DEF t, h
  <2>9. 2 * ((t % (2 * h)) \div 2) = (t - (t % 2)) % (2 * h) BY <2>8, EvenAddress
  <2>10. nextPC = (t - (t % 2)) % ASize BY <2>2, <2>8, <2>9 DEF t
  <2>11. t = (arch.x[instr.rs1] + instr.imm) % WSize BY <2>5 DEF t, Latched
  <2>12. QED BY <2>10, <2>11
<1>5. QED BY <1>1, <1>2, <1>3, <1>4

(* An instruction that needs not wait retires in its EXECUTE edge. *)
LEMMA ExecuteRetires ==
  ASSUME TypeOK, ArchOK, AtFetch, Latched, state = "EXECUTE", ~needToWait,
         NEW rdata, Execute, WriteBack(rdata), Ram, Observe
  PROVE  Abstract!Step(instr)
<1>1. /\ OthersKept /\ arch.pc = PC /\ arch.x = registerFile /\ arch.m = BytesOf(MEM)
  BY FetchKept
<1>2. instr.op \in {"aluimm", "alureg", "branch", "lui", "auipc", "jal", "jalr", "system"}
  BY InstructionFields DEF TypeOK, Opcodes, Funct3, needToWait
<1>3. state' = "FETCH_INSTR" /\ PC' = nextPC BY DEF Execute
<1>4. MEM' = MEM BY <1>2, RamEdge
<1>5. arch'.pc = nextPC /\ arch'.x = registerFile' /\ arch'.m = arch.m
  BY <1>1, <1>3, <1>4, SeenStep
<1>6. instr.op # "branch" =>
        arch'.x = IF instr.rd = 0 THEN arch.x
                  ELSE [arch.x EXCEPT ![instr.rd] = writeBackData(rdata)]
  BY <1>1, <1>2, <1>5, WrittenRegister DEF writeBack
<1>7. CASE instr.op \in {"aluimm", "alureg"}
  <2>1. isALU /\ ~funct3IsShift BY <1>7 DEF isALU, needToWait
  <2>2. aluOut = AluResult BY <2>1, AluCorrect
  <2>3. writeBackData(rdata) = AluResult BY <1>7, <2>1, <2>2 DEF writeBackData
  <2>4. nextPC = (arch.pc + 4) % ASize BY <1>1, <1>7, AdvanceCorrect
  <2>5. Abstract!Arithmetic(instr)
    BY <1>5, <1>6, <1>7, <2>3, <2>4, AbstractSizes
    DEF Abstract!Arithmetic, Abstract!SetRegister, Abstract!Advance, AluResult
  <2>6. QED BY <2>5 DEF Abstract!Step
<1>8. CASE instr.op \in {"lui", "auipc"}
  <2>1. ~isALU BY <1>8 DEF isALU
  <2>2. writeBackData(rdata) = IF instr.op = "lui" THEN instr.imm % WSize
                               ELSE (arch.pc + instr.imm) % ASize
    BY <1>1, <1>8, <2>1 DEF writeBackData, PCplusImm
  <2>3. nextPC = (arch.pc + 4) % ASize BY <1>1, <1>8, AdvanceCorrect
  <2>4. Abstract!Upper(instr)
    BY <1>5, <1>6, <1>8, <2>2, <2>3, AbstractSizes
    DEF Abstract!Upper, Abstract!SetRegister, Abstract!Advance
  <2>5. QED BY <2>4 DEF Abstract!Step
<1>9. CASE instr.op \in {"jal", "jalr"}
  <2>1. ~isALU BY <1>9 DEF isALU
  <2>2. writeBackData(rdata) = (arch.pc + 4) % ASize
    BY <1>1, <1>9, <2>1 DEF writeBackData, PCplus4
  <2>3. IF instr.op = "jal" THEN nextPC = (arch.pc + instr.imm) % ASize
        ELSE nextPC = LET t == (arch.x[instr.rs1] + instr.imm) % WSize
                      IN  (t - (t % 2)) % ASize
    BY <1>1, <1>9, AdvanceCorrect
  <2>4. Abstract!Jump(instr)
    BY <1>5, <1>6, <1>9, <2>2, <2>3, AbstractSizes
    DEF Abstract!Jump, Abstract!SetRegister, Abstract!Advance
  <2>5. QED BY <2>4 DEF Abstract!Step
<1>10. CASE instr.op = "branch"
  <2>1. ~writeBack BY <1>10 DEF writeBack
  <2>2. arch'.x = arch.x BY <1>1, <1>5, <2>1, NotWritten
  <2>3. nextPC = (IF Abstract!Taken(instr, arch.x[instr.rs1], arch.x[instr.rs2])
                  THEN arch.pc + instr.imm ELSE arch.pc + 4) % ASize
    BY <1>1, <1>10, AdvanceCorrect
  <2>4. Abstract!Branch(instr)
    BY <1>5, <1>10, <2>2, <2>3 DEF Abstract!Branch, Abstract!Advance
  <2>5. QED BY <2>4 DEF Abstract!Step
<1>11. CASE instr.op = "system"
  <2>1. ~isALU /\ ~jumpToPCplusImm BY <1>11 DEF isALU, jumpToPCplusImm
  <2>2. writeBackData(rdata) = cycles BY <1>11, <2>1 DEF writeBackData
  <2>3. nextPC = (arch.pc + 4) % ASize BY <1>1, <1>11, <2>1 DEF nextPC, PCplus4
  <2>4. cycles \in Word BY CycleAssumption, Sizes, SMT DEF TypeOK, Word
  <2>5. Abstract!ReadCounter(instr)
    BY <1>5, <1>6, <1>11, <2>2, <2>3, <2>4, AbstractSizes
    DEF Abstract!ReadCounter, Abstract!SetRegister, Abstract!Advance
  <2>6. QED BY <2>5 DEF Abstract!Step
<1>12. QED BY <1>2, <1>7, <1>8, <1>9, <1>10, <1>11

(* One that waited retires when the wait is over. *)
LEMMA WaitRetires ==
  ASSUME TypeOK, ArchOK, OthersKept, Retiring, state = "WAIT_ALU_OR_MEM", ~aluBusy,
         WaitAluOrMem(FALSE, FALSE), WriteBack(mem_rdata), Ram, Observe
  PROVE  Abstract!Step(instr)
<1>1. instr.op \in {"load", "store", "aluimm", "alureg"} /\ (isALU => funct3IsShift)
  BY DEF Retiring, needToWait, isALU
<1>2. state' = "FETCH_INSTR" /\ PC' = PC BY DEF WaitAluOrMem
<1>3. MEM' = MEM BY RamEdge
<1>4. arch'.pc = PC /\ arch'.x = registerFile' /\ arch'.m = BytesOf(MEM)
  BY <1>2, <1>3, SeenStep
<1>5. PC = (arch.pc + 4) % ASize BY DEF Retiring
<1>6. instr.op # "store" =>
        arch'.x = IF instr.rd = 0 THEN arch.x
                  ELSE [arch.x EXCEPT ![instr.rd] = writeBackData(mem_rdata)]
  BY <1>1, <1>4, WrittenRegister DEF writeBack
<1>7. CASE instr.op \in {"aluimm", "alureg"}
  <2>1. isALU /\ funct3IsShift BY <1>1, <1>7 DEF isALU
  <2>2. Shifted(aluReg, aluShamt) = AluResult BY <2>1, ShiftCorrect DEF Retiring
  <2>3. Shifted(aluReg, 0) = aluReg BY <2>1, ShiftedByZero DEF TypeOK
  <2>4. aluOut = aluReg BY <2>1 DEF aluOut, funct3IsShift
  <2>5. writeBackData(mem_rdata) = AluResult
    BY <1>7, <2>1, <2>2, <2>3, <2>4 DEF writeBackData, aluBusy
  <2>6. arch'.m = arch.m BY <1>4, <1>7 DEF Retiring
  <2>7. Abstract!Arithmetic(instr)
    BY <1>4, <1>5, <1>6, <1>7, <2>5, <2>6, AbstractSizes
    DEF Abstract!Arithmetic, Abstract!SetRegister, Abstract!Advance, AluResult
  <2>8. QED BY <2>7 DEF Abstract!Step
<1>8. CASE instr.op = "load"
  <2>1. BytesOf(MEM) = arch.m /\ Latched /\ mem_rdata = MEM[loadstore_addr \div 4]
    BY <1>8 DEF Retiring
  <2>2. ~isALU BY <1>8 DEF isALU
  <2>3. writeBackData(mem_rdata) = LOAD_data(mem_rdata) BY <1>8, <2>2 DEF writeBackData
  <2>4. LOAD_data(mem_rdata) \in Word BY LoadType DEF TypeOK
  <2>5. Abstract!Aligned(instr) => LOAD_data(mem_rdata) = Abstract!LoadValue(instr)
    BY <1>8, <2>1, LoadCorrect
  <2>6. Abstract!LoadFrom(instr)
    BY <1>4, <1>5, <1>6, <1>8, <2>1, <2>3, <2>4, <2>5, AbstractSizes
    DEF Abstract!LoadFrom, Abstract!SetRegister, Abstract!Advance
  <2>7. QED BY <2>6 DEF Abstract!Step
<1>9. CASE instr.op = "store"
  <2>1. Stored(arch'.m) BY <1>4, <1>9 DEF Retiring
  <2>2. Abstract!StoreMemory(instr) BY <2>1, AbstractSizes DEF Stored, Abstract!StoreMemory
  <2>3. ~writeBack BY <1>9 DEF writeBack
  <2>4. arch'.x = arch.x BY <1>4, <1>9, <2>3, NotWritten DEF Retiring
  <2>5. Abstract!StoreTo(instr)
    BY <1>4, <1>5, <1>9, <2>2, <2>4 DEF Abstract!StoreTo, Abstract!Advance
  <2>6. QED BY <2>5 DEF Abstract!Step
<1>10. QED BY <1>1, <1>7, <1>8, <1>9

(* After a reset the program restarts. *)
LEMMA WaitRestarts ==
  ASSUME TypeOK, ArchOK, OthersKept, registerFile[0] = 0, Restarting, TypeOK',
         state = "WAIT_ALU_OR_MEM", ~aluBusy, instr' = instr,
         WaitAluOrMem(FALSE, FALSE), WriteBack(mem_rdata), Ram, Observe
  PROVE  Abstract!Restart
<1>1. state' = "FETCH_INSTR" /\ PC' = 0 BY DEF WaitAluOrMem, Restarting
<1>2. MEM' = MEM BY RamEdge
<1>3. arch'.pc = 0 /\ arch'.x = registerFile' /\ arch'.m = BytesOf(MEM)
  BY <1>1, <1>2, SeenStep
<1>4. arch'.m = arch.m \/ (instr.op = "store" /\ Abstract!StoreMemory(instr))
  <2>1. CASE BytesOf(MEM) = arch.m BY <1>3, <2>1
  <2>2. CASE instr.op = "store" /\ Stored(BytesOf(MEM))
    <3>1. Stored(arch'.m) BY <1>3, <2>2
    <3>2. QED BY <2>2, <3>1, AbstractSizes DEF Stored, Abstract!StoreMemory
  <2>3. QED BY <2>1, <2>2 DEF Restarting
<1>5. arch'.x = arch.x \/ \E v \in Word : Abstract!SetRegister(instr.rd, v)
  <2>1. registerFile' \in [RegIds -> Word] /\ arch.x \in [RegIds -> Word]
        /\ registerFile \in [RegIds -> Word]
    BY DEF TypeOK, ArchOK
  <2>2. instr.rd \in RegIds /\ 0 \in RegIds BY InstructionFields, RegAssumption DEF TypeOK
  <2>3. \A r \in RegIds : registerFile'[r] = arch.x[r] \/ (r = instr.rd /\ r # 0)
    <3>1. \A r \in RegIds : r # instr.rd \/ r = 0 => registerFile'[r] = registerFile[r]
      BY <2>1, <2>2 DEF WriteBack
    <3>2. QED BY <3>1 DEF OthersKept
  <2>4. CASE instr.rd = 0
    <3>1. registerFile' = arch.x BY <2>1, <2>3, <2>4
    <3>2. QED BY <1>3, <3>1
  <2>5. CASE instr.rd # 0
    <3> DEFINE v == registerFile'[instr.rd]
    <3>1. v \in Word BY <2>1, <2>2
    <3>2. registerFile' = [arch.x EXCEPT ![instr.rd] = v] BY <2>1, <2>2, <2>3
    <3> HIDE DEF v
    <3>3. Abstract!SetRegister(instr.rd, v) BY <1>3, <2>5, <3>2 DEF Abstract!SetRegister
    <3>4. QED BY <3>1, <3>3
  <2>6. QED BY <2>4, <2>5
<1>6. QED BY <1>3, <1>4, <1>5, AbstractSizes DEF Abstract!Restart

-----------------------------------------------------------------------------
(* Every edge keeps the invariant and is a step of Isa or none. *)

(* A store keeps its effect while its instruction and the view stay. *)
LEMMA StoredStable ==
  ASSUME instr' = instr, arch' = arch, MEM' = MEM
  PROVE  Stored(BytesOf(MEM))' <=> Stored(BytesOf(MEM))
BY DEF Stored, BytesOf, Abstract!Aligned, Abstract!Address, Abstract!Width,
       Abstract!StoreValue, Abstract!Byte, Abstract!LaneWeight

LEMMA Quiet ==
  ASSUME instr' = instr, arch' = arch
  PROVE  UNCHANGED Abstract!vars
BY DEF Abstract!vars

(* Fetching: nothing happens to the program. *)
LEMMA FetchEdge ==
  ASSUME IInv, FetchInstr, NEW rdata, WriteBack(rdata), Shifter(FALSE), Ram, Observe,
         TypeOK', scenario' \in Scenarios
  PROVE  IInv' /\ UNCHANGED Abstract!vars
<1>1. state = "FETCH_INSTR" /\ state' = "WAIT_INSTR" /\ instr' = instr /\ PC' = PC
  BY DEF FetchInstr
<1>2. TypeOK /\ ArchOK /\ AtFetch /\ registerFile[0] = 0 BY <1>1 DEF IInv
<1>3. ~writeBack /\ ~aluBusy /\ ~aluWr BY <1>1, <1>2 DEF writeBack, AtFetch, aluBusy, aluWr
<1>4. registerFile' = registerFile BY <1>3, NotWritten
<1>5. aluShamt' = aluShamt BY <1>3 DEF Shifter
<1>6. MEM' = MEM BY <1>1, <1>2, RamEdge
<1>7. arch' = arch BY <1>1 DEF Observe
<1>8. AtFetch' BY <1>1, <1>2, <1>4, <1>5, <1>6, <1>7 DEF AtFetch, Arch, BytesOf
<1>9. ArchOK' BY <1>2, <1>7 DEF ArchOK
<1>10. QED BY <1>1, <1>2, <1>4, <1>7, <1>8, <1>9, Quiet DEF IInv

(* An instruction arrives: the program's next step is chosen. *)
LEMMA InstructionEdge ==
  ASSUME IInv, NEW rdata \in Instructions, WaitInstr(rdata, FALSE), WriteBack(rdata),
         Shifter(FALSE), Ram, Observe, TypeOK', scenario' \in Scenarios
  PROVE  IInv' /\ Abstract!Fetch
<1>1. /\ state = "WAIT_INSTR" /\ state' = "EXECUTE" /\ instr' = rdata /\ PC' = PC
      /\ rs1' = registerFile[rdata.rs1] /\ rs2' = registerFile[rdata.rs2]
  BY DEF WaitInstr
<1>2. TypeOK /\ ArchOK /\ AtFetch /\ registerFile[0] = 0 BY <1>1 DEF IInv
<1>3. ~writeBack /\ ~aluBusy /\ ~aluWr BY <1>1, <1>2 DEF writeBack, AtFetch, aluBusy, aluWr
<1>4. registerFile' = registerFile BY <1>3, NotWritten
<1>5. aluShamt' = aluShamt BY <1>3 DEF Shifter
<1>6. MEM' = MEM BY <1>1, <1>2, RamEdge
<1>7. arch' = arch BY <1>1 DEF Observe
<1>8. AtFetch' BY <1>1, <1>2, <1>4, <1>5, <1>6, <1>7 DEF AtFetch, Arch, BytesOf
<1>9. ArchOK' BY <1>2, <1>7 DEF ArchOK
<1>10. Latched' BY <1>1, <1>2, <1>7, FetchKept DEF Latched
<1>11. Abstract!Fetch BY <1>1, <1>7, AbstractSizes DEF Abstract!Fetch
<1>12. QED BY <1>1, <1>2, <1>4, <1>7, <1>8, <1>9, <1>10, <1>11 DEF IInv

(* The instruction executes: it retires or it starts to wait. *)
LEMMA ExecuteEdge ==
  ASSUME IInv, Execute, NEW rdata \in Word, WriteBack(rdata), Shifter(FALSE), Ram, Observe,
         TypeOK', scenario' \in Scenarios
  PROVE  IInv' /\ (Abstract!Step(instr) \/ arch' = arch) /\ instr' = instr
<1>1. /\ state = "EXECUTE" /\ PC' = nextPC /\ instr' = instr /\ rs1' = rs1 /\ rs2' = rs2
      /\ state' = IF needToWait THEN "WAIT_ALU_OR_MEM" ELSE "FETCH_INSTR"
  BY DEF Execute
<1>2. TypeOK /\ ArchOK /\ AtFetch /\ Latched /\ registerFile[0] = 0 BY <1>1 DEF IInv
<1>3. OthersKept /\ arch.pc = PC /\ arch.x = registerFile /\ arch.m = BytesOf(MEM)
  BY <1>2, FetchKept
<1>4. ~aluBusy BY <1>2 DEF AtFetch, aluBusy
<1>5. ArchOK' BY <1>2, ObserveType
<1>6. registerFile'[0] = 0
  <2>1. 0 \in RegIds /\ registerFile \in [RegIds -> Word] BY <1>2, RegAssumption DEF TypeOK
  <2>2. QED BY <1>2, <2>1 DEF WriteBack
<1>7. CASE ~needToWait
  <2>1. Abstract!Step(instr) BY <1>1, <1>2, <1>7, ExecuteRetires
  <2>2. aluShamt' = 0
    <3>1. ~(aluWr /\ funct3IsShift) BY <1>7 DEF aluWr, needToWait
    <3>2. QED BY <1>2, <1>4, <3>1 DEF Shifter, AtFetch
  <2>3. state' = "FETCH_INSTR" BY <1>1, <1>7
  <2>4. AtFetch' BY <2>2, <2>3 DEF AtFetch, Observe, Arch, BytesOf
  <2>5. QED BY <1>1, <1>5, <1>6, <2>1, <2>3, <2>4 DEF IInv
<1>8. CASE needToWait
  <2>1. state' = "WAIT_ALU_OR_MEM" /\ arch' = arch BY <1>1, <1>8 DEF Observe
  <2>2. OthersKept' BY <1>1, <1>2, <1>3, <2>1, StillOthersKept
  <2>3. needToWait' /\ Latched' BY <1>1, <1>2, <1>8, <2>1
    DEF needToWait, isALU, funct3IsShift, Latched
  <2>4. PC' = (arch'.pc + 4) % ASize
    <3>1. ~jumpToPCplusImm /\ instr.op # "jalr" BY <1>8 DEF needToWait, isALU, jumpToPCplusImm
    <3>2. QED BY <1>1, <1>3, <2>1, <3>1 DEF nextPC, PCplus4
  <2>5. ASSUME isALU' PROVE (Shifted(aluReg, aluShamt) = Shifted(rs1, aluIn2 % XBits))'
    <3>1. isALU /\ funct3IsShift BY <1>1, <1>8, <2>5 DEF isALU, needToWait
    <3>2. aluWr BY <1>1, <3>1 DEF aluWr
    <3>3. aluReg' = rs1 /\ aluShamt' = aluIn2 % XBits
      BY <1>4, <3>1, <3>2 DEF Shifter, aluIn1
    <3>4. aluIn2' = aluIn2 BY <1>1 DEF aluIn2
    <3>5. QED BY <1>1, <3>3, <3>4 DEF Shifted
  <2>6. ASSUME instr.op = "load" PROVE mem_rdata' = MEM'[loadstore_addr' \div 4] /\ MEM' = MEM
    <3>1. MEM' = MEM BY <1>2, <2>6, RamEdge
    <3>2. mem_rdata' = MEM[mem_addr \div 4] BY <1>1, <1>2, <2>6, RamEdge
    <3>3. mem_addr = loadstore_addr BY <1>1 DEF mem_addr
    <3>4. loadstore_addr' = loadstore_addr BY <1>1 DEF loadstore_addr
    <3>5. QED BY <3>1, <3>2, <3>3, <3>4
  <2>7. ASSUME instr.op = "store" PROVE registerFile' = arch'.x /\ Stored(BytesOf(MEM))'
    <3>1. ~writeBack BY <2>7 DEF writeBack
    <3>2. registerFile' = arch'.x BY <1>3, <2>1, <3>1, NotWritten
    <3>3. MEM' = Written(MEM, loadstore_addr \div 4, STORE_wmask, mem_wdata)
      BY <1>1, <1>2, <2>7, RamEdge
    <3>4. Stored(BytesOf(MEM')) BY <1>2, <1>3, <2>7, <3>3, StoreCorrect
    <3>5. Stored(BytesOf(MEM))'
      BY <1>1, <2>1, <3>4
      DEF Stored, BytesOf, Abstract!Aligned, Abstract!Address, Abstract!Width,
          Abstract!StoreValue, Abstract!Byte, Abstract!LaneWeight
    <3>6. QED BY <3>2, <3>5
  <2>8. ASSUME instr.op # "store" PROVE BytesOf(MEM') = arch'.m
    BY <1>2, <1>3, <2>1, <2>8, RamEdge
  <2>9. Retiring'
    BY <1>1, <2>3, <2>4, <2>5, <2>6, <2>7, <2>8 DEF Retiring, BytesOf
  <2>10. QED BY <1>1, <1>5, <1>6, <2>1, <2>2, <2>9 DEF IInv
<1>9. QED BY <1>7, <1>8

(* The wait goes on or is over. *)
LEMMA WaitEdge ==
  ASSUME IInv, WaitAluOrMem(FALSE, FALSE), WriteBack(mem_rdata), Shifter(FALSE), Ram,
         Observe, TypeOK', scenario' \in Scenarios
  PROVE  /\ IInv' /\ instr' = instr
         /\ Abstract!Step(instr) \/ Abstract!Restart \/ arch' = arch
<1>1. /\ state = "WAIT_ALU_OR_MEM" /\ PC' = PC /\ instr' = instr
      /\ rs1' = rs1 /\ rs2' = rs2
      /\ state' = IF aluBusy THEN state ELSE "FETCH_INSTR"
  BY DEF WaitAluOrMem
<1>2. TypeOK /\ ArchOK /\ OthersKept /\ registerFile[0] = 0 /\ (Retiring \/ Restarting)
  BY <1>1 DEF IInv
<1>3. MEM' = MEM /\ mem_rdata' = mem_rdata BY <1>1, <1>2, RamEdge
<1>4. ~aluWr BY <1>1 DEF aluWr
<1>5. ArchOK' BY <1>2, ObserveType
<1>6. registerFile'[0] = 0
  <2>1. 0 \in RegIds /\ registerFile \in [RegIds -> Word] BY <1>2, RegAssumption DEF TypeOK
  <2>2. QED BY <1>2, <2>1 DEF WriteBack
<1>7. CASE ~aluBusy
  <2>1. state' = "FETCH_INSTR" BY <1>1, <1>7
  <2>2. aluShamt' = 0 BY <1>4, <1>7 DEF Shifter, aluBusy
  <2>3. AtFetch' BY <2>1, <2>2 DEF AtFetch, Observe, Arch, BytesOf
  <2>4. Abstract!Step(instr) \/ Abstract!Restart
    BY <1>1, <1>2, <1>7, WaitRetires, WaitRestarts
  <2>5. QED BY <1>1, <1>5, <1>6, <2>1, <2>3, <2>4 DEF IInv
<1>8. CASE aluBusy
  <2>1. state' = "WAIT_ALU_OR_MEM" /\ arch' = arch BY <1>1, <1>8 DEF Observe
  <2>2. OthersKept' BY <1>1, <1>2, <2>1, StillOthersKept
  <2>3. Stored(BytesOf(MEM))' <=> Stored(BytesOf(MEM)) BY <1>1, <1>3, <2>1, StoredStable
  <2>4. BytesOf(MEM)' = BytesOf(MEM) BY <1>3 DEF BytesOf
  <2>5. ASSUME Restarting PROVE Restarting'
    BY <1>1, <2>1, <2>3, <2>4, <2>5 DEF Restarting
  <2>6. ASSUME Retiring PROVE Retiring'
    <3>1. needToWait' /\ Latched' BY <1>1, <2>1, <2>6
      DEF Retiring, needToWait, isALU, funct3IsShift, Latched
    <3>2. PC' = (arch'.pc + 4) % ASize BY <1>1, <2>1, <2>6 DEF Retiring
    <3>3. ASSUME isALU' PROVE (Shifted(aluReg, aluShamt) = Shifted(rs1, aluIn2 % XBits))'
      <4>1. isALU /\ funct3IsShift BY <1>1, <2>6, <3>3 DEF Retiring, isALU, needToWait
      <4>2. aluReg' = ShiftOnce /\ aluShamt' = aluShamt - 1 BY <1>8 DEF Shifter
      <4>3. Shifted(ShiftOnce, aluShamt - 1) = Shifted(rs1, aluIn2 % XBits)
        BY <1>2, <1>8, <2>6, <4>1, ShiftStep DEF Retiring
      <4>4. aluIn2' = aluIn2 BY <1>1 DEF aluIn2
      <4>5. QED BY <1>1, <4>2, <4>3, <4>4 DEF Shifted
    <3>4. instr'.op = "load" => mem_rdata' = MEM'[loadstore_addr' \div 4]
      BY <1>1, <1>3, <2>6 DEF Retiring, loadstore_addr
    <3>5. instr.op = "store" => registerFile' = arch'.x
      <4>1. instr.op = "store" => ~writeBack BY DEF writeBack
      <4>2. QED BY <2>1, <2>6, <4>1, NotWritten DEF Retiring
    <3>6. IF instr.op = "store" THEN registerFile' = arch'.x /\ Stored(BytesOf(MEM))'
          ELSE BytesOf(MEM)' = arch'.m
      BY <2>1, <2>3, <2>4, <2>6, <3>5 DEF Retiring
    <3>7. QED BY <1>1, <3>1, <3>2, <3>3, <3>4, <3>6 DEF Retiring
  <2>7. QED BY <1>1, <1>2, <1>5, <1>6, <2>1, <2>2, <2>5, <2>6 DEF IInv
<1>9. QED BY <1>7, <1>8

(* A reset may come between any two edges. *)
LEMMA ResetEdge ==
  ASSUME IInv, Reset, Ram, Observe, TypeOK', scenario' \in Scenarios
  PROVE  IInv' /\ UNCHANGED Abstract!vars
<1>1. /\ state' = "WAIT_ALU_OR_MEM" /\ PC' = 0 /\ instr' = instr
      /\ registerFile' = [registerFile EXCEPT ![0] = 0]
  BY DEF Reset
<1>2. TypeOK /\ ArchOK /\ registerFile[0] = 0 BY DEF IInv
<1>3. arch' = arch BY <1>1 DEF Observe
<1>4. registerFile' = registerFile /\ registerFile'[0] = 0
  <2>1. 0 \in RegIds /\ registerFile \in [RegIds -> Word] BY <1>2, RegAssumption DEF TypeOK
  <2>2. QED BY <1>1, <1>2, <2>1
<1>5. ArchOK' BY <1>2, <1>3 DEF ArchOK
<1>6. state \in {"FETCH_INSTR", "WAIT_INSTR", "EXECUTE", "WAIT_ALU_OR_MEM"}
  BY <1>2 DEF TypeOK, States
<1>7. OthersKept
  <2>1. CASE state = "WAIT_ALU_OR_MEM" BY <2>1 DEF IInv
  <2>2. CASE state # "WAIT_ALU_OR_MEM" BY <1>6, <2>2, FetchKept DEF IInv
  <2>3. QED BY <2>1, <2>2
<1>8. OthersKept' BY <1>1, <1>3, <1>4, <1>7 DEF OthersKept
<1>9. BytesOf(MEM)' = arch'.m \/ (instr'.op = "store" /\ Stored(BytesOf(MEM))')
  <2>1. CASE state = "WAIT_ALU_OR_MEM"
    <3>1. MEM' = MEM BY <1>2, <2>1, RamEdge
    <3>2. Stored(BytesOf(MEM))' <=> Stored(BytesOf(MEM)) BY <1>1, <1>3, <3>1, StoredStable
    <3>3. BytesOf(MEM)' = BytesOf(MEM) BY <3>1 DEF BytesOf
    <3>4. BytesOf(MEM) = arch.m \/ (instr.op = "store" /\ Stored(BytesOf(MEM)))
      BY <2>1 DEF IInv, Retiring, Restarting
    <3>5. QED BY <1>1, <1>3, <3>2, <3>3, <3>4
  <2>2. CASE state # "WAIT_ALU_OR_MEM" /\ ~(state = "EXECUTE" /\ instr.op = "store")
    <3>1. MEM' = MEM BY <1>2, <2>2, RamEdge
    <3>2. BytesOf(MEM)' = BytesOf(MEM) BY <3>1 DEF BytesOf
    <3>3. AtFetch BY <1>6, <2>2 DEF IInv
    <3>4. QED BY <1>3, <3>2, <3>3, FetchKept
  <2>3. CASE state = "EXECUTE" /\ instr.op = "store"
    <3>1. AtFetch /\ Latched BY <2>3 DEF IInv
    <3>2. BytesOf(MEM) = arch.m BY <3>1, FetchKept
    <3>3. MEM' = Written(MEM, loadstore_addr \div 4, STORE_wmask, mem_wdata)
      BY <1>2, <2>3, RamEdge
    <3>4. Stored(BytesOf(MEM')) BY <1>2, <2>3, <3>1, <3>2, <3>3, StoreCorrect
    <3>5. Stored(BytesOf(MEM))'
      BY <1>1, <1>3, <3>4
      DEF Stored, BytesOf, Abstract!Aligned, Abstract!Address, Abstract!Width,
          Abstract!StoreValue, Abstract!Byte, Abstract!LaneWeight
    <3>6. QED BY <1>1, <2>3, <3>5
  <2>4. QED BY <2>1, <2>2, <2>3
<1>10. Restarting' BY <1>1, <1>9 DEF Restarting
<1>11. QED BY <1>1, <1>3, <1>4, <1>5, <1>8, <1>10, Quiet DEF IInv

-----------------------------------------------------------------------------
(* The invariant is inductive, and every step is a step of Isa or none. *)

LEMMA IInvInit == Init => IInv
<1> SUFFICES ASSUME Init PROVE IInv OBVIOUS
<1>1. TypeOK /\ scenario \in Scenarios BY TypedInit DEF Typed
<1>2. registerFile[0] = 0
  <2>1. InitRegs[scenario] \subseteq {r \in [RegIds -> Word] : r[0] = 0}
    BY <1>1, InitAssumption
  <2>2. QED BY <2>1 DEF Init
<1>3. state = "FETCH_INSTR" /\ AtFetch BY DEF Init, AtFetch
<1>4. ArchOK
  <2>1. PC \in 0..(ASize - 1) /\ registerFile \in [RegIds -> Word]
        /\ MEM \in [0..(RamWords - 1) -> Word]
    BY <1>1 DEF TypeOK
  <2>2. BytesOf(MEM) \in [0..(4 * RamWords - 1) -> Bytes] BY <2>1, BytesOfType
  <2>3. QED BY <1>3, <2>1, <2>2 DEF ArchOK, AtFetch, Arch
<1>5. QED BY <1>1, <1>2, <1>3, <1>4 DEF IInv

LEMMA IInvNext ==
  IInv /\ [Next]_vars => IInv' /\ [Abstract!Next]_(Abstract!vars)
<1> SUFFICES ASSUME IInv, [Next]_vars
             PROVE  IInv' /\ (Abstract!Next \/ UNCHANGED Abstract!vars)
  OBVIOUS
<1>1. TypeOK /\ scenario \in Scenarios BY DEF IInv
<1>2. TypeOK' /\ scenario' \in Scenarios BY <1>1, TypedNext DEF Typed
<1>3. CASE Tick
  <2>1. state # "WAIT_INSTR" /\ Edge(mem_rdata) BY <1>3 DEF Tick
  <2>2. /\ WriteBack(mem_rdata) /\ Shifter(FALSE) /\ Ram /\ Observe
        /\ FetchInstr \/ Execute \/ WaitAluOrMem(FALSE, FALSE)
    BY <2>1 DEF Edge, Run, WaitInstr
  <2>3. CASE FetchInstr BY <1>2, <2>2, <2>3, FetchEdge
  <2>4. CASE Execute
    <3>1. mem_rdata \in Word BY <1>1 DEF TypeOK
    <3>2. IInv' /\ (Abstract!Step(instr) \/ arch' = arch) /\ instr' = instr
      BY <1>2, <2>2, <2>4, <3>1, ExecuteEdge
    <3>3. CASE Abstract!Step(instr) BY <3>2, <3>3 DEF Abstract!Next
    <3>4. CASE arch' = arch BY <3>2, <3>4, Quiet
    <3>5. QED BY <3>2, <3>3, <3>4
  <2>5. CASE WaitAluOrMem(FALSE, FALSE)
    <3>1. /\ IInv' /\ instr' = instr
          /\ Abstract!Step(instr) \/ Abstract!Restart \/ arch' = arch
      BY <1>2, <2>2, <2>5, WaitEdge
    <3>2. CASE Abstract!Step(instr) BY <3>1, <3>2 DEF Abstract!Next
    <3>3. CASE Abstract!Restart BY <3>1, <3>3 DEF Abstract!Next
    <3>4. CASE arch' = arch BY <3>1, <3>4, Quiet
    <3>5. QED BY <3>1, <3>2, <3>3, <3>4
  <2>6. QED BY <2>2, <2>3, <2>4, <2>5
<1>4. CASE Fetch
  <2>1. PICK i \in Code[scenario] : Edge(i) BY <1>4 DEF Fetch
  <2>2. i \in Instructions BY <1>1, CodeAssumption
  <2>3. /\ WaitInstr(i, FALSE) /\ WriteBack(i) /\ Shifter(FALSE) /\ Ram /\ Observe
    BY <1>4, <2>1 DEF Fetch, Edge, Run, FetchInstr, Execute, WaitAluOrMem
  <2>4. IInv' /\ Abstract!Fetch BY <1>2, <2>2, <2>3, InstructionEdge
  <2>5. QED BY <2>4 DEF Abstract!Next
<1>5. CASE PressReset
  <2>1. Reset /\ Ram /\ Observe BY <1>5 DEF PressReset
  <2>2. QED BY <1>2, <2>1, ResetEdge
<1>6. CASE UNCHANGED vars
  <2>1. UNCHANGED <<cpuVars, ram, arch>> BY <1>6 DEF vars
  <2>2. IInv'
    <3>1. /\ state' = state /\ PC' = PC /\ instr' = instr /\ rs1' = rs1 /\ rs2' = rs2
          /\ registerFile' = registerFile /\ aluReg' = aluReg /\ aluShamt' = aluShamt
          /\ MEM' = MEM /\ mem_rdata' = mem_rdata /\ arch' = arch
      BY <2>1 DEF cpuVars, ram
    <3>2. ArchOK' /\ AtFetch' = AtFetch /\ Latched' = Latched /\ OthersKept' = OthersKept
      BY <3>1 DEF IInv, ArchOK, AtFetch, Arch, BytesOf, Latched, OthersKept
    <3>3. Stored(BytesOf(MEM))' <=> Stored(BytesOf(MEM)) BY <3>1, StoredStable
    <3>4. BytesOf(MEM)' = BytesOf(MEM) BY <3>1 DEF BytesOf
    <3>5. Restarting => Restarting' BY <3>1, <3>3, <3>4 DEF Restarting
    <3>6. Retiring => Retiring'
      <4>1. needToWait' = needToWait /\ isALU' = isALU
            /\ loadstore_addr' = loadstore_addr /\ aluIn2' = aluIn2
        BY <3>1 DEF needToWait, isALU, funct3IsShift, loadstore_addr, aluIn2
      <4>2. Shifted(aluReg, aluShamt)' = Shifted(aluReg, aluShamt)
            /\ Shifted(rs1, aluIn2 % XBits)' = Shifted(rs1, aluIn2 % XBits)
        BY <3>1, <4>1 DEF Shifted
      <4>3. QED BY <3>1, <3>2, <3>3, <3>4, <4>1, <4>2 DEF Retiring
    <3>7. QED BY <1>2, <3>1, <3>2, <3>5, <3>6 DEF IInv
  <2>3. UNCHANGED Abstract!vars BY <2>1, Quiet DEF cpuVars
  <2>4. QED BY <2>2, <2>3
<1>7. QED BY <1>3, <1>4, <1>5, <1>6 DEF Next

(* Between two fetches only the target of the instruction has changed in   *)
(* the register file, and what the FSM, the shifter and the memory port    *)
(* hold is the rest of that instruction or a reset (femtorv32_quark_V2.v). *)
THEOREM InstructionInFlight == Spec => []IInv
BY IInvInit, IInvNext, PTL DEF Spec

(* Every program sees RV32I: each fetched instruction takes its whole      *)
(* effect on PC, registers and memory at once, however many edges the FSM, *)
(* the shifter (one bit a clock) and the memory need, and a reset at any   *)
(* edge leaves no more than a restart may (femtorv32_quark_V2.v, bram.v).   *)
THEOREM ProcessorImplementsIsa == Spec => ImplementsIsa
<1>1. IInv /\ [Next]_vars => [Abstract!Next]_(Abstract!vars) BY IInvNext
<1>2. QED BY <1>1, InstructionInFlight, PTL DEF Spec, ImplementsIsa, Abstract!Spec
=============================================================================
