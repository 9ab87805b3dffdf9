----------------------------- MODULE DivProofs -----------------------------
(***************************************************************************)
(* The divider finds the integer quotient, for every operand width, every  *)
(* divisor its sign test can handle, and every behaviour of software, of   *)
(* the reset line and of the simulator.                                    *)
(***************************************************************************)
EXTENDS Div, TLAPS

-----------------------------------------------------------------------------
(* Quotients and remainders. *)

(* The quotient is the only number of divisors whose remainder is smaller   *)
(* than one of them.                                                       *)
LEMMA QuotientIsUnique ==
  ASSUME NEW n \in Nat, NEW b \in Nat, NEW q \in Nat, NEW r \in Nat,
         r < b, n = q * b + r
  PROVE  q = n \div b
<1> DEFINE d == n \div b
           s == n % b
<1>1. d \in Nat /\ s \in Nat /\ s < b /\ n = b * d + s BY SMT
<1> HIDE DEF d, s
<1>2. CASE q > d
  <2>1. PICK e \in Nat : q = d + 1 + e BY <1>1, <1>2, SMT
  <2>2. q * b = b * d + b + e * b BY <1>1, <2>1, SMT
  <2>3. e * b \in Nat /\ b * d \in Nat BY <1>1, SMT
  <2>4. QED BY <1>1, <2>2, <2>3, SMT
<1>3. CASE q < d
  <2>1. PICK e \in Nat : d = q + 1 + e BY <1>1, <1>3, SMT
  <2>2. b * d = q * b + b + e * b BY <1>1, <2>1, SMT
  <2>3. e * b \in Nat /\ q * b \in Nat BY <1>1, SMT
  <2>4. QED BY <1>1, <2>2, <2>3, SMT
<1>4. q = d BY <1>1, <1>2, <1>3, SMT
<1>5. QED BY <1>4 DEF d

(* Quotient and remainder when the dividend is below twice the divisor. *)
LEMMA SmallQuotients ==
  ASSUME NEW n \in Nat, NEW h \in Nat, h > 0
  PROVE  /\ n < h => n \div h = 0
         /\ h <= n /\ n < 2 * h => n \div h = 1
         /\ n < h => n % h = n
         /\ h <= n /\ n < 2 * h => n % h = n - h
<1>1. ASSUME n < h PROVE n \div h = 0 /\ n % h = n
  <2>1. n = 0 * h + n BY SMT
  <2>2. n \div h = 0 BY <1>1, <2>1, QuotientIsUnique
  <2>3. n % h = n BY <1>1, SMT
  <2>4. QED BY <2>2, <2>3
<1>2. ASSUME h <= n, n < 2 * h PROVE n \div h = 1 /\ n % h = n - h
  <2>1. n - h \in Nat /\ n - h < h /\ n = 1 * h + (n - h) BY <1>2, SMT
  <2>2. n \div h = 1 BY <2>1, QuotientIsUnique
  <2>3. n = h * (n \div h) + (n % h) BY SMT
  <2>4. n % h \in Nat BY SMT
  <2>5. QED BY <2>2, <2>3, <2>4, SMT
<1>3. QED BY <1>1, <1>2

(* A negative number wraps around once. *)
LEMMA NegativeModulo ==
  ASSUME NEW m \in Nat, NEW d \in Int, m > 0, -m <= d, d < 0
  PROVE  d % m = d + m
<1> DEFINE k == d \div m
           r == d % m
<1>1. k \in Int /\ r \in Nat /\ r < m /\ d = m * k + r BY SMT
<1> HIDE DEF k, r
<1>2. CASE k >= 0
  <2>1. m * k \in Nat BY <1>1, <1>2, SMT
  <2>2. QED BY <1>1, <2>1, SMT
<1>3. CASE k <= -2
  <2>1. PICK e \in Nat : k = -2 - e BY <1>1, <1>3, SMT
  <2>2. m * k = -2 * m - m * e /\ m * e \in Nat BY <2>1, SMT
  <2>3. QED BY <1>1, <2>2, SMT
<1>4. CASE k = -1 BY <1>1, <1>4, SMT DEF r
<1>5. QED BY <1>1, <1>2, <1>3, <1>4, SMT

-----------------------------------------------------------------------------

(* What one shift does to the lower half of the pair: lo is what is left of *)
(* the dividend, q what is there of the quotient.                          *)
LEMMA ShiftHalf ==
  ASSUME NEW p \in Nat, NEW s \in Nat, NEW h \in Nat, NEW lo \in Nat, NEW q \in Nat,
         p > 0, s > 0, h = p * s, lo < 2 * p, q < s,
         NEW x \in Nat, x = lo * s + q
  PROVE  \E t \in {0, 1}, l \in 0..(p - 1) :
           /\ lo = t * p + l
           /\ x \div h = t
           /\ (2 * x) % (2 * h) = l * (2 * s) + 2 * q
<1>1. h > 0 /\ 2 * h \in Nat /\ 2 * h > 0
  BY SMT
<1>2. ASSUME NEW l \in 0..(p - 1)
      PROVE  l * s + q \in Nat /\ l * s + q < h /\ l * (2 * s) + 2 * q = 2 * (l * s + q)
  <2>1. PICK e \in Nat : p = l + 1 + e BY <1>2, SMT
  <2>2. h = l * s + s + e * s BY <2>1, SMT
  <2>3. l * s \in Nat /\ e * s \in Nat BY <1>2, SMT
  <2>4. l * (2 * s) = 2 * (l * s) BY <1>2, SMT
  <2>5. QED BY <2>2, <2>3, <2>4, SMT
<1>3. CASE lo < p
  <2>1. lo \in 0..(p - 1) /\ lo = 0 * p + lo BY <1>3, SMT
  <2>2. x < h /\ lo * (2 * s) + 2 * q = 2 * x BY <1>2, <2>1
  <2>3. x \div h = 0 BY <1>1, <2>2, SmallQuotients
  <2>4. 2 * x \in Nat /\ 2 * x < 2 * h BY <1>1, <2>2, SMT
  <2>5. (2 * x) % (2 * h) = 2 * x BY <1>1, <2>4, SmallQuotients
  <2>6. QED BY <2>1, <2>2, <2>3, <2>5
<1>4. CASE lo >= p
  <2> DEFINE l == lo - p
  <2>1. l \in 0..(p - 1) /\ lo = 1 * p + l BY <1>4, SMT
  <2>2. lo * s = h + l * s BY <2>1, SMT
  <2>3. l * s + q \in Nat /\ l * s + q < h /\ l * (2 * s) + 2 * q = 2 * (l * s + q)
    BY <1>2, <2>1
  <2> HIDE DEF l
  <2>4. x = h + (l * s + q)
    <3>1. l * s \in Nat BY <2>1, SMT
    <3>2. QED BY <2>2, <3>1, SMT
  <2> DEFINE y == l * s + q
  <2>5. y \in Nat /\ y < h /\ x = h + y BY <2>3, <2>4
  <2> HIDE DEF y
  <2>6. h <= x /\ x < 2 * h /\ 2 * x \in Nat /\ 2 * h <= 2 * x /\ 2 * x < 2 * (2 * h)
    BY <1>1, <2>5, SMT
  <2>7. x \div h = 1 BY <1>1, <2>6, SmallQuotients
  <2>8. (2 * x) % (2 * h) = 2 * x - 2 * h BY <1>1, <2>6, SmallQuotients, ZenonT(30)
  <2>9. (2 * x) % (2 * h) = 2 * y BY <2>5, <2>8, SMT
  <2>10. QED BY <2>1, <2>3, <2>7, <2>9 DEF y
<1>5. QED BY <1>3, <1>4, SMT

-----------------------------------------------------------------------------
(* The inductive invariant.  With c shifts to go, the upper half of the     *)
(* dividend that was shifted in is q divisors and a remainder, and the      *)
(* lower half of the pair holds the c bits that are left of the dividend    *)
(* above the bits q that there are of the quotient.                         *)
PartsOf(c, q, hi, lo, a, b, x, r) ==
  /\ lo < P2[c] /\ q < P2[Bits - c]
  /\ a = hi * P2[c] + lo
  /\ x = lo * P2[Bits - c] + q
  /\ hi = q * b + r
Parts(c, q, hi, lo) == PartsOf(c, q, hi, lo, opA, opB, quo, rem)

(* The powers of two above and below the cut make up the width. *)
CutAt(c) == P2[c] * P2[Bits - c] = Modulus
Cut(c) == regB = opB /\ CutAt(c)

Dividing ==
  /\ state = "START1" => count = Bits
  /\ state = "SHIFT" =>
       /\ count \in 1..Bits /\ Cut(count)
       /\ Divisible => rem < opB /\ \E q, hi, lo \in Nat : Parts(count, q, hi, lo)
  /\ state = "CHECK_GREATER" =>
       /\ count \in 0..(Bits - 1) /\ Cut(count)
       /\ Divisible =>
            rem < 2 * opB
            /\ \E q, hi, lo \in Nat : Parts(count, 2 * q, hi, lo) /\ 2 * q + 1 < P2[Bits - count]
  /\ state = "CHECK_END" =>
       /\ count \in 0..(Bits - 1) /\ Cut(count)
       /\ Divisible => rem < opB /\ \E q, hi, lo \in Nat : Parts(count, q, hi, lo)
  /\ state = "END" => (Divisible => result = opA \div opB)

DoneLast == done => state \in {"END", "START"}

IInv == TypeOK /\ Dividing /\ DoneLast /\ QuotientWhenDone

-----------------------------------------------------------------------------
(* Types. *)

(* The powers of two are numbers, and the width is twice the sign bit. *)
LEMMA Sizes ==
  ASSUME ConstantsOK, A \in Word
  PROVE  /\ Bits \in 1..31 /\ Half \in Nat /\ Half > 0 /\ Modulus = 2 * Half
         /\ Modulus \in Nat /\ 0 \in Word /\ 1 \in Word
         /\ \A k \in 0..Bits : P2[k] \in Nat
<1>1. Bits \in 1..31 /\ Bits - 1 \in 0..(Bits - 1) /\ Bits \in 0..Bits /\ Bits - 1 \in 0..Bits
      /\ (Bits - 1) + 1 = Bits
  BY SMT DEF ConstantsOK
<1>2. \A k \in 0..Bits : P2[k] \in Nat BY DEF ConstantsOK
<1>3. P2[(Bits - 1) + 1] = 2 * P2[Bits - 1] BY <1>1 DEF ConstantsOK
<1>4. Half \in Nat /\ Modulus \in Nat /\ Modulus = 2 * Half BY <1>1, <1>2, <1>3 DEF Half, Modulus
<1>5. Modulus > 0 BY <1>4, SMT DEF Word
<1>6. QED BY <1>1, <1>2, <1>4, <1>5, SMT DEF Word

(* What the bus carries fits a register. *)
LEMMA BusData ==
  ASSUME ConstantsOK, A \in Word, NEW bus \in BusCycles({"A", "B"}, Data)
  PROVE  bus.d \in Word
<1>1. Data \subseteq Word BY DEF ConstantsOK, Word, Modulus
<1>2. QED BY <1>1, Sizes DEF BusCycles, Idle, Load, Store

(* The registers of perip_div.v keep their ranges. *)
LEMMA WrapperTypes ==
  ASSUME ConstantsOK, TypeOK, NEW bus \in BusCycles({"A", "B"}, Data), NEW rst \in BOOLEAN,
         WriteRegisters(bus, rst)
  PROVE  A' \in Word /\ B' \in Word /\ init' \in BOOLEAN
<1>1. bus.d \in Word /\ 0 \in Word BY BusData, Sizes DEF TypeOK
<1>2. QED BY <1>1 DEF TypeOK, WriteRegisters

(* So does the read multiplexer, whichever value it sees. *)
LEMMA ReadTypes ==
  ASSUME TypeOK, NEW bus, NEW rst \in BOOLEAN, ReadMux(bus, rst),
         ConstantsOK, result' \in Word
  PROVE  d_out' \in Word \cup {0, 1}
<1>1. \A v \in Seen(result, result') : v \in Word BY DEF Seen, TypeOK
<1>2. QED BY <1>1 DEF ReadMux, TypeOK

DividerTypes ==
  /\ state \in States /\ count \in 0..31 /\ done \in BOOLEAN
  /\ result \in Word /\ rem \in Word /\ quo \in Word /\ regB \in Word
  /\ opA \in Word /\ opB \in Word

(* What is cut to the width, or to five bits, fits. *)
LEMMA ArithmeticTypes ==
  ASSUME ConstantsOK, A \in Word, NEW x \in Int
  PROVE  x % Modulus \in Word /\ x % 32 \in 0..31
<1>1. Modulus \in Nat /\ Modulus > 0 BY Sizes, SMT
<1>2. QED BY <1>1, SMT DEF Word

(* The registers of div.v keep their ranges. *)
LEMMA DividerStepTypes ==
  ASSUME ConstantsOK, TypeOK, A' \in Word, B' \in Word,
         Reset \/ Start \/ Start1 \/ Shift \/ CheckGreater \/ CheckEnd \/ End
  PROVE  DividerTypes'
<1> USE DEF DividerTypes, TypeOK, States
<1>1. CASE Reset BY <1>1, Sizes DEF Reset
<1>2. CASE Start
  <2>1. Bits \in 0..31 BY Sizes, SMT
  <2>2. QED BY <1>2, <2>1, Sizes DEF Start
<1>3. CASE Start1
  <2>1. Seen(A, A') \subseteq Word /\ Seen(B, B') \subseteq Word BY DEF Seen
  <2>2. QED BY <1>3, <2>1, Sizes DEF Start1
<1>4. CASE Shift
  <2>1. quo \div Half \in Int BY Sizes, SMT DEF Word
  <2>2. 2 * rem + (quo \div Half) \in Int /\ 2 * quo \in Int /\ count - 1 \in Int
    BY <2>1, SMT DEF Word
  <2>3. QED BY <1>4, <2>2, ArithmeticTypes DEF Shift
<1>5. CASE CheckGreater
  <2>1. rem - regB \in Int BY SMT DEF Word
  <2>2. AMinusB \in Word BY <2>1, ArithmeticTypes DEF AMinusB
  <2>3. Modulus = 2 * Half /\ Half \in Nat BY Sizes
  <2>4. quo - (quo % 2) \in Word /\ quo - (quo % 2) + 1 \in Word
    BY <2>3, SMT DEF Word
  <2>5. QED BY <1>5, <2>2, <2>4 DEF CheckGreater
<1>6. CASE CheckEnd BY <1>6 DEF CheckEnd
<1>7. CASE End
  <2>1. count + 1 \in Int BY SMT
  <2>2. QED BY <1>7, <2>1, ArithmeticTypes DEF End
<1>8. QED BY <1>1, <1>2, <1>3, <1>4, <1>5, <1>6, <1>7

(* Types are inductive. *)
LEMMA StepTypes ==
  ASSUME ConstantsOK, TypeOK, [Next]_vars
  PROVE  TypeOK'
<1>1. CASE UNCHANGED vars
  BY <1>1 DEF vars, wrapper, divider, TypeOK
<1>2. ASSUME NEW bus \in BusCycles({"A", "B"}, Data), NEW rst \in BOOLEAN,
             WriteRegisters(bus, rst), ReadMux(bus, rst),
             Reset \/ Start \/ Start1 \/ Shift \/ CheckGreater \/ CheckEnd \/ End
      PROVE  TypeOK'
  <2>1. A' \in Word /\ B' \in Word /\ init' \in BOOLEAN BY <1>2, WrapperTypes
  <2>2. DividerTypes' BY <1>2, <2>1, DividerStepTypes DEF TypeOK
  <2>3. d_out' \in Word \cup {0, 1} BY <1>2, <2>2, ReadTypes DEF DividerTypes
  <2>4. QED BY <2>1, <2>2, <2>3 DEF TypeOK, DividerTypes
<1>3. QED BY <1>1, <1>2 DEF Next, RunEdge, ResetEdge, Edge

(* Types hold at power-up. *)
LEMMA InitTypes == ASSUME ConstantsOK, Init PROVE TypeOK
<1>1. PowerUp \subseteq Word BY DEF ConstantsOK, Word, Modulus
<1>2. A \in Word BY <1>1 DEF Init
<1>3. 0 \in Word /\ 0 \in 0..31 BY <1>2, Sizes
<1>4. QED BY <1>1, <1>3 DEF Init, TypeOK, States

-----------------------------------------------------------------------------
(* Quotients. *)

(* One bit further down, the powers of two still make up the width. *)
LEMMA CutBelow ==
  ASSUME ConstantsOK, A \in Word, NEW c \in 1..Bits, CutAt(c)
  PROVE  LET p == P2[c - 1]
             s == P2[Bits - c]
         IN  /\ p \in Nat /\ p > 0 /\ s \in Nat /\ s > 0
             /\ P2[c] = 2 * p /\ P2[Bits - (c - 1)] = 2 * s
             /\ Half = p * s /\ CutAt(c - 1)
<1> DEFINE p == P2[c - 1]
           s == P2[Bits - c]
<1>1. Bits \in 1..31 /\ Half \in Nat /\ Half > 0 /\ Modulus = 2 * Half BY Sizes
<1>2. c - 1 \in 0..(Bits - 1) /\ Bits - c \in 0..(Bits - 1) /\ c - 1 \in 0..Bits
      /\ Bits - c \in 0..Bits /\ (c - 1) + 1 = c /\ (Bits - c) + 1 = Bits - (c - 1)
  BY <1>1, SMT
<1>3. p \in Nat /\ s \in Nat BY <1>2, Sizes
<1>4. P2[c] = 2 * p /\ P2[Bits - (c - 1)] = 2 * s BY <1>2 DEF ConstantsOK
<1>5. (2 * p) * s = 2 * Half BY <1>1, <1>4 DEF CutAt
<1> HIDE DEF p, s
<1>6. p * s = Half BY <1>1, <1>3, <1>5, SMT
<1>7. p > 0 /\ s > 0 BY <1>1, <1>3, <1>6, SMT
<1>8. p * (2 * s) = Modulus BY <1>1, <1>3, <1>5, SMT
<1>9. CutAt(c - 1) BY <1>4, <1>8 DEF CutAt, p
<1>10. QED BY <1>3, <1>4, <1>6, <1>7, <1>9 DEF p, s

(* SHIFT moves one bit of the dividend up. *)
LEMMA ShiftKeeps ==
  ASSUME ConstantsOK, A \in Word, NEW c \in 1..Bits, CutAt(c),
         NEW q \in Nat, NEW hi \in Nat, NEW lo \in Nat, NEW a \in Nat,
         NEW b \in Nat, NEW x \in Nat, NEW r \in Nat,
         2 * r + 1 < Modulus, PartsOf(c, q, hi, lo, a, b, x, r)
  PROVE  LET r1 == (2 * r + (x \div Half)) % Modulus
             x1 == (2 * x) % Modulus
         IN  /\ r1 \in {2 * r, 2 * r + 1} /\ 2 * q + 1 < P2[Bits - (c - 1)]
             /\ \E hi1, lo1 \in Nat : PartsOf(c - 1, 2 * q, hi1, lo1, a, b, x1, r1)
<1> DEFINE p == P2[c - 1]
           s == P2[Bits - c]
<1>1. /\ p \in Nat /\ p > 0 /\ s \in Nat /\ s > 0
      /\ P2[c] = 2 * p /\ P2[Bits - (c - 1)] = 2 * s
      /\ Half = p * s
  BY CutBelow
<1>2. /\ lo < 2 * p /\ q < s /\ a = hi * (2 * p) + lo
      /\ x = lo * s + q /\ hi = q * b + r
  BY <1>1 DEF PartsOf
<1>3. Half \in Nat /\ Half > 0 /\ Modulus = 2 * Half BY Sizes
<1> HIDE DEF p, s
<1>4. PICK t \in {0, 1}, l \in 0..(p - 1) :
        /\ lo = t * p + l
        /\ x \div Half = t
        /\ (2 * x) % (2 * Half) = l * (2 * s) + 2 * q
  BY <1>1, <1>2, <1>3, ShiftHalf
<1>5. 2 * r + t \in Nat /\ 2 * r + t \in {2 * r, 2 * r + 1} /\ 2 * r + t < Modulus
      /\ Modulus \in Nat /\ Modulus > 0
  BY <1>3, SMT
<1>6. (2 * r + t) % Modulus = 2 * r + t BY <1>3, <1>5, SmallQuotients
<1>7. 2 * q + 1 < 2 * s /\ 2 * q < 2 * s BY <1>1, <1>2, SMT
<1>8. 2 * hi + t \in Nat /\ l \in Nat /\ l < p BY <1>1, SMT
<1>9. a = (2 * hi + t) * p + l
  <2>1. hi * (2 * p) = 2 * (hi * p) /\ (2 * hi + t) * p = 2 * (hi * p) + t * p
    BY <1>1, SMT
  <2>2. hi * p \in Nat /\ t * p \in Nat BY <1>1, SMT
  <2>3. QED BY <1>1, <1>2, <1>4, <2>1, <2>2, SMT
<1>10. 2 * hi + t = (2 * q) * b + (2 * r + t)
  <2>1. (2 * q) * b = 2 * (q * b) /\ q * b \in Nat BY SMT
  <2>2. QED BY <1>2, <2>1, SMT
<1>11. PartsOf(c - 1, 2 * q, 2 * hi + t, l, a, b, (2 * x) % Modulus, 2 * r + t)
  BY <1>1, <1>3, <1>4, <1>7, <1>8, <1>9, <1>10 DEF PartsOf, p
<1>12. QED BY <1>1, <1>4, <1>5, <1>6, <1>7, <1>8, <1>11

(* The lowest bit of the pair is the one SHIFT opened for the quotient. *)
LEMMA BitIsOpen ==
  ASSUME ConstantsOK, A \in Word, NEW c \in 0..(Bits - 1),
         NEW lo \in Nat, NEW q \in Nat, NEW x \in Nat, x = lo * P2[Bits - c] + 2 * q
  PROVE  x - (x % 2) = x
<1>1. (Bits - c) - 1 \in 0..(Bits - 1) /\ ((Bits - c) - 1) + 1 = Bits - c
        /\ (Bits - c) - 1 \in 0..Bits
  BY Sizes, SMT
<1>2. PICK u \in Nat : P2[Bits - c] = 2 * u BY <1>1 DEF ConstantsOK
<1>3. x = lo * (2 * u) + 2 * q BY <1>2
<1>4. PICK v \in Nat : x = 2 * v
  <2>1. lo * u + q \in Nat /\ lo * (2 * u) = 2 * (lo * u) /\ lo * u \in Nat BY SMT
  <2>2. x = 2 * (lo * u + q) BY <1>3, <2>1, SMT
  <2>3. QED BY <2>1, <2>2
<1>5. QED BY <1>4, SMT

(* CHECK_GREATER decides the quotient bit. *)
LEMMA CheckGreaterKeeps ==
  ASSUME ConstantsOK, A \in Word, NEW c \in 0..(Bits - 1),
         NEW q \in Nat, NEW hi \in Nat, NEW lo \in Nat, NEW a \in Nat,
         NEW b \in 1..Half, NEW x \in Nat, NEW r \in Nat,
         r < 2 * b, 2 * q + 1 < P2[Bits - c], PartsOf(c, 2 * q, hi, lo, a, b, x, r)
  PROVE  LET m == (r - b) % Modulus
             r1 == IF m >= Half THEN r ELSE m
             x1 == IF m >= Half THEN x - (x % 2) ELSE x - (x % 2) + 1
         IN  r1 < b /\ \E q1 \in Nat : PartsOf(c, q1, hi, lo, a, b, x1, r1)
<1> DEFINE m == (r - b) % Modulus
           s == P2[Bits - c]
<1>1. Half \in Nat /\ Half > 0 /\ Modulus = 2 * Half /\ Modulus \in Nat /\ Bits \in 1..31
  BY Sizes
<1>2. x - (x % 2) = x BY BitIsOpen DEF PartsOf
<1>3. CASE r < b
  <2>1. r - b \in Int /\ -Modulus <= r - b /\ r - b < 0 /\ Modulus > 0 BY <1>1, <1>3, SMT
  <2>2. m = (r - b) + Modulus BY <1>1, <2>1, NegativeModulo
  <2>3. m >= Half BY <1>1, <2>2, SMT
  <2>4. QED BY <1>2, <1>3, <2>3, SMT
<1>4. CASE r >= b
  <2>1. r - b \in Nat /\ r - b < b /\ r - b < Half /\ r - b < Modulus
        /\ Modulus > 0
    BY <1>1, <1>4, SMT
  <2>2. m = r - b BY <1>1, <2>1, SmallQuotients
  <2>3. ~(m >= Half) BY <1>1, <2>1, <2>2, SMT
  <2>4. hi = (2 * q + 1) * b + (r - b)
    <3>1. (2 * q + 1) * b = (2 * q) * b + b /\ (2 * q) * b \in Nat BY SMT
    <3>2. hi = (2 * q) * b + r BY DEF PartsOf
    <3>3. QED BY <3>1, <3>2, SMT
  <2>5. x + 1 = lo * s + (2 * q + 1)
    <3>1. x = lo * s + 2 * q BY DEF PartsOf
    <3>2. s \in Nat
      <4>1. Bits - c \in 0..Bits BY <1>1, SMT
      <4>2. QED BY <4>1, Sizes
    <3> HIDE DEF s
    <3>3. lo * s \in Nat BY <3>2, SMT
    <3>4. QED BY <3>1, <3>3, SMT
  <2>6. 2 * q + 1 \in Nat BY SMT
  <2>7. PartsOf(c, 2 * q + 1, hi, lo, a, b, x + 1, r - b)
    BY <2>4, <2>5 DEF PartsOf
  <2>8. QED BY <1>2, <2>1, <2>2, <2>3, <2>6, <2>7
<1>5. QED BY <1>3, <1>4, SMT

-----------------------------------------------------------------------------
(* The invariant. *)

(* START1 leaves the dividend in the lower half of the pair. *)
LEMMA FirstParts ==
  ASSUME ConstantsOK, A \in Word, NEW a \in Word, NEW b \in Nat
  PROVE  CutAt(Bits) /\ PartsOf(Bits, 0, 0, a, a, b, a, 0)
<1>1. Bits \in 1..31 /\ Modulus \in Nat BY Sizes
<1>2. Bits - Bits = 0 /\ P2[0] = 1 BY <1>1 DEF ConstantsOK
<1>3. P2[Bits] = Modulus BY DEF Modulus
<1>4. CutAt(Bits) BY <1>1, <1>2, <1>3, SMT DEF CutAt
<1>5. a \in Nat /\ a < Modulus /\ a = 0 * Modulus + a /\ a = a * 1 + 0 /\ 0 = 0 * b + 0
  BY <1>1, SMT DEF Word
<1>6. QED BY <1>2, <1>3, <1>4, <1>5 DEF PartsOf

(* Without dividend bits left, the lower half is the quotient. *)
LEMMA LastParts ==
  ASSUME ConstantsOK, NEW q \in Nat, NEW hi \in Nat, NEW lo \in Nat,
         NEW a \in Nat, NEW b \in Nat, NEW x \in Nat, NEW r \in Nat,
         r < b, PartsOf(0, q, hi, lo, a, b, x, r)
  PROVE  x = a \div b
<1>1. Bits \in Nat /\ P2[0] = 1 /\ P2[Bits - 0] \in Nat BY SMT DEF ConstantsOK
<1>2. lo = 0 /\ a = hi * 1 + 0 /\ x = 0 * P2[Bits - 0] + q /\ hi = q * b + r
  BY <1>1, SMT DEF PartsOf
<1>3. a = q * b + r /\ x = q BY <1>1, <1>2, SMT
<1>4. QED BY <1>3, QuotientIsUnique

(* START and the reset forget the last division. *)
LEMMA StartDivides ==
  ASSUME ConstantsOK, TypeOK, Start \/ Reset
  PROVE  Dividing' /\ DoneLast' /\ QuotientWhenDone'
BY DEF Start, Reset, Dividing, DoneLast, QuotientWhenDone

(* START1 begins one. *)
LEMMA Start1Divides ==
  ASSUME ConstantsOK, TypeOK, A' \in Word, B' \in Word, Dividing, Start1
  PROVE  Dividing' /\ DoneLast' /\ QuotientWhenDone'
<1>1. PICK a \in Word, b \in Word :
        rem' = 0 /\ quo' = a /\ regB' = b /\ opA' = a /\ opB' = b
  <2>1. Seen(A, A') \subseteq Word /\ Seen(B, B') \subseteq Word BY DEF Seen, TypeOK
  <2>2. QED BY <2>1 DEF Start1
<1>2. count' = Bits /\ state' = "SHIFT" /\ done' = FALSE BY DEF Start1, Dividing
<1>3. b \in Nat /\ A \in Word BY DEF TypeOK, Word
<1>4. CutAt(Bits) /\ PartsOf(Bits, 0, 0, a, a, b, a, 0) BY <1>3, FirstParts
<1>5. Bits \in 1..Bits BY <1>3, Sizes, SMT
<1>6. Cut(count)' BY <1>1, <1>2, <1>4 DEF Cut, CutAt, Modulus
<1>7. ASSUME Divisible' PROVE rem' < opB' /\ \E q, hi, lo \in Nat : Parts(count, q, hi, lo)'
  <2>1. 0 < b BY <1>1, <1>3, <1>7, SMT DEF Divisible
  <2>2. Parts(count, 0, 0, a)' BY <1>1, <1>2, <1>4 DEF Parts, PartsOf
  <2>3. a \in Nat /\ 0 \in Nat BY DEF Word
  <2>4. QED BY <1>1, <2>1, <2>2, <2>3
<1>8. QED BY <1>2, <1>5, <1>6, <1>7 DEF Dividing, DoneLast, QuotientWhenDone

(* SHIFT keeps the invariant. *)
LEMMA ShiftDivides ==
  ASSUME ConstantsOK, TypeOK, Dividing, Shift
  PROVE  Dividing' /\ DoneLast' /\ QuotientWhenDone'
<1>1. /\ state' = "CHECK_GREATER" /\ done' = FALSE /\ count' = (count - 1) % 32
      /\ regB' = regB /\ opA' = opA /\ opB' = opB
      /\ rem' = (2 * rem + (quo \div Half)) % Modulus /\ quo' = (2 * quo) % Modulus
  BY DEF Shift
<1>2. A \in Word /\ rem \in Nat /\ quo \in Nat /\ opA \in Nat BY DEF TypeOK, Word
<1>3. count \in 1..Bits /\ Cut(count) BY DEF Shift, Dividing
<1>4. Bits \in 1..31 BY <1>2, Sizes
<1>5. count' = count - 1 /\ count' \in 0..(Bits - 1) BY <1>1, <1>3, <1>4, SMT
<1>6. Cut(count)'
  <2>1. CutAt(count - 1) BY <1>2, <1>3, CutBelow DEF Cut
  <2>2. QED BY <1>1, <1>3, <1>5, <2>1 DEF Cut, CutAt, Modulus
<1>7. ASSUME Divisible'
      PROVE  /\ rem' < 2 * opB'
             /\ \E q, hi, lo \in Nat :
                  Parts(count, 2 * q, hi, lo)' /\ 2 * q + 1 < P2[Bits - count']
  <2>1. Divisible /\ opB \in 1..Half BY <1>1, <1>7 DEF Divisible, Half
  <2>2. rem < opB /\ \E q, hi, lo \in Nat : Parts(count, q, hi, lo)
    BY <2>1 DEF Dividing, Shift
  <2>3. PICK q \in Nat, hi \in Nat, lo \in Nat : PartsOf(count, q, hi, lo, opA, opB, quo, rem)
    BY <2>2 DEF Parts
  <2>4. 2 * rem + 1 < Modulus /\ opB \in Nat BY <1>2, <2>1, <2>2, Sizes, SMT
  <2>5. /\ rem' \in {2 * rem, 2 * rem + 1} /\ 2 * q + 1 < P2[Bits - (count - 1)]
        /\ \E hi1, lo1 \in Nat : PartsOf(count - 1, 2 * q, hi1, lo1, opA, opB, quo', rem')
    BY <1>1, <1>2, <1>3, <2>4, <2>3, ShiftKeeps DEF Cut
  <2>6. PICK hi1 \in Nat, lo1 \in Nat :
          PartsOf(count - 1, 2 * q, hi1, lo1, opA, opB, quo', rem')
    BY <2>5
  <2>7. Parts(count, 2 * q, hi1, lo1)' BY <1>1, <1>5, <2>6 DEF Parts, PartsOf
  <2>8. rem' < 2 * opB BY <1>2, <2>2, <2>4, <2>5, SMT
  <2>9. QED BY <1>1, <1>5, <2>5, <2>7, <2>8
<1>8. QED BY <1>1, <1>5, <1>6, <1>7 DEF Dividing, DoneLast, QuotientWhenDone

(* CHECK_GREATER keeps it. *)
LEMMA CheckGreaterDivides ==
  ASSUME ConstantsOK, TypeOK, Dividing, CheckGreater
  PROVE  Dividing' /\ DoneLast' /\ QuotientWhenDone'
<1>1. /\ state' = "CHECK_END" /\ done' = FALSE /\ count' = count
      /\ regB' = regB /\ opA' = opA /\ opB' = opB
  BY DEF CheckGreater
<1>2. A \in Word /\ rem \in Nat /\ quo \in Nat /\ opA \in Nat BY DEF TypeOK, Word
<1>3. count \in 0..(Bits - 1) /\ Cut(count) BY DEF CheckGreater, Dividing
<1>4. Cut(count)' BY <1>1, <1>3 DEF Cut, CutAt, Modulus
<1>5. ASSUME Divisible'
      PROVE  rem' < opB' /\ \E q, hi, lo \in Nat : Parts(count, q, hi, lo)'
  <2>1. Divisible /\ opB \in 1..Half BY <1>1, <1>5 DEF Divisible, Half
  <2>2. /\ rem < 2 * opB
        /\ \E q, hi, lo \in Nat : Parts(count, 2 * q, hi, lo) /\ 2 * q + 1 < P2[Bits - count]
    BY <2>1 DEF Dividing, CheckGreater
  <2>3. PICK q \in Nat, hi \in Nat, lo \in Nat :
          /\ PartsOf(count, 2 * q, hi, lo, opA, opB, quo, rem)
          /\ 2 * q + 1 < P2[Bits - count]
    BY <2>2 DEF Parts
  <2> DEFINE m == (rem - opB) % Modulus
             r1 == IF m >= Half THEN rem ELSE m
             x1 == IF m >= Half THEN quo - (quo % 2) ELSE quo - (quo % 2) + 1
  <2>4. r1 < opB /\ \E q1 \in Nat : PartsOf(count, q1, hi, lo, opA, opB, x1, r1)
    BY <1>2, <1>3, <2>1, <2>2, <2>3, CheckGreaterKeeps
  <2>5. rem' = r1 /\ quo' = x1 BY <1>3 DEF CheckGreater, AMinusB, Cut
  <2> HIDE DEF r1, x1
  <2>6. PICK q1 \in Nat : PartsOf(count, q1, hi, lo, opA, opB, x1, r1) BY <2>4
  <2>7. Parts(count, q1, hi, lo)' BY <1>1, <2>5, <2>6 DEF Parts, PartsOf
  <2>8. QED BY <1>1, <2>4, <2>5, <2>7
<1>6. QED BY <1>1, <1>3, <1>4, <1>5 DEF Dividing, DoneLast, QuotientWhenDone

(* CHECK_END keeps it, and copies the quotient after the last bit. *)
LEMMA CheckEndDivides ==
  ASSUME ConstantsOK, TypeOK, Dividing, DoneLast, CheckEnd
  PROVE  Dividing' /\ DoneLast' /\ QuotientWhenDone'
<1>1. /\ done = FALSE /\ done' = FALSE /\ count' = count /\ rem' = rem /\ quo' = quo
      /\ regB' = regB /\ opA' = opA /\ opB' = opB
  BY DEF CheckEnd, DoneLast, TypeOK
<1>2. A \in Word /\ rem \in Nat /\ quo \in Nat /\ opA \in Nat BY DEF TypeOK, Word
<1>3. /\ count \in 0..(Bits - 1) /\ Cut(count)
      /\ Divisible => rem < opB /\ \E q, hi, lo \in Nat : Parts(count, q, hi, lo)
  BY DEF CheckEnd, Dividing
<1>4. CASE count = 0
  <2>1. state' = "END" /\ result' = quo BY <1>4 DEF CheckEnd
  <2>2. ASSUME Divisible' PROVE result' = opA' \div opB'
    <3>1. Divisible /\ opB \in 1..Half BY <1>1, <2>2 DEF Divisible, Half
    <3>2. opB \in Nat BY <1>2, <3>1, Sizes, SMT
    <3>3. PICK q \in Nat, hi \in Nat, lo \in Nat : PartsOf(0, q, hi, lo, opA, opB, quo, rem)
      BY <1>3, <1>4, <3>1 DEF Parts
    <3>4. quo = opA \div opB BY <1>2, <1>3, <3>1, <3>2, <3>3, LastParts
    <3>5. QED BY <1>1, <2>1, <3>4
  <2>3. QED BY <1>1, <2>1, <2>2 DEF Dividing, DoneLast, QuotientWhenDone
<1>5. CASE count # 0
  <2>1. state' = "SHIFT" BY <1>5 DEF CheckEnd
  <2>2. count \in 1..Bits BY <1>2, <1>3, <1>5, Sizes, SMT
  <2>3. Cut(count)' BY <1>1, <1>3 DEF Cut, CutAt, Modulus
  <2>4. ASSUME Divisible'
        PROVE  rem' < opB' /\ \E q, hi, lo \in Nat : Parts(count, q, hi, lo)'
    <3>1. Divisible BY <1>1, <2>4 DEF Divisible, Half
    <3>2. PICK q \in Nat, hi \in Nat, lo \in Nat : Parts(count, q, hi, lo) BY <1>3, <3>1
    <3>3. Parts(count, q, hi, lo)' BY <1>1, <3>2 DEF Parts, PartsOf
    <3>4. QED BY <1>1, <1>3, <3>1, <3>3
  <2>5. QED BY <1>1, <2>1, <2>2, <2>3, <2>4 DEF Dividing, DoneLast, QuotientWhenDone
<1>6. QED BY <1>4, <1>5

(* END holds the result. *)
LEMMA EndDivides ==
  ASSUME TypeOK, Dividing, End
  PROVE  Dividing' /\ DoneLast' /\ QuotientWhenDone'
<1>1. state' \in {"START", "END"} /\ result' = result /\ opA' = opA /\ opB' = opB
  BY DEF End
<1>2. Divisible' => result' = opA' \div opB'
  BY <1>1 DEF End, Dividing, Divisible, Half
<1>3. QED BY <1>1, <1>2 DEF Dividing, DoneLast, QuotientWhenDone

(* The invariant is inductive. *)
LEMMA StepInv ==
  ASSUME ConstantsOK, IInv, [Next]_vars
  PROVE  IInv'
<1>1. TypeOK' BY StepTypes DEF IInv
<1>2. CASE UNCHANGED vars
  <2>1. Dividing' /\ DoneLast' /\ QuotientWhenDone'
    BY <1>2 DEF IInv, vars, divider, Dividing, DoneLast, QuotientWhenDone, Divisible, Half,
                Modulus, Cut, CutAt, Parts, PartsOf
  <2>2. QED BY <1>1, <2>1 DEF IInv
<1>3. CASE Reset \/ Start \/ Start1 \/ Shift \/ CheckGreater \/ CheckEnd \/ End
  BY <1>1, <1>3, StartDivides, Start1Divides, ShiftDivides, CheckGreaterDivides,
     CheckEndDivides, EndDivides DEF IInv, TypeOK
<1>4. QED BY <1>2, <1>3 DEF Next, RunEdge, ResetEdge, Edge

(* The invariant holds at power-up. *)
LEMMA InitInv == ASSUME ConstantsOK, Init PROVE IInv
BY InitTypes DEF Init, IInv, Dividing, DoneLast, QuotientWhenDone

-----------------------------------------------------------------------------
(* Division by zero.  No trial subtraction changes the remainder, so it is  *)
(* what was shifted in, and every quotient bit is one until the dividend's  *)
(* top bit reaches the sign bit, which is in the last round.                *)
Divided(c, q) == rem < P2[Bits - c] /\ \E hi, lo \in Nat : Parts(c, q, hi, lo)

ZeroDividing ==
  opB = 0 =>
    /\ state = "SHIFT" => \E q \in Nat : Divided(count, q) /\ q + 1 = P2[Bits - count]
    /\ state = "CHECK_GREATER" =>
         \E q \in Nat : Divided(count, 2 * q) /\ 2 * q + 2 = P2[Bits - count]
    /\ state = "CHECK_END" =>
         \E q \in Nat : /\ Divided(count, q)
                        /\ q + (IF rem < Half THEN 1 ELSE 2) = P2[Bits - count]
    /\ state = "END" => result = IF opA < Half THEN Modulus - 1 ELSE Modulus - 2

(* Above the last round the remainder is below the sign bit. *)
LEMMA RemainderIsSmall ==
  ASSUME ConstantsOK, A \in Word, NEW c \in 1..Bits, CutAt(c)
  PROVE  P2[Bits - c] \in Nat /\ P2[Bits - c] <= Half
<1> DEFINE p == P2[c - 1]
           s == P2[Bits - c]
<1>1. p \in Nat /\ p > 0 /\ s \in Nat /\ Half = p * s BY CutBelow
<1> HIDE DEF p, s
<1>2. PICK e \in Nat : p = 1 + e BY <1>1, SMT
<1>3. p * s = s + e * s /\ e * s \in Nat BY <1>1, <1>2, SMT
<1>4. s <= Half BY <1>1, <1>3, SMT
<1>5. QED BY <1>1, <1>4 DEF s

(* SHIFT keeps it. *)
LEMMA ShiftByZero ==
  ASSUME ConstantsOK, TypeOK, Dividing, ZeroDividing, Shift, opB = 0
  PROVE  \E q \in Nat : Divided(count, 2 * q)' /\ 2 * q + 2 = P2[Bits - count']
<1>1. /\ count' = (count - 1) % 32 /\ opA' = opA /\ opB' = opB
      /\ rem' = (2 * rem + (quo \div Half)) % Modulus /\ quo' = (2 * quo) % Modulus
  BY DEF Shift
<1>2. A \in Word /\ rem \in Nat /\ quo \in Nat /\ opA \in Nat /\ opB \in Nat BY DEF TypeOK, Word
<1>3. count \in 1..Bits /\ CutAt(count) BY DEF Shift, Dividing, Cut
<1>4. Bits \in 1..31 /\ Half \in Nat /\ Modulus = 2 * Half BY <1>2, Sizes
<1>5. count' = count - 1 BY <1>1, <1>3, <1>4, SMT
<1> DEFINE s == P2[Bits - count]
<1>6. s \in Nat /\ s <= Half BY <1>2, <1>3, RemainderIsSmall
<1>7. P2[Bits - (count - 1)] = 2 * s BY <1>2, <1>3, CutBelow
<1>8. PICK q \in Nat, hi \in Nat, lo \in Nat :
        PartsOf(count, q, hi, lo, opA, opB, quo, rem) /\ q + 1 = s /\ rem < s
  BY DEF Shift, ZeroDividing, Divided, Parts
<1> HIDE DEF s
<1>9. 2 * rem + 1 < Modulus BY <1>2, <1>4, <1>6, <1>8, SMT
<1>10. /\ rem' \in {2 * rem, 2 * rem + 1}
       /\ \E hi1, lo1 \in Nat : PartsOf(count - 1, 2 * q, hi1, lo1, opA, opB, quo', rem')
  BY <1>1, <1>2, <1>3, <1>8, <1>9, ShiftKeeps
<1>11. rem' < 2 * s /\ 2 * q + 2 = 2 * s BY <1>2, <1>6, <1>8, <1>10, SMT
<1>12. Divided(count, 2 * q)' BY <1>1, <1>5, <1>7, <1>10, <1>11 DEF Divided, Parts, PartsOf
<1>13. QED BY <1>5, <1>7, <1>11, <1>12

(* CHECK_GREATER keeps it. *)
LEMMA CheckGreaterByZero ==
  ASSUME ConstantsOK, TypeOK, Dividing, ZeroDividing, CheckGreater, opB = 0
  PROVE  \E q \in Nat : /\ Divided(count, q)'
                        /\ q + (IF rem' < Half THEN 1 ELSE 2) = P2[Bits - count']
<1>1. count' = count /\ opA' = opA /\ opB' = opB BY DEF CheckGreater
<1>2. A \in Word /\ rem \in Nat /\ rem < Modulus /\ quo \in Nat /\ opA \in Nat
  <2>1. A \in Word /\ rem \in Word /\ quo \in Word /\ opA \in Word BY DEF TypeOK
  <2>2. Modulus \in Nat BY <2>1, Sizes
  <2>3. QED BY <2>1, <2>2, SMT DEF Word
<1>3. count \in 0..(Bits - 1) /\ regB = 0 BY DEF CheckGreater, Dividing, Cut
<1>4. Half \in Nat /\ Half > 0 /\ Modulus = 2 * Half /\ Modulus \in Nat BY <1>2, Sizes
<1>5. PICK q \in Nat, hi \in Nat, lo \in Nat :
        /\ PartsOf(count, 2 * q, hi, lo, opA, opB, quo, rem)
        /\ 2 * q + 2 = P2[Bits - count] /\ rem < P2[Bits - count]
  BY DEF CheckGreater, ZeroDividing, Divided, Parts
<1>6. AMinusB = rem
  <2>1. rem - 0 = rem /\ Modulus > 0 BY <1>2, <1>4, SMT
  <2>2. rem % Modulus = rem BY <1>2, <1>4, <2>1, SmallQuotients
  <2>3. QED BY <1>3, <2>1, <2>2 DEF AMinusB
<1>7. quo - (quo % 2) = quo BY <1>2, <1>3, <1>5, BitIsOpen DEF PartsOf
<1>8. CASE rem >= Half
  <2>1. rem' = rem /\ quo' = quo /\ ~(rem' < Half)
    <3>1. rem' = rem /\ quo' = quo BY <1>6, <1>7, <1>8 DEF CheckGreater
    <3>2. QED BY <1>2, <1>4, <1>8, <3>1, SMT
  <2>2. Divided(count, 2 * q)' BY <1>1, <1>5, <2>1 DEF Divided, Parts, PartsOf
  <2>3. 2 * q \in Nat BY SMT
  <2>4. QED BY <1>1, <1>5, <2>1, <2>2, <2>3
<1>9. CASE ~(rem >= Half)
  <2>1. rem' = rem /\ quo' = quo + 1 /\ rem' < Half
    <3>1. rem' = rem /\ quo' = quo + 1 BY <1>6, <1>7, <1>9 DEF CheckGreater
    <3>2. QED BY <1>2, <1>4, <1>9, <3>1, SMT
  <2>2. (2 * q + 1) + 1 = P2[Bits - count] /\ 2 * q + 1 \in Nat
        /\ 2 * q + 1 < P2[Bits - count]
    BY <1>5, SMT
  <2> DEFINE s == P2[Bits - count]
  <2>3. quo + 1 = lo * s + (2 * q + 1)
    <3>1. quo = lo * s + 2 * q BY <1>5 DEF PartsOf
    <3>2. s \in Nat BY <1>5, SMT
    <3> HIDE DEF s
    <3>3. lo * s \in Nat BY <3>2, SMT
    <3>4. QED BY <3>1, <3>3, SMT
  <2>4. hi = (2 * q + 1) * opB + rem
    <3>1. hi = (2 * q) * opB + rem BY <1>5 DEF PartsOf
    <3>2. (2 * q) * 0 = 0 /\ (2 * q + 1) * 0 = 0 BY SMT
    <3>3. QED BY <3>1, <3>2
  <2>5. PartsOf(count, 2 * q + 1, hi, lo, opA, opB, quo + 1, rem)
    BY <1>5, <2>2, <2>3, <2>4 DEF PartsOf
  <2>6. Divided(count, 2 * q + 1)' BY <1>1, <1>5, <2>1, <2>5 DEF Divided, Parts, PartsOf
  <2>7. QED BY <1>1, <2>1, <2>2, <2>6
<1>10. QED BY <1>8, <1>9

(* CHECK_END keeps it, and copies all ones. *)
LEMMA CheckEndByZero ==
  ASSUME ConstantsOK, TypeOK, Dividing, ZeroDividing, CheckEnd, opB = 0
  PROVE  ZeroDividing'
<1>1. count' = count /\ rem' = rem /\ quo' = quo /\ opA' = opA /\ opB' = opB
  BY DEF CheckEnd
<1>2. A \in Word /\ rem \in Nat /\ quo \in Nat /\ opA \in Nat BY DEF TypeOK, Word
<1>3. count \in 0..(Bits - 1) /\ CutAt(count) BY DEF CheckEnd, Dividing, Cut
<1>4. Half \in Nat /\ Modulus \in Nat /\ Bits \in 1..31 BY <1>2, Sizes
<1>5. PICK q \in Nat, hi \in Nat, lo \in Nat :
        /\ PartsOf(count, q, hi, lo, opA, opB, quo, rem) /\ rem < P2[Bits - count]
        /\ q + (IF rem < Half THEN 1 ELSE 2) = P2[Bits - count]
  BY DEF CheckEnd, ZeroDividing, Divided, Parts
<1>6. CASE count = 0
  <2>1. state' = "END" /\ result' = quo BY <1>6 DEF CheckEnd
  <2>2. P2[0] = 1 /\ P2[Bits - 0] = Modulus BY <1>4, SMT DEF ConstantsOK, Modulus
  <2>3. /\ lo < 1 /\ opA = hi * 1 + lo /\ quo = lo * Modulus + q /\ hi = q * 0 + rem
        /\ q + (IF rem < Half THEN 1 ELSE 2) = Modulus
    BY <1>5, <1>6, <2>2 DEF PartsOf
  <2>4. lo = 0 /\ 0 * Modulus = 0 /\ q * 0 = 0 BY <1>4, <2>3, SMT
  <2>5. opA = rem /\ quo = q BY <1>2, <1>4, <2>3, <2>4, SMT
  <2>6. q = IF opA < Half THEN Modulus - 1 ELSE Modulus - 2 BY <1>2, <1>4, <2>3, <2>5, SMT
  <2>7. QED BY <1>1, <2>1, <2>5, <2>6 DEF ZeroDividing, Half, Modulus
<1>7. CASE count # 0
  <2>1. state' = "SHIFT" BY <1>7 DEF CheckEnd
  <2>2. count \in 1..Bits BY <1>3, <1>4, <1>7, SMT
  <2>3. P2[Bits - count] <= Half /\ P2[Bits - count] \in Nat BY <1>2, <1>3, <2>2, RemainderIsSmall
  <2>4. rem < Half BY <1>2, <1>4, <1>5, <2>3, SMT
  <2>5. Divided(count, q)' BY <1>1, <1>5 DEF Divided, Parts, PartsOf
  <2>6. q + 1 = P2[Bits - count'] BY <1>1, <1>5, <2>4
  <2>7. QED BY <2>1, <2>5, <2>6 DEF ZeroDividing
<1>8. QED BY <1>6, <1>7

(* The invariant of a division by zero is inductive. *)
LEMMA StepZero ==
  ASSUME ConstantsOK, TypeOK, TypeOK', Dividing, DoneLast, ZeroDividing, DivideByZero, [Next]_vars
  PROVE  ZeroDividing' /\ DivideByZero'
<1>1. CASE UNCHANGED vars
  BY <1>1 DEF vars, divider, ZeroDividing, DivideByZero, Divided, Parts, PartsOf, Half, Modulus
<1>2. CASE Reset \/ Start BY <1>2 DEF Reset, Start, ZeroDividing, DivideByZero
<1>3. CASE Start1
  <2>1. PICK a \in Word : /\ opA' = a /\ quo' = a /\ rem' = 0
                          /\ state' = "SHIFT" /\ done' = FALSE /\ count' = Bits
    <3>1. Seen(A, A') \subseteq Word BY DEF Seen, TypeOK
    <3>2. count = Bits BY <1>3 DEF Start1, Dividing
    <3>3. QED BY <1>3, <3>1, <3>2 DEF Start1
  <2>2. ASSUME opB' = 0 PROVE Divided(count, 0)' /\ 0 + 1 = P2[Bits - count']
    <3>1. A \in Word /\ a \in Nat /\ 0 \in Nat BY DEF TypeOK, Word
    <3>2. PartsOf(Bits, 0, 0, a, a, 0, a, 0) BY <3>1, FirstParts
    <3>3. Bits - Bits = 0 /\ P2[0] = 1 BY <3>1, Sizes, SMT DEF ConstantsOK
    <3>4. 0 + 1 = P2[Bits - Bits] /\ 0 < P2[Bits - Bits] BY <3>3, SMT
    <3>5. QED BY <2>1, <2>2, <3>1, <3>2, <3>4 DEF Divided, Parts, PartsOf
  <2>3. QED BY <2>1, <2>2 DEF ZeroDividing, DivideByZero
<1>4. CASE Shift
  <2>1. state' = "CHECK_GREATER" /\ done' = FALSE /\ opB' = opB BY <1>4 DEF Shift
  <2>2. QED BY <1>4, <2>1, ShiftByZero DEF ZeroDividing, DivideByZero
<1>5. CASE CheckGreater
  <2>1. state' = "CHECK_END" /\ done' = FALSE /\ opB' = opB BY <1>5 DEF CheckGreater
  <2>2. opB' = 0 =>
          \E q \in Nat : /\ Divided(count, q)'
                         /\ q + (IF rem' < Half THEN 1 ELSE 2) = P2[Bits - count']
    BY <1>5, <2>1, CheckGreaterByZero
  <2>3. QED BY <2>1, <2>2 DEF ZeroDividing, DivideByZero, Half
<1>6. CASE CheckEnd
  <2>1. done' = FALSE /\ opB' = opB BY <1>6 DEF CheckEnd, DoneLast, TypeOK
  <2>2. QED BY <1>6, <2>1, CheckEndByZero DEF ZeroDividing, DivideByZero
<1>7. CASE End
  <2>1. state' \in {"START", "END"} /\ result' = result /\ opA' = opA /\ opB' = opB
    BY <1>7 DEF End
  <2>2. opB = 0 => result = IF opA < Half THEN Modulus - 1 ELSE Modulus - 2
    BY <1>7 DEF End, ZeroDividing
  <2>3. QED BY <2>1, <2>2 DEF ZeroDividing, DivideByZero, Half, Modulus
<1>8. QED BY <1>1, <1>2, <1>3, <1>4, <1>5, <1>6, <1>7 DEF Next, RunEdge, ResetEdge, Edge

-----------------------------------------------------------------------------
(* Every register keeps its range, whatever the bus and the reset do.       *)
THEOREM TypeCorrect == ASSUME ConstantsOK PROVE Spec => []TypeOK
<1>1. Init => TypeOK BY InitTypes
<1>2. TypeOK /\ [Next]_vars => TypeOK' BY StepTypes
<1>3. QED BY <1>1, <1>2, PTL DEF Spec

(* For every width, every clocking of the bus and the reset, and every pair *)
(* of operands: whenever div.v shows done, its result is the integer        *)
(* quotient if the sign test can handle the divisor, and all ones, or all   *)
(* but the lowest bit, if the divisor is zero.                              *)
THEOREM QuotientCorrect ==
  ASSUME ConstantsOK PROVE Spec => []QuotientWhenDone /\ []DivideByZero
<1> DEFINE Both == IInv /\ ZeroDividing /\ DivideByZero
<1>1. Init => Both
  <2>1. Init => IInv BY InitInv
  <2>2. Init => ZeroDividing /\ DivideByZero BY DEF Init, ZeroDividing, DivideByZero
  <2>3. QED BY <2>1, <2>2
<1>2. Both /\ [Next]_vars => Both' BY StepInv, StepZero DEF IInv
<1>3. Both => QuotientWhenDone /\ DivideByZero BY DEF IInv
<1> HIDE DEF Both
<1>4. QED BY <1>1, <1>2, <1>3, PTL DEF Spec
=============================================================================
