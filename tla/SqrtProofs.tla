----------------------------- MODULE SqrtProofs -----------------------------
(***************************************************************************)
(* The square-root unit finds the integer root, for every operand width of *)
(* four bits or more and every behaviour of software and of the reset line.*)
(***************************************************************************)
EXTENDS Sqrt, TLAPS

-----------------------------------------------------------------------------
(* Quotients and remainders. *)

(* The quotient is the only number of divisors whose remainder is smaller   *)
(* than one of them.                                                       *)
LEMMA QuotientIsUnique ==
  ASSUME NEW n \in Nat, NEW b \in Nat, NEW q \in Nat, NEW r \in Nat,
         r < b, n = q * b + r
  PROVE  q = n \div b
<1> DEFINE d == n \div b
           s == n % b
<1>1. d \in Nat /\ s \in Nat /\ s < b /\ n = b * d + s BY SMT
<1> HIDE DEF d, s
<1>2. CASE q > d
  <2>1. PICK e \in Nat : q = d + 1 + e BY <1>1, <1>2, SMT
  <2>2. q * b = b * d + b + e * b BY <1>1, <2>1, SMT
  <2>3. e * b \in Nat /\ b * d \in Nat BY <1>1, SMT
  <2>4. QED BY <1>1, <2>2, <2>3, SMT
<1>3. CASE q < d
  <2>1. PICK e \in Nat : d = q + 1 + e BY <1>1, <1>3, SMT
  <2>2. b * d = q * b + b + e * b BY <1>1, <2>1, SMT
  <2>3. e * b \in Nat /\ q * b \in Nat BY <1>1, SMT
  <2>4. QED BY <1>1, <2>2, <2>3, SMT
<1>4. q = d BY <1>1, <1>2, <1>3, SMT
<1>5. QED BY <1>4 DEF d

(* So are the two together. *)
LEMMA DivisionIsUnique ==
  ASSUME NEW n \in Nat, NEW b \in Nat, NEW q \in Nat, NEW r \in Nat,
         r < b, n = q * b + r
  PROVE  n \div b = q /\ n % b = r
<1>1. n \div b = q BY QuotientIsUnique
<1>2. n = b * (n \div b) + (n % b) BY SMT
<1>3. b * q = q * b /\ b * q \in Nat /\ n % b \in Nat BY SMT
<1>4. QED BY <1>1, <1>2, <1>3, SMT

(* Quotient and remainder when the dividend is below twice the divisor. *)
LEMMA SmallQuotients ==
  ASSUME NEW n \in Nat, NEW h \in Nat, h > 0
  PROVE  /\ n < h => n \div h = 0
         /\ h <= n /\ n < 2 * h => n \div h = 1
         /\ n < h => n % h = n
         /\ h <= n /\ n < 2 * h => n % h = n - h
<1>1. ASSUME n < h PROVE n \div h = 0 /\ n % h = n
  <2>1. n = 0 * h + n BY SMT
  <2>2. n \div h = 0 BY <1>1, <2>1, QuotientIsUnique
  <2>3. n % h = n BY <1>1, SMT
  <2>4. QED BY <2>2, <2>3
<1>2. ASSUME h <= n, n < 2 * h PROVE n \div h = 1 /\ n % h = n - h
  <2>1. n - h \in Nat /\ n - h < h /\ n = 1 * h + (n - h) BY <1>2, SMT
  <2>2. n \div h = 1 BY <2>1, QuotientIsUnique
  <2>3. n = h * (n \div h) + (n % h) BY SMT
  <2>4. n % h \in Nat BY SMT
  <2>5. QED BY <2>2, <2>3, <2>4, SMT
<1>3. QED BY <1>1, <1>2

(* A negative number wraps around once. *)
LEMMA NegativeModulo ==
  ASSUME NEW m \in Nat, NEW d \in Int, m > 0, -m <= d, d < 0
  PROVE  d % m = d + m
<1> DEFINE k == d \div m
           r == d % m
<1>1. k \in Int /\ r \in Nat /\ r < m /\ d = m * k + r BY SMT
<1> HIDE DEF k, r
<1>2. CASE k >= 0
  <2>1. m * k \in Nat BY <1>1, <1>2, SMT
  <2>2. QED BY <1>1, <2>1, SMT
<1>3. CASE k <= -2
  <2>1. PICK e \in Nat : k = -2 - e BY <1>1, <1>3, SMT
  <2>2. m * k = -2 * m - m * e /\ m * e \in Nat BY <2>1, SMT
  <2>3. QED BY <1>1, <2>2, SMT
<1>4. CASE k = -1 BY <1>1, <1>4, SMT DEF r
<1>5. QED BY <1>1, <1>2, <1>3, <1>4, SMT

-----------------------------------------------------------------------------

(* The powers of four are numbers, and the width has a digit to cut off. *)
LEMMA Sizes ==
  ASSUME ConstantsOK, A \in Word
  PROVE  /\ Iter \in 1..15
         /\ P4[Iter - 1] \in Nat /\ P4[Iter - 1] > 0 /\ Modulus = 4 * P4[Iter - 1]
         /\ Modulus \in Nat /\ Modulus > 0 /\ Half = 2 * P4[Iter - 1]
         /\ 0 \in Word /\ 1 \in Word
         /\ \A k \in 0..Iter : P4[k] \in Nat
<1>1. Iter \in 1..15 /\ Iter - 1 \in 0..(Iter - 1) /\ Iter \in 0..Iter /\ Iter - 1 \in 0..Iter
      /\ (Iter - 1) + 1 = Iter
  BY SMT DEF ConstantsOK
<1>2. \A k \in 0..Iter : P4[k] \in Nat BY DEF ConstantsOK
<1>3. P4[(Iter - 1) + 1] = 4 * P4[Iter - 1] BY <1>1 DEF ConstantsOK
<1>4. Modulus \in Nat /\ Modulus = 4 * P4[Iter - 1] BY <1>1, <1>2, <1>3 DEF Modulus
<1>5. Modulus > 0 BY <1>4, SMT DEF Word
<1>6. P4[Iter - 1] \in Nat /\ P4[Iter - 1] > 0 BY <1>1, <1>2, <1>4, <1>5, SMT
<1>7. QED BY <1>1, <1>2, <1>4, <1>5, <1>6, SMT DEF Word, Half

(* What the bus carries fits a register. *)
LEMMA BusData ==
  ASSUME ConstantsOK, A \in Word, NEW bus \in BusCycles({"A"}, Data)
  PROVE  bus.d \in Word
<1>1. Data \subseteq Word BY DEF ConstantsOK, Word, Modulus
<1>2. QED BY <1>1, Sizes DEF BusCycles, Idle, Load, Store

(* What is cut to the width, or to four bits, fits. *)
LEMMA ArithmeticTypes ==
  ASSUME ConstantsOK, A \in Word, NEW x \in Int
  PROVE  x % Modulus \in Word /\ x % 16 \in 0..15
<1>1. Modulus \in Nat /\ Modulus > 0 BY Sizes
<1>2. QED BY <1>1, SMT DEF Word

(* The rising edge: every action names a state it is taken in. *)
Rising == Reset \/ Start \/ ShiftDec \/ LoadTmp \/ Check \/ LoadA2 \/ CheckZ \/ End1

(* The control unit keeps its ranges. *)
LEMMA RisingTypes ==
  ASSUME TypeOK, Rising
  PROVE  state' \in States /\ count' \in 0..15
<1>1. CASE End1
  <2>1. (count + 1) % 16 \in 0..15 BY SMT DEF TypeOK
  <2>2. QED BY <1>1, <2>1 DEF End1, States
<1>2. CASE ~End1
  BY <1>2 DEF Rising, Reset, Start, ShiftDec, LoadTmp, Check, LoadA2, CheckZ, Goto, States, TypeOK
<1>3. QED BY <1>1, <1>2

(* Types are inductive. *)
LEMMA PeriodTypes ==
  ASSUME ConstantsOK, TypeOK, NEW bus \in BusCycles({"A"}, Data), NEW rst \in BOOLEAN,
         Period(bus, rst, Rising)
  PROVE  TypeOK'
<1>1. A \in Word /\ bus.d \in Word /\ 0 \in Word /\ 1 \in Word BY Sizes, BusData DEF TypeOK
<1>2. A' \in Word /\ init' \in BOOLEAN /\ d_out' \in Word
  BY <1>1 DEF Period, WriteRegisters, TypeOK
<1>3. rem' \in Word /\ low' \in Word /\ opA' \in Word
  <2>1. Seen(A, A') \subseteq Word BY <1>1, <1>2 DEF Seen
  <2>2. low \div P4[Iter - 1] \in Int BY <1>1, Sizes, SMT DEF TypeOK, Word
  <2>3. 4 * rem + (low \div P4[Iter - 1]) \in Int /\ 4 * low \in Int
    BY <2>2, SMT DEF TypeOK, Word
  <2>4. (2 * TMP + 1) % Modulus \in Word BY <1>1, ArithmeticTypes, SMT DEF TypeOK, Word
  <2>5. rem - ((2 * TMP + 1) % Modulus) \in Int BY <2>4, SMT DEF TypeOK, Word
  <2>6. Trial \in Word BY <1>1, <2>5, ArithmeticTypes DEF Trial
  <2>7. /\ (4 * rem + (low \div P4[Iter - 1])) % Modulus \in Word
        /\ (4 * low) % Modulus \in Word
    BY <1>1, <2>3, ArithmeticTypes
  <2>8. QED BY <1>1, <2>1, <2>6, <2>7 DEF Period, Remainder, TypeOK
<1>4. R' \in Word /\ TMP' \in Word
  <2>1. (2 * R) % Modulus \in Word BY <1>1, ArithmeticTypes, SMT DEF TypeOK, Word
  <2>2. R - (R % 2) + 1 \in Word BY <1>1, Sizes, SMT DEF TypeOK, Word
  <2>3. QED BY <1>1, <2>1, <2>2 DEF Period, Root, TypeOK
<1>5. cont' \in 0..15 /\ z' \in BOOLEAN
  <2>1. (cont - 1) % 16 \in 0..15 BY SMT DEF TypeOK
  <2>2. Iter \in 0..15 BY <1>1, Sizes, SMT
  <2>3. QED BY <2>1, <2>2 DEF Period, Iteration, TypeOK
<1>6. state' \in States /\ count' \in 0..15 BY RisingTypes DEF Period
<1>7. QED BY <1>2, <1>3, <1>4, <1>5, <1>6 DEF TypeOK

(* Types hold at power-up. *)
LEMMA InitTypes == ASSUME ConstantsOK, Init PROVE TypeOK
<1>1. PowerUp \subseteq Word BY DEF ConstantsOK, Word, Modulus
<1>2. A \in Word BY <1>1 DEF Init
<1>3. 0 \in Word /\ 0 \in 0..15 /\ Iter \in 0..15 BY <1>2, Sizes, SMT
<1>4. QED BY <1>1, <1>3 DEF Init, TypeOK, States

(* Every step is a clock period with one rising edge. *)
LEMMA StepIsPeriod ==
  ASSUME Next
  PROVE  \E bus \in BusCycles({"A"}, Data), rst \in BOOLEAN : Period(bus, rst, Rising)
BY DEF Next, RunPeriod, ResetPeriod, Period, Rising

(* Every register keeps its range, whatever the bus and the reset do.       *)
THEOREM TypeCorrect == ASSUME ConstantsOK PROVE Spec => []TypeOK
<1>1. Init => TypeOK BY InitTypes
<1>2. TypeOK /\ [Next]_vars => TypeOK'
  <2>1. TypeOK /\ UNCHANGED vars => TypeOK' BY DEF vars, TypeOK
  <2>2. TypeOK /\ Next => TypeOK' BY StepIsPeriod, PeriodTypes
  <2>3. QED BY <2>1, <2>2
<1>3. QED BY <1>1, <1>2, PTL DEF Spec

-----------------------------------------------------------------------------
(* The loop.                                                                *)

(* The operand cut at digit c of base four: hi has been shifted out, lo is  *)
(* left in the lower half of lsr2.                                          *)
SplitOf(c, hi, lo, a, x) ==
  /\ lo < P4[c] /\ hi < P4[Iter - c]
  /\ a = hi * P4[c] + lo
  /\ x = lo * P4[Iter - c]

(* The powers of four above and below the cut make up the width. *)
CutAt(c) == P4[c] * P4[Iter - c] = Modulus

(* The root r of what has been shifted out, and the remainder m.            *)
Rooted(c, a, x, r, m) ==
  /\ m <= 2 * r
  /\ \E hi, lo \in Nat : SplitOf(c, hi, lo, a, x) /\ hi = r * r + m

(* The same with the next digit shifted in and the root's next bit open;    *)
(* the sign test of the trial subtraction cannot overflow.                  *)
Doubled(c, a, x, r, m) ==
  /\ m <= 4 * r + 3 /\ r % 2 = 0 /\ 4 * r + 4 < Modulus
  /\ \E hi, lo \in Nat : SplitOf(c, hi, lo, a, x) /\ hi = r * r + m

Loaded == rem = 0 /\ low = opA /\ R = 0 /\ TMP = 0 /\ cont = Iter

Computing ==
  /\ state = "START" /\ init => Loaded
  /\ state \in {"SHIFT_DEC", "LOAD_TMP", "CHECK"} =>
       cont \in 0..(Iter - 1) /\ CutAt(cont) /\ Doubled(cont, opA, low, R, rem)
  /\ state \in {"LOAD_TMP", "CHECK"} => TMP = R
  /\ state \in {"LOAD_A2", "CHECK_Z", "END1"} =>
       cont \in 0..(Iter - 1) /\ CutAt(cont) /\ Rooted(cont, opA, low, R, rem)
  /\ state = "CHECK_Z" => z = (cont = 0)
  /\ state = "END1" => cont = 0

IInv == TypeOK /\ Computing

-----------------------------------------------------------------------------
(* One digit further down, the powers of four still make up the width. *)
LEMMA CutBelow ==
  ASSUME ConstantsOK, A \in Word, NEW c \in 1..Iter, CutAt(c)
  PROVE  LET p == P4[c - 1]
             s == P4[Iter - c]
         IN  /\ p \in Nat /\ p > 0 /\ s \in Nat /\ s > 0
             /\ P4[c] = 4 * p /\ P4[Iter - (c - 1)] = 4 * s
             /\ P4[Iter - 1] = p * s /\ CutAt(c - 1)
<1> DEFINE p == P4[c - 1]
           s == P4[Iter - c]
           w == P4[Iter - 1]
<1>1. Iter \in 1..15 /\ w \in Nat /\ w > 0 /\ Modulus = 4 * w BY Sizes
<1>2. c - 1 \in 0..(Iter - 1) /\ Iter - c \in 0..(Iter - 1) /\ c - 1 \in 0..Iter
      /\ Iter - c \in 0..Iter /\ (c - 1) + 1 = c /\ (Iter - c) + 1 = Iter - (c - 1)
  BY <1>1, SMT
<1>3. p \in Nat /\ s \in Nat BY <1>1, <1>2, Sizes
<1>4. P4[c] = 4 * p /\ P4[Iter - (c - 1)] = 4 * s BY <1>2 DEF ConstantsOK
<1>5. (4 * p) * s = 4 * w BY <1>1, <1>4 DEF CutAt
<1> HIDE DEF p, s, w
<1>6. p * s = w BY <1>1, <1>3, <1>5, SMT
<1>7. p > 0 /\ s > 0 BY <1>1, <1>3, <1>6, SMT
<1>8. p * (4 * s) = Modulus BY <1>1, <1>3, <1>5, SMT
<1>9. CutAt(c - 1) BY <1>4, <1>8 DEF CutAt, p
<1>10. QED BY <1>3, <1>4, <1>6, <1>7, <1>9 DEF p, s, w

(* Two bits leave the top of the lower half of lsr2. *)
LEMMA ShiftDigit ==
  ASSUME NEW p \in Nat, NEW s \in Nat, NEW w \in Nat, NEW lo \in Nat, NEW x \in Nat,
         p > 0, s > 0, w = p * s, lo < 4 * p, x = lo * s
  PROVE  \E t \in 0..3, l \in 0..(p - 1) :
           lo = t * p + l /\ x \div w = t /\ (4 * x) % (4 * w) = l * (4 * s)
<1>1. PICK t \in 0..3, l \in 0..(p - 1) : lo = t * p + l
  <2>1. CASE lo < p
    <3>1. lo \in 0..(p - 1) /\ lo = 0 * p + lo BY <2>1, SMT
    <3>2. QED BY <3>1, SMT
  <2>2. CASE p <= lo /\ lo < 2 * p
    <3>1. lo - p \in 0..(p - 1) /\ lo = 1 * p + (lo - p) BY <2>2, SMT
    <3>2. QED BY <3>1, SMT
  <2>3. CASE 2 * p <= lo /\ lo < 3 * p
    <3>1. lo - 2 * p \in 0..(p - 1) /\ lo = 2 * p + (lo - 2 * p) BY <2>3, SMT
    <3>2. QED BY <3>1, SMT
  <2>4. CASE 3 * p <= lo
    <3>1. lo - 3 * p \in 0..(p - 1) /\ lo = 3 * p + (lo - 3 * p) BY <2>4, SMT
    <3>2. QED BY <3>1, SMT
  <2>5. QED BY <2>1, <2>2, <2>3, <2>4, SMT
<1>2. l * s \in Nat /\ l * s < w
  <2>1. PICK e \in Nat : p = l + 1 + e BY SMT
  <2>2. w = l * s + s + e * s BY <2>1, SMT
  <2>3. l * s \in Nat /\ e * s \in Nat BY SMT
  <2>4. QED BY <2>2, <2>3, SMT
<1>3. x = t * w + l * s
  <2>1. (t * p) * s = t * (p * s) BY SMT
  <2>2. (t * p + l) * s = (t * p) * s + l * s BY SMT
  <2>3. QED BY <1>1, <2>1, <2>2
<1>4. t \in Nat /\ w \in Nat /\ l \in Nat BY SMT
<1>5. x \div w = t BY <1>2, <1>3, <1>4, DivisionIsUnique
<1>6. 4 * x = t * (4 * w) + 4 * (l * s) /\ 4 * (l * s) \in Nat /\ 4 * (l * s) < 4 * w
      /\ 4 * w \in Nat /\ 4 * x \in Nat
  BY <1>2, <1>3, <1>4, SMT
<1>7. (4 * x) % (4 * w) = 4 * (l * s) BY <1>4, <1>6, DivisionIsUnique
<1>8. 4 * (l * s) = l * (4 * s) BY <1>4, SMT
<1>9. QED BY <1>1, <1>5, <1>7, <1>8

(* The width leaves the trial subtraction a sign bit: an even root whose    *)
(* square fits is small, for an operand of four bits or more.               *)
LEMMA EvenRootIsSmall ==
  ASSUME NEW k \in Nat, NEW u \in Nat, k > 0, (2 * u) * (2 * u) < 16 * k
  PROVE  8 * u + 4 < 16 * k
<1>1. CASE u <= 1 BY <1>1, SMT
<1>2. CASE u = 2 BY <1>2, SMT
<1>3. CASE u >= 3
  <2>1. PICK e \in Nat : u = 3 + e BY <1>3, SMT
  <2>2. (2 * u) * (2 * u) = 36 + 24 * e + 4 * (e * e) /\ e * e \in Nat BY <2>1, SMT
  <2>3. 8 * u + 4 = 28 + 8 * e BY <2>1, SMT
  <2>4. QED BY <2>2, <2>3, SMT
<1>4. QED BY <1>1, <1>2, <1>3, SMT

(* SHIFT_DEC: the next digit of the operand, and a zero bit of the root.    *)
LEMMA ShiftKeeps ==
  ASSUME ConstantsOK, Iter >= 2, A \in Word, NEW c \in 1..Iter, CutAt(c),
         NEW a \in Nat, NEW x \in Nat, NEW r \in Nat, NEW m \in Nat,
         Rooted(c, a, x, r, m)
  PROVE  Doubled(c - 1, a, (4 * x) % Modulus, (2 * r) % Modulus,
                 (4 * m + (x \div P4[Iter - 1])) % Modulus)
<1> DEFINE p == P4[c - 1]
           s == P4[Iter - c]
           w == P4[Iter - 1]
<1>1. /\ p \in Nat /\ p > 0 /\ s \in Nat /\ s > 0
      /\ P4[c] = 4 * p /\ P4[Iter - (c - 1)] = 4 * s
      /\ w = p * s /\ CutAt(c - 1)
  BY CutBelow
<1>2. w \in Nat /\ w > 0 /\ Modulus = 4 * w /\ Modulus \in Nat /\ Modulus > 0 BY Sizes
<1>3. PICK hi \in Nat, lo \in Nat : SplitOf(c, hi, lo, a, x) /\ hi = r * r + m
  BY DEF Rooted
<1>4. lo < 4 * p /\ hi < s /\ a = hi * (4 * p) + lo /\ x = lo * s /\ m <= 2 * r
  BY <1>1, <1>3 DEF SplitOf, Rooted
<1>5. p * (4 * s) = Modulus BY <1>1 DEF CutAt, p
<1>6. PICK k \in Nat : Modulus = 16 * k
  <2>1. Iter - 2 \in 0..(Iter - 1) /\ (Iter - 2) + 1 = Iter - 1 /\ Iter - 2 \in 0..Iter
    BY Sizes, SMT
  <2>2. w = 4 * P4[Iter - 2] /\ P4[Iter - 2] \in Nat BY <2>1 DEF ConstantsOK
  <2>3. QED BY <1>2, <2>2, SMT
<1> HIDE DEF p, s, w
<1>7. PICK t \in 0..3, l \in 0..(p - 1) :
        lo = t * p + l /\ x \div w = t /\ (4 * x) % (4 * w) = l * (4 * s)
  BY <1>1, <1>2, <1>4, ShiftDigit
<1>8. 4 * hi + t \in Nat /\ 4 * hi + t < 4 * s BY <1>1, <1>4, SMT
<1>9. 4 * hi + t = (2 * r) * (2 * r) + (4 * m + t)
  <2>1. (2 * r) * (2 * r) = 4 * (r * r) /\ r * r \in Nat BY SMT
  <2>2. hi \in Nat /\ hi = r * r + m BY <1>3
  <2>3. QED BY <2>1, <2>2, SMT
<1>10. 8 * r + 4 < Modulus
  <2>1. PICK e \in Nat : p = 1 + e BY <1>1, SMT
  <2>2. p * (4 * s) = 4 * s + e * (4 * s) /\ e * (4 * s) \in Nat BY <1>1, <2>1, SMT
  <2>3. 4 * s <= Modulus BY <1>1, <1>5, <2>2, SMT
  <2>4. (2 * r) * (2 * r) \in Nat BY SMT
  <2>5. (2 * r) * (2 * r) < 16 * k BY <1>1, <1>6, <1>8, <1>9, <2>3, <2>4, SMT
  <2>6. k > 0 BY <1>2, <1>6, SMT
  <2>7. QED BY <1>6, <2>5, <2>6, EvenRootIsSmall
<1>11. 2 * r \in Nat /\ 2 * r < Modulus /\ 4 * m + t \in Nat /\ 4 * m + t < Modulus
       /\ 4 * m + t <= 4 * (2 * r) + 3 /\ 4 * (2 * r) + 4 < Modulus /\ (2 * r) % 2 = 0
  BY <1>2, <1>4, <1>10, SMT
<1>12. (2 * r) % Modulus = 2 * r /\ (4 * m + t) % Modulus = 4 * m + t
  BY <1>2, <1>11, SmallQuotients
<1>13. l \in Nat /\ l < p BY <1>1, SMT
<1>14. a = (4 * hi + t) * p + l
  <2>1. hi * (4 * p) = 4 * (hi * p) /\ (4 * hi + t) * p = 4 * (hi * p) + t * p BY <1>1, SMT
  <2>2. hi * p \in Nat /\ t * p \in Nat BY <1>1, SMT
  <2>3. QED BY <1>4, <1>7, <1>13, <2>1, <2>2, SMT
<1>15. SplitOf(c - 1, 4 * hi + t, l, a, (4 * x) % Modulus)
  BY <1>1, <1>2, <1>7, <1>8, <1>13, <1>14 DEF SplitOf, p
<1>16. Doubled(c - 1, a, (4 * x) % Modulus, 2 * r, 4 * m + t)
  BY <1>8, <1>9, <1>11, <1>13, <1>15 DEF Doubled
<1>17. QED BY <1>7, <1>12, <1>16 DEF w

(* CHECK: the sign of the trial subtraction is the next bit of the root.    *)
LEMMA CheckKeeps ==
  ASSUME ConstantsOK, A \in Word, NEW c \in 0..(Iter - 1),
         NEW a \in Nat, NEW x \in Nat, NEW r \in Nat, NEW m \in Nat,
         Doubled(c, a, x, r, m)
  PROVE  LET d == (m - ((2 * r + 1) % Modulus)) % Modulus
         IN  /\ d >= Half => Rooted(c, a, x, r, m)
             /\ d < Half => Rooted(c, a, x, r - (r % 2) + 1, d)
<1> DEFINE w == P4[Iter - 1]
           d == (m - ((2 * r + 1) % Modulus)) % Modulus
<1>1. w \in Nat /\ w > 0 /\ Modulus = 4 * w /\ Modulus \in Nat /\ Modulus > 0 /\ Half = 2 * w
  BY Sizes
<1> HIDE DEF w
<1>2. m <= 4 * r + 3 /\ r % 2 = 0 /\ 4 * r + 4 < Modulus BY DEF Doubled
<1>3. PICK hi \in Nat, lo \in Nat : SplitOf(c, hi, lo, a, x) /\ hi = r * r + m
  BY DEF Doubled
<1>4. (2 * r + 1) % Modulus = 2 * r + 1
  <2>1. 2 * r + 1 \in Nat /\ 2 * r + 1 < Modulus BY <1>1, <1>2, SMT
  <2>2. QED BY <1>1, <2>1, SmallQuotients
<1>5. CASE m < 2 * r + 1
  <2>1. m - (2 * r + 1) \in Int /\ -Modulus <= m - (2 * r + 1) /\ m - (2 * r + 1) < 0
    BY <1>1, <1>2, <1>5, SMT
  <2>2. d = (m - (2 * r + 1)) + Modulus BY <1>1, <1>4, <2>1, NegativeModulo
  <2>3. d >= Half /\ ~(d < Half) BY <1>1, <1>2, <2>2, SMT
  <2>4. m <= 2 * r BY <1>5, SMT
  <2>5. Rooted(c, a, x, r, m) BY <1>3, <2>4 DEF Rooted
  <2>6. QED BY <2>3, <2>5
<1>6. CASE m >= 2 * r + 1
  <2>1. m - (2 * r + 1) \in Nat /\ m - (2 * r + 1) < Modulus /\ m - (2 * r + 1) < Half
        /\ m - (2 * r + 1) <= 2 * (r + 1)
    BY <1>1, <1>2, <1>6, SMT
  <2>2. d = m - (2 * r + 1)
    <3>1. (m - (2 * r + 1)) % Modulus = m - (2 * r + 1) BY <1>1, <2>1, SmallQuotients
    <3>2. QED BY <1>4, <3>1
  <2>3. r - (r % 2) + 1 = r + 1 BY <1>2, SMT
  <2>4. hi = (r + 1) * (r + 1) + (m - (2 * r + 1))
    <3>1. (r + 1) * (r + 1) = r * r + 2 * r + 1 /\ r * r \in Nat BY SMT
    <3>2. hi = r * r + m BY <1>3
    <3>3. QED BY <3>1, <3>2, SMT
  <2>5. Rooted(c, a, x, r + 1, m - (2 * r + 1)) BY <1>3, <2>1, <2>4 DEF Rooted
  <2>6. ~(d >= Half) BY <1>1, <2>1, <2>2, SMT
  <2>7. QED BY <2>2, <2>3, <2>5, <2>6
<1>7. QED BY <1>5, <1>6, SMT

(* Loaded with an operand, the unit has nothing shifted out.                *)
LEMMA LoadedIsRooted ==
  ASSUME ConstantsOK, A \in Word, NEW a \in Word
  PROVE  CutAt(Iter) /\ Rooted(Iter, a, a, 0, 0)
<1>1. Iter \in 1..15 /\ Modulus \in Nat BY Sizes
<1>2. Iter - Iter = 0 /\ P4[0] = 1 /\ P4[Iter] = Modulus BY <1>1 DEF ConstantsOK, Modulus
<1>3. CutAt(Iter) BY <1>1, <1>2, SMT DEF CutAt
<1>4. a \in Nat /\ a < Modulus /\ a = 0 * Modulus + a /\ a = a * 1 BY <1>1, SMT DEF Word
<1>5. SplitOf(Iter, 0, a, a, a) BY <1>2, <1>4 DEF SplitOf
<1>6. 0 <= 2 * 0 /\ 0 = 0 * 0 + 0 /\ 0 \in Nat BY SMT
<1>7. QED BY <1>3, <1>4, <1>5, <1>6 DEF Rooted

-----------------------------------------------------------------------------
(* One step of the unit: the state after the rising edge decides what the   *)
(* datapath does at the falling edge.                                       *)
LEMMA Outputs ==
  ASSUME NEW bus, NEW rst, Period(bus, rst, Rising)
  PROVE  /\ state' = "START" => rem' = 0 /\ low' = opA' /\ R' = 0 /\ TMP' = 0 /\ cont' = Iter
         /\ state' # "START" => opA' = opA
         /\ state' = "SHIFT_DEC" =>
              /\ rem' = (4 * rem + (low \div P4[Iter - 1])) % Modulus
              /\ low' = (4 * low) % Modulus /\ R' = (2 * R) % Modulus /\ cont' = (cont - 1) % 16
         /\ state' \in {"LOAD_TMP", "CHECK", "CHECK_Z", "END1"} =>
              rem' = rem /\ low' = low /\ R' = R /\ cont' = cont
         /\ state' = "LOAD_A2" =>
              rem' = Trial /\ low' = low /\ R' = R - (R % 2) + 1 /\ cont' = cont
         /\ state' \notin {"START", "LOAD_TMP"} => TMP' = TMP
         /\ state' = "LOAD_TMP" => TMP' = R
         /\ z' = (cont = 0)
BY DEF Period, Remainder, Root, Iteration, ld, sh, ld_tmp, lda2

(* The states the control unit comes from. *)
LEMMA SuccessorState ==
  ASSUME NEW bus, NEW rst, Period(bus, rst, Rising)
  PROVE  /\ state' = "SHIFT_DEC" => (state = "START" /\ init) \/ (state = "CHECK_Z" /\ ~z)
         /\ state' = "LOAD_TMP" => state = "SHIFT_DEC"
         /\ state' = "CHECK" => state = "LOAD_TMP"
         /\ state' = "LOAD_A2" => state = "CHECK" /\ ~msb
         /\ state' = "CHECK_Z" => (state = "CHECK" /\ msb) \/ state = "LOAD_A2"
         /\ state' = "END1" => (state = "CHECK_Z" /\ z) \/ state = "END1"
BY DEF Period, Rising, Reset, Start, ShiftDec, LoadTmp, Check, LoadA2, CheckZ, End1, Goto

(* A period keeps the invariant: one step per state that it leads to. *)
LEMMA StepComputes ==
  ASSUME ConstantsOK, Iter >= 2, IInv, NEW bus \in BusCycles({"A"}, Data), NEW rst \in BOOLEAN,
         Period(bus, rst, Rising), TypeOK'
  PROVE  Computing'
<1>1. A \in Word /\ opA \in Nat /\ low \in Nat /\ R \in Nat /\ rem \in Nat /\ cont \in 0..15
      /\ opA \in Word
  BY DEF IInv, TypeOK, Word
<1>2. Iter \in 1..15 BY <1>1, Sizes
<1>3. state' = "START" /\ init' => Loaded' BY Outputs DEF Loaded
<1>4. ASSUME state' = "SHIFT_DEC"
      PROVE  cont' \in 0..(Iter - 1) /\ CutAt(cont)' /\ Doubled(cont, opA, low, R, rem)'
  <2>1. cont \in 1..Iter /\ CutAt(cont) /\ Rooted(cont, opA, low, R, rem)
    <3>1. CASE state = "START" /\ init
      <4>1. Loaded BY <3>1 DEF IInv, Computing
      <4>2. CutAt(Iter) /\ Rooted(Iter, opA, opA, 0, 0) BY <1>1, LoadedIsRooted
      <4>3. Iter \in 1..Iter BY <1>2, SMT
      <4>4. QED BY <4>1, <4>2, <4>3 DEF Loaded
    <3>2. CASE state = "CHECK_Z" /\ ~z
      <4>1. cont \in 0..(Iter - 1) /\ cont # 0 /\ CutAt(cont) /\ Rooted(cont, opA, low, R, rem)
        BY <3>2 DEF IInv, Computing
      <4>2. QED BY <1>2, <4>1, SMT
    <3>3. QED BY <1>4, <3>1, <3>2, SuccessorState
  <2>2. cont' = cont - 1 /\ cont' \in 0..(Iter - 1)
    <3>1. cont' = (cont - 1) % 16 BY <1>4, Outputs
    <3>2. QED BY <1>2, <2>1, <3>1, SMT
  <2>3. CutAt(cont - 1) BY <1>1, <2>1, CutBelow
  <2>4. Doubled(cont - 1, opA, (4 * low) % Modulus, (2 * R) % Modulus,
                (4 * rem + (low \div P4[Iter - 1])) % Modulus)
    BY <1>1, <2>1, ShiftKeeps
  <2>5. Doubled(cont - 1, opA', low', R', rem') BY <1>4, <2>4, Outputs
  <2>6. CutAt(cont)' BY <2>2, <2>3 DEF CutAt, Modulus
  <2>7. QED BY <2>2, <2>5, <2>6 DEF Doubled, SplitOf, Modulus
<1>5. ASSUME state' \in {"LOAD_TMP", "CHECK"}
      PROVE  /\ cont' \in 0..(Iter - 1) /\ CutAt(cont)' /\ Doubled(cont, opA, low, R, rem)'
             /\ TMP' = R'
  <2>1. /\ cont \in 0..(Iter - 1) /\ CutAt(cont) /\ Doubled(cont, opA, low, R, rem)
        /\ state = "LOAD_TMP" => TMP = R
    BY <1>5, SuccessorState DEF IInv, Computing
  <2>2. /\ rem' = rem /\ low' = low /\ R' = R /\ cont' = cont /\ opA' = opA
        /\ state' = "LOAD_TMP" => TMP' = R
        /\ state' = "CHECK" => TMP' = TMP /\ state = "LOAD_TMP"
    BY <1>5, Outputs, SuccessorState
  <2>3. QED BY <1>5, <2>1, <2>2 DEF CutAt, Doubled, SplitOf, Modulus
<1>6. ASSUME state' \in {"LOAD_A2", "CHECK_Z", "END1"}
      PROVE  cont' \in 0..(Iter - 1) /\ CutAt(cont)' /\ Rooted(cont, opA, low, R, rem)'
             /\ cont' = cont
  <2>1. cont' = cont /\ low' = low /\ opA' = opA BY <1>6, Outputs
  <2>2. ASSUME state = "CHECK"
        PROVE  cont \in 0..(Iter - 1) /\ CutAt(cont) /\ Rooted(cont, opA, low, R', rem')
    <3>1. cont \in 0..(Iter - 1) /\ CutAt(cont) /\ Doubled(cont, opA, low, R, rem) /\ TMP = R
      BY <2>2 DEF IInv, Computing
    <3> DEFINE d == (rem - ((2 * R + 1) % Modulus)) % Modulus
    <3>2. /\ d >= Half => Rooted(cont, opA, low, R, rem)
          /\ d < Half => Rooted(cont, opA, low, R - (R % 2) + 1, d)
      BY <1>1, <3>1, CheckKeeps
    <3>3. Trial = d BY <3>1 DEF Trial
    <3> HIDE DEF d
    <3>4. CASE state' = "CHECK_Z"
      <4>1. Trial >= Half /\ R' = R /\ rem' = rem
        BY <2>2, <3>4, Outputs, SuccessorState DEF msb
      <4>2. QED BY <3>1, <3>2, <3>3, <4>1
    <3>5. CASE state' = "LOAD_A2"
      <4>1. ~(Trial >= Half) /\ R' = R - (R % 2) + 1 /\ rem' = Trial
        BY <3>5, Outputs, SuccessorState DEF msb
      <4>2. Trial \in Int /\ Half \in Int
        <5>1. rem' \in Word BY DEF TypeOK
        <5>2. rem' \in Int BY <5>1, SMT DEF Word
        <5>3. QED BY <1>1, <4>1, <5>2, Sizes, SMT
      <4>3. Trial < Half BY <4>1, <4>2, SMT
      <4>4. QED BY <3>1, <3>2, <3>3, <4>1, <4>3
    <3>6. QED BY <1>6, <2>2, <3>4, <3>5, SuccessorState
  <2>3. ASSUME state # "CHECK"
        PROVE  cont \in 0..(Iter - 1) /\ CutAt(cont) /\ Rooted(cont, opA, low, R', rem')
    <3>1. state \in {"LOAD_A2", "CHECK_Z", "END1"} /\ state' \in {"CHECK_Z", "END1"}
      BY <1>6, <2>3, SuccessorState
    <3>2. R' = R /\ rem' = rem BY <3>1, Outputs
    <3>3. QED BY <3>1, <3>2 DEF IInv, Computing
  <2>4. QED BY <2>1, <2>2, <2>3 DEF CutAt, Rooted, SplitOf, Modulus
<1>7. state' = "CHECK_Z" => z' = (cont' = 0) BY <1>6, Outputs
<1>8. state' = "END1" => cont' = 0
  <2>1. ASSUME state' = "END1" PROVE cont = 0
    BY <2>1, SuccessorState DEF IInv, Computing
  <2>2. QED BY <1>6, <2>1
<1>9. QED BY <1>3, <1>4, <1>5, <1>6, <1>7, <1>8 DEF Computing

(* The invariant is inductive. *)
LEMMA StepInv == ASSUME ConstantsOK, Iter >= 2, IInv, [Next]_vars PROVE IInv'
<1>1. CASE UNCHANGED vars
  BY <1>1 DEF vars, IInv, TypeOK, Computing, Loaded, Doubled, Rooted, SplitOf, CutAt, Modulus
<1>2. CASE Next
  <2>1. PICK bus \in BusCycles({"A"}, Data), rst \in BOOLEAN : Period(bus, rst, Rising)
    BY <1>2, StepIsPeriod
  <2>2. TypeOK' BY <2>1, PeriodTypes DEF IInv
  <2>3. Computing' BY <2>1, <2>2, StepComputes
  <2>4. QED BY <2>2, <2>3 DEF IInv
<1>3. QED BY <1>1, <1>2

(* The invariant holds at power-up. *)
LEMMA InitInv == ASSUME ConstantsOK, Init PROVE IInv
BY InitTypes DEF Init, IInv, Computing

(* What the last digit of the operand leaves.                               *)
LEMMA LastDigit ==
  ASSUME ConstantsOK, NEW a \in Nat, NEW x \in Nat, NEW r \in Nat, NEW m \in Nat,
         Rooted(0, a, x, r, m)
  PROVE  r * r + m = a /\ m <= 2 * r
<1>1. PICK hi \in Nat, lo \in Nat : SplitOf(0, hi, lo, a, x) /\ hi = r * r + m
  BY DEF Rooted
<1>2. P4[0] = 1 BY DEF ConstantsOK
<1>3. lo < 1 /\ a = hi * 1 + lo BY <1>1, <1>2 DEF SplitOf
<1>4. a = hi BY <1>3, SMT
<1>5. QED BY <1>1, <1>4 DEF Rooted

(* The invariant says what the loop invariant of the runs says. *)
LEMMA InvIsRootSoFar == ASSUME ConstantsOK, IInv PROVE RootSoFar
<1>1. A \in Word /\ opA \in Nat /\ low \in Nat /\ R \in Nat /\ rem \in Nat
  BY DEF IInv, TypeOK, Word
<1>2. ASSUME state = "CHECK_Z"
      PROVE  cont \in 0..(Iter - 1) /\ R * R + rem = Consumed /\ rem <= 2 * R
  <2>1. cont \in 0..(Iter - 1) /\ Rooted(cont, opA, low, R, rem)
    BY <1>2 DEF IInv, Computing
  <2>2. PICK hi \in Nat, lo \in Nat : SplitOf(cont, hi, lo, opA, low) /\ hi = R * R + rem
    BY <2>1 DEF Rooted
  <2>3. cont \in 0..Iter BY <1>1, <2>1, Sizes, SMT
  <2>4. P4[cont] \in Nat BY <1>1, <2>3, Sizes
  <2>5. hi = opA \div P4[cont] BY <1>1, <2>2, <2>4, QuotientIsUnique DEF SplitOf
  <2>6. QED BY <2>1, <2>2, <2>5 DEF Rooted, Consumed
<1>3. ASSUME state = "END1" PROVE cont = 0 /\ R * R + rem = opA /\ rem <= 2 * R
  <2>1. cont = 0 /\ Rooted(cont, opA, low, R, rem) BY <1>3 DEF IInv, Computing
  <2>2. QED BY <1>1, <2>1, LastDigit
<1>4. QED BY <1>2, <1>3 DEF RootSoFar

(* And with it the result. *)
LEMMA InvIsRootWhenDone == ASSUME ConstantsOK, IInv PROVE RootWhenDone
<1>1. R \in Nat /\ rem \in Nat BY DEF IInv, TypeOK, Word
<1>2. ASSUME done PROVE R * R <= opA /\ opA < (R + 1) * (R + 1)
  <2>1. R * R + rem = opA /\ rem <= 2 * R BY <1>2, InvIsRootSoFar DEF RootSoFar, done
  <2>2. R * R \in Nat /\ (R + 1) * (R + 1) = R * R + 2 * R + 1 BY <1>1, SMT
  <2>3. QED BY <1>1, <2>1, <2>2, SMT
<1>3. QED BY <1>2 DEF RootWhenDone

(* For every width of four bits or more: at the end of each iteration the   *)
(* root found so far, squared, and the remainder are what has been shifted  *)
(* out of the operand, and the remainder leaves no room for a larger root.  *)
THEOREM RootInvariant == ASSUME ConstantsOK, Iter >= 2 PROVE Spec => []RootSoFar
<1>1. Init => IInv BY InitInv
<1>2. IInv /\ [Next]_vars => IInv' BY StepInv
<1>3. IInv => RootSoFar BY InvIsRootSoFar
<1>4. QED BY <1>1, <1>2, <1>3, PTL DEF Spec

(* For every width of four bits or more: whenever control.v shows done, the *)
(* result register holds the integer square root of the operand loaded.     *)
THEOREM RootCorrect == ASSUME ConstantsOK, Iter >= 2 PROVE Spec => []RootWhenDone
<1>1. Init => IInv BY InitInv
<1>2. IInv /\ [Next]_vars => IInv' BY StepInv
<1>3. IInv => RootWhenDone BY InvIsRootWhenDone
<1>4. QED BY <1>1, <1>2, <1>3, PTL DEF Spec
=============================================================================
