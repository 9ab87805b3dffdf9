------------------------ MODULE FirmwareWordsProofs ------------------------
(***************************************************************************)
(* Proofs about the firmware image tool, for every command line, size of   *)
(* the RAM, hex file and ELF file: what is written is what was read, and   *)
(* nothing fails without a reason.                                         *)
(***************************************************************************)
EXTENDS FirmwareWords, FiniteSetTheorems, NaturalsInduction, WellFoundedInduction, TLAPS

(* A set of natural numbers with a bound has a greatest element. *)
LEMMA Greatest ==
  ASSUME NEW n \in Nat, NEW S \in SUBSET (0 .. n), S # {}
  PROVE  Max(S) \in S /\ \A x \in S : x <= Max(S)
<1> DEFINE T == {b \in Nat : \A x \in S : x <= b}
<1>1. n \in T OBVIOUS
<1>2. \E b \in T : \A c \in T : ~(<<c, b>> \in OpToRel(<, Nat))
  <2>1. IsWellFoundedOn(OpToRel(<, Nat), Nat) BY NatLessThanWellFounded
  <2>2. T \subseteq Nat /\ T # {} BY <1>1
  <2> HIDE DEF T
  <2>3. QED BY <2>1, <2>2, WFMin
<1>3. PICK b \in T : \A c \in T : ~(<<c, b>> \in OpToRel(<, Nat)) BY <1>2
<1>4. \A c \in T : ~(c < b)
  <2>1. ASSUME NEW c \in T, c < b PROVE FALSE
    <3>1. c \in Nat /\ b \in Nat OBVIOUS
    <3>2. <<c, b>> \in OpToRel(<, Nat) BY <3>1, <2>1 DEF OpToRel
    <3>3. QED BY <3>2, <1>3
  <2>2. QED BY <2>1
<1>5. b \in S
  <2>1. SUFFICES ASSUME b \notin S PROVE FALSE OBVIOUS
  <2>2. \A x \in S : x \in Nat /\ x < b BY <2>1
  <2>3. b - 1 \in T
    <3>1. PICK x \in S : TRUE OBVIOUS
    <3>2. b - 1 \in Nat BY <2>2, <3>1
    <3>3. b \in Nat OBVIOUS
    <3>4. \A y \in S : y <= b - 1 BY <2>2, <3>3
    <3>5. QED BY <3>2, <3>4
  <2>4. QED BY <1>4, <2>3
<1>6. b \in S /\ \A x \in S : b >= x BY <1>5
<1>7. Max(S) \in S /\ \A x \in S : Max(S) >= x BY <1>6 DEF Max
<1>8. QED BY <1>7

-----------------------------------------------------------------------------
(* What the command line says. *)
LEMMA OptionIs ==
  ASSUME NEW args \in CommandLines, NEW name, NEW default
  PROVE  \/ Option(args, name, default) = default
         \/ \E k \in Pairs(args) : args[2 * k] = name /\ Option(args, name, default) = args[2 * k + 1]
<1> DEFINE named == {k \in Pairs(args) : args[2 * k] = name}
<1>1. CASE named = {} BY <1>1 DEF Option
<1>2. CASE named # {}
  <2>1. Len(args) \in Nat BY InputsAssumption DEF IsSequence
  <2>2. named \subseteq 0 .. Len(args) BY <2>1 DEF Pairs
  <2> HIDE DEF named
  <2>3. Max(named) \in named BY <1>2, <2>1, <2>2, Greatest
  <2> USE DEF named
  <2>4. QED BY <1>2, <2>3 DEF Option
<1>3. QED BY <1>1, <1>2

LEMMA OptionTypes ==
  ASSUME NEW args \in CommandLines
  PROVE  LET o == Options(args) IN
         /\ o.RAM_SIZE \in Nat /\ o.from_addr \in Int /\ o.to_addr \in Int /\ o.MAX_ADDR \in Int
         /\ o.verilog # NoName =>
              IsSequence(o.verilog.defines)
              /\ \A d \in DOMAIN o.verilog.defines : o.verilog.defines[d].value \in Nat \cup {NoName}
<1>1. OptionsAssumption(args) BY InputsAssumption
<1>2. Option(args, "-ram", 0) \in Nat BY <1>1, OptionIs DEF OptionsAssumption
<1>3. Option(args, "-from_addr", 0) \in Int BY <1>1, OptionIs DEF OptionsAssumption
<1>4. Option(args, "-to_addr", -1) \in Int BY <1>1, OptionIs DEF OptionsAssumption
<1>5. Option(args, "-max_addr", 0) \in Int BY <1>1, OptionIs DEF OptionsAssumption
<1>6. LET v == Option(args, "-verilog", NoName) IN
      v # NoName => IsSequence(v.defines) /\ \A d \in DOMAIN v.defines : v.defines[d].value \in Nat \cup {NoName}
  BY <1>1, OptionIs DEF OptionsAssumption
<1>7. QED BY <1>2, <1>3, <1>4, <1>5, <1>6 DEF Options

(* The size found in the Verilog source is that of its last definition. *)
LEMMA VerilogSize ==
  ASSUME NEW args \in CommandLines, Options(args).verilog # NoName
  PROVE  /\ get_RAM_size_from_verilog(Options(args).verilog) \in Nat
         /\ get_RAM_size_from_verilog(Options(args).verilog) = 0 => NoSize(Options(args))
<1> DEFINE defines == Options(args).verilog.defines
           numbered == Numbered(defines)
<1>1. /\ Len(defines) \in Nat /\ DOMAIN defines = 1 .. Len(defines)
      /\ \A d \in DOMAIN defines : defines[d].value \in Nat \cup {NoName}
  BY OptionTypes DEF IsSequence
<1>2. CASE numbered = {} BY <1>2 DEF get_RAM_size_from_verilog, NoSize
<1>3. CASE numbered # {}
  <2>1. numbered \subseteq 0 .. Len(defines) /\ numbered \subseteq DOMAIN defines
    <3> HIDE DEF defines
    <3>1. QED BY <1>1 DEF Numbered
  <2>2. Max(numbered) \in numbered /\ \A x \in numbered : x <= Max(numbered)
    <3> HIDE DEF numbered, defines
    <3>1. QED BY <1>1, <1>3, <2>1, Greatest
  <2>3. defines[Max(numbered)].value \in Nat BY <1>1, <2>1, <2>2 DEF Numbered
  <2>4. get_RAM_size_from_verilog(Options(args).verilog) = defines[Max(numbered)].value
    BY <1>3 DEF get_RAM_size_from_verilog
  <2>5. \A k \in numbered : (\A j \in numbered : j <= k) => k = Max(numbered)
    <3>1. numbered \subseteq Int BY <2>1
    <3> HIDE DEF numbered
    <3>2. SUFFICES ASSUME NEW k \in numbered, \A j \in numbered : j <= k PROVE k = Max(numbered) OBVIOUS
    <3>3. k <= Max(numbered) /\ Max(numbered) <= k BY <2>2, <3>2
    <3>4. k \in Int /\ Max(numbered) \in Int BY <2>2, <3>1
    <3>5. QED BY <3>3, <3>4
  <2>6. defines[Max(numbered)].value = 0 => NoSize(Options(args))
    <3>1. SUFFICES ASSUME defines[Max(numbered)].value = 0
                   PROVE  \A k \in numbered : (\A j \in numbered : j <= k) => defines[k].value = 0
      BY DEF NoSize
    <3>2. QED BY <2>5, <3>1
  <2>7. QED BY <2>3, <2>4, <2>6
<1>4. QED BY <1>2, <1>3

-----------------------------------------------------------------------------
(* The bytes of a hex file, counted by their line and their place in it. *)
Before(l, k) == {q \in HexBytes : q[1] < l \/ (q[1] = l /\ q[2] < k)}
HexInput == argv \in CommandLines /\ Len(argv) > 0 /\ Input.ext = "hex"
Lines == Input.lines

LEMMA LineFacts ==
  ASSUME HexInput
  PROVE  /\ Len(Lines) \in Nat /\ DOMAIN Lines = 1 .. Len(Lines)
         /\ \A l \in DOMAIN Lines :
              \/ Lines[l].kind = "origin" /\ Lines[l].address \in Int
              \/ /\ Lines[l].kind = "bytes" /\ Len(Lines[l].bytes) \in Nat
                 /\ DOMAIN Lines[l].bytes = 1 .. Len(Lines[l].bytes)
<1>1. InputAssumption(Input) BY InputsAssumption DEF HexInput, Input
<1>2. QED BY <1>1 DEF HexInput, InputAssumption, IsSequence, Lines

LEMMA BytePlaces ==
  ASSUME HexInput
  PROVE  /\ \A l, k : <<l, k>> \in HexBytes <=>
              l \in 1 .. Len(Lines) /\ Lines[l].kind = "bytes" /\ k \in 1 .. Len(Lines[l].bytes)
         /\ \A q \in HexBytes : /\ q = <<q[1], q[2]>> /\ q[1] \in 1 .. Len(Lines)
                                /\ Lines[q[1]].kind = "bytes" /\ q[2] \in 1 .. Len(Lines[q[1]].bytes)
         /\ IsFiniteSet(HexBytes)
<1> DEFINE S == {m \in DOMAIN Lines : Lines[m].kind = "bytes"}
           f == [l \in S |-> {l} \X DOMAIN Lines[l].bytes]
           T == {f[l] : l \in S}
<1>1. HexBytes = UNION {{l} \X DOMAIN Lines[l].bytes : l \in S} BY DEF HexBytes, Lines
<1>2. HexBytes = UNION T BY <1>1
<1>3. IsFiniteSet(HexBytes)
  <2>1. IsFiniteSet(1 .. Len(Lines)) BY LineFacts, FS_Interval
  <2>2. S \in SUBSET (1 .. Len(Lines)) BY LineFacts
  <2>3. IsFiniteSet(S)
    <3> HIDE DEF S
    <3>1. QED BY <2>1, <2>2, FS_Subset
  <2>4. f \in Surjection(S, T) BY DEF Surjection
  <2>5. IsFiniteSet(T)
    <3> HIDE DEF S, T, f
    <3>1. QED BY <2>3, <2>4, FS_Surjection
  <2>6. \A U \in T : IsFiniteSet(U)
    <3>1. SUFFICES ASSUME NEW l \in S PROVE IsFiniteSet({l} \X DOMAIN Lines[l].bytes) OBVIOUS
    <3>2. IsFiniteSet({l}) BY FS_Singleton
    <3>3. DOMAIN Lines[l].bytes = 1 .. Len(Lines[l].bytes) /\ Len(Lines[l].bytes) \in Nat BY LineFacts
    <3>4. IsFiniteSet(1 .. Len(Lines[l].bytes)) BY <3>3, FS_Interval
    <3>5. QED BY <3>2, <3>3, <3>4, FS_Product
  <2>7. QED
    <3> HIDE DEF T
    <3>1. QED BY <1>2, <2>5, <2>6, FS_UNION
<1>4. ASSUME NEW q \in HexBytes
      PROVE  /\ q = <<q[1], q[2]>> /\ q[1] \in 1 .. Len(Lines)
             /\ Lines[q[1]].kind = "bytes" /\ q[2] \in 1 .. Len(Lines[q[1]].bytes)
  <2>1. PICK l \in S : q \in {l} \X DOMAIN Lines[l].bytes BY <1>1
  <2>2. q = <<q[1], q[2]>> /\ q[1] = l /\ q[2] \in DOMAIN Lines[l].bytes BY <2>1
  <2>3. DOMAIN Lines[l].bytes = 1 .. Len(Lines[l].bytes) BY LineFacts
  <2>4. l \in 1 .. Len(Lines) /\ Lines[l].kind = "bytes" BY LineFacts
  <2>5. QED BY <2>2, <2>3, <2>4
<1>5. ASSUME NEW l \in 1 .. Len(Lines), Lines[l].kind = "bytes", NEW k \in 1 .. Len(Lines[l].bytes)
      PROVE  <<l, k>> \in HexBytes
  <2>1. l \in S /\ DOMAIN Lines[l].bytes = 1 .. Len(Lines[l].bytes) BY <1>5, LineFacts
  <2>2. <<l, k>> \in {l} \X DOMAIN Lines[l].bytes BY <2>1
  <2>3. QED BY <1>1, <2>1, <2>2
<1>6. ASSUME NEW l, NEW k, <<l, k>> \in HexBytes
      PROVE  l \in 1 .. Len(Lines) /\ Lines[l].kind = "bytes" /\ k \in 1 .. Len(Lines[l].bytes)
  <2>1. <<l, k>>[1] = l /\ <<l, k>>[2] = k OBVIOUS
  <2>2. QED BY <1>4, <1>6, <2>1
<1>7. \A l, k : <<l, k>> \in HexBytes <=>
              l \in 1 .. Len(Lines) /\ Lines[l].kind = "bytes" /\ k \in 1 .. Len(Lines[l].bytes)
  BY <1>5, <1>6
<1>8. QED BY <1>3, <1>4, <1>7

(* The bytes after an origin, and the place they are counted from. *)
Origins(l) == OriginsBefore(l) \cup {0}
After(o, l, k) == {q \in HexBytes : q[1] > o /\ (q[1] < l \/ (q[1] = l /\ q[2] < k))}
Base(o) == IF o = 0 THEN 0 ELSE Lines[o].address

LEMMA AddressIs ==
  ASSUME HexInput, NEW l \in 1 .. (Len(Lines) + 1), NEW k \in Nat
  PROVE  LET o == Max(Origins(l)) IN
         /\ o \in 0 .. (l - 1) /\ o \in Origins(l) /\ \A m \in Origins(l) : m <= o
         /\ Base(o) \in Int /\ IsFiniteSet(After(o, l, k)) /\ Cardinality(After(o, l, k)) \in Nat
         /\ Address(<<l, k>>) = Base(o) + Cardinality(After(o, l, k))
         /\ Address(<<l, k>>) \in Int
<1> DEFINE o == Max(Origins(l))
<1>1. l \in Nat /\ l - 1 \in Nat /\ Len(Lines) \in Nat BY LineFacts
<1>2. Origins(l) \in SUBSET (0 .. (l - 1)) /\ Origins(l) # {} BY <1>1 DEF Origins, OriginsBefore
<1>3. o \in Origins(l) /\ \A m \in Origins(l) : m <= o BY <1>1, <1>2, Greatest
<1>4. o \in 0 .. (l - 1) BY <1>2, <1>3
<1>5. Base(o) \in Int
  <2>1. CASE o = 0 BY <2>1 DEF Base
  <2>2. CASE o # 0
    <3>1. o \in 1 .. (l - 1) /\ Lines[o].kind = "origin" BY <1>1, <1>3, <2>2 DEF Origins, OriginsBefore, Lines
    <3>2. o \in DOMAIN Lines BY <1>1, <3>1, LineFacts
    <3>3. QED BY <2>2, <3>1, <3>2, LineFacts DEF Base
  <2>3. QED BY <2>1, <2>2
<1>6. IsFiniteSet(After(o, l, k)) /\ Cardinality(After(o, l, k)) \in Nat
  <2>1. After(o, l, k) \in SUBSET HexBytes BY DEF After
  <2>2. IsFiniteSet(After(o, l, k)) BY <2>1, BytePlaces, FS_Subset
  <2>3. QED BY <2>2, FS_CardinalityType
<1>7. Address(<<l, k>>) = Base(o) + Cardinality(After(o, l, k))
  BY DEF Address, Base, After, Origins, Lines
<1>8. QED BY <1>3, <1>4, <1>5, <1>6, <1>7

(* The next byte of a line lies at the next address. *)
LEMMA NextByte ==
  ASSUME HexInput, NEW l, NEW k, <<l, k>> \in HexBytes
  PROVE  Address(<<l, k + 1>>) = Address(<<l, k>>) + 1
<1> DEFINE o == Max(Origins(l))
<1>1. l \in 1 .. Len(Lines) /\ k \in Nat /\ k + 1 \in Nat /\ l \in 1 .. (Len(Lines) + 1)
  BY BytePlaces, LineFacts
<1>2. <<l, k>> \notin After(o, l, k)
  <2>1. <<l, k>>[1] = l /\ <<l, k>>[2] = k OBVIOUS
  <2>2. QED BY <1>1, <2>1 DEF After
<1>3. After(o, l, k + 1) = After(o, l, k) \cup {<<l, k>>}
  <2>1. \A q \in HexBytes : q[2] \in Int /\ q[1] \in Int BY BytePlaces
  <2>2. \A q \in HexBytes : q[1] = l /\ q[2] = k => q = <<l, k>> BY BytePlaces
  <2>3. l > o BY <1>1, AddressIs
  <2>4. <<l, k>>[1] = l /\ <<l, k>>[2] = k OBVIOUS
  <2> HIDE DEF o
  <2>5. \A q \in HexBytes : q \in After(o, l, k + 1) <=> q \in After(o, l, k) \/ q = <<l, k>>
    BY <1>1, <2>1, <2>2, <2>3, <2>4 DEF After
  <2>6. After(o, l, k + 1) \subseteq HexBytes /\ After(o, l, k) \subseteq HexBytes BY DEF After
  <2>7. QED BY <2>5, <2>6
<1>4. Cardinality(After(o, l, k + 1)) = Cardinality(After(o, l, k)) + 1
  BY <1>1, <1>2, <1>3, AddressIs, FS_AddElement
<1>5. QED BY <1>1, <1>4, AddressIs

(* A line of bytes is followed by the address behind its last byte. *)
LEMMA NextAddress ==
  ASSUME HexInput, NEW l \in 1 .. Len(Lines), Lines[l].kind = "bytes"
  PROVE  Address(<<l + 1, 1>>) = Address(<<l, Len(Lines[l].bytes) + 1>>)
<1> DEFINE o == Max(Origins(l))
           n == Len(Lines[l].bytes)
<1>1. n \in Nat /\ n + 1 \in Nat /\ l \in Nat /\ Len(Lines) \in Nat BY LineFacts
<1>2. l \in 1 .. (Len(Lines) + 1) /\ l + 1 \in 1 .. (Len(Lines) + 1) BY <1>1
<1>3. Origins(l + 1) = Origins(l)
  <2>1. 1 .. (l + 1 - 1) = (1 .. (l - 1)) \cup {l} BY <1>1
  <2>2. Lines[l].kind # "origin" OBVIOUS
  <2>3. QED BY <2>1, <2>2 DEF Origins, OriginsBefore, Lines
<1>4. After(o, l + 1, 1) = After(o, l, n + 1)
  <2>1. \A q \in HexBytes : /\ q[1] \in Int /\ q[2] \in Int /\ q[2] >= 1
                            /\ q[1] = l => q[2] <= n
    BY BytePlaces
  <2> HIDE DEF o, n
  <2>2. QED BY <1>1, <2>1 DEF After
<1>5. QED BY <1>1, <1>2, <1>3, <1>4, AddressIs, SMTT(30)

(* An origin is the address of what follows it, and the first address is 0. *)
LEMMA OriginAddress ==
  ASSUME HexInput, NEW l \in 1 .. Len(Lines), Lines[l].kind = "origin"
  PROVE  Address(<<l + 1, 1>>) = Lines[l].address
<1>1. l \in Nat /\ Len(Lines) \in Nat /\ l # 0 /\ l + 1 \in 1 .. (Len(Lines) + 1) BY LineFacts
<1>2. l \in Origins(l + 1) BY <1>1 DEF Origins, OriginsBefore, Lines
<1>3. Max(Origins(l + 1)) = l
  <2>1. PICK n \in 1 .. (Len(Lines) + 1) : n = l + 1 BY <1>1
  <2>2. Max(Origins(n)) \in 0 .. (n - 1) /\ \A m \in Origins(n) : m <= Max(Origins(n)) BY AddressIs, 1 \in Nat
  <2>3. Max(Origins(l + 1)) \in 0 .. l /\ l <= Max(Origins(l + 1)) BY <1>1, <1>2, <2>1, <2>2
  <2>4. QED BY <1>1, <2>3
<1>4. After(l, l + 1, 1) = {}
  <2>1. \A q \in HexBytes : q[1] \in Int /\ q[2] \in Int /\ q[2] >= 1 BY BytePlaces
  <2>2. QED BY <1>1, <2>1 DEF After
<1>5. Base(l) = Lines[l].address /\ Lines[l].address \in Int BY <1>1, LineFacts DEF Base
<1>6. QED BY <1>1, <1>3, <1>4, <1>5, AddressIs, FS_EmptySet

LEMMA FirstAddress ==
  ASSUME HexInput
  PROVE  Address(<<1, 1>>) = 0 /\ Before(1, 1) = {}
<1>1. 1 \in 1 .. (Len(Lines) + 1) BY LineFacts
<1>2. Max(Origins(1)) = 0
  <2>1. Max(Origins(1)) \in 0 .. (1 - 1) BY <1>1, AddressIs, 1 \in Nat
  <2>2. QED BY <2>1
<1>3. \A q \in HexBytes : q[1] \in Int /\ q[2] \in Int /\ q[1] >= 1 /\ q[2] >= 1 BY BytePlaces
<1>4. After(0, 1, 1) = {} BY <1>3 DEF After
<1>5. Base(0) = 0 BY DEF Base
<1>6. Address(<<1, 1>>) = 0 BY <1>1, <1>2, <1>4, <1>5, AddressIs, FS_EmptySet
<1>7. QED BY <1>3, <1>6 DEF Before

(* The bytes before a place, from one place to the next. *)
LEMMA BeforeNext ==
  ASSUME HexInput, NEW l, NEW k, <<l, k>> \in HexBytes
  PROVE  Before(l, k + 1) = Before(l, k) \cup {<<l, k>>} /\ <<l, k>> \notin Before(l, k)
<1>1. l \in Nat /\ k \in Nat BY BytePlaces, LineFacts
<1>2. \A q \in HexBytes : q[1] \in Int /\ q[2] \in Int /\ (q[1] = l /\ q[2] = k => q = <<l, k>>) BY BytePlaces
<1>3. <<l, k>>[1] = l /\ <<l, k>>[2] = k OBVIOUS
<1>4. \A q \in HexBytes : q \in Before(l, k + 1) <=> q \in Before(l, k) \/ q = <<l, k>>
  BY <1>1, <1>2, <1>3 DEF Before
<1>5. Before(l, k + 1) \subseteq HexBytes /\ Before(l, k) \subseteq HexBytes BY DEF Before
<1>6. <<l, k>> \notin Before(l, k) BY <1>1, <1>3 DEF Before
<1>7. QED BY <1>4, <1>5, <1>6

LEMMA BeforeLine ==
  ASSUME HexInput, NEW l \in 1 .. Len(Lines)
  PROVE  /\ Lines[l].kind = "bytes" => Before(l + 1, 1) = Before(l, Len(Lines[l].bytes) + 1)
         /\ Lines[l].kind = "origin" => Before(l + 1, 1) = Before(l, 1)
<1>1. l \in Nat /\ Len(Lines) \in Nat BY LineFacts
<1>2. \A q \in HexBytes : /\ q[1] \in Int /\ q[2] \in Int /\ q[2] >= 1 /\ Lines[q[1]].kind = "bytes"
                          /\ q[1] = l => q[2] <= Len(Lines[l].bytes)
  BY BytePlaces
<1>3. CASE Lines[l].kind = "bytes"
  <2>1. Len(Lines[l].bytes) \in Nat BY <1>3, LineFacts
  <2>2. QED BY <1>1, <1>2, <1>3, <2>1 DEF Before
<1>4. CASE Lines[l].kind = "origin"
  <2>1. \A q \in HexBytes : q[1] # l BY <1>2, <1>4
  <2>2. QED BY <1>1, <1>2, <1>4, <2>1 DEF Before
<1>5. QED BY <1>3, <1>4

LEMMA BeforeAll ==
  ASSUME HexInput
  PROVE  Before(Len(Lines) + 1, 1) = HexBytes
<1>1. Len(Lines) \in Nat /\ \A q \in HexBytes : q[1] \in Int /\ q[1] <= Len(Lines) BY LineFacts, BytePlaces
<1>2. QED BY <1>1 DEF Before

(* The command line stays, and with it all that is said of the input. *)
LEMMA SameInput ==
  ASSUME argv' = argv
  PROVE  /\ Input' = Input /\ Lines' = Lines /\ HexBytes' = HexBytes /\ Given' = Given
         /\ \A p : Address(p)' = Address(p) /\ Value(p)' = Value(p) /\ Said(p)' = Said(p)
         /\ \A l, k : Before(l, k)' = Before(l, k)
         /\ HexInput <=> HexInput'
<1>1. Input' = Input BY DEF Input
<1>2. Lines' = Lines /\ HexBytes' = HexBytes BY <1>1 DEF Lines, HexBytes
<1>3. \A l : OriginsBefore(l)' = OriginsBefore(l) BY <1>1 DEF OriginsBefore
<1>4. \A p : Address(p)' = Address(p) /\ Value(p)' = Value(p) BY <1>1, <1>2, <1>3 DEF Address, Value
<1>5. Given' = Given BY <1>1, <1>2, <1>4 DEF Given
<1>6. \A p : Said(p)' = Said(p)
  <2>1. SUFFICES ASSUME NEW a PROVE Said(a)' = Said(a) OBVIOUS
  <2>2. (CHOOSE p \in HexBytes : Address(p) = a)' = CHOOSE p \in HexBytes : Address(p) = a BY <1>2, <1>4
  <2>3. Value(CHOOSE p \in HexBytes : Address(p) = a)' = Value(CHOOSE p \in HexBytes : Address(p) = a)
    BY <1>1, <2>2 DEF Value
  <2>4. QED BY <1>1, <1>5, <2>3 DEF Said
<1>7. \A l, k : Before(l, k)' = Before(l, k) BY <1>2 DEF Before
<1>8. HexInput <=> HexInput' BY <1>1 DEF HexInput
<1>9. QED BY <1>1, <1>2, <1>4, <1>5, <1>6, <1>7, <1>8

-----------------------------------------------------------------------------
(* The image, and the part of the input that is in it.  The place (l, k) is *)
(* a byte of line l or its end.                                             *)
Sized ==
  /\ opts.RAM_SIZE \in Nat \ {0} /\ opts.from_addr \in Int /\ opts.to_addr \in Int /\ opts.MAX_ADDR \in Int
  /\ DOMAIN RAM = 0 .. (opts.RAM_SIZE - 1) /\ Len(argv) > 0
Occupied ==
  /\ OCC \subseteq 0 .. (opts.RAM_SIZE - 1)
  /\ \A a \in DOMAIN RAM : a \notin OCC => RAM[a] = 0
  /\ \A a \in OCC \cup {0} : a <= max_address
  /\ max_address \in OCC \cup {0}
IsPlace(l, k) ==
  /\ l \in 1 .. (Len(Lines) + 1) /\ k \in Nat \ {0}
  /\ k = 1 \/ (/\ l <= Len(Lines) /\ Lines[l].kind = "bytes" /\ ~Lines[l].odd
               /\ k <= Len(Lines[l].bytes) + 1)
InImage(l, k) ==
  /\ OCC = {Address(q) : q \in Before(l, k)}
  /\ \A q \in Before(l, k) : Value(q) # Bad /\ RAM[Address(q)] = Value(q)
  /\ \A q, r \in Before(l, k) : Address(q) = Address(r) => q = r
  /\ \A m \in 1 .. (l - 1) : Lines[m].kind = "bytes" => ~Lines[m].odd
Reading ==
  /\ HexInput /\ Occupied /\ IsPlace(line, i) /\ InImage(line, i) /\ address = Address(<<line, i>>)
Loaded ==
  /\ Input.ext = "hex" => HexIsGood
  /\ \A a \in DOMAIN RAM : RAM[a] = Said(a)
  /\ max_address \in Given \cup {0} /\ \A a \in Given \cup {0} : a <= max_address
  /\ Given \subseteq Int

ToolInv ==
  /\ argv \in CommandLines
  /\ step = "start" => /\ RAM = <<>> /\ OCC = {} /\ address = 0 /\ max_address = 0
                       /\ line = 1 /\ i = 1
  /\ step \in {"hex", "elf", "loaded"} => Sized
  /\ step = "hex" => Reading
  /\ step = "elf" => Input.ext = "elf" /\ \A a \in DOMAIN RAM : RAM[a] = 0
  /\ step = "loaded" => Loaded
  /\ out.kind # "none" => step = "done"
  /\ WritesWhatWasRead /\ FailsForAReason

LEMMA InitTool ==
  ASSUME Init
  PROVE  ToolInv
<1>1. out.kind = "none" BY DEF Init, NoOutput
<1>2. step = "start" BY DEF Init
<1>3. QED BY <1>1, <1>2 DEF Init, ToolInv, WritesWhatWasRead, FailsForAReason

(* A step that fails needs its reason only. *)
LEMMA Failing ==
  ASSUME ToolInv, Fail, FailsForAReason', step # "done"
  PROVE  ToolInv'
<1>1. out' = out /\ step' = "failed" /\ argv' = argv BY DEF Fail
<1>2. out'.kind = "none" BY <1>1 DEF ToolInv
<1>3. WritesWhatWasRead' BY <1>2 DEF WritesWhatWasRead
<1>4. QED BY <1>1, <1>2, <1>3 DEF ToolInv

(* Until the output is written and while nothing fails, neither property    *)
(* has anything to say.                                                     *)
LEMMA Quiet ==
  ASSUME out'.kind = "none", step' # "failed"
  PROVE  WritesWhatWasRead' /\ FailsForAReason'
  BY DEF WritesWhatWasRead, FailsForAReason

-----------------------------------------------------------------------------
LEMMA BeginKeeps ==
  ASSUME ToolInv, Begin
  PROVE  ToolInv'
<1> DEFINE o == Options(argv)
           size == IF ~o.error /\ o.verilog # NoName THEN get_RAM_size_from_verilog(o.verilog)
                                                     ELSE o.RAM_SIZE
<1>1. step = "start" /\ argv \in CommandLines BY DEF Begin, ToolInv
<1>2. size \in Nat /\ (size = 0 /\ ~o.error => NoSize(o))
  <2>1. CASE o.verilog # NoName
    <3>1. o.RAM_SIZE \in Nat BY <1>1, OptionTypes
    <3>2. /\ get_RAM_size_from_verilog(o.verilog) \in Nat
          /\ get_RAM_size_from_verilog(o.verilog) = 0 => NoSize(o)
      BY <1>1, <2>1, VerilogSize
    <3> HIDE DEF o
    <3>3. QED BY <2>1, <3>1, <3>2
  <2>2. CASE o.verilog = NoName
    <3>1. o.RAM_SIZE \in Nat BY <1>1, OptionTypes
    <3> HIDE DEF o
    <3>2. QED BY <2>2, <3>1 DEF NoSize
  <2>3. QED BY <2>1, <2>2
<1>3. CASE o.error \/ size = 0
  <2>1. Fail BY <1>3 DEF Begin
  <2>2. argv' = argv BY <2>1 DEF Fail
  <2>3. Options(argv)' = Options(argv) BY <2>2
  <2>4. FailsForAReason'
    <3>1. Options(argv').error \/ NoSize(Options(argv')) BY <1>2, <1>3, <2>2
    <3>2. QED BY <3>1 DEF FailsForAReason
  <2>5. QED BY <1>1, <2>1, <2>4, Failing
<1>4. CASE ~(o.error \/ size = 0)
  <2>1. /\ step' = IF Loadable THEN Input.ext ELSE "failed"
        /\ opts' = [o EXCEPT !.RAM_SIZE = size]
        /\ RAM' = [a \in 0 .. (size - 1) |-> 0]
        /\ UNCHANGED <<argv, OCC, address, max_address, line, i, out>>
    BY <1>4 DEF Begin
  <2>2. /\ opts'.RAM_SIZE = size /\ opts'.from_addr = o.from_addr /\ opts'.to_addr = o.to_addr
        /\ opts'.MAX_ADDR = o.MAX_ADDR
    <3>1. DOMAIN o = {"error", "verilog", "out", "from_addr", "to_addr", "RAM_SIZE", "MAX_ADDR"} BY DEF Options
    <3> HIDE DEF o, size
    <3>2. QED BY <2>1, <3>1
  <2>3. Len(argv) > 0
    <3>1. Len(argv) \in Nat BY <1>1, InputsAssumption DEF IsSequence
    <3>2. Len(argv) # 0 BY <1>4 DEF Options
    <3>3. QED BY <3>1, <3>2
  <2>4. o.from_addr \in Int /\ o.to_addr \in Int /\ o.MAX_ADDR \in Int BY <1>1, OptionTypes
  <2>5. Sized'
    <3> HIDE DEF o, size
    <3>1. QED BY <1>2, <1>4, <2>1, <2>2, <2>3, <2>4 DEF Sized
  <2>6. out.kind = "none" /\ out'.kind = "none" BY <1>1, <2>1 DEF ToolInv
  <2>7. CASE ~Loadable
    <3>1. step' = "failed" /\ argv' = argv BY <2>1, <2>7
    <3>2. FailsForAReason' BY <2>7, <3>1 DEF FailsForAReason, Loadable, Input
    <3>3. WritesWhatWasRead' BY <2>6 DEF WritesWhatWasRead
    <3>4. QED BY <1>1, <2>1, <2>6, <3>1, <3>2, <3>3 DEF ToolInv
  <2>8. CASE Loadable
    <3>1. step' = Input.ext /\ argv' = argv /\ step' \in {"hex", "elf"} BY <2>1, <2>8 DEF Loadable
    <3>2. WritesWhatWasRead' /\ FailsForAReason' BY <2>6, <3>1, Quiet
    <3>3. \A a \in DOMAIN RAM' : RAM'[a] = 0
      <4> HIDE DEF size
      <4>1. QED BY <2>1
    <3>4. CASE Input.ext = "elf" BY <1>1, <2>5, <2>6, <3>1, <3>2, <3>3, <3>4, SameInput DEF ToolInv
    <3>5. CASE Input.ext = "hex"
      <4>1. HexInput BY <1>1, <2>3, <3>5 DEF HexInput
      <4>2. OCC' = {} /\ address' = 0 /\ max_address' = 0 /\ line' = 1 /\ i' = 1 BY <1>1, <2>1 DEF ToolInv
      <4>3. Occupied' BY <3>3, <4>2 DEF Occupied
      <4>4. IsPlace(1, 1) BY <4>1, LineFacts DEF IsPlace
      <4>5. IsPlace(line, i)' BY <3>1, <4>2, <4>4, SameInput DEF IsPlace
      <4>6. Before(1, 1)' = {} /\ Address(<<1, 1>>)' = 0 BY <3>1, <4>1, FirstAddress, SameInput
      <4>7. InImage(line, i)' BY <4>2, <4>6 DEF InImage
      <4>8. Reading' BY <3>1, <4>1, <4>2, <4>3, <4>5, <4>6, <4>7, SameInput DEF Reading
      <4>9. QED BY <1>1, <2>5, <2>6, <3>1, <3>2, <3>5, <4>8 DEF ToolInv
    <3>6. QED BY <3>1, <3>4, <3>5
  <2>9. QED BY <2>7, <2>8
<1>5. QED BY <1>3, <1>4

-----------------------------------------------------------------------------
(* A step that goes on reading, or ends the file, has neither failed nor    *)
(* written anything.                                                        *)
LEMMA GoingOn ==
  ASSUME ToolInv, step = "hex", argv' = argv, opts' = opts, out' = out, DOMAIN RAM' = DOMAIN RAM,
         step' \in {"hex", "loaded", "undefined"}, step' = "hex" => Reading', step' = "loaded" => Loaded'
  PROVE  ToolInv'
<1>1. out.kind = "none" /\ out'.kind = "none" BY DEF ToolInv
<1>2. WritesWhatWasRead' /\ FailsForAReason' BY <1>1, Quiet
<1>3. Sized' BY DEF Sized, ToolInv
<1>4. QED BY <1>1, <1>2, <1>3 DEF ToolInv

LEMMA OriginKeeps ==
  ASSUME ToolInv, Origin
  PROVE  ToolInv'
<1>1. /\ step = "hex" /\ Reading /\ HexInput /\ line <= Len(Lines) /\ Lines[line].kind = "origin"
      /\ address' = Lines[line].address /\ line' = line + 1 /\ i' = 1
      /\ UNCHANGED <<argv, step, opts, RAM, OCC, max_address, out>>
  BY DEF Origin, InHex, Line, NextLine, Lines, ToolInv, Reading
<1>2. line \in 1 .. Len(Lines) /\ Len(Lines) \in Nat /\ i = 1
  <2>1. IsPlace(line, i) BY <1>1 DEF Reading
  <2>2. QED BY <1>1, <2>1, LineFacts DEF IsPlace
<1>3. Before(line + 1, 1) = Before(line, i) BY <1>1, <1>2, BeforeLine
<1>4. Address(<<line + 1, 1>>) = address' BY <1>1, <1>2, OriginAddress
<1>5. InImage(line + 1, 1)
  <2>1. InImage(line, i) BY <1>1 DEF Reading
  <2>2. \A m \in 1 .. line : Lines[m].kind = "bytes" => ~Lines[m].odd
    <3>1. \A m \in 1 .. (line - 1) : Lines[m].kind = "bytes" => ~Lines[m].odd BY <2>1 DEF InImage
    <3>2. QED BY <1>1, <1>2, <3>1
  <2>3. 1 .. ((line + 1) - 1) = 1 .. line BY <1>2
  <2>4. QED BY <1>3, <2>1, <2>2, <2>3 DEF InImage
<1>6. IsPlace(line + 1, 1) BY <1>2 DEF IsPlace
<1>7. IsPlace(line, i)' BY <1>1, <1>6, SameInput DEF IsPlace
<1>8. InImage(line, i)' BY <1>1, <1>5, SameInput DEF InImage
<1>9. Occupied' BY <1>1 DEF Occupied, Reading
<1>10. (address = Address(<<line, i>>))' BY <1>1, <1>4, SameInput
<1>11. Reading' BY <1>1, <1>7, <1>8, <1>9, <1>10, SameInput DEF Reading
<1>12. QED BY <1>1, <1>11, GoingOn

LEMMA LineEndsKeeps ==
  ASSUME ToolInv, LineEnds
  PROVE  ToolInv'
<1>1. /\ step = "hex" /\ Reading /\ HexInput /\ line <= Len(Lines) /\ Lines[line].kind = "bytes"
      /\ ~Lines[line].odd /\ i > Len(Lines[line].bytes) /\ line' = line + 1 /\ i' = 1
      /\ UNCHANGED <<argv, step, opts, RAM, OCC, address, max_address, out>>
  BY DEF LineEnds, InHex, Line, NextLine, Lines, ToolInv, Reading, ram
<1>2. line \in 1 .. Len(Lines) /\ Len(Lines) \in Nat /\ i = Len(Lines[line].bytes) + 1
  <2>1. IsPlace(line, i) BY <1>1 DEF Reading
  <2>2. line \in 1 .. Len(Lines) /\ Len(Lines) \in Nat BY <1>1, <2>1, LineFacts DEF IsPlace
  <2>3. Len(Lines[line].bytes) \in Nat BY <1>1, <2>2, LineFacts
  <2>4. QED BY <1>1, <2>1, <2>2, <2>3 DEF IsPlace
<1>3. Before(line + 1, 1) = Before(line, i) BY <1>1, <1>2, BeforeLine
<1>4. Address(<<line + 1, 1>>) = address BY <1>1, <1>2, NextAddress DEF Reading
<1>5. InImage(line + 1, 1)
  <2>1. InImage(line, i) BY <1>1 DEF Reading
  <2>2. \A m \in 1 .. line : Lines[m].kind = "bytes" => ~Lines[m].odd
    <3>1. \A m \in 1 .. (line - 1) : Lines[m].kind = "bytes" => ~Lines[m].odd BY <2>1 DEF InImage
    <3>2. QED BY <1>1, <1>2, <3>1
  <2>3. 1 .. ((line + 1) - 1) = 1 .. line BY <1>2
  <2>4. QED BY <1>3, <2>1, <2>2, <2>3 DEF InImage
<1>6. IsPlace(line + 1, 1) BY <1>2 DEF IsPlace
<1>7. IsPlace(line, i)' BY <1>1, <1>6, SameInput DEF IsPlace
<1>8. InImage(line, i)' BY <1>1, <1>5, SameInput DEF InImage
<1>9. Occupied' BY <1>1 DEF Occupied, Reading
<1>10. (address = Address(<<line, i>>))' BY <1>1, <1>4, SameInput
<1>11. Reading' BY <1>1, <1>7, <1>8, <1>9, <1>10, SameInput DEF Reading
<1>12. QED BY <1>1, <1>11, GoingOn

LEMMA OddLineKeeps ==
  ASSUME ToolInv, OddLine
  PROVE  ToolInv'
<1>1. /\ step = "hex" /\ Reading /\ HexInput /\ line <= Len(Lines) /\ Lines[line].kind = "bytes"
      /\ Lines[line].odd /\ Fail
  BY DEF OddLine, InHex, Line, Lines, ToolInv, Reading
<1>2. line \in 1 .. Len(Lines) BY <1>1, LineFacts DEF Reading, IsPlace
<1>3. ~HexIsGood BY <1>1, <1>2 DEF HexIsGood, Lines
<1>4. argv' = argv /\ opts' = opts BY <1>1 DEF Fail
<1>5. ~HexIsGood' BY <1>3, <1>4, SameInput DEF HexIsGood
<1>6. Input'.ext = "hex" BY <1>1, <1>4, SameInput DEF HexInput
<1>7. FailsForAReason' BY <1>5, <1>6 DEF FailsForAReason
<1>8. QED BY <1>1, <1>7, Failing

LEMMA ByteKeeps ==
  ASSUME ToolInv, string_to_byte
  PROVE  ToolInv'
<1> DEFINE p == <<line, i>>
<1>1. /\ step = "hex" /\ Reading /\ HexInput /\ Sized /\ line <= Len(Lines) /\ Lines[line].kind = "bytes"
      /\ ~Lines[line].odd /\ i <= Len(Lines[line].bytes)
  BY DEF string_to_byte, InHex, Line, Lines, ToolInv, Reading
<1>2. p \in HexBytes /\ line \in 1 .. Len(Lines) /\ i \in 1 .. Len(Lines[line].bytes)
  <2>1. line \in 1 .. Len(Lines) /\ i \in Nat \ {0} BY <1>1, LineFacts DEF Reading, IsPlace
  <2>2. i \in 1 .. Len(Lines[line].bytes) BY <1>1, <2>1, LineFacts
  <2>3. QED BY <1>1, <2>1, <2>2, BytePlaces
<1>3. Value(p) = Lines[line].bytes[i] /\ address = Address(p) /\ address \in Int
  <2>1. address = Address(p) BY <1>1 DEF Reading
  <2>2. line \in 1 .. (Len(Lines) + 1) /\ i \in Nat BY <1>1, <1>2, LineFacts
  <2>3. Address(p) \in Int BY <1>1, <2>2, AddressIs
  <2>4. Value(p) = Lines[line].bytes[i] BY DEF Value, Lines
  <2>5. QED BY <2>1, <2>3, <2>4
<1>4. Len(Lines) \in Nat /\ Len(Lines[line].bytes) \in Nat /\ opts.RAM_SIZE \in Nat
      /\ DOMAIN RAM = 0 .. (opts.RAM_SIZE - 1)
  BY <1>1, <1>2, LineFacts DEF Sized
<1>5. CASE Fail
  <2>1. argv' = argv /\ opts' = opts BY <1>5 DEF Fail
  <2>2. \/ address >= opts.RAM_SIZE \/ (address \in OCC \/ Value(p) = Bad)
    <3>1. step' = "failed" BY <1>5 DEF Fail
    <3>2. step # "failed" BY <1>1
    <3>3. QED BY <1>3, <3>1, <3>2 DEF string_to_byte, GoTo, Line, Lines
  <2>3. ~HexIsGood
    <3>1. CASE address >= opts.RAM_SIZE
      <4>1. Address(p) \notin 0 .. (opts.RAM_SIZE - 1) BY <1>3, <1>4, <3>1
      <4>2. QED BY <1>2, <4>1 DEF HexIsGood
    <3>2. CASE Value(p) = Bad BY <1>2, <3>2 DEF HexIsGood
    <3>3. CASE address \in OCC
      <4>1. PICK q \in Before(line, i) : Address(q) = address BY <1>1, <3>3 DEF Reading, InImage
      <4>2. q \in HexBytes BY DEF Before
      <4>3. q # p
        <5>1. p \notin Before(line, i) BY <1>1, <1>2, BeforeNext
        <5>2. QED BY <5>1
      <4>4. QED BY <1>2, <1>3, <4>1, <4>2, <4>3 DEF HexIsGood
    <3>4. QED BY <2>2, <3>1, <3>2, <3>3
  <2>4. ~HexIsGood' BY <2>1, <2>3, SameInput DEF HexIsGood
  <2>5. Input'.ext = "hex" BY <1>1, <2>1, SameInput DEF HexInput
  <2>6. FailsForAReason' BY <2>4, <2>5 DEF FailsForAReason
  <2>7. QED BY <1>1, <1>5, <2>6, Failing
<1>6. CASE step' = "undefined"
  <2>1. UNCHANGED <<argv, opts, out, RAM>>
    BY <1>1, <1>6 DEF string_to_byte, GoTo, Fail, ram
  <2>2. QED BY <1>1, <1>6, <2>1, GoingOn
<1>7. CASE ~Fail /\ step' # "undefined"
  <2>1. /\ address < opts.RAM_SIZE /\ ~(address < 0) /\ address \notin OCC /\ Value(p) # Bad
        /\ max_address' = Max({max_address, address}) /\ RAM' = [RAM EXCEPT ![address] = Value(p)]
        /\ OCC' = OCC \cup {address} /\ address' = address + 1 /\ i' = i + 1
        /\ UNCHANGED <<argv, step, opts, line, out>>
    <3>1. Line.bytes[i] = Value(p) BY <1>3 DEF Line, Lines
    <3>2. ~(address >= opts.RAM_SIZE) /\ ~(address < 0) /\ ~(address \in OCC \/ Line.bytes[i] = Bad)
      BY <1>7 DEF string_to_byte, GoTo
    <3>3. address < opts.RAM_SIZE BY <1>3, <1>4, <3>2
    <3>4. QED BY <3>1, <3>2, <3>3 DEF string_to_byte
  <2>2. address \in 0 .. (opts.RAM_SIZE - 1) BY <1>3, <1>4, <2>1
  <2>3. Occupied'
    <3>1. Occupied BY <1>1 DEF Reading
    <3>2. max_address \in Nat /\ address \in Nat BY <1>4, <2>2, <3>1 DEF Occupied
    <3>3. /\ max_address' \in {max_address, address}
          /\ max_address <= max_address' /\ address <= max_address'
      <4>1. \E n \in Nat : max_address <= n /\ address <= n BY <3>2
      <4>2. PICK n \in Nat : max_address <= n /\ address <= n BY <4>1
      <4>3. {max_address, address} \in SUBSET (0 .. n) /\ {max_address, address} # {} BY <3>2, <4>2
      <4>4. QED BY <2>1, <4>3, Greatest
    <3>4. OCC' \subseteq 0 .. (opts'.RAM_SIZE - 1) BY <2>1, <2>2, <3>1 DEF Occupied
    <3>5. \A a \in DOMAIN RAM' : a \notin OCC' => RAM'[a] = 0 BY <2>1, <3>1 DEF Occupied
    <3>6. \A a \in OCC' \cup {0} : a <= max_address'
      <4>1. OCC \subseteq Int /\ max_address' \in Int BY <1>4, <3>1, <3>2, <3>3 DEF Occupied
      <4>2. \A a \in OCC \cup {0} : a <= max_address BY <3>1 DEF Occupied
      <4>3. QED BY <2>1, <3>2, <3>3, <4>1, <4>2
    <3>7. max_address' \in OCC' \cup {0} BY <2>1, <3>1, <3>3 DEF Occupied
    <3>8. QED BY <3>4, <3>5, <3>6, <3>7 DEF Occupied
  <2>4. Before(line, i + 1) = Before(line, i) \cup {p} BY <1>1, <1>2, BeforeNext
  <2>5. InImage(line, i) BY <1>1 DEF Reading
  <2>6. \A q \in Before(line, i) : Address(q) \in OCC BY <2>5 DEF InImage
  <2>7. OCC \subseteq DOMAIN RAM BY <1>1, <1>4 DEF Reading, Occupied
  <2>8. OCC' = {Address(q) : q \in Before(line, i + 1)} BY <1>3, <2>1, <2>4, <2>5 DEF InImage
  <2>9. \A q \in Before(line, i + 1) : Value(q) # Bad /\ RAM'[Address(q)] = Value(q)
    <3>1. ASSUME NEW q \in Before(line, i) PROVE Value(q) # Bad /\ RAM'[Address(q)] = Value(q)
      <4>1. Value(q) # Bad /\ RAM[Address(q)] = Value(q) BY <2>5 DEF InImage
      <4>2. Address(q) # address /\ Address(q) \in DOMAIN RAM BY <2>1, <2>6, <2>7
      <4>3. QED BY <2>1, <4>1, <4>2
    <3>2. RAM'[Address(p)] = Value(p) BY <1>3, <1>4, <2>1, <2>2
    <3>3. QED BY <2>1, <2>4, <3>1, <3>2
  <2>10. \A q, r \in Before(line, i + 1) : Address(q) = Address(r) => q = r
    <3>1. \A q, r \in Before(line, i) : Address(q) = Address(r) => q = r BY <2>5 DEF InImage
    <3>2. \A q \in Before(line, i) : Address(q) # Address(p) BY <1>3, <2>1, <2>6
    <3>3. QED BY <2>4, <3>1, <3>2
  <2>11. InImage(line, i)' BY <2>1, <2>5, <2>8, <2>9, <2>10, SameInput DEF InImage
  <2>12. IsPlace(line, i + 1) BY <1>1, <1>2, <1>4 DEF IsPlace
  <2>13. IsPlace(line, i)' BY <2>1, <2>12, SameInput DEF IsPlace
  <2>14. Address(<<line, i + 1>>) = address + 1 BY <1>1, <1>2, <1>3, NextByte
  <2>15. (address = Address(<<line, i>>))' BY <2>1, <2>14, SameInput
  <2>16. Reading' BY <1>1, <2>1, <2>3, <2>11, <2>13, <2>15, SameInput DEF Reading
  <2>17. DOMAIN RAM' = DOMAIN RAM BY <2>1
  <2>18. QED BY <1>1, <2>1, <2>16, <2>17, GoingOn
<1>8. QED BY <1>5, <1>6, <1>7

-----------------------------------------------------------------------------
(* At the end of the file the image is what the file says. *)
LEMMA FileEndsKeeps ==
  ASSUME ToolInv, FileEnds
  PROVE  ToolInv'
<1>1. /\ step = "hex" /\ Reading /\ HexInput /\ Sized /\ line > Len(Lines) /\ step' = "loaded"
      /\ UNCHANGED <<argv, opts, out, RAM, OCC, address, max_address, line, i>>
  BY DEF FileEnds, GoTo, ram, Lines, ToolInv, Reading
<1>2. line = Len(Lines) + 1 /\ i = 1 /\ Len(Lines) \in Nat
  <2>1. IsPlace(line, i) BY <1>1 DEF Reading
  <2>2. QED BY <1>1, <2>1, LineFacts DEF IsPlace
<1>3. Before(line, i) = HexBytes BY <1>1, <1>2, BeforeAll
<1>4. InImage(line, i) /\ Occupied BY <1>1 DEF Reading
<1>5. OCC = Given BY <1>1, <1>3, <1>4 DEF InImage, Given, HexInput
<1>6. HexIsGood
  <2>1. \A l \in 1 .. Len(Lines) : Lines[l].kind = "bytes" => ~Lines[l].odd
    <3>1. 1 .. Len(Lines) = 1 .. (line - 1) BY <1>2
    <3>2. QED BY <1>4, <3>1 DEF InImage
  <2>2. \A p \in HexBytes : Value(p) # Bad /\ Address(p) \in 0 .. (opts.RAM_SIZE - 1)
    <3>1. \A p \in HexBytes : Address(p) \in OCC /\ Value(p) # Bad BY <1>3, <1>4 DEF InImage
    <3>2. QED BY <1>4, <3>1 DEF Occupied
  <2>3. \A p, q \in HexBytes : Address(p) = Address(q) => p = q BY <1>3, <1>4 DEF InImage
  <2>4. QED BY <2>1, <2>2, <2>3 DEF HexIsGood, Lines
<1>7. \A a \in DOMAIN RAM : RAM[a] = Said(a)
  <2>1. SUFFICES ASSUME NEW a \in DOMAIN RAM PROVE RAM[a] = Said(a) OBVIOUS
  <2>2. CASE a \notin Given BY <1>4, <1>5, <2>2 DEF Said, Occupied
  <2>3. CASE a \in Given
    <3>1. \E p \in HexBytes : Address(p) = a BY <1>1, <2>3 DEF Given, HexInput
    <3>2. PICK p \in HexBytes : p = CHOOSE q \in HexBytes : Address(q) = a BY <3>1
    <3>3. Address(p) = a BY <3>1, <3>2
    <3>4. RAM[a] = Value(p) BY <1>3, <1>4, <3>3 DEF InImage
    <3>5. QED BY <1>1, <2>3, <3>2, <3>4 DEF Said, HexInput
  <2>4. QED BY <2>2, <2>3
<1>8. max_address \in Given \cup {0} /\ (\A a \in Given \cup {0} : a <= max_address) /\ Given \subseteq Int
  BY <1>1, <1>4, <1>5 DEF Occupied, Sized
<1>9. HexIsGood' BY <1>1, <1>6, SameInput DEF HexIsGood
<1>10. Loaded' BY <1>1, <1>7, <1>8, <1>9, SameInput DEF Loaded
<1>11. QED BY <1>1, <1>10, GoingOn

(* The loader of an ELF file. *)
LEMMA ElfKeeps ==
  ASSUME ToolInv, load_RAM_elf
  PROVE  ToolInv'
<1> DEFINE top == Max(DOMAIN Input.image \cup {0})
<1>1. /\ step = "elf" /\ Input.ext = "elf" /\ Sized /\ argv \in CommandLines /\ out.kind = "none"
      /\ \A a \in DOMAIN RAM : RAM[a] = 0
  BY DEF load_RAM_elf, ToolInv
<1>2. /\ top \in Nat /\ top \in DOMAIN Input.image \cup {0} /\ DOMAIN Input.image \subseteq Nat
      /\ \A a \in DOMAIN Input.image \cup {0} : a <= top
  <2>1. InputAssumption(Input) BY <1>1, InputsAssumption DEF Sized, Input
  <2>2. DOMAIN Input.image \subseteq Nat
        /\ (DOMAIN Input.image # {} => \E n \in DOMAIN Input.image : \A a \in DOMAIN Input.image : a <= n)
    BY <1>1, <2>1 DEF InputAssumption
  <2>3. \E n \in Nat : DOMAIN Input.image \cup {0} \subseteq 0 .. n
    <3>1. CASE DOMAIN Input.image = {}
      <4>1. DOMAIN Input.image \cup {0} \subseteq 0 .. 0 BY <3>1
      <4>2. QED BY <4>1
    <3>2. CASE DOMAIN Input.image # {} BY <2>2, <3>2
    <3>3. QED BY <3>1, <3>2
  <2>4. PICK n \in Nat : DOMAIN Input.image \cup {0} \subseteq 0 .. n BY <2>3
  <2>5. top \in DOMAIN Input.image \cup {0} /\ \A a \in DOMAIN Input.image \cup {0} : a <= top
    BY <2>4, Greatest
  <2> HIDE DEF top
  <2>6. QED BY <2>2, <2>4, <2>5
<1>3. opts.RAM_SIZE \in Nat \ {0} BY <1>1 DEF Sized
<1>4. CASE ~Input.readable \/ top >= opts.RAM_SIZE
  <2>1. Fail BY <1>4 DEF load_RAM_elf
  <2>2. argv' = argv /\ opts' = opts BY <2>1 DEF Fail
  <2>3. ~Input.readable \/ \E a \in DOMAIN Input.image : a >= opts.RAM_SIZE
    <3> HIDE DEF top
    <3>1. QED BY <1>2, <1>3, <1>4
  <2>4. Input' = Input BY <2>2, SameInput
  <2>5. FailsForAReason' BY <1>1, <2>2, <2>3, <2>4 DEF FailsForAReason
  <2>6. QED BY <1>1, <2>1, <2>5, Failing
<1>5. CASE ~(~Input.readable \/ top >= opts.RAM_SIZE)
  <2>1. /\ RAM' = [a \in DOMAIN RAM |-> IF a \in DOMAIN Input.image THEN Input.image[a] ELSE RAM[a]]
        /\ max_address' = top /\ step' = "loaded" /\ UNCHANGED <<argv, opts, out>>
    BY <1>5 DEF load_RAM_elf, GoTo
  <2>2. Sized' BY <1>1, <2>1 DEF Sized
  <2>3. Given = DOMAIN Input.image BY <1>1 DEF Given
  <2>4. \A a \in DOMAIN RAM' : RAM'[a] = Said(a) BY <1>1, <2>1, <2>3 DEF Said
  <2>5. max_address' \in Given \cup {0} /\ (\A a \in Given \cup {0} : a <= max_address') /\ Given \subseteq Int
    <3> HIDE DEF top
    <3>1. QED BY <1>2, <2>1, <2>3
  <2>6. Loaded' BY <1>1, <2>1, <2>4, <2>5, SameInput DEF Loaded
  <2>7. WritesWhatWasRead' /\ FailsForAReason' BY <1>1, <2>1, Quiet
  <2>8. QED BY <1>1, <2>1, <2>2, <2>6, <2>7 DEF ToolInv
<1>6. QED BY <1>4, <1>5

(* The words and bytes that are written are those of the image. *)
LEMMA Written ==
  ASSUME Sized, Cells \subseteq DOMAIN RAM, NEW a \in Cells
  PROVE  LET k == a - opts.from_addr IN
         /\ opts.from_addr % 4 = 0 /\ (To + 1) % 4 = 0 => HexWords[(k \div 4) + 1][4 - (k % 4)] = RAM[a]
         /\ BinBytes[k + 1] = RAM[a]
<1> DEFINE from == opts.from_addr
           k == a - from
<1>1. from \in Int /\ To \in Int /\ a \in Int /\ from <= a /\ a <= To BY DEF Sized, To, Cells
<1>2. k \in Nat BY <1>1
<1>3. BinBytes[k + 1] = RAM[a]
  <2>1. k + 1 \in 1 .. (To + 1 - from) BY <1>1
  <2>2. from + (k + 1) - 1 = a BY <1>1
  <2>3. BinBytes[k + 1] = RAM[from + (k + 1) - 1]
    <3> HIDE DEF k
    <3>1. QED BY <2>1 DEF BinBytes
  <2>4. QED BY <2>2, <2>3
<1>4. ASSUME from % 4 = 0, (To + 1) % 4 = 0 PROVE HexWords[(k \div 4) + 1][4 - (k % 4)] = RAM[a]
  <2>1. PICK w \in Nat, b \in 0 .. 3 : k = 4 * w + b /\ w = k \div 4 /\ b = k % 4
    <3> HIDE DEF k
    <3>1. k \div 4 \in Nat /\ k % 4 \in 0 .. 3 /\ k = 4 * (k \div 4) + (k % 4) BY <1>2
    <3>2. QED BY <3>1
  <2>2. PICK f \in Int, t \in Int : from = 4 * f /\ To + 1 = 4 * t
    <3>1. from = 4 * (from \div 4) /\ To + 1 = 4 * ((To + 1) \div 4)
      <4> DEFINE u == To + 1
      <4>1. u \in Int BY <1>1
      <4>2. u = 4 * (u \div 4)
        <5>1. u % 4 = 0 BY <1>4
        <5> HIDE DEF u
        <5>2. QED BY <4>1, <5>1
      <4>3. from = 4 * (from \div 4)
        <5>1. from % 4 = 0 BY <1>4
        <5> HIDE DEF from
        <5>2. QED BY <1>1, <5>1
      <4>4. QED BY <4>2, <4>3
    <3>2. from \div 4 \in Int /\ (To + 1) \div 4 \in Int BY <1>1
    <3>3. QED BY <3>1, <3>2
  <2>3. (To + 1 - from) \div 4 = t - f BY <1>1, <2>2
  <2>4. w + 1 \in 1 .. (t - f) BY <1>1, <2>1, <2>2
  <2>5. 4 - b \in 1 .. 4 BY <2>1
  <2>6. HexWords[w + 1][4 - b] = RAM[from + 4 * ((w + 1) - 1) + 4 - (4 - b)]
    <3> HIDE DEF from, k
    <3>1. HexWords[w + 1] = [c \in 1 .. 4 |-> RAM[opts.from_addr + 4 * ((w + 1) - 1) + 4 - c]]
      BY <2>3, <2>4 DEF HexWords, from
    <3>2. QED BY <2>5, <3>1 DEF from
  <2>7. from + 4 * ((w + 1) - 1) + 4 - (4 - b) = a
    <3>1. a = from + (4 * w + b) BY <1>1, <2>1
    <3>2. from \in Int /\ w \in Int /\ b \in Int /\ a \in Int BY <1>1
    <3>3. from + 4 * ((w + 1) - 1) + 4 - (4 - b) = from + (4 * w + b)
      <4> HIDE DEF from
      <4>1. QED BY <3>2
    <3>4. QED BY <3>1, <3>3
  <2>8. QED BY <2>1, <2>6, <2>7
<1>5. QED BY <1>3, <1>4

LEMMA FinishKeeps ==
  ASSUME ToolInv, Finish
  PROVE  ToolInv'
<1>1. /\ step = "loaded" /\ Loaded /\ Sized /\ argv \in CommandLines /\ out.kind = "none"
      /\ argv' = argv /\ opts' = opts
  BY DEF Finish, ToolInv, Fail, GoTo, save_RAM
<1>2. Cells' = Cells /\ To' = To BY <1>1 DEF Cells, To
<1>3. max_address \in Int /\ opts.MAX_ADDR \in Int BY <1>1 DEF Loaded, Sized
<1>4. CASE opts.MAX_ADDR # 0 /\ max_address > opts.MAX_ADDR
  <2>1. Fail BY <1>4 DEF Finish
  <2>2. TooHigh BY <1>1, <1>4 DEF TooHigh, Loaded
  <2>3. TooHigh' BY <1>1, <2>2, SameInput DEF TooHigh
  <2>4. FailsForAReason' BY <2>3 DEF FailsForAReason
  <2>5. QED BY <1>1, <2>1, <2>4, Failing
<1>5. CASE ~(opts.MAX_ADDR # 0 /\ max_address > opts.MAX_ADDR)
  <2>1. ~TooHigh
    <3>1. \A a \in Given \cup {0} : a \in Int /\ a <= max_address BY <1>1 DEF Loaded
    <3>2. QED BY <1>3, <1>5, <3>1 DEF TooHigh
  <2>2. CASE opts.out = NoName
    <3>1. step' = "done" /\ out' = out BY <1>5, <2>2 DEF Finish, GoTo
    <3>2. WritesWhatWasRead' /\ FailsForAReason' BY <1>1, <3>1, Quiet
    <3>3. QED BY <1>1, <3>1, <3>2 DEF ToolInv
  <2>3. CASE opts.out # NoName
    <3> DEFINE ext == opts.out.ext
               wrong == ext \notin {"hex", "elf"} \/ (ext = "hex" /\ (opts.from_addr % 4 # 0 \/ (To + 1) % 4 # 0))
               beyond == ~(Cells \subseteq DOMAIN RAM) \/ (ext = "elf" /\ To + 1 < opts.from_addr)
    <3>1. save_RAM BY <1>5, <2>3 DEF Finish
    <3>2. CASE wrong
      <4>1. Fail BY <3>1, <3>2 DEF save_RAM
      <4>2. FailsForAReason' BY <1>1, <1>2, <3>2 DEF FailsForAReason
      <4>3. QED BY <1>1, <4>1, <4>2, Failing
    <3>3. CASE ~wrong /\ beyond
      <4>1. step' = "undefined" /\ out' = out BY <3>1, <3>3 DEF save_RAM
      <4>2. WritesWhatWasRead' /\ FailsForAReason' BY <1>1, <4>1, Quiet
      <4>3. QED BY <1>1, <4>1, <4>2 DEF ToolInv
    <3>4. CASE ~wrong /\ ~beyond
      <4>1. /\ out' = IF ext = "hex" THEN [kind |-> "hex", data |-> HexWords]
                                     ELSE [kind |-> "bin", data |-> BinBytes]
            /\ step' = "done"
        BY <3>1, <3>4 DEF save_RAM
      <4>2. FailsForAReason' BY <4>1 DEF FailsForAReason
      <4>3. \A a \in Cells :
              LET k == a - opts.from_addr IN
              Said(a) = IF out'.kind = "hex" THEN out'.data[(k \div 4) + 1][4 - (k % 4)] ELSE out'.data[k + 1]
        <5>1. SUFFICES ASSUME NEW a \in Cells
                       PROVE  LET k == a - opts.from_addr IN
                              Said(a) = IF out'.kind = "hex" THEN out'.data[(k \div 4) + 1][4 - (k % 4)]
                                                             ELSE out'.data[k + 1]
          OBVIOUS
        <5>2. Said(a) = RAM[a] BY <1>1, <3>4 DEF Loaded
        <5>3. CASE ext = "hex"
          <6>1. out'.kind = "hex" /\ out'.data = HexWords BY <4>1, <5>3
          <6>2. QED BY <1>1, <3>4, <5>2, <5>3, <6>1, Written
        <5>4. CASE ext # "hex"
          <6>1. out'.kind = "bin" /\ out'.data = BinBytes BY <4>1, <5>4
          <6>2. QED BY <1>1, <3>4, <5>2, <6>1, Written
        <5>5. QED BY <5>3, <5>4
      <4>4. Input.ext = "hex" => HexIsGood BY <1>1 DEF Loaded
      <4>5. (Input.ext = "hex" => HexIsGood)' BY <1>1, <4>4, SameInput DEF HexIsGood
      <4>6. ~TooHigh' BY <1>1, <2>1, SameInput DEF TooHigh
      <4>7. \A a : Said(a)' = Said(a) BY <1>1, SameInput
      <4>8. WritesWhatWasRead' BY <1>1, <1>2, <4>3, <4>5, <4>6, <4>7 DEF WritesWhatWasRead
      <4>9. QED BY <1>1, <4>1, <4>2, <4>8 DEF ToolInv
    <3>5. QED BY <3>2, <3>3, <3>4
  <2>4. QED BY <2>2, <2>3
<1>6. QED BY <1>4, <1>5

-----------------------------------------------------------------------------
LEMMA StepKeeps ==
  ASSUME ToolInv, [Next]_vars
  PROVE  ToolInv'
<1>1. CASE Next
  BY <1>1, BeginKeeps, OriginKeeps, OddLineKeeps, ByteKeeps, LineEndsKeeps, FileEndsKeeps, ElfKeeps,
     FinishKeeps DEF Next
<1>2. CASE UNCHANGED vars
  <2>1. /\ UNCHANGED <<argv, step, opts, RAM, OCC, address, max_address, line, i, out>>
        /\ argv' = argv
    BY <1>2 DEF vars
  <2>2. Sized' <=> Sized BY <2>1 DEF Sized
  <2>3. IsPlace(line, i)' <=> IsPlace(line, i) BY <2>1, SameInput DEF IsPlace
  <2>4. InImage(line, i)' <=> InImage(line, i) BY <2>1, SameInput DEF InImage
  <2>5. Reading' <=> Reading BY <2>1, <2>3, <2>4, SameInput DEF Reading, Occupied
  <2>6. HexIsGood' <=> HexIsGood BY <2>1, SameInput DEF HexIsGood
  <2>7. Loaded' <=> Loaded BY <2>1, <2>6, SameInput DEF Loaded
  <2>8. TooHigh' <=> TooHigh BY <2>1, SameInput DEF TooHigh
  <2>9. Cells' = Cells /\ To' = To BY <2>1 DEF Cells, To
  <2>10. WritesWhatWasRead' <=> WritesWhatWasRead BY <2>1, <2>6, <2>8, <2>9, SameInput DEF WritesWhatWasRead
  <2>11. FailsForAReason' <=> FailsForAReason
    BY <2>1, <2>6, <2>8, <2>9, SameInput DEF FailsForAReason
  <2>12. QED BY <2>1, <2>2, <2>5, <2>7, <2>10, <2>11, SameInput DEF ToolInv
<1>3. QED BY <1>1, <1>2

LEMMA ToolHolds == Spec => []ToolInv
<1>1. QED BY InitTool, StepKeeps, PTL DEF Spec

(* What firmware_words writes is what its input says, each byte at its      *)
(* address and zero elsewhere, in words of the lowest byte last, for every  *)
(* file, size and interval; it writes nothing unless the whole input is     *)
(* right (firmware_words.cpp:130-189, 245-297, 435-461).                    *)
THEOREM ImageCorrect == Spec => []WritesWhatWasRead
<1>1. ToolInv => WritesWhatWasRead BY DEF ToolInv
<1>2. QED BY <1>1, ToolHolds, PTL

(* It fails only for an option, a byte, an address, a limit or a name that  *)
(* is wrong (firmware_words.cpp:152-176, 205-215, 368-461).                 *)
THEOREM FailureHasReason == Spec => []FailsForAReason
<1>1. ToolInv => FailsForAReason BY DEF ToolInv
<1>2. QED BY <1>1, ToolHolds, PTL
=============================================================================
