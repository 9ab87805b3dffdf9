----------------------------- MODULE BiosProofs -----------------------------
(***************************************************************************)
(* Proofs about the BIOS console of Bios, for every memory, flash, line    *)
(* and medium: the types, what a command hands back, that a refused        *)
(* command changes nothing, that a command does what it was asked, and     *)
(* that a boot runs what the medium told.                                  *)
(*                                                                         *)
(* The argument is about the handlers first.  Each is a sequence in which  *)
(* the checks come before everything that changes something, and in which  *)
(* the memory controller, once taken, is handed back two steps later; Good *)
(* says so, and it is proved of every entry of the table.  The invariant   *)
(* BiosInv then carries Good along with what is left of the handler.       *)
(*                                                                         *)
(* A second invariant, AskedInv, remembers that what is left is the end of *)
(* the handler that was called: so the number of steps left says how many  *)
(* rounds of a loop are done, and Written, Copied, Printed and Compared    *)
(* say what that many rounds did.                                          *)
(*                                                                         *)
(* A third, LoadInv, is about the boots: Told says what the loop over the  *)
(* tokens has noted of the keys it has passed, and Landed that the images  *)
(* among them lie where the file wants them, but for what a later one, or  *)
(* the one that is being read, covers.                                     *)
(***************************************************************************)
EXTENDS Bios, SequenceTheorems, FiniteSetTheorems, TLAPS

-----------------------------------------------------------------------------
(* Sequences whose elements are of any kind. *)
IsSeq(s) == s \in Seq({s[k] : k \in DOMAIN s})

(* Sequences over a set are sequences over their own elements. *)
LEMMA SeqIs ==
  ASSUME NEW S, NEW s \in Seq(S)
  PROVE  IsSeq(s)
<1>1. s \in [1 .. Len(s) -> S] /\ Len(s) \in Nat BY LenProperties
<1>2. s \in [1 .. Len(s) -> {s[k] : k \in DOMAIN s}] BY <1>1
<1>3. QED BY <1>1, <1>2, SeqDef DEF IsSeq

(* The length of a sequence, and its domain. *)
LEMMA SeqLen ==
  ASSUME NEW s, IsSeq(s)
  PROVE  Len(s) \in Nat /\ DOMAIN s = 1 .. Len(s)
BY LenProperties DEF IsSeq

(* A function on 1 .. n is a sequence. *)
LEMMA SeqMade ==
  ASSUME NEW n \in Nat, NEW s, DOMAIN s = 1 .. n, s = [k \in 1 .. n |-> s[k]]
  PROVE  IsSeq(s) /\ Len(s) = n
<1>1. s \in [1 .. n -> {s[k] : k \in DOMAIN s}] OBVIOUS
<1>2. IsSeq(s) BY <1>1, SeqDef DEF IsSeq
<1>3. Len(s) = n
  <2>1. Len(s) \in Nat /\ 1 .. n = 1 .. Len(s) BY <1>2, SeqLen
  <2>2. QED BY <2>1, SMT
<1>4. QED BY <1>2, <1>3

(* Two sequences, one after the other. *)
LEMMA Joined ==
  ASSUME NEW s, IsSeq(s), NEW t, IsSeq(t)
  PROVE  /\ IsSeq(s \o t) /\ Len(s \o t) = Len(s) + Len(t)
         /\ \A i \in 1 .. Len(s) : (s \o t)[i] = s[i]
         /\ \A i \in 1 .. Len(t) : (s \o t)[Len(s) + i] = t[i]
         /\ \A i \in 1 .. Len(s \o t) : i \in 1 .. Len(s) \/ \E j \in 1 .. Len(t) : i = Len(s) + j
<1> DEFINE A == {s[k] : k \in DOMAIN s}
           B == {t[k] : k \in DOMAIN t}
           S == A \cup B
<1>1. s \in Seq(S) /\ t \in Seq(S)
  <2>1. Seq(A) \subseteq Seq(S) /\ Seq(B) \subseteq Seq(S) BY SeqDef
  <2>2. QED BY <2>1 DEF IsSeq
<1> HIDE DEF S
<1>2. /\ s \o t \in Seq(S) /\ Len(s \o t) = Len(s) + Len(t)
      /\ \A i \in 1 .. Len(s) + Len(t) : (s \o t)[i] = IF i <= Len(s) THEN s[i] ELSE t[i - Len(s)]
  BY <1>1, ConcatProperties
<1>3. Len(s) \in Nat /\ Len(t) \in Nat BY SeqLen
<1>4. ASSUME NEW i \in 1 .. Len(s) PROVE i \in 1 .. Len(s) + Len(t) /\ i <= Len(s) BY <1>3, SMT
<1>5. ASSUME NEW i \in 1 .. Len(t)
      PROVE  Len(s) + i \in 1 .. Len(s) + Len(t) /\ ~(Len(s) + i <= Len(s)) /\ Len(s) + i - Len(s) = i
  BY <1>3, SMT
<1>6. ASSUME NEW i \in 1 .. Len(s) + Len(t)
      PROVE  i \in 1 .. Len(s) \/ \E j \in 1 .. Len(t) : i = Len(s) + j
  <2>1. CASE i <= Len(s) BY <1>3, <2>1, SMT
  <2>2. CASE ~(i <= Len(s))
    <3>1. i - Len(s) \in 1 .. Len(t) /\ i = Len(s) + (i - Len(s)) BY <1>3, <2>2, SMT
    <3>2. QED BY <3>1
  <2>3. QED BY <2>1, <2>2
<1>7. IsSeq(s \o t) BY <1>2, SeqIs
<1>8. QED BY <1>2, <1>4, <1>5, <1>6, <1>7

-----------------------------------------------------------------------------
(* Steps that set a register, and those that do something else. *)
RegKinds == {"set", "try", "set_one_of", "toggle"}
OtherKinds == {"mark", "store", "copy", "compare", "show", "scratch", "program", "erase", "jump", "restart", "media"}
(* Steps that change nothing: checks, and the overrun that nobody survives. *)
Guard(st) == (st.do = "check" /\ st.reply \in {"usage", "bad"}) \/ st.do = "overrun"
Guards(s) == IsSeq(s) /\ \A k \in 1 .. Len(s) : Guard(s[k])

(* sdram_software_control_off. *)
Hands(st) == st.do = "set" /\ st.reg = "control" /\ st.value = <<"hardware">>
(* A handler: its checks come first, and it hands the memory controller     *)
(* back two steps after it took it.                                         *)
Good(s) ==
  /\ IsSeq(s)
  /\ \A k \in 1 .. Len(s) :
       /\ Guard(s[k]) \/ s[k].do \in OtherKinds \/ (s[k].do \in RegKinds /\ s[k].reg \in Registers)
       /\ s[k].do \in RegKinds /\ s[k].reg = "control" =>
            Hands(s[k]) \/ (/\ k + 2 <= Len(s)
                            /\ s[k].do = "set"
                            /\ s[k + 1].do = "set" /\ s[k + 1].reg # "control" /\ Hands(s[k + 2]))
       /\ s[k].do = "check" => \A j \in 1 .. k - 1 : s[j].do \in {"check", "overrun"}

(* Checks after checks. *)
LEMMA GuardsJoin ==
  ASSUME NEW s, Guards(s), NEW t, Guards(t)
  PROVE  Guards(s \o t)
<1>1. /\ IsSeq(s \o t)
      /\ \A i \in 1 .. Len(s) : (s \o t)[i] = s[i]
      /\ \A i \in 1 .. Len(t) : (s \o t)[Len(s) + i] = t[i]
      /\ \A i \in 1 .. Len(s \o t) : i \in 1 .. Len(s) \/ \E j \in 1 .. Len(t) : i = Len(s) + j
  BY Joined DEF Guards
<1>2. ASSUME NEW i \in 1 .. Len(s \o t) PROVE Guard((s \o t)[i])
  <2>1. CASE i \in 1 .. Len(s) BY <1>1, <2>1 DEF Guards
  <2>2. CASE \E j \in 1 .. Len(t) : i = Len(s) + j BY <1>1, <2>2 DEF Guards
  <2>3. QED BY <1>1, <2>1, <2>2
<1>3. QED BY <1>1, <1>2 DEF Guards

(* A good run after checks. *)
LEMMA GoodJoin ==
  ASSUME NEW c, Guards(c), NEW g, Good(g)
  PROVE  Good(c \o g)
<1> DEFINE s == c \o g
<1>1. /\ IsSeq(s) /\ Len(s) = Len(c) + Len(g)
      /\ \A i \in 1 .. Len(c) : s[i] = c[i]
      /\ \A i \in 1 .. Len(g) : s[Len(c) + i] = g[i]
      /\ \A i \in 1 .. Len(s) : i \in 1 .. Len(c) \/ \E j \in 1 .. Len(g) : i = Len(c) + j
  BY Joined DEF Guards, Good
<1> HIDE DEF s
<1>2. Len(c) \in Nat /\ Len(g) \in Nat BY SeqLen DEF Guards, Good
<1>3. ASSUME NEW k \in 1 .. Len(s)
      PROVE  /\ Guard(s[k]) \/ s[k].do \in OtherKinds \/ (s[k].do \in RegKinds /\ s[k].reg \in Registers)
             /\ s[k].do \in RegKinds /\ s[k].reg = "control" =>
                  Hands(s[k]) \/ (/\ k + 2 <= Len(s)
                                  /\ s[k].do = "set"
                                  /\ s[k + 1].do = "set" /\ s[k + 1].reg # "control" /\ Hands(s[k + 2]))
             /\ s[k].do = "check" => \A j \in 1 .. k - 1 : s[j].do \in {"check", "overrun"}
  <2>1. CASE k \in 1 .. Len(c)
    <3>1. Guard(s[k]) /\ s[k].do \notin RegKinds BY <1>1, <2>1 DEF Guards, Guard, RegKinds
    <3>2. ASSUME NEW j \in 1 .. k - 1 PROVE s[j].do \in {"check", "overrun"}
      <4>1. j \in 1 .. Len(c) BY <1>2, <2>1, SMT
      <4>2. QED BY <1>1, <4>1 DEF Guards, Guard
    <3>3. QED BY <3>1, <3>2
  <2>2. CASE \E j \in 1 .. Len(g) : k = Len(c) + j
    <3>1. PICK j \in 1 .. Len(g) : k = Len(c) + j BY <2>2
    <3>2. s[k] = g[j] BY <1>1, <3>1
    <3>3. Guard(s[k]) \/ s[k].do \in OtherKinds \/ (s[k].do \in RegKinds /\ s[k].reg \in Registers)
      BY <3>2 DEF Good
    <3>4. ASSUME s[k].do \in RegKinds, s[k].reg = "control", ~Hands(s[k])
          PROVE  /\ k + 2 <= Len(s) /\ s[k].do = "set"
                 /\ s[k + 1].do = "set" /\ s[k + 1].reg # "control" /\ Hands(s[k + 2])
      <4>1. /\ j + 2 <= Len(g) /\ g[j].do = "set"
            /\ g[j + 1].do = "set" /\ g[j + 1].reg # "control" /\ Hands(g[j + 2])
        BY <3>2, <3>4 DEF Good
      <4>2. /\ j + 1 \in 1 .. Len(g) /\ j + 2 \in 1 .. Len(g)
            /\ k + 1 = Len(c) + (j + 1) /\ k + 2 = Len(c) + (j + 2) /\ k + 2 <= Len(c) + Len(g)
        <5>1. j + 1 \in 1 .. Len(g) BY <1>2, <4>1, SMT
        <5>2. j + 2 \in 1 .. Len(g) BY <1>2, <4>1, SMT
        <5>3. k + 1 = Len(c) + (j + 1) BY <1>2, <3>1, SMT
        <5>4. k + 2 = Len(c) + (j + 2) BY <1>2, <3>1, SMT
        <5>5. k + 2 <= Len(c) + Len(g) BY <1>2, <4>1, <5>4, SMT
        <5>6. QED BY <5>1, <5>2, <5>3, <5>4, <5>5
      <4>3. s[k + 1] = g[j + 1] /\ s[k + 2] = g[j + 2] BY <1>1, <4>2
      <4>4. QED BY <1>1, <3>2, <4>1, <4>2, <4>3
    <3>5. ASSUME s[k].do = "check", NEW i \in 1 .. k - 1 PROVE s[i].do \in {"check", "overrun"}
      <4>1. i \in 1 .. Len(c) \/ \E m \in 1 .. j - 1 : i = Len(c) + m
        <5>1. CASE i <= Len(c) BY <1>2, <5>1, SMT
        <5>2. CASE ~(i <= Len(c))
          <6>1. i - Len(c) \in 1 .. j - 1 /\ i = Len(c) + (i - Len(c)) BY <1>2, <3>1, <5>2, SMT
          <6>2. QED BY <6>1
        <5>3. QED BY <5>1, <5>2
      <4>2. CASE i \in 1 .. Len(c) BY <1>1, <4>2 DEF Guards, Guard
      <4>3. CASE \E m \in 1 .. j - 1 : i = Len(c) + m
        <5>1. PICK m \in 1 .. j - 1 : i = Len(c) + m BY <4>3
        <5>2. m \in 1 .. Len(g) BY <1>2, SMT
        <5>3. g[m].do \in {"check", "overrun"} BY <3>2, <3>5 DEF Good
        <5>4. QED BY <1>1, <5>1, <5>2, <5>3
      <4>4. QED BY <4>1, <4>2, <4>3
    <3>6. QED BY <3>3, <3>4, <3>5
  <2>3. QED BY <1>1, <2>1, <2>2
<1>4. Good(s) BY <1>1, <1>3 DEF Good
<1>5. QED BY <1>4 DEF s

(* What a handler does, the memory controller left to itself. *)
Deed(st) == \/ st.do \in OtherKinds
            \/ st.do \in RegKinds /\ st.reg \in Registers /\ st.reg # "control"
Deeds(s) == IsSeq(s) /\ \A k \in 1 .. Len(s) : Deed(s[k])

(* Short sequences. *)
LEMMA Tuples ==
  ASSUME NEW a, NEW b, NEW c
  PROVE  /\ IsSeq(<<>>) /\ Len(<<>>) = 0
         /\ IsSeq(<<a>>) /\ Len(<<a>>) = 1
         /\ IsSeq(<<a, b>>) /\ Len(<<a, b>>) = 2
         /\ IsSeq(<<a, b, c>>) /\ Len(<<a, b, c>>) = 3
<1>1. <<>> \in Seq({}) /\ Len(<<>>) = 0 BY SMT
<1>2. <<a>> \in Seq({a}) /\ Len(<<a>>) = 1 BY SMT
<1>3. <<a, b>> \in Seq({a, b}) /\ Len(<<a, b>>) = 2 BY SMT
<1>4. <<a, b, c>> \in Seq({a, b, c}) /\ Len(<<a, b, c>>) = 3 BY SMT
<1>5. QED BY <1>1, <1>2, <1>3, <1>4, SeqIs

(* Deeds alone are good. *)
LEMMA DeedsGood ==
  ASSUME NEW s, Deeds(s)
  PROVE  Good(s)
BY DEF Deeds, Deed, Good, OtherKinds, RegKinds

(* Checks alone are good. *)
LEMMA GuardsGood ==
  ASSUME NEW s, Guards(s)
  PROVE  Good(s)
<1>1. Len(s) \in Nat BY SeqLen DEF Guards
<1>2. ASSUME NEW k \in 1 .. Len(s), NEW j \in 1 .. k - 1 PROVE j \in 1 .. Len(s) BY <1>1, SMT
<1>3. QED BY <1>2 DEF Guards, Guard, Good, RegKinds

(* A setting between sdram_software_control_on and _off, and what follows it. *)
LEMMA ControlledGood ==
  ASSUME NEW reg \in Registers, reg # "control", NEW v, NEW d, Deeds(d)
  PROVE  Good(Controlled(reg, v) \o d)
<1> DEFINE c == Controlled(reg, v)
           s == c \o d
<1>1. IsSeq(c) /\ Len(c) = 3 BY Tuples DEF Controlled
<1>2. /\ c[1] = Set("control", <<"software">>) /\ c[2] = Set(reg, v) /\ c[3] = Set("control", <<"hardware">>)
  BY DEF Controlled
<1> HIDE DEF c
<1>3. /\ IsSeq(s) /\ Len(s) = 3 + Len(d)
      /\ \A i \in 1 .. 3 : s[i] = c[i]
      /\ \A i \in 1 .. Len(d) : s[3 + i] = d[i]
      /\ \A i \in 1 .. Len(s) : i \in 1 .. 3 \/ \E j \in 1 .. Len(d) : i = 3 + j
  <2>1. IsSeq(c) /\ IsSeq(d) BY <1>1 DEF Deeds
  <2>2. /\ IsSeq(s) /\ Len(s) = Len(c) + Len(d)
        /\ \A i \in 1 .. Len(c) : s[i] = c[i]
        /\ \A i \in 1 .. Len(d) : s[Len(c) + i] = d[i]
        /\ \A i \in 1 .. Len(s) : i \in 1 .. Len(c) \/ \E j \in 1 .. Len(d) : i = Len(c) + j
    BY <2>1, Joined
  <2> HIDE DEF s
  <2>3. QED BY <1>1, <2>2
<1> HIDE DEF s
<1>4. Len(d) \in Nat BY SeqLen DEF Deeds
<1>5. 1 \in 1 .. 3 /\ 2 \in 1 .. 3 /\ 3 \in 1 .. 3 /\ 1 + 1 = 2 /\ 1 + 2 = 3 /\ 1 + 2 <= 3 + Len(d)
      /\ \A i \in 1 .. 3 : i \in {1, 2, 3}
  BY <1>4, SMT
<1>6. s[1] = Set("control", <<"software">>) /\ s[2] = Set(reg, v) /\ s[3] = Set("control", <<"hardware">>)
  BY <1>2, <1>3, <1>5
<1>7. ASSUME NEW k \in 1 .. Len(s)
      PROVE  /\ s[k].do \in OtherKinds \/ (s[k].do \in RegKinds /\ s[k].reg \in Registers)
             /\ s[k].do \in RegKinds /\ s[k].reg = "control" =>
                  Hands(s[k]) \/ (/\ k + 2 <= Len(s)
                                  /\ s[k].do = "set"
                                  /\ s[k + 1].do = "set" /\ s[k + 1].reg # "control" /\ Hands(s[k + 2]))
             /\ s[k].do # "check"
  <2>1. CASE k = 1
    <3>1. s[k].do = "set" /\ s[k].reg = "control" /\ s[k + 1].do = "set" /\ s[k + 1].reg = reg /\ Hands(s[k + 2])
      BY <1>5, <1>6, <2>1 DEF Set, Hands
    <3>2. k + 2 <= Len(s) BY <1>3, <1>5, <2>1
    <3>3. QED BY <3>1, <3>2 DEF RegKinds, OtherKinds, Registers
  <2>2. CASE k = 2
    <3>1. s[k].do = "set" /\ s[k].reg = reg BY <1>6, <2>2 DEF Set
    <3>2. QED BY <3>1 DEF RegKinds, OtherKinds
  <2>3. CASE k = 3
    <3>1. s[k].do = "set" /\ s[k].reg = "control" /\ Hands(s[k]) BY <1>6, <2>3 DEF Set, Hands
    <3>2. QED BY <3>1 DEF RegKinds, OtherKinds, Registers
  <2>4. CASE \E j \in 1 .. Len(d) : k = 3 + j
    <3>1. PICK j \in 1 .. Len(d) : k = 3 + j BY <2>4
    <3>2. s[k] = d[j] BY <1>3, <3>1
    <3>3. s[k].do \in OtherKinds \/ (s[k].do \in RegKinds /\ s[k].reg \in Registers /\ s[k].reg # "control")
      BY <3>2 DEF Deeds, Deed
    <3>4. QED BY <3>3 DEF RegKinds, OtherKinds
  <2>5. QED BY <1>3, <1>5, <2>1, <2>2, <2>3, <2>4
<1>8. Good(s) BY <1>3, <1>7 DEF Good
<1>9. QED BY <1>8 DEF s, c

-----------------------------------------------------------------------------
(* The steps that are deeds. *)
LEMMA DeedSteps ==
  /\ \A reg \in Registers : \A v : reg # "control" => Deed(Set(reg, v)) /\ Deed(Try(reg, v)) /\ Deed(SetOneOf(reg, v))
  /\ Deed(Toggle("trace")) /\ Deed(Mark) /\ Deed(Restart)
  /\ \A a, b : Deed(Copy(a, b)) /\ Deed(Compare(a, b)) /\ Deed(Show(a, b)) /\ Deed(Scratch(a, b))
               /\ Deed(Erase(a, b)) /\ Deed(Media(a, b))
  /\ \A a, b, c : Deed(Store(a, b, c)) /\ Deed(Program(a, b, c))
  /\ \A a, b, c, d : Deed(Jump(a, b, c, d))
BY DEF Deed, RegKinds, OtherKinds, Registers, Set, Try, SetOneOf, Toggle, Mark, Restart, Copy, Compare, Show,
       Scratch, Erase, Media, Store, Program, Jump

(* A handler that does nothing. *)
LEMMA NoSteps == Guards(<<>>) /\ Deeds(<<>>) /\ Good(<<>>)
<1>1. IsSeq(<<>>) /\ Len(<<>>) = 0 BY Tuples
<1>2. \A k \in 1 .. 0 : FALSE BY SMT
<1>3. Guards(<<>>) BY <1>1, <1>2 DEF Guards
<1>4. Deeds(<<>>) BY <1>1, <1>2 DEF Deeds
<1>5. QED BY <1>3, <1>4, GuardsGood

(* A handler of one step. *)
LEMMA OneStep ==
  ASSUME NEW st
  PROVE  /\ Guard(st) => Guards(<<st>>)
         /\ Deed(st) => Deeds(<<st>>) /\ Good(<<st>>)
<1>1. IsSeq(<<st>>) /\ Len(<<st>>) = 1 BY Tuples
<1>2. \A k \in 1 .. 1 : k = 1 BY SMT
<1>3. Guard(st) => Guards(<<st>>) BY <1>1, <1>2 DEF Guards
<1>4. Deed(st) => Deeds(<<st>>) BY <1>1, <1>2 DEF Deeds, Deed
<1>5. QED BY <1>3, <1>4, DeedsGood

(* A deed after checks. *)
LEMMA GuardedDeed ==
  ASSUME NEW c, Guards(c), NEW st, Deed(st)
  PROVE  Good(c \o <<st>>)
BY OneStep, GoodJoin

(* A loop of deeds after checks. *)
LEMMA GuardedRun ==
  ASSUME NEW c, Guards(c), NEW n \in Nat, NEW f, f = [k \in 1 .. n |-> f[k]],
         \A k \in 1 .. n : Deed(f[k])
  PROVE  Good(c \o f)
<1>1. DOMAIN f = 1 .. n OBVIOUS
<1>2. IsSeq(f) /\ Len(f) = n BY <1>1, SeqMade
<1>3. Deeds(f) BY <1>2 DEF Deeds, Deed
<1>4. QED BY <1>3, DeedsGood, GoodJoin

(* Sequences are equal element by element. *)
LEMMA SameSeq ==
  ASSUME NEW s, IsSeq(s), NEW t, IsSeq(t), Len(s) = Len(t), \A i \in 1 .. Len(s) : s[i] = t[i]
  PROVE  s = t
<1>1. DOMAIN s = 1 .. Len(s) /\ DOMAIN t = 1 .. Len(s) BY SeqLen
<1>2. s = [i \in 1 .. Len(s) |-> s[i]] BY <1>1, LenProperties DEF IsSeq
<1>3. t = [i \in 1 .. Len(s) |-> t[i]] BY <1>1, LenProperties DEF IsSeq
<1>4. QED BY <1>2, <1>3

(* A sequence after one of a single element. *)
LEMMA AfterOne ==
  ASSUME NEW a, IsSeq(a), Len(a) = 1, NEW b, IsSeq(b)
  PROVE  /\ IsSeq(a \o b) /\ Len(a \o b) = 1 + Len(b) /\ (a \o b)[1] = a[1]
         /\ \A i \in 1 .. Len(b) : (a \o b)[1 + i] = b[i]
<1> DEFINE u == a \o b
<1>1. /\ IsSeq(u) /\ Len(u) = Len(a) + Len(b)
      /\ \A i \in 1 .. Len(a) : u[i] = a[i]
      /\ \A i \in 1 .. Len(b) : u[Len(a) + i] = b[i]
      /\ \A i \in 1 .. Len(u) : i \in 1 .. Len(a) \/ \E j \in 1 .. Len(b) : i = Len(a) + j
  BY Joined, Zenon
<1> HIDE DEF u
<1>2. 1 \in 1 .. 1 BY SMT
<1>3. IsSeq(u) /\ Len(u) = 1 + Len(b) /\ u[1] = a[1] /\ \A i \in 1 .. Len(b) : u[1 + i] = b[i]
  BY <1>1, <1>2
<1>4. QED BY <1>3 DEF u

(* A deed after a check of its own. *)
LEMMA CheckedDeed ==
  ASSUME NEW x, Guard(x), NEW z, Deed(z)
  PROVE  Good(<<x, z>>)
<1> DEFINE a == <<x>>
           b == <<z>>
           t == <<x, z>>
<1>1. Good(a \o b)
  <2>1. Guards(a) BY OneStep
  <2>2. QED BY <2>1, GuardedDeed
<1>2. /\ IsSeq(a) /\ Len(a) = 1 /\ a[1] = x /\ IsSeq(b) /\ Len(b) = 1 /\ b[1] = z
      /\ IsSeq(t) /\ Len(t) = 2 /\ t[1] = x /\ t[2] = z
  BY Tuples
<1> HIDE DEF a, b, t
<1> DEFINE s == a \o b
<1>3. IsSeq(s) /\ Len(s) = 1 + Len(b) /\ s[1] = a[1] /\ \A i \in 1 .. Len(b) : s[1 + i] = b[i]
  <2>1. IsSeq(a) /\ Len(a) = 1 /\ IsSeq(b) BY <1>2
  <2>2. QED BY <2>1, AfterOne
<1> HIDE DEF s
<1>4. 1 \in 1 .. 1 /\ 1 + 1 = 2 /\ \A i \in 1 .. 2 : i = 1 \/ i = 2 BY SMT
<1>5. Len(s) = 2 /\ s[1] = x /\ s[2] = z BY <1>2, <1>3, <1>4
<1>6. \A i \in 1 .. Len(s) : s[i] = t[i] BY <1>2, <1>4, <1>5
<1>7. s = t BY <1>2, <1>3, <1>5, <1>6, SameSeq
<1>8. QED BY <1>1, <1>7 DEF s, t

(* A deed after two checks. *)
LEMMA TwiceCheckedDeed ==
  ASSUME NEW x, Guard(x), NEW y, Guard(y), NEW z, Deed(z)
  PROVE  Good(<<x, y, z>>)
<1> DEFINE a == <<x>>
           b == <<y, z>>
           t == <<x, y, z>>
<1>1. Good(a \o b)
  <2>1. Guards(a) /\ Good(b) BY OneStep, CheckedDeed
  <2>2. QED BY <2>1, GoodJoin
<1>2. /\ IsSeq(a) /\ Len(a) = 1 /\ a[1] = x /\ IsSeq(b) /\ Len(b) = 2 /\ b[1] = y /\ b[2] = z
      /\ IsSeq(t) /\ Len(t) = 3 /\ t[1] = x /\ t[2] = y /\ t[3] = z
  BY Tuples
<1> HIDE DEF a, b, t
<1> DEFINE s == a \o b
<1>3. IsSeq(s) /\ Len(s) = 1 + Len(b) /\ s[1] = a[1] /\ \A i \in 1 .. Len(b) : s[1 + i] = b[i]
  <2>1. IsSeq(a) /\ Len(a) = 1 /\ IsSeq(b) BY <1>2
  <2>2. QED BY <2>1, AfterOne
<1> HIDE DEF s
<1>4. 1 \in 1 .. 2 /\ 2 \in 1 .. 2 /\ 1 + 1 = 2 /\ 1 + 2 = 3 /\ \A i \in 1 .. 3 : i = 1 \/ i = 2 \/ i = 3
  BY SMT
<1>5. Len(s) = 3 /\ s[1] = x /\ s[2] = y /\ s[3] = z BY <1>2, <1>3, <1>4
<1>6. \A i \in 1 .. Len(s) : s[i] = t[i] BY <1>2, <1>4, <1>5
<1>7. s = t BY <1>2, <1>3, <1>5, <1>6, SameSeq
<1>8. QED BY <1>1, <1>7 DEF s, t

(* The checks on parameters. *)
LEMMA GuardsOf ==
  ASSUME NEW p
  PROVE  /\ \A n : Guards(Need(p, n)) /\ Guards(Num(p, n)) /\ Guards(Opt(p, n))
         /\ Guards(One(p)) /\ Guards(Two(p)) /\ Guards(Three(p))
<1>1. ASSUME NEW ok PROVE Guard(Check(ok, "usage")) /\ Guard(Check(ok, "bad")) BY DEF Guard, Check
<1>2. \A m : Guards(Need(p, m)) BY <1>1, OneStep DEF Need
<1>3. \A m : Guards(Num(p, m)) BY <1>1, OneStep DEF Num
<1>4. \A m : Guards(Opt(p, m)) BY <1>3, NoSteps DEF Opt
<1>5. Guards(One(p)) BY <1>2, <1>3, GuardsJoin DEF One
<1>6. Guards(Two(p)) BY <1>2, <1>3, GuardsJoin DEF Two
<1>7. Guards(Three(p)) BY <1>2, <1>3, GuardsJoin DEF Three
<1>8. QED BY <1>2, <1>3, <1>4, <1>5, <1>6, <1>7

(* strtoul gives a number, and 0 for a word that is none. *)
LEMMA Numeric ==
  ASSUME NEW p, NEW i, NEW default \in Nat
  PROVE  Arg(p, i, default) \in Nat
<1>1. \A w : Val(w) \in Nat
  <2>1. ASSUME NEW w PROVE Val(w) \in Nat
    <3>1. 0 \in Nat OBVIOUS
    <3>2. CASE w \in Numbers BY <3>2, NumbersAssumption DEF Val, IsNum
    <3>3. CASE w \notin Numbers BY <3>1, <3>3 DEF Val, IsNum
    <3>4. QED BY <3>2, <3>3
  <2>2. QED BY <2>1
<1>2. QED BY <1>1, Zenon DEF Arg

(* A dump of a range has as many lines as it needs. *)
LEMMA DumpLines ==
  ASSUME NEW count \in Nat
  PROVE  (count + LineBytes - 1) \div LineBytes \in Nat
<1>1. LineBytes \in Nat /\ LineBytes # 0 BY SizesAssumption
<1>2. count + LineBytes - 1 \in Nat BY <1>1, SMT
<1>3. QED BY <1>1, <1>2, SMT

(* cmd_mem.c. *)
LEMMA MemGood ==
  ASSUME NEW p
  PROVE  /\ Good(mem_read(p)) /\ Good(mem_write(p)) /\ Good(mem_copy(p))
         /\ Good(mem_test(p)) /\ Good(mem_speed(p)) /\ Good(mem_cmp(p))
<1>1. /\ \A n : Guards(Need(p, n)) /\ Guards(Num(p, n)) /\ Guards(Opt(p, n))
      /\ Guards(One(p)) /\ Guards(Two(p)) /\ Guards(Three(p))
  BY GuardsOf
<1>2. 0 \in Nat /\ 1 \in Nat /\ 4 \in Nat OBVIOUS
<1>3. Good(mem_read(p))
  <2> DEFINE count == IF Len(p) = 1 THEN 4 ELSE Arg(p, 2, 0)
             a == Arg(p, 1, 0)
  <2>1. count \in Nat BY <1>2, Numeric
  <2>2. Guards(One(p) \o Opt(p, 2)) BY <1>1, GuardsJoin
  <2> HIDE DEF count, a
  <2>3. (count + LineBytes - 1) \div LineBytes \in Nat BY <2>1, DumpLines
  <2> DEFINE f == dump_bytes(a, count)
  <2>4. f = [k \in 1 .. (count + LineBytes - 1) \div LineBytes |-> f[k]] BY DEF dump_bytes
  <2>5. \A k \in 1 .. (count + LineBytes - 1) \div LineBytes : Deed(f[k]) BY DeedSteps DEF dump_bytes
  <2> HIDE DEF f
  <2>6. Good((One(p) \o Opt(p, 2)) \o f) BY <2>2, <2>3, <2>4, <2>5, GuardedRun
  <2>7. QED BY <2>6 DEF mem_read, f, count, a
<1>4. Guards(Two(p) \o Opt(p, 3)) BY <1>1, GuardsJoin
<1>5. Arg(p, 3, 1) \in Nat /\ Arg(p, 3, 0) \in Nat BY <1>2, Numeric
<1>6. Good(mem_write(p))
  <2> DEFINE size == IF Len(p) = 4 THEN Val(p[4]) ELSE 4
             n == Arg(p, 3, 1)
             f == [i \in 1 .. n |-> IF size \in {1, 2, 4}
                                  THEN Store(Arg(p, 1, 0) + size * (i - 1), size, Arg(p, 2, 0))
                                                          ELSE Check(FALSE, "bad")]
  <2>1. mem_write(p) = (Two(p) \o Opt(p, 3)) \o f BY DEF mem_write
  <2>2. n \in Nat BY <1>5
  <2> HIDE DEF n
  <2>3. CASE size \in {1, 2, 4}
    <3>1. f = [k \in 1 .. n |-> f[k]] OBVIOUS
    <3>2. \A k \in 1 .. n : f[k] = Store(Arg(p, 1, 0) + size * (k - 1), size, Arg(p, 2, 0)) BY <2>3
    <3> HIDE DEF f
    <3>3. \A k \in 1 .. n : Deed(f[k]) BY <3>2, DeedSteps
    <3>4. QED BY <1>4, <2>1, <2>2, <3>1, <3>3, GuardedRun
  <2>4. CASE size \notin {1, 2, 4}
    <3>1. f = [k \in 1 .. n |-> f[k]] /\ DOMAIN f = 1 .. n OBVIOUS
    <3>2. \A k \in 1 .. n : f[k] = Check(FALSE, "bad") BY <2>4
    <3> HIDE DEF f
    <3>3. IsSeq(f) /\ Len(f) = n BY <2>2, <3>1, SeqMade
    <3>4. Guards(f) BY <3>2, <3>3 DEF Guards, Guard, Check
    <3>5. QED BY <1>4, <2>1, <3>4, GuardsJoin, GuardsGood
  <2>5. QED BY <2>3, <2>4
<1>7. Good(mem_copy(p))
  <2> DEFINE n == Arg(p, 3, 1)
             f == [i \in 1 .. n |-> Copy(Arg(p, 1, 0) + 4 * (i - 1), Arg(p, 2, 0) + 4 * (i - 1))]
  <2>1. mem_copy(p) = (Two(p) \o Opt(p, 3)) \o f BY DEF mem_copy
  <2>2. n \in Nat BY <1>5
  <2> HIDE DEF n
  <2>3. f = [k \in 1 .. n |-> f[k]] OBVIOUS
  <2>4. \A k \in 1 .. n : Deed(f[k]) BY DeedSteps
  <2> HIDE DEF f
  <2>5. QED BY <1>4, <2>1, <2>2, <2>3, <2>4, GuardedRun
<1>8. Good(mem_cmp(p))
  <2> DEFINE n == Arg(p, 3, 0)
             f == [i \in 1 .. n |-> Compare(Arg(p, 1, 0) + 4 * (i - 1), Arg(p, 2, 0) + 4 * (i - 1))]
  <2>1. mem_cmp(p) = Three(p) \o f BY DEF mem_cmp
  <2>2. n \in Nat BY <1>5
  <2> HIDE DEF n
  <2>3. f = [k \in 1 .. n |-> f[k]] OBVIOUS
  <2>4. \A k \in 1 .. n : Deed(f[k]) BY DeedSteps
  <2> HIDE DEF f
  <2>5. QED BY <1>1, <2>1, <2>2, <2>3, <2>4, GuardedRun
<1>9. Good(mem_test(p))
  <2>1. Guards(One(p) \o Opt(p, 2)) BY <1>1, GuardsJoin
  <2>2. Deed(Scratch(Arg(p, 1, 0), Arg(p, 2, -1))) BY DeedSteps
  <2>3. QED BY <2>1, <2>2, GuardedDeed DEF mem_test
<1>10. Good(mem_speed(p))
  <2>1. Guards(Two(p) \o Opt(p, 3) \o Opt(p, 4)) BY <1>1, <1>4, GuardsJoin
  <2>2. Deed(Scratch(Arg(p, 1, 0), Arg(p, 2, 0))) BY DeedSteps
  <2>3. Good(<<>>) /\ Good(<<Scratch(Arg(p, 1, 0), Arg(p, 2, 0))>>) BY <2>2, NoSteps, OneStep
  <2>4. Good(IF Arg(p, 3, 0) = 0 THEN <<Scratch(Arg(p, 1, 0), Arg(p, 2, 0))>> ELSE <<>>)
    BY <2>3, Zenon
  <2>5. QED BY <2>1, <2>4, GoodJoin DEF mem_speed
<1>11. QED BY <1>3, <1>6, <1>7, <1>8, <1>9, <1>10

(* cmd_boot.c, cmd_bios.c, sim_debug.c and cmd_i2c.c. *)
LEMMA DeviceGood ==
  ASSUME NEW p, Len(p) \in Nat
  PROVE  /\ Good(boot(p)) /\ Good(reboot) /\ Good(crc(p)) /\ Good(leds(p)) /\ Good(uptime)
         /\ Good(trace) /\ Good(mark) /\ Good(finish)
         /\ Good(i2c_write(p)) /\ Good(i2c_read(p)) /\ Good(i2c_dev(p))
<1>1. /\ \A n : Guards(Need(p, n)) /\ Guards(Num(p, n)) /\ Guards(Opt(p, n))
      /\ Guards(One(p)) /\ Guards(Two(p)) /\ Guards(Three(p))
  BY GuardsOf
<1>2. \A ok : Guard(Check(ok, "bad")) BY DEF Guard, Check
<1>3. Good(boot(p))
  <2>1. Guards(One(p) \o Opt(p, 2) \o Opt(p, 3) \o Opt(p, 4)) BY <1>1, GuardsJoin
  <2>2. Deed(Jump(Arg(p, 2, 0), IF Len(p) > 3 THEN Arg(p, 4, 0) ELSE Arg(p, 3, 0), 0, Arg(p, 1, 0)))
    BY DeedSteps
  <2>3. QED BY <2>1, <2>2, GuardedDeed DEF boot
<1>4. Good(reboot) /\ Good(trace) /\ Good(mark) BY DeedSteps, OneStep DEF reboot, trace, mark
<1>5. Good(crc(p)) BY <1>1, GuardsGood DEF crc
<1>6. Good(leds(p))
  <2>1. Deed(Set("leds", <<Arg(p, 1, 0)>>)) BY DeedSteps DEF Registers
  <2>2. QED BY <1>1, <2>1, GuardedDeed DEF leds
<1>7. Good(uptime)
  <2>1. Deed(Set("uptime_latch", <<1>>)) BY DeedSteps DEF Registers
  <2>2. QED BY <2>1, OneStep DEF uptime
<1>8. Good(finish)
  <2>1. Deed(Set("trace", <<>>)) /\ Deed(Set("finish", <<1>>)) BY DeedSteps DEF Registers
  <2>2. IsSeq(finish) /\ Len(finish) = 2 BY Tuples DEF finish
  <2>3. \A k \in 1 .. 2 : k \in {1, 2} BY SMT
  <2>4. finish[1] = Set("trace", <<>>) /\ finish[2] = Set("finish", <<1>>) BY DEF finish
  <2>5. Deeds(finish) BY <2>1, <2>2, <2>3, <2>4 DEF Deeds, Deed
  <2>6. QED BY <2>5, DeedsGood
<1>9. Good(i2c_write(p))
  <2> DEFINE f == [i \in 1 .. Len(p) |-> Num(p, i)[1]]
             c == Need(p, 3) \o Num(p, 2) \o <<Check(Len(p) - 1 <= I2cBuf, "bad")>>
  <2>1. Guards(c) BY <1>1, <1>2, OneStep, GuardsJoin
  <2>2. Guards(f)
    <3>1. \A k \in 1 .. Len(p) : f[k] = Check(k <= Len(p) /\ IsNum(p[k]), "bad") BY DEF Num
    <3>2. DOMAIN f = 1 .. Len(p) /\ f = [k \in 1 .. Len(p) |-> f[k]] OBVIOUS
    <3> HIDE DEF f
    <3>3. IsSeq(f) /\ Len(f) = Len(p) BY <3>2, SeqMade
    <3>4. QED BY <1>2, <3>1, <3>3 DEF Guards
  <2>3. Deed(Try("i2c", p)) BY DeedSteps DEF Registers
  <2>4. i2c_write(p) = (c \o f) \o <<Try("i2c", p)>> BY DEF i2c_write
  <2> HIDE DEF c, f
  <2>5. Guards(c \o f) BY <2>1, <2>2, GuardsJoin
  <2>6. QED BY <2>3, <2>4, <2>5, GuardedDeed
<1>10. Good(i2c_read(p))
  <2> DEFINE c == Three(p) \o <<Check(Arg(p, 3, 0) <= ReadBuf, "bad")>> \o Opt(p, 4) \o Opt(p, 5)
             last == <<Check(Arg(p, 5, 1) \in 1..4, "bad"), Try("i2c_read", p)>>
  <2>1. Guards(c) BY <1>1, <1>2, OneStep, GuardsJoin
  <2>2. Deed(Try("i2c_read", p)) BY DeedSteps DEF Registers
  <2>3. Good(last) BY <1>2, <2>2, CheckedDeed
  <2>4. i2c_read(p) = c \o last BY DEF i2c_read
  <2>5. QED BY <2>1, <2>3, <2>4, GoodJoin
<1>11. Good(i2c_dev(p))
  <2> DEFINE last == <<Check(Val(p[1]) % Byte < I2cDevs, "bad"), Set("i2c_dev", <<Val(p[1]) % Byte>>)>>
  <2>1. Deed(Set("i2c_dev", <<Val(p[1]) % Byte>>)) BY DeedSteps DEF Registers
  <2>2. Good(last) BY <1>2, <2>1, CheckedDeed
  <2>3. Good(Num(p, 1) \o last) BY <1>1, <2>2, GoodJoin
  <2>4. QED BY <2>3, NoSteps, Zenon DEF i2c_dev
<1>12. QED BY <1>3, <1>4, <1>5, <1>6, <1>7, <1>8, <1>9, <1>10, <1>11

(* cmd_litesdcard.c, cmd_litesata.c, cmd_spiflash.c and MDIO. *)
LEMMA CardGood ==
  ASSUME NEW p
  PROVE  /\ Good(sdcard_init) /\ Good(sdcard_read(p)) /\ Good(sdcard_write(p)) /\ Good(sdcard_freq(p))
         /\ Good(sata_init) /\ Good(sata_read(p)) /\ Good(sata_write(p))
         /\ Good(flash_write(p)) /\ Good(flash_from_sdcard(p)) /\ Good(flash_erase_range(p))
         /\ Good(mdio_write(p)) /\ Good(mdio_read(p)) /\ Good(mdio_dump(p))
<1>1. /\ \A n : Guards(Need(p, n)) /\ Guards(Num(p, n)) /\ Guards(Opt(p, n))
      /\ Guards(One(p)) /\ Guards(Two(p)) /\ Guards(Three(p))
  BY GuardsOf
<1>2. Good(sdcard_init) /\ Good(sata_init)
  <2>1. Deed(Try("sdcard", <<"ready">>)) /\ Deed(Try("sata", <<"ready">>)) BY DeedSteps DEF Registers
  <2>2. QED BY <2>1, OneStep DEF sdcard_init, sata_init
<1>3. Good(sdcard_read(p)) /\ Good(sata_read(p)) /\ Good(mdio_read(p)) /\ Good(mdio_dump(p))
  BY <1>1, GuardsGood DEF sdcard_read, sata_read, mdio_read, mdio_dump
<1>4. ASSUME NEW disk \in {"sdcard_sector", "sata_sector"} PROVE Good(WriteSector(disk, p))
  <2>1. Deed(Set(disk, <<Arg(p, 1, 0), Word(p, 2)>>)) BY DeedSteps DEF Registers
  <2>2. Guards(Need(p, 2) \o Num(p, 1)) BY <1>1, GuardsJoin
  <2>3. QED BY <2>1, <2>2, GuardedDeed DEF WriteSector
<1>5. Good(sdcard_write(p)) /\ Good(sata_write(p)) BY <1>4 DEF sdcard_write, sata_write
<1>6. Good(sdcard_freq(p))
  <2>1. Deed(Set("sdcard_freq", <<Arg(p, 1, 0)>>)) BY DeedSteps DEF Registers
  <2>2. QED BY <1>1, <2>1, GuardedDeed DEF sdcard_freq
<1>7. Good(flash_write(p))
  <2>1. Guards(Two(p) \o Opt(p, 3)) BY <1>1, GuardsJoin
  <2>2. Deed(Program(Arg(p, 1, 0), Arg(p, 2, 0), Arg(p, 3, 1))) BY DeedSteps
  <2>3. QED BY <2>1, <2>2, GuardedDeed DEF flash_write
<1>8. Good(flash_from_sdcard(p)) /\ Good(flash_erase_range(p))
  <2>1. Deed(Media("toflash", Word(p, 1))) /\ Deed(Erase(Arg(p, 1, 0), Arg(p, 2, 0))) BY DeedSteps
  <2>2. QED BY <1>1, <2>1, GuardedDeed DEF flash_from_sdcard, flash_erase_range
<1>9. Good(mdio_write(p))
  <2>1. Deed(Set("mdio", <<Arg(p, 1, 0), Arg(p, 2, 0), Arg(p, 3, 0)>>)) BY DeedSteps DEF Registers
  <2>2. QED BY <1>1, <2>1, GuardedDeed DEF mdio_write
<1>10. QED BY <1>2, <1>3, <1>5, <1>6, <1>7, <1>8, <1>9

(* An address that overruns its array is left before the array is used. *)
LEMMA AddressGood ==
  ASSUME NEW p, NEW reg \in Registers \ {"control"}, NEW chars, NEW sizes, NEW base, NEW most, NEW count
  PROVE  Good(Need(p, 1) \o set_address(reg, chars, sizes, base, most, count))
<1> DEFINE parsed == ParseFields(chars, base, most)
           written == Len(parsed.fields) - (IF parsed.ok THEN 0 ELSE 1)
           a == <<Check(Len(chars) \in sizes, "bad")>>
           b == IF written > count THEN <<Overrun>> ELSE <<>>
           x == Check(parsed.ok, "bad")
           y == Check(Len(parsed.fields) = count, "bad")
           z == SetOneOf(reg, Readings(parsed.fields, most))
<1>1. Guard(x) /\ Guard(y) BY DEF Guard, Check
<1>2. Deed(z) BY DeedSteps
<1>3. Guards(a) BY OneStep DEF Guard, Check
<1>4. Guards(b)
  <2>1. Guards(<<Overrun>>) BY OneStep DEF Guard, Overrun
  <2>2. QED BY <2>1, NoSteps, Zenon
<1>5. set_address(reg, chars, sizes, base, most, count) = (a \o b) \o <<x, y, z>> BY DEF set_address
<1> HIDE DEF a, b, x, y, z
<1>6. Guards(a \o b) BY <1>3, <1>4, GuardsJoin
<1>7. Good(<<x, y, z>>) BY <1>1, <1>2, TwiceCheckedDeed
<1>8. Good((a \o b) \o <<x, y, z>>) BY <1>6, <1>7, GoodJoin
<1>9. Guards(Need(p, 1)) BY GuardsOf
<1>10. QED BY <1>5, <1>8, <1>9, GoodJoin

(* The three commands that set a network address. *)
LEMMA NetGood ==
  ASSUME NEW p
  PROVE  Good(set_local_ip(p)) /\ Good(set_remote_ip(p)) /\ Good(set_mac_addr(p))
<1>1. {"local_ip", "remote_ip", "mac_addr"} \subseteq Registers \ {"control"} BY DEF Registers
<1>2. QED BY <1>1, AddressGood DEF set_local_ip, set_remote_ip, set_mac_addr

(* cmd_litedram.c. *)
LEMMA DramGood ==
  ASSUME NEW p
  PROVE  /\ Good(sdram_bist(p)) /\ Good(sdram_hw_test(p)) /\ Good(sdram_force_rdphase(p))
         /\ Good(sdram_force_wrphase(p)) /\ Good(sdram_rst_cmd_delay) /\ Good(sdram_force_cmd_delay(p))
         /\ Good(sdram_init) /\ Good(sdram_test) /\ Good(sdram_cal) /\ Good(sdram_rst_dat_delay(p))
         /\ Good(sdram_force_dat_delay(p)) /\ Good(sdram_rst_bitslip(p)) /\ Good(sdram_force_bitslip(p))
         /\ Good(sdram_mr_write(p)) /\ Good(sdram_spd(p))
<1>1. /\ \A n : Guards(Need(p, n)) /\ Guards(Num(p, n)) /\ Guards(Opt(p, n))
      /\ Guards(One(p)) /\ Guards(Two(p)) /\ Guards(Three(p))
  BY GuardsOf
<1>2. ASSUME NEW reg \in {"cmd_delay", "dat_delay", "bitslip", "mode", "leveling"}, NEW v
      PROVE  Good(Controlled(reg, v))
  <2>1. reg \in Registers /\ reg # "control" BY DEF Registers
  <2>2. Good(Controlled(reg, v) \o <<>>) BY <2>1, NoSteps, ControlledGood
  <2>3. Controlled(reg, v) \o <<>> = Controlled(reg, v)
    <3>1. IsSeq(Controlled(reg, v)) BY Tuples DEF Controlled
    <3>2. QED BY <3>1, ConcatEmptySeq DEF IsSeq
  <2>4. QED BY <2>2, <2>3
<1>3. Good(sdram_rst_cmd_delay) /\ Good(sdram_cal) BY <1>2 DEF sdram_rst_cmd_delay, sdram_cal
<1>4. ASSUME NEW reg \in {"cmd_delay", "dat_delay", "bitslip", "mode"}, NEW v
      PROVE  Good(One(p) \o Controlled(reg, v)) /\ Good(Two(p) \o Controlled(reg, v))
  <2>1. Good(Controlled(reg, v)) BY <1>2
  <2>2. QED BY <1>1, <2>1, GoodJoin
<1>5. /\ Good(sdram_force_cmd_delay(p)) /\ Good(sdram_rst_dat_delay(p)) /\ Good(sdram_force_dat_delay(p))
      /\ Good(sdram_rst_bitslip(p)) /\ Good(sdram_force_bitslip(p)) /\ Good(sdram_mr_write(p))
  BY <1>4 DEF sdram_force_cmd_delay, sdram_rst_dat_delay, sdram_force_dat_delay, sdram_rst_bitslip,
              sdram_force_bitslip, sdram_mr_write
<1>6. \A a, n : Deed(Scratch(a, n)) BY DeedSteps
<1>7. Good(sdram_init)
  <2>1. "leveling" \in Registers /\ "leveling" # "control" BY DEF Registers
  <2>2. Deeds(<<Scratch(MainRam, RamSize)>>) BY <1>6, OneStep
  <2>3. QED BY <2>1, <2>2, ControlledGood DEF sdram_init
<1>8. Good(sdram_test) BY <1>6, OneStep DEF sdram_test
<1>9. Good(sdram_bist(p)) BY <1>1, <1>6, GuardedDeed DEF sdram_bist
<1>10. Good(sdram_hw_test(p))
  <2>1. Guards(Two(p) \o Opt(p, 3)) BY <1>1, GuardsJoin
  <2>2. QED BY <1>6, <2>1, GuardedDeed DEF sdram_hw_test
<1>11. Good(sdram_force_rdphase(p)) /\ Good(sdram_force_wrphase(p))
  <2>1. Deed(Set("rdphase", <<Arg(p, 1, 0)>>)) /\ Deed(Set("wrphase", <<Arg(p, 1, 0)>>))
    BY DeedSteps DEF Registers
  <2>2. QED BY <1>1, <2>1, GuardedDeed DEF sdram_force_rdphase, sdram_force_wrphase
<1>12. Good(sdram_spd(p))
  <2>1. Guard(Check(Arg(p, 1, 0) % Byte <= 7, "bad")) BY DEF Guard, Check
  <2>2. Deed(Try("i2c_read", p)) BY DeedSteps DEF Registers
  <2>3. Good(<<Check(Arg(p, 1, 0) % Byte <= 7, "bad"), Try("i2c_read", p)>>) BY <2>1, <2>2, CheckedDeed
  <2>4. QED BY <1>1, <2>3, GoodJoin DEF sdram_spd
<1>13. QED BY <1>3, <1>5, <1>7, <1>8, <1>9, <1>10, <1>11, <1>12

-----------------------------------------------------------------------------
(* Every handler of the table is good. *)
LEMMA TableGood ==
  ASSUME NEW p, Len(p) \in Nat, NEW name \in DOMAIN Table(p)
  PROVE  Good(Table(p)[name])
<1>1. /\ Good(mem_read(p)) /\ Good(mem_write(p)) /\ Good(mem_copy(p))
      /\ Good(mem_test(p)) /\ Good(mem_speed(p)) /\ Good(mem_cmp(p))
  BY MemGood
<1>2. /\ Good(boot(p)) /\ Good(reboot) /\ Good(crc(p)) /\ Good(leds(p)) /\ Good(uptime)
      /\ Good(trace) /\ Good(mark) /\ Good(finish)
      /\ Good(i2c_write(p)) /\ Good(i2c_read(p)) /\ Good(i2c_dev(p))
  BY DeviceGood
<1>3. /\ Good(sdcard_init) /\ Good(sdcard_read(p)) /\ Good(sdcard_write(p)) /\ Good(sdcard_freq(p))
      /\ Good(sata_init) /\ Good(sata_read(p)) /\ Good(sata_write(p))
      /\ Good(flash_write(p)) /\ Good(flash_from_sdcard(p)) /\ Good(flash_erase_range(p))
      /\ Good(mdio_write(p)) /\ Good(mdio_read(p)) /\ Good(mdio_dump(p))
  BY CardGood
<1>4. Good(set_local_ip(p)) /\ Good(set_remote_ip(p)) /\ Good(set_mac_addr(p)) BY NetGood
<1>5. /\ Good(sdram_bist(p)) /\ Good(sdram_hw_test(p)) /\ Good(sdram_force_rdphase(p))
      /\ Good(sdram_force_wrphase(p)) /\ Good(sdram_rst_cmd_delay) /\ Good(sdram_force_cmd_delay(p))
      /\ Good(sdram_init) /\ Good(sdram_test) /\ Good(sdram_cal) /\ Good(sdram_rst_dat_delay(p))
      /\ Good(sdram_force_dat_delay(p)) /\ Good(sdram_rst_bitslip(p)) /\ Good(sdram_force_bitslip(p))
      /\ Good(sdram_mr_write(p)) /\ Good(sdram_spd(p))
  BY DramGood
<1>6. QED BY <1>1, <1>2, <1>3, <1>4, <1>5, SMTT(30) DEF Table

(* Every handler that the console may find is good. *)
LEMMA HandlerGood ==
  ASSUME NEW p, Len(p) \in Nat, NEW name \in CommandNames
  PROVE  Good(Handler(name, p))
<1>1. CASE name \in Prints BY <1>1, NoSteps DEF Handler
<1>2. CASE name \notin Prints /\ name \in Booters
  <2>1. Good(<<Media(name, Word(p, 1))>>) BY DeedSteps, OneStep
  <2>2. QED BY <1>2, <2>1 DEF Handler
<1>3. CASE name \notin Prints /\ name \notin Booters
  <2>1. DOMAIN Table(<<>>) = DOMAIN Table(p) BY DEF Table
  <2>2. name \in DOMAIN Table(p) BY <1>3, <2>1 DEF CommandNames
  <2>3. Good(Table(p)[name]) BY <2>2, TableGood
  <2>4. QED BY <1>3, <2>3 DEF Handler
<1>4. QED BY <1>1, <1>2, <1>3

(* get_param counts the words of the line. *)
LEMMA ParamsLen ==
  ASSUME NEW line, IsSequence(line), Len(line) > 0
  PROVE  Len(get_param(line).params) \in Nat
<1>1. Len(line) \in Nat /\ DOMAIN line = 1 .. Len(line) BY DEF IsSequence
<1> DEFINE places == WordPlaces(line)
           n == Cardinality(places)
           words == WordsOf(line)
<1>2. IsFiniteSet(places) /\ n \in Nat
  <2>1. IsFiniteSet(1 .. Len(line)) BY <1>1, FS_Interval, 1 \in Int
  <2>2. places \subseteq 1 .. Len(line) BY <1>1 DEF WordPlaces
  <2>3. QED BY <2>1, <2>2, FS_Subset, FS_CardinalityType
<1>3. DOMAIN words = 1 .. n /\ words = [k \in 1 .. n |-> words[k]] BY DEF WordsOf
<1> HIDE DEF words
<1>4. IsSeq(words) /\ Len(words) = n BY <1>2, <1>3, SeqMade
<1>5. CASE line[1] = Space BY <1>2, <1>4, <1>5 DEF get_param, words
<1>6. CASE line[1] # Space
  <2>1. 1 \in places BY <1>1, <1>6, SMT DEF WordPlaces
  <2>2. n # 0 BY <1>2, <2>1, FS_EmptySet
  <2>3. words # <<>>
    <3>1. Len(<<>>) = 0 BY SMT
    <3>2. QED BY <1>4, <2>2, <3>1
  <2>4. Len(Tail(words)) \in Nat
    <3>1. Tail(words) \in Seq({words[k] : k \in DOMAIN words}) BY <1>4, <2>3, HeadTailProperties DEF IsSeq
    <3>2. QED BY <3>1, LenProperties
  <2>5. QED BY <1>6, <2>4 DEF get_param, words
<1>7. QED BY <1>5, <1>6

-----------------------------------------------------------------------------
(* The inductive invariant, in four parts. *)
ShapeInv ==
  /\ phase \in {"prompt", "command", "booted", "overrun"}
  /\ reply \in {"none", "done", "usage", "bad", "error", "not found"}
  /\ DOMAIN mem = Addr /\ DOMAIN flash = 0 .. FlashTop
  /\ DOMAIN dev = DOMAIN PowerOn /\ dev.n_markers \in 0 .. (MaxMarkers - 1)
  /\ same \in BOOLEAN /\ (phase = "booted" <=> jump # None) /\ ncommands \in Nat

(* The memory controller is handed back by the next step, or the one after. *)
Restoring(s) ==
  \/ Len(s) >= 1 /\ Hands(s[1])
  \/ Len(s) >= 2 /\ s[1].do = "set" /\ s[1].reg # "control" /\ s[1].reg \in Registers /\ Hands(s[2])

ControlInv ==
  /\ phase = "command" => Good(prog)
  /\ dev.control = <<"hardware">> \/ (phase = "command" /\ job = Idle /\ Restoring(prog))

(* A handler that may still refuse has changed nothing so far. *)
Checks(s) == \E k \in 1 .. Len(s) : s[k].do = "check"

CheckedInv ==
  /\ phase = "command" /\ Checks(prog) => job = Idle /\ Snapshot = before
  /\ phase = "command" => reply = "none" \/ (prog = <<>> /\ job = Idle)
  /\ phase \in {"prompt", "command"} /\ reply \in {"usage", "bad", "not found"} => Snapshot = before

(* The job of a boot. *)
Fields == {"step", "from", "files", "use", "file", "at", "got", "tokens", "i", "r", "addr", "addrFound",
           "imageFound", "named"}
Volumes == {"sdcard", "sata", "toflash"}
JobShape(j) ==
  /\ DOMAIN j = Fields /\ j = [f \in Fields |-> j[f]]
  /\ j.step \in {"mount", "open", "read", "tokens", "flash"}
  /\ j.use \in {"json", "image", "bin", "toflash", "flash"}
  /\ IsSeq(j.tokens) /\ j.i \in 1 .. (Len(j.tokens) + 1) /\ j.got \in Nat
  /\ j.use = "json" => j.files \in Contents /\ (j.step = "tokens" \/ j.i = 1)
  /\ j.use = "image" /\ j.step # "tokens" => j.i <= Len(j.tokens)
  /\ j.step \in {"mount", "open"} => j.from \in Volumes

(* What VolumeInUse says of a job, and of none. *)
Uses(j, m, o) ==
  /\ m \in BOOLEAN /\ o \in BOOLEAN
  /\ m <=> j.step \in {"open", "read"} /\ j.from \in Volumes
  /\ o <=> j.step = "read" /\ j.from \in Volumes

JobInv == /\ job # Idle => phase = "command" /\ JobShape(job)
          /\ Uses(job, mounted, opened)

BiosInv == ShapeInv /\ ControlInv /\ CheckedInv /\ JobInv

-----------------------------------------------------------------------------
(* A job changes a field at a time. *)
LEMMA JobSteps ==
  ASSUME NEW j, JobShape(j)
  PROVE  /\ \A s \in {"mount", "open", "read"} :
              (s = "read" \/ j.from \in Volumes) /\ j.step \in {"mount", "open"} =>
                LET k == [j EXCEPT !.step = s]
                IN  JobShape(k) /\ k.step = s /\ k.from = j.from
         /\ LET k == [j EXCEPT !.got = j.got + 1]
            IN  JobShape(k) /\ k.step = j.step /\ k.from = j.from
<1>1. ASSUME NEW s \in {"mount", "open", "read"}, s = "read" \/ j.from \in Volumes, j.step \in {"mount", "open"}
      PROVE  LET k == [j EXCEPT !.step = s]
             IN  JobShape(k) /\ k.step = s /\ k.from = j.from
  <2> DEFINE k == [j EXCEPT !.step = s]
  <2>1. /\ DOMAIN k = Fields /\ k = [f \in Fields |-> k[f]] /\ k.step = s
        /\ \A f \in Fields \ {"step"} : k[f] = j[f]
    BY DEF JobShape, Fields
  <2>2. /\ k.use = j.use /\ k.tokens = j.tokens /\ k.i = j.i /\ k.got = j.got /\ k.files = j.files
        /\ k.from = j.from
    BY <2>1 DEF Fields
  <2> HIDE DEF k
  <2>3. JobShape(k) BY <1>1, <2>1, <2>2 DEF JobShape
  <2>4. QED BY <2>1, <2>2, <2>3 DEF k
<1>2. LET k == [j EXCEPT !.got = j.got + 1]
      IN  JobShape(k) /\ k.step = j.step /\ k.from = j.from
  <2> DEFINE k == [j EXCEPT !.got = j.got + 1]
  <2>1. /\ DOMAIN k = Fields /\ k = [f \in Fields |-> k[f]] /\ k.got = j.got + 1
        /\ \A f \in Fields \ {"got"} : k[f] = j[f]
    BY DEF JobShape, Fields
  <2>2. /\ k.use = j.use /\ k.tokens = j.tokens /\ k.i = j.i /\ k.step = j.step /\ k.files = j.files
        /\ k.from = j.from
    BY <2>1 DEF Fields
  <2> HIDE DEF k
  <2>3. k.got \in Nat BY <2>1, SMT DEF JobShape
  <2>4. JobShape(k) BY <2>1, <2>2, <2>3 DEF JobShape
  <2>5. QED BY <2>2, <2>4 DEF k
<1>3. QED BY <1>1, <1>2

(* After a failure. *)
LEMMA FailsTo ==
  ASSUME JobShape(job), Fails
  PROVE  \/ job' = Idle
         \/ JobShape(job') /\ job'.step = ReadStep /\ job'.from = job.from
<1>1. CASE job.use \in {"json", "image"} /\ ~job.named
  <2> DEFINE k == [job EXCEPT !.step = ReadStep, !.use = "bin", !.file = "boot.bin", !.at = MainRamBase, !.got = 0]
  <2>1. job' = k BY <1>1 DEF Fails
  <2>2. ReadStep \in {"mount", "read"} /\ (ReadStep = "mount" => job.from \in Volumes)
    BY DEF ReadStep, OnVolume, Volumes
  <2>3. JobShape(k) /\ k.step = ReadStep /\ k.from = job.from
    BY <2>2 DEF JobShape, Fields
  <2> HIDE DEF k
  <2>4. QED BY <2>1, <2>3
<1>2. CASE ~(job.use \in {"json", "image"} /\ ~job.named) BY <1>2 DEF Fails
<1>3. QED BY <1>1, <1>2

(* No job uses no volume. *)
LEMMA IdleUses == Uses(Idle, FALSE, FALSE) /\ ~JobShape(Idle)
BY DEF Uses, Idle, JobShape, Volumes

(* What the step of a job tells of the volume. *)
LEMMA UsesCases ==
  ASSUME NEW j, NEW m, NEW o, Uses(j, m, o)
  PROVE  /\ j.from \notin Volumes => m = FALSE /\ o = FALSE
         /\ j.step \notin {"open", "read"} => m = FALSE /\ o = FALSE
         /\ j.step = "open" => o = FALSE
         /\ \A n : n.step = j.step /\ n.from = j.from => Uses(n, m, o)
<1>1. ASSUME NEW n, n.step = j.step, n.from = j.from PROVE Uses(n, m, o) BY <1>1 DEF Uses
<1>2. j.from \notin Volumes => m = FALSE /\ o = FALSE BY Zenon DEF Uses
<1>3. j.step \notin {"open", "read"} => m = FALSE /\ o = FALSE
  <2>1. j.step \notin {"open", "read"} => j.step # "read" OBVIOUS
  <2>2. QED BY <2>1, Zenon DEF Uses
<1>4. j.step = "open" => o = FALSE
  <2>1. j.step = "open" => j.step # "read" OBVIOUS
  <2>2. QED BY <2>1, Zenon DEF Uses
<1>5. QED BY <1>1, <1>2, <1>3, <1>4

(* The volume after a step that leaves the job idle, mounted, opened, or    *)
(* off the volume.                                                          *)
LEMMA UsesMade ==
  ASSUME NEW j
  PROVE  /\ j.step \notin {"open", "read"} \/ j.from \notin Volumes => Uses(j, FALSE, FALSE)
         /\ j.step = "open" /\ j.from \in Volumes => Uses(j, TRUE, FALSE)
         /\ j.step = "read" /\ j.from \in Volumes => Uses(j, TRUE, TRUE)
<1>1. ASSUME j.step \notin {"open", "read"} \/ j.from \notin Volumes PROVE Uses(j, FALSE, FALSE)
  BY <1>1 DEF Uses
<1>2. ASSUME j.step = "open", j.from \in Volumes PROVE Uses(j, TRUE, FALSE) BY <1>2 DEF Uses
<1>3. ASSUME j.step = "read", j.from \in Volumes PROVE Uses(j, TRUE, TRUE) BY <1>3 DEF Uses
<1>4. QED BY <1>1, <1>2, <1>3

(* After a step of a job. *)
After == (job' = Idle \/ JobShape(job')) /\ Uses(job', mounted', opened')

(* A failure with the volume handed back. *)
LEMMA FailsBack ==
  ASSUME JobShape(job), Fails, mounted' = FALSE, opened' = FALSE
  PROVE  After
<1>1. CASE job' = Idle BY <1>1, IdleUses DEF After
<1>2. CASE job' # Idle
  <2>1. JobShape(job') /\ job'.step = ReadStep /\ job'.from = job.from BY <1>2, FailsTo
  <2>2. ReadStep \notin {"open", "read"} \/ job.from \notin Volumes BY DEF ReadStep, OnVolume, Volumes
  <2>3. Uses(job', FALSE, FALSE) BY <2>1, <2>2, UsesMade
  <2>4. QED BY <2>1, <2>3 DEF After
<1>3. QED BY <1>1, <1>2

(* Close. *)
LEMMA Closes ==
  ASSUME Uses(job, mounted, opened), Close
  PROVE  mounted' = FALSE /\ opened' = FALSE
<1>1. CASE job.from \in Volumes
  <2>1. OnVolume BY <1>1 DEF OnVolume, Volumes
  <2>2. QED BY <2>1, Zenon DEF Close
<1>2. CASE job.from \notin Volumes
  <2>1. ~OnVolume BY <1>2 DEF OnVolume, Volumes
  <2>2. mounted = FALSE /\ opened = FALSE BY <1>2, UsesCases
  <2>3. mounted' = mounted /\ opened' = opened BY <2>1 DEF Close
  <2>4. QED BY <2>2, <2>3
<1>3. QED BY <1>1, <1>2

(* Mounting the volume, or failing to. *)
LEMMA MountJob ==
  ASSUME JobShape(job), Uses(job, mounted, opened), Mount
  PROVE  After
<1>1. job.step = "mount" /\ job.from \in Volumes BY DEF Mount, JobShape
<1>2. mounted = FALSE /\ opened = FALSE BY <1>1, UsesCases
<1>3. opened' = FALSE BY <1>2 DEF Mount
<1>4. CASE mounted' = TRUE /\ GoOn("open")
  <2>1. job' = [job EXCEPT !.step = "open"] BY <1>4 DEF GoOn
  <2>2. JobShape(job') /\ job'.step = "open" /\ job'.from = job.from BY <1>1, <2>1, JobSteps
  <2>3. Uses(job', TRUE, FALSE) BY <1>1, <2>2, UsesMade
  <2>4. QED BY <1>3, <1>4, <2>2, <2>3, Zenon DEF After
<1>5. CASE UNCHANGED mounted /\ Fails BY <1>2, <1>3, <1>5, FailsBack
<1>6. QED BY <1>4, <1>5, Zenon DEF Mount

(* Opening a file of it, or failing to. *)
LEMMA OpenJob ==
  ASSUME JobShape(job), Uses(job, mounted, opened), Open
  PROVE  After
<1>1. job.step = "open" /\ job.from \in Volumes BY DEF Open, JobShape
<1>2. mounted = TRUE /\ opened = FALSE BY <1>1, Zenon, UsesCases DEF Uses
<1>3. CASE Exists /\ opened' = TRUE /\ GoOn("read") /\ UNCHANGED mounted
  <2>1. job' = [job EXCEPT !.step = "read"] BY <1>3 DEF GoOn
  <2>2. JobShape(job') /\ job'.step = "read" /\ job'.from = job.from BY <1>1, <2>1, JobSteps
  <2>3. Uses(job', TRUE, TRUE) BY <1>1, <2>2, UsesMade
  <2>4. QED BY <1>2, <1>3, <2>2, <2>3, Zenon DEF After
<1>4. CASE mounted' = FALSE /\ Fails /\ UNCHANGED opened BY <1>2, <1>4, FailsBack
<1>5. QED BY <1>3, <1>4, Zenon DEF Open

(* A part of a file, or none. *)
LEMMA ReadJob ==
  ASSUME JobShape(job), Uses(job, mounted, opened), ReadChunk \/ ReadFails \/ FlashChunk
  PROVE  After
<1>1. CASE ReadChunk \/ FlashChunk
  <2>1. job' = [job EXCEPT !.got = job.got + 1] /\ mounted' = mounted /\ opened' = opened
    BY <1>1 DEF ReadChunk, FlashChunk
  <2>2. JobShape(job') /\ job'.step = job.step /\ job'.from = job.from BY <2>1, JobSteps
  <2>3. Uses(job', mounted, opened) BY <2>2, UsesCases
  <2>4. QED BY <2>1, <2>2, <2>3 DEF After
<1>2. CASE ReadFails
  <2>1. Close /\ Fails BY <1>2 DEF ReadFails
  <2>2. QED BY <2>1, Closes, FailsBack
<1>3. QED BY <1>1, <1>2

(* The end of a file, of the tokens, of the image in the flash. *)
LEMMA EndJob ==
  ASSUME JobShape(job), Uses(job, mounted, opened), ReadEnds \/ TokensEnd \/ FlashEnds
  PROVE  After
<1>1. CASE ReadEnds
  <2>1. Close /\ job.step = "read" BY <1>1 DEF ReadEnds
  <2>2. mounted' = FALSE /\ opened' = FALSE BY <2>1, Closes
  <2>3. CASE job' = Idle BY <2>2, <2>3, IdleUses DEF After
  <2>4. CASE job' # Idle
    <3> DEFINE k == [job EXCEPT !.step = "tokens", !.i = job.i + 1, !.imageFound = TRUE,
                                !.addr = IF job.addrFound THEN @ ELSE job.at]
    <3>1. job.use = "image" /\ job' = k BY <1>1, <2>4 DEF ReadEnds, boot_helper
    <3>2. /\ DOMAIN k = Fields /\ k = [f \in Fields |-> k[f]] /\ k.step = "tokens" /\ k.i = job.i + 1
          /\ \A f \in Fields \ {"step", "i", "imageFound", "addr"} : k[f] = job[f]
      BY DEF JobShape, Fields
    <3>3. k.use = job.use /\ k.tokens = job.tokens /\ k.got = job.got /\ k.files = job.files
      BY <3>2 DEF Fields
    <3> HIDE DEF k
    <3>4. job.i + 1 \in 1 .. (Len(job.tokens) + 1)
      <4>1. Len(job.tokens) \in Nat BY SeqLen DEF JobShape
      <4>2. job.i <= Len(job.tokens) /\ job.i \in 1 .. (Len(job.tokens) + 1) BY <2>1, <3>1 DEF JobShape
      <4>3. QED BY <4>1, <4>2, SMT
    <3>5. JobShape(k) BY <3>1, <3>2, <3>3, <3>4 DEF JobShape
    <3>6. Uses(k, FALSE, FALSE) BY <3>2, UsesMade
    <3>7. QED BY <2>2, <3>1, <3>5, <3>6 DEF After
  <2>5. QED BY <2>3, <2>4
<1>2. CASE TokensEnd \/ FlashEnds
  <2>1. job.step \in {"tokens", "flash"} /\ mounted' = mounted /\ opened' = opened
    BY <1>2 DEF TokensEnd, FlashEnds
  <2>2. mounted' = FALSE /\ opened' = FALSE BY <2>1, UsesCases
  <2>3. job' = Idle \/ Fails BY <1>2 DEF TokensEnd, FlashEnds, boot_helper
  <2>4. CASE job' = Idle BY <2>2, <2>4, IdleUses DEF After
  <2>5. CASE Fails BY <2>2, <2>5, FailsBack
  <2>6. QED BY <2>3, <2>4, <2>5
<1>3. QED BY <1>1, <1>2

(* The tokens that a text and what is behind it give. *)
LEMMA JsonJob ==
  ASSUME JobShape(job), Uses(job, mounted, opened), ReadJson
  PROVE  After
<1>1. Close /\ job.step = "read" /\ job.use = "json" BY DEF ReadJson
<1>2. mounted' = FALSE /\ opened' = FALSE BY <1>1, Closes
<1>3. CASE Fails BY <1>2, <1>3, FailsBack
<1>4. CASE ~Fails
  <2>1. PICK text \in {File.tokens} \cup (IF OnVolume THEN {<<>>} ELSE {}), rest \in Residues :
          Exists /\ job' = [job EXCEPT !.step = "tokens", !.tokens = text \o rest]
    BY <1>4 DEF ReadJson
  <2>2. IsSequence(rest) /\ IsSequence(File.tokens) BY <1>1, <2>1, InputsAssumption DEF Exists, File, JobShape, AreTokens
  <2>3. IsSeq(rest) /\ IsSeq(text)
    <3>1. ASSUME NEW s, IsSequence(s) PROVE IsSeq(s)
      <4>1. DOMAIN s = 1 .. Len(s) /\ Len(s) \in Nat BY <3>1 DEF IsSequence
      <4>2. QED BY <3>1, <4>1, SeqMade DEF IsSequence
    <3>2. IsSeq(<<>>) BY Tuples
    <3>3. text = File.tokens \/ text = <<>> BY <2>1
    <3>4. QED BY <2>2, <3>1, <3>2, <3>3
  <2> DEFINE tokens == text \o rest
             k == [job EXCEPT !.step = "tokens", !.tokens = tokens]
  <2>4. IsSeq(tokens) BY <2>3, Joined
  <2> HIDE DEF tokens
  <2>5. /\ DOMAIN k = Fields /\ k = [f \in Fields |-> k[f]] /\ k.step = "tokens" /\ k.tokens = tokens
        /\ \A f \in Fields \ {"step", "tokens"} : k[f] = job[f]
    BY DEF JobShape, Fields
  <2>6. k.use = job.use /\ k.i = job.i /\ k.got = job.got /\ k.files = job.files
    BY <2>5 DEF Fields
  <2>7. job' = k BY <2>1 DEF tokens
  <2> HIDE DEF k
  <2>8. 1 \in 1 .. (Len(tokens) + 1)
    <3>1. Len(tokens) \in Nat BY <2>4, SeqLen
    <3>2. QED BY <3>1, SMT
  <2>9. job.i = 1 BY <1>1 DEF JobShape
  <2>10. JobShape(k) BY <1>1, <2>4, <2>5, <2>6, <2>8, <2>9 DEF JobShape
  <2>11. Uses(k, FALSE, FALSE) BY <2>5, UsesMade
  <2>12. QED BY <1>2, <2>7, <2>10, <2>11 DEF After
<1>5. QED BY <1>3, <1>4

(* The loop over the tokens stays among them. *)
LEMMA TokenJob ==
  ASSUME JobShape(job), Uses(job, mounted, opened), Token
  PROVE  After
<1>1. job.step = "tokens" /\ job.i < Len(job.tokens) /\ mounted' = mounted /\ opened' = opened
  BY DEF Token, InTokens
<1>2. mounted' = FALSE /\ opened' = FALSE BY <1>1, UsesCases
<1>3. Len(job.tokens) \in Nat /\ job.i \in 1 .. (Len(job.tokens) + 1) BY SeqLen DEF JobShape
<1>4. job.i + 1 \in 1 .. (Len(job.tokens) + 1) /\ job.i <= Len(job.tokens) BY <1>1, <1>3, SMT
<1>5. ASSUME NEW told, NextToken(told),
             DOMAIN told = Fields, told = [f \in Fields |-> told[f]],
             \A f \in Fields \ {"addr", "addrFound", "r"} : told[f] = job[f]
      PROVE  After
  <2> DEFINE k == [told EXCEPT !.i = job.i + 1]
  <2>1. job' = k BY <1>5 DEF NextToken
  <2>2. /\ told.step = job.step /\ told.use = job.use /\ told.tokens = job.tokens
        /\ told.got = job.got /\ told.files = job.files
    BY <1>5 DEF Fields
  <2>3. /\ DOMAIN k = Fields /\ k = [f \in Fields |-> k[f]] /\ k.i = job.i + 1
        /\ \A f \in Fields \ {"i"} : k[f] = told[f]
    BY <1>5 DEF Fields
  <2>4. k.step = "tokens" /\ k.use = job.use /\ k.tokens = job.tokens /\ k.got = job.got /\ k.files = job.files
    BY <1>1, <2>2, <2>3 DEF Fields
  <2> HIDE DEF k
  <2>5. JobShape(k) BY <1>4, <2>3, <2>4 DEF JobShape
  <2>6. Uses(k, FALSE, FALSE) BY <2>4, UsesMade
  <2>7. QED BY <1>2, <2>1, <2>5, <2>6 DEF After
<1>6. CASE SkipToken
  <2>1. NextToken(job) BY <1>6 DEF SkipToken
  <2>2. QED BY <1>5, <2>1 DEF JobShape
<1>7. CASE BootAddr
  <2> DEFINE told == [job EXCEPT !.addr = Value, !.addrFound = TRUE]
  <2>1. NextToken(told) BY <1>7 DEF BootAddr
  <2>2. /\ DOMAIN told = Fields /\ told = [f \in Fields |-> told[f]]
        /\ \A f \in Fields \ {"addr", "addrFound", "r"} : told[f] = job[f]
    BY DEF JobShape, Fields
  <2> HIDE DEF told
  <2>3. QED BY <1>5, <2>1, <2>2
<1>8. CASE BootRegister
  <2> DEFINE told == [job EXCEPT !.r[Key] = Value]
  <2>1. NextToken(told) BY <1>8 DEF BootRegister
  <2>2. /\ DOMAIN told = Fields /\ told = [f \in Fields |-> told[f]]
        /\ \A f \in Fields \ {"addr", "addrFound", "r"} : told[f] = job[f]
    BY DEF JobShape, Fields
  <2> HIDE DEF told
  <2>3. QED BY <1>5, <2>1, <2>2
<1>9. CASE BootImage
  <2> DEFINE k == [job EXCEPT !.step = ReadStep, !.use = "image", !.file = Key, !.at = Value, !.got = 0]
  <2>1. job' = k BY <1>9 DEF BootImage
  <2>2. /\ ReadStep \in {"mount", "read"} /\ (ReadStep = "mount" => job.from \in Volumes)
        /\ (ReadStep = "read" => job.from \notin Volumes)
    BY DEF ReadStep, OnVolume, Volumes
  <2>3. /\ DOMAIN k = Fields /\ k = [f \in Fields |-> k[f]]
        /\ k.step = ReadStep /\ k.use = "image" /\ k.got = 0
        /\ \A f \in Fields \ {"step", "use", "file", "at", "got"} : k[f] = job[f]
    BY DEF JobShape, Fields
  <2>4. k.tokens = job.tokens /\ k.i = job.i /\ k.from = job.from BY <2>3 DEF Fields
  <2> HIDE DEF k
  <2>5. JobShape(k) BY <1>4, <2>2, <2>3, <2>4 DEF JobShape
  <2>6. Uses(k, FALSE, FALSE) BY <2>2, <2>3, <2>4, UsesMade
  <2>7. QED BY <1>2, <2>1, <2>5, <2>6 DEF After
<1>10. QED BY <1>6, <1>7, <1>8, <1>9 DEF Token

(* A step of a job. *)
LEMMA MediaJob ==
  ASSUME JobInv, MediaStep
  PROVE  job # Idle /\ JobShape(job) /\ After
<1>1. job # Idle
  <2>1. Idle.from = "none" /\ Idle.step = "idle" BY DEF Idle
  <2>2. job.from \in {"sdcard", "sata", "net", "toflash"} \/ job.step = "flash"
    BY DEF MediaStep, copy_file_from_sdcard_to_ram, sdcardboot_from_json, sdcardboot_from_bin,
           copy_file_from_sata_to_ram, sataboot_from_json, sataboot_from_bin,
           copy_file_from_tftp_to_ram, netboot_from_json, netboot_from_bin,
           copy_file_to_flash, copy_image_from_flash_to_ram, Copying, FromJson, FlashChunk, FlashEnds
  <2>3. QED BY <2>1, <2>2
<1>2. JobShape(job) /\ Uses(job, mounted, opened) BY <1>1 DEF JobInv
<1>3. Mount \/ Open \/ ReadChunk \/ ReadFails \/ FlashChunk \/ ReadEnds \/ TokensEnd \/ FlashEnds \/ ReadJson \/ Token
  BY DEF MediaStep, copy_file_from_sdcard_to_ram, sdcardboot_from_json, sdcardboot_from_bin,
         copy_file_from_sata_to_ram, sataboot_from_json, sataboot_from_bin,
         copy_file_from_tftp_to_ram, netboot_from_json, netboot_from_bin,
         copy_file_to_flash, copy_image_from_flash_to_ram, Copying, FromJson
<1>4. QED BY <1>1, <1>2, <1>3, MountJob, OpenJob, ReadJob, EndJob, JsonJob, TokenJob

(* A job keeps the shape of memory and flash, and ends with its jump. *)
LEMMA MediaFrame ==
  ASSUME MediaStep
  PROVE  /\ DOMAIN mem' = DOMAIN mem /\ DOMAIN flash' = DOMAIN flash
         /\ jump' = jump \/ (jump' # None /\ job' = Idle)
<1>1. ASSUME NEW r1, NEW r2, NEW r3, NEW a, boot_helper(r1, r2, r3, a)
      PROVE  jump' # None /\ job' = Idle
  <2> DEFINE call == [kind |-> "boot", r1 |-> r1, r2 |-> r2, r3 |-> r3, a |-> a, job |-> job]
  <2>1. jump' = call /\ job' = Idle BY <1>1 DEF boot_helper
  <2>2. call.kind = "boot" /\ None.kind = "none" BY DEF None
  <2>3. call # None BY <2>2
  <2>4. QED BY <2>1, <2>3
<1>2. Mount \/ Open \/ ReadChunk \/ ReadFails \/ FlashChunk \/ ReadEnds \/ TokensEnd \/ FlashEnds \/ ReadJson \/ Token
  BY DEF MediaStep, copy_file_from_sdcard_to_ram, sdcardboot_from_json, sdcardboot_from_bin,
         copy_file_from_sata_to_ram, sataboot_from_json, sataboot_from_bin,
         copy_file_from_tftp_to_ram, netboot_from_json, netboot_from_bin,
         copy_file_to_flash, copy_image_from_flash_to_ram, Copying, FromJson
<1>3. CASE Mount BY <1>3 DEF Mount
<1>4. CASE Open BY <1>4 DEF Open
<1>5. CASE ReadChunk BY <1>5 DEF ReadChunk
<1>6. CASE ReadFails BY <1>6 DEF ReadFails
<1>7. CASE FlashChunk BY <1>7 DEF FlashChunk
<1>8. CASE ReadEnds
  <2>1. mem' = mem /\ flash' = flash BY <1>8 DEF ReadEnds
  <2>2. UNCHANGED jump \/ boot_helper(0, 0, 0, MainRamBase) BY <1>8 DEF ReadEnds
  <2>3. QED BY <1>1, <2>1, <2>2
<1>9. CASE TokensEnd
  <2>1. mem' = mem /\ flash' = flash BY <1>9 DEF TokensEnd
  <2>2. UNCHANGED jump \/ boot_helper(job.r["r1"], job.r["r2"], job.r["r3"], job.addr)
    BY <1>9, Zenon DEF TokensEnd
  <2>3. QED BY <1>1, <2>1, <2>2
<1>10. CASE FlashEnds
  <2>1. mem' = mem /\ flash' = flash /\ boot_helper(0, 0, 0, MainRamBase) BY <1>10 DEF FlashEnds
  <2>2. QED BY <1>1, <2>1
<1>11. CASE ReadJson BY <1>11 DEF ReadJson
<1>12. CASE Token BY <1>12 DEF Token
<1>13. QED BY <1>2, <1>3, <1>4, <1>5, <1>6, <1>7, <1>8, <1>9, <1>10, <1>11, <1>12

-----------------------------------------------------------------------------
(* What is left of a handler after a step of it. *)
LEMMA Left ==
  ASSUME NEW s, Good(s), s # <<>>
  PROVE  /\ Len(s) \in Nat /\ Len(s) >= 1 /\ Head(s) = s[1] /\ Good(Tail(s))
         /\ Len(Tail(s)) = Len(s) - 1 /\ \A k \in 1 .. Len(s) - 1 : Tail(s)[k] = s[k + 1]
         /\ Checks(Tail(s)) => s[1].do = "check" \/ s[1].do = "overrun"
         /\ Checks(Tail(s)) => Checks(s)
<1> DEFINE S == {s[k] : k \in DOMAIN s}
           t == Tail(s)
<1>1. s \in Seq(S) BY DEF Good, IsSeq
<1> HIDE DEF S
<1>2. Len(s) \in Nat /\ Len(s) # 0 BY <1>1, EmptySeq, LenProperties
<1>3. /\ Head(s) = s[1] /\ t \in Seq(S) /\ Len(t) = Len(s) - 1
      /\ \A k \in 1 .. Len(s) - 1 : t[k] = s[k + 1]
  BY <1>1, HeadTailProperties
<1> HIDE DEF t
<1>4. IsSeq(t) BY <1>3, SeqIs
<1>5. ASSUME NEW k \in 1 .. Len(t)
      PROVE  /\ k + 1 \in 1 .. Len(s) /\ t[k] = s[k + 1]
             /\ k + 2 <= Len(t) <=> (k + 1) + 2 <= Len(s)
             /\ \A j \in 1 .. k - 1 : j \in 1 .. Len(s) - 1 /\ j + 1 \in 1 .. (k + 1) - 1
             /\ 1 \in 1 .. (k + 1) - 1
  <2>1. k \in 1 .. Len(s) - 1 BY <1>2, <1>3, SMT
  <2>2. k + 1 \in 1 .. Len(s) BY <1>2, <2>1, SMT
  <2>3. k + 2 <= Len(t) <=> (k + 1) + 2 <= Len(s) BY <1>2, <1>3, SMT
  <2>4. \A j \in 1 .. k - 1 : j \in 1 .. Len(s) - 1 /\ j + 1 \in 1 .. (k + 1) - 1 BY <1>2, <2>1, SMT
  <2>5. 1 \in 1 .. (k + 1) - 1 BY <2>1, SMT
  <2>6. QED BY <1>3, <2>1, <2>2, <2>3, <2>4, <2>5
<1>6. Good(t)
  <2>1. SUFFICES ASSUME NEW k \in 1 .. Len(t)
                 PROVE  /\ Guard(t[k]) \/ t[k].do \in OtherKinds \/ (t[k].do \in RegKinds /\ t[k].reg \in Registers)
                        /\ t[k].do \in RegKinds /\ t[k].reg = "control" =>
                             Hands(t[k]) \/ (/\ k + 2 <= Len(t)
                                             /\ t[k].do = "set"
                                             /\ t[k + 1].do = "set" /\ t[k + 1].reg # "control" /\ Hands(t[k + 2]))
                        /\ t[k].do = "check" => \A j \in 1 .. k - 1 : t[j].do \in {"check", "overrun"}
    BY <1>4 DEF Good
  <2>2. k + 1 \in 1 .. Len(s) /\ t[k] = s[k + 1] BY <1>5
  <2>3. Guard(t[k]) \/ t[k].do \in OtherKinds \/ (t[k].do \in RegKinds /\ t[k].reg \in Registers)
    BY <2>2 DEF Good
  <2>4. ASSUME t[k].do \in RegKinds, t[k].reg = "control", ~Hands(t[k])
        PROVE  /\ k + 2 <= Len(t) /\ t[k].do = "set"
               /\ t[k + 1].do = "set" /\ t[k + 1].reg # "control" /\ Hands(t[k + 2])
    <3>1. /\ (k + 1) + 2 <= Len(s) /\ s[k + 1].do = "set"
          /\ s[(k + 1) + 1].do = "set" /\ s[(k + 1) + 1].reg # "control" /\ Hands(s[(k + 1) + 2])
      BY <2>2, <2>4 DEF Good
    <3>2. k + 2 <= Len(t) BY <1>5, <3>1
    <3>3. k + 1 \in 1 .. Len(s) - 1 /\ k + 2 \in 1 .. Len(s) - 1 BY <1>2, <1>3, <3>2, SMT
    <3>4. t[k + 1] = s[(k + 1) + 1] /\ t[k + 2] = s[(k + 2) + 1] BY <1>3, <3>3
    <3>5. (k + 2) + 1 = (k + 1) + 2 OBVIOUS
    <3>6. QED BY <2>2, <3>1, <3>2, <3>4, <3>5
  <2>5. ASSUME t[k].do = "check", NEW j \in 1 .. k - 1 PROVE t[j].do \in {"check", "overrun"}
    <3>1. \A m \in 1 .. (k + 1) - 1 : s[m].do \in {"check", "overrun"} BY <2>2, <2>5 DEF Good
    <3>2. j \in 1 .. Len(s) - 1 /\ j + 1 \in 1 .. (k + 1) - 1 BY <1>5
    <3>3. QED BY <1>3, <3>1, <3>2
  <2>6. QED BY <2>3, <2>4, <2>5
<1>7. ASSUME Checks(t) PROVE (s[1].do = "check" \/ s[1].do = "overrun") /\ Checks(s)
  <2>1. PICK k \in 1 .. Len(t) : t[k].do = "check" BY <1>7 DEF Checks
  <2>2. k + 1 \in 1 .. Len(s) /\ s[k + 1].do = "check" /\ 1 \in 1 .. (k + 1) - 1 BY <1>5, <2>1
  <2>3. \A m \in 1 .. (k + 1) - 1 : s[m].do \in {"check", "overrun"} BY <2>2 DEF Good
  <2>4. QED BY <2>2, <2>3 DEF Checks
<1>8. Len(s) >= 1 BY <1>2, SMT
<1>9. QED BY <1>2, <1>3, <1>6, <1>7, <1>8 DEF t

(* A step that does something is followed by no check. *)
LEMMA Advanced ==
  ASSUME BiosInv, phase = "command", prog # <<>>, Now.do \notin {"check", "overrun"},
         prog' = Tail(prog), reply' = reply
  PROVE  Good(prog') /\ CheckedInv'
<1>1. Good(prog) BY DEF BiosInv, ControlInv
<1>2. Good(prog') /\ ~Checks(prog') BY <1>1, Left DEF Now
<1>3. reply' = "none" BY DEF BiosInv, CheckedInv
<1>4. QED BY <1>2, <1>3 DEF CheckedInv

(* A step of a handler, as Good tells it. *)
LEMMA NowIs ==
  ASSUME BiosInv, phase = "command", prog # <<>>
  PROVE  /\ Now = prog[1] /\ 1 \in 1 .. Len(prog) /\ Good(prog)
         /\ Guard(Now) \/ Now.do \in OtherKinds \/ (Now.do \in RegKinds /\ Now.reg \in Registers)
         /\ Now.do # "set" => ~Restoring(prog)
         /\ Now.do = "check" => Checks(prog) /\ Now.reply \in {"usage", "bad"}
<1>1. Good(prog) BY DEF BiosInv, ControlInv
<1>2. Now = prog[1] /\ Len(prog) \in Nat /\ Len(prog) >= 1 BY <1>1, Left DEF Now
<1>3. 1 \in 1 .. Len(prog) BY <1>2, SMT
<1>4. Guard(Now) \/ Now.do \in OtherKinds \/ (Now.do \in RegKinds /\ Now.reg \in Registers)
  BY <1>1, <1>2, <1>3 DEF Good
<1>5. Now.do # "set" => ~Restoring(prog) BY <1>2 DEF Restoring, Hands
<1>6. Now.do = "check" => Checks(prog) BY <1>2, <1>3 DEF Checks
<1>7. Now.do = "check" => Now.reply \in {"usage", "bad"} BY <1>4 DEF Guard, OtherKinds, RegKinds
<1>8. QED BY <1>1, <1>2, <1>3, <1>4, <1>5, <1>6, <1>7

(* Steps that leave the registers, or the media, alone. *)
LEMMA SameControl ==
  ASSUME BiosInv, phase = "command", prog # <<>>, Now.do # "set", dev' = dev,
         phase' = "command" => Good(prog')
  PROVE  ControlInv'
BY NowIs DEF BiosInv, ControlInv

(* A step that leaves the media alone. *)
LEMMA SameJob ==
  ASSUME JobInv, job = Idle, UNCHANGED <<job, mounted, opened>>
  PROVE  JobInv'
BY DEF JobInv

(* A line is entered. *)
LEMMA EnterInv ==
  ASSUME BiosInv, TypeLine
  PROVE  BiosInv'
<1>1. PICK line \in Lines[ncommands + 1] : Enter(line) BY DEF TypeLine
<1> DEFINE call == get_param(line)
<1>2. phase = "prompt" /\ ncommands < Len(Lines) /\ ncommands \in Nat BY DEF TypeLine, BiosInv, ShapeInv
<1>3. job = Idle BY <1>2 DEF BiosInv, JobInv
<1>4. dev.control = <<"hardware">> BY <1>2 DEF BiosInv, ControlInv
<1>5. ncommands + 1 \in DOMAIN Lines
  <2>1. DOMAIN Lines = 1 .. Len(Lines) /\ Len(Lines) \in Nat BY InputsAssumption DEF IsSequence
  <2>2. ncommands + 1 \in 1 .. Len(Lines) BY <1>2, <2>1, SMT
  <2>3. QED BY <2>1, <2>2
<1>6. Len(call.params) \in Nat BY <1>5, InputsAssumption, ParamsLen
<1>7. /\ phase' = IF Len(call.params) > MaxParam THEN "overrun"
                  ELSE IF call.name \in CommandNames THEN "command" ELSE "prompt"
      /\ prog' = IF phase' = "command" THEN Handler(call.name, call.params) ELSE <<>>
      /\ reply' = IF call.name \in CommandNames THEN "none" ELSE "not found"
      /\ ncommands' = ncommands + 1 /\ before' = Snapshot /\ same' = TRUE
      /\ UNCHANGED <<media, dev, nresets>>
  BY <1>1 DEF Enter
<1> HIDE DEF call
<1>8. phase' = "command" => Good(prog') /\ reply' = "none" BY <1>6, <1>7, HandlerGood
<1>9. Snapshot' = before' BY <1>7 DEF Snapshot, media
<1>10. ShapeInv'
  <2>1. ncommands' \in Nat
    <3>1. ncommands' = ncommands + 1 BY <1>7
    <3>2. ncommands \in Nat BY <1>2
    <3>3. QED BY <3>1, <3>2, SMT
  <2>2. phase' \in {"prompt", "command", "overrun"} /\ reply' \in {"none", "not found"} BY <1>7
  <2>3. UNCHANGED <<mem, flash, jump>> BY <1>7 DEF media
  <2>4. QED BY <1>2, <1>7, <2>1, <2>2, <2>3 DEF BiosInv, ShapeInv
<1>11. ControlInv' BY <1>4, <1>7, <1>8 DEF ControlInv
<1>12. CheckedInv'
  <2>1. job' = Idle BY <1>3, <1>7 DEF media
  <2>2. QED BY <1>8, <1>9, <2>1 DEF CheckedInv
<1>13. JobInv'
  <2>1. UNCHANGED <<job, mounted, opened>> BY <1>7 DEF media
  <2>2. QED BY <1>3, <2>1, SameJob DEF BiosInv
<1>14. QED BY <1>10, <1>11, <1>12, <1>13 DEF BiosInv

(* A command is left. *)
LEMMA LeavesInv ==
  ASSUME BiosInv, phase = "command", job = Idle, prog # <<>>, NEW word, LeavesWith(word),
         \/ Now.do = "check" /\ word \in {"usage", "bad"}
         \/ Now.do = "try" /\ word = "error"
  PROVE  BiosInv'
<1>1. prog' = <<>> /\ reply' = word /\ UNCHANGED <<media, dev, phase, before, same, ncommands>> BY DEF LeavesWith
<1>2. UNCHANGED <<mem, flash, mounted, opened, job, jump>> BY <1>1 DEF media
<1>3. Good(prog') BY <1>1, NoSteps
<1>4. ShapeInv' BY <1>1, <1>2 DEF BiosInv, ShapeInv
<1>5. ControlInv' BY <1>1, <1>3, SameControl
<1>6. CheckedInv'
  <2>1. ~Checks(prog')
    <3>1. Len(<<>>) = 0 /\ \A k \in 1 .. 0 : FALSE BY SMT
    <3>2. QED BY <1>1, <3>1 DEF Checks
  <2>2. word # "error" => Snapshot = before BY NowIs DEF BiosInv, CheckedInv
  <2>3. Snapshot' = Snapshot BY <1>1, <1>2 DEF Snapshot
  <2>4. QED BY <1>1, <1>2, <2>1, <2>2, <2>3 DEF CheckedInv
<1>7. JobInv' BY <1>2, SameJob DEF BiosInv
<1>8. QED BY <1>4, <1>5, <1>6, <1>7 DEF BiosInv

(* A check, and a transfer that is refused. *)
LEMMA CheckInv ==
  ASSUME BiosInv, CheckStep \/ Refused
  PROVE  BiosInv'
<1>1. phase = "command" /\ job = Idle /\ prog # <<>> BY DEF CheckStep, Refused, At
<1>2. CASE Refused BY <1>1, <1>2, LeavesInv DEF Refused, At
<1>3. CASE CheckStep
  <2>1. Now.do = "check" BY <1>3 DEF CheckStep, At
  <2>2. CASE ~Now.ok
    <3>1. LeavesWith(Now.reply) BY <1>3, <2>2, Zenon DEF CheckStep
    <3>2. Now.reply \in {"usage", "bad"} BY <1>1, <2>1, NowIs
    <3>3. QED BY <1>1, <2>1, <3>1, <3>2, LeavesInv
  <2>3. CASE Now.ok
    <3>1. Advance /\ UNCHANGED <<media, dev, reply, shown, same>> BY <1>3, <2>3, Zenon DEF CheckStep
    <3>2. prog' = Tail(prog) /\ UNCHANGED <<phase, before, ncommands, dev, reply, same>> BY <3>1 DEF Advance
    <3>3. UNCHANGED <<mem, flash, mounted, opened, job, jump>> BY <3>1 DEF media
    <3>4. Good(prog') BY <1>1, <3>2, NowIs, Left
    <3>5. ShapeInv' BY <3>2, <3>3 DEF BiosInv, ShapeInv
    <3>6. ControlInv' BY <1>1, <2>1, <3>2, <3>4, SameControl
    <3>7. CheckedInv'
      <4>1. Snapshot' = Snapshot BY <3>2, <3>3 DEF Snapshot
      <4>2. Snapshot = before /\ reply = "none" BY <1>1, <2>1, NowIs DEF BiosInv, CheckedInv
      <4>3. QED BY <1>1, <3>2, <3>3, <4>1, <4>2 DEF CheckedInv
    <3>8. JobInv' BY <1>1, <3>3, SameJob DEF BiosInv
    <3>9. QED BY <3>5, <3>6, <3>7, <3>8 DEF BiosInv
  <2>4. QED BY <2>2, <2>3
<1>4. QED BY <1>2, <1>3

(* A step that sets a register: the memory controller is taken and handed back. *)
LEMMA RegisterInv ==
  ASSUME BiosInv, RegisterStep
  PROVE  BiosInv'
<1>1. /\ phase = "command" /\ job = Idle /\ prog # <<>>
      /\ Now.do \in {"set", "try", "set_one_of", "toggle", "mark"}
  BY DEF RegisterStep, At
<1>2. prog' = Tail(prog) /\ UNCHANGED <<phase, before, ncommands, reply, same>> BY DEF RegisterStep, Advance
<1>3. UNCHANGED <<mem, flash, mounted, opened, job, jump>> BY DEF RegisterStep, media
<1>4. Good(prog') /\ CheckedInv' BY <1>1, <1>2, Advanced
<1>5. Good(prog) /\ Now = prog[1] /\ 1 \in 1 .. Len(prog) BY <1>1, NowIs
<1>6. Now.do # "mark" => Now.do \in RegKinds /\ Now.reg \in Registers
  BY <1>1, NowIs DEF Guard, OtherKinds, RegKinds
<1>7. DOMAIN dev = Registers \cup Counters /\ dev.n_markers \in 0 .. (MaxMarkers - 1)
  BY DEF BiosInv, ShapeInv, PowerOn
<1>8. Now.do # "mark" => \E v : dev' = [dev EXCEPT ![Now.reg] = v]
  <2>1. CASE Now.do \in {"set", "try"} BY <2>1 DEF RegisterStep
  <2>2. CASE Now.do = "set_one_of" BY <2>2 DEF RegisterStep
  <2>3. CASE Now.do = "toggle" BY <2>3 DEF RegisterStep
  <2>4. QED BY <1>1, <2>1, <2>2, <2>3
<1>9. Now.do = "mark" => dev' = sim_mark(dev) BY DEF RegisterStep
<1>10. /\ DOMAIN dev' = DOMAIN dev /\ dev'.n_markers \in 0 .. (MaxMarkers - 1)
       /\ Now.do = "mark" \/ Now.reg # "control" => dev'.control = dev.control
  <2>1. CASE Now.do = "mark"
    <3>1. DOMAIN dev' = DOMAIN dev /\ dev'.control = dev.control
      BY <1>7, <1>9, <2>1 DEF sim_mark, Counters, Registers
    <3>2. dev'.n_markers = IF dev.n_markers + 1 >= MaxMarkers THEN 0 ELSE dev.n_markers + 1
      BY <1>7, <1>9, <2>1 DEF sim_mark, Counters, Registers
    <3>3. dev'.n_markers \in 0 .. (MaxMarkers - 1) BY <1>7, <3>2, ConsoleAssumption, SMT
    <3>4. QED BY <3>1, <3>3
  <2>2. CASE Now.do # "mark"
    <3>1. PICK v : dev' = [dev EXCEPT ![Now.reg] = v] BY <1>8, <2>2
    <3>2. Now.reg \in Registers /\ Now.reg # "n_markers" BY <1>6, <2>2 DEF Registers
    <3>3. "n_markers" \in DOMAIN dev /\ "control" \in DOMAIN dev BY <1>7 DEF Counters, Registers
    <3>4. QED BY <1>7, <2>2, <3>1, <3>2, <3>3
  <2>3. QED BY <2>1, <2>2
<1>11. ControlInv'
  <2>1. CASE Now.do = "mark" \/ Now.reg # "control"
    <3>1. dev'.control = dev.control BY <1>10, <2>1
    <3>2. CASE dev.control = <<"hardware">> BY <1>4, <3>1, <3>2 DEF ControlInv
    <3>3. CASE Restoring(prog)
      <4>1. Len(prog) >= 2 /\ Hands(prog[2])
        <5>1. ~Hands(prog[1]) BY <1>5, <2>1 DEF Hands
        <5>2. QED BY <3>3, <5>1 DEF Restoring
      <4>2. Len(prog) \in Nat /\ Len(prog') = Len(prog) - 1 /\ \A k \in 1 .. Len(prog) - 1 : prog'[k] = prog[k + 1]
        BY <1>1, <1>2, <1>5, Left
      <4>3. 1 \in 1 .. Len(prog) - 1 /\ Len(prog) - 1 >= 1 /\ 1 + 1 = 2 BY <4>1, <4>2, SMT
      <4>4. prog'[1] = prog[2] /\ Len(prog') >= 1 BY <4>2, <4>3
      <4>5. Restoring(prog') BY <4>1, <4>4 DEF Restoring
      <4>6. QED BY <1>1, <1>2, <1>3, <1>4, <4>5 DEF ControlInv
    <3>4. QED BY <3>2, <3>3 DEF BiosInv, ControlInv
  <2>2. CASE Now.do # "mark" /\ Now.reg = "control"
    <3>1. Now.do \in RegKinds BY <1>6, <2>2
    <3>2. CASE Hands(Now)
      <4>1. dev' = [dev EXCEPT !["control"] = <<"hardware">>] BY <2>2, <3>2 DEF RegisterStep, Hands
      <4>2. dev'.control = <<"hardware">> BY <1>7, <4>1 DEF Registers
      <4>3. QED BY <1>4, <4>2 DEF ControlInv
    <3>3. CASE ~Hands(Now)
      <4>1. /\ 1 + 2 <= Len(prog) /\ prog[1 + 1].do = "set" /\ prog[1 + 1].reg # "control" /\ Hands(prog[1 + 2])
        BY <1>5, <2>2, <3>1, <3>3 DEF Good
      <4>2. Len(prog) \in Nat /\ Len(prog') = Len(prog) - 1 /\ \A k \in 1 .. Len(prog) - 1 : prog'[k] = prog[k + 1]
        BY <1>1, <1>2, <1>5, Left
      <4>3. /\ 1 \in 1 .. Len(prog) - 1 /\ 2 \in 1 .. Len(prog) - 1 /\ 2 \in 1 .. Len(prog)
            /\ Len(prog) - 1 >= 2 /\ 1 + 1 = 2 /\ 1 + 2 = 2 + 1
        BY <4>1, <4>2, SMT
      <4>4. prog'[1] = prog[2] /\ prog'[2] = prog[1 + 2] /\ Len(prog') >= 2 BY <4>2, <4>3
      <4>5. prog[2].do = "set" /\ prog[2].reg # "control" /\ Hands(prog[1 + 2]) BY <4>1, <4>3
      <4>6. prog[2].reg \in Registers BY <1>5, <4>3, <4>5 DEF Good, Guard, OtherKinds
      <4>7. Restoring(prog') BY <4>4, <4>5, <4>6 DEF Restoring
      <4>8. QED BY <1>1, <1>2, <1>3, <1>4, <4>7 DEF ControlInv
    <3>4. QED BY <3>2, <3>3
  <2>3. QED BY <2>1, <2>2
<1>12. ShapeInv' BY <1>2, <1>3, <1>10 DEF BiosInv, ShapeInv
<1>13. JobInv' BY <1>1, <1>3, SameJob DEF BiosInv
<1>14. QED BY <1>4, <1>11, <1>12, <1>13 DEF BiosInv

(* Steps on memory, flash and what is printed. *)
LEMMA DataInv ==
  ASSUME BiosInv, MemoryStep \/ FlashStep \/ ShowStep \/ CompareStep
  PROVE  BiosInv'
<1>1. /\ phase = "command" /\ job = Idle /\ prog # <<>>
      /\ Now.do \in {"store", "copy", "scratch", "program", "erase", "show", "compare"}
  BY DEF MemoryStep, FlashStep, ShowStep, CompareStep, At
<1>2. prog' = Tail(prog) /\ UNCHANGED <<phase, ncommands, reply, dev, mounted, opened, job, jump>>
  BY DEF MemoryStep, FlashStep, ShowStep, CompareStep, Advance, media
<1>3. DOMAIN mem' = DOMAIN mem
  <2>1. CASE MemoryStep
    <3>1. CASE Now.do = "store" BY <2>1, <3>1 DEF MemoryStep, Overlay
    <3>2. CASE Now.do = "copy" BY <2>1, <3>2 DEF MemoryStep, Overlay
    <3>3. CASE Now.do = "scratch" BY <2>1, <3>3 DEF MemoryStep, Overlay
    <3>4. QED BY <2>1, <3>1, <3>2, <3>3 DEF MemoryStep, At
  <2>2. CASE FlashStep \/ ShowStep \/ CompareStep BY <2>2 DEF FlashStep, ShowStep, CompareStep, media
  <2>3. QED BY <2>1, <2>2
<1>4. DOMAIN flash' = DOMAIN flash
  <2>1. CASE FlashStep
    <3>1. CASE Now.do = "erase" BY <2>1, <3>1 DEF FlashStep, Overlay
    <3>2. CASE Now.do # "erase" BY <2>1, <3>2 DEF FlashStep, Overlay
    <3>3. QED BY <3>1, <3>2
  <2>2. CASE MemoryStep \/ ShowStep \/ CompareStep BY <2>2 DEF MemoryStep, ShowStep, CompareStep, media
  <2>3. QED BY <2>1, <2>2
<1>5. same' \in BOOLEAN
  <2>1. CASE CompareStep BY <2>1, Zenon DEF CompareStep
  <2>2. CASE MemoryStep \/ FlashStep \/ ShowStep
    <3>1. same' = same BY <2>2 DEF MemoryStep, FlashStep, ShowStep
    <3>2. QED BY <3>1 DEF BiosInv, ShapeInv
  <2>3. QED BY <2>1, <2>2
<1>6. Good(prog') /\ CheckedInv' BY <1>1, <1>2, Advanced
<1>7. ControlInv' BY <1>1, <1>2, <1>6, SameControl
<1>8. ShapeInv' BY <1>2, <1>3, <1>4, <1>5 DEF BiosInv, ShapeInv
<1>9. JobInv' BY <1>1, <1>2, SameJob DEF BiosInv
<1>10. QED BY <1>6, <1>7, <1>8, <1>9 DEF BiosInv

(* boot_helper ends the BIOS. *)
LEMMA JumpMade ==
  ASSUME NEW r1, NEW r2, NEW r3, NEW a, boot_helper(r1, r2, r3, a)
  PROVE  jump' # None /\ job' = Idle
<1> DEFINE call == [kind |-> "boot", r1 |-> r1, r2 |-> r2, r3 |-> r3, a |-> a, job |-> job]
<1>1. jump' = call /\ job' = Idle BY DEF boot_helper
<1>2. call.kind = "boot" /\ None.kind = "none" BY DEF None
<1>3. call # None BY <1>2
<1>4. QED BY <1>1, <1>3

(* boot, and an address with too many fields. *)
LEMMA LeaveInv ==
  ASSUME BiosInv, Leave
  PROVE  BiosInv'
<1>1. phase = "command" /\ job = Idle /\ prog # <<>> /\ Now.do \in {"jump", "overrun"} BY DEF Leave, At
<1>2. prog' = <<>> /\ UNCHANGED <<mem, flash, mounted, opened, dev, reply, same, ncommands>> BY DEF Leave
<1>3. \/ phase' = "booted" /\ jump' # None /\ job' = Idle
      \/ phase' = "overrun" /\ jump' = jump /\ job' = Idle
  <2>1. CASE Now.do = "jump"
    <3>1. phase' = "booted" /\ boot_helper(Now.r1, Now.r2, Now.r3, Now.a) BY <2>1 DEF Leave
    <3>2. QED BY <3>1, JumpMade
  <2>2. CASE Now.do # "jump" BY <1>1, <2>2 DEF Leave
  <2>3. QED BY <2>1, <2>2
<1>4. ControlInv' BY <1>1, <1>2, <1>3, SameControl
<1>5. CheckedInv' BY <1>3 DEF CheckedInv
<1>6. ShapeInv' BY <1>1, <1>2, <1>3 DEF BiosInv, ShapeInv
<1>7. JobInv' BY <1>1, <1>2, <1>3, SameJob DEF BiosInv
<1>8. QED BY <1>4, <1>5, <1>6, <1>7 DEF BiosInv

(* A job begins with nothing mounted and nothing read. *)
LEMMA Started ==
  ASSUME NEW j, NEW from, NEW step, NEW use, NEW file, NEW files, NEW named,
         j = Start(from, step, use, file, files) \/ j = [Start(from, step, use, file, files) EXCEPT !.named = named],
         \/ step = "read" /\ from = "net" /\ use = "json" /\ files \in Contents
         \/ step = "mount" /\ from \in Volumes /\ use = "json" /\ files \in Contents
         \/ step = "mount" /\ from \in Volumes /\ use = "toflash"
         \/ step = "flash" /\ from = "flash" /\ use = "flash"
  PROVE  JobShape(j) /\ Uses(j, FALSE, FALSE)
<1>1. /\ DOMAIN j = Fields /\ j = [f \in Fields |-> j[f]]
      /\ j.step = step /\ j.from = from /\ j.use = use /\ j.files = files
      /\ j.got = 0 /\ j.tokens = <<>> /\ j.i = 1
  BY DEF Start, Fields
<1>2. IsSeq(<<>>) /\ Len(<<>>) = 0 BY Tuples
<1>3. 0 \in Nat /\ 1 \in 1 .. (0 + 1) BY SMT
<1>4. JobShape(j) BY <1>1, <1>2, <1>3 DEF JobShape, Volumes
<1>5. Uses(j, FALSE, FALSE) BY <1>1, UsesMade DEF Volumes
<1>6. QED BY <1>4, <1>5

(* A boot begins. *)
LEMMA StartInv ==
  ASSUME BiosInv, MediaStart
  PROVE  BiosInv'
<1>1. phase = "command" /\ job = Idle /\ prog # <<>> /\ Now.do = "media" BY DEF MediaStart, At
<1>2. /\ prog' = Tail(prog) /\ UNCHANGED <<mem, flash, mounted, opened, dev, reply, same, ncommands>>
      /\ phase' = IF jump' # None THEN "booted" ELSE phase
  BY DEF MediaStart
<1>3. mounted = FALSE /\ opened = FALSE /\ jump = None
  <2>1. Idle.step = "idle" BY DEF Idle
  <2>2. mounted = FALSE /\ opened = FALSE BY <1>1, <2>1, UsesCases DEF BiosInv, JobInv
  <2>3. QED BY <1>1, <2>2 DEF BiosInv, ShapeInv
<1>4. \/ jump' # None /\ job' = Idle
      \/ jump' = None /\ (job' = Idle \/ (JobShape(job') /\ Uses(job', FALSE, FALSE)))
  <2>1. CASE flashboot /\ UNCHANGED jump
    <3>1. CASE job' = Idle BY <1>3, <2>1, <3>1
    <3>2. CASE job' # Idle
      <4>1. job' = Start("flash", "flash", "flash", "flash", <<>>) BY <2>1, <3>2 DEF flashboot
      <4>2. QED BY <1>3, <2>1, <4>1, Started
    <3>3. QED BY <3>1, <3>2
  <2>2. CASE boot_helper(0, 0, 0, RomBoot) BY <2>2, JumpMade
  <2>3. ASSUME NEW files \in Contents, UNCHANGED jump,
               \/ netboot(Now.file, files) \/ sdcardboot(files) \/ sataboot(files)
               \/ flash_from_card(Now.file, files)
        PROVE  jump' = None /\ JobShape(job') /\ Uses(job', FALSE, FALSE)
    <3>1. CASE netboot(Now.file, files) BY <1>3, <2>3, <3>1, Started DEF netboot
    <3>2. CASE sdcardboot(files)
      <4>1. job' = Start("sdcard", "mount", "json", "boot.json", files)
        BY <3>2 DEF sdcardboot
      <4>2. QED BY <1>3, <2>3, <4>1, Started DEF Volumes
    <3>3. CASE sataboot(files)
      <4>1. job' = Start("sata", "mount", "json", "boot.json", files)
        BY <3>3 DEF sataboot
      <4>2. QED BY <1>3, <2>3, <4>1, Started DEF Volumes
    <3>4. CASE flash_from_card(Now.file, files)
      <4>1. job' = Start("toflash", "mount", "toflash", Now.file, files)
        BY <3>4 DEF flash_from_card
      <4>2. QED BY <1>3, <2>3, <4>1, Started DEF Volumes
    <3>5. QED BY <2>3, <3>1, <3>2, <3>3, <3>4
  <2>4. QED BY <2>1, <2>2, <2>3 DEF MediaStart
<1>5. Good(prog') /\ CheckedInv' BY <1>1, <1>2, Advanced
<1>6. ControlInv' BY <1>1, <1>2, <1>5, SameControl
<1>7. ShapeInv' BY <1>1, <1>2, <1>3, <1>4 DEF BiosInv, ShapeInv
<1>8. JobInv'
  <2>1. job' # Idle => phase' = "command" /\ JobShape(job') BY <1>1, <1>2, <1>4
  <2>2. Uses(job', FALSE, FALSE) BY <1>4, IdleUses
  <2>3. Uses(job', mounted', opened') BY <1>2, <1>3, <2>2
  <2>4. QED BY <2>1, <2>3 DEF JobInv
<1>9. QED BY <1>5, <1>6, <1>7, <1>8 DEF BiosInv

(* A boot goes on. *)
LEMMA RunsInv ==
  ASSUME BiosInv, MediaRuns
  PROVE  BiosInv'
<1>1. /\ phase = "command" /\ MediaStep /\ phase' = IF jump' # None THEN "booted" ELSE phase
      /\ UNCHANGED <<dev, prog, reply, same, ncommands>>
  BY DEF MediaRuns
<1>2. job # Idle /\ After BY <1>1, MediaJob DEF BiosInv
<1>3. /\ DOMAIN mem' = DOMAIN mem /\ DOMAIN flash' = DOMAIN flash
      /\ jump' = jump \/ (jump' # None /\ job' = Idle)
  BY <1>1, MediaFrame
<1>4. jump = None BY <1>1 DEF BiosInv, ShapeInv
<1>5. ShapeInv' BY <1>1, <1>3, <1>4 DEF BiosInv, ShapeInv
<1>6. ControlInv' BY <1>1, <1>2 DEF BiosInv, ControlInv
<1>7. CheckedInv'
  <2>1. ~Checks(prog) /\ reply = "none" BY <1>1, <1>2 DEF BiosInv, CheckedInv
  <2>2. QED BY <1>1, <2>1 DEF CheckedInv
<1>8. JobInv'
  <2>1. job' # Idle => phase' = "command" /\ JobShape(job') BY <1>1, <1>2, <1>3, <1>4 DEF After
  <2>2. QED BY <1>2, <2>1 DEF After, JobInv
<1>9. QED BY <1>5, <1>6, <1>7, <1>8 DEF BiosInv

(* A handler returns. *)
LEMMA ReturnInv ==
  ASSUME BiosInv, Return
  PROVE  BiosInv'
<1>1. /\ phase = "command" /\ job = Idle /\ prog = <<>> /\ phase' = "prompt"
      /\ reply' = IF reply = "none" THEN "done" ELSE reply
      /\ UNCHANGED <<dev, prog, before, same, ncommands>> /\ UNCHANGED media
  BY DEF Return
<1>2. UNCHANGED <<mem, flash, mounted, opened, job, jump>> BY <1>1 DEF media
<1>3. ShapeInv' BY <1>1, <1>2 DEF BiosInv, ShapeInv
<1>4. ControlInv'
  <2>1. ~Restoring(<<>>)
    <3>1. Len(<<>>) = 0 /\ ~(0 >= 1) /\ ~(0 >= 2) BY SMT
    <3>2. QED BY <3>1 DEF Restoring
  <2>2. QED BY <1>1, <2>1 DEF BiosInv, ControlInv
<1>5. CheckedInv'
  <2>1. Snapshot' = Snapshot BY <1>1, <1>2 DEF Snapshot
  <2>2. reply' \in {"usage", "bad", "not found"} => reply = reply' BY <1>1
  <2>3. QED BY <1>1, <2>1, <2>2 DEF BiosInv, CheckedInv
<1>6. JobInv' BY <1>1, <1>2, SameJob DEF BiosInv
<1>7. QED BY <1>3, <1>4, <1>5, <1>6 DEF BiosInv

(* A reset finds memory and flash as they are. *)
LEMMA RestartInv ==
  ASSUME BiosInv, Restarted
  PROVE  BiosInv'
<1>1. /\ phase' = "prompt" /\ prog' = <<>> /\ reply' = "none" /\ dev' = PowerOn
      /\ mounted' = FALSE /\ opened' = FALSE /\ job' = Idle /\ jump' = None
      /\ UNCHANGED <<mem, flash, same, ncommands>>
  BY DEF Restarted
<1>2. PowerOn.control = <<"hardware">> /\ PowerOn.n_markers \in 0 .. (MaxMarkers - 1)
  <2>1. PowerOn.control = <<"hardware">> /\ PowerOn.n_markers = 0 BY DEF PowerOn, Registers, Counters
  <2>2. 0 \in 0 .. (MaxMarkers - 1) BY ConsoleAssumption, SMT
  <2>3. QED BY <2>1, <2>2
<1>3. ShapeInv' BY <1>1, <1>2 DEF BiosInv, ShapeInv
<1>4. ControlInv' BY <1>1, <1>2 DEF ControlInv
<1>5. CheckedInv' BY <1>1 DEF CheckedInv
<1>6. JobInv' BY <1>1, IdleUses DEF JobInv
<1>7. QED BY <1>3, <1>4, <1>5, <1>6 DEF BiosInv

(* The first state. *)
LEMMA FirstInv == Init => BiosInv
<1>1. SUFFICES ASSUME Init PROVE BiosInv OBVIOUS
<1>2. /\ mounted = FALSE /\ opened = FALSE /\ job = Idle /\ jump = None
      /\ phase = "prompt" /\ prog = <<>> /\ reply = "none" /\ dev = PowerOn /\ same = TRUE /\ ncommands = 0
      /\ mem = FirstMem /\ flash = FirstFlash
  BY <1>1 DEF Init, MediaInit
<1>3. PowerOn.control = <<"hardware">> /\ PowerOn.n_markers = 0 BY DEF PowerOn, Registers, Counters
<1>4. 0 \in 0 .. (MaxMarkers - 1) /\ 0 \in Nat BY ConsoleAssumption, SMT
<1>5. ShapeInv BY <1>2, <1>3, <1>4, InputsAssumption DEF ShapeInv
<1>6. ControlInv BY <1>2, <1>3 DEF ControlInv
<1>7. CheckedInv BY <1>2 DEF CheckedInv
<1>8. JobInv BY <1>2, IdleUses DEF JobInv
<1>9. QED BY <1>5, <1>6, <1>7, <1>8 DEF BiosInv

(* Every step keeps the invariant. *)
LEMMA BiosSteps == BiosInv /\ [Next]_vars => BiosInv'
<1>1. SUFFICES ASSUME BiosInv, [Next]_vars PROVE BiosInv' OBVIOUS
<1>2. CASE TypeLine BY <1>1, <1>2, EnterInv
<1>3. CASE CommandStep
  <2>1. CASE CheckStep \/ Refused BY <1>1, <2>1, CheckInv
  <2>2. CASE RegisterStep BY <1>1, <2>2, RegisterInv
  <2>3. CASE MemoryStep \/ FlashStep \/ ShowStep \/ CompareStep BY <1>1, <2>3, DataInv
  <2>4. CASE Leave BY <1>1, <2>4, LeaveInv
  <2>5. CASE MediaStart BY <1>1, <2>5, StartInv
  <2>6. CASE MediaRuns BY <1>1, <2>6, RunsInv
  <2>7. CASE Return BY <1>1, <2>7, ReturnInv
  <2>8. CASE ctrl_reset_write BY <1>1, <2>8, RestartInv DEF ctrl_reset_write
  <2>9. QED BY <1>3, <2>1, <2>2, <2>3, <2>4, <2>5, <2>6, <2>7, <2>8 DEF CommandStep
<1>4. CASE ResetButton BY <1>1, <1>4, RestartInv DEF ResetButton
<1>5. CASE UNCHANGED vars
  BY <1>1, <1>5 DEF vars, media, console, BiosInv, ShapeInv, ControlInv, CheckedInv, JobInv, Snapshot
<1>6. QED BY <1>1, <1>2, <1>3, <1>4, <1>5 DEF Next

(* The invariant. *)
LEMMA BiosAlways == Spec => []BiosInv
<1>1. Init => BiosInv BY FirstInv
<1>2. BiosInv /\ [Next]_vars => BiosInv' BY BiosSteps
<1>3. QED BY <1>1, <1>2, PTL DEF Spec

-----------------------------------------------------------------------------
(* What the invariant says of the properties. *)
LEMMA BiosSays == BiosInv => TypeOK /\ HandsBack /\ RefusedChangesNothing
<1>1. SUFFICES ASSUME BiosInv PROVE TypeOK /\ HandsBack /\ RefusedChangesNothing OBVIOUS
<1>2. JobOK BY <1>1 DEF BiosInv, JobInv, JobShape, JobOK
<1>3. TypeOK BY <1>1, <1>2 DEF BiosInv, ShapeInv, TypeOK
<1>4. OnVolume <=> job.from \in Volumes BY DEF OnVolume, Volumes
<1>5. VolumeInUse BY <1>1, <1>4, Zenon DEF BiosInv, JobInv, Uses, VolumeInUse
<1>6. HandsBack
  <2>1. SUFFICES ASSUME phase \in {"prompt", "booted"}
                 PROVE  ~mounted /\ ~opened /\ dev.control = <<"hardware">>
    BY <1>5 DEF HandsBack
  <2>2. job = Idle BY <1>1, <2>1 DEF BiosInv, JobInv
  <2>3. Idle.step = "idle" BY DEF Idle
  <2>4. mounted = FALSE /\ opened = FALSE BY <1>1, <2>2, <2>3, UsesCases DEF BiosInv, JobInv
  <2>5. dev.control = <<"hardware">> BY <1>1, <2>1 DEF BiosInv, ControlInv
  <2>6. QED BY <2>4, <2>5
<1>7. RefusedChangesNothing BY <1>1 DEF BiosInv, CheckedInv, RefusedChangesNothing
<1>8. QED BY <1>3, <1>6, <1>7

(* The types of the console, of memory and flash, and of the locals of a    *)
(* boot: the counter of the token loop (sdcardboot_from_json) stays in the  *)
(* tokens, sim_mark numbers at most MAX_N_MARKERS markers.                  *)
THEOREM BiosTypes == Spec => []TypeOK
BY BiosAlways, BiosSays, PTL

(* Whatever command ran, whichever call of it failed and whenever the reset *)
(* came, the prompt and the booted program find no volume mounted, no file  *)
(* open and the memory controller in charge of the memory.                  *)
THEOREM BiosHandsBack == Spec => []HandsBack
BY BiosAlways, BiosSays, PTL

(* A command that main or its own checks refuse leaves memory, flash and    *)
(* every register as they were.                                             *)
THEOREM BiosRefuses == Spec => []RefusedChangesNothing
BY BiosAlways, BiosSays, PTL

-----------------------------------------------------------------------------
(* What is left of a handler is its end. *)
Rest(s, h) == /\ IsSeq(s) /\ IsSeq(h) /\ Len(s) <= Len(h)
              /\ \A k \in 1 .. Len(s) : s[k] = h[Len(h) - Len(s) + k]

(* A step on. *)
LEMMA RestTail ==
  ASSUME NEW s, NEW h, Rest(s, h), s # <<>>
  PROVE  /\ Len(s) \in Nat /\ Len(s) >= 1 /\ Len(Tail(s)) = Len(s) - 1 /\ Head(s) = s[1]
         /\ \A k \in 1 .. Len(Tail(s)) : k + 1 \in 1 .. Len(s) /\ Tail(s)[k] = s[k + 1]
         /\ Rest(Tail(s), h) /\ Len(h) - Len(s) + 1 \in 1 .. Len(h) /\ s[1] = h[Len(h) - Len(s) + 1]
<1> DEFINE t == Tail(s)
           S == {s[k] : k \in DOMAIN s}
<1>1. s \in Seq(S) BY DEF Rest, IsSeq
<1> HIDE DEF S
<1>2. Len(s) \in Nat /\ Len(s) # 0 BY <1>1, EmptySeq, LenProperties
<1>3. /\ Head(s) = s[1] /\ t \in Seq(S) /\ Len(t) = Len(s) - 1
      /\ \A k \in 1 .. Len(s) - 1 : t[k] = s[k + 1]
  BY <1>1, HeadTailProperties
<1> HIDE DEF t
<1>4. IsSeq(t) BY <1>3, SeqIs
<1>5. /\ IsSeq(h) /\ Len(s) <= Len(h) /\ \A k \in 1 .. Len(s) : s[k] = h[Len(h) - Len(s) + k] BY DEF Rest
<1>6. Len(h) \in Nat BY <1>5, SeqLen
<1>7. ASSUME NEW k \in 1 .. Len(t)
      PROVE  k + 1 \in 1 .. Len(s) /\ t[k] = s[k + 1] /\ t[k] = h[Len(h) - Len(t) + k]
  <2>1. k \in 1 .. Len(s) - 1 /\ k + 1 \in 1 .. Len(s) /\ Len(h) - Len(s) + (k + 1) = Len(h) - Len(t) + k
    BY <1>2, <1>3, <1>6, SMT
  <2>2. t[k] = s[k + 1] /\ s[k + 1] = h[Len(h) - Len(s) + (k + 1)] BY <1>3, <1>5, <2>1
  <2>3. QED BY <2>1, <2>2
<1>8. Rest(t, h)
  <2>1. Len(t) <= Len(h) BY <1>2, <1>3, <1>5, <1>6, SMT
  <2>2. QED BY <1>4, <1>5, <1>7, <2>1 DEF Rest
<1>9. 1 \in 1 .. Len(s) /\ Len(h) - Len(s) + 1 \in 1 .. Len(h) /\ Len(s) >= 1 BY <1>2, <1>5, <1>6, SMT
<1>10. s[1] = h[Len(h) - Len(s) + 1] BY <1>5, <1>9
<1>11. QED BY <1>2, <1>3, <1>7, <1>8, <1>9, <1>10 DEF t

(* The next step of a handler of checks and a loop is a check or a round.   *)
LEMMA NextRound ==
  ASSUME NEW g, Guards(g), NEW f, IsSeq(f), NEW s, Rest(s, g \o f), s # <<>>
  PROVE  /\ Len(s) \in Nat /\ Len(s) >= 1 /\ Len(f) \in Nat /\ Len(Tail(s)) = Len(s) - 1 /\ Head(s) = s[1]
         /\ \/ Len(s) > Len(f) /\ Guard(s[1])
            \/ /\ Len(s) <= Len(f) /\ Len(f) - Len(s) + 1 \in 1 .. Len(f)
               /\ s[1] = f[Len(f) - Len(s) + 1]
<1> DEFINE h == g \o f
<1>1. /\ IsSeq(h) /\ Len(h) = Len(g) + Len(f)
      /\ \A i \in 1 .. Len(g) : h[i] = g[i]
      /\ \A i \in 1 .. Len(f) : h[Len(g) + i] = f[i]
  BY Joined DEF Guards
<1>2. Rest(s, h) OBVIOUS
<1> HIDE DEF h
<1>3. /\ Len(s) \in Nat /\ Len(s) >= 1 /\ Len(Tail(s)) = Len(s) - 1 /\ Head(s) = s[1]
      /\ Len(h) - Len(s) + 1 \in 1 .. Len(h) /\ s[1] = h[Len(h) - Len(s) + 1]
  BY <1>2, RestTail
<1>4. Len(g) \in Nat /\ Len(f) \in Nat BY SeqLen DEF Guards
<1>5. CASE Len(s) > Len(f)
  <2>1. Len(h) - Len(s) + 1 \in 1 .. Len(g) BY <1>1, <1>3, <1>4, <1>5, SMT
  <2>2. s[1] = g[Len(h) - Len(s) + 1] BY <1>1, <1>3, <2>1
  <2>3. Guard(s[1]) BY <2>1, <2>2 DEF Guards
  <2>4. QED BY <1>3, <1>4, <1>5, <2>3
<1>6. CASE ~(Len(s) > Len(f))
  <2>1. /\ Len(f) - Len(s) + 1 \in 1 .. Len(f) /\ Len(s) <= Len(f)
        /\ Len(h) - Len(s) + 1 = Len(g) + (Len(f) - Len(s) + 1)
    BY <1>1, <1>3, <1>4, <1>6, SMT
  <2>2. s[1] = f[Len(f) - Len(s) + 1] BY <1>1, <1>3, <2>1
  <2>3. QED BY <1>3, <1>4, <2>1, <2>2
<1>7. QED BY <1>5, <1>6

-----------------------------------------------------------------------------
(* Handlers by the kinds of their steps. *)
MemKinds == {"store", "copy", "scratch"}
FlashKinds == {"program", "erase"}
CalmKinds == {"check", "overrun", "mark", "compare", "show", "jump", "restart", "set", "try", "set_one_of",
              "toggle"}
Only(s, kinds) == IsSeq(s) /\ \A k \in 1 .. Len(s) : s[k].do \in kinds

(* Handlers put together. *)
LEMMA OnlyJoin ==
  ASSUME NEW kinds, CalmKinds \subseteq kinds
  PROVE  /\ \A s, t : Only(s, kinds) /\ Only(t, kinds) => Only(s \o t, kinds)
         /\ \A s : Guards(s) => Only(s, kinds)
         /\ \A st : st.do \in kinds => Only(<<st>>, kinds)
         /\ Only(<<>>, kinds)
<1>1. ASSUME NEW s, NEW t, Only(s, kinds), Only(t, kinds) PROVE Only(s \o t, kinds)
  <2> DEFINE u == s \o t
  <2>1. /\ IsSeq(u)
        /\ \A i \in 1 .. Len(s) : u[i] = s[i]
        /\ \A i \in 1 .. Len(t) : u[Len(s) + i] = t[i]
        /\ \A i \in 1 .. Len(u) : i \in 1 .. Len(s) \/ \E j \in 1 .. Len(t) : i = Len(s) + j
    BY <1>1, Joined DEF Only
  <2> HIDE DEF u
  <2>2. ASSUME NEW i \in 1 .. Len(u) PROVE u[i].do \in kinds
    <3>1. CASE i \in 1 .. Len(s) BY <1>1, <2>1, <3>1 DEF Only
    <3>2. CASE \E j \in 1 .. Len(t) : i = Len(s) + j BY <1>1, <2>1, <3>2 DEF Only
    <3>3. QED BY <2>1, <3>1, <3>2
  <2>3. Only(u, kinds) BY <2>1, <2>2 DEF Only
  <2>4. QED BY <2>3 DEF u
<1>2. ASSUME NEW s, Guards(s) PROVE Only(s, kinds) BY <1>2 DEF Guards, Guard, Only, CalmKinds
<1>3. ASSUME NEW st, st.do \in kinds PROVE Only(<<st>>, kinds)
  <2>1. IsSeq(<<st>>) /\ Len(<<st>>) = 1 BY Tuples
  <2>2. \A k \in 1 .. 1 : k = 1 BY SMT
  <2>3. QED BY <1>3, <2>1, <2>2 DEF Only
<1>4. Only(<<>>, kinds)
  <2>1. IsSeq(<<>>) /\ Len(<<>>) = 0 BY Tuples
  <2>2. \A k \in 1 .. 0 : FALSE BY SMT
  <2>3. QED BY <2>1, <2>2 DEF Only
<1>5. QED BY <1>1, <1>2, <1>3, <1>4

(* cmd_mem.c: mem_read and mem_cmp write nothing. *)
LEMMA MemOnly ==
  ASSUME NEW p
  PROVE  /\ Only(mem_read(p), CalmKinds) /\ Only(mem_cmp(p), CalmKinds)
         /\ \A kinds : CalmKinds \subseteq kinds /\ MemKinds \subseteq kinds =>
              /\ Only(mem_write(p), kinds) /\ Only(mem_copy(p), kinds)
              /\ Only(mem_test(p), kinds) /\ Only(mem_speed(p), kinds)
<1>1. /\ \A n : Guards(Need(p, n)) /\ Guards(Num(p, n)) /\ Guards(Opt(p, n))
      /\ Guards(One(p)) /\ Guards(Two(p)) /\ Guards(Three(p))
  BY GuardsOf
<1>2. 0 \in Nat /\ 1 \in Nat /\ 4 \in Nat OBVIOUS
<1>3. Arg(p, 3, 1) \in Nat /\ Arg(p, 3, 0) \in Nat /\ Arg(p, 2, 0) \in Nat BY <1>2, Numeric
<1>4. ASSUME NEW kinds, CalmKinds \subseteq kinds, NEW c, Guards(c), NEW n \in Nat, NEW f,
             f = [k \in 1 .. n |-> f[k]], \A k \in 1 .. n : f[k].do \in kinds
      PROVE  Only(c \o f, kinds)
  <2>1. DOMAIN f = 1 .. n BY <1>4
  <2>2. IsSeq(f) /\ Len(f) = n BY <1>4, <2>1, SeqMade
  <2>3. Only(f, kinds) BY <1>4, <2>2 DEF Only
  <2>4. QED BY <1>4, <2>3, OnlyJoin
<1>5. Only(mem_read(p), CalmKinds)
  <2> DEFINE count == IF Len(p) = 1 THEN 4 ELSE Arg(p, 2, 0)
             a == Arg(p, 1, 0)
             n == (count + LineBytes - 1) \div LineBytes
             f == dump_bytes(a, count)
  <2>1. count \in Nat BY <1>2, <1>3
  <2>2. Guards(One(p) \o Opt(p, 2)) BY <1>1, GuardsJoin
  <2> HIDE DEF count, a
  <2>3. n \in Nat BY <2>1, DumpLines
  <2>4. f = [k \in 1 .. n |-> f[k]] BY DEF dump_bytes
  <2>5. \A k \in 1 .. n : f[k].do \in CalmKinds BY DEF dump_bytes, Show, CalmKinds
  <2> HIDE DEF f, n
  <2>6. Only((One(p) \o Opt(p, 2)) \o f, CalmKinds) BY <1>4, <2>2, <2>3, <2>4, <2>5
  <2>7. QED BY <2>6 DEF mem_read, f, count, a
<1>6. Only(mem_cmp(p), CalmKinds)
  <2> DEFINE n == Arg(p, 3, 0)
             f == [i \in 1 .. n |-> Compare(Arg(p, 1, 0) + 4 * (i - 1), Arg(p, 2, 0) + 4 * (i - 1))]
  <2>1. mem_cmp(p) = Three(p) \o f BY DEF mem_cmp
  <2>2. n \in Nat BY <1>3
  <2> HIDE DEF n
  <2>3. f = [k \in 1 .. n |-> f[k]] OBVIOUS
  <2>4. \A k \in 1 .. n : f[k].do \in CalmKinds BY DEF Compare, CalmKinds
  <2> HIDE DEF f
  <2>5. QED BY <1>1, <1>4, <2>1, <2>2, <2>3, <2>4
<1>7. ASSUME NEW kinds, CalmKinds \subseteq kinds, MemKinds \subseteq kinds
      PROVE  /\ Only(mem_write(p), kinds) /\ Only(mem_copy(p), kinds)
             /\ Only(mem_test(p), kinds) /\ Only(mem_speed(p), kinds)
  <2>1. Guards(Two(p) \o Opt(p, 3)) /\ Guards(One(p) \o Opt(p, 2)) BY <1>1, GuardsJoin
  <2>2. \A a, n : Only(<<Scratch(a, n)>>, kinds) BY <1>7, OnlyJoin DEF Scratch, MemKinds
  <2>3. Only(mem_write(p), kinds)
    <3> DEFINE size == IF Len(p) = 4 THEN Val(p[4]) ELSE 4
               n == Arg(p, 3, 1)
               f == [i \in 1 .. n |-> IF size \in {1, 2, 4}
                                  THEN Store(Arg(p, 1, 0) + size * (i - 1), size, Arg(p, 2, 0))
                                                            ELSE Check(FALSE, "bad")]
    <3>1. mem_write(p) = (Two(p) \o Opt(p, 3)) \o f BY DEF mem_write
    <3>2. n \in Nat BY <1>3
    <3> HIDE DEF n
    <3>3. f = [k \in 1 .. n |-> f[k]] OBVIOUS
    <3>4. \A k \in 1 .. n : f[k].do \in {"store", "check"} BY DEF Store, Check
    <3> HIDE DEF f
    <3>5. "store" \in kinds /\ "check" \in kinds BY <1>7 DEF CalmKinds, MemKinds
    <3>6. \A k \in 1 .. n : f[k].do \in kinds BY <3>4, <3>5
    <3>7. Only((Two(p) \o Opt(p, 3)) \o f, kinds) BY <1>4, <1>7, <2>1, <3>2, <3>3, <3>6
    <3>8. QED BY <3>1, <3>7
  <2>4. Only(mem_copy(p), kinds)
    <3> DEFINE n == Arg(p, 3, 1)
               f == [i \in 1 .. n |-> Copy(Arg(p, 1, 0) + 4 * (i - 1), Arg(p, 2, 0) + 4 * (i - 1))]
    <3>1. mem_copy(p) = (Two(p) \o Opt(p, 3)) \o f BY DEF mem_copy
    <3>2. n \in Nat BY <1>3
    <3> HIDE DEF n
    <3>3. f = [k \in 1 .. n |-> f[k]] OBVIOUS
    <3>4. \A k \in 1 .. n : f[k].do = "copy" BY DEF Copy
    <3> HIDE DEF f
    <3>5. "copy" \in kinds BY <1>7 DEF MemKinds
    <3>6. QED BY <1>4, <1>7, <2>1, <3>1, <3>2, <3>3, <3>4, <3>5
  <2>5. Only(mem_test(p), kinds) BY <1>7, <2>1, <2>2, OnlyJoin DEF mem_test
  <2>6. Only(mem_speed(p), kinds)
    <3>1. Guards(Two(p) \o Opt(p, 3) \o Opt(p, 4)) BY <1>1, <2>1, GuardsJoin
    <3>2. Only(IF Arg(p, 3, 0) = 0 THEN <<Scratch(Arg(p, 1, 0), Arg(p, 2, 0))>> ELSE <<>>, kinds)
      BY <1>7, <2>2, OnlyJoin, Zenon
    <3>3. QED BY <1>7, <3>1, <3>2, OnlyJoin DEF mem_speed
  <2>7. QED BY <2>3, <2>4, <2>5, <2>6
<1>8. QED BY <1>5, <1>6, <1>7

(* cmd_boot.c, cmd_bios.c, sim_debug.c and cmd_i2c.c write neither memory   *)
(* nor flash.                                                              *)
LEMMA DeviceOnly ==
  ASSUME NEW p, Len(p) \in Nat
  PROVE  \A h \in {boot(p), reboot, crc(p), leds(p), uptime, trace, mark, finish,
                   i2c_write(p), i2c_read(p), i2c_dev(p)} : Only(h, CalmKinds)
<1>1. /\ \A n : Guards(Need(p, n)) /\ Guards(Num(p, n)) /\ Guards(Opt(p, n))
      /\ Guards(One(p)) /\ Guards(Two(p)) /\ Guards(Three(p))
  BY GuardsOf
<1>2. \A ok : Only(<<Check(ok, "bad")>>, CalmKinds) BY OnlyJoin DEF Check, CalmKinds
<1>3. ASSUME NEW reg, NEW v
      PROVE  Only(<<Set(reg, v)>>, CalmKinds) /\ Only(<<Try(reg, v)>>, CalmKinds)
             /\ \A ok : Only(<<Check(ok, "bad"), Set(reg, v)>>, CalmKinds)
                        /\ Only(<<Check(ok, "bad"), Try(reg, v)>>, CalmKinds)
  <2>1. Set(reg, v).do \in CalmKinds /\ Try(reg, v).do \in CalmKinds BY DEF Set, Try, CalmKinds
  <2>2. Only(<<Set(reg, v)>>, CalmKinds) /\ Only(<<Try(reg, v)>>, CalmKinds) BY <2>1, OnlyJoin
  <2>3. \A ok : Check(ok, "bad").do \in CalmKinds BY DEF Check, CalmKinds
  <2>4. ASSUME NEW a, NEW b, a.do \in CalmKinds, b.do \in CalmKinds PROVE Only(<<a, b>>, CalmKinds)
    <3>1. IsSeq(<<a, b>>) /\ Len(<<a, b>>) = 2 BY Tuples
    <3>2. \A k \in 1 .. 2 : k = 1 \/ k = 2 BY SMT
    <3>3. QED BY <2>4, <3>1, <3>2 DEF Only
  <2>5. QED BY <2>1, <2>2, <2>3, <2>4
<1>4. Only(boot(p), CalmKinds)
  <2>1. Guards(One(p) \o Opt(p, 2) \o Opt(p, 3) \o Opt(p, 4)) BY <1>1, GuardsJoin
  <2>2. \A a, b, c, d : Jump(a, b, c, d).do \in CalmKinds BY DEF Jump, CalmKinds
  <2>3. QED BY <2>1, <2>2, OnlyJoin DEF boot
<1>5. Only(reboot, CalmKinds) /\ Only(trace, CalmKinds) /\ Only(mark, CalmKinds)
  <2>1. Restart.do \in CalmKinds /\ Toggle("trace").do \in CalmKinds /\ Mark.do \in CalmKinds
    BY DEF Restart, Toggle, Mark, CalmKinds
  <2>2. QED BY <2>1, OnlyJoin DEF reboot, trace, mark
<1>6. Only(crc(p), CalmKinds) BY <1>1, OnlyJoin DEF crc
<1>7. Only(leds(p), CalmKinds) /\ Only(uptime, CalmKinds) BY <1>1, <1>3, OnlyJoin DEF leds, uptime
<1>8. Only(finish, CalmKinds)
  <2>1. IsSeq(finish) /\ Len(finish) = 2 BY Tuples DEF finish
  <2>2. \A k \in 1 .. 2 : k = 1 \/ k = 2 BY SMT
  <2>3. finish[1].do \in CalmKinds /\ finish[2].do \in CalmKinds BY DEF finish, Set, CalmKinds
  <2>4. QED BY <2>1, <2>2, <2>3 DEF Only
<1>9. Only(i2c_write(p), CalmKinds)
  <2> DEFINE f == [i \in 1 .. Len(p) |-> Num(p, i)[1]]
             c == Need(p, 3) \o Num(p, 2) \o <<Check(Len(p) - 1 <= I2cBuf, "bad")>>
  <2>1. Only(c, CalmKinds) BY <1>1, <1>2, OnlyJoin
  <2>2. Only(f, CalmKinds)
    <3>1. \A k \in 1 .. Len(p) : f[k].do \in CalmKinds BY DEF Num, Check, CalmKinds
    <3>2. DOMAIN f = 1 .. Len(p) /\ f = [k \in 1 .. Len(p) |-> f[k]] OBVIOUS
    <3> HIDE DEF f
    <3>3. IsSeq(f) /\ Len(f) = Len(p) BY <3>2, SeqMade
    <3>4. QED BY <3>1, <3>3 DEF Only
  <2>3. i2c_write(p) = (c \o f) \o <<Try("i2c", p)>> BY DEF i2c_write
  <2> HIDE DEF c, f
  <2>4. Only(c \o f, CalmKinds) BY <2>1, <2>2, OnlyJoin
  <2> DEFINE last == <<Try("i2c", p)>>
  <2>5. Only(last, CalmKinds) BY <1>3
  <2> HIDE DEF last
  <2>6. Only((c \o f) \o last, CalmKinds) BY <2>4, <2>5, OnlyJoin
  <2>7. QED BY <2>3, <2>6 DEF last
<1>10. Only(i2c_read(p), CalmKinds)
  <2> DEFINE c == Three(p) \o <<Check(Arg(p, 3, 0) <= ReadBuf, "bad")>> \o Opt(p, 4) \o Opt(p, 5)
  <2>1. Only(c, CalmKinds) BY <1>1, <1>2, OnlyJoin
  <2>2. i2c_read(p) = c \o <<Check(Arg(p, 5, 1) \in 1..4, "bad"), Try("i2c_read", p)>> BY DEF i2c_read
  <2> DEFINE last == <<Check(Arg(p, 5, 1) \in 1..4, "bad"), Try("i2c_read", p)>>
  <2>3. Only(last, CalmKinds) BY <1>3
  <2> HIDE DEF c, last
  <2>4. Only(c \o last, CalmKinds) BY <2>1, <2>3, OnlyJoin
  <2>5. QED BY <2>2, <2>4 DEF last
<1>11. Only(i2c_dev(p), CalmKinds)
  <2> DEFINE last == <<Check(Val(p[1]) % Byte < I2cDevs, "bad"), Set("i2c_dev", <<Val(p[1]) % Byte>>)>>
  <2>1. Only(last, CalmKinds) BY <1>3
  <2>2. Only(Num(p, 1) \o last, CalmKinds) BY <1>1, <2>1, OnlyJoin
  <2>3. Only(<<>>, CalmKinds) BY OnlyJoin
  <2>4. QED BY <2>2, <2>3, Zenon DEF i2c_dev
<1>12. QED BY <1>4, <1>5, <1>6, <1>7, <1>8, <1>9, <1>10, <1>11

(* cmd_litesdcard.c, cmd_litesata.c, MDIO, and the network addresses write  *)
(* neither memory nor flash; cmd_spiflash.c writes flash.                  *)
LEMMA CardOnly ==
  ASSUME NEW p
  PROVE  /\ \A h \in {sdcard_init, sdcard_read(p), sdcard_write(p), sdcard_freq(p), sata_init, sata_read(p),
                      sata_write(p), mdio_write(p), mdio_read(p), mdio_dump(p),
                      set_local_ip(p), set_remote_ip(p), set_mac_addr(p)} : Only(h, CalmKinds)
         /\ \A kinds : CalmKinds \subseteq kinds /\ FlashKinds \subseteq kinds =>
              Only(flash_write(p), kinds) /\ Only(flash_erase_range(p), kinds)
<1>1. /\ \A n : Guards(Need(p, n)) /\ Guards(Num(p, n)) /\ Guards(Opt(p, n))
      /\ Guards(One(p)) /\ Guards(Two(p)) /\ Guards(Three(p))
  BY GuardsOf
<1>2. \A reg, v : Only(<<Set(reg, v)>>, CalmKinds) /\ Only(<<Try(reg, v)>>, CalmKinds)
  BY OnlyJoin DEF Set, Try, CalmKinds
<1>3. Only(sdcard_init, CalmKinds) /\ Only(sata_init, CalmKinds) BY <1>2 DEF sdcard_init, sata_init
<1>4. /\ Only(sdcard_read(p), CalmKinds) /\ Only(sata_read(p), CalmKinds) /\ Only(mdio_read(p), CalmKinds)
      /\ Only(mdio_dump(p), CalmKinds)
  BY <1>1, OnlyJoin DEF sdcard_read, sata_read, mdio_read, mdio_dump
<1>5. ASSUME NEW disk PROVE Only(WriteSector(disk, p), CalmKinds)
  <2> DEFINE last == <<Set(disk, <<Arg(p, 1, 0), Word(p, 2)>>)>>
  <2>1. Guards(Need(p, 2) \o Num(p, 1)) BY <1>1, GuardsJoin
  <2>2. Only(last, CalmKinds) BY <1>2
  <2> HIDE DEF last
  <2>3. Only((Need(p, 2) \o Num(p, 1)) \o last, CalmKinds) BY <2>1, <2>2, OnlyJoin
  <2>4. QED BY <2>3 DEF WriteSector, last
<1>6. Only(sdcard_write(p), CalmKinds) /\ Only(sata_write(p), CalmKinds) BY <1>5 DEF sdcard_write, sata_write
<1>7. Only(sdcard_freq(p), CalmKinds) /\ Only(mdio_write(p), CalmKinds)
  BY <1>1, <1>2, OnlyJoin DEF sdcard_freq, mdio_write
<1>8. ASSUME NEW reg, NEW chars, NEW sizes, NEW base, NEW most, NEW count
      PROVE  Only(Need(p, 1) \o set_address(reg, chars, sizes, base, most, count), CalmKinds)
  <2> DEFINE parsed == ParseFields(chars, base, most)
             written == Len(parsed.fields) - (IF parsed.ok THEN 0 ELSE 1)
             a == <<Check(Len(chars) \in sizes, "bad")>>
             b == IF written > count THEN <<Overrun>> ELSE <<>>
             c == <<Check(parsed.ok, "bad"), Check(Len(parsed.fields) = count, "bad"),
                    SetOneOf(reg, Readings(parsed.fields, most))>>
  <2>1. Only(a, CalmKinds) BY OnlyJoin DEF Check, CalmKinds
  <2>2. Only(b, CalmKinds)
    <3>1. Only(<<Overrun>>, CalmKinds) /\ Only(<<>>, CalmKinds) BY OnlyJoin DEF Overrun, CalmKinds
    <3>2. QED BY <3>1, Zenon
  <2>3. Only(c, CalmKinds)
    <3>1. IsSeq(c) /\ Len(c) = 3 BY Tuples
    <3>2. \A k \in 1 .. 3 : k \in {1, 2, 3} BY SMT
    <3>3. c[1].do = "check" /\ c[2].do = "check" /\ c[3].do = "set_one_of" BY DEF Check, SetOneOf
    <3> HIDE DEF c
    <3>4. QED BY <3>1, <3>2, <3>3 DEF Only, CalmKinds
  <2>4. set_address(reg, chars, sizes, base, most, count) = (a \o b) \o c BY DEF set_address
  <2> HIDE DEF a, b, c
  <2>5. Only(a \o b, CalmKinds) BY <2>1, <2>2, OnlyJoin
  <2>6. Only((a \o b) \o c, CalmKinds) BY <2>3, <2>5, OnlyJoin
  <2>7. Only(Need(p, 1), CalmKinds) BY <1>1, OnlyJoin
  <2>8. QED BY <2>4, <2>6, <2>7, OnlyJoin
<1>9. Only(set_local_ip(p), CalmKinds) /\ Only(set_remote_ip(p), CalmKinds) /\ Only(set_mac_addr(p), CalmKinds)
  BY <1>8 DEF set_local_ip, set_remote_ip, set_mac_addr
<1>10. ASSUME NEW kinds, CalmKinds \subseteq kinds, FlashKinds \subseteq kinds
       PROVE  Only(flash_write(p), kinds) /\ Only(flash_erase_range(p), kinds)
  <2>1. \A a, b, c : Only(<<Program(a, b, c)>>, kinds) /\ Only(<<Erase(a, b)>>, kinds)
    BY <1>10, OnlyJoin DEF Program, Erase, FlashKinds
  <2>2. Guards(Two(p) \o Opt(p, 3)) BY <1>1, GuardsJoin
  <2>3. Only(flash_erase_range(p), kinds) BY <1>1, <1>10, <2>1, OnlyJoin DEF flash_erase_range
  <2>4. Only(flash_write(p), kinds) BY <1>10, <2>1, <2>2, OnlyJoin DEF flash_write
  <2>5. QED BY <2>3, <2>4
<1>11. QED BY <1>3, <1>4, <1>6, <1>7, <1>9, <1>10

(* cmd_litedram.c: the initialisation and the tests write memory, the       *)
(* settings nothing but registers.                                         *)
LEMMA DramOnly ==
  ASSUME NEW p
  PROVE  /\ \A h \in {sdram_force_rdphase(p), sdram_force_wrphase(p), sdram_rst_cmd_delay,
                      sdram_force_cmd_delay(p), sdram_cal, sdram_rst_dat_delay(p), sdram_force_dat_delay(p),
                      sdram_rst_bitslip(p), sdram_force_bitslip(p), sdram_mr_write(p), sdram_spd(p)} :
              Only(h, CalmKinds)
         /\ \A kinds : CalmKinds \subseteq kinds /\ MemKinds \subseteq kinds =>
              \A h \in {sdram_bist(p), sdram_hw_test(p), sdram_init, sdram_test} : Only(h, kinds)
<1>1. /\ \A n : Guards(Need(p, n)) /\ Guards(Num(p, n)) /\ Guards(Opt(p, n))
      /\ Guards(One(p)) /\ Guards(Two(p)) /\ Guards(Three(p))
  BY GuardsOf
<1>2. ASSUME NEW reg, NEW v, NEW kinds, CalmKinds \subseteq kinds
      PROVE  /\ Only(Controlled(reg, v), kinds)
             /\ Only(One(p) \o Controlled(reg, v), kinds) /\ Only(Two(p) \o Controlled(reg, v), kinds)
  <2> DEFINE c == Controlled(reg, v)
  <2>1. IsSeq(c) /\ Len(c) = 3 BY Tuples DEF Controlled
  <2>2. \A k \in 1 .. 3 : k \in {1, 2, 3} BY SMT
  <2>3. c[1].do = "set" /\ c[2].do = "set" /\ c[3].do = "set" BY DEF Controlled, Set
  <2> HIDE DEF c
  <2>4. "set" \in kinds BY <1>2 DEF CalmKinds
  <2>5. Only(c, kinds) BY <2>1, <2>2, <2>3, <2>4 DEF Only
  <2>6. Only(One(p), kinds) /\ Only(Two(p), kinds) BY <1>1, <1>2, OnlyJoin
  <2>7. Only(One(p) \o c, kinds) /\ Only(Two(p) \o c, kinds) BY <1>2, <2>5, <2>6, OnlyJoin
  <2>8. QED BY <2>5, <2>7 DEF c
<1>3. /\ Only(sdram_rst_cmd_delay, CalmKinds) /\ Only(sdram_force_cmd_delay(p), CalmKinds)
      /\ Only(sdram_cal, CalmKinds) /\ Only(sdram_rst_dat_delay(p), CalmKinds)
      /\ Only(sdram_force_dat_delay(p), CalmKinds) /\ Only(sdram_rst_bitslip(p), CalmKinds)
      /\ Only(sdram_force_bitslip(p), CalmKinds) /\ Only(sdram_mr_write(p), CalmKinds)
  BY <1>2 DEF sdram_rst_cmd_delay, sdram_force_cmd_delay, sdram_cal, sdram_rst_dat_delay,
              sdram_force_dat_delay, sdram_rst_bitslip, sdram_force_bitslip, sdram_mr_write
<1>4. Only(sdram_force_rdphase(p), CalmKinds) /\ Only(sdram_force_wrphase(p), CalmKinds)
  <2>1. \A reg, v : Only(<<Set(reg, v)>>, CalmKinds) BY OnlyJoin DEF Set, CalmKinds
  <2>2. QED BY <1>1, <2>1, OnlyJoin DEF sdram_force_rdphase, sdram_force_wrphase
<1>5. Only(sdram_spd(p), CalmKinds)
  <2> DEFINE last == <<Check(Arg(p, 1, 0) % Byte <= 7, "bad"), Try("i2c_read", p)>>
  <2>1. IsSeq(last) /\ Len(last) = 2 BY Tuples
  <2>2. \A k \in 1 .. 2 : k = 1 \/ k = 2 BY SMT
  <2>3. last[1].do = "check" /\ last[2].do = "try" BY DEF Check, Try
  <2> HIDE DEF last
  <2>4. Only(last, CalmKinds) BY <2>1, <2>2, <2>3 DEF Only, CalmKinds
  <2>5. Only(One(p) \o last, CalmKinds) BY <1>1, <2>4, OnlyJoin
  <2>6. QED BY <2>5 DEF sdram_spd, last
<1>6. ASSUME NEW kinds, CalmKinds \subseteq kinds, MemKinds \subseteq kinds
      PROVE  \A h \in {sdram_bist(p), sdram_hw_test(p), sdram_init, sdram_test} : Only(h, kinds)
  <2>1. \A a, n : Only(<<Scratch(a, n)>>, kinds) BY <1>6, OnlyJoin DEF Scratch, MemKinds
  <2>2. Only(sdram_bist(p), kinds) BY <1>1, <1>6, <2>1, OnlyJoin DEF sdram_bist
  <2>3. Only(sdram_hw_test(p), kinds)
    <3>1. Guards(Two(p) \o Opt(p, 3)) BY <1>1, GuardsJoin
    <3>2. QED BY <1>6, <2>1, <3>1, OnlyJoin DEF sdram_hw_test
  <2>4. Only(sdram_init, kinds)
    <3>1. Only(Controlled("leveling", <<"done">>), kinds) BY <1>2, <1>6
    <3>2. QED BY <1>6, <2>1, <3>1, OnlyJoin DEF sdram_init
  <2>5. Only(sdram_test, kinds) BY <2>1 DEF sdram_test
  <2>6. QED BY <2>2, <2>3, <2>4, <2>5
<1>7. QED BY <1>3, <1>4, <1>5, <1>6

(* What a step of a command may write: three lists of commands write memory, *)
(* flash, and one or the other through a job.                              *)
Allowed(name, st) ==
  /\ st.do \in MemKinds => name \in MemWriters
  /\ st.do \in FlashKinds => name \in FlashWriters
  /\ st.do = "media" => IF st.from = "toflash" THEN name = "flash_from_sdcard" ELSE name \in Booters

LEMMA HandlerAllowed ==
  ASSUME NEW p, Len(p) \in Nat, NEW name \in CommandNames
  PROVE  \A k \in 1 .. Len(Handler(name, p)) : Allowed(name, Handler(name, p)[k])
<1> DEFINE h == Handler(name, p)
<1>1. CASE name \in Prints
  <2>1. h = <<>> /\ Len(<<>>) = 0 BY <1>1, Tuples DEF Handler
  <2>2. \A k \in 1 .. 0 : FALSE BY SMT
  <2>3. QED BY <2>1, <2>2
<1>2. CASE name \notin Prints /\ name \in Booters
  <2>1. h = <<Media(name, Word(p, 1))>> BY <1>2 DEF Handler
  <2>2. Len(<<Media(name, Word(p, 1))>>) = 1 BY Tuples
  <2>3. \A k \in 1 .. 1 : k = 1 BY SMT
  <2>4. Allowed(name, Media(name, Word(p, 1))) BY <1>2 DEF Allowed, Media, MemKinds, FlashKinds, Booters
  <2>5. QED BY <2>1, <2>2, <2>3, <2>4
<1>3. CASE name \notin Prints /\ name \notin Booters
  <2>1. DOMAIN Table(<<>>) = DOMAIN Table(p) BY DEF Table
  <2>2. name \in DOMAIN Table(p) BY <1>3, <2>1 DEF CommandNames
  <2>3. h = Table(p)[name] BY <1>3 DEF Handler
  <2> DEFINE Mem == CalmKinds \cup MemKinds
             Flash == CalmKinds \cup FlashKinds
  <2>4. CalmKinds \subseteq Mem /\ MemKinds \subseteq Mem /\ CalmKinds \subseteq Flash /\ FlashKinds \subseteq Flash
    OBVIOUS
  <2> HIDE DEF Mem, Flash
  <2>5. CASE name \in {"mem_write", "mem_copy", "mem_test", "mem_speed", "sdram_bist", "sdram_hw_test",
                       "sdram_init", "sdram_test"}
    <3>1. h \in {mem_write(p), mem_copy(p), mem_test(p), mem_speed(p), sdram_bist(p), sdram_hw_test(p),
                 sdram_init, sdram_test}
      BY <2>3, <2>5 DEF Table
    <3>2. Only(h, Mem) BY <2>4, <3>1, MemOnly, DramOnly
    <3>3. name \in MemWriters BY <2>5 DEF MemWriters
    <3>4. ASSUME NEW st, st.do \in Mem PROVE Allowed(name, st)
      BY <3>3, <3>4 DEF Mem, Allowed, CalmKinds, MemKinds, FlashKinds
    <3> HIDE DEF h
    <3>5. \A k \in 1 .. Len(h) : Allowed(name, h[k]) BY <3>2, <3>4 DEF Only
    <3>6. QED BY <3>5 DEF h
  <2>6. CASE name \in {"flash_write", "flash_erase_range"}
    <3>1. h \in {flash_write(p), flash_erase_range(p)} BY <2>3, <2>6 DEF Table
    <3>2. Only(h, Flash) BY <2>4, <3>1, CardOnly
    <3>3. name \in FlashWriters BY <2>6 DEF FlashWriters
    <3>4. ASSUME NEW st, st.do \in Flash PROVE Allowed(name, st)
      BY <3>3, <3>4 DEF Flash, Allowed, CalmKinds, MemKinds, FlashKinds
    <3> HIDE DEF h
    <3>5. \A k \in 1 .. Len(h) : Allowed(name, h[k]) BY <3>2, <3>4 DEF Only
    <3>6. QED BY <3>5 DEF h
  <2>7. CASE name = "flash_from_sdcard"
    <3>1. h = Need(p, 1) \o <<Media("toflash", Word(p, 1))>> BY <2>3, <2>7 DEF Table, flash_from_sdcard
    <3> DEFINE g == Need(p, 1)
               f == <<Media("toflash", Word(p, 1))>>
    <3>2. Guards(g) BY GuardsOf
    <3>3. IsSeq(f) /\ Len(f) = 1 /\ f[1] = Media("toflash", Word(p, 1)) BY Tuples
    <3> HIDE DEF g, f
    <3>4. /\ \A i \in 1 .. Len(g) : (g \o f)[i] = g[i]
          /\ \A i \in 1 .. Len(f) : (g \o f)[Len(g) + i] = f[i]
          /\ \A i \in 1 .. Len(g \o f) : i \in 1 .. Len(g) \/ \E j \in 1 .. Len(f) : i = Len(g) + j
      <4>1. IsSeq(g) /\ IsSeq(f) BY <3>2, <3>3 DEF Guards
      <4>2. QED BY <4>1, Joined
    <3>5. \A k \in 1 .. 1 : k = 1 BY SMT
    <3>6. ASSUME NEW st, Guard(st) \/ st = Media("toflash", Word(p, 1)) PROVE Allowed(name, st)
      BY <2>7, <3>6 DEF Guard, Media, Allowed, MemKinds, FlashKinds
    <3>7. ASSUME NEW k \in 1 .. Len(g \o f) PROVE Allowed(name, (g \o f)[k])
      <4>1. CASE k \in 1 .. Len(g) BY <3>2, <3>4, <3>6, <4>1 DEF Guards
      <4>2. CASE \E j \in 1 .. Len(f) : k = Len(g) + j BY <3>3, <3>4, <3>5, <3>6, <4>2
      <4>3. QED BY <3>4, <4>1, <4>2
    <3>8. QED BY <3>1, <3>7 DEF f, g
  <2>8. CASE name \notin {"mem_write", "mem_copy", "mem_test", "mem_speed", "sdram_bist", "sdram_hw_test",
                          "sdram_init", "sdram_test", "flash_write", "flash_erase_range", "flash_from_sdcard"}
    <3>1. Only(Table(p)[name], CalmKinds) BY <2>2, <2>8, MemOnly, DeviceOnly, CardOnly, DramOnly, SMTT(60) DEF Table
    <3>2. ASSUME NEW st, st.do \in CalmKinds PROVE Allowed(name, st)
      BY <3>2 DEF Allowed, CalmKinds, MemKinds, FlashKinds
    <3> HIDE DEF h
    <3>3. \A k \in 1 .. Len(h) : Allowed(name, h[k]) BY <2>3, <3>1, <3>2 DEF Only
    <3>4. QED BY <3>3 DEF h
  <2>9. QED BY <2>5, <2>6, <2>7, <2>8
<1>4. QED BY <1>1, <1>2, <1>3

-----------------------------------------------------------------------------
(* Who writes what. *)
WritesInv ==
  /\ phase = "command" => \A k \in 1 .. Len(prog) : Allowed(cmd.name, prog[k])
  /\ job # Idle => IF job.from = "toflash" THEN cmd.name = "flash_from_sdcard" /\ job.step # "flash"
                                           ELSE cmd.name \in Booters
  /\ cmd.name \notin MemWriters \cup {""} => mem = before.mem
  /\ cmd.name \notin FlashWriters \cup {""} => flash = before.flash
  /\ mem = [x \in Addr |-> mem[x]] /\ before.mem = [x \in Addr |-> before.mem[x]]

(* The job that writes the flash leaves memory alone, the others the flash. *)
LEMMA MediaWrites ==
  ASSUME JobInv, MediaStep, job.from = "toflash" => job.step # "flash"
  PROVE  /\ job' = Idle \/ (job'.from = job.from /\ (job.from = "toflash" => job'.step # "flash"))
         /\ job.from = "toflash" => mem' = mem
         /\ job.from # "toflash" => flash' = flash
         /\ mem' = mem \/ \E x, v : mem' = [mem EXCEPT ![x] = v]
<1>1. JobShape(job)
  <2>1. job # Idle BY MediaJob
  <2>2. QED BY <2>1 DEF JobInv
<1>2. DOMAIN job = Fields /\ job = [f \in Fields |-> job[f]] BY <1>1 DEF JobShape
<1>3. ReadStep \in {"mount", "read"} BY DEF ReadStep
<1>4. ASSUME NEW s \in {"open", "read"}, GoOn(s) PROVE job'.from = job.from /\ job'.step # "flash"
  BY <1>2, <1>4 DEF GoOn, Fields
<1>5. ASSUME Fails PROVE job' = Idle \/ (job'.from = job.from /\ job'.step # "flash")
  BY <1>2, <1>3, <1>5 DEF Fails, Fields
<1>6. ASSUME NEW r1, NEW r2, NEW r3, NEW a, boot_helper(r1, r2, r3, a) PROVE job' = Idle
  BY <1>6 DEF boot_helper
<1>7. CASE Mount BY <1>4, <1>5, <1>7 DEF Mount
<1>8. CASE Open BY <1>4, <1>5, <1>8 DEF Open
<1>9. CASE ReadFails BY <1>5, <1>9 DEF ReadFails
<1>10. CASE FlashChunk
  <2>1. job.step = "flash" /\ flash' = flash /\ mem' = [mem EXCEPT ![MainRamBase + job.got] = flash[job.got + 2]]
        /\ job' = [job EXCEPT !.got = job.got + 1]
    BY <1>10 DEF FlashChunk
  <2>2. job'.from = job.from BY <1>2, <2>1 DEF Fields
  <2>3. job.from # "toflash" BY <2>1
  <2>4. QED BY <2>1, <2>2, <2>3
<1>11. CASE ReadEnds
  <2>1. mem' = mem /\ flash' = flash BY <1>11 DEF ReadEnds
  <2>2. \/ job' = [job EXCEPT !.step = "tokens", !.i = job.i + 1, !.imageFound = TRUE,
                              !.addr = IF job.addrFound THEN job.addr ELSE job.at]
        \/ boot_helper(0, 0, 0, MainRamBase) \/ job' = Idle
    BY <1>11 DEF ReadEnds
  <2>3. CASE job' = [job EXCEPT !.step = "tokens", !.i = job.i + 1, !.imageFound = TRUE,
                              !.addr = IF job.addrFound THEN job.addr ELSE job.at]
    <3>1. job'.from = job.from /\ job'.step = "tokens" BY <1>2, <2>3 DEF Fields
    <3>2. QED BY <2>1, <3>1
  <2>4. QED BY <1>6, <2>1, <2>2, <2>3
<1>12. CASE TokensEnd
  <2>1. mem' = mem /\ flash' = flash BY <1>12 DEF TokensEnd
  <2>2. Fails \/ boot_helper(job.r["r1"], job.r["r2"], job.r["r3"], job.addr) BY <1>12, Zenon DEF TokensEnd
  <2>3. QED BY <1>5, <1>6, <2>1, <2>2
<1>13. CASE FlashEnds BY <1>6, <1>13 DEF FlashEnds
<1>14. CASE ReadJson
  <2>1. mem' = mem /\ flash' = flash BY <1>14 DEF ReadJson
  <2>2. Fails \/ \E t : job' = [job EXCEPT !.step = "tokens", !.tokens = t] BY <1>14 DEF ReadJson
  <2>3. ASSUME NEW t, job' = [job EXCEPT !.step = "tokens", !.tokens = t]
        PROVE  job'.from = job.from /\ job'.step # "flash"
    BY <1>2, <2>3 DEF Fields
  <2>4. QED BY <1>5, <2>1, <2>2, <2>3
<1>15. CASE Token
  <2>1. mem' = mem /\ flash' = flash BY <1>15 DEF Token
  <2>2. job.step = "tokens" BY <1>15 DEF Token, InTokens
  <2>3. SkipToken \/ BootAddr \/ BootRegister \/ BootImage BY <1>15 DEF Token
  <2>4. CASE SkipToken
    <3>1. job'.from = job.from /\ job'.step = job.step BY <1>2, <2>4 DEF SkipToken, NextToken, Fields
    <3>2. QED BY <2>1, <2>2, <3>1
  <2>5. CASE BootAddr
    <3>1. job'.from = job.from /\ job'.step = job.step BY <1>2, <2>5 DEF BootAddr, NextToken, Fields
    <3>2. QED BY <2>1, <2>2, <3>1
  <2>6. CASE BootRegister
    <3>1. job'.from = job.from /\ job'.step = job.step BY <1>2, <2>6 DEF BootRegister, NextToken, Fields
    <3>2. QED BY <2>1, <2>2, <3>1
  <2>7. CASE BootImage
    <3>1. job'.from = job.from /\ job'.step # "flash" BY <1>2, <1>3, <2>7 DEF BootImage, Fields
    <3>2. QED BY <2>1, <3>1
  <2>8. QED BY <2>3, <2>4, <2>5, <2>6, <2>7
<1>16. ASSUME NEW from, NEW use, ReadChunk, job.from = from, job.use = use, use = "toflash" <=> from = "toflash"
       PROVE  /\ job'.from = job.from /\ job'.step # "flash"
              /\ job.from = "toflash" => mem' = mem
              /\ job.from # "toflash" => flash' = flash
              /\ mem' = mem \/ \E x, v : mem' = [mem EXCEPT ![x] = v]
  <2>1. job.step = "read" /\ job' = [job EXCEPT !.got = job.got + 1] BY <1>16 DEF ReadChunk
  <2>2. job'.from = job.from /\ job'.step # "flash" BY <1>2, <2>1 DEF Fields
  <2>3. CASE job.use = "toflash"
    <3>1. mem' = mem BY <1>16, <2>3 DEF ReadChunk
    <3>2. QED BY <1>16, <2>2, <2>3, <3>1
  <2>4. CASE job.use # "toflash"
    <3>1. flash' = flash /\ \E x, v : mem' = [mem EXCEPT ![x] = v] BY <1>16, <2>4 DEF ReadChunk
    <3>2. QED BY <1>16, <2>2, <2>4, <3>1
  <2>5. QED BY <2>3, <2>4
<1>17. \/ Mount \/ Open \/ ReadFails \/ ReadEnds \/ ReadJson \/ Token \/ TokensEnd \/ FlashChunk \/ FlashEnds
       \/ \E from \in {"sdcard", "sata", "net"}, use \in {"image", "bin"} :
            ReadChunk /\ job.from = from /\ job.use = use
       \/ ReadChunk /\ job.from = "toflash" /\ job.use = "toflash"
  BY DEF MediaStep, copy_file_from_sdcard_to_ram, sdcardboot_from_json, sdcardboot_from_bin,
         copy_file_from_sata_to_ram, sataboot_from_json, sataboot_from_bin,
         copy_file_from_tftp_to_ram, netboot_from_json, netboot_from_bin,
         copy_file_to_flash, copy_image_from_flash_to_ram, Copying, FromJson
<1>18. CASE \/ \E from \in {"sdcard", "sata", "net"}, use \in {"image", "bin"} :
                 ReadChunk /\ job.from = from /\ job.use = use
            \/ ReadChunk /\ job.from = "toflash" /\ job.use = "toflash"
  BY <1>16, <1>18
<1>19. QED BY <1>7, <1>8, <1>9, <1>10, <1>11, <1>12, <1>13, <1>14, <1>15, <1>17, <1>18

-----------------------------------------------------------------------------
(* The four commands that loop: the rounds of their loops. *)
SizeOf(p) == IF Len(p) = 4 THEN Val(p[4]) ELSE 4
CountOf(p) == IF Len(p) = 1 THEN 4 ELSE Arg(p, 2, 0)
LineCount(count) == (count + LineBytes - 1) \div LineBytes
LineLen(count, k) == IF count - (k - 1) * LineBytes > LineBytes THEN LineBytes ELSE count - (k - 1) * LineBytes

WriteLoop(p) ==
  [i \in 1 .. Arg(p, 3, 1) |-> IF SizeOf(p) \in {1, 2, 4}
                               THEN Store(Arg(p, 1, 0) + SizeOf(p) * (i - 1), SizeOf(p), Arg(p, 2, 0))
                               ELSE Check(FALSE, "bad")]
CopyLoop(p) == [i \in 1 .. Arg(p, 3, 1) |-> Copy(Arg(p, 1, 0) + 4 * (i - 1), Arg(p, 2, 0) + 4 * (i - 1))]
ReadLoop(p) ==
  [k \in 1 .. LineCount(CountOf(p)) |-> Show(Arg(p, 1, 0) + (k - 1) * LineBytes, LineLen(CountOf(p), k))]
CompareLoop(p) ==
  [i \in 1 .. Arg(p, 3, 0) |-> Compare(Arg(p, 1, 0) + 4 * (i - 1), Arg(p, 2, 0) + 4 * (i - 1))]
BootStep(p) ==
  <<Jump(Arg(p, 2, 0), IF Len(p) > 3 THEN Arg(p, 4, 0) ELSE Arg(p, 3, 0), 0, Arg(p, 1, 0))>>

(* A handler of checks and a loop. *)
LoopsOver(h, f, n) == n \in Nat /\ IsSeq(f) /\ Len(f) = n /\ \E g : Guards(g) /\ h = g \o f

LEMMA Loops ==
  ASSUME NEW p
  PROVE  /\ LoopsOver(Handler("mem_write", p), WriteLoop(p), Arg(p, 3, 1))
         /\ LoopsOver(Handler("mem_copy", p), CopyLoop(p), Arg(p, 3, 1))
         /\ LoopsOver(Handler("mem_read", p), ReadLoop(p), LineCount(CountOf(p)))
         /\ LoopsOver(Handler("mem_cmp", p), CompareLoop(p), Arg(p, 3, 0))
         /\ LoopsOver(Handler("boot", p), BootStep(p), 1)
<1>1. /\ \A n : Guards(Opt(p, n)) /\ Guards(One(p)) /\ Guards(Two(p)) /\ Guards(Three(p)) BY GuardsOf
<1>2. /\ Guards(Two(p) \o Opt(p, 3)) /\ Guards(One(p) \o Opt(p, 2))
      /\ Guards(One(p) \o Opt(p, 2) \o Opt(p, 3) \o Opt(p, 4))
  BY <1>1, GuardsJoin
<1>3. 0 \in Nat /\ 1 \in Nat /\ 4 \in Nat OBVIOUS
<1>4. Arg(p, 3, 1) \in Nat /\ Arg(p, 3, 0) \in Nat /\ CountOf(p) \in Nat BY <1>3, Numeric, Zenon DEF CountOf
<1>5. LineCount(CountOf(p)) \in Nat BY <1>4, DumpLines DEF LineCount
<1>6. /\ Handler("mem_write", p) = mem_write(p) /\ Handler("mem_copy", p) = mem_copy(p)
      /\ Handler("mem_read", p) = mem_read(p) /\ Handler("mem_cmp", p) = mem_cmp(p)
      /\ Handler("boot", p) = boot(p)
  BY DEF Handler, Prints, Booters, Table
<1>7. ASSUME NEW g, Guards(g), NEW n \in Nat, NEW f, f = [k \in 1 .. n |-> f[k]]
      PROVE  LoopsOver(g \o f, f, n)
  <2>1. DOMAIN f = 1 .. n BY <1>7
  <2>2. IsSeq(f) /\ Len(f) = n BY <1>7, <2>1, SeqMade
  <2>3. QED BY <1>7, <2>2 DEF LoopsOver
<1>8. LoopsOver(mem_write(p), WriteLoop(p), Arg(p, 3, 1))
  <2>1. WriteLoop(p) = [k \in 1 .. Arg(p, 3, 1) |-> WriteLoop(p)[k]] BY DEF WriteLoop
  <2>2. mem_write(p) = (Two(p) \o Opt(p, 3)) \o WriteLoop(p) BY DEF mem_write, WriteLoop, SizeOf
  <2>3. QED BY <1>2, <1>4, <1>7, <2>1, <2>2
<1>9. LoopsOver(mem_copy(p), CopyLoop(p), Arg(p, 3, 1))
  <2>1. CopyLoop(p) = [k \in 1 .. Arg(p, 3, 1) |-> CopyLoop(p)[k]] BY DEF CopyLoop
  <2>2. mem_copy(p) = (Two(p) \o Opt(p, 3)) \o CopyLoop(p) BY DEF mem_copy, CopyLoop
  <2>3. QED BY <1>2, <1>4, <1>7, <2>1, <2>2
<1>10. LoopsOver(mem_read(p), ReadLoop(p), LineCount(CountOf(p)))
  <2>1. ReadLoop(p) = [k \in 1 .. LineCount(CountOf(p)) |-> ReadLoop(p)[k]] BY DEF ReadLoop
  <2>2. mem_read(p) = (One(p) \o Opt(p, 2)) \o ReadLoop(p)
    BY DEF mem_read, dump_bytes, ReadLoop, LineCount, LineLen, CountOf
  <2>3. QED BY <1>2, <1>5, <1>7, <2>1, <2>2
<1>11. LoopsOver(mem_cmp(p), CompareLoop(p), Arg(p, 3, 0))
  <2>1. CompareLoop(p) = [k \in 1 .. Arg(p, 3, 0) |-> CompareLoop(p)[k]] BY DEF CompareLoop
  <2>2. mem_cmp(p) = Three(p) \o CompareLoop(p) BY DEF mem_cmp, CompareLoop
  <2>3. QED BY <1>1, <1>4, <1>7, <2>1, <2>2
<1>12. LoopsOver(boot(p), BootStep(p), 1)
  <2>1. IsSeq(BootStep(p)) /\ Len(BootStep(p)) = 1 BY Tuples DEF BootStep
  <2>2. boot(p) = (One(p) \o Opt(p, 2) \o Opt(p, 3) \o Opt(p, 4)) \o BootStep(p) BY DEF boot, BootStep
  <2>3. QED BY <1>2, <1>3, <2>1, <2>2 DEF LoopsOver
<1>13. QED BY <1>6, <1>8, <1>9, <1>10, <1>11, <1>12

(* What the invariant says of commands that loop. *)
Calls(name) == phase = "command" /\ reply = "none" /\ cmd.name = name
Gone(s, n) == IF Len(s) <= n THEN n - Len(s) ELSE 0
Rounds(n) == Gone(prog, n)
SourceInMem == Asked(2, 0) .. (Asked(2, 0) + 4 * Asked(3, 1) - 1) \subseteq Addr
Printed(n) ==
  /\ IsSeq(shown) /\ Len(shown) = n
  /\ \A k \in 1 .. n :
       shown[k] = [addr |-> Asked(1, 0) + (k - 1) * LineBytes,
                   bytes |-> [j \in 1 .. LineLen(ReadCount, k) |->
                                before.mem[Asked(1, 0) + (k - 1) * LineBytes + j - 1]]]

RoundsInv ==
  /\ phase = "command" => reply # "done" /\ Len(cmd.params) \in Nat
  /\ phase = "command" /\ reply = "none" => Rest(prog, Handler(cmd.name, cmd.params))
  /\ Calls("mem_write") => Written(Rounds(Asked(3, 1)))
  /\ Calls("mem_copy") /\ SourceInMem => Copied(Rounds(Asked(3, 1)))
  /\ Calls("mem_read") => Printed(Rounds(LineCount(ReadCount)))
  /\ Calls("mem_cmp") => Compared(Rounds(Asked(3, 0)))

(* A command that goes on. *)
LEMMA GoesOn ==
  ASSUME BiosInv, Next, phase = "command", reply = "none", phase' = "command", reply' = "none"
  PROVE  /\ cmd' = cmd /\ before' = before
         /\ \/ job # Idle /\ prog' = prog
            \/ /\ job = Idle /\ prog # <<>> /\ prog' = Tail(prog) /\ Now.do # "overrun"
               /\ Now.do = "check" => Now.ok /\ UNCHANGED <<mem, shown, same>>
               /\ Now.do = "store" => mem' = Overlay(mem, Now.a, Now.size, LAMBDA k : ByteOf(Now.v, k))
               /\ Now.do = "copy" => mem' = Overlay(mem, Now.d, 4, LAMBDA k : mem[Now.s + k])
               /\ Now.do = "show" => shown' = Append(shown, [addr |-> Now.a, bytes |-> Bytes(Now.a, Now.n)])
               /\ Now.do = "compare" => same' = (same /\ Bytes(Now.a, 4) = Bytes(Now.b, 4))
<1>1. CASE MediaRuns
  <2>1. job # Idle BY <1>1, MediaJob DEF MediaRuns, BiosInv
  <2>2. QED BY <1>1, <2>1 DEF MediaRuns
<1>2. CASE CheckStep
  <2>1. At({"check"}) BY <1>2 DEF CheckStep
  <2>2. Now.ok
    <3>1. SUFFICES ASSUME ~Now.ok PROVE FALSE OBVIOUS
    <3>2. LeavesWith(Now.reply) BY <1>2, <3>1, Zenon DEF CheckStep
    <3>3. Now.reply \in {"usage", "bad"} BY <2>1, NowIs DEF At
    <3>4. QED BY <3>2, <3>3 DEF LeavesWith
  <2>3. Advance /\ UNCHANGED <<media, dev, reply, shown, same>> BY <1>2, <2>2, Zenon DEF CheckStep
  <2>4. UNCHANGED <<mem, shown, same>> BY <2>3 DEF media
  <2>5. QED BY <2>1, <2>2, <2>3, <2>4 DEF At, Advance
<1>3. CASE Refused BY <1>3 DEF Refused, LeavesWith
<1>4. CASE RegisterStep BY <1>4 DEF RegisterStep, At, Advance
<1>5. CASE MemoryStep
  <2>1. /\ job = Idle /\ prog # <<>> /\ prog' = Tail(prog) /\ cmd' = cmd /\ before' = before
        /\ Now.do \in {"store", "copy", "scratch"}
    BY <1>5 DEF MemoryStep, At, Advance
  <2>2. Now.do = "store" => mem' = Overlay(mem, Now.a, Now.size, LAMBDA k : ByteOf(Now.v, k))
    BY <1>5 DEF MemoryStep, Overlay
  <2>3. Now.do = "copy" => mem' = Overlay(mem, Now.d, 4, LAMBDA k : mem[Now.s + k])
    BY <1>5 DEF MemoryStep, Overlay
  <2>4. QED BY <2>1, <2>2, <2>3
<1>6. CASE FlashStep BY <1>6 DEF FlashStep, At, Advance
<1>7. CASE ShowStep BY <1>7 DEF ShowStep, At, Advance
<1>8. CASE CompareStep BY <1>8, Zenon DEF CompareStep, At, Advance
<1>9. CASE MediaStart BY <1>9 DEF MediaStart, At
<1>10. CASE TypeLine \/ Leave \/ Return \/ ctrl_reset_write \/ ResetButton
  <2>1. phase = "prompt" \/ phase' \in {"booted", "overrun", "prompt"}
    BY <1>10 DEF TypeLine, Leave, Return, ctrl_reset_write, ResetButton, Restarted
  <2>2. QED BY <2>1
<1>11. QED BY <1>1, <1>2, <1>3, <1>4, <1>5, <1>6, <1>7, <1>8, <1>9, <1>10 DEF Next, CommandStep

-----------------------------------------------------------------------------
(* What the rounds of mem_write and of mem_copy leave in memory. *)
StoreAt(m, a, size, v) ==
  [x \in Addr |-> IF x \in a .. (a + size - 1) THEN ByteOf(v, x - a) ELSE m[x]]
Stored(m, old, a, size, count, v) ==
  m = [x \in Addr |-> IF x \in a .. (a + size * count - 1) THEN ByteOf(v, (x - a) % size) ELSE old[x]]
CopyAt(m, d, s) ==
  [x \in Addr |-> IF x \in d .. (d + 4 - 1) THEN m[s + (x - d)] ELSE m[x]]
CopiedOver(m, old, d, s, count) ==
  m = [x \in Addr |-> IF x \in d .. (d + 4 * count - 1)
                      THEN IF s + (x - d) \in d .. (d + 4 * ((x - d) \div 4) - 1)
                           THEN m[s + (x - d)] ELSE old[s + (x - d)]
                      ELSE old[x]]

(* One more value behind the others. *)
LEMMA StoreRound ==
  ASSUME NEW old, NEW m, NEW a \in Nat, NEW size \in {1, 2, 4}, NEW i \in Nat, NEW v, Stored(m, old, a, size, i, v)
  PROVE  Stored(StoreAt(m, a + size * i, size, v), old, a, size, i + 1, v)
<1> DEFINE w == StoreAt(m, a + size * i, size, v)
<1>was. m = [x \in Addr |-> IF x \in a .. (a + size * i - 1) THEN ByteOf(v, (x - a) % size) ELSE old[x]]
  BY DEF Stored
<1>now. w = [x \in Addr |-> IF x \in (a + size * i) .. (a + size * i + size - 1)
                           THEN ByteOf(v, x - (a + size * i)) ELSE m[x]]
  BY DEF StoreAt
<1> HIDE DEF w
<1>1. \A x \in Addr : x \in Nat BY PlacesAssumption, SMT DEF Addr
<1>2. ASSUME NEW x \in Addr
      PROVE  w[x] = IF x \in a .. (a + size * (i + 1) - 1) THEN ByteOf(v, (x - a) % size) ELSE old[x]
  <2>1. x \in Nat BY <1>1
  <2>2. CASE x \in (a + size * i) .. (a + size * i + size - 1)
    <3>1. w[x] = ByteOf(v, x - (a + size * i)) BY <1>now, <2>2
    <3>2. x \in a .. (a + size * (i + 1) - 1) /\ (x - a) % size = x - (a + size * i)
      <4>1. CASE size = 1 BY <2>1, <2>2, <4>1, SMT
      <4>2. CASE size = 2 BY <2>1, <2>2, <4>2, SMT
      <4>3. CASE size = 4 BY <2>1, <2>2, <4>3, SMT
      <4>4. QED BY <4>1, <4>2, <4>3
    <3>3. QED BY <3>1, <3>2
  <2>3. CASE x \notin (a + size * i) .. (a + size * i + size - 1)
    <3>1. w[x] = m[x] BY <1>now, <2>3
    <3>2. x \in a .. (a + size * (i + 1) - 1) <=> x \in a .. (a + size * i - 1)
      <4>1. CASE size = 1 BY <2>1, <2>3, <4>1, SMT
      <4>2. CASE size = 2 BY <2>1, <2>3, <4>2, SMT
      <4>3. CASE size = 4 BY <2>1, <2>3, <4>3, SMT
      <4>4. QED BY <4>1, <4>2, <4>3
    <3>3. QED BY <1>was, <3>1, <3>2
  <2>4. QED BY <2>2, <2>3
<1>3. w = [x \in Addr |-> IF x \in a .. (a + size * (i + 1) - 1) THEN ByteOf(v, (x - a) % size) ELSE old[x]]
  BY <1>now, <1>2
<1>4. QED BY <1>3 DEF Stored, w

(* The word a byte is in. *)
LEMMA Quarter ==
  ASSUME NEW i \in Nat, NEW z \in Nat, 4 * i <= z, z <= 4 * i + 3
  PROVE  z \div 4 = i
OBVIOUS

(* One more word copied, from what was there or was copied there before. *)
LEMMA CopyRound ==
  ASSUME NEW old, NEW m, NEW d \in Nat, NEW s \in Nat, NEW i \in Nat, NEW n \in Nat, i < n,
         s .. (s + 4 * n - 1) \subseteq Addr, CopiedOver(m, old, d, s, i)
  PROVE  CopiedOver(CopyAt(m, d + 4 * i, s + 4 * i), old, d, s, i + 1)
<1> DEFINE w == CopyAt(m, d + 4 * i, s + 4 * i)
<1>was. m = [x \in Addr |-> IF x \in d .. (d + 4 * i - 1)
                           THEN IF s + (x - d) \in d .. (d + 4 * ((x - d) \div 4) - 1)
                                THEN m[s + (x - d)] ELSE old[s + (x - d)]
                           ELSE old[x]]
  BY DEF CopiedOver
<1>now. w = [x \in Addr |-> IF x \in (d + 4 * i) .. (d + 4 * i + 4 - 1)
                           THEN m[(s + 4 * i) + (x - (d + 4 * i))] ELSE m[x]]
  BY DEF CopyAt
<1> HIDE DEF w
<1>1. \A x \in Addr : x \in Nat BY PlacesAssumption, SMT DEF Addr
<1>2. ASSUME NEW x \in Addr
      PROVE  w[x] = IF x \in d .. (d + 4 * (i + 1) - 1)
                    THEN IF s + (x - d) \in d .. (d + 4 * ((x - d) \div 4) - 1)
                         THEN w[s + (x - d)] ELSE old[s + (x - d)]
                    ELSE old[x]
  <2>1. x \in Nat BY <1>1
  <2> DEFINE y == s + (x - d)
  <2>2. ASSUME x \in d .. (d + 4 * (i + 1) - 1) PROVE y \in Nat /\ y \in Addr
    <3>1. y \in s .. (s + 4 * n - 1) BY <2>1, <2>2, SMT
    <3>2. QED BY <1>1, <3>1
  <2>3. CASE x \in (d + 4 * i) .. (d + 4 * i + 4 - 1)
    <3>1. x \in d .. (d + 4 * (i + 1) - 1) /\ (x - d) \div 4 = i /\ (s + 4 * i) + (x - (d + 4 * i)) = y
      <4>1. x \in d .. (d + 4 * (i + 1) - 1) BY <2>1, <2>3, SMT
      <4>2. (s + 4 * i) + (x - (d + 4 * i)) = y BY <2>1, SMT
      <4>3. (x - d) \div 4 = i
        <5>1. x - d \in Nat /\ 4 * i <= x - d /\ x - d <= 4 * i + 3 BY <2>1, <2>3, SMT
        <5>2. QED BY <5>1, Quarter
      <4>4. QED BY <4>1, <4>2, <4>3
    <3>2. w[x] = m[y] BY <1>now, <2>3, <3>1
    <3>3. y \in Nat /\ y \in Addr BY <2>2, <3>1
    <3> HIDE DEF y
    <3>4. CASE y \in d .. (d + 4 * i - 1)
      <4>1. y \notin (d + 4 * i) .. (d + 4 * i + 4 - 1) BY <3>3, <3>4, SMT
      <4>2. w[y] = m[y] BY <1>now, <3>3, <4>1
      <4>3. QED BY <3>1, <3>2, <3>4, <4>2 DEF y
    <3>5. CASE y \notin d .. (d + 4 * i - 1)
      <4>1. m[y] = old[y] BY <1>was, <3>3, <3>5
      <4>2. QED BY <3>1, <3>2, <3>5, <4>1 DEF y
    <3>6. QED BY <3>4, <3>5
  <2>4. CASE x \in d .. (d + 4 * i - 1)
    <3>1. /\ x \in d .. (d + 4 * (i + 1) - 1) /\ x \notin (d + 4 * i) .. (d + 4 * i + 4 - 1)
          /\ (x - d) \div 4 < i /\ (x - d) \div 4 \in Nat
      BY <2>1, <2>4, SMT
    <3>2. w[x] = m[x] BY <1>now, <3>1
    <3>3. y \in Nat /\ y \in Addr BY <2>2, <3>1
    <3>4. m[x] = IF y \in d .. (d + 4 * ((x - d) \div 4) - 1) THEN m[y] ELSE old[y] BY <1>was, <2>4
    <3> HIDE DEF y
    <3>5. y \in d .. (d + 4 * ((x - d) \div 4) - 1) => w[y] = m[y]
      <4>1. ASSUME y \in d .. (d + 4 * ((x - d) \div 4) - 1) PROVE y \notin (d + 4 * i) .. (d + 4 * i + 4 - 1)
        BY <3>1, <3>3, <4>1, SMT
      <4>2. QED BY <1>now, <3>3, <4>1
    <3>6. QED BY <3>1, <3>2, <3>4, <3>5 DEF y
  <2>5. CASE x \notin d .. (d + 4 * i - 1) /\ x \notin (d + 4 * i) .. (d + 4 * i + 4 - 1)
    <3>1. x \notin d .. (d + 4 * (i + 1) - 1) BY <2>1, <2>5, SMT
    <3>2. w[x] = m[x] /\ m[x] = old[x] BY <1>was, <1>now, <2>5
    <3>3. QED BY <3>1, <3>2
  <2>6. QED BY <2>3, <2>4, <2>5
<1>3. w = [x \in Addr |-> IF x \in d .. (d + 4 * (i + 1) - 1)
                          THEN IF s + (x - d) \in d .. (d + 4 * ((x - d) \div 4) - 1)
                               THEN w[s + (x - d)] ELSE old[s + (x - d)]
                          ELSE old[x]]
  BY <1>now, <1>2
<1>4. QED BY <1>3 DEF CopiedOver, w

(* The lines of a dump: all but the last are full. *)
LEMMA LinesOfDump ==
  ASSUME NEW count \in Nat, NEW k \in 1 .. LineCount(count)
  PROVE  /\ LineLen(count, k) \in 1 .. LineBytes
         /\ k # LineCount(count) => LineLen(count, k) = LineBytes
         /\ k = LineCount(count) => (k - 1) * LineBytes + LineLen(count, k) = count
<1>1. LineBytes \in Nat /\ LineBytes # 0 BY SizesAssumption
<1> DEFINE n == LineCount(count)
<1>2. n \in Nat BY DumpLines DEF LineCount
<1>3. n * LineBytes <= count + LineBytes - 1 /\ count + LineBytes - 1 < n * LineBytes + LineBytes
  <2> DEFINE c == count + LineBytes - 1
  <2>1. c \in Nat BY <1>1, SMT
  <2> HIDE DEF c
  <2>2. (c \div LineBytes) * LineBytes <= c /\ c < (c \div LineBytes) * LineBytes + LineBytes BY <1>1, <2>1, SMT
  <2>3. QED BY <2>2 DEF c, LineCount
<1> HIDE DEF n
<1>4. k \in Nat /\ k >= 1 /\ k <= n
  <2>1. k \in 1 .. n BY DEF n
  <2>2. QED BY <1>2, <2>1, SMT
<1>5. /\ (k - 1) * LineBytes \in Nat /\ n * LineBytes \in Nat /\ k * LineBytes \in Nat
      /\ k * LineBytes = (k - 1) * LineBytes + LineBytes
  BY <1>1, <1>2, <1>4, SMT
<1>6. CASE k = n
  <2>1. /\ ~(count - (k - 1) * LineBytes > LineBytes) /\ count - (k - 1) * LineBytes \in 1 .. LineBytes
        /\ (k - 1) * LineBytes + (count - (k - 1) * LineBytes) = count
    BY <1>1, <1>3, <1>5, <1>6, SMT
  <2>2. QED BY <1>6, <2>1 DEF LineLen, n
<1>7. CASE k # n
  <2>1. k <= n - 1 BY <1>2, <1>4, <1>7, SMT
  <2>2. k * LineBytes + LineBytes <= n * LineBytes
    <3>1. (n - 1) * LineBytes + LineBytes = n * LineBytes /\ (n - 1) * LineBytes \in Int BY <1>1, <1>2, SMT
    <3>2. k * LineBytes <= (n - 1) * LineBytes BY <1>1, <1>2, <1>4, <2>1, SMT
    <3>3. QED BY <1>1, <1>5, <3>1, <3>2, SMT
  <2>3. count - (k - 1) * LineBytes > LineBytes /\ LineBytes \in 1 .. LineBytes
    BY <1>1, <1>3, <1>5, <2>2, SMT
  <2>4. QED BY <1>7, <2>3 DEF LineLen, n
<1>8. QED BY <1>6, <1>7

(* No line, nothing to dump. *)
LEMMA NoLines ==
  ASSUME NEW count \in Nat, LineCount(count) = 0
  PROVE  count = 0
<1>1. LineBytes \in Nat /\ LineBytes # 0 BY SizesAssumption
<1> DEFINE c == count + LineBytes - 1
<1>2. c \in Nat BY <1>1, SMT
<1>3. c \div LineBytes = 0 BY DEF LineCount
<1> HIDE DEF c
<1>4. c < (c \div LineBytes) * LineBytes + LineBytes BY <1>1, <1>2, SMT
<1>5. c < LineBytes BY <1>1, <1>3, <1>4, SMT
<1>6. QED BY <1>1, <1>5, SMT DEF c

(* All the lines printed are the dump. *)
LEMMA AllPrinted ==
  ASSUME Printed(LineCount(ReadCount)), ReadCount \in Nat, Asked(1, 0) \in Nat
  PROVE  Dumped(ReadCount)
<1> DEFINE count == ReadCount
           n == LineCount(count)
           a == Asked(1, 0)
<1>1. LineBytes \in Nat /\ LineBytes # 0 /\ count \in Nat /\ a \in Nat BY SizesAssumption
<1>2. n \in Nat BY <1>1, DumpLines DEF LineCount
<1>3. /\ IsSeq(shown) /\ Len(shown) = n
      /\ \A k \in 1 .. n :
           shown[k] = [addr |-> a + (k - 1) * LineBytes,
                       bytes |-> [j \in 1 .. LineLen(count, k) |-> before.mem[a + (k - 1) * LineBytes + j - 1]]]
  BY DEF Printed
<1>4. \A k \in 1 .. n : /\ LineLen(count, k) \in 1 .. LineBytes
                        /\ k # n => LineLen(count, k) = LineBytes
                        /\ k = n => (k - 1) * LineBytes + LineLen(count, k) = count
  BY <1>1, LinesOfDump
<1>5. n = 0 => count = 0 BY <1>1, NoLines
<1> HIDE DEF n, count, a
<1>6. Len(<<>>) = 0 BY Tuples
<1>7. shown = <<>> => count = 0 BY <1>3, <1>5, <1>6
<1>8. shown # <<>> => shown[1].addr = a
  <2>1. ASSUME shown # <<>> PROVE n # 0 BY <1>3, <2>1, EmptySeq DEF IsSeq
  <2>2. ASSUME n # 0 PROVE 1 \in 1 .. n BY <1>2, <2>2, SMT
  <2>3. a + (1 - 1) * LineBytes = a BY <1>1, SMT
  <2>4. QED BY <1>3, <2>1, <2>2, <2>3
<1>9. ASSUME NEW k \in 1 .. Len(shown)
      PROVE  LET line == shown[k]  m == Len(line.bytes) IN
             /\ m \in 1 .. LineBytes
             /\ line.bytes = [j \in 1 .. m |-> before.mem[line.addr + j - 1]]
             /\ line.addr + m = IF k = Len(shown) THEN a + count ELSE shown[k + 1].addr
  <2> DEFINE line == shown[k]
             m == LineLen(count, k)
  <2>1. k \in 1 .. n /\ k \in Nat BY <1>2, <1>3
  <2>2. line.addr = a + (k - 1) * LineBytes /\ line.bytes = [j \in 1 .. m |-> before.mem[a + (k - 1) * LineBytes + j - 1]]
    <3> DEFINE bytes == [j \in 1 .. m |-> before.mem[a + (k - 1) * LineBytes + j - 1]]
    <3>1. line = [addr |-> a + (k - 1) * LineBytes, bytes |-> bytes] BY <1>3, <2>1
    <3> HIDE DEF bytes
    <3>2. line.addr = a + (k - 1) * LineBytes /\ line.bytes = bytes BY <3>1
    <3>3. QED BY <3>2 DEF bytes
  <2>3. m \in 1 .. LineBytes /\ m \in Nat BY <1>1, <1>4, <2>1, SMT
  <2> DEFINE b == line.bytes
  <2>4. DOMAIN b = 1 .. m /\ b = [j \in 1 .. m |-> b[j]] BY <2>2
  <2> HIDE DEF b
  <2>5. Len(b) = m BY <2>3, <2>4, SeqMade
  <2>6. line.bytes = [j \in 1 .. m |-> before.mem[line.addr + j - 1]] BY <2>2
  <2>7. (k - 1) * LineBytes \in Nat /\ k * LineBytes = (k - 1) * LineBytes + LineBytes BY <1>1, <2>1, SMT
  <2>8. CASE k = n
    <3>1. (k - 1) * LineBytes + m = count BY <1>4, <2>1, <2>8
    <3>2. a + (k - 1) * LineBytes + m = a + count BY <1>1, <2>3, <2>7, <3>1, SMT
    <3>3. line.addr + m = a + count BY <2>2, <3>2
    <3>4. QED BY <1>3, <2>3, <2>5, <2>6, <2>8, <3>3 DEF b
  <2>9. CASE k # n
    <3>1. m = LineBytes BY <1>4, <2>1, <2>9
    <3>2. k + 1 \in 1 .. n /\ (k + 1) - 1 = k BY <1>2, <2>1, <2>9, SMT
    <3>3. shown[k + 1].addr = a + k * LineBytes BY <1>3, <3>2
    <3>4. a + (k - 1) * LineBytes + m = a + k * LineBytes BY <1>1, <2>7, <3>1, SMT
    <3>5. line.addr + m = shown[k + 1].addr BY <2>2, <3>3, <3>4
    <3>6. QED BY <1>3, <2>3, <2>5, <2>6, <2>9, <3>5 DEF b
  <2>10. QED BY <2>8, <2>9
<1>10. QED BY <1>7, <1>8, <1>9 DEF Dumped, count, a

-----------------------------------------------------------------------------
(* A step of a handler of checks and a loop. *)
LEMMA LoopStep ==
  ASSUME NEW h, NEW f, NEW n, LoopsOver(h, f, n), NEW s, Rest(s, h), s # <<>>
  PROVE  /\ n \in Nat
         /\ \/ Guard(s[1]) /\ Gone(s, n) = 0 /\ Gone(Tail(s), n) = 0
            \/ \E i \in 1 .. n : s[1] = f[i] /\ Gone(s, n) = i - 1 /\ Gone(Tail(s), n) = i
<1>1. n \in Nat /\ IsSeq(f) /\ Len(f) = n BY DEF LoopsOver
<1>2. PICK g : Guards(g) /\ h = g \o f BY DEF LoopsOver
<1>3. /\ Len(s) \in Nat /\ Len(s) >= 1 /\ Len(Tail(s)) = Len(s) - 1
      /\ \/ Len(s) > n /\ Guard(s[1])
         \/ Len(s) <= n /\ n - Len(s) + 1 \in 1 .. n /\ s[1] = f[n - Len(s) + 1]
  BY <1>1, <1>2, NextRound
<1> DEFINE k == Len(s)
           t == Len(Tail(s))
<1>4. k \in Nat /\ k >= 1 /\ t = k - 1 BY <1>3
<1>5. Gone(s, n) = (IF k <= n THEN n - k ELSE 0) /\ Gone(Tail(s), n) = (IF t <= n THEN n - t ELSE 0) BY DEF Gone
<1> HIDE DEF k, t
<1>6. CASE k > n /\ Guard(s[1])
  <2>1. (IF k <= n THEN n - k ELSE 0) = 0 BY <1>1, <1>4, <1>6, SMT
  <2>2. (IF t <= n THEN n - t ELSE 0) = 0 BY <1>1, <1>4, <1>6, SMT
  <2>3. QED BY <1>1, <1>5, <1>6, <2>1, <2>2
<1>7. CASE k <= n /\ n - k + 1 \in 1 .. n /\ s[1] = f[n - k + 1]
  <2>1. (IF k <= n THEN n - k ELSE 0) = (n - k + 1) - 1 BY <1>1, <1>4, <1>7, SMT
  <2>2. (IF t <= n THEN n - t ELSE 0) = n - k + 1 BY <1>1, <1>4, <1>7, SMT
  <2>3. QED BY <1>1, <1>5, <1>7, <2>1, <2>2
<1>8. QED BY <1>3, <1>6, <1>7 DEF k

Loopers == {"mem_write", "mem_copy", "mem_read", "mem_cmp"}

(* A step of one of the four commands: a check it passes, or a round. *)
LEMMA LoopGoes ==
  ASSUME BiosInv, WritesInv, RoundsInv, Next, phase = "command", reply = "none", phase' = "command", reply' = "none",
         cmd.name \in Loopers, NEW f, NEW n, LoopsOver(Handler(cmd.name, cmd.params), f, n)
  PROVE  /\ cmd' = cmd /\ before' = before /\ n \in Nat
         /\ \/ Guard(Now) /\ Gone(prog, n) = 0 /\ Gone(prog', n) = 0 /\ UNCHANGED <<mem, shown, same>>
            \/ \E i \in 1 .. n : Now = f[i] /\ Gone(prog, n) = i - 1 /\ Gone(prog', n) = i
         /\ Now.do = "check" => Now.ok
         /\ Now.do = "store" => mem' = Overlay(mem, Now.a, Now.size, LAMBDA k : ByteOf(Now.v, k))
         /\ Now.do = "copy" => mem' = Overlay(mem, Now.d, 4, LAMBDA k : mem[Now.s + k])
         /\ Now.do = "show" => shown' = Append(shown, [addr |-> Now.a, bytes |-> Bytes(Now.a, Now.n)])
         /\ Now.do = "compare" => same' = (same /\ Bytes(Now.a, 4) = Bytes(Now.b, 4))
<1>1. job = Idle BY DEF WritesInv, Loopers, Booters
<1>2. /\ cmd' = cmd /\ before' = before /\ prog # <<>> /\ prog' = Tail(prog) /\ Now.do # "overrun"
      /\ Now.do = "check" => Now.ok /\ UNCHANGED <<mem, shown, same>>
      /\ Now.do = "store" => mem' = Overlay(mem, Now.a, Now.size, LAMBDA k : ByteOf(Now.v, k))
      /\ Now.do = "copy" => mem' = Overlay(mem, Now.d, 4, LAMBDA k : mem[Now.s + k])
      /\ Now.do = "show" => shown' = Append(shown, [addr |-> Now.a, bytes |-> Bytes(Now.a, Now.n)])
      /\ Now.do = "compare" => same' = (same /\ Bytes(Now.a, 4) = Bytes(Now.b, 4))
  BY <1>1, GoesOn
<1>3. Rest(prog, Handler(cmd.name, cmd.params)) BY DEF RoundsInv
<1>4. Now = prog[1] BY <1>2, NowIs
<1>5. /\ n \in Nat
      /\ \/ Guard(Now) /\ Gone(prog, n) = 0 /\ Gone(Tail(prog), n) = 0
         \/ \E i \in 1 .. n : Now = f[i] /\ Gone(prog, n) = i - 1 /\ Gone(Tail(prog), n) = i
  BY <1>2, <1>3, <1>4, LoopStep
<1>6. Guard(Now) => UNCHANGED <<mem, shown, same>> BY <1>2 DEF Guard
<1>7. QED BY <1>2, <1>5, <1>6

(* What the four commands are asked. *)
LEMMA AskedNat ==
  /\ Asked(1, 0) \in Nat /\ Asked(2, 0) \in Nat /\ Asked(3, 0) \in Nat /\ Asked(3, 1) \in Nat
  /\ ReadCount = CountOf(cmd.params) /\ ReadCount \in Nat
  /\ ValueSize = SizeOf(cmd.params)
<1>1. 0 \in Nat /\ 1 \in Nat /\ 4 \in Nat OBVIOUS
<1>2. /\ Asked(1, 0) \in Nat /\ Asked(2, 0) \in Nat /\ Asked(3, 0) \in Nat /\ Asked(3, 1) \in Nat
  BY <1>1, Numeric DEF Asked
<1>3. ReadCount = CountOf(cmd.params) BY DEF ReadCount, CountOf, Asked
<1>4. ReadCount \in Nat BY <1>1, <1>2, Zenon DEF ReadCount
<1>5. ValueSize = SizeOf(cmd.params)
  <2>1. CASE Len(cmd.params) = 4
    <3>1. Len(cmd.params) = 4 => 4 <= Len(cmd.params) BY SMT
    <3>2. QED BY <2>1, <3>1 DEF ValueSize, SizeOf, Asked, Arg
  <2>2. CASE Len(cmd.params) # 4 BY <2>2 DEF ValueSize, SizeOf
  <2>3. QED BY <2>1, <2>2
<1>6. QED BY <1>2, <1>3, <1>4, <1>5

(* mem_write goes on. *)
LEMMA WriteGoes ==
  ASSUME BiosInv, WritesInv, RoundsInv, Next, Calls("mem_write"), Calls("mem_write")'
  PROVE  Written(Rounds(Asked(3, 1)))'
<1> DEFINE n == Asked(3, 1)
           a == Asked(1, 0)
           v == Asked(2, 0)
           size == ValueSize
           old == before.mem
<1>1. /\ phase = "command" /\ reply = "none" /\ cmd.name = "mem_write"
      /\ phase' = "command" /\ reply' = "none"
  BY DEF Calls
<1>2. LoopsOver(Handler(cmd.name, cmd.params), WriteLoop(cmd.params), n) BY <1>1, Loops DEF Asked
<1>3. cmd.name \in Loopers BY <1>1 DEF Loopers
<1>4. /\ cmd' = cmd /\ before' = before /\ n \in Nat
      /\ \/ Guard(Now) /\ Gone(prog, n) = 0 /\ Gone(prog', n) = 0 /\ UNCHANGED <<mem, shown, same>>
         \/ \E i \in 1 .. n : Now = WriteLoop(cmd.params)[i] /\ Gone(prog, n) = i - 1 /\ Gone(prog', n) = i
      /\ Now.do = "check" => Now.ok
      /\ Now.do = "store" => mem' = Overlay(mem, Now.a, Now.size, LAMBDA k : ByteOf(Now.v, k))
  BY <1>1, <1>2, <1>3, LoopGoes
<1>5. n' = n /\ a' = a /\ v' = v /\ size' = size /\ old' = old BY <1>4 DEF Asked, ValueSize
<1>6. a \in Nat /\ v \in Nat /\ size = SizeOf(cmd.params) BY AskedNat
<1>7. DOMAIN mem = Addr /\ DOMAIN old = Addr BY DEF WritesInv
<1>8. Stored(mem, old, a, size, Gone(prog, n), v)
  BY <1>1, <1>7 DEF RoundsInv, Calls, Written, Rounds, Overlay, Stored
<1>9. ASSUME Stored(mem', old, a, size, Gone(prog', n), v) PROVE Written(Rounds(Asked(3, 1)))'
  BY <1>5, <1>7, <1>9 DEF Written, Rounds, Overlay, Stored
<1>10. CASE Guard(Now) /\ Gone(prog, n) = 0 /\ Gone(prog', n) = 0 /\ UNCHANGED <<mem, shown, same>>
  BY <1>7, <1>8, <1>9, <1>10
<1>11. ASSUME NEW i \in 1 .. n, Now = WriteLoop(cmd.params)[i], Gone(prog, n) = i - 1, Gone(prog', n) = i
       PROVE  Written(Rounds(Asked(3, 1)))'
  <2>1. Now = IF size \in {1, 2, 4} THEN Store(a + size * (i - 1), size, v) ELSE Check(FALSE, "bad")
    BY <1>6, <1>11 DEF WriteLoop, Asked
  <2>2. size \in {1, 2, 4}
    <3>1. SUFFICES ASSUME size \notin {1, 2, 4} PROVE FALSE OBVIOUS
    <3>2. Now = Check(FALSE, "bad") BY <2>1, <3>1
    <3>3. Now.do = "check" /\ Now.ok = FALSE BY <3>2 DEF Check
    <3>4. QED BY <1>4, <3>3
  <2>3. Now = Store(a + size * (i - 1), size, v) BY <2>1, <2>2
  <2>4. Now.do = "store" /\ Now.a = a + size * (i - 1) /\ Now.size = size /\ Now.v = v BY <2>3 DEF Store
  <2>5. mem' = StoreAt(mem, a + size * (i - 1), size, v) BY <1>4, <1>7, <2>4 DEF Overlay, StoreAt
  <2> HIDE DEF n, a, v, size, old
  <2>6. i - 1 \in Nat /\ (i - 1) + 1 = i BY <1>4, SMT
  <2>7. Stored(mem', old, a, size, (i - 1) + 1, v) BY <1>6, <1>8, <1>11, <2>2, <2>5, <2>6, StoreRound
  <2>8. QED BY <1>9, <1>11, <2>6, <2>7
<1>12. QED BY <1>4, <1>10, <1>11

(* mem_copy goes on. *)
LEMMA CopyGoes ==
  ASSUME BiosInv, WritesInv, RoundsInv, Next, Calls("mem_copy"), Calls("mem_copy")', SourceInMem
  PROVE  Copied(Rounds(Asked(3, 1)))'
<1> DEFINE n == Asked(3, 1)
           d == Asked(1, 0)
           s == Asked(2, 0)
           old == before.mem
<1>1. /\ phase = "command" /\ reply = "none" /\ cmd.name = "mem_copy"
      /\ phase' = "command" /\ reply' = "none"
  BY DEF Calls
<1>2. LoopsOver(Handler(cmd.name, cmd.params), CopyLoop(cmd.params), n) BY <1>1, Loops DEF Asked
<1>3. cmd.name \in Loopers BY <1>1 DEF Loopers
<1>4. /\ cmd' = cmd /\ before' = before /\ n \in Nat
      /\ \/ Guard(Now) /\ Gone(prog, n) = 0 /\ Gone(prog', n) = 0 /\ UNCHANGED <<mem, shown, same>>
         \/ \E i \in 1 .. n : Now = CopyLoop(cmd.params)[i] /\ Gone(prog, n) = i - 1 /\ Gone(prog', n) = i
      /\ Now.do = "copy" => mem' = Overlay(mem, Now.d, 4, LAMBDA k : mem[Now.s + k])
  BY <1>1, <1>2, <1>3, LoopGoes
<1>5. n' = n /\ d' = d /\ s' = s /\ old' = old BY <1>4 DEF Asked
<1>6. d \in Nat /\ s \in Nat /\ s .. (s + 4 * n - 1) \subseteq Addr BY AskedNat DEF SourceInMem
<1>7. DOMAIN mem = Addr /\ DOMAIN old = Addr BY DEF WritesInv
<1>8. CopiedOver(mem, old, d, s, Gone(prog, n))
  BY <1>1, <1>7 DEF RoundsInv, Calls, Copied, Rounds, Overlay, CopiedOver
<1>9. ASSUME CopiedOver(mem', old, d, s, Gone(prog', n)) PROVE Copied(Rounds(Asked(3, 1)))'
  BY <1>5, <1>7, <1>9 DEF Copied, Rounds, Overlay, CopiedOver
<1>10. CASE Guard(Now) /\ Gone(prog, n) = 0 /\ Gone(prog', n) = 0 /\ UNCHANGED <<mem, shown, same>>
  BY <1>7, <1>8, <1>9, <1>10
<1>11. ASSUME NEW i \in 1 .. n, Now = CopyLoop(cmd.params)[i], Gone(prog, n) = i - 1, Gone(prog', n) = i
       PROVE  Copied(Rounds(Asked(3, 1)))'
  <2>1. Now = Copy(d + 4 * (i - 1), s + 4 * (i - 1)) BY <1>11 DEF CopyLoop, Asked
  <2>2. Now.do = "copy" /\ Now.d = d + 4 * (i - 1) /\ Now.s = s + 4 * (i - 1) BY <2>1 DEF Copy
  <2>3. mem' = CopyAt(mem, d + 4 * (i - 1), s + 4 * (i - 1)) BY <1>4, <1>7, <2>2 DEF Overlay, CopyAt
  <2> HIDE DEF n, d, s, old
  <2>4. i - 1 \in Nat /\ (i - 1) + 1 = i /\ i - 1 < n BY <1>4, SMT
  <2>5. CopiedOver(mem', old, d, s, (i - 1) + 1) BY <1>4, <1>6, <1>8, <1>11, <2>3, <2>4, CopyRound
  <2>6. QED BY <1>9, <1>11, <2>4, <2>5
<1>12. QED BY <1>4, <1>10, <1>11

(* One element more. *)
LEMMA Appended ==
  ASSUME NEW s, IsSeq(s), NEW e
  PROVE  /\ IsSeq(Append(s, e)) /\ Len(Append(s, e)) = Len(s) + 1
         /\ \A k \in 1 .. Len(s) : Append(s, e)[k] = s[k]
         /\ Append(s, e)[Len(s) + 1] = e
<1> DEFINE S == {s[k] : k \in DOMAIN s} \cup {e}
           t == Append(s, e)
<1>1. s \in Seq(S)
  <2>1. Seq({s[k] : k \in DOMAIN s}) \subseteq Seq(S) BY SeqDef
  <2>2. QED BY <2>1 DEF IsSeq
<1>2. e \in S OBVIOUS
<1> HIDE DEF S
<1>3. /\ t \in Seq(S) /\ Len(t) = Len(s) + 1
      /\ \A k \in 1 .. Len(s) : t[k] = s[k]
      /\ t[Len(s) + 1] = e
  BY <1>1, <1>2, AppendProperties
<1>4. IsSeq(t) BY <1>3, SeqIs
<1>5. QED BY <1>3, <1>4

(* mem_read goes on. *)
LEMMA ReadGoes ==
  ASSUME BiosInv, WritesInv, RoundsInv, Next, Calls("mem_read"), Calls("mem_read")'
  PROVE  Printed(Rounds(LineCount(ReadCount)))'
<1> DEFINE count == ReadCount
           n == LineCount(count)
           a == Asked(1, 0)
           old == before.mem
           Line(k) == [addr |-> a + (k - 1) * LineBytes,
                       bytes |-> [j \in 1 .. LineLen(count, k) |-> old[a + (k - 1) * LineBytes + j - 1]]]
<1>1. /\ phase = "command" /\ reply = "none" /\ cmd.name = "mem_read"
      /\ phase' = "command" /\ reply' = "none"
  BY DEF Calls
<1>2. count = CountOf(cmd.params) BY AskedNat
<1>3. LoopsOver(Handler(cmd.name, cmd.params), ReadLoop(cmd.params), n) BY <1>1, <1>2, Loops
<1>4. cmd.name \in Loopers BY <1>1 DEF Loopers
<1>5. /\ cmd' = cmd /\ before' = before /\ n \in Nat
      /\ \/ Guard(Now) /\ Gone(prog, n) = 0 /\ Gone(prog', n) = 0 /\ UNCHANGED <<mem, shown, same>>
         \/ \E i \in 1 .. n : Now = ReadLoop(cmd.params)[i] /\ Gone(prog, n) = i - 1 /\ Gone(prog', n) = i
      /\ Now.do = "show" => shown' = Append(shown, [addr |-> Now.a, bytes |-> Bytes(Now.a, Now.n)])
  BY <1>1, <1>3, <1>4, LoopGoes
<1>6. count' = count /\ a' = a /\ old' = old /\ n' = n BY <1>5 DEF Asked, ReadCount
<1>7. mem = old BY <1>1 DEF WritesInv, MemWriters, Booters
<1>8. /\ IsSeq(shown) /\ Len(shown) = Gone(prog, n)
      /\ \A k \in 1 .. Gone(prog, n) : shown[k] = Line(k)
  BY <1>1 DEF RoundsInv, Calls, Printed, Rounds
<1>9. ASSUME IsSeq(shown'), Len(shown') = Gone(prog', n), \A k \in 1 .. Gone(prog', n) : (shown')[k] = Line(k)
      PROVE  Printed(Rounds(LineCount(ReadCount)))'
  BY <1>6, <1>9 DEF Printed, Rounds
<1>10. CASE Guard(Now) /\ Gone(prog, n) = 0 /\ Gone(prog', n) = 0 /\ UNCHANGED <<mem, shown, same>>
  BY <1>8, <1>9, <1>10
<1>11. ASSUME NEW i \in 1 .. n, Now = ReadLoop(cmd.params)[i], Gone(prog, n) = i - 1, Gone(prog', n) = i
       PROVE  Printed(Rounds(LineCount(ReadCount)))'
  <2>1. Now = Show(a + (i - 1) * LineBytes, LineLen(count, i)) BY <1>2, <1>11 DEF ReadLoop, Asked
  <2>2. Now.do = "show" /\ Now.a = a + (i - 1) * LineBytes /\ Now.n = LineLen(count, i) BY <2>1 DEF Show
  <2>3. shown' = Append(shown, Line(i)) BY <1>5, <1>7, <2>2 DEF Bytes
  <2>4. i - 1 \in Nat /\ (i - 1) + 1 = i /\ \A k \in 1 .. i : k \in 1 .. (i - 1) \/ k = i BY <1>5, SMT
  <2> HIDE DEF n, count, a, old, Line
  <2>5. /\ IsSeq(shown') /\ Len(shown') = Len(shown) + 1
        /\ \A k \in 1 .. Len(shown) : (shown')[k] = shown[k]
        /\ (shown')[Len(shown) + 1] = Line(i)
    BY <1>8, <2>3, Appended
  <2>6. \A k \in 1 .. i : (shown')[k] = Line(k) BY <1>8, <1>11, <2>4, <2>5
  <2>7. QED BY <1>8, <1>9, <1>11, <2>4, <2>5, <2>6
<1>12. QED BY <1>5, <1>10, <1>11

(* Four bytes and a word. *)
LEMMA SameWords ==
  ASSUME NEW a \in Nat, NEW b \in Nat
  PROVE  Bytes(a, 4) = Bytes(b, 4) <=> WordAt(mem, a) = WordAt(mem, b)
<1>1. \A k \in 1 .. 4 : k - 1 \in 0 .. 3 /\ a + k - 1 = a + (k - 1) /\ b + k - 1 = b + (k - 1) BY SMT
<1>2. \A k \in 0 .. 3 : k + 1 \in 1 .. 4 /\ a + (k + 1) - 1 = a + k /\ b + (k + 1) - 1 = b + k BY SMT
<1>3. ASSUME Bytes(a, 4) = Bytes(b, 4) PROVE WordAt(mem, a) = WordAt(mem, b)
  <2>1. \A k \in 1 .. 4 : mem[a + k - 1] = mem[b + k - 1]
    <3>1. \A x : \A k \in 1 .. 4 : Bytes(x, 4)[k] = mem[x + k - 1] BY DEF Bytes
    <3>2. QED BY <1>3, <3>1
  <2>2. \A k \in 0 .. 3 : mem[a + k] = mem[b + k] BY <1>2, <2>1
  <2>3. QED BY <2>2 DEF WordAt
<1>4. ASSUME WordAt(mem, a) = WordAt(mem, b) PROVE Bytes(a, 4) = Bytes(b, 4)
  <2>1. \A k \in 0 .. 3 : mem[a + k] = mem[b + k]
    <3>1. \A x : \A k \in 0 .. 3 : WordAt(mem, x)[k] = mem[x + k] BY DEF WordAt
    <3>2. QED BY <1>4, <3>1
  <2>2. \A k \in 1 .. 4 : mem[a + k - 1] = mem[b + k - 1] BY <1>1, <2>1
  <2>3. QED BY <2>2 DEF Bytes
<1>5. QED BY <1>3, <1>4

(* mem_cmp goes on. *)
LEMMA CompareGoes ==
  ASSUME BiosInv, WritesInv, RoundsInv, Next, Calls("mem_cmp"), Calls("mem_cmp")'
  PROVE  Compared(Rounds(Asked(3, 0)))'
<1> DEFINE n == Asked(3, 0)
           a == Asked(1, 0)
           b == Asked(2, 0)
           old == before.mem
           Equal(k) == WordAt(old, a + 4 * k) = WordAt(old, b + 4 * k)
<1>1. /\ phase = "command" /\ reply = "none" /\ cmd.name = "mem_cmp"
      /\ phase' = "command" /\ reply' = "none"
  BY DEF Calls
<1>2. LoopsOver(Handler(cmd.name, cmd.params), CompareLoop(cmd.params), n) BY <1>1, Loops DEF Asked
<1>3. cmd.name \in Loopers BY <1>1 DEF Loopers
<1>4. /\ cmd' = cmd /\ before' = before /\ n \in Nat
      /\ \/ Guard(Now) /\ Gone(prog, n) = 0 /\ Gone(prog', n) = 0 /\ UNCHANGED <<mem, shown, same>>
         \/ \E i \in 1 .. n : Now = CompareLoop(cmd.params)[i] /\ Gone(prog, n) = i - 1 /\ Gone(prog', n) = i
      /\ Now.do = "compare" => same' = (same /\ Bytes(Now.a, 4) = Bytes(Now.b, 4))
  BY <1>1, <1>2, <1>3, LoopGoes
<1>5. a \in Nat /\ b \in Nat BY AskedNat
<1>6. n' = n /\ a' = a /\ b' = b /\ old' = old BY <1>4 DEF Asked
<1>7. mem = old BY <1>1 DEF WritesInv, MemWriters, Booters
<1>8. same <=> \A k \in 0 .. (Gone(prog, n) - 1) : Equal(k)
  BY <1>1 DEF RoundsInv, Calls, Compared, Rounds
<1>9. ASSUME same' <=> \A k \in 0 .. (Gone(prog', n) - 1) : Equal(k)
      PROVE  Compared(Rounds(Asked(3, 0)))'
  BY <1>6, <1>9 DEF Compared, Rounds
<1>10. CASE Guard(Now) /\ Gone(prog, n) = 0 /\ Gone(prog', n) = 0 /\ UNCHANGED <<mem, shown, same>>
  BY <1>8, <1>9, <1>10
<1>11. ASSUME NEW i \in 1 .. n, Now = CompareLoop(cmd.params)[i], Gone(prog, n) = i - 1, Gone(prog', n) = i
       PROVE  Compared(Rounds(Asked(3, 0)))'
  <2>1. Now = Compare(a + 4 * (i - 1), b + 4 * (i - 1)) BY <1>11 DEF CompareLoop, Asked
  <2>2. Now.do = "compare" /\ Now.a = a + 4 * (i - 1) /\ Now.b = b + 4 * (i - 1) BY <2>1 DEF Compare
  <2>3. i - 1 \in Nat /\ a + 4 * (i - 1) \in Nat /\ b + 4 * (i - 1) \in Nat BY <1>4, <1>5, SMT
  <2>4. Bytes(Now.a, 4) = Bytes(Now.b, 4) <=> Equal(i - 1) BY <1>7, <2>2, <2>3, SameWords
  <2>5. same' <=> (same /\ Equal(i - 1)) BY <1>4, <2>2, <2>4
  <2>6. \A k \in 0 .. (i - 1) : k \in 0 .. (i - 1 - 1) \/ k = i - 1 BY <1>4, SMT
  <2>7. i - 1 \in 0 .. (i - 1) /\ \A k \in 0 .. (i - 1 - 1) : k \in 0 .. (i - 1) BY <1>4, SMT
  <2> HIDE DEF n, a, b, old, Equal
  <2>8. same' <=> \A k \in 0 .. (i - 1) : Equal(k) BY <1>8, <1>11, <2>5, <2>6, <2>7
  <2>9. QED BY <1>9, <1>11, <2>8
<1>12. QED BY <1>4, <1>10, <1>11

-----------------------------------------------------------------------------
(* What Enter calls and what it finds. *)
LEMMA Entered ==
  ASSUME BiosInv, WritesInv, TypeLine
  PROVE  /\ Len(cmd'.params) \in Nat /\ before' = Snapshot /\ shown' = <<>> /\ same' = TRUE
         /\ before'.mem = mem /\ before'.flash = flash
         /\ mem' = mem /\ flash' = flash /\ job' = Idle /\ jump' = None
         /\ phase' = "command" => /\ reply' = "none" /\ cmd'.name \in CommandNames
                                  /\ prog' = Handler(cmd'.name, cmd'.params)
         /\ reply' # "done" /\ phase' # "booted"
<1>1. PICK line \in Lines[ncommands + 1] : Enter(line) BY DEF TypeLine
<1>2. phase = "prompt" /\ ncommands < Len(Lines) /\ ncommands \in Nat BY DEF TypeLine, BiosInv, ShapeInv
<1>3. job = Idle /\ jump = None BY <1>2 DEF BiosInv, JobInv, ShapeInv
<1>4. ncommands + 1 \in DOMAIN Lines
  <2>1. DOMAIN Lines = 1 .. Len(Lines) /\ Len(Lines) \in Nat BY InputsAssumption DEF IsSequence
  <2>2. ncommands + 1 \in 1 .. Len(Lines) BY <1>2, <2>1, SMT
  <2>3. QED BY <2>1, <2>2
<1>5. cmd' = get_param(line) BY <1>1 DEF Enter
<1>6. Len(cmd'.params) \in Nat BY <1>4, <1>5, InputsAssumption, ParamsLen
<1>7. /\ phase' = IF Len(cmd'.params) > MaxParam THEN "overrun"
                  ELSE IF cmd'.name \in CommandNames THEN "command" ELSE "prompt"
      /\ prog' = IF phase' = "command" THEN Handler(cmd'.name, cmd'.params) ELSE <<>>
      /\ reply' = IF cmd'.name \in CommandNames THEN "none" ELSE "not found"
      /\ before' = Snapshot /\ shown' = <<>> /\ same' = TRUE
      /\ UNCHANGED media
  BY <1>1, <1>5 DEF Enter
<1>8. before'.mem = mem /\ before'.flash = flash BY <1>7 DEF Snapshot
<1>9. QED BY <1>3, <1>6, <1>7, <1>8 DEF media

(* A line is entered. *)
LEMMA EnterWrites ==
  ASSUME BiosInv, WritesInv, TypeLine
  PROVE  WritesInv'
<1>1. phase' = "command" => \A k \in 1 .. Len(prog') : Allowed(cmd'.name, (prog')[k])
  <2>1. SUFFICES ASSUME phase' = "command" PROVE \A k \in 1 .. Len(prog') : Allowed(cmd'.name, (prog')[k])
    OBVIOUS
  <2>2. /\ Len(cmd'.params) \in Nat /\ cmd'.name \in CommandNames
        /\ prog' = Handler(cmd'.name, cmd'.params)
    BY <2>1, Entered
  <2>3. QED BY <2>2, HandlerAllowed
<1>2. /\ before'.mem = mem /\ before'.flash = flash /\ mem' = mem /\ flash' = flash /\ job' = Idle
  BY Entered
<1>3. mem = [x \in Addr |-> mem[x]] BY DEF WritesInv
<1>4. QED BY <1>1, <1>2, <1>3 DEF WritesInv

(* What is left of a handler is allowed as well. *)
LEMMA LeftAllowed ==
  ASSUME BiosInv, WritesInv, phase = "command", prog # <<>>
  PROVE  /\ Allowed(cmd.name, Now)
         /\ \A k \in 1 .. Len(Tail(prog)) : Allowed(cmd.name, Tail(prog)[k])
<1>1. Good(prog) BY DEF BiosInv, ControlInv
<1>2. /\ Now = prog[1] /\ Len(prog) \in Nat /\ Len(prog) >= 1
      /\ Len(Tail(prog)) = Len(prog) - 1 /\ \A k \in 1 .. Len(prog) - 1 : Tail(prog)[k] = prog[k + 1]
  BY <1>1, Left DEF Now
<1>3. 1 \in 1 .. Len(prog) /\ \A k \in 1 .. Len(prog) - 1 : k + 1 \in 1 .. Len(prog) BY <1>2, SMT
<1>4. \A k \in 1 .. Len(prog) : Allowed(cmd.name, prog[k]) BY DEF WritesInv
<1>5. Allowed(cmd.name, Now) BY <1>2, <1>3, <1>4
<1>6. \A k \in 1 .. Len(prog) - 1 : Allowed(cmd.name, prog[k + 1]) BY <1>3, <1>4
<1>7. \A k \in 1 .. Len(Tail(prog)) : Allowed(cmd.name, Tail(prog)[k]) BY <1>2, <1>6
<1>8. QED BY <1>5, <1>7

(* No step, none that is not allowed. *)
LEMMA NoneLeft ==
  ASSUME NEW name
  PROVE  \A k \in 1 .. Len(<<>>) : Allowed(name, <<>>[k])
<1>1. Len(<<>>) = 0 BY Tuples
<1>2. \A k \in 1 .. 0 : FALSE BY SMT
<1>3. QED BY <1>1, <1>2

(* Steps that write neither memory nor flash. *)
LEMMA CalmWrites ==
  ASSUME BiosInv, WritesInv, phase = "command", job = Idle, UNCHANGED <<mem, flash, cmd, before>>, job' = Idle,
         prog' = <<>> \/ (prog # <<>> /\ prog' = Tail(prog)) \/ phase' # "command"
  PROVE  WritesInv'
<1>1. phase' = "command" => \A k \in 1 .. Len(prog') : Allowed(cmd'.name, (prog')[k])
  BY LeftAllowed, NoneLeft
<1>2. QED BY <1>1 DEF WritesInv

(* A step on memory. *)
LEMMA MemoryWrites ==
  ASSUME BiosInv, WritesInv, MemoryStep
  PROVE  WritesInv'
<1>1. /\ phase = "command" /\ job = Idle /\ prog # <<>> /\ Now.do \in MemKinds
      /\ prog' = Tail(prog) /\ UNCHANGED <<phase, cmd, before, flash, job>>
  BY DEF MemoryStep, At, Advance, MemKinds
<1>2. /\ cmd.name \in MemWriters
      /\ \A k \in 1 .. Len(Tail(prog)) : Allowed(cmd.name, Tail(prog)[k])
  BY <1>1, LeftAllowed DEF Allowed
<1>3. DOMAIN mem = Addr BY DEF WritesInv
<1>4. mem' = [x \in Addr |-> (mem')[x]]
  <2>1. CASE Now.do = "store" BY <1>3, <2>1 DEF MemoryStep, Overlay
  <2>2. CASE Now.do = "copy" BY <1>3, <2>2 DEF MemoryStep, Overlay
  <2>3. CASE Now.do = "scratch" BY <1>3, <2>3 DEF MemoryStep, Overlay
  <2>4. QED BY <1>1, <2>1, <2>2, <2>3 DEF MemKinds
<1>5. QED BY <1>1, <1>2, <1>4 DEF WritesInv

(* A step on the flash. *)
LEMMA FlashWrites ==
  ASSUME BiosInv, WritesInv, FlashStep
  PROVE  WritesInv'
<1>1. /\ phase = "command" /\ job = Idle /\ prog # <<>> /\ Now.do \in FlashKinds
      /\ prog' = Tail(prog) /\ UNCHANGED <<phase, cmd, before, mem, job>>
  BY DEF FlashStep, At, Advance, FlashKinds
<1>2. /\ cmd.name \in FlashWriters
      /\ \A k \in 1 .. Len(Tail(prog)) : Allowed(cmd.name, Tail(prog)[k])
  BY <1>1, LeftAllowed DEF Allowed
<1>3. QED BY <1>1, <1>2 DEF WritesInv

(* A boot begins. *)
LEMMA StartWrites ==
  ASSUME BiosInv, WritesInv, MediaStart
  PROVE  WritesInv' /\ cmd.name \in Booters \cup {"flash_from_sdcard"}
<1>1. /\ phase = "command" /\ job = Idle /\ prog # <<>> /\ Now.do = "media"
      /\ prog' = Tail(prog) /\ UNCHANGED <<mem, flash, cmd, before>>
  BY DEF MediaStart, At
<1>2. /\ IF Now.from = "toflash" THEN cmd.name = "flash_from_sdcard" ELSE cmd.name \in Booters
      /\ \A k \in 1 .. Len(Tail(prog)) : Allowed(cmd.name, Tail(prog)[k])
  BY <1>1, LeftAllowed DEF Allowed
<1>3. ASSUME NEW from, NEW step, NEW use, NEW file, NEW files, NEW named
      PROVE  LET j == Start(from, step, use, file, files) IN
             j.from = from /\ j.step = step
             /\ [j EXCEPT !.named = named].from = from /\ [j EXCEPT !.named = named].step = step
  BY DEF Start
<1>4. \/ job' = Idle
      \/ Now.from # "toflash" /\ job'.from # "toflash"
      \/ Now.from = "toflash" /\ job'.from = "toflash" /\ job'.step # "flash"
  <2>1. CASE Now.from = "flashboot" /\ flashboot
    <3>1. job' = Idle \/ job' = Start("flash", "flash", "flash", "flash", <<>>) BY <2>1 DEF flashboot
    <3>2. job' = Idle \/ job'.from = "flash" BY <1>3, <3>1
    <3>3. QED BY <2>1, <3>2
  <2>2. CASE boot_helper(0, 0, 0, RomBoot) BY <2>2 DEF boot_helper
  <2>3. ASSUME NEW files, Now.from = "netboot", netboot(Now.file, files) PROVE job'.from = "net"
    BY <1>3, <2>3 DEF netboot
  <2>4. ASSUME NEW files, Now.from = "sdcardboot", sdcardboot(files) PROVE job'.from = "sdcard"
    <3>1. job' = Start("sdcard", "mount", "json", "boot.json", files) BY <2>4 DEF sdcardboot
    <3>2. QED BY <1>3, <3>1
  <2>5. ASSUME NEW files, Now.from = "sataboot", sataboot(files) PROVE job'.from = "sata"
    <3>1. job' = Start("sata", "mount", "json", "boot.json", files) BY <2>5 DEF sataboot
    <3>2. QED BY <1>3, <3>1
  <2>6. ASSUME NEW files, Now.from = "toflash", flash_from_card(Now.file, files)
        PROVE  job'.from = "toflash" /\ job'.step = "mount"
    <3>1. job' = Start("toflash", "mount", "toflash", Now.file, files) BY <2>6 DEF flash_from_card
    <3>2. QED BY <1>3, <3>1
  <2>7. QED BY <2>1, <2>2, <2>3, <2>4, <2>5, <2>6 DEF MediaStart
<1>5. job' # Idle => IF job'.from = "toflash" THEN cmd.name = "flash_from_sdcard" /\ job'.step # "flash"
                                              ELSE cmd.name \in Booters
  BY <1>2, <1>4
<1>6. WritesInv' BY <1>1, <1>2, <1>5 DEF WritesInv
<1>7. QED BY <1>2, <1>6

(* A boot goes on. *)
LEMMA RunsWrites ==
  ASSUME BiosInv, WritesInv, MediaRuns
  PROVE  WritesInv' /\ cmd.name \in Booters \cup {"flash_from_sdcard"}
<1>1. phase = "command" /\ MediaStep /\ UNCHANGED <<cmd, prog, before>> BY DEF MediaRuns
<1>2. job # Idle /\ JobInv BY <1>1, MediaJob DEF BiosInv
<1>3. IF job.from = "toflash" THEN cmd.name = "flash_from_sdcard" /\ job.step # "flash" ELSE cmd.name \in Booters
  BY <1>2 DEF WritesInv
<1>4. /\ job' = Idle \/ (job'.from = job.from /\ (job.from = "toflash" => job'.step # "flash"))
      /\ job.from = "toflash" => mem' = mem
      /\ job.from # "toflash" => flash' = flash
      /\ mem' = mem \/ \E x, v : mem' = [mem EXCEPT ![x] = v]
  BY <1>1, <1>2, <1>3, MediaWrites
<1>5. mem' = [x \in Addr |-> (mem')[x]] BY <1>4 DEF WritesInv
<1>6. job' # Idle => IF job'.from = "toflash" THEN cmd.name = "flash_from_sdcard" /\ job'.step # "flash"
                                              ELSE cmd.name \in Booters
  BY <1>3, <1>4
<1>7. /\ cmd.name \notin MemWriters \cup {""} => mem' = before.mem
      /\ cmd.name \notin FlashWriters \cup {""} => flash' = before.flash
  <2>1. CASE job.from = "toflash" BY <1>3, <1>4, <2>1 DEF WritesInv, FlashWriters
  <2>2. CASE job.from # "toflash" BY <1>3, <1>4, <2>2 DEF WritesInv, MemWriters
  <2>3. QED BY <2>1, <2>2
<1>8. WritesInv' BY <1>1, <1>5, <1>6, <1>7 DEF WritesInv
<1>9. QED BY <1>3, <1>8

(* A reset. *)
LEMMA RestartWrites ==
  ASSUME WritesInv, Restarted
  PROVE  WritesInv'
<1>1. phase' = "prompt" /\ cmd'.name = "" /\ job' = Idle /\ UNCHANGED <<mem, flash, before>>
  BY DEF Restarted, NoCommand
<1>2. QED BY <1>1 DEF WritesInv

(* Every step keeps it. *)
LEMMA WritesSteps ==
  ASSUME BiosInv, WritesInv, Next
  PROVE  WritesInv'
<1>1. CASE TypeLine BY <1>1, EnterWrites
<1>2. CASE CheckStep \/ Refused \/ RegisterStep \/ ShowStep \/ CompareStep
  <2>1. phase = "command" /\ job = Idle /\ prog # <<>>
    BY <1>2 DEF CheckStep, Refused, RegisterStep, ShowStep, CompareStep, At
  <2>2. CASE CheckStep
    <3>1. \/ Advance /\ UNCHANGED <<media, dev, reply, shown, same>>
          \/ LeavesWith(Now.reply)
      BY <2>2, Zenon DEF CheckStep
    <3>2. /\ UNCHANGED <<mem, flash, cmd, before, job>> /\ (prog' = <<>> \/ prog' = Tail(prog))
      BY <3>1 DEF Advance, LeavesWith, media
    <3>3. QED BY <2>1, <3>2, CalmWrites
  <2>3. CASE Refused \/ RegisterStep \/ ShowStep \/ CompareStep
    <3>1. /\ UNCHANGED <<mem, flash, cmd, before, job>> /\ (prog' = <<>> \/ prog' = Tail(prog))
      BY <2>3 DEF Refused, RegisterStep, ShowStep, CompareStep, Advance, LeavesWith, media
    <3>2. QED BY <2>1, <3>1, CalmWrites
  <2>4. QED BY <1>2, <2>2, <2>3
<1>3. CASE Leave
  <2>1. phase = "command" /\ job = Idle /\ prog' = <<>> /\ UNCHANGED <<mem, flash, cmd, before>>
    BY <1>3 DEF Leave, At
  <2>2. job' = Idle
    <3>1. CASE Now.do = "jump" BY <1>3, <3>1 DEF Leave, boot_helper
    <3>2. CASE Now.do # "jump" BY <1>3, <2>1, <3>2 DEF Leave
    <3>3. QED BY <3>1, <3>2
  <2>3. QED BY <2>1, <2>2, CalmWrites
<1>4. CASE Return
  <2>1. /\ phase = "command" /\ job = Idle /\ phase' = "prompt" /\ UNCHANGED <<mem, flash, cmd, before, job>>
    BY <1>4 DEF Return, media
  <2>2. phase' # "command" BY <2>1
  <2>3. QED BY <2>1, <2>2, CalmWrites
<1>5. CASE MemoryStep BY <1>5, MemoryWrites
<1>6. CASE FlashStep BY <1>6, FlashWrites
<1>7. CASE MediaStart BY <1>7, StartWrites
<1>8. CASE MediaRuns BY <1>8, RunsWrites
<1>9. CASE ctrl_reset_write \/ ResetButton BY <1>9, RestartWrites DEF ctrl_reset_write, ResetButton
<1>10. QED BY <1>1, <1>2, <1>3, <1>4, <1>5, <1>6, <1>7, <1>8, <1>9 DEF Next, CommandStep

-----------------------------------------------------------------------------
(* A loop that has not begun has done nothing, one that has ended all. *)
LEMMA AtTheEnds ==
  /\ \A h, f, n : LoopsOver(h, f, n) => Gone(h, n) = 0
  /\ \A n \in Nat : Gone(<<>>, n) = n
<1>1. ASSUME NEW h, NEW f, NEW n, LoopsOver(h, f, n) PROVE Gone(h, n) = 0
  <2>1. n \in Nat /\ IsSeq(f) /\ Len(f) = n BY <1>1 DEF LoopsOver
  <2>2. PICK g : Guards(g) /\ h = g \o f BY <1>1 DEF LoopsOver
  <2>3. Len(h) = Len(g) + n BY <2>1, <2>2, Joined DEF Guards
  <2>4. Len(g) \in Nat BY <2>2, SeqLen DEF Guards
  <2> DEFINE k == Len(h)
             g0 == Len(g)
  <2>5. k = g0 + n /\ g0 \in Nat BY <2>3, <2>4
  <2> HIDE DEF k, g0
  <2>6. (IF k <= n THEN n - k ELSE 0) = 0 BY <2>1, <2>5, SMT
  <2>7. QED BY <2>6 DEF Gone, k
<1>2. ASSUME NEW n \in Nat PROVE Gone(<<>>, n) = n
  <2>1. Len(<<>>) = 0 BY Tuples
  <2>2. (IF 0 <= n THEN n - 0 ELSE 0) = n BY SMT
  <2>3. QED BY <2>1, <2>2 DEF Gone
<1>3. QED BY <1>1, <1>2

(* Nothing done yet. *)
LEMMA NothingYet ==
  ASSUME NEW old, old = [x \in Addr |-> old[x]], NEW a \in Nat, NEW size \in Nat, NEW v, NEW s \in Nat
  PROVE  /\ Stored(old, old, a, size, 0, v) /\ CopiedOver(old, old, a, s, 0)
<1>1. \A x \in Addr : x \in Nat BY PlacesAssumption, SMT DEF Addr
<1>2. size * 0 = 0 /\ 4 * 0 = 0 BY SMT
<1>3. \A x \in Addr : x \notin a .. (a + 0 - 1) BY <1>1, SMT
<1>4. Stored(old, old, a, size, 0, v)
  <2>1. \A x \in Addr : (IF x \in a .. (a + 0 - 1) THEN ByteOf(v, (x - a) % size) ELSE old[x]) = old[x] BY <1>3
  <2>2. old = [x \in Addr |-> IF x \in a .. (a + 0 - 1) THEN ByteOf(v, (x - a) % size) ELSE old[x]] BY <2>1
  <2>3. QED BY <1>2, <2>2 DEF Stored
<1>5. CopiedOver(old, old, a, s, 0)
  <2> DEFINE Was(x) == IF s + (x - a) \in a .. (a + 4 * ((x - a) \div 4) - 1)
                       THEN old[s + (x - a)] ELSE old[s + (x - a)]
  <2> HIDE DEF Was
  <2>1. \A x \in Addr : (IF x \in a .. (a + 0 - 1) THEN Was(x) ELSE old[x]) = old[x] BY <1>3
  <2>2. old = [x \in Addr |-> IF x \in a .. (a + 0 - 1) THEN Was(x) ELSE old[x]] BY <2>1
  <2>3. QED BY <1>2, <2>2 DEF CopiedOver, Was
<1>6. QED BY <1>4, <1>5

(* A command begins. *)
LEMMA EnterRounds ==
  ASSUME BiosInv, WritesInv, TypeLine
  PROVE  RoundsInv'
<1> DEFINE p == cmd'.params
           h == Handler(cmd'.name, p)
           old == before'.mem
<1>1. /\ Len(p) \in Nat /\ shown' = <<>> /\ same' = TRUE /\ old = mem /\ mem' = mem
      /\ reply' # "done"
  BY Entered
<1>2. SUFFICES ASSUME phase' = "command", reply' = "none" PROVE RoundsInv'
  BY <1>1 DEF RoundsInv, Calls
<1>3. cmd'.name \in CommandNames /\ prog' = h BY <1>2, Entered
<1>4. old = [x \in Addr |-> old[x]] /\ mem' = old BY <1>1 DEF WritesInv
<1>5. Rest(prog', h)
  <2>1. Good(h) BY <1>1, <1>3, HandlerGood
  <2>2. IsSeq(h) BY <2>1 DEF Good
  <2> HIDE DEF h
  <2>3. Len(h) \in Nat BY <2>2, SeqLen
  <2>4. Len(h) <= Len(h) /\ \A k \in 1 .. Len(h) : Len(h) - Len(h) + k = k BY <2>3, SMT
  <2>5. QED BY <1>3, <2>2, <2>4 DEF Rest
<1>6. 0 \in Nat /\ 1 \in Nat /\ 4 \in Nat OBVIOUS
<1>7. /\ Arg(p, 1, 0) \in Nat /\ Arg(p, 2, 0) \in Nat /\ Arg(p, 3, 0) \in Nat /\ Arg(p, 3, 1) \in Nat
      /\ Arg(p, 4, 4) \in Nat /\ CountOf(p) \in Nat
  BY <1>6, Numeric, Zenon DEF CountOf
<1>8. \A f, n : LoopsOver(h, f, n) => Gone(prog', n) = 0 BY <1>3, AtTheEnds
<1>9. Calls("mem_write")' => Written(Rounds(Asked(3, 1)))'
  <2>1. SUFFICES ASSUME cmd'.name = "mem_write" PROVE Written(Rounds(Asked(3, 1)))' BY DEF Calls
  <2>2. Gone(prog', Arg(p, 3, 1)) = 0 BY <1>8, <2>1, Loops
  <2> DEFINE size == IF Len(p) = 4 THEN Arg(p, 4, 4) ELSE 4
  <2>3. size \in Nat BY <1>6, <1>7, Zenon
  <2> HIDE DEF old
  <2>4. Stored(old, old, Arg(p, 1, 0), size, 0, Arg(p, 2, 0)) BY <1>4, <1>6, <1>7, <2>3, NothingYet
  <2>5. DOMAIN old = Addr BY <1>4
  <2>6. QED BY <1>4, <2>2, <2>4, <2>5 DEF Written, Rounds, Asked, ValueSize, Overlay, Stored, old
<1>10. Calls("mem_copy")' => Copied(Rounds(Asked(3, 1)))'
  <2>1. SUFFICES ASSUME cmd'.name = "mem_copy" PROVE Copied(Rounds(Asked(3, 1)))' BY DEF Calls
  <2>2. Gone(prog', Arg(p, 3, 1)) = 0 BY <1>8, <2>1, Loops
  <2> HIDE DEF old
  <2>3. CopiedOver(old, old, Arg(p, 1, 0), Arg(p, 2, 0), 0) BY <1>4, <1>6, <1>7, NothingYet
  <2>4. DOMAIN old = Addr BY <1>4
  <2>5. QED BY <1>4, <2>2, <2>3, <2>4 DEF Copied, Rounds, Asked, Overlay, CopiedOver, old
<1>11. Calls("mem_read")' => Printed(Rounds(LineCount(ReadCount)))'
  <2>1. SUFFICES ASSUME cmd'.name = "mem_read" PROVE Printed(Rounds(LineCount(ReadCount)))' BY DEF Calls
  <2>2. Gone(prog', LineCount(CountOf(p))) = 0 BY <1>8, <2>1, Loops
  <2>3. ReadCount' = CountOf(p) BY DEF ReadCount, CountOf, Asked
  <2>4. IsSeq(shown') /\ Len(shown') = 0 BY <1>1, Tuples
  <2>5. \A k \in 1 .. 0 : FALSE BY SMT
  <2>6. QED BY <2>2, <2>3, <2>4, <2>5 DEF Printed, Rounds
<1>12. Calls("mem_cmp")' => Compared(Rounds(Asked(3, 0)))'
  <2>1. SUFFICES ASSUME cmd'.name = "mem_cmp" PROVE Compared(Rounds(Asked(3, 0)))' BY DEF Calls
  <2>2. Gone(prog', Arg(p, 3, 0)) = 0 BY <1>8, <2>1, Loops
  <2>3. \A k \in 0 .. (0 - 1) : FALSE BY SMT
  <2>4. QED BY <1>1, <2>2, <2>3 DEF Compared, Rounds, Asked
<1>13. QED BY <1>1, <1>3, <1>5, <1>9, <1>10, <1>11, <1>12 DEF RoundsInv

(* A command that goes on has been refused nothing before. *)
LEMMA StillOn ==
  ASSUME BiosInv, Next, phase = "command", phase' = "command"
  PROVE  reply = "none" /\ reply' \in {"none", "usage", "bad", "error"} /\ cmd' = cmd
<1>1. ~TypeLine /\ ~Leave /\ ~Return /\ ~ctrl_reset_write /\ ~ResetButton
  BY DEF TypeLine, Leave, Return, ctrl_reset_write, ResetButton, Restarted
<1>2. MediaRuns => job # Idle BY MediaJob DEF MediaRuns, BiosInv
<1>3. prog # <<>> \/ job # Idle
  BY <1>1, <1>2 DEF Next, CommandStep, CheckStep, Refused, RegisterStep, MemoryStep, FlashStep, ShowStep,
                    CompareStep, MediaStart, At
<1>4. reply = "none" BY <1>3 DEF BiosInv, CheckedInv
<1>5. CASE CheckStep
  <2>1. \/ Advance /\ UNCHANGED <<media, dev, reply, shown, same>>
        \/ LeavesWith(Now.reply)
    BY <1>5, Zenon DEF CheckStep
  <2>2. Now.reply \in {"usage", "bad"} BY <1>5, NowIs DEF CheckStep, At
  <2>3. QED BY <1>4, <2>1, <2>2 DEF Advance, LeavesWith
<1>6. CASE Refused \/ RegisterStep \/ MemoryStep \/ FlashStep \/ ShowStep \/ CompareStep \/ MediaStart \/ MediaRuns
  BY <1>4, <1>6 DEF Refused, RegisterStep, MemoryStep, FlashStep, ShowStep, CompareStep, MediaStart, MediaRuns,
                    Advance, LeavesWith
<1>7. QED BY <1>1, <1>4, <1>5, <1>6 DEF Next, CommandStep

(* Every step keeps it. *)
LEMMA RoundsSteps ==
  ASSUME BiosInv, WritesInv, RoundsInv, Next
  PROVE  RoundsInv'
<1>1. CASE TypeLine BY <1>1, EnterRounds
<1>2. CASE phase' # "command" BY <1>2 DEF RoundsInv, Calls
<1>3. CASE phase' = "command" /\ ~TypeLine
  <2>1. phase = "command"
    BY <1>3 DEF Next, CommandStep, CheckStep, Refused, RegisterStep, MemoryStep, FlashStep, ShowStep, CompareStep,
                Leave, MediaStart, MediaRuns, Return, ctrl_reset_write, ResetButton, At
  <2>2. /\ reply = "none" /\ reply' \in {"none", "usage", "bad", "error"} /\ cmd' = cmd
        /\ Len(cmd.params) \in Nat
    BY <1>3, <2>1, StillOn DEF RoundsInv
  <2>3. SUFFICES ASSUME reply' = "none" PROVE RoundsInv' BY <2>2 DEF RoundsInv, Calls
  <2>4. Rest(prog', Handler(cmd'.name, cmd'.params))
    <3>1. Rest(prog, Handler(cmd.name, cmd.params)) BY <2>1, <2>2 DEF RoundsInv
    <3>2. prog' = prog \/ (prog # <<>> /\ prog' = Tail(prog)) BY <1>3, <2>1, <2>2, <2>3, GoesOn
    <3>3. QED BY <2>2, <3>1, <3>2, RestTail
  <2>5. \A name : Calls(name)' <=> cmd.name = name BY <1>3, <2>2, <2>3 DEF Calls
  <2>6. \A name : Calls(name) <=> cmd.name = name BY <2>1, <2>2 DEF Calls
  <2>7. Calls("mem_write")' => Written(Rounds(Asked(3, 1)))' BY <2>5, <2>6, WriteGoes
  <2>8. Calls("mem_copy")' /\ SourceInMem' => Copied(Rounds(Asked(3, 1)))'
    <3>1. SourceInMem' <=> SourceInMem BY <2>2 DEF SourceInMem, Asked
    <3>2. QED BY <2>5, <2>6, <3>1, CopyGoes
  <2>9. Calls("mem_read")' => Printed(Rounds(LineCount(ReadCount)))' BY <2>5, <2>6, ReadGoes
  <2>10. Calls("mem_cmp")' => Compared(Rounds(Asked(3, 0)))' BY <2>5, <2>6, CompareGoes
  <2>11. QED BY <2>2, <2>4, <2>7, <2>8, <2>9, <2>10 DEF RoundsInv
<1>4. QED BY <1>1, <1>2, <1>3

-----------------------------------------------------------------------------
(* The commands that ended. *)
EndedInv ==
  /\ Finished("mem_write") => Written(Asked(3, 1))
  /\ Finished("mem_copy") /\ SourceInMem => Copied(Asked(3, 1))
  /\ Finished("mem_read") => Dumped(ReadCount)
  /\ Finished("mem_cmp") => Compared(Asked(3, 0))

(* A handler that returns has made every round of its loop. *)
LEMMA ReturnEnds ==
  ASSUME BiosInv, WritesInv, RoundsInv, Return
  PROVE  EndedInv'
<1>1. /\ phase = "command" /\ job = Idle /\ prog = <<>> /\ phase' = "prompt"
      /\ reply' = IF reply = "none" THEN "done" ELSE reply
      /\ UNCHANGED <<mem, cmd, before, shown, same>>
  BY DEF Return, media
<1>2. reply' = "done" => reply = "none" BY <1>1 DEF RoundsInv
<1>3. ASSUME NEW name, Finished(name)' PROVE Calls(name) BY <1>1, <1>2, <1>3 DEF Finished, Calls
<1>4. /\ Asked(1, 0) \in Nat /\ Asked(3, 0) \in Nat /\ Asked(3, 1) \in Nat /\ ReadCount \in Nat BY AskedNat
<1>5. LineCount(ReadCount) \in Nat BY <1>4, DumpLines DEF LineCount
<1>6. \A n \in Nat : Rounds(n) = n BY <1>1, AtTheEnds DEF Rounds
<1>7. Finished("mem_write")' => Written(Asked(3, 1))'
  <2>1. Calls("mem_write") => Written(Asked(3, 1)) BY <1>4, <1>6 DEF RoundsInv
  <2>2. Written(Asked(3, 1))' <=> Written(Asked(3, 1)) BY <1>1 DEF Written, Asked, ValueSize, Overlay
  <2>3. QED BY <1>3, <2>1, <2>2
<1>8. Finished("mem_copy")' /\ SourceInMem' => Copied(Asked(3, 1))'
  <2>1. Calls("mem_copy") /\ SourceInMem => Copied(Asked(3, 1)) BY <1>4, <1>6 DEF RoundsInv
  <2>2. Copied(Asked(3, 1))' <=> Copied(Asked(3, 1)) BY <1>1 DEF Copied, Asked, Overlay
  <2>3. SourceInMem' <=> SourceInMem BY <1>1 DEF SourceInMem, Asked
  <2>4. QED BY <1>3, <2>1, <2>2, <2>3
<1>9. Finished("mem_read")' => Dumped(ReadCount)'
  <2>1. Calls("mem_read") => Printed(LineCount(ReadCount)) BY <1>5, <1>6 DEF RoundsInv
  <2>2. Calls("mem_read") => Dumped(ReadCount) BY <1>4, <2>1, AllPrinted
  <2>3. Dumped(ReadCount)' <=> Dumped(ReadCount) BY <1>1 DEF Dumped, Asked, ReadCount
  <2>4. QED BY <1>3, <2>2, <2>3
<1>10. Finished("mem_cmp")' => Compared(Asked(3, 0))'
  <2>1. Calls("mem_cmp") => Compared(Asked(3, 0)) BY <1>4, <1>6 DEF RoundsInv
  <2>2. Compared(Asked(3, 0))' <=> Compared(Asked(3, 0)) BY <1>1 DEF Compared, Asked
  <2>3. QED BY <1>3, <2>1, <2>2
<1>11. QED BY <1>7, <1>8, <1>9, <1>10 DEF EndedInv

(* Every step keeps it. *)
LEMMA EndedSteps ==
  ASSUME BiosInv, WritesInv, RoundsInv, Next
  PROVE  EndedInv'
<1>1. CASE Return BY <1>1, ReturnEnds
<1>2. CASE TypeLine
  <2>1. reply' # "done" BY <1>2, Entered
  <2>2. QED BY <2>1 DEF EndedInv, Finished
<1>3. CASE ~Return /\ ~TypeLine
  <2>1. phase' # "prompt" \/ reply' = "none"
    <3>1. CASE ctrl_reset_write \/ ResetButton BY <3>1 DEF ctrl_reset_write, ResetButton, Restarted
    <3>2. CASE CheckStep
      <4>1. phase = "command" /\ phase' = phase
        BY <3>2, Zenon DEF CheckStep, At, Advance, LeavesWith
      <4>2. QED BY <4>1
    <3>3. CASE Refused \/ RegisterStep \/ MemoryStep \/ FlashStep \/ ShowStep \/ CompareStep
      BY <3>3 DEF Refused, RegisterStep, MemoryStep, FlashStep, ShowStep, CompareStep, At, Advance, LeavesWith
    <3>4. CASE Leave BY <3>4 DEF Leave
    <3>5. CASE MediaStart \/ MediaRuns BY <3>5 DEF MediaStart, MediaRuns, At
    <3>6. QED BY <1>3, <3>1, <3>2, <3>3, <3>4, <3>5 DEF Next, CommandStep
  <2>2. QED BY <2>1 DEF EndedInv, Finished
<1>4. QED BY <1>1, <1>2, <1>3

(* The boot command. *)
LEMMA LeaveBoots ==
  ASSUME BiosInv, WritesInv, RoundsInv, Leave
  PROVE  BootsWhereTold'
<1> DEFINE p == cmd.params
<1>1. /\ phase = "command" /\ job = Idle /\ prog # <<>> /\ UNCHANGED cmd
      /\ Now.do \in {"jump", "overrun"}
  BY DEF Leave, At
<1>2. Now = prog[1] BY <1>1, NowIs
<1>3. reply = "none" /\ Len(p) \in Nat BY <1>1 DEF BiosInv, CheckedInv, RoundsInv
<1>4. Rest(prog, Handler(cmd.name, p)) BY <1>1, <1>3 DEF RoundsInv
<1>5. SUFFICES ASSUME phase' = "booted", cmd'.name = "boot"
               PROVE  /\ jump'.a = Arg(p, 1, 0) /\ jump'.r1 = Arg(p, 2, 0)
                      /\ Len(p) <= 3 => jump'.r2 = Arg(p, 3, 0)
  BY <1>1 DEF BootsWhereTold, Asked
<1>6. Now.do = "jump" /\ boot_helper(Now.r1, Now.r2, Now.r3, Now.a)
  <2>1. Now.do = "jump"
    <3>1. SUFFICES ASSUME Now.do # "jump" PROVE FALSE OBVIOUS
    <3>2. phase' = "overrun" BY <3>1 DEF Leave
    <3>3. QED BY <1>5, <3>2
  <2>2. QED BY <2>1 DEF Leave
<1>7. jump'.a = Now.a /\ jump'.r1 = Now.r1 /\ jump'.r2 = Now.r2 BY <1>6 DEF boot_helper
<1>8. Now = BootStep(p)[1]
  <2>1. LoopsOver(Handler(cmd.name, p), BootStep(p), 1) BY <1>1, <1>5, Loops
  <2>2. Guard(Now) \/ \E i \in 1 .. 1 : Now = BootStep(p)[i] BY <1>1, <1>2, <1>4, <2>1, LoopStep
  <2>3. ~Guard(Now) BY <1>6 DEF Guard
  <2>4. \A i \in 1 .. 1 : i = 1 BY SMT
  <2>5. QED BY <2>2, <2>3, <2>4
<1>9. /\ Now.a = Arg(p, 1, 0) /\ Now.r1 = Arg(p, 2, 0)
      /\ Now.r2 = IF Len(p) > 3 THEN Arg(p, 4, 0) ELSE Arg(p, 3, 0)
  BY <1>8 DEF BootStep, Jump
<1>10. Len(p) <= 3 => ~(Len(p) > 3) BY <1>3, SMT
<1>11. QED BY <1>7, <1>9, <1>10

(* Every step keeps it. *)
LEMMA BootSteps ==
  ASSUME BiosInv, WritesInv, RoundsInv, Next
  PROVE  BootsWhereTold'
<1>1. CASE Leave BY <1>1, LeaveBoots
<1>2. CASE MediaStart \/ MediaRuns
  <2>1. cmd' = cmd BY <1>2 DEF MediaStart, MediaRuns
  <2>2. cmd.name # "boot" BY <1>2, StartWrites, RunsWrites DEF Booters
  <2>3. QED BY <2>1, <2>2 DEF BootsWhereTold
<1>3. CASE TypeLine
  <2>1. phase' # "booted" BY <1>3, Entered
  <2>2. QED BY <2>1 DEF BootsWhereTold
<1>4. CASE CheckStep
  <2>1. phase = "command" /\ phase' = phase BY <1>4, Zenon DEF CheckStep, At, Advance, LeavesWith
  <2>2. QED BY <2>1 DEF BootsWhereTold
<1>5. CASE Refused \/ RegisterStep \/ MemoryStep \/ FlashStep \/ ShowStep \/ CompareStep \/ Return
           \/ ctrl_reset_write \/ ResetButton
  <2>1. phase' \in {"command", "prompt"}
    BY <1>5 DEF Refused, RegisterStep, MemoryStep, FlashStep, ShowStep, CompareStep, Return, ctrl_reset_write,
                ResetButton, Restarted, At, Advance, LeavesWith
  <2>2. QED BY <2>1 DEF BootsWhereTold
<1>6. QED BY <1>1, <1>2, <1>3, <1>4, <1>5 DEF Next, CommandStep

-----------------------------------------------------------------------------
(* The second invariant: who writes what, how far the loops have come, what *)
(* the commands that ended have done.                                      *)
AskedInv == WritesInv /\ RoundsInv /\ EndedInv /\ BootsWhereTold

LEMMA AskedFirst == Init => AskedInv
<1>1. SUFFICES ASSUME Init PROVE AskedInv OBVIOUS
<1>2. /\ job = Idle /\ phase = "prompt" /\ reply = "none" /\ cmd.name = "" /\ before = Snapshot
      /\ mem = FirstMem
  BY <1>1 DEF Init, MediaInit, NoCommand
<1>3. mem = [x \in Addr |-> mem[x]] /\ before.mem = mem BY <1>2, InputsAssumption DEF Snapshot
<1>4. WritesInv BY <1>2, <1>3 DEF WritesInv
<1>5. RoundsInv BY <1>2 DEF RoundsInv, Calls
<1>6. EndedInv BY <1>2 DEF EndedInv, Finished
<1>7. BootsWhereTold BY <1>2 DEF BootsWhereTold
<1>8. QED BY <1>4, <1>5, <1>6, <1>7 DEF AskedInv

LEMMA AskedSteps == BiosInv /\ AskedInv /\ [Next]_vars => AskedInv'
<1>1. SUFFICES ASSUME BiosInv, AskedInv, [Next]_vars PROVE AskedInv' OBVIOUS
<1>2. CASE Next BY <1>1, <1>2, WritesSteps, RoundsSteps, EndedSteps, BootSteps DEF AskedInv
<1>3. CASE UNCHANGED vars
  <2>1. UNCHANGED <<mem, flash, job, jump, phase, cmd, prog, reply, before, shown, same>>
    BY <1>3 DEF vars, media, console
  <2>2. WritesInv' BY <1>1, <2>1 DEF AskedInv, WritesInv
  <2>3. RoundsInv'
    BY <1>1, <2>1 DEF AskedInv, RoundsInv, Calls, Rounds, SourceInMem, Written, Copied, Printed, Compared, Asked,
                      ReadCount, ValueSize, Overlay
  <2>4. EndedInv'
    BY <1>1, <2>1 DEF AskedInv, EndedInv, Finished, SourceInMem, Written, Copied, Dumped, Compared, Asked,
                      ReadCount, ValueSize, Overlay
  <2>5. BootsWhereTold' BY <1>1, <2>1 DEF AskedInv, BootsWhereTold, Asked
  <2>6. QED BY <2>2, <2>3, <2>4, <2>5 DEF AskedInv
<1>4. QED BY <1>1, <1>2, <1>3

LEMMA AskedAlways == Spec => []AskedInv
<1>1. Init => AskedInv BY AskedFirst
<1>2. BiosInv /\ AskedInv /\ [Next]_vars => AskedInv' BY AskedSteps
<1>3. Spec => []BiosInv BY BiosAlways
<1>4. QED BY <1>1, <1>2, <1>3, PTL DEF Spec

LEMMA AskedSays == AskedInv => DoesWhatWasAsked /\ BootsWhereTold
BY DEF AskedInv, EndedInv, WritesInv, DoesWhatWasAsked, SourceInMem

(* A command does what its parameters say: mem_write, mem_copy, mem_read    *)
(* and mem_cmp (cmd_mem.c) end with the memory, the lines or the answer     *)
(* that the memory they were called with and their parameters give, however *)
(* long their loops are; memory and flash change only under the commands    *)
(* that write them.                                                         *)
THEOREM BiosDoesWhatWasAsked == Spec => []DoesWhatWasAsked
BY AskedAlways, AskedSays, PTL

(* The boot command (cmd_boot.c) reaches the program it names, with the     *)
(* registers that come before the place where its fourth parameter goes.    *)
LEMMA BootsAlways == Spec => []BootsWhereTold
BY AskedAlways, AskedSays, PTL

-----------------------------------------------------------------------------
(* The keys that the loop over the tokens has passed when it is at n. *)
Passed(S, n) == {k \in S : k < n}

(* What the loop has noted of the keys it has passed. *)
Entry(t, n) ==
  LET given == Passed(Given(t, "addr"), n) IN
  LastValue(t, IF given = {} THEN Passed(Images(t), n) ELSE given)
Told(j) ==
  LET t == j.tokens IN
  /\ DOMAIN j.r = {"r1", "r2", "r3"}
  /\ \A name \in {"r1", "r2", "r3"} : j.r[name] = LastValue(t, Passed(Given(t, name), j.i))
  /\ j.imageFound <=> Passed(Images(t), j.i) # {}
  /\ j.addrFound <=> Passed(Given(t, "addr"), j.i) # {}
  /\ j.addr = Entry(t, j.i)

(* As much of the current file as has been read lies at its place. *)
Part(j, cells) ==
  \A n \in 1 .. j.got :
    j.at + n - 1 \in Addr => cells[j.at + n - 1] = j.files[j.file].bytes[n]
InProgress(j) == j.use = "image" /\ j.step # "tokens"
Coming(j, cells) ==
  InProgress(j) =>
    /\ j.i \in Images(j.tokens) /\ j.file = j.tokens[j.i].text
    /\ j.at = ValueOf(j.tokens, j.i) /\ Part(j, cells)

(* The images of the keys passed are where the file wants them, but for     *)
(* what a later one covers, or the one that is being read.                 *)
Fresh(j) == IF InProgress(j) THEN j.at .. (j.at + j.got - 1) ELSE {}
LaterImage(j, k, n, x) == \E later \in Passed(Images(j.tokens), n) : later > k /\ x \in Place(j, later)
Lies(j, k, x, cells) ==
  cells[x] = j.files[j.tokens[k].text].bytes[x - ValueOf(j.tokens, k) + 1]
Landed(j, cells) ==
  \A k \in Passed(Images(j.tokens), j.i) :
    /\ j.tokens[k].text \in DOMAIN j.files
    /\ \A x \in Place(j, k) \cap Addr :
         LaterImage(j, k, j.i, x) \/ x \in Fresh(j) \/ Lies(j, k, x, cells)

Loading(j, cells, fl) ==
  /\ j.step = "tokens" => j.use \in {"json", "image"}
  /\ j.step = "flash" => j.use = "flash" /\ j.from = "flash"
  /\ j.use \in {"json", "image"} =>
       AreTokens(j.tokens) /\ Told(j) /\ Landed(j, cells) /\ Coming(j, cells)
  /\ j.use = "bin" => j.at = MainRamBase /\ j.file = "boot.bin" /\ Part(j, cells)
  /\ j.use = "flash" =>
       /\ fl[0] \in MinImage .. MaxImage /\ fl[1] = Crc([k \in 1 .. fl[0] |-> fl[k + 1]])
       /\ \A n \in 1 .. j.got : MainRamBase + n - 1 \in Addr => cells[MainRamBase + n - 1] = fl[n + 1]

-----------------------------------------------------------------------------
(* One key more is passed. *)
LEMMA PassedNext ==
  ASSUME NEW S, S \subseteq Nat, NEW n \in Nat
  PROVE  /\ n \in S => Passed(S, n + 1) = Passed(S, n) \cup {n}
         /\ n \notin S => Passed(S, n + 1) = Passed(S, n)
<1>1. \A k \in S : k < n + 1 <=> k < n \/ k = n
  <2>1. SUFFICES ASSUME NEW k \in S PROVE k < n + 1 <=> k < n \/ k = n OBVIOUS
  <2>2. k \in Nat OBVIOUS
  <2>3. QED BY <2>2, SMT
<1>2. QED BY <1>1, Zenon DEF Passed

(* The last of some numbers. *)
LEMMA LastIs ==
  ASSUME NEW S, S \subseteq Nat, NEW n \in S, \A k \in S : k <= n
  PROVE  LastOf(S) = n
<1>1. \E k \in S : \A j \in S : j <= k OBVIOUS
<1>2. LastOf(S) \in S /\ \A j \in S : j <= LastOf(S) BY <1>1 DEF LastOf
<1>3. n <= LastOf(S) /\ LastOf(S) <= n /\ LastOf(S) \in Nat /\ n \in Nat BY <1>2
<1>4. QED BY <1>3, SMT

(* So the value given last is that of the key passed last. *)
LEMMA LastPassed ==
  ASSUME NEW S, S \subseteq Nat, NEW n \in S, NEW t
  PROVE  /\ LastValue(t, Passed(S, n + 1)) = ValueOf(t, n)
         /\ Passed(S, n + 1) # {}
<1> DEFINE P == Passed(S, n + 1)
<1>1. P \subseteq Nat /\ n \in P /\ \A k \in P : k <= n
  <2>1. n \in Nat /\ n < n + 1 BY SMT
  <2>2. P \subseteq Nat /\ n \in P BY <2>1, Zenon DEF Passed
  <2>3. ASSUME NEW k \in P PROVE k <= n
    <3>1. k < n + 1 /\ k \in Nat BY <2>2, <2>3, Zenon DEF Passed
    <3>2. QED BY <2>1, <3>1, SMT
  <2>4. QED BY <2>2, <2>3
<1> HIDE DEF P
<1>2. LastOf(P) = n BY <1>1, LastIs
<1>3. QED BY <1>1, <1>2 DEF LastValue, P

(* A key is a token with one behind it. *)
LEMMA KeysAre ==
  ASSUME NEW t, Len(t) \in Nat
  PROVE  /\ Keys(t) \subseteq Nat
         /\ \A k \in Keys(t) : k \in 1 .. (Len(t) - 1)
         /\ \A name : Given(t, name) \subseteq Keys(t)
         /\ Images(t) \subseteq Keys(t)
         /\ \A S, n : S \subseteq Keys(t) /\ n \in Nat /\ n >= Len(t) => Passed(S, n) = S
         /\ \A S : S \subseteq Keys(t) => Passed(S, 1) = {}
<1>1. \A k \in Keys(t) : k \in 1 .. (Len(t) - 1) BY DEF Keys
<1>2. Keys(t) \subseteq Nat BY <1>1, SMT
<1>3. (\A name : Given(t, name) \subseteq Keys(t)) /\ Images(t) \subseteq Keys(t) BY DEF Given, Images
<1>4. ASSUME NEW S, NEW n, S \subseteq Keys(t), n \in Nat, n >= Len(t) PROVE Passed(S, n) = S
  <2>1. \A k \in S : k < n BY <1>1, <1>4, SMT
  <2>2. QED BY <2>1 DEF Passed
<1>5. ASSUME NEW S, S \subseteq Keys(t) PROVE Passed(S, 1) = {}
  <2>1. \A k \in S : ~(k < 1) BY <1>1, <1>5, SMT
  <2>2. QED BY <2>1 DEF Passed
<1>6. QED BY <1>1, <1>2, <1>3, <1>4, <1>5

(* A token with one behind it is a key, an image or a parameter, by its     *)
(* text.                                                                   *)
LEMMA TokenIs ==
  ASSUME NEW t, Len(t) \in Nat, NEW n \in Nat \ {0}, n < Len(t)
  PROVE  /\ n \in Keys(t) <=> t[n].kind = "key"
         /\ \A name : n \in Given(t, name) <=> t[n].kind = "key" /\ t[n].text = name
         /\ n \in Images(t) <=> t[n].kind = "key" /\ t[n].text \notin Parameters
<1>1. n \in 1 .. (Len(t) - 1) BY SMT
<1>2. QED BY <1>1 DEF Keys, Given, Images

(* A value is a number. *)
LEMMA ValueNat ==
  ASSUME NEW t, AreTokens(t), Len(t) \in Nat, NEW k \in Keys(t)
  PROVE  ValueOf(t, k) \in Nat
<1>1. k + 1 \in 1 .. Len(t)
  <2>1. k \in 1 .. (Len(t) - 1) BY KeysAre
  <2>2. QED BY <2>1, SMT
<1>2. DOMAIN t = 1 .. Len(t) BY DEF AreTokens, IsSequence
<1>3. t[k + 1].kind = "value" => t[k + 1].text \in Nat BY <1>1, <1>2 DEF AreTokens
<1>4. QED BY <1>3 DEF ValueOf

(* What the loop has noted is right for one more key. *)
LEMMA ToldNext ==
  ASSUME NEW j, NEW k, Told(j), Len(j.tokens) \in Nat, j.i \in Nat \ {0}, j.i < Len(j.tokens),
         k.tokens = j.tokens, k.i = j.i + 1, DOMAIN k.r = {"r1", "r2", "r3"},
         \A name \in {"r1", "r2", "r3"} :
           k.r[name] = IF j.i \in Given(j.tokens, name) THEN ValueOf(j.tokens, j.i) ELSE j.r[name],
         k.imageFound <=> j.imageFound \/ j.i \in Images(j.tokens),
         k.addrFound <=> j.addrFound \/ j.i \in Given(j.tokens, "addr"),
         k.addr = IF \/ j.i \in Given(j.tokens, "addr")
                     \/ j.i \in Images(j.tokens) /\ ~j.addrFound
                  THEN ValueOf(j.tokens, j.i) ELSE j.addr
  PROVE  Told(k)
<1> DEFINE t == j.tokens
           i == j.i
<1>1. i \in Nat /\ i + 1 = k.i OBVIOUS
<1>2. \A name : Given(t, name) \subseteq Nat BY KeysAre
<1>3. Images(t) \subseteq Nat BY KeysAre
<1>4. ASSUME NEW S, S \subseteq Nat
      PROVE  /\ i \in S => LastValue(t, Passed(S, i + 1)) = ValueOf(t, i) /\ Passed(S, i + 1) # {}
             /\ i \notin S => Passed(S, i + 1) = Passed(S, i)
  <2>1. i \in Nat BY <1>1
  <2> HIDE DEF t, i
  <2>2. i \in S => LastValue(t, Passed(S, i + 1)) = ValueOf(t, i) /\ Passed(S, i + 1) # {}
    BY <1>4, LastPassed
  <2>3. i \notin S => Passed(S, i + 1) = Passed(S, i) BY <1>4, <2>1, PassedNext
  <2>4. QED BY <2>2, <2>3
<1>5. \A name \in {"r1", "r2", "r3"} : k.r[name] = LastValue(t, Passed(Given(t, name), i + 1))
  <2>1. SUFFICES ASSUME NEW name \in {"r1", "r2", "r3"}
                 PROVE  k.r[name] = LastValue(t, Passed(Given(t, name), i + 1)) OBVIOUS
  <2>2. k.r[name] = IF i \in Given(t, name) THEN ValueOf(t, i) ELSE j.r[name] OBVIOUS
  <2>3. j.r[name] = LastValue(t, Passed(Given(t, name), i)) BY DEF Told
  <2> HIDE DEF t, i
  <2>4. QED BY <1>2, <1>4, <2>2, <2>3
<1>6. k.imageFound <=> Passed(Images(t), i + 1) # {}
  <2>1. j.imageFound <=> Passed(Images(t), i) # {} BY Zenon DEF Told
  <2>2. k.imageFound <=> j.imageFound \/ i \in Images(t) BY Zenon
  <2>3. i \in Images(t) => Passed(Images(t), i + 1) # {} BY <1>3, <1>4
  <2>4. i \notin Images(t) => Passed(Images(t), i + 1) = Passed(Images(t), i) BY <1>3, <1>4
  <2>5. Passed(Images(t), i) # {} => Passed(Images(t), i + 1) # {}
    BY <1>3, <1>4, <2>3, <2>4
  <2> HIDE DEF t, i
  <2>6. QED BY <2>1, <2>2, <2>3, <2>4, <2>5, Zenon
<1>7. k.addrFound <=> Passed(Given(t, "addr"), i + 1) # {}
  <2>1. j.addrFound <=> Passed(Given(t, "addr"), i) # {} BY Zenon DEF Told
  <2>2. k.addrFound <=> j.addrFound \/ i \in Given(t, "addr") BY Zenon
  <2>3. i \in Given(t, "addr") => Passed(Given(t, "addr"), i + 1) # {} BY <1>2, <1>4
  <2>4. i \notin Given(t, "addr") => Passed(Given(t, "addr"), i + 1) = Passed(Given(t, "addr"), i) BY <1>2, <1>4
  <2>5. Passed(Given(t, "addr"), i) # {} => Passed(Given(t, "addr"), i + 1) # {}
    BY <1>2, <1>4, <2>3, <2>4
  <2> HIDE DEF t, i
  <2>6. QED BY <2>1, <2>2, <2>3, <2>4, <2>5, Zenon
<1>8. k.addr = Entry(t, i + 1)
  <2>1. j.addr = Entry(t, i) BY DEF Told
  <2>2. k.addr = IF i \in Given(t, "addr") \/ (i \in Images(t) /\ ~j.addrFound) THEN ValueOf(t, i) ELSE j.addr
    OBVIOUS
  <2>3. j.addrFound <=> Passed(Given(t, "addr"), i) # {} BY Zenon DEF Told
  <2> HIDE DEF t, i
  <2>4. CASE i \in Given(t, "addr") BY <1>2, <1>4, <2>2, <2>4 DEF Entry
  <2>5. CASE i \notin Given(t, "addr")
    <3>1. Passed(Given(t, "addr"), i + 1) = Passed(Given(t, "addr"), i) BY <1>2, <1>4, <2>5
    <3>2. CASE j.addrFound
      <4>1. Passed(Given(t, "addr"), i) # {} BY <2>3, <3>2, Zenon
      <4>2. k.addr = j.addr BY <2>2, <2>5, <3>2, Zenon
      <4>3. QED BY <2>1, <3>1, <4>1, <4>2 DEF Entry
    <3>3. CASE ~j.addrFound
      <4>1. Passed(Given(t, "addr"), i) = {} BY <2>3, <3>3, Zenon
      <4>2. Entry(t, i + 1) = LastValue(t, Passed(Images(t), i + 1)) BY <3>1, <4>1 DEF Entry
      <4>3. Entry(t, i) = LastValue(t, Passed(Images(t), i)) BY <4>1 DEF Entry
      <4>4. k.addr = IF i \in Images(t) THEN ValueOf(t, i) ELSE j.addr BY <2>2, <2>5, <3>3, Zenon
      <4>5. QED BY <1>3, <1>4, <2>1, <4>2, <4>3, <4>4
    <3>4. QED BY <3>2, <3>3
  <2>6. QED BY <2>4, <2>5
<1>9. k.tokens = t /\ k.i = i + 1 OBVIOUS
<1> HIDE DEF t, i
<1>10. QED BY <1>5, <1>6, <1>7, <1>8, <1>9, Zenon DEF Told

-----------------------------------------------------------------------------
(* Two jobs with the same file of tokens and the same medium. *)
LEMMA SameFiles ==
  ASSUME NEW j, NEW k, k.tokens = j.tokens, k.files = j.files
  PROVE  /\ \A n : Place(k, n) = Place(j, n)
         /\ \A n, x, cells : Lies(k, n, x, cells) <=> Lies(j, n, x, cells)
         /\ \A n, m, x : LaterImage(k, n, m, x) <=> LaterImage(j, n, m, x)
<1>1. \A n : Place(k, n) = Place(j, n) BY DEF Place
<1>2. \A n, x, cells : Lies(k, n, x, cells) <=> Lies(j, n, x, cells) BY DEF Lies
<1>3. \A n, m, x : LaterImage(k, n, m, x) <=> LaterImage(j, n, m, x) BY <1>1 DEF LaterImage
<1>4. QED BY <1>1, <1>2, <1>3

(* The images stay where they are while no cell changes and no image is     *)
(* added to those that have landed.                                        *)
LEMMA LandedStays ==
  ASSUME NEW j, NEW k, NEW cells, Landed(j, cells), k.tokens = j.tokens, k.files = j.files,
         Passed(Images(j.tokens), k.i) = Passed(Images(j.tokens), j.i),
         Fresh(j) \subseteq Fresh(k)
  PROVE  Landed(k, cells)
<1>1. SUFFICES ASSUME NEW n \in Passed(Images(k.tokens), k.i)
               PROVE  /\ k.tokens[n].text \in DOMAIN k.files
                      /\ \A x \in Place(k, n) \cap Addr :
                           LaterImage(k, n, k.i, x) \/ x \in Fresh(k) \/ Lies(k, n, x, cells)
  BY DEF Landed
<1>2. n \in Passed(Images(j.tokens), j.i) OBVIOUS
<1>3. j.tokens[n].text \in DOMAIN j.files BY <1>2 DEF Landed
<1>4. ASSUME NEW x \in Place(k, n) \cap Addr
      PROVE  LaterImage(k, n, k.i, x) \/ x \in Fresh(k) \/ Lies(k, n, x, cells)
  <2>1. x \in Place(j, n) \cap Addr BY SameFiles
  <2>2. LaterImage(j, n, j.i, x) \/ x \in Fresh(j) \/ Lies(j, n, x, cells) BY <1>2, <2>1 DEF Landed
  <2>3. LaterImage(j, n, j.i, x) => LaterImage(j, n, k.i, x) BY DEF LaterImage
  <2>4. QED BY <2>2, <2>3, SameFiles
<1>5. QED BY <1>3, <1>4

(* One byte of a file more lies at its place. *)
Filled(j, cells) == [cells EXCEPT ![j.at + j.got] = j.files[j.file].bytes[j.got + 1]]

LEMMA PartGrows ==
  ASSUME NEW j, NEW k, NEW cells, NEW new, DOMAIN cells = Addr, j.at \in Nat, j.got \in Nat,
         Part(j, cells), new = Filled(j, cells),
         k.at = j.at, k.files = j.files, k.file = j.file, k.got = j.got + 1
  PROVE  Part(k, new)
<1>1. SUFFICES ASSUME NEW n \in 1 .. k.got, k.at + n - 1 \in Addr
               PROVE  new[k.at + n - 1] = k.files[k.file].bytes[n]
  BY DEF Part
<1>2. n \in 1 .. (j.got + 1) /\ j.at + n - 1 \in Addr BY <1>1
<1> DEFINE b == j.files[j.file].bytes
<1>3. CASE n = j.got + 1
  <2>1. j.at + n - 1 = j.at + j.got BY <1>3, SMT
  <2>2. new[j.at + j.got] = b[j.got + 1] BY <1>2, <2>1 DEF Filled
  <2>3. QED BY <1>3, <2>1, <2>2
<1>4. CASE n # j.got + 1
  <2>1. n \in 1 .. j.got /\ j.at + n - 1 # j.at + j.got BY <1>2, <1>4, SMT
  <2>2. new[j.at + n - 1] = cells[j.at + n - 1] BY <1>2, <2>1 DEF Filled
  <2>3. cells[j.at + n - 1] = b[n] BY <1>2, <2>1 DEF Part
  <2>4. QED BY <2>2, <2>3
<1>5. QED BY <1>3, <1>4

(* And the images that have landed stay, or are covered by it. *)
LEMMA LandedGrows ==
  ASSUME NEW j, NEW k, NEW cells, NEW new, DOMAIN cells = Addr, j.at \in Nat, j.got \in Nat,
         Landed(j, cells), new = Filled(j, cells), InProgress(j), InProgress(k),
         k.at = j.at, k.files = j.files, k.tokens = j.tokens, k.i = j.i, k.got = j.got + 1
  PROVE  Landed(k, new)
<1>1. SUFFICES ASSUME NEW n \in Passed(Images(k.tokens), k.i)
               PROVE  /\ k.tokens[n].text \in DOMAIN k.files
                      /\ \A x \in Place(k, n) \cap Addr :
                           LaterImage(k, n, k.i, x) \/ x \in Fresh(k) \/ Lies(k, n, x, new)
  BY DEF Landed
<1>2. n \in Passed(Images(j.tokens), j.i) OBVIOUS
<1>3. j.tokens[n].text \in DOMAIN j.files BY <1>2 DEF Landed
<1>4. ASSUME NEW x \in Place(k, n) \cap Addr
      PROVE  LaterImage(k, n, k.i, x) \/ x \in Fresh(k) \/ Lies(k, n, x, new)
  <2>1. x \in Place(j, n) \cap Addr BY SameFiles
  <2>2. LaterImage(j, n, j.i, x) \/ x \in Fresh(j) \/ Lies(j, n, x, cells) BY <1>2, <2>1 DEF Landed
  <2>3. Fresh(j) = j.at .. (j.at + j.got - 1) /\ Fresh(k) = j.at .. (j.at + (j.got + 1) - 1) BY DEF Fresh
  <2>4. CASE x = j.at + j.got
    <3>1. j.at + j.got \in j.at .. (j.at + (j.got + 1) - 1) BY SMT
    <3>2. QED BY <2>3, <2>4, <3>1
  <2>5. CASE x # j.at + j.got
    <3>1. Fresh(j) \subseteq Fresh(k)
      <4>1. j.at .. (j.at + j.got - 1) \subseteq j.at .. (j.at + (j.got + 1) - 1) BY SMT
      <4>2. QED BY <2>3, <4>1
    <3>2. new[x] = cells[x] BY <2>1, <2>5 DEF Filled
    <3>3. Lies(j, n, x, cells) => Lies(j, n, x, new) BY <3>2 DEF Lies
    <3>4. QED BY <2>2, <3>1, <3>3, SameFiles
  <2>6. QED BY <2>4, <2>5
<1>5. QED BY <1>3, <1>4

(* The whole of the image has been read. *)
LEMMA LandedWhole ==
  ASSUME NEW j, NEW k, NEW cells, j.at \in Nat, j.got \in Nat, j.i \in Nat, Images(j.tokens) \subseteq Nat,
         Landed(j, cells), Coming(j, cells), InProgress(j),
         j.file \in DOMAIN j.files, j.got = Len(j.files[j.file].bytes),
         k.files = j.files, k.tokens = j.tokens, k.i = j.i + 1
  PROVE  Landed(k, cells)
<1> DEFINE t == j.tokens
           b == j.files[j.file].bytes
<1>1. /\ j.i \in Images(t) /\ j.file = t[j.i].text /\ j.at = ValueOf(t, j.i) /\ Part(j, cells) BY DEF Coming
<1>2. Passed(Images(t), k.i) = Passed(Images(t), j.i) \cup {j.i} BY <1>1, PassedNext
<1>3. Place(j, j.i) = {j.at + n : n \in 0 .. (j.got - 1)} BY <1>1 DEF Place
<1>4. Fresh(j) = j.at .. (j.at + j.got - 1) BY DEF Fresh
<1>5. Fresh(j) \subseteq Place(j, j.i)
  <2>1. SUFFICES ASSUME NEW x \in j.at .. (j.at + j.got - 1) PROVE x \in {j.at + n : n \in 0 .. (j.got - 1)}
    BY <1>3, <1>4
  <2>2. x - j.at \in 0 .. (j.got - 1) /\ x = j.at + (x - j.at) BY SMT
  <2>3. QED BY <2>2
<1>6. ASSUME NEW n \in Passed(Images(t), j.i), NEW x \in Place(j, n) \cap Addr
      PROVE  LaterImage(j, n, k.i, x) \/ Lies(j, n, x, cells)
  <2>1. LaterImage(j, n, j.i, x) \/ x \in Fresh(j) \/ Lies(j, n, x, cells) BY <1>6 DEF Landed
  <2>2. LaterImage(j, n, j.i, x) => LaterImage(j, n, k.i, x) BY <1>2 DEF LaterImage
  <2>3. x \in Fresh(j) => LaterImage(j, n, k.i, x)
    <3>1. n < j.i /\ n \in Nat BY DEF Passed
    <3>2. j.i > n BY <3>1, SMT
    <3>3. QED BY <1>2, <1>5, <3>2 DEF LaterImage
  <2>4. QED BY <2>1, <2>2, <2>3
<1>7. ASSUME NEW x \in Place(j, j.i) \cap Addr PROVE Lies(j, j.i, x, cells)
  <2>1. PICK n \in 0 .. (j.got - 1) : x = j.at + n BY <1>3
  <2>2. n + 1 \in 1 .. j.got /\ j.at + (n + 1) - 1 = x /\ x - j.at + 1 = n + 1 BY <2>1, SMT
  <2>3. cells[x] = b[n + 1] BY <1>1, <2>2 DEF Part
  <2>4. QED BY <1>1, <2>2, <2>3 DEF Lies
<1>8. SUFFICES ASSUME NEW n \in Passed(Images(k.tokens), k.i)
               PROVE  /\ k.tokens[n].text \in DOMAIN k.files
                      /\ \A x \in Place(k, n) \cap Addr :
                           LaterImage(k, n, k.i, x) \/ x \in Fresh(k) \/ Lies(k, n, x, cells)
  BY DEF Landed
<1>9. n \in Passed(Images(t), j.i) \/ n = j.i BY <1>2
<1>10. t[n].text \in DOMAIN j.files BY <1>1, <1>9 DEF Landed
<1>11. ASSUME NEW x \in Place(k, n) \cap Addr
       PROVE  LaterImage(k, n, k.i, x) \/ Lies(k, n, x, cells)
  <2>1. x \in Place(j, n) \cap Addr BY SameFiles
  <2>2. LaterImage(j, n, k.i, x) \/ Lies(j, n, x, cells) BY <1>6, <1>7, <1>9, <2>1
  <2>3. QED BY <2>2, SameFiles
<1>12. QED BY <1>10, <1>11

-----------------------------------------------------------------------------
(* What the loop has noted stays with its fields. *)
LEMMA ToldStays ==
  ASSUME NEW j, NEW k, Told(j), k.tokens = j.tokens, k.i = j.i, k.r = j.r, k.addr = j.addr,
         k.addrFound = j.addrFound, k.imageFound = j.imageFound
  PROVE  Told(k)
BY DEF Told

(* The volume is mounted, the file opened: nothing is read. *)
LEMMA WaitLoads ==
  ASSUME NEW j, NEW k, NEW cells, NEW fl, Loading(j, cells, fl), j.step \in {"mount", "open"},
         k.step \in {"open", "read"}, \A f \in Fields \ {"step"} : k[f] = j[f]
  PROVE  Loading(k, cells, fl)
<1>1. /\ k.use = j.use /\ k.file = j.file /\ k.files = j.files /\ k.at = j.at /\ k.got = j.got
      /\ k.tokens = j.tokens /\ k.i = j.i /\ k.r = j.r /\ k.addr = j.addr
      /\ k.addrFound = j.addrFound /\ k.imageFound = j.imageFound /\ k.from = j.from
  BY DEF Fields
<1>2. k.step \notin {"tokens", "flash"} /\ j.step \notin {"tokens", "flash"} OBVIOUS
<1>3. Part(j, cells) => Part(k, cells) BY <1>1 DEF Part
<1>4. (InProgress(k) <=> InProgress(j)) /\ Fresh(k) = Fresh(j) BY <1>1, <1>2 DEF InProgress, Fresh
<1>5. ASSUME k.use \in {"json", "image"}
      PROVE  AreTokens(k.tokens) /\ Told(k) /\ Landed(k, cells) /\ Coming(k, cells)
  <2>1. AreTokens(j.tokens) /\ Told(j) /\ Landed(j, cells) /\ Coming(j, cells) BY <1>1, <1>5 DEF Loading
  <2>2. Told(k) BY <1>1, <2>1, ToldStays
  <2>3. Landed(k, cells) BY <1>1, <1>4, <2>1, LandedStays
  <2>4. Coming(k, cells) BY <1>1, <1>3, <1>4, <2>1 DEF Coming
  <2>5. QED BY <1>1, <2>1, <2>2, <2>3, <2>4
<1>6. k.use = "bin" => k.at = MainRamBase /\ k.file = "boot.bin" /\ Part(k, cells) BY <1>1, <1>3 DEF Loading
<1>7. k.use = "flash" =>
       /\ fl[0] \in MinImage .. MaxImage /\ fl[1] = Crc([n \in 1 .. fl[0] |-> fl[n + 1]])
       /\ \A n \in 1 .. k.got : MainRamBase + n - 1 \in Addr => cells[MainRamBase + n - 1] = fl[n + 1]
  BY <1>1 DEF Loading
<1>8. QED BY <1>2, <1>5, <1>6, <1>7 DEF Loading

(* boot.bin, of which nothing is read yet. *)
LEMMA FailsLoads ==
  ASSUME JobShape(job), Fails
  PROVE  job' = Idle \/ \A cells, fl : Loading(job', cells, fl)
<1>1. CASE job.use \in {"json", "image"} /\ ~job.named
  <2> DEFINE k == [job EXCEPT !.step = ReadStep, !.use = "bin", !.file = "boot.bin", !.at = MainRamBase, !.got = 0]
  <2>1. job' = k BY <1>1 DEF Fails
  <2>2. ReadStep \notin {"tokens", "flash"} BY DEF ReadStep
  <2>3. k.step = ReadStep /\ k.use = "bin" /\ k.file = "boot.bin" /\ k.at = MainRamBase /\ k.got = 0
    BY DEF JobShape, Fields
  <2> HIDE DEF k
  <2>4. ASSUME NEW cells PROVE Part(k, cells)
    <3>1. 1 .. 0 = {} BY SMT
    <3>2. QED BY <2>3, <3>1 DEF Part
  <2>5. ASSUME NEW cells, NEW fl PROVE Loading(k, cells, fl) BY <2>2, <2>3, <2>4 DEF Loading
  <2>6. QED BY <2>1, <2>5
<1>2. CASE ~(job.use \in {"json", "image"} /\ ~job.named) BY <1>2 DEF Fails
<1>3. QED BY <1>1, <1>2

(* What a step of a boot has to leave behind. *)
Loads == job' = Idle \/ Loading(job', mem', flash')

(* Mounting and opening, or failing to. *)
LEMMA MountLoads ==
  ASSUME JobShape(job), Loading(job, mem, flash), Mount \/ Open
  PROVE  Loads
<1>1. mem' = mem /\ flash' = flash BY DEF Mount, Open
<1>2. CASE Fails BY <1>2, FailsLoads DEF Loads
<1>3. CASE ~Fails
  <2>1. PICK s \in {"open", "read"} : job' = [job EXCEPT !.step = s] BY <1>3 DEF Mount, Open, GoOn
  <2> DEFINE k == [job EXCEPT !.step = s]
  <2>2. k.step = s /\ \A f \in Fields \ {"step"} : k[f] = job[f] BY DEF JobShape, Fields
  <2>3. job.step \in {"mount", "open"} BY DEF Mount, Open
  <2> HIDE DEF k
  <2>4. Loading(k, mem, flash) BY <2>2, <2>3, WaitLoads
  <2>5. QED BY <1>1, <2>1, <2>4 DEF Loads, k
<1>4. QED BY <1>2, <1>3

(* The place of an image, and of boot.bin. *)
LEMMA AtNat ==
  ASSUME NEW j, NEW cells, NEW fl, JobShape(j), Loading(j, cells, fl), InProgress(j) \/ j.use = "bin"
  PROVE  j.at \in Nat
<1>1. CASE j.use = "bin"
  <2>1. MainRamBase \in Nat BY PlacesAssumption, SMT
  <2>2. QED BY <1>1, <2>1 DEF Loading
<1>2. CASE InProgress(j)
  <2>1. AreTokens(j.tokens) /\ j.i \in Images(j.tokens) /\ j.at = ValueOf(j.tokens, j.i)
    BY <1>2 DEF Loading, Coming, InProgress
  <2>2. Len(j.tokens) \in Nat BY SeqLen DEF JobShape
  <2>3. QED BY <2>1, <2>2, KeysAre, ValueNat
<1>3. QED BY <1>1, <1>2

(* A part of a file. *)
LEMMA ChunkLoads ==
  ASSUME JobShape(job), Loading(job, mem, flash), DOMAIN mem = Addr, ReadChunk, job.use # "flash"
  PROVE  Loads
<1> DEFINE k == [job EXCEPT !.got = job.got + 1]
<1>1. job' = k /\ job.step = "read" /\ job.use # "json" BY DEF ReadChunk
<1>2. k.got = job.got + 1 /\ \A f \in Fields \ {"got"} : k[f] = job[f] BY DEF JobShape, Fields
<1>3. /\ k.step = job.step /\ k.use = job.use /\ k.file = job.file /\ k.files = job.files /\ k.at = job.at
      /\ k.tokens = job.tokens /\ k.i = job.i /\ k.r = job.r /\ k.addr = job.addr
      /\ k.addrFound = job.addrFound /\ k.imageFound = job.imageFound
  BY <1>2 DEF Fields
<1> HIDE DEF k
<1>4. job.got \in Nat BY DEF JobShape
<1>5. CASE job.use = "toflash" BY <1>1, <1>3, <1>5 DEF Loading, Loads
<1>6. CASE job.use \in {"image", "bin"}
  <2>1. mem' = Filled(job, mem) /\ flash' = flash BY <1>6 DEF ReadChunk, File, Filled
  <2>2. InProgress(job) \/ job.use = "bin" BY <1>1, <1>6 DEF InProgress
  <2>3. job.at \in Nat BY <2>2, AtNat
  <2>4. Part(job, mem) BY <1>1, <1>6 DEF Loading, Coming, InProgress
  <2>5. Part(k, mem') BY <1>2, <1>3, <1>4, <2>1, <2>3, <2>4, PartGrows
  <2>6. CASE job.use = "bin"
    <3>1. k.at = MainRamBase /\ k.file = "boot.bin" BY <1>3, <2>6 DEF Loading
    <3>2. QED BY <1>1, <1>3, <2>5, <2>6, <3>1 DEF Loading, Loads
  <2>7. CASE job.use = "image"
    <3>1. InProgress(job) /\ InProgress(k) BY <1>1, <1>3, <2>7 DEF InProgress
    <3>2. AreTokens(job.tokens) /\ Told(job) /\ Landed(job, mem) /\ Coming(job, mem) BY <2>7 DEF Loading
    <3>3. Told(k) BY <1>3, <3>2, ToldStays
    <3>4. Landed(k, mem') BY <1>2, <1>3, <1>4, <2>1, <2>3, <3>1, <3>2, LandedGrows
    <3>5. Coming(k, mem') BY <1>3, <2>5, <3>1, <3>2 DEF Coming
    <3>6. Loading(k, mem', flash') BY <1>1, <1>3, <2>7, <3>2, <3>3, <3>4, <3>5 DEF Loading
    <3>7. QED BY <1>1, <3>6 DEF Loads
  <2>8. QED BY <1>6, <2>6, <2>7
<1>7. QED BY <1>1, <1>5, <1>6 DEF JobShape

(* Made of a sequence of any kind. *)
LEMMA SequenceIs ==
  ASSUME NEW s
  PROVE  IsSequence(s) <=> IsSeq(s)
<1>1. ASSUME IsSequence(s) PROVE IsSeq(s)
  <2>1. DOMAIN s = 1 .. Len(s) /\ Len(s) \in Nat BY <1>1 DEF IsSequence
  <2>2. QED BY <1>1, <2>1, SeqMade DEF IsSequence
<1>2. ASSUME IsSeq(s) PROVE IsSequence(s)
  <2>1. Len(s) \in Nat /\ DOMAIN s = 1 .. Len(s) BY <1>2, SeqLen
  <2>2. s \in [1 .. Len(s) -> {s[k] : k \in DOMAIN s}] BY <1>2, LenProperties DEF IsSeq
  <2>3. QED BY <2>1, <2>2 DEF IsSequence
<1>3. QED BY <1>1, <1>2

(* The tokens of a text and of what is behind it. *)
LEMMA TokensJoin ==
  ASSUME NEW s, AreTokens(s), NEW t, AreTokens(t)
  PROVE  AreTokens(s \o t)
<1>1. IsSeq(s) /\ IsSeq(t) BY SequenceIs DEF AreTokens
<1>2. DOMAIN s = 1 .. Len(s) /\ DOMAIN t = 1 .. Len(t) BY <1>1, SeqLen
<1> DEFINE u == s \o t
<1>3. /\ IsSeq(u) /\ Len(u) = Len(s) + Len(t)
      /\ \A i \in 1 .. Len(s) : u[i] = s[i]
      /\ \A i \in 1 .. Len(t) : u[Len(s) + i] = t[i]
      /\ \A i \in 1 .. Len(u) : i \in 1 .. Len(s) \/ \E j \in 1 .. Len(t) : i = Len(s) + j
  BY <1>1, Joined
<1> HIDE DEF u
<1>4. DOMAIN u = 1 .. Len(u) BY <1>3, SeqLen
<1>5. ASSUME NEW k \in DOMAIN u, u[k].kind = "value" PROVE u[k].text \in Nat
  <2>1. CASE k \in 1 .. Len(s)
    <3>1. u[k] = s[k] /\ k \in DOMAIN s BY <1>2, <1>3, <2>1
    <3>2. QED BY <1>5, <3>1 DEF AreTokens
  <2>2. CASE \E j \in 1 .. Len(t) : k = Len(s) + j
    <3>1. PICK j \in 1 .. Len(t) : k = Len(s) + j BY <2>2
    <3>2. u[k] = t[j] /\ j \in DOMAIN t BY <1>2, <1>3, <3>1
    <3>3. QED BY <1>5, <3>2 DEF AreTokens
  <2>3. QED BY <1>3, <1>4, <2>1, <2>2
<1>6. QED BY <1>3, <1>5, SequenceIs DEF AreTokens, u

(* Nothing is noted before the first token. *)
Blank(j) ==
  /\ DOMAIN j.r = {"r1", "r2", "r3"} /\ (\A name \in {"r1", "r2", "r3"} : j.r[name] = 0)
  /\ j.addr = 0 /\ ~j.addrFound /\ ~j.imageFound

LEMMA ToldFirst ==
  ASSUME NEW j, j.i = 1, Len(j.tokens) \in Nat
  PROVE  /\ Told(j) => Blank(j)
         /\ Blank(j) => Told(j)
         /\ \A cells : Landed(j, cells)
<1> DEFINE t == j.tokens
<1>1. \A S : S \subseteq Keys(t) => Passed(S, 1) = {} BY KeysAre
<1>2. /\ \A name : Passed(Given(t, name), j.i) = {}
      /\ Passed(Images(t), j.i) = {}
  BY <1>1, KeysAre
<1>3. Entry(t, j.i) = 0 BY <1>2 DEF Entry, LastValue
<1>4. \A name : LastValue(t, Passed(Given(t, name), j.i)) = 0 BY <1>2 DEF LastValue
<1>5. Told(j) <=>
        /\ DOMAIN j.r = {"r1", "r2", "r3"} /\ \A name \in {"r1", "r2", "r3"} : j.r[name] = 0
        /\ j.imageFound <=> FALSE
        /\ j.addrFound <=> FALSE
        /\ j.addr = 0
  BY <1>2, <1>3, <1>4, Zenon DEF Told
<1>6. \A cells : Landed(j, cells) BY <1>2 DEF Landed
<1>7. QED BY <1>5, <1>6, Zenon DEF Blank

(* The tokens of the JSON file. *)
LEMMA JsonLoads ==
  ASSUME JobShape(job), Loading(job, mem, flash), ReadJson
  PROVE  Loads
<1>1. job.step = "read" /\ job.use = "json" /\ mem' = mem /\ flash' = flash BY DEF ReadJson
<1>2. CASE Fails BY <1>2, FailsLoads DEF Loads
<1>3. CASE ~Fails
  <2>1. PICK text \in {File.tokens} \cup (IF OnVolume THEN {<<>>} ELSE {}), rest \in Residues :
          Exists /\ job' = [job EXCEPT !.step = "tokens", !.tokens = text \o rest]
    BY <1>3 DEF ReadJson
  <2>2. AreTokens(rest) /\ AreTokens(File.tokens)
    BY <1>1, <2>1, InputsAssumption DEF Exists, File, JobShape
  <2>3. AreTokens(<<>>)
    <3>1. IsSeq(<<>>) BY Tuples
    <3>2. DOMAIN <<>> = {} OBVIOUS
    <3>3. QED BY <3>1, <3>2, SequenceIs DEF AreTokens
  <2>4. text = File.tokens \/ text = <<>> BY <2>1
  <2> DEFINE tokens == text \o rest
             k == [job EXCEPT !.step = "tokens", !.tokens = tokens]
  <2>5. AreTokens(tokens) BY <2>2, <2>3, <2>4, TokensJoin
  <2> HIDE DEF tokens
  <2>6. /\ k.step = "tokens" /\ k.tokens = tokens
        /\ \A f \in Fields \ {"step", "tokens"} : k[f] = job[f]
    BY DEF JobShape, Fields
  <2>7. /\ k.use = job.use /\ k.i = job.i /\ k.r = job.r /\ k.addr = job.addr
        /\ k.addrFound = job.addrFound /\ k.imageFound = job.imageFound
    BY <2>6 DEF Fields
  <2>8. job' = k BY <2>1 DEF tokens
  <2> HIDE DEF k
  <2>9. job.i = 1 /\ Len(job.tokens) \in Nat BY <1>1, SeqLen DEF JobShape
  <2>10. Blank(job)
    <3>1. Told(job) BY <1>1 DEF Loading
    <3>2. QED BY <2>9, <3>1, ToldFirst
  <2>11. Blank(k) BY <2>7, <2>10 DEF Blank
  <2>12. Len(k.tokens) \in Nat BY <2>5, <2>6 DEF AreTokens, IsSequence
  <2>13. Told(k) /\ Landed(k, mem) BY <2>7, <2>9, <2>11, <2>12, ToldFirst
  <2>14. Coming(k, mem) BY <2>6 DEF Coming, InProgress
  <2>15. Loading(k, mem, flash) BY <1>1, <2>5, <2>6, <2>7, <2>13, <2>14 DEF Loading
  <2>16. QED BY <1>1, <2>8, <2>15 DEF Loads
<1>4. QED BY <1>2, <1>3

(* A key that is no image is noted. *)
LEMMA NotedLoads ==
  ASSUME JobShape(job), Loading(job, mem, flash), InTokens, NEW told, NextToken(told),
         DOMAIN told = Fields, \A f \in Fields \ {"addr", "addrFound", "r"} : told[f] = job[f],
         job.i \notin Images(job.tokens), DOMAIN told.r = DOMAIN job.r,
         \A name \in {"r1", "r2", "r3"} :
           told.r[name] = IF job.i \in Given(job.tokens, name) THEN ValueOf(job.tokens, job.i)
                                                               ELSE job.r[name],
         told.addrFound <=> job.addrFound \/ job.i \in Given(job.tokens, "addr"),
         told.addr = IF job.i \in Given(job.tokens, "addr") THEN ValueOf(job.tokens, job.i) ELSE job.addr
  PROVE  Loading(job', mem, flash)
<1> DEFINE k == [told EXCEPT !.i = job.i + 1]
           t == job.tokens
<1>1. job' = k BY DEF NextToken
<1>2. job.step = "tokens" /\ job.i < Len(t) BY DEF InTokens
<1>3. k.i = job.i + 1 /\ \A f \in Fields \ {"i"} : k[f] = told[f] BY DEF Fields
<1>4. /\ told.step = job.step /\ told.use = job.use /\ told.tokens = t /\ told.files = job.files
      /\ told.imageFound = job.imageFound
  BY DEF Fields
<1>5. /\ k.step = job.step /\ k.use = job.use /\ k.tokens = t /\ k.files = job.files
      /\ k.imageFound = job.imageFound /\ k.r = told.r /\ k.addr = told.addr /\ k.addrFound = told.addrFound
  BY <1>3, <1>4 DEF Fields
<1> HIDE DEF k
<1>6. job.use \in {"json", "image"} BY <1>2 DEF Loading
<1>7. AreTokens(t) /\ Told(job) /\ Landed(job, mem) BY <1>6 DEF Loading
<1>8. Len(t) \in Nat /\ job.i \in Nat \ {0}
  <2>1. Len(t) \in Nat /\ job.i \in 1 .. (Len(t) + 1) BY SeqLen DEF JobShape
  <2>2. QED BY <2>1, SMT
<1>9. Told(k)
  <2>1. DOMAIN k.r = {"r1", "r2", "r3"} BY <1>5, <1>7 DEF Told
  <2>2. k.imageFound <=> job.imageFound \/ job.i \in Images(t) BY <1>5, Zenon
  <2>3. k.addrFound <=> job.addrFound \/ job.i \in Given(t, "addr") BY <1>5, Zenon
  <2>4. \A name \in {"r1", "r2", "r3"} :
          k.r[name] = IF job.i \in Given(t, name) THEN ValueOf(t, job.i) ELSE job.r[name]
    BY <1>5, Zenon
  <2>5. k.addr = IF job.i \in Given(t, "addr") \/ (job.i \in Images(t) /\ ~job.addrFound)
                 THEN ValueOf(t, job.i) ELSE job.addr
    BY <1>5, Zenon
  <2>6. QED BY <1>2, <1>3, <1>5, <1>7, <1>8, <2>1, <2>2, <2>3, <2>4, <2>5, ToldNext
<1>10. Landed(k, mem)
  <2>1. Images(t) \subseteq Nat BY <1>8, KeysAre
  <2>2. Passed(Images(t), k.i) = Passed(Images(t), job.i)
    <3> DEFINE i == job.i
    <3>1. i \in Nat /\ i \notin Images(t) /\ k.i = i + 1 BY <1>3, <1>8
    <3> HIDE DEF i, t
    <3>2. Passed(Images(t), i + 1) = Passed(Images(t), i) BY <2>1, <3>1, PassedNext
    <3>3. QED BY <3>1, <3>2 DEF i
  <2>3. Fresh(job) = {} BY <1>2 DEF Fresh, InProgress
  <2>4. QED BY <1>5, <1>7, <2>2, <2>3, LandedStays
<1>11. Coming(k, mem) BY <1>2, <1>5 DEF Coming, InProgress
<1>12. Loading(k, mem, flash) BY <1>2, <1>5, <1>6, <1>7, <1>9, <1>10, <1>11 DEF Loading
<1>13. QED BY <1>1, <1>12

(* A key that is an image: its file is next. *)
LEMMA ImageLoads ==
  ASSUME JobShape(job), Loading(job, mem, flash), InTokens, BootImage
  PROVE  Loading(job', mem, flash)
<1> DEFINE k == [job EXCEPT !.step = ReadStep, !.use = "image", !.file = Key, !.at = Value, !.got = 0]
           t == job.tokens
<1>1. job' = k BY DEF BootImage
<1>2. job.step = "tokens" /\ job.i < Len(t) BY DEF InTokens
<1>3. /\ k.step = ReadStep /\ k.use = "image" /\ k.file = Key /\ k.at = Value /\ k.got = 0
      /\ \A f \in Fields \ {"step", "use", "file", "at", "got"} : k[f] = job[f]
  BY DEF JobShape, Fields
<1>4. /\ k.tokens = t /\ k.i = job.i /\ k.files = job.files /\ k.r = job.r /\ k.addr = job.addr
      /\ k.addrFound = job.addrFound /\ k.imageFound = job.imageFound
  BY <1>3 DEF Fields
<1> HIDE DEF k
<1>5. job.use \in {"json", "image"} BY <1>2 DEF Loading
<1>6. AreTokens(t) /\ Told(job) /\ Landed(job, mem) BY <1>5 DEF Loading
<1>7. Len(t) \in Nat /\ job.i \in Nat \ {0}
  <2>1. Len(t) \in Nat /\ job.i \in 1 .. (Len(t) + 1) BY SeqLen DEF JobShape
  <2>2. QED BY <2>1, SMT
<1>8. job.i \in Images(t)
  <2>1. t[job.i].kind = "key" /\ t[job.i].text \notin Parameters BY DEF BootImage, IsKey, Key, Parameters
  <2>2. QED BY <1>2, <1>7, <2>1, TokenIs
<1>9. Told(k) BY <1>4, <1>6, ToldStays
<1>10. Landed(k, mem)
  <2>1. Fresh(job) = {} BY <1>2 DEF Fresh, InProgress
  <2>2. QED BY <1>4, <1>6, <2>1, LandedStays
<1>11. Coming(k, mem)
  <2>1. 1 .. 0 = {} BY SMT
  <2>2. Part(k, mem) BY <1>3, <2>1 DEF Part
  <2>3. QED BY <1>3, <1>4, <1>8, <2>2 DEF Coming, Key, Value
<1>12. ReadStep \notin {"tokens", "flash"} BY DEF ReadStep
<1>13. Loading(k, mem, flash) BY <1>3, <1>4, <1>6, <1>9, <1>10, <1>11, <1>12 DEF Loading
<1>14. QED BY <1>1, <1>13

(* A token. *)
LEMMA TokenLoads ==
  ASSUME JobShape(job), Loading(job, mem, flash), Token
  PROVE  Loads
<1> DEFINE t == job.tokens
           i == job.i
<1>1. InTokens /\ mem' = mem /\ flash' = flash BY DEF Token
<1>2. job.step = "tokens" /\ i < Len(t) BY <1>1 DEF InTokens
<1>3. Len(t) \in Nat /\ i \in Nat \ {0}
  <2>1. Len(t) \in Nat /\ i \in 1 .. (Len(t) + 1) BY SeqLen DEF JobShape
  <2>2. QED BY <2>1, SMT
<1>4. /\ \A name : i \in Given(t, name) <=> IsKey /\ Key = name
      /\ i \in Images(t) <=> IsKey /\ Key \notin Parameters
  <2> HIDE DEF t, i
  <2>1. /\ \A name : i \in Given(t, name) <=> t[i].kind = "key" /\ t[i].text = name
        /\ i \in Images(t) <=> t[i].kind = "key" /\ t[i].text \notin Parameters
    BY <1>2, <1>3, TokenIs
  <2>2. QED BY <2>1 DEF IsKey, Key, t, i
<1>5. DOMAIN job = Fields /\ DOMAIN job.r = {"r1", "r2", "r3"}
  <2>1. Told(job) BY <1>2 DEF Loading
  <2>2. QED BY <2>1 DEF JobShape, Told
<1>6. CASE SkipToken
  <2>1. IsKey => Key = "bootargs" BY <1>6 DEF SkipToken
  <2>2. NextToken(job) BY <1>6 DEF SkipToken
  <2>3. i \notin Images(t) BY <1>4, <2>1 DEF Parameters
  <2>4. \A name \in {"r1", "r2", "r3", "addr"} : i \notin Given(t, name) BY <1>4, <2>1
  <2>5. Loading(job', mem, flash) BY <1>1, <1>5, <2>2, <2>3, <2>4, Zenon, NotedLoads
  <2>6. QED BY <1>1, <2>5 DEF Loads
<1>7. CASE BootAddr
  <2> DEFINE told == [job EXCEPT !.addr = Value, !.addrFound = TRUE]
  <2>1. NextToken(told) /\ IsKey /\ Key = "addr" BY <1>7 DEF BootAddr
  <2>2. /\ DOMAIN told = Fields /\ told.addr = Value /\ told.addrFound = TRUE
        /\ \A f \in Fields \ {"addr", "addrFound"} : told[f] = job[f]
    BY <1>5 DEF Fields
  <2>3. told.r = job.r BY <2>2 DEF Fields
  <2> HIDE DEF told
  <2>4. i \notin Images(t) BY <1>4, <2>1 DEF Parameters
  <2>5. i \in Given(t, "addr") /\ \A name \in {"r1", "r2", "r3"} : i \notin Given(t, name) BY <1>4, <2>1
  <2>6. \A f \in Fields \ {"addr", "addrFound", "r"} : told[f] = job[f] BY <2>2
  <2>7. Value = ValueOf(t, i) BY DEF Value
  <2>8. Loading(job', mem, flash)
    BY <1>1, <1>5, <2>1, <2>2, <2>3, <2>4, <2>5, <2>6, <2>7, Zenon, NotedLoads
  <2>9. QED BY <1>1, <2>8 DEF Loads
<1>8. CASE BootRegister
  <2> DEFINE told == [job EXCEPT !.r[Key] = Value]
  <2>1. NextToken(told) /\ IsKey /\ Key \in {"r1", "r2", "r3"} BY <1>8 DEF BootRegister
  <2>2. /\ DOMAIN told = Fields /\ told.r = [job.r EXCEPT ![Key] = Value]
        /\ \A f \in Fields \ {"r"} : told[f] = job[f]
    BY <1>5 DEF Fields
  <2>3. told.addr = job.addr /\ told.addrFound = job.addrFound BY <2>2 DEF Fields
  <2> HIDE DEF told
  <2>4. i \notin Images(t) BY <1>4, <2>1 DEF Parameters
  <2>5. i \notin Given(t, "addr") BY <1>4, <2>1
  <2>6. \A f \in Fields \ {"addr", "addrFound", "r"} : told[f] = job[f] BY <2>2
  <2>7. Value = ValueOf(t, i) BY DEF Value
  <2>8. DOMAIN told.r = DOMAIN job.r BY <2>2
  <2>9. \A name \in {"r1", "r2", "r3"} :
          told.r[name] = IF i \in Given(t, name) THEN ValueOf(t, i) ELSE job.r[name]
    <3>1. SUFFICES ASSUME NEW name \in {"r1", "r2", "r3"}
                   PROVE  told.r[name] = IF i \in Given(t, name) THEN ValueOf(t, i) ELSE job.r[name]
      OBVIOUS
    <3>2. i \in Given(t, name) <=> Key = name BY <1>4, <2>1
    <3>3. told.r[name] = IF Key = name THEN Value ELSE job.r[name] BY <1>5, <2>2
    <3>4. QED BY <2>7, <3>2, <3>3, Zenon
  <2>10. Loading(job', mem, flash)
    BY <1>1, <2>1, <2>2, <2>3, <2>4, <2>5, <2>6, <2>8, <2>9, Zenon, NotedLoads
  <2>11. QED BY <1>1, <2>10 DEF Loads
<1>9. CASE BootImage
  <2>1. Loading(job', mem, flash) BY <1>1, <1>9, ImageLoads
  <2>2. QED BY <1>1, <2>1 DEF Loads
<1>10. QED BY <1>6, <1>7, <1>8, <1>9 DEF Token

(* The whole of an image has been read. *)
LEMMA ImageEnds ==
  ASSUME JobShape(job), Loading(job, mem, flash), ReadEnds, job.use = "image"
  PROVE  Loads
<1> DEFINE k == [job EXCEPT !.step = "tokens", !.i = job.i + 1, !.imageFound = TRUE,
                            !.addr = IF job.addrFound THEN @ ELSE job.at]
           t == job.tokens
<1>1. /\ job.step = "read" /\ job' = k /\ mem' = mem /\ flash' = flash
      /\ job.file \in DOMAIN job.files /\ job.got = Len(job.files[job.file].bytes)
  BY DEF ReadEnds, Exists, File
<1>2. /\ k.step = "tokens" /\ k.i = job.i + 1 /\ k.imageFound = TRUE
      /\ k.addr = IF job.addrFound THEN job.addr ELSE job.at
      /\ \A f \in Fields \ {"step", "i", "imageFound", "addr"} : k[f] = job[f]
  BY DEF JobShape, Fields
<1>3. k.use = job.use /\ k.tokens = t /\ k.files = job.files /\ k.r = job.r /\ k.addrFound = job.addrFound
  BY <1>2 DEF Fields
<1> HIDE DEF k
<1>4. InProgress(job) BY <1>1 DEF InProgress
<1>5. AreTokens(t) /\ Told(job) /\ Landed(job, mem) /\ Coming(job, mem) BY DEF Loading
<1>6. job.i \in Images(t) /\ job.at = ValueOf(t, job.i) BY <1>4, <1>5 DEF Coming
<1>7. Len(t) \in Nat BY SeqLen DEF JobShape
<1>8. Images(t) \subseteq Nat BY <1>7, KeysAre
<1>9. job.i \in Nat \ {0} /\ job.i < Len(t)
  <2>1. job.i \in 1 .. (Len(t) - 1) BY <1>6, <1>7, KeysAre
  <2>2. QED BY <1>7, <2>1, SMT
<1>10. job.at \in Nat BY <1>4, AtNat
<1>11. job.got \in Nat BY DEF JobShape
<1>12. Landed(k, mem)
  BY <1>1, <1>2, <1>3, <1>4, <1>5, <1>8, <1>9, <1>10, <1>11, LandedWhole
<1>13. Told(k)
  <2>1. t[job.i].text \notin Parameters BY <1>6 DEF Images
  <2>2. \A name \in {"r1", "r2", "r3", "addr"} : job.i \notin Given(t, name) BY <2>1 DEF Given, Parameters
  <2>3. DOMAIN k.r = {"r1", "r2", "r3"} BY <1>3, <1>5 DEF Told
  <2>4. k.imageFound <=> job.imageFound \/ job.i \in Images(t) BY <1>2, <1>6, Zenon
  <2>5. k.addrFound <=> job.addrFound \/ job.i \in Given(t, "addr") BY <1>3, <2>2, Zenon
  <2>6. \A name \in {"r1", "r2", "r3"} :
          k.r[name] = IF job.i \in Given(t, name) THEN ValueOf(t, job.i) ELSE job.r[name]
    BY <1>3, <2>2, Zenon
  <2>7. k.addr = IF job.i \in Given(t, "addr") \/ (job.i \in Images(t) /\ ~job.addrFound)
                 THEN ValueOf(t, job.i) ELSE job.addr
    BY <1>2, <1>6, <2>2, Zenon
  <2>8. QED BY <1>2, <1>3, <1>5, <1>7, <1>9, <2>3, <2>4, <2>5, <2>6, <2>7, ToldNext
<1>14. Coming(k, mem) BY <1>2 DEF Coming, InProgress
<1>15. Loading(k, mem, flash) BY <1>2, <1>3, <1>5, <1>12, <1>13, <1>14 DEF Loading
<1>16. QED BY <1>1, <1>15 DEF Loads

(* A part of the image in the flash. *)
LEMMA FlashLoads ==
  ASSUME JobShape(job), Loading(job, mem, flash), DOMAIN mem = Addr, FlashChunk
  PROVE  Loads
<1> DEFINE k == [job EXCEPT !.got = job.got + 1]
<1>1. /\ job.step = "flash" /\ job' = k /\ flash' = flash
      /\ mem' = [mem EXCEPT ![MainRamBase + job.got] = flash[job.got + 2]]
  BY DEF FlashChunk
<1>2. k.got = job.got + 1 /\ \A f \in Fields \ {"got"} : k[f] = job[f] BY DEF JobShape, Fields
<1>3. k.step = job.step /\ k.use = job.use /\ k.from = job.from BY <1>2 DEF Fields
<1> HIDE DEF k
<1>4. job.got \in Nat BY DEF JobShape
<1>5. MainRamBase \in Nat BY PlacesAssumption, SMT
<1>6. job.use = "flash" /\ job.from = "flash" BY <1>1 DEF Loading
<1>7. /\ flash[0] \in MinImage .. MaxImage /\ flash[1] = Crc([n \in 1 .. flash[0] |-> flash[n + 1]])
      /\ \A n \in 1 .. job.got :
           MainRamBase + n - 1 \in Addr => mem[MainRamBase + n - 1] = flash[n + 1]
  BY <1>6 DEF Loading
<1>8. ASSUME NEW n \in 1 .. k.got, MainRamBase + n - 1 \in Addr
      PROVE  mem'[MainRamBase + n - 1] = flash[n + 1]
  <2>1. n \in 1 .. (job.got + 1) BY <1>2
  <2>2. CASE n = job.got + 1
    <3>1. MainRamBase + n - 1 = MainRamBase + job.got /\ n + 1 = job.got + 2 BY <1>4, <1>5, <2>2, SMT
    <3>2. MainRamBase + job.got \in DOMAIN mem BY <1>8, <3>1
    <3>3. mem'[MainRamBase + job.got] = flash[job.got + 2] BY <1>1, <3>2
    <3>4. QED BY <3>1, <3>3
  <2>3. CASE n # job.got + 1
    <3>1. n \in 1 .. job.got /\ MainRamBase + n - 1 # MainRamBase + job.got BY <1>4, <1>5, <2>1, <2>3, SMT
    <3>2. mem'[MainRamBase + n - 1] = mem[MainRamBase + n - 1] BY <1>1, <1>8, <3>1
    <3>3. QED BY <1>7, <1>8, <3>1, <3>2
  <2>4. QED BY <2>2, <2>3
<1>9. Loading(k, mem', flash) BY <1>1, <1>3, <1>6, <1>7, <1>8 DEF Loading
<1>10. QED BY <1>1, <1>9 DEF Loads

-----------------------------------------------------------------------------
(* What a jump runs, of the memory and the flash at that moment: here the   *)
(* images of a JSON file.                                                  *)
LEMMA RunsJson ==
  ASSUME JobShape(job), Loading(job, mem, flash), TokensEnd, job.imageFound, job.from # "flash"
  PROVE  RunsWhatWasLoaded'
<1> DEFINE t == job.tokens
<1>1. job.step = "tokens" /\ job.i >= Len(t) /\ mem' = mem BY DEF TokensEnd
<1>2. job.use \in {"json", "image"} BY <1>1 DEF Loading
<1>3. Told(job) /\ Landed(job, mem) BY <1>2 DEF Loading
<1>4. Len(t) \in Nat /\ job.i \in Nat
  <2>1. Len(t) \in Nat /\ job.i \in 1 .. (Len(t) + 1) BY SeqLen DEF JobShape
  <2>2. QED BY <2>1, SMT
<1>5. /\ \A name : Passed(Given(t, name), job.i) = Given(t, name)
      /\ Passed(Images(t), job.i) = Images(t)
  <2>1. \A S : S \subseteq Keys(t) => Passed(S, job.i) = S BY <1>1, <1>4, KeysAre
  <2>2. QED BY <1>4, <2>1, KeysAre
<1>6. /\ Images(t) # {}
      /\ \A name \in {"r1", "r2", "r3"} : job.r[name] = LastValue(t, Given(t, name))
      /\ job.addr = LastValue(t, IF Given(t, "addr") = {} THEN Images(t) ELSE Given(t, "addr"))
  <2>1. Images(t) # {} BY <1>3, <1>5, Zenon DEF Told
  <2>2. \A name \in {"r1", "r2", "r3"} : job.r[name] = LastValue(t, Given(t, name)) BY <1>3, <1>5 DEF Told
  <2>3. job.addr = Entry(t, job.i) BY <1>3 DEF Told
  <2>4. QED BY <1>5, <2>1, <2>2, <2>3 DEF Entry
<1>7. ASSUME NEW n \in Images(t)
      PROVE  /\ t[n].text \in DOMAIN job.files
             /\ \A x \in Place(job, n) \cap Addr :
                  \/ \E later \in Images(t) : later > n /\ x \in Place(job, later)
                  \/ mem[x] = job.files[t[n].text].bytes[x - ValueOf(t, n) + 1]
  <2>1. n \in Passed(Images(t), job.i) BY <1>5
  <2>2. Fresh(job) = {} BY <1>1 DEF Fresh, InProgress
  <2>3. QED BY <1>3, <1>5, <2>1, <2>2 DEF Landed, LaterImage, Lies
<1> DEFINE call == [kind |-> "boot", r1 |-> job.r["r1"], r2 |-> job.r["r2"], r3 |-> job.r["r3"],
                    a |-> job.addr, job |-> job]
<1>8. jump' = call BY DEF TokensEnd, boot_helper
<1>9. /\ call.job = job /\ call.r1 = job.r["r1"] /\ call.r2 = job.r["r2"] /\ call.r3 = job.r["r3"]
      /\ call.a = job.addr
  OBVIOUS
<1> HIDE DEF call
<1>10. FollowsJson(jump)' BY <1>1, <1>6, <1>7, <1>8, <1>9 DEF FollowsJson
<1>11. QED BY <1>2, <1>8, <1>9, <1>10 DEF RunsWhatWasLoaded

(* All of boot.bin has been read. *)
LEMMA RunsBin ==
  ASSUME Loading(job, mem, flash), ReadEnds, job.use = "bin", job.from # "flash"
  PROVE  RunsWhatWasLoaded'
<1> DEFINE call == [kind |-> "boot", r1 |-> 0, r2 |-> 0, r3 |-> 0, a |-> MainRamBase, job |-> job]
<1>1. jump' = call /\ mem' = mem /\ job.got = Len(job.files[job.file].bytes)
  BY DEF ReadEnds, boot_helper, File
<1>2. job.at = MainRamBase /\ job.file = "boot.bin" /\ Part(job, mem) BY DEF Loading
<1>3. call.job = job /\ <<call.r1, call.r2, call.r3, call.a>> = <<0, 0, 0, MainRamBase>> OBVIOUS
<1> HIDE DEF call
<1>4. \A n \in 1 .. Len(job.files["boot.bin"].bytes) :
        MainRamBase + n - 1 \in Addr => mem'[MainRamBase + n - 1] = job.files["boot.bin"].bytes[n]
  BY <1>1, <1>2 DEF Part
<1>5. QED BY <1>1, <1>3, <1>4 DEF RunsWhatWasLoaded, Holds

(* All of the image in the flash has been copied. *)
LEMMA RunsFlash ==
  ASSUME Loading(job, mem, flash), FlashEnds
  PROVE  RunsWhatWasLoaded'
<1> DEFINE call == [kind |-> "boot", r1 |-> 0, r2 |-> 0, r3 |-> 0, a |-> MainRamBase, job |-> job]
<1>1. jump' = call /\ mem' = mem /\ flash' = flash /\ job.step = "flash" /\ job.got = flash[0]
  BY DEF FlashEnds, boot_helper
<1>2. job.use = "flash" /\ job.from = "flash" BY <1>1 DEF Loading
<1>3. call.job = job OBVIOUS
<1> HIDE DEF call
<1>4. flash[0] \in MinImage .. MaxImage /\ flash[1] = Crc(FlashImage) BY <1>2 DEF Loading, FlashImage
<1>5. check_image_in_flash' BY <1>1, <1>4 DEF check_image_in_flash, FlashImage
<1>6. flash[0] \in Nat BY <1>4, PlacesAssumption, SMT
<1>7. DOMAIN FlashImage = 1 .. flash[0] /\ FlashImage = [n \in 1 .. flash[0] |-> FlashImage[n]]
      /\ \A n \in 1 .. flash[0] : FlashImage[n] = flash[n + 1]
  BY DEF FlashImage
<1>8. Len(FlashImage) = flash[0] BY <1>6, <1>7, SeqMade
<1>9. \A n \in 1 .. flash[0] : MainRamBase + n - 1 \in Addr => mem[MainRamBase + n - 1] = flash[n + 1]
  BY <1>1, <1>2 DEF Loading
<1>10. \A n \in 1 .. Len(FlashImage) : MainRamBase + n - 1 \in Addr => mem[MainRamBase + n - 1] = FlashImage[n]
  BY <1>7, <1>8, <1>9
<1>11. FlashImage' = FlashImage BY <1>1 DEF FlashImage
<1>12. Holds(FlashImage)' BY <1>1, <1>10, <1>11 DEF Holds
<1>13. QED BY <1>1, <1>2, <1>3, <1>5, <1>12 DEF RunsWhatWasLoaded

-----------------------------------------------------------------------------
(* The invariant of the boots. *)
LoadInv == (job # Idle => Loading(job, mem, flash)) /\ RunsWhatWasLoaded

(* A step of a boot. *)
LEMMA RunsLoads ==
  ASSUME BiosInv, LoadInv, MediaRuns
  PROVE  LoadInv'
<1>1. phase = "command" /\ MediaStep BY DEF MediaRuns
<1>2. jump = None /\ DOMAIN mem = Addr BY <1>1 DEF BiosInv, ShapeInv
<1>3. job # Idle /\ JobShape(job) BY <1>1, MediaJob DEF BiosInv
<1>4. Loading(job, mem, flash) BY <1>3 DEF LoadInv
<1>5. \/ /\ job.from \in {"sdcard", "sata", "net", "toflash"} /\ job.use \in {"image", "bin", "toflash"}
         /\ Mount \/ Open \/ ReadChunk \/ ReadFails \/ ReadEnds
      \/ /\ job.from \in {"sdcard", "sata", "net"}
         /\ (job.use = "json" /\ (Mount \/ Open \/ ReadJson)) \/ Token \/ TokensEnd
      \/ FlashChunk \/ FlashEnds
  BY <1>1 DEF MediaStep, copy_file_from_sdcard_to_ram, sdcardboot_from_json, sdcardboot_from_bin,
         copy_file_from_sata_to_ram, sataboot_from_json, sataboot_from_bin,
         copy_file_from_tftp_to_ram, netboot_from_json, netboot_from_bin,
         copy_file_to_flash, copy_image_from_flash_to_ram, Copying, FromJson
<1>6. ASSUME Loads, UNCHANGED jump PROVE LoadInv'
  <2>1. RunsWhatWasLoaded' BY <1>2, <1>6 DEF RunsWhatWasLoaded
  <2>2. QED BY <1>6, <2>1 DEF LoadInv, Loads
<1>7. CASE Mount \/ Open
  <2>1. UNCHANGED jump BY <1>7 DEF Mount, Open
  <2>2. QED BY <1>3, <1>4, <1>6, <1>7, <2>1, MountLoads
<1>8. CASE ReadChunk /\ job.use # "flash"
  <2>1. UNCHANGED jump BY <1>8 DEF ReadChunk
  <2>2. QED BY <1>2, <1>3, <1>4, <1>6, <1>8, <2>1, ChunkLoads
<1>9. CASE ReadFails
  <2>1. UNCHANGED jump /\ Fails BY <1>9 DEF ReadFails
  <2>2. Loads BY <1>3, <2>1, FailsLoads DEF Loads
  <2>3. QED BY <1>6, <2>1, <2>2
<1>10. CASE ReadEnds /\ job.from # "flash"
  <2>1. CASE job.use = "image"
    <3>1. UNCHANGED jump BY <1>10, <2>1 DEF ReadEnds
    <3>2. QED BY <1>3, <1>4, <1>6, <1>10, <2>1, <3>1, ImageEnds
  <2>2. CASE job.use = "bin"
    <3>1. job' = Idle BY <1>10, <2>2 DEF ReadEnds, boot_helper
    <3>2. QED BY <1>4, <1>10, <2>2, <3>1, RunsBin DEF LoadInv
  <2>3. CASE job.use \notin {"image", "bin"}
    <3>1. UNCHANGED jump /\ job' = Idle BY <1>10, <2>3 DEF ReadEnds
    <3>2. QED BY <1>6, <3>1 DEF Loads
  <2>4. QED BY <2>1, <2>2, <2>3
<1>11. CASE ReadJson
  <2>1. UNCHANGED jump BY <1>11 DEF ReadJson
  <2>2. QED BY <1>3, <1>4, <1>6, <1>11, <2>1, JsonLoads
<1>12. CASE Token
  <2>1. UNCHANGED jump BY <1>12 DEF Token
  <2>2. QED BY <1>3, <1>4, <1>6, <1>12, <2>1, TokenLoads
<1>13. CASE TokensEnd /\ job.from # "flash"
  <2>1. CASE job.imageFound
    <3>1. job' = Idle BY <1>13, <2>1 DEF TokensEnd, boot_helper
    <3>2. QED BY <1>3, <1>4, <1>13, <2>1, <3>1, RunsJson DEF LoadInv
  <2>2. CASE ~job.imageFound
    <3>1. Fails /\ UNCHANGED jump BY <1>13, <2>2, Zenon DEF TokensEnd
    <3>2. Loads BY <1>3, <3>1, FailsLoads DEF Loads
    <3>3. QED BY <1>6, <3>1, <3>2
  <2>3. QED BY <2>1, <2>2
<1>14. CASE FlashChunk
  <2>1. UNCHANGED jump BY <1>14 DEF FlashChunk
  <2>2. QED BY <1>2, <1>3, <1>4, <1>6, <1>14, <2>1, FlashLoads
<1>15. CASE FlashEnds
  <2>1. job' = Idle BY <1>15 DEF FlashEnds, boot_helper
  <2>2. QED BY <1>4, <1>15, <2>1, RunsFlash DEF LoadInv
<1>16. QED BY <1>5, <1>7, <1>8, <1>9, <1>10, <1>11, <1>12, <1>13, <1>14, <1>15

(* A boot begins with nothing noted and nothing read. *)
LEMMA FirstLoads ==
  ASSUME NEW j, NEW from, NEW step, NEW use, NEW file, NEW files, NEW named,
         j = Start(from, step, use, file, files) \/ j = [Start(from, step, use, file, files) EXCEPT !.named = named],
         step \in {"read", "mount"}, use \in {"json", "toflash"}
  PROVE  \A cells, fl : Loading(j, cells, fl)
<1>1. /\ j.step = step /\ j.from = from /\ j.use = use /\ j.i = 1 /\ j.tokens = <<>>
      /\ j.r = [k \in {"r1", "r2", "r3"} |-> 0] /\ j.addr = 0 /\ j.addrFound = FALSE /\ j.imageFound = FALSE
  BY DEF Start
<1>2. IsSeq(<<>>) /\ Len(<<>>) = 0 BY Tuples
<1>3. AreTokens(<<>>)
  <2>1. DOMAIN <<>> = {} OBVIOUS
  <2>2. QED BY <1>2, <2>1, SequenceIs DEF AreTokens
<1>4. Blank(j) BY <1>1 DEF Blank
<1>5. Len(j.tokens) \in Nat BY <1>1, <1>2
<1>6. Told(j) /\ \A cells : Landed(j, cells) BY <1>1, <1>4, <1>5, ToldFirst
<1>7. ASSUME use = "json", NEW cells PROVE Coming(j, cells) BY <1>1, <1>7 DEF Coming, InProgress
<1>8. QED BY <1>1, <1>3, <1>6, <1>7 DEF Loading

(* A boot command. *)
LEMMA StartLoads ==
  ASSUME BiosInv, LoadInv, MediaStart
  PROVE  LoadInv'
<1>1. phase = "command" /\ job = Idle /\ mem' = mem /\ flash' = flash BY DEF MediaStart, At
<1>2. jump = None BY <1>1 DEF BiosInv, ShapeInv
<1>3. ASSUME Loads, UNCHANGED jump PROVE LoadInv'
  <2>1. RunsWhatWasLoaded' BY <1>2, <1>3 DEF RunsWhatWasLoaded
  <2>2. QED BY <1>3, <2>1 DEF LoadInv, Loads
<1>4. CASE flashboot /\ UNCHANGED jump
  <2>1. CASE ~check_image_in_flash BY <1>3, <1>4, <2>1, Zenon DEF flashboot, Loads
  <2>2. CASE check_image_in_flash
    <3> DEFINE k == Start("flash", "flash", "flash", "flash", <<>>)
    <3>1. job' = k BY <1>4, <2>2 DEF flashboot
    <3>2. k.step = "flash" /\ k.use = "flash" /\ k.from = "flash" /\ k.got = 0 BY DEF Start
    <3> HIDE DEF k
    <3>3. 1 .. 0 = {} BY SMT
    <3>4. flash[0] \in MinImage .. MaxImage /\ flash[1] = Crc([n \in 1 .. flash[0] |-> flash[n + 1]])
      BY <2>2 DEF check_image_in_flash, FlashImage
    <3>5. Loading(k, mem, flash) BY <3>2, <3>3, <3>4 DEF Loading
    <3>6. QED BY <1>1, <1>3, <1>4, <3>1, <3>5 DEF Loads
  <2>3. QED BY <2>1, <2>2
<1>5. CASE boot_helper(0, 0, 0, RomBoot)
  <2> DEFINE call == [kind |-> "boot", r1 |-> 0, r2 |-> 0, r3 |-> 0, a |-> RomBoot, job |-> job]
  <2>1. jump' = call /\ job' = Idle BY <1>5 DEF boot_helper
  <2>2. call.job = Idle BY <1>1
  <2>3. Idle.from = "none" BY DEF Idle
  <2> HIDE DEF call
  <2>4. RunsWhatWasLoaded' BY <2>1, <2>2, <2>3 DEF RunsWhatWasLoaded
  <2>5. QED BY <2>1, <2>4 DEF LoadInv
<1>6. ASSUME NEW files \in Contents, UNCHANGED jump,
             \/ netboot(Now.file, files) \/ sdcardboot(files) \/ sataboot(files)
             \/ flash_from_card(Now.file, files)
      PROVE  LoadInv'
  <2>1. CASE netboot(Now.file, files)
    <3>1. Loading(job', mem, flash) BY <2>1, FirstLoads DEF netboot
    <3>2. QED BY <1>1, <1>3, <1>6, <3>1 DEF Loads
  <2>2. CASE sdcardboot(files)
    <3>1. Loading(job', mem, flash) BY <2>2, FirstLoads DEF sdcardboot
    <3>2. QED BY <1>1, <1>3, <1>6, <3>1 DEF Loads
  <2>3. CASE sataboot(files)
    <3>1. Loading(job', mem, flash) BY <2>3, FirstLoads DEF sataboot
    <3>2. QED BY <1>1, <1>3, <1>6, <3>1 DEF Loads
  <2>4. CASE flash_from_card(Now.file, files)
    <3>1. Loading(job', mem, flash) BY <2>4, FirstLoads DEF flash_from_card
    <3>2. QED BY <1>1, <1>3, <1>6, <3>1 DEF Loads
  <2>5. QED BY <1>6, <2>1, <2>2, <2>3, <2>4
<1>7. QED BY <1>4, <1>5, <1>6 DEF MediaStart

(* boot jumps from no medium. *)
LEMMA LeaveLoads ==
  ASSUME BiosInv, LoadInv, Leave
  PROVE  LoadInv'
<1>1. phase = "command" /\ job = Idle BY DEF Leave, At
<1>2. jump = None BY <1>1 DEF BiosInv, ShapeInv
<1>3. CASE UNCHANGED <<job, jump>> BY <1>1, <1>2, <1>3 DEF LoadInv, RunsWhatWasLoaded
<1>4. CASE boot_helper(Now.r1, Now.r2, Now.r3, Now.a)
  <2> DEFINE call == [kind |-> "boot", r1 |-> Now.r1, r2 |-> Now.r2, r3 |-> Now.r3, a |-> Now.a, job |-> job]
  <2>1. jump' = call /\ job' = Idle BY <1>4 DEF boot_helper
  <2>2. call.job = Idle BY <1>1
  <2>3. Idle.from = "none" BY DEF Idle
  <2> HIDE DEF call
  <2>4. RunsWhatWasLoaded' BY <2>1, <2>2, <2>3 DEF RunsWhatWasLoaded
  <2>5. QED BY <2>1, <2>4 DEF LoadInv
<1>5. QED BY <1>3, <1>4 DEF Leave

(* Without a boot, and after a reset. *)
LEMMA CalmLoads ==
  ASSUME job' = Idle, jump' = None
  PROVE  LoadInv'
BY DEF LoadInv, RunsWhatWasLoaded

(* The first state. *)
LEMMA LoadFirst == Init => LoadInv
BY DEF Init, MediaInit, LoadInv, RunsWhatWasLoaded

(* Every step keeps the invariant of the boots. *)
LEMMA LoadSteps == BiosInv /\ LoadInv /\ [Next]_vars => LoadInv'
<1>1. SUFFICES ASSUME BiosInv, LoadInv, [Next]_vars PROVE LoadInv' OBVIOUS
<1>2. ASSUME phase \in {"prompt", "command"}, job = Idle, UNCHANGED <<job, jump>> PROVE LoadInv'
  <2>1. jump = None BY <1>1, <1>2 DEF BiosInv, ShapeInv
  <2>2. QED BY <1>2, <2>1, CalmLoads
<1>3. CASE TypeLine
  <2>1. phase = "prompt" /\ UNCHANGED <<job, jump>> BY <1>3 DEF TypeLine, Enter, media
  <2>2. job = Idle BY <1>1, <2>1 DEF BiosInv, JobInv
  <2>3. QED BY <1>2, <2>1, <2>2
<1>4. CASE CommandStep
  <2>1. CASE CheckStep \/ Refused \/ RegisterStep \/ MemoryStep \/ FlashStep \/ ShowStep \/ CompareStep \/ Return
    <3>1. phase = "command" /\ job = Idle
      BY <2>1 DEF CheckStep, Refused, RegisterStep, MemoryStep, FlashStep, ShowStep, CompareStep, Return, At
    <3>2. UNCHANGED <<job, jump>>
      BY <2>1 DEF CheckStep, Refused, RegisterStep, MemoryStep, FlashStep, ShowStep, CompareStep, Return,
                  LeavesWith, media
    <3>3. QED BY <1>2, <3>1, <3>2
  <2>2. CASE Leave BY <1>1, <2>2, LeaveLoads
  <2>3. CASE MediaStart BY <1>1, <2>3, StartLoads
  <2>4. CASE MediaRuns BY <1>1, <2>4, RunsLoads
  <2>5. CASE ctrl_reset_write BY <2>5, CalmLoads DEF ctrl_reset_write, Restarted
  <2>6. QED BY <1>4, <2>1, <2>2, <2>3, <2>4, <2>5 DEF CommandStep
<1>5. CASE ResetButton BY <1>5, CalmLoads DEF ResetButton, Restarted
<1>6. CASE UNCHANGED vars
  <2>1. UNCHANGED <<mem, flash, job, jump>> BY <1>6 DEF vars, media
  <2>2. RunsWhatWasLoaded' BY <1>1, <2>1 DEF LoadInv, RunsWhatWasLoaded, FollowsJson, Holds, FlashImage, check_image_in_flash
  <2>3. QED BY <1>1, <2>1, <2>2 DEF LoadInv
<1>7. QED BY <1>1, <1>3, <1>4, <1>5, <1>6 DEF Next

(* The invariant. *)
LEMMA LoadAlways == Spec => []LoadInv
<1>1. Init => LoadInv BY LoadFirst
<1>2. BiosInv /\ LoadInv /\ [Next]_vars => LoadInv' BY LoadSteps
<1>3. Spec => []BiosInv BY BiosAlways
<1>4. QED BY <1>1, <1>2, <1>3, PTL DEF Spec

(* Whatever a medium holds and whichever call of its library fails: a boot  *)
(* from JSON (boot.c) jumps only when every image named has been read, each *)
(* at its address, with the registers and the entry given last; one from    *)
(* boot.bin or from the flash when the whole of it has been copied, the     *)
(* checksum right.  The boot command jumps where it was told.               *)
THEOREM BiosJumpsAsTold == Spec => []JumpsAsTold
<1>1. LoadInv /\ BootsWhereTold => JumpsAsTold BY DEF LoadInv, JumpsAsTold
<1>2. QED BY <1>1, LoadAlways, BootsAlways, PTL
=============================================================================
