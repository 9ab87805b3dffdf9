--------------------------- MODULE ReadlineProofs ---------------------------
(***************************************************************************)
(* Proofs about the console of Readline, for every buffer size, alphabet,  *)
(* command table, depth of the list and ring size: the screen shows the    *)
(* line, the line was typed, the text right of the cursor stays, the       *)
(* history implements Recall under the editor, and Tab adds what the       *)
(* matching names have in common.                                          *)
(*                                                                         *)
(* Induction over data (the characters Tab adds, the places of a name) is  *)
(* replaced by the least number that would be a counterexample.            *)
(***************************************************************************)
EXTENDS Readline, TLAPS, SequenceTheorems, FiniteSetTheorems, NaturalsInduction, WellFoundedInduction

(* The history ring on its own: its invariant, that only kept lines are    *)
(* shown, and that it implements Recall.                                   *)
LEMMA InitInv == HistInit => HistInv
  BY HistoryAssumption DEF HistInit, HistInv, Slots

LEMMA KeepInv ==
  ASSUME HistInv, NEW line \in Lines, KeepLine(line)
  PROVE  HistInv'
  <1>1. hist_add_idx' \in Slots /\ hist_max' \in Slots
    BY HistoryAssumption DEF HistInv, Slots, KeepLine
  <1>2. hist_lines' \in [Slots -> Lines \cup {Blank}]
    BY DEF HistInv, KeepLine
  <1>3. hist_add_idx' <= hist_max' /\ (hist_max' < HIST_MAX - 1 => hist_add_idx' = hist_max')
    BY HistoryAssumption DEF HistInv, Slots, KeepLine
  <1>4. hist_cur' \in 0 .. hist_max'
    BY <1>1, <1>3 DEF Slots, KeepLine
  <1>. QED  BY <1>1, <1>2, <1>3, <1>4 DEF HistInv, Slots

LEMMA StepInv == HistInv /\ [HistNext]_histVars => HistInv'
  <1>. SUFFICES ASSUME HistInv, [HistNext]_histVars PROVE HistInv'
    OBVIOUS
  <1>1. CASE \E line \in Lines : KeepLine(line)
    BY <1>1, KeepInv
  <1>2. CASE SkipLine
    BY <1>2, HistoryAssumption DEF HistInv, Slots, SkipLine
  <1>3. CASE hist_prev
    BY <1>3, HistoryAssumption DEF HistInv, Slots, hist_prev, Previous
  <1>4. CASE hist_next
    BY <1>4, HistoryAssumption DEF HistInv, Slots, hist_next, Following
  <1>5. CASE UNCHANGED histVars
    BY <1>5 DEF HistInv, Slots, histVars
  <1>. QED  BY <1>1, <1>2, <1>3, <1>4, <1>5 DEF HistNext

(* The counters of the ring stay in range and in step, whatever is entered *)
(* and however the user browses (readline.c:80-134).                       *)
THEOREM RingCorrect == HistSpec => []HistInv
  <1>. QED  BY InitInv, StepInv, PTL DEF HistSpec

-----------------------------------------------------------------------------
LEMMA StepKept ==
  HistInv /\ OnlyKeptLines /\ [HistNext]_histVars => OnlyKeptLines'
  <1>. SUFFICES ASSUME HistInv, OnlyKeptLines, [HistNext]_histVars PROVE OnlyKeptLines'
    OBVIOUS
  <1>1. CASE \E line \in Lines : KeepLine(line)
    <2>. PICK line \in Lines : KeepLine(line)
      BY <1>1
    <2>. SUFFICES ASSUME NEW i \in 0 .. hist_max', i # hist_add_idx' PROVE hist_lines'[i] \in Lines
      BY DEF OnlyKeptLines
    <2>1. CASE i = hist_add_idx
      BY <2>1 DEF KeepLine, HistInv
    <2>2. CASE i # hist_add_idx
      <3>1. i \in 0 .. hist_max
        BY <2>2, HistoryAssumption DEF KeepLine, HistInv, Slots
      <3>. QED  BY <2>2, <3>1 DEF KeepLine, HistInv, OnlyKeptLines, Slots
    <2>. QED  BY <2>1, <2>2
  <1>2. CASE SkipLine \/ hist_prev \/ hist_next \/ UNCHANGED histVars
    BY <1>2 DEF OnlyKeptLines, SkipLine, hist_prev, hist_next, histVars
  <1>. QED  BY <1>1, <1>2 DEF HistNext

(* No Up or Down ever shows a slot that was not written, for every HIST_MAX *)
(* (readline.c:93-134).                                                     *)
THEOREM ShowsOnlyKeptLines == HistSpec => []OnlyKeptLines
  <1>1. HistInit => OnlyKeptLines
    BY DEF HistInit, OnlyKeptLines
  <1>. QED  BY <1>1, InitInv, StepInv, StepKept, PTL DEF HistSpec

-----------------------------------------------------------------------------
(* Refinement.  A kept line moves every older one a place back.            *)
LEMMA KeepRefines ==
  ASSUME HistInv, HistInv', NEW line \in Lines, KeepLine(line)
  PROVE  Recall!Keep(line)
  <1>1. count' = IF count < HIST_MAX - 1 THEN count + 1 ELSE count
    BY HistoryAssumption DEF HistInv, Slots, KeepLine, count
  <1>2. pos' = 0
    BY HistoryAssumption DEF HistInv, Slots, KeepLine, pos
  <1>3. ASSUME NEW k \in 1 .. count'
        PROVE  hist_lines'[Behind(k)'] = IF k = 1 THEN line ELSE log[k - 1]
    <2>1. CASE k = 1
      <3>1. Behind(k)' = hist_add_idx
        BY <2>1, HistoryAssumption DEF HistInv, Slots, KeepLine, Behind
      <3>. QED  BY <2>1, <3>1 DEF HistInv, KeepLine
    <2>2. CASE k # 1
      <3>1. k - 1 \in 1 .. count
        BY <1>1, <1>3, <2>2 DEF HistInv, Slots, count
      <3>2. Behind(k)' = Behind(k - 1)
        BY <2>2, HistoryAssumption DEF HistInv, Slots, KeepLine, Behind, count
      <3>3. Behind(k - 1) # hist_add_idx /\ Behind(k - 1) \in Slots
        BY <3>1, HistoryAssumption DEF HistInv, Slots, Behind, count
      <3>. QED  BY <2>2, <3>1, <3>2, <3>3 DEF HistInv, KeepLine, log
    <2>. QED  BY <2>1, <2>2
  <1>4. log' = [k \in 1 .. count' |-> IF k = 1 THEN line ELSE log[k - 1]]
    BY <1>3 DEF log
  <1>. QED  BY <1>1, <1>2, <1>4 DEF Recall!Keep

LEMMA StepRefines ==
  HistInv /\ HistInv' /\ [HistNext]_histVars => [Recall!Next]_Recall!vars
  <1>. SUFFICES ASSUME HistInv, HistInv', [HistNext]_histVars PROVE [Recall!Next]_Recall!vars
    OBVIOUS
  <1>1. CASE \E line \in Lines : KeepLine(line)
    BY <1>1, KeepRefines DEF Recall!Next
  <1>2. ASSUME UNCHANGED <<hist_lines, hist_add_idx, hist_max>>
        PROVE  UNCHANGED <<count, log>>
    BY <1>2 DEF count, log, Behind
  <1>3. CASE SkipLine
    <2>1. pos' = 0
      BY <1>3 DEF SkipLine, HistInv, Slots, pos
    <2>. QED  BY <1>2, <1>3, <2>1 DEF SkipLine, Recall!Next, Recall!Skip
  <1>4. CASE hist_prev
    <2>1. pos < count /\ pos' = pos + 1
      BY <1>4, HistoryAssumption DEF hist_prev, HasPrevious, Previous, HistInv, Slots, pos, count
    <2>. QED  BY <1>2, <1>4, <2>1 DEF hist_prev, Recall!Next, Recall!Older
  <1>5. CASE hist_next
    <2>1. pos > 0 /\ pos' = pos - 1
      BY <1>5, HistoryAssumption DEF hist_next, HasFollowing, Following, HistInv, Slots, pos
    <2>. QED  BY <1>2, <1>5, <2>1 DEF hist_next, Recall!Next, Recall!Newer
  <1>6. CASE UNCHANGED histVars
    BY <1>6 DEF histVars, Recall!vars, count, log, pos, Behind
  <1>. QED  BY <1>1, <1>3, <1>4, <1>5, <1>6 DEF HistNext

(* The ring of readline.c:80-134 implements Recall: for every HIST_MAX the *)
(* last HIST_MAX - 1 kept lines are visited newest first.                  *)
THEOREM RingImplementsRecall == HistSpec => ImplementsRecall
  <1>1. HistInit => Recall!Init
    BY DEF HistInit, Recall!Init, count, log, pos
  <1>. QED  BY <1>1, RingCorrect, StepRefines, PTL DEF HistSpec, ImplementsRecall, Recall!Spec

-----------------------------------------------------------------------------
(* Every set of natural numbers that is not empty has a least element. *)
LEMMA LeastNumber ==
  ASSUME NEW T, T \subseteq Nat, T # {}
  PROVE  \E n \in T : \A m \in T : n <= m
<1>1. IsWellFoundedOn(OpToRel(<, Nat), Nat) BY NatLessThanWellFounded
<1>2. \E n \in T : \A m \in T : ~(<<m, n>> \in OpToRel(<, Nat)) BY <1>1, WFMin
<1>3. PICK n \in T : \A m \in T : ~(<<m, n>> \in OpToRel(<, Nat)) BY <1>2
<1>4. ASSUME NEW m \in T PROVE n <= m
  <2>1. ~(<<m, n>> \in OpToRel(<, Nat)) BY <1>3
  <2>2. m < n => <<m, n>> \in OpToRel(<, Nat) BY DEF OpToRel
  <2>3. ~(m < n) BY <2>1, <2>2
  <2>4. m \in Nat /\ n \in Nat OBVIOUS
  <2>5. QED BY <2>3, <2>4, SMT
<1>5. QED BY <1>4

(* Characters are added one after the other. *)
LEMMA AddCharsDef ==
  ASSUME NEW e, NEW s, Len(s) \in Nat
  PROVE  \E after : /\ DOMAIN after = 0 .. Len(s)
                    /\ after[0] = e
                    /\ \A k \in 1 .. Len(s) : after[k] = cread_add_char(after[k - 1], s[k])
                    /\ cread_add_chars(e, s) = after[Len(s)]
<1> DEFINE n == Len(s)
           Steps(f, m) == /\ f = [k \in 0 .. m |-> f[k]] /\ f[0] = e
                          /\ \A k \in 1 .. m : f[k] = cread_add_char(f[k - 1], s[k])
           Missing == {m \in Nat : ~\E f : Steps(f, m)}
<1>1. Missing = {}
  <2>1. SUFFICES ASSUME Missing # {} PROVE FALSE OBVIOUS
  <2>2. PICK m \in Missing : \A j \in Missing : m <= j BY <2>1, LeastNumber
  <2>3. CASE m = 0
    <3> DEFINE f == [k \in 0 .. 0 |-> e]
    <3>1. Steps(f, 0) BY SMT
    <3>2. QED BY <2>2, <2>3, <3>1
  <2>4. CASE m # 0
    <3>1. m \in Nat /\ m - 1 \in Nat /\ ~(m <= m - 1) BY <2>2, <2>4, SMT
    <3>2. m - 1 \notin Missing BY <2>2, <3>1
    <3>3. PICK f : Steps(f, m - 1) BY <3>1, <3>2
    <3> DEFINE g == [k \in 0 .. m |-> IF k = m THEN cread_add_char(f[m - 1], s[m]) ELSE f[k]]
    <3>4. g[0] = e BY <2>4, <3>1, <3>3
    <3>5. ASSUME NEW k \in 1 .. m PROVE g[k] = cread_add_char(g[k - 1], s[k])
      <4>1. k - 1 \in 0 .. m /\ k - 1 # m /\ k \in 0 .. m BY <3>1, SMT
      <4>2. g[k - 1] = f[k - 1] BY <4>1
      <4>3. CASE k = m BY <4>1, <4>2, <4>3
      <4>4. CASE k # m
        <5>1. k \in 1 .. m - 1 BY <3>1, <4>4, SMT
        <5>2. g[k] = f[k] BY <4>1, <4>4
        <5>3. QED BY <3>3, <4>2, <5>1, <5>2
      <4>5. QED BY <4>3, <4>4
    <3>6. g = [k \in 0 .. m |-> g[k]] OBVIOUS
    <3> HIDE DEF g
    <3>7. Steps(g, m) BY <3>4, <3>5, <3>6
    <3>8. QED BY <2>2, <3>7
  <2>5. QED BY <2>3, <2>4
<1>2. PICK f : Steps(f, n) BY <1>1
<1> DEFINE G(g) == g = [k \in 0 .. n |-> IF k = 0 THEN e ELSE cread_add_char(g[k - 1], s[k])]
           after == CHOOSE g : G(g)
<1>3. G(f)
  <2>1. ASSUME NEW k \in 0 .. n
        PROVE  f[k] = IF k = 0 THEN e ELSE cread_add_char(f[k - 1], s[k])
    <3>1. k = 0 \/ k \in 1 .. n BY SMT
    <3>2. k \in 1 .. n => k # 0 BY SMT
    <3>3. QED BY <1>2, <3>1, <3>2
  <2>2. f = [k \in 0 .. n |-> f[k]] BY <1>2
  <2>3. QED BY <2>1, <2>2
<1>4. G(after) BY <1>3
<1>5. cread_add_chars(e, s) = after[n] BY DEF cread_add_chars
<1> HIDE DEF after
<1>6. /\ DOMAIN after = 0 .. n /\ \A k \in 0 .. n : after[k] = IF k = 0 THEN e ELSE cread_add_char(after[k - 1], s[k])
  BY <1>4
<1>7. \A k \in 1 .. n : k \in 0 .. n /\ k # 0 BY SMT
<1>8. 0 \in 0 .. n BY SMT
<1>9. QED BY <1>5, <1>6, <1>7, <1>8

-----------------------------------------------------------------------------
(* The editors, whatever they show. *)
Cell == Chars \cup {Nul, Junk}
Shown == Cell \cup {Space}
Editors == [buf : [Cells -> Cell], num : Nat, eol_num : Nat, insert : BOOLEAN,
            screen : [0 .. Size -> Shown], col : Int]

(* The editor's part of the inductive invariant: the screen shows the line, *)
(* the line is typed, and the cursor is in it.                              *)
InOrder(e) ==
  /\ e \in Editors
  /\ e.num <= e.eol_num /\ e.eol_num <= Size /\ e.col = e.num
  /\ \A i \in 0 .. Size : e.screen[i] = IF i < e.eol_num THEN e.buf[i] ELSE Space
  /\ \A i \in 0 .. e.eol_num - 1 : e.buf[i] \in Chars

-----------------------------------------------------------------------------
(* A part of the buffer is a sequence of its cells. *)
LEMMA TextCells ==
  ASSUME NEW e \in Editors, NEW from \in Nat, NEW n \in Nat, from + n <= Size
  PROVE  /\ Text(e, from, n) \in Seq(Cell) /\ Len(Text(e, from, n)) = n
         /\ \A i \in 1 .. n : Text(e, from, n)[i] = e.buf[from + i - 1]
<1>1. ASSUME NEW i \in 1 .. n PROVE e.buf[from + i - 1] \in Cell
  <2>1. from + i - 1 \in Cells BY ReadlineAssumption, SMT DEF Cells
  <2>2. QED BY <2>1 DEF Editors
<1>2. Text(e, from, n) \in [1 .. n -> Cell] BY <1>1 DEF Text
<1>3. Text(e, from, n) \in Seq(Cell) BY <1>2, SeqDef
<1>4. Len(Text(e, from, n)) = n BY <1>2, <1>3, LenProperties, SMT
<1>5. \A i \in 1 .. n : Text(e, from, n)[i] = e.buf[from + i - 1] BY DEF Text
<1>6. QED BY <1>3, <1>4, <1>5

(* Blanks are a sequence of blanks. *)
LEMMA BlanksCells ==
  ASSUME NEW n \in Nat
  PROVE  /\ Blanks(n) \in Seq(Shown) /\ Len(Blanks(n)) = n
         /\ \A i \in 1 .. n : Blanks(n)[i] = Space
<1>1. Blanks(n) \in [1 .. n -> Shown] BY DEF Blanks, Shown
<1>2. Blanks(n) \in Seq(Shown) BY <1>1, SeqDef
<1>3. Len(Blanks(n)) = n BY <1>1, <1>2, LenProperties, SMT
<1>4. QED BY <1>2, <1>3 DEF Blanks

(* Two editors that differ in their screen and its cursor only. *)
SameText(f, e) == f.buf = e.buf /\ f.num = e.num /\ f.eol_num = e.eol_num /\ f.insert = e.insert

(* Printing a sequence. *)
LEMMA PutShows ==
  ASSUME NEW e \in Editors, e.col \in Nat, NEW s \in Seq(Shown)
  PROVE  /\ Put(e, s) \in Editors /\ SameText(Put(e, s), e) /\ Put(e, s).col = e.col + Len(s)
         /\ \A i \in 0 .. Size : Put(e, s).screen[i] = IF e.col <= i /\ i < e.col + Len(s)
                                                      THEN s[i - e.col + 1] ELSE e.screen[i]
<1> DEFINE scr == [i \in DOMAIN e.screen |-> IF i \in e.col .. e.col + Len(s) - 1
                                            THEN s[i - e.col + 1] ELSE e.screen[i]]
<1>1. Len(s) \in Nat /\ \A k \in 1 .. Len(s) : s[k] \in Shown BY LenProperties, ElementOfSeq
<1>2. DOMAIN e.screen = 0 .. Size /\ e.screen \in [0 .. Size -> Shown] BY DEF Editors
<1>3. ASSUME NEW i \in 0 .. Size
      PROVE  /\ i \in e.col .. e.col + Len(s) - 1 <=> e.col <= i /\ i < e.col + Len(s)
             /\ e.col <= i /\ i < e.col + Len(s) => i - e.col + 1 \in 1 .. Len(s)
  BY ReadlineAssumption, <1>1, SMTT(30)
<1>4. scr \in [0 .. Size -> Shown] BY <1>1, <1>2, <1>3
<1>5. Put(e, s) = [e EXCEPT !.screen = scr, !.col = e.col + Len(s)] BY DEF Put
<1>6. e.col + Len(s) \in Int BY <1>1, SMT
<1>7. \A i \in 0 .. Size : scr[i] = IF e.col <= i /\ i < e.col + Len(s)
                                    THEN s[i - e.col + 1] ELSE e.screen[i]
  BY <1>2, <1>3
<1> HIDE DEF scr
<1>8. QED BY <1>4, <1>5, <1>6, <1>7 DEF Editors, SameText

(* Printing a part of a buffer, or blanks. *)
Printed(f, e, buf, from, n) ==
  /\ f \in Editors /\ SameText(f, e) /\ f.col = e.col + n
  /\ \A i \in 0 .. Size : f.screen[i] = IF e.col <= i /\ i < e.col + n
                                       THEN buf[from + (i - e.col)] ELSE e.screen[i]

(* The text printed is the buffer's. *)
LEMMA PutText ==
  ASSUME NEW e \in Editors, e.col \in Nat,
         NEW d \in Editors, NEW from \in Nat, NEW n \in Nat, from + n <= Size
  PROVE  Printed(Put(e, Text(d, from, n)), e, d.buf, from, n)
<1> DEFINE s == Text(d, from, n)
<1>1. s \in Seq(Cell) /\ Len(s) = n /\ \A i \in 1 .. n : s[i] = d.buf[from + i - 1] BY TextCells
<1>2. Seq(Cell) \subseteq Seq(Shown) BY SeqDef DEF Shown
<1> HIDE DEF s
<1>3. ASSUME NEW i \in 0 .. Size, e.col <= i, i < e.col + n
      PROVE  s[i - e.col + 1] = d.buf[from + (i - e.col)]
  <2>1. i - e.col + 1 \in 1 .. n /\ from + (i - e.col + 1) - 1 = from + (i - e.col)
    BY ReadlineAssumption, <1>3, SMTT(30)
  <2>2. QED BY <1>1, <2>1
<1>4. s \in Seq(Shown) BY <1>1, <1>2
<1>5. /\ Put(e, s) \in Editors /\ SameText(Put(e, s), e) /\ Put(e, s).col = e.col + Len(s)
      /\ \A i \in 0 .. Size : Put(e, s).screen[i] = IF e.col <= i /\ i < e.col + Len(s)
                                                   THEN s[i - e.col + 1] ELSE e.screen[i]
  BY <1>4, PutShows
<1>6. \A i \in 0 .. Size : Put(e, s).screen[i] = IF e.col <= i /\ i < e.col + n
                                                THEN d.buf[from + (i - e.col)] ELSE e.screen[i]
  BY <1>1, <1>3, <1>5
<1>7. Printed(Put(e, s), e, d.buf, from, n) BY <1>1, <1>5, <1>6 DEF Printed
<1>8. QED BY <1>7 DEF s

(* Printing blanks. *)
LEMMA PutBlanks ==
  ASSUME NEW e \in Editors, e.col \in Nat, NEW n \in Nat
  PROVE  LET f == Put(e, Blanks(n))
         IN  /\ f \in Editors /\ SameText(f, e) /\ f.col = e.col + n
             /\ \A i \in 0 .. Size : f.screen[i] = IF e.col <= i /\ i < e.col + n
                                                  THEN Space ELSE e.screen[i]
<1> DEFINE s == Blanks(n)
<1>1. s \in Seq(Shown) /\ Len(s) = n /\ \A i \in 1 .. n : s[i] = Space BY BlanksCells
<1> HIDE DEF s
<1>2. ASSUME NEW i \in 0 .. Size, e.col <= i, i < e.col + n PROVE s[i - e.col + 1] = Space
  <2>1. i - e.col + 1 \in 1 .. n BY ReadlineAssumption, <1>2, SMT
  <2>2. QED BY <1>1, <2>1
<1>3. QED BY <1>1, <1>2, PutShows DEF s

(* Walking back. *)
LEMMA BackEdits ==
  ASSUME NEW e \in Editors, NEW n \in Int
  PROVE  /\ Back(e, n) \in Editors /\ SameText(Back(e, n), e)
         /\ Back(e, n).screen = e.screen /\ Back(e, n).col = e.col - n
<1>1. Back(e, n) = [e EXCEPT !.col = e.col - n] BY DEF Back
<1>2. e.col - n \in Int BY SMT DEF Editors
<1>3. QED BY <1>1, <1>2 DEF Editors, SameText

(* Moving a part of the buffer that is in the buffer. *)
LEMMA Moved ==
  ASSUME NEW buf \in [Cells -> Cell], NEW to \in Nat, NEW from \in Nat, NEW n \in Int
  PROVE  /\ Move(buf, to, from, n) \in [Cells -> Cell]
         /\ \A i \in Cells : Move(buf, to, from, n)[i] =
              IF to <= i /\ i < to + n
              THEN IF i - to + from \in Cells THEN buf[i - to + from] ELSE Junk
              ELSE buf[i]
<1>1. \A i \in Cells : i \in to .. to + n - 1 <=> to <= i /\ i < to + n
  BY ReadlineAssumption, SMT DEF Cells
<1>2. QED BY <1>1 DEF Move, Cell

-----------------------------------------------------------------------------
(* What an editor in order says of its numbers. *)
LEMMA OrderNumbers ==
  ASSUME NEW e, InOrder(e)
  PROVE  /\ e \in Editors /\ e.num \in Nat /\ e.eol_num \in Nat /\ e.num <= e.eol_num
         /\ e.eol_num <= Size /\ e.col = e.num /\ Size \in Nat \ {0}
         /\ e.buf \in [Cells -> Cell] /\ e.insert \in BOOLEAN /\ Cells = 0 .. Size - 1
BY ReadlineAssumption DEF InOrder, Editors, Cells

(* cread_add_char: the screen stays the line's, and inserting a character   *)
(* moves the text right of the cursor as it is.                             *)
LEMMA AddChar ==
  ASSUME NEW e, InOrder(e), NEW c \in Chars
  PROVE  /\ InOrder(cread_add_char(e, c)) /\ cread_add_char(e, c).insert = e.insert
         /\ e.insert => RightOfCursor(cread_add_char(e, c)) = RightOfCursor(e)
<1> DEFINE f == cread_add_char(e, c)
           eol  == IF Grows(e) THEN e.eol_num + 1 ELSE e.eol_num
           wlen == IF e.insert THEN eol - e.num ELSE 1
           room == IF e.insert THEN Move(e.buf, e.num + 1, e.num, wlen - 1) ELSE e.buf
           buf  == [room EXCEPT ![e.num] = c]
           new  == [e EXCEPT !.buf = buf, !.eol_num = eol]
           put  == Put(new, Text(new, e.num, wlen))
           back == Back(put, wlen - 1)
<1>1. CASE Full(e) BY <1>1 DEF cread_add_char
<1>2. CASE ~Full(e)
  <2>1. /\ e \in Editors /\ e.num \in Nat /\ e.eol_num \in Nat /\ e.num <= e.eol_num
        /\ e.eol_num <= Size /\ e.col = e.num /\ Size \in Nat \ {0}
        /\ e.buf \in [Cells -> Cell] /\ e.insert \in BOOLEAN /\ Cells = 0 .. Size - 1
    BY OrderNumbers
  <2>2. /\ eol \in Nat /\ eol <= Size /\ e.num < eol
        /\ wlen \in Nat /\ e.num + wlen <= eol /\ wlen >= 1
        /\ e.insert => eol = e.eol_num + 1 /\ wlen = eol - e.num
        /\ ~e.insert => wlen = 1 /\ eol \in {e.eol_num, e.num + 1} /\ eol >= e.eol_num
    <3>1. Grows(e) => e.eol_num + 1 <= Size BY <1>2, <2>1, SMT DEF Full
    <3>2. ~Grows(e) => e.num < e.eol_num /\ ~e.insert BY <2>1, SMT DEF Grows
    <3>3. Grows(e) /\ ~e.insert => e.num = e.eol_num BY DEF Grows
    <3>4. CASE Grows(e) BY <2>1, <3>1, <3>3, <3>4, SMTT(30)
    <3>5. CASE ~Grows(e) BY <2>1, <3>2, <3>5, SMT
    <3>6. QED BY <3>4, <3>5
  <2> HIDE DEF eol, wlen
  <2>3. /\ room \in [Cells -> Cell]
        /\ \A i \in Cells : room[i] = IF e.insert /\ e.num < i /\ i < eol THEN e.buf[i - 1] ELSE e.buf[i]
    <3>1. CASE e.insert
      <4> DEFINE m == Move(e.buf, e.num + 1, e.num, wlen - 1)
      <4>1. e.num + 1 \in Nat /\ wlen - 1 \in Int BY <2>1, <2>2, <3>1, SMT
      <4>2. /\ m \in [Cells -> Cell]
            /\ \A i \in Cells : m[i] =
                 IF e.num + 1 <= i /\ i < (e.num + 1) + (wlen - 1)
                 THEN IF i - (e.num + 1) + e.num \in Cells THEN e.buf[i - (e.num + 1) + e.num] ELSE Junk
                 ELSE e.buf[i]
        <5>1. e.buf \in [Cells -> Cell] /\ e.num \in Nat BY <2>1
        <5>2. QED BY <4>1, <5>1, Moved, ZenonT(30)
      <4>3. ASSUME NEW i \in Cells
            PROVE  /\ e.num + 1 <= i /\ i < (e.num + 1) + (wlen - 1) <=> e.num < i /\ i < eol
                   /\ i - (e.num + 1) + e.num = i - 1
                   /\ e.num < i => i - 1 \in Cells
        BY <2>1, <2>2, <3>1, SMTT(30)
      <4>4. room = m BY <3>1
      <4> HIDE DEF room, m
      <4>5. QED BY <3>1, <4>2, <4>3, <4>4
    <3>2. CASE ~e.insert BY <2>1, <3>2
    <3>3. QED BY <2>1, <3>1, <3>2
  <2> HIDE DEF room
  <2>4. e.num \in Cells BY <2>1, <2>2, SMT
  <2>5. /\ buf \in [Cells -> Cell] /\ buf[e.num] = c
        /\ \A i \in Cells : i # e.num =>
             buf[i] = IF e.insert /\ e.num < i /\ i < eol THEN e.buf[i - 1] ELSE e.buf[i]
    BY <2>3, <2>4 DEF Cell
  <2> HIDE DEF buf
  <2>6. /\ new \in Editors /\ new.buf = buf /\ new.num = e.num /\ new.eol_num = eol
        /\ new.insert = e.insert /\ new.screen = e.screen /\ new.col = e.num
    BY <2>1, <2>2, <2>5 DEF Editors
  <2> HIDE DEF new
  <2>7. /\ put \in Editors /\ SameText(put, new) /\ put.col = e.num + wlen
        /\ \A i \in 0 .. Size : put.screen[i] = IF e.num <= i /\ i < e.num + wlen
                                                THEN buf[e.num + (i - e.num)] ELSE e.screen[i]
    <3>1. e.num + wlen <= Size /\ new.col \in Nat BY <2>1, <2>2, <2>6, SMT
    <3>2. /\ put \in Editors /\ SameText(put, new) /\ put.col = new.col + wlen
          /\ \A i \in 0 .. Size : put.screen[i] = IF new.col <= i /\ i < new.col + wlen
                                                  THEN new.buf[e.num + (i - new.col)] ELSE new.screen[i]
      <4>1. new \in Editors /\ e.num \in Nat /\ wlen \in Nat BY <2>1, <2>2, <2>6
      <4>2. Printed(put, new, new.buf, e.num, wlen) BY <3>1, <4>1, PutText
      <4>3. QED BY <4>2 DEF Printed
    <3> HIDE DEF put
    <3>3. QED BY <2>6, <3>2
  <2> HIDE DEF put
  <2>8. /\ back \in Editors /\ SameText(back, put) /\ back.screen = put.screen
        /\ back.col = (e.num + wlen) - (wlen - 1)
    <3>1. wlen - 1 \in Int BY <2>2, SMT
    <3>2. QED BY <2>7, <3>1, BackEdits
  <2>9. f = [back EXCEPT !.num = e.num + 1]
    BY <1>2 DEF cread_add_char, back, put, new, buf, room, wlen, eol
  <2> HIDE DEF back, f
  <2>10. e.num + 1 \in Nat /\ (e.num + wlen) - (wlen - 1) = e.num + 1 BY <2>1, <2>2, SMT
  <2>11. /\ f \in Editors /\ f.num = e.num + 1 /\ f.eol_num = eol /\ f.insert = e.insert
         /\ f.buf = buf /\ f.col = e.num + 1 /\ f.screen = put.screen
    BY <2>6, <2>7, <2>8, <2>9, <2>10 DEF Editors, SameText
  <2>12. ASSUME NEW i \in 0 .. Size
         PROVE  f.screen[i] = IF i < eol THEN buf[i] ELSE Space
    <3>1. e.screen[i] = IF i < e.eol_num THEN e.buf[i] ELSE Space BY DEF InOrder
    <3>2. put.screen[i] = IF e.num <= i /\ i < e.num + wlen THEN buf[e.num + (i - e.num)] ELSE e.screen[i]
      BY <2>7
    <3>3. CASE e.num <= i /\ i < e.num + wlen
      <4>1. e.num + (i - e.num) = i /\ i < eol BY <2>1, <2>2, <3>3, SMT
      <4>2. QED BY <2>11, <3>2, <3>3, <4>1
    <3>4. CASE ~(e.num <= i /\ i < e.num + wlen)
      <4>1. (i < eol <=> i < e.eol_num) /\ (i < eol => i \in Cells /\ i # e.num)
            /\ ~(e.insert /\ e.num < i /\ i < eol)
        BY <2>1, <2>2, <3>4, SMT
      <4>2. QED BY <2>5, <2>11, <3>1, <3>2, <3>4, <4>1
    <3>5. QED BY <3>3, <3>4
  <2>13. ASSUME NEW i \in 0 .. eol - 1 PROVE buf[i] \in Chars
    <3>1. CASE i = e.num BY <2>5, <3>1
    <3>2. CASE i # e.num
      <4>1. i \in Cells /\ (e.insert /\ e.num < i => i - 1 \in 0 .. e.eol_num - 1)
            /\ (~(e.insert /\ e.num < i /\ i < eol) => i \in 0 .. e.eol_num - 1)
        BY <2>1, <2>2, <3>2, SMTT(30)
      <4>2. \A j \in 0 .. e.eol_num - 1 : e.buf[j] \in Chars BY DEF InOrder
      <4>3. QED BY <2>5, <3>2, <4>1, <4>2
    <3>3. QED BY <3>1, <3>2
  <2>14. InOrder(f)
    <3>1. e.num + 1 <= eol BY <2>1, <2>2, SMT
    <3>2. QED BY <2>2, <2>11, <2>12, <2>13, <3>1 DEF InOrder
  <2>15. ASSUME e.insert PROVE RightOfCursor(f) = RightOfCursor(e)
    <3>1. eol - (e.num + 1) = e.eol_num - e.num BY <2>1, <2>2, <2>15, SMTT(30)
    <3>2. ASSUME NEW i \in 1 .. e.eol_num - e.num
          PROVE  buf[(e.num + 1) + i - 1] = e.buf[e.num + i - 1]
      <4> DEFINE k == (e.num + 1) + i - 1
      <4>1. k = e.num + i /\ k - 1 = e.num + i - 1 BY <2>1, SMT
      <4>2. eol = e.eol_num + 1 BY <2>2, <2>15
      <4>3. e.num + i \in 0 .. Size - 1 /\ e.num + i # e.num /\ e.num < e.num + i /\ e.num + i < eol
        BY <2>1, <2>2, <4>2, SMTT(30)
      <4> HIDE DEF k
      <4>4. buf[k] = e.buf[k - 1] BY <2>1, <2>5, <2>15, <4>1, <4>3
      <4>5. QED BY <4>1, <4>4 DEF k
    <3>3. QED BY <2>11, <3>1, <3>2 DEF RightOfCursor, Text
  <2>16. QED BY <2>11, <2>14, <2>15 DEF f
<1>3. QED BY <1>1, <1>2

(* Adding characters one after the other keeps what adding one keeps. *)
LEMMA AddChars ==
  ASSUME NEW e, InOrder(e), NEW s \in Seq(Chars)
  PROVE  /\ InOrder(cread_add_chars(e, s)) /\ cread_add_chars(e, s).insert = e.insert
         /\ e.insert => RightOfCursor(cread_add_chars(e, s)) = RightOfCursor(e)
<1> DEFINE Good(f) == /\ InOrder(f) /\ f.insert = e.insert
                      /\ e.insert => RightOfCursor(f) = RightOfCursor(e)
<1>1. Len(s) \in Nat /\ \A k \in 1 .. Len(s) : s[k] \in Chars BY LenProperties, ElementOfSeq
<1>2. PICK after : /\ DOMAIN after = 0 .. Len(s)
                   /\ after[0] = e
                   /\ \A k \in 1 .. Len(s) : after[k] = cread_add_char(after[k - 1], s[k])
                   /\ cread_add_chars(e, s) = after[Len(s)]
  BY <1>1, AddCharsDef
<1> DEFINE Bad == {k \in 0 .. Len(s) : ~Good(after[k])}
<1>3. Bad = {}
  <2>1. SUFFICES ASSUME Bad # {} PROVE FALSE OBVIOUS
  <2>2. Bad \subseteq Nat BY SMT
  <2>3. PICK k \in Bad : \A j \in Bad : k <= j BY <2>1, <2>2, LeastNumber
  <2>4. k # 0 BY <1>2, <2>3
  <2>5. k \in 1 .. Len(s) /\ k - 1 \in 0 .. Len(s) /\ ~(k <= k - 1) BY <1>1, <2>3, <2>4, SMT
  <2>6. Good(after[k - 1]) BY <2>3, <2>5
  <2>7. after[k] = cread_add_char(after[k - 1], s[k]) /\ s[k] \in Chars BY <1>1, <1>2, <2>5
  <2>8. Good(after[k]) BY <2>6, <2>7, AddChar
  <2>9. QED BY <2>3, <2>8
<1>4. Len(s) \in 0 .. Len(s) BY <1>1, SMT
<1>5. QED BY <1>2, <1>3, <1>4

(* A fresh prompt. *)
LEMMA PromptOrder ==
  ASSUME NEW buf \in [Cells -> Cell]
  PROVE  InOrder(Prompt(buf))
<1>1. Prompt(buf) \in Editors
  <2>1. [i \in 0 .. Size |-> Space] \in [0 .. Size -> Shown] BY DEF Shown
  <2>2. QED BY <2>1, SMT DEF Prompt, Editors
<1>2. Prompt(buf).eol_num = 0 /\ Prompt(buf).num = 0 /\ Prompt(buf).col = 0
      /\ Prompt(buf).screen = [i \in 0 .. Size |-> Space]
  BY DEF Prompt
<1>3. 0 <= Size /\ 0 <= 0 /\ (\A i \in 0 .. Size : ~(i < 0)) /\ \A i \in 0 .. 0 - 1 : FALSE
  BY ReadlineAssumption, SMT
<1>4. QED BY <1>1, <1>2, <1>3 DEF InOrder

(* A terminator in the buffer. *)
LEMMA TerminatedEdits ==
  ASSUME NEW e, InOrder(e), NEW n \in Cells
  PROVE  /\ Terminated(e, n) \in Editors
         /\ Terminated(e, n).buf \in [Cells -> Cell] /\ Terminated(e, n).buf[n] = Nul
         /\ \A i \in Cells : i # n => Terminated(e, n).buf[i] = e.buf[i]
         /\ Terminated(e, n).num = e.num /\ Terminated(e, n).eol_num = e.eol_num
         /\ Terminated(e, n).insert = e.insert /\ Terminated(e, n).screen = e.screen
         /\ Terminated(e, n).col = e.col
<1>1. e \in Editors /\ e.buf \in [Cells -> Cell] BY OrderNumbers
<1>2. Terminated(e, n) = [e EXCEPT !.buf = [e.buf EXCEPT ![n] = Nul]] BY DEF Terminated
<1>3. [e.buf EXCEPT ![n] = Nul] \in [Cells -> Cell] BY <1>1 DEF Cell
<1>4. QED BY <1>1, <1>2, <1>3 DEF Editors

(* The terminator of the line is not in it. *)
LEMMA TerminatedOrder ==
  ASSUME NEW e, InOrder(e), e.eol_num \in Cells
  PROVE  /\ InOrder(Terminated(e, e.eol_num))
         /\ RightOfCursor(Terminated(e, e.eol_num)) = RightOfCursor(e)
         /\ Line(Terminated(e, e.eol_num)) = Line(e)
<1> DEFINE f == Terminated(e, e.eol_num)
<1>1. /\ f \in Editors /\ \A i \in Cells : i # e.eol_num => f.buf[i] = e.buf[i]
      /\ f.num = e.num /\ f.eol_num = e.eol_num /\ f.insert = e.insert /\ f.screen = e.screen
      /\ f.col = e.col
  BY TerminatedEdits
<1> HIDE DEF f
<1>2. /\ e \in Editors /\ e.num \in Nat /\ e.eol_num \in Nat /\ e.num <= e.eol_num
      /\ e.eol_num <= Size /\ Size \in Nat \ {0} /\ Cells = 0 .. Size - 1
  BY OrderNumbers
<1>3. ASSUME NEW i \in 0 .. e.eol_num - 1 PROVE f.buf[i] = e.buf[i]
  <2>1. i \in Cells /\ i # e.eol_num BY <1>2, SMT
  <2>2. QED BY <1>1, <2>1
<1>4. InOrder(f)
  <2>1. ASSUME NEW i \in 0 .. Size, i < e.eol_num PROVE i \in 0 .. e.eol_num - 1 BY <1>2, <2>1, SMT
  <2>2. QED BY <1>1, <1>3, <2>1 DEF InOrder
<1>5. RightOfCursor(f) = RightOfCursor(e)
  <2>1. ASSUME NEW i \in 1 .. e.eol_num - e.num PROVE e.num + i - 1 \in 0 .. e.eol_num - 1
    BY <1>2, SMT
  <2>2. QED BY <1>1, <1>3, <2>1 DEF RightOfCursor, Text
<1>6. Line(f) = Line(e)
  <2>1. ASSUME NEW i \in 1 .. e.eol_num PROVE 0 + i - 1 \in 0 .. e.eol_num - 1
    BY <1>2, SMT
  <2>2. QED BY <1>1, <1>3, <2>1 DEF Line, Text
<1>7. QED BY <1>4, <1>5, <1>6 DEF f

(* BEGINNING_OF_LINE *)
LEMMA BeginningOrder ==
  ASSUME NEW e, InOrder(e)
  PROVE  /\ InOrder(BeginningOfLine(e)) /\ BeginningOfLine(e).num = 0
         /\ BeginningOfLine(e).buf = e.buf
<1>1. /\ e \in Editors /\ e.num \in Nat /\ e.eol_num \in Nat /\ e.col = e.num BY OrderNumbers
<1> DEFINE b == Back(e, e.num)
           f == BeginningOfLine(e)
<1>2. b \in Editors /\ SameText(b, e) /\ b.screen = e.screen /\ b.col = e.num - e.num
  BY <1>1, BackEdits
<1>3. f = [b EXCEPT !.num = 0] BY DEF BeginningOfLine
<1> HIDE DEF b, f
<1>4. e.num - e.num = 0 /\ 0 <= e.eol_num BY <1>1, SMT
<1>5. /\ f \in Editors /\ f.num = 0 /\ f.eol_num = e.eol_num /\ f.buf = e.buf /\ f.col = 0
      /\ f.screen = e.screen
  BY <1>2, <1>3, <1>4 DEF Editors, SameText
<1>6. InOrder(f) BY <1>4, <1>5 DEF InOrder
<1>7. QED BY <1>5, <1>6 DEF f

(* ERASE_TO_EOL *)
LEMMA EraseOrder ==
  ASSUME NEW e, InOrder(e)
  PROVE  /\ InOrder(EraseToEol(e)) /\ EraseToEol(e).num = e.num /\ EraseToEol(e).eol_num = e.num
         /\ EraseToEol(e).buf = e.buf
<1> DEFINE n == e.eol_num - e.num
           p == Put(e, Blanks(n))
           b == Back(p, n)
           f == EraseToEol(e)
<1>1. /\ e \in Editors /\ e.num \in Nat /\ e.eol_num \in Nat /\ e.num <= e.eol_num
      /\ e.eol_num <= Size /\ e.col = e.num /\ Size \in Nat \ {0} /\ n \in Nat
  <2>1. /\ e \in Editors /\ e.num \in Nat /\ e.eol_num \in Nat /\ e.num <= e.eol_num
        /\ e.eol_num <= Size /\ e.col = e.num /\ Size \in Nat \ {0}
    BY OrderNumbers
  <2>2. n \in Nat BY <2>1, SMT
  <2>3. QED BY <2>1, <2>2
<1>2. /\ p \in Editors /\ SameText(p, e) /\ p.col = e.col + n
      /\ \A i \in 0 .. Size : p.screen[i] = IF e.col <= i /\ i < e.col + n THEN Space ELSE e.screen[i]
  <2>1. e.col \in Nat BY <1>1
  <2>2. QED BY <1>1, <2>1, PutBlanks
<1> HIDE DEF p
<1>3. b \in Editors /\ SameText(b, p) /\ b.screen = p.screen /\ b.col = p.col - n
  <2>1. n \in Int BY <1>1, SMT
  <2>2. QED BY <1>2, <2>1, BackEdits
<1>4. f = [b EXCEPT !.eol_num = e.num] BY DEF EraseToEol, b, p
<1> HIDE DEF b, f
<1>5. (e.col + n) - n = e.num BY <1>1, SMT
<1>6. /\ f \in Editors /\ f.num = e.num /\ f.eol_num = e.num /\ f.buf = e.buf /\ f.col = e.num
      /\ f.screen = p.screen
  BY <1>1, <1>2, <1>3, <1>4, <1>5 DEF Editors, SameText
<1>7. ASSUME NEW i \in 0 .. Size PROVE f.screen[i] = IF i < e.num THEN e.buf[i] ELSE Space
  <2>1. e.screen[i] = IF i < e.eol_num THEN e.buf[i] ELSE Space BY DEF InOrder
  <2>2. /\ i < e.num => i < e.eol_num /\ ~(e.col <= i /\ i < e.col + n)
        /\ ~(i < e.num) => (e.col <= i /\ i < e.col + n) \/ ~(i < e.eol_num)
    BY <1>1, SMT
  <2>3. QED BY <1>2, <1>6, <2>1, <2>2
<1>8. \A i \in 0 .. e.num - 1 : i \in 0 .. e.eol_num - 1 BY <1>1, SMT
<1>9. InOrder(f)
  <2>1. e.num <= e.num /\ e.num <= Size BY <1>1, SMT
  <2>2. \A i \in 0 .. e.num - 1 : e.buf[i] \in Chars BY <1>8 DEF InOrder
  <2>3. QED BY <1>6, <1>7, <2>1, <2>2 DEF InOrder
<1>10. QED BY <1>6, <1>9 DEF f

(* REFRESH_TO_EOL, of a line whose end may not be on the screen yet. *)
LEMMA RefreshOrder ==
  ASSUME NEW e \in Editors, e.num <= e.eol_num, e.eol_num <= Size, e.col = e.num,
         \A i \in 0 .. Size : (i < e.num => e.screen[i] = e.buf[i])
                              /\ (~(i < e.eol_num) => e.screen[i] = Space),
         \A i \in 0 .. e.eol_num - 1 : e.buf[i] \in Chars
  PROVE  /\ InOrder(RefreshToEol(e)) /\ RefreshToEol(e).eol_num = e.eol_num
         /\ RefreshToEol(e).buf = e.buf
<1> DEFINE n == e.eol_num - e.num
           p == Put(e, Text(e, e.num, n))
           f == RefreshToEol(e)
<1>1. e.num \in Nat /\ e.eol_num \in Nat /\ Size \in Nat \ {0} /\ n \in Nat /\ e.num + n <= Size
      /\ e.num + n = e.eol_num
  <2>1. e.num \in Nat /\ e.eol_num \in Nat /\ Size \in Nat \ {0} BY ReadlineAssumption DEF Editors
  <2>2. QED BY <2>1, SMT
<1>2. /\ p \in Editors /\ SameText(p, e) /\ p.col = e.col + n
      /\ \A i \in 0 .. Size : p.screen[i] = IF e.col <= i /\ i < e.col + n
                                            THEN e.buf[e.num + (i - e.col)] ELSE e.screen[i]
  <2>1. e.col \in Nat /\ e.num \in Nat /\ n \in Nat /\ e.num + n <= Size BY <1>1
  <2> HIDE DEF n
  <2>2. Printed(p, e, e.buf, e.num, n) BY <2>1, PutText
  <2>3. QED BY <2>2 DEF Printed
<1> HIDE DEF p
<1>3. f = [p EXCEPT !.num = e.eol_num] BY DEF RefreshToEol, p
<1> HIDE DEF f
<1>4. /\ f \in Editors /\ f.num = e.eol_num /\ f.eol_num = e.eol_num /\ f.buf = e.buf
      /\ f.col = e.eol_num /\ f.screen = p.screen
  BY <1>1, <1>2, <1>3 DEF Editors, SameText
<1>5. ASSUME NEW i \in 0 .. Size PROVE f.screen[i] = IF i < e.eol_num THEN e.buf[i] ELSE Space
  <2>1. /\ ~(i < e.num) /\ i < e.eol_num <=> e.col <= i /\ i < e.col + n
        /\ e.num + (i - e.col) = i
        /\ i < e.num => i < e.eol_num
    BY <1>1, SMT
  <2>2. QED BY <1>2, <1>4, <2>1
<1>6. e.eol_num <= e.eol_num BY <1>1, SMT
<1>7. InOrder(f) BY <1>4, <1>5, <1>6 DEF InOrder
<1>8. QED BY <1>4, <1>7 DEF f

(* The editor about to print: the character at a is out of the buffer, and  *)
(* what was right of it has moved.                                          *)
Dropping(e, d, a) ==
  /\ d \in Editors /\ d.num = a /\ d.eol_num = e.eol_num /\ d.insert = e.insert
  /\ d.screen = e.screen /\ d.col = a
  /\ \A i \in Cells : /\ i < a => d.buf[i] = e.buf[i]
                      /\ a <= i /\ i < e.eol_num - 1 => d.buf[i] = e.buf[i + 1]

(* Where a column is when the text from a on is printed to the end. *)
LEMMA DropPlaces ==
  ASSUME NEW eol \in Nat, NEW size \in Nat, NEW a \in Nat, NEW w \in Nat, a + w = eol - 1, eol <= size,
         NEW i \in 0 .. size
  PROVE  /\ i < a => i < eol /\ i < eol - 1 /\ ~(a + w <= i) /\ ~(a <= i) /\ i \in 0 .. size - 1
         /\ a <= i /\ i < a + w => i < eol - 1 /\ ~(a + w <= i) /\ a + (i - a) = i
         /\ i = a + w => ~(i < eol - 1) /\ a + w <= i /\ i < (a + w) + 1
         /\ i > a + w => ~(i < eol - 1) /\ ~(i < eol) /\ ~(i < (a + w) + 1) /\ ~(i < a + w)
         /\ i < a \/ (a <= i /\ i < a + w) \/ i = a + w \/ i > a + w
BY SMT

(* The editor after the rest of the line, a blank and n backspaces are printed. *)
Redrawn(d, a, w, n) ==
  [Back(Put(Put(d, Text(d, a, w)), Blanks(1)), n) EXCEPT !.eol_num = @ - 1]

(* Deleting the character at a: the rest of the line is printed, followed   *)
(* by a blank, and the cursor walks back to a.                              *)
LEMMA DropOrder ==
  ASSUME NEW e, InOrder(e), NEW a \in Nat, a < e.eol_num,
         NEW d, Dropping(e, d, a),
         NEW w \in Int, w = e.eol_num - a - 1, NEW n \in Int, n = e.eol_num - a
  PROVE  /\ InOrder(Redrawn(d, a, w, n)) /\ Redrawn(d, a, w, n).num = a
         /\ RightOfCursor(Redrawn(d, a, w, n)) = Text(e, a + 1, e.eol_num - (a + 1))
<1> DEFINE p == Put(d, Text(d, a, w))
           q == Put(p, Blanks(1))
           b == Back(q, n)
           f == [b EXCEPT !.eol_num = b.eol_num - 1]
<1>1. /\ e \in Editors /\ e.eol_num \in Nat /\ e.eol_num <= Size /\ Size \in Nat \ {0}
      /\ Cells = 0 .. Size - 1
  BY OrderNumbers
<1>2. /\ w \in Nat /\ a + w <= Size /\ n \in Int /\ (a + w) + 1 - n = a /\ a + w = e.eol_num - 1
      /\ e.eol_num - 1 \in Nat /\ a + w \in Nat
  <2>1. w \in Nat BY <1>1, SMT
  <2>2. a + w <= Size BY <1>1, SMTT(30)
  <2>3. (a + w) + 1 - n = a BY <1>1, SMTT(30)
  <2>4. e.eol_num - 1 \in Nat BY <1>1, SMT
  <2>5. a + w = e.eol_num - 1 BY <1>1, SMTT(30)
  <2>6. QED BY <2>1, <2>2, <2>3, <2>4, <2>5
<1>3. /\ p \in Editors /\ SameText(p, d) /\ p.col = a + w
      /\ \A i \in 0 .. Size : p.screen[i] = IF a <= i /\ i < a + w
                                            THEN d.buf[a + (i - a)] ELSE e.screen[i]
  <2>1. d \in Editors /\ d.col = a /\ d.col \in Nat /\ d.screen = e.screen /\ a \in Nat /\ w \in Nat /\ a + w <= Size
    BY <1>2 DEF Dropping
  <2>2. /\ p \in Editors /\ SameText(p, d) /\ p.col = d.col + w
        /\ \A i \in 0 .. Size : p.screen[i] = IF d.col <= i /\ i < d.col + w
                                              THEN d.buf[a + (i - d.col)] ELSE d.screen[i]
    <3>1. Printed(p, d, d.buf, a, w) BY <2>1, PutText
    <3>2. QED BY <3>1 DEF Printed
  <2> HIDE DEF p
  <2>3. QED BY <2>1, <2>2
<1> HIDE DEF p
<1>4. /\ q \in Editors /\ SameText(q, p) /\ q.col = (a + w) + 1
      /\ \A i \in 0 .. Size : q.screen[i] = IF a + w <= i /\ i < (a + w) + 1
                                            THEN Space ELSE p.screen[i]
  <2>1. p.col \in Nat /\ 1 \in Nat BY <1>2, <1>3
  <2>2. /\ q \in Editors /\ SameText(q, p) /\ q.col = p.col + 1
        /\ \A i \in 0 .. Size : q.screen[i] = IF p.col <= i /\ i < p.col + 1
                                              THEN Space ELSE p.screen[i]
    BY <1>3, <2>1, PutBlanks
  <2> HIDE DEF q
  <2>3. QED BY <1>3, <2>2
<1> HIDE DEF q
<1>5. b \in Editors /\ SameText(b, q) /\ b.screen = q.screen /\ b.col = q.col - n
  BY <1>2, <1>4, BackEdits
<1> HIDE DEF b
<1>6. b.eol_num = e.eol_num BY <1>3, <1>4, <1>5 DEF SameText, Dropping
<1>7. /\ f \in Editors /\ f.num = a /\ f.eol_num = e.eol_num - 1 /\ f.insert = e.insert
      /\ f.buf = d.buf /\ f.col = a /\ f.screen = q.screen
  <2>1. f \in Editors /\ f.eol_num = e.eol_num - 1 BY <1>2, <1>5, <1>6 DEF Editors
  <2>2. b.num = a /\ b.insert = e.insert /\ b.buf = d.buf
    BY <1>3, <1>4, <1>5 DEF SameText, Dropping
  <2>3. b.col = a /\ b.screen = q.screen BY <1>2, <1>4, <1>5
  <2>4. f.num = b.num /\ f.insert = b.insert /\ f.buf = b.buf /\ f.col = b.col /\ f.screen = b.screen
    BY <1>5 DEF Editors
  <2>5. QED BY <2>1, <2>2, <2>3, <2>4
<1> HIDE DEF f
<1>8. ASSUME NEW i \in 0 .. Size PROVE f.screen[i] = IF i < e.eol_num - 1 THEN d.buf[i] ELSE Space
  <2>1. e.screen[i] = IF i < e.eol_num THEN e.buf[i] ELSE Space BY DEF InOrder
  <2>2. e.eol_num \in Nat /\ Size \in Nat /\ w \in Nat /\ a + w = e.eol_num - 1 /\ e.eol_num <= Size
    BY <1>1, <1>2
  <2>3. CASE i < a
    <3>1. i < e.eol_num /\ i < e.eol_num - 1 /\ ~(a + w <= i) /\ ~(a <= i) /\ i \in Cells
      BY <1>1, <2>2, <2>3, DropPlaces, SMTT(30)
    <3>2. d.buf[i] = e.buf[i] BY <2>3, <3>1 DEF Dropping
    <3>3. QED BY <1>3, <1>4, <1>7, <2>1, <3>1, <3>2
  <2>4. CASE a <= i /\ i < a + w
    <3>1. i < e.eol_num - 1 /\ ~(a + w <= i) /\ a + (i - a) = i BY <2>2, <2>4, DropPlaces
    <3>2. QED BY <1>3, <1>4, <1>7, <2>4, <3>1
  <2>5. CASE i = a + w
    <3>1. ~(i < e.eol_num - 1) /\ a + w <= i /\ i < (a + w) + 1 BY <2>2, <2>5, DropPlaces
    <3>2. QED BY <1>4, <1>7, <3>1
  <2>6. CASE i > a + w
    <3>1. ~(i < e.eol_num - 1) /\ ~(i < e.eol_num) /\ ~(i < (a + w) + 1) /\ ~(i < a + w)
      BY <2>2, <2>6, DropPlaces
    <3>2. QED BY <1>3, <1>4, <1>7, <2>1, <3>1
  <2>7. QED BY <2>2, <2>3, <2>4, <2>5, <2>6, DropPlaces
<1>9. ASSUME NEW i \in 0 .. (e.eol_num - 1) - 1 PROVE d.buf[i] \in Chars
  <2>1. /\ i \in Cells /\ i \in 0 .. e.eol_num - 1 /\ i + 1 \in 0 .. e.eol_num - 1
        /\ i < a \/ (a <= i /\ i < e.eol_num - 1)
    BY <1>1, SMTT(30)
  <2>2. QED BY <2>1 DEF InOrder, Dropping
<1>10. InOrder(f)
  <2>1. a <= e.eol_num - 1 /\ e.eol_num - 1 <= Size BY <1>1, SMT
  <2>2. QED BY <1>7, <1>8, <1>9, <2>1 DEF InOrder
<1>11. RightOfCursor(f) = Text(e, a + 1, e.eol_num - (a + 1))
  <2>1. (e.eol_num - 1) - a = e.eol_num - (a + 1) BY <1>1, SMT
  <2>2. ASSUME NEW i \in 1 .. e.eol_num - (a + 1) PROVE d.buf[a + i - 1] = e.buf[(a + 1) + i - 1]
    <3> DEFINE k == a + i - 1
    <3>1. k \in Cells /\ a <= k /\ k < e.eol_num - 1 /\ k + 1 = (a + 1) + i - 1 BY <1>1, SMTT(30)
    <3> HIDE DEF k
    <3>2. d.buf[k] = e.buf[k + 1] BY <3>1 DEF Dropping
    <3>3. QED BY <3>1, <3>2 DEF k
  <2>3. QED BY <1>7, <2>1, <2>2 DEF RightOfCursor, Text
<1>12. QED BY <1>7, <1>10, <1>11 DEF f, b, q, p, Redrawn

-----------------------------------------------------------------------------
(* Typing a character. *)
LEMMA TypeKey ==
  ASSUME InOrder(ed), NEW c \in Chars, Type(c)
  PROVE  InOrder(ed') /\ (ed.insert => RightOfCursor(ed') = RightOfCursor(ed))
BY AddChar DEF Type, Edits

(* The keys that move the cursor, and the one that changes the mode. *)
LEMMA MoveKeys ==
  ASSUME InOrder(ed), Home \/ End \/ Right \/ Left \/ Insert
  PROVE  InOrder(ed')
<1>1. /\ ed \in Editors /\ ed.num \in Nat /\ ed.eol_num \in Nat /\ ed.num <= ed.eol_num
      /\ ed.eol_num <= Size /\ ed.col = ed.num /\ Size \in Nat \ {0}
  BY OrderNumbers
<1>2. CASE Home BY <1>2, BeginningOrder DEF Home, Edits
<1>3. CASE End
  <2>1. ed' = RefreshToEol(ed) BY <1>3 DEF End, Edits
  <2>2. ASSUME NEW i \in 0 .. Size
        PROVE  (i < ed.num => ed.screen[i] = ed.buf[i]) /\ (~(i < ed.eol_num) => ed.screen[i] = Space)
    <3>1. ed.screen[i] = IF i < ed.eol_num THEN ed.buf[i] ELSE Space BY DEF InOrder
    <3>2. i < ed.num => i < ed.eol_num BY <1>1, SMT
    <3>3. QED BY <3>1, <3>2
  <2>3. \A i \in 0 .. ed.eol_num - 1 : ed.buf[i] \in Chars BY DEF InOrder
  <2>4. InOrder(RefreshToEol(ed)) BY <1>1, <2>2, <2>3, RefreshOrder
  <2>5. QED BY <2>1, <2>4
<1>4. CASE Right
  <2> DEFINE p == Put(ed, Text(ed, ed.num, 1))
  <2>1. ed.num < ed.eol_num /\ ed' = [p EXCEPT !.num = p.num + 1] BY <1>4 DEF Right, Edits
  <2>2. ed.num + 1 <= Size /\ ed.num + 1 \in Nat /\ ed.num + 1 <= ed.eol_num /\ ed.col \in Nat
    BY <1>1, <2>1, SMT
  <2>3. /\ p \in Editors /\ SameText(p, ed) /\ p.col = ed.col + 1
        /\ \A i \in 0 .. Size : p.screen[i] = IF ed.col <= i /\ i < ed.col + 1
                                              THEN ed.buf[ed.num + (i - ed.col)] ELSE ed.screen[i]
    <3>1. ed \in Editors /\ ed.col \in Nat /\ ed.num \in Nat /\ 1 \in Nat /\ ed.num + 1 <= Size
      BY <1>1, <2>2, SMT
    <3>2. Printed(p, ed, ed.buf, ed.num, 1) BY <3>1, PutText
    <3>3. QED BY <3>2 DEF Printed
  <2> HIDE DEF p
  <2>4. ASSUME NEW i \in 0 .. Size PROVE p.screen[i] = ed.screen[i]
    <3>1. ed.screen[i] = IF i < ed.eol_num THEN ed.buf[i] ELSE Space BY DEF InOrder
    <3>2. ed.col <= i /\ i < ed.col + 1 => i < ed.eol_num /\ ed.num + (i - ed.col) = i
      BY <1>1, <2>1, SMT
    <3>3. QED BY <2>3, <3>1, <3>2
  <2>5. /\ ed' \in Editors /\ (ed').num = ed.num + 1 /\ (ed').eol_num = ed.eol_num
        /\ (ed').buf = ed.buf /\ (ed').col = ed.num + 1 /\ (ed').screen = p.screen
    BY <1>1, <2>1, <2>2, <2>3 DEF Editors, SameText
  <2>6. QED BY <1>1, <2>2, <2>4, <2>5 DEF InOrder
<1>5. CASE Left
  <2> DEFINE b == Back(ed, 1)
  <2>1. ed.num > 0 /\ ed' = [b EXCEPT !.num = b.num - 1] BY <1>5 DEF Left, Edits
  <2>2. b \in Editors /\ SameText(b, ed) /\ b.screen = ed.screen /\ b.col = ed.col - 1
    <3>1. 1 \in Int BY SMT
    <3>2. QED BY <1>1, <3>1, BackEdits
  <2> HIDE DEF b
  <2>3. ed.num - 1 \in Nat /\ ed.num - 1 <= ed.eol_num BY <1>1, <2>1, SMT
  <2>4. /\ ed' \in Editors /\ (ed').num = ed.num - 1 /\ (ed').eol_num = ed.eol_num
        /\ (ed').buf = ed.buf /\ (ed').col = ed.num - 1 /\ (ed').screen = ed.screen
    BY <1>1, <2>1, <2>2, <2>3 DEF Editors, SameText
  <2>5. QED BY <1>1, <2>3, <2>4 DEF InOrder
<1>6. CASE Insert
  <2>1. ed' = [ed EXCEPT !.insert = ~ed.insert] BY <1>6 DEF Insert, Edits
  <2>2. /\ ed' \in Editors /\ (ed').num = ed.num /\ (ed').eol_num = ed.eol_num
        /\ (ed').buf = ed.buf /\ (ed').col = ed.col /\ (ed').screen = ed.screen
    BY <1>1, <2>1 DEF Editors
  <2>3. QED BY <2>2 DEF InOrder
<1>7. QED BY <1>2, <1>3, <1>4, <1>5, <1>6

(* The keys that erase the line, from the cursor or from its beginning. *)
LEMMA KillKeys ==
  ASSUME InOrder(ed), KillToEol \/ EraseLine
  PROVE  InOrder(ed')
BY BeginningOrder, EraseOrder DEF KillToEol, EraseLine, Edits

(* ^D and the Delete key, which moves one byte more. *)
LEMMA DeleteKeys ==
  ASSUME InOrder(ed), DeleteHere \/ Delete
  PROVE  InOrder(ed')
<1>1. /\ ed \in Editors /\ ed.num \in Nat /\ ed.eol_num \in Nat /\ ed.num <= ed.eol_num
      /\ ed.eol_num <= Size /\ ed.col = ed.num /\ Size \in Nat \ {0}
      /\ ed.buf \in [Cells -> Cell] /\ Cells = 0 .. Size - 1
  BY OrderNumbers
<1>2. ed.num < ed.eol_num BY DEF DeleteHere, Delete
<1>3. ASSUME NEW w \in Int, w >= ed.eol_num - ed.num - 1, w <= ed.eol_num - ed.num,
             NEW d, d = [ed EXCEPT !.buf = Move(ed.buf, ed.num, ed.num + 1, w)]
      PROVE  Dropping(ed, d, ed.num)
  <2> DEFINE m == Move(ed.buf, ed.num, ed.num + 1, w)
  <2>1. ed.num + 1 \in Nat BY <1>1, SMT
  <2>2. /\ m \in [Cells -> Cell]
        /\ \A i \in Cells : m[i] =
             IF ed.num <= i /\ i < ed.num + w
             THEN IF i - ed.num + (ed.num + 1) \in Cells THEN ed.buf[i - ed.num + (ed.num + 1)] ELSE Junk
             ELSE ed.buf[i]
    <3>1. ed.buf \in [Cells -> Cell] /\ ed.num \in Nat /\ w \in Int BY <1>1, <1>3
    <3>2. QED BY <2>1, <3>1, Moved, ZenonT(30)
  <2>3. ASSUME NEW i \in Cells
        PROVE  /\ i < ed.num => ~(ed.num <= i)
               /\ i < ed.eol_num - 1 => i < ed.num + w /\ i + 1 \in Cells
               /\ i - ed.num + (ed.num + 1) = i + 1
    BY <1>1, <1>3, SMTT(30)
  <2> HIDE DEF m
  <2>4. d = [ed EXCEPT !.buf = m] BY <1>3 DEF m
  <2>5. QED BY <1>1, <2>2, <2>3, <2>4 DEF Editors, Dropping
<1> DEFINE rest == ed.eol_num - ed.num
           Moving(w) == [ed EXCEPT !.buf = Move(ed.buf, ed.num, ed.num + 1, w)]
<1>4. CASE DeleteHere
  <2> DEFINE w == ed.eol_num - ed.num - 1
  <2>1. ed' = Redrawn(Moving(w), ed.num, w, w + 1) BY <1>4 DEF DeleteHere, Edits, Redrawn
  <2>2. w \in Int /\ w >= rest - 1 /\ w <= rest /\ w + 1 = rest /\ w + 1 \in Int BY <1>1, SMT
  <2>3. Dropping(ed, Moving(w), ed.num) BY <1>3, <2>2
  <2>4. w = rest - 1 OBVIOUS
  <2> HIDE DEF Moving, w
  <2>5. QED BY <1>1, <1>2, <2>1, <2>2, <2>3, <2>4, DropOrder
<1>5. CASE Delete
  <2>1. ed' = Redrawn(Moving(rest), ed.num, rest - 1, rest) BY <1>5 DEF Delete, Edits, Redrawn
  <2>2. rest \in Int /\ rest >= rest - 1 /\ rest <= rest /\ rest - 1 \in Int BY <1>1, SMT
  <2>3. Dropping(ed, Moving(rest), ed.num) BY <1>3, <2>2
  <2>4. rest - 1 = ed.eol_num - ed.num - 1 OBVIOUS
  <2> HIDE DEF Moving
  <2>5. QED BY <1>1, <1>2, <2>1, <2>2, <2>3, <2>4, DropOrder
<1>6. QED BY <1>4, <1>5

(* Backspace deletes the character left of the cursor; what is right of it stays. *)
LEMMA BackspaceKey ==
  ASSUME InOrder(ed), Backspace
  PROVE  InOrder(ed') /\ RightOfCursor(ed') = RightOfCursor(ed)
<1>1. /\ ed \in Editors /\ ed.num \in Nat /\ ed.eol_num \in Nat /\ ed.num <= ed.eol_num
      /\ ed.eol_num <= Size /\ ed.col = ed.num /\ Size \in Nat \ {0}
      /\ ed.buf \in [Cells -> Cell] /\ Cells = 0 .. Size - 1
  BY OrderNumbers
<1> DEFINE a == ed.num - 1
           rest == ed.eol_num - ed.num
           m == Move(ed.buf, a, a + 1, rest)
           b == Back(ed, 1)
           d == [b EXCEPT !.buf = Move(b.buf, a, a + 1, rest), !.num = a]
<1>2. ed.num > 0 /\ ed' = Redrawn(d, a, rest, rest + 1)
  BY DEF Backspace, Edits, Redrawn
<1>3. a \in Nat /\ a + 1 \in Nat /\ a + 1 = ed.num /\ rest \in Int /\ a < ed.eol_num BY <1>1, <1>2, SMT
<1>4. rest = ed.eol_num - a - 1 /\ rest + 1 \in Int /\ rest + 1 = ed.eol_num - a BY <1>1, SMT
<1>5. b \in Editors /\ SameText(b, ed) /\ b.screen = ed.screen /\ b.col = ed.col - 1
  <2>1. 1 \in Int BY SMT
  <2>2. QED BY <1>1, <2>1, BackEdits
<1>6. /\ m \in [Cells -> Cell]
      /\ \A i \in Cells : m[i] = IF a <= i /\ i < a + rest
                                 THEN IF i - a + (a + 1) \in Cells THEN ed.buf[i - a + (a + 1)] ELSE Junk
                                 ELSE ed.buf[i]
  <2>1. ed.buf \in [Cells -> Cell] BY <1>1
  <2>2. QED BY <1>3, <2>1, Moved, ZenonT(30)
<1>7. ASSUME NEW i \in Cells
      PROVE  /\ i < a => ~(a <= i)
             /\ i < ed.eol_num - 1 => i < a + rest /\ i + 1 \in Cells
             /\ i - a + (a + 1) = i + 1
  <2>1. i < ed.eol_num - 1 => i + 1 \in 0 .. Size - 1 BY <1>1, SMT
  <2>2. i < ed.eol_num - 1 => i < a + rest BY <1>1, SMT
  <2>3. i - a + (a + 1) = i + 1 BY <1>1, SMT
  <2>4. i < a => ~(a <= i) BY <1>1, SMT
  <2>5. QED BY <1>1, <2>1, <2>2, <2>3, <2>4
<1>8. b.buf = ed.buf BY <1>5 DEF SameText
<1> HIDE DEF b
<1>9. d = [b EXCEPT !.buf = m, !.num = a] BY <1>8
<1> HIDE DEF m, d, rest
<1>10. ed.col - 1 = a BY <1>1
<1> HIDE DEF a
<1>11. Dropping(ed, d, a) BY <1>3, <1>5, <1>6, <1>7, <1>9, <1>10 DEF Editors, Dropping, SameText
<1>12. /\ InOrder(Redrawn(d, a, rest, rest + 1)) /\ Redrawn(d, a, rest, rest + 1).num = a
       /\ RightOfCursor(Redrawn(d, a, rest, rest + 1)) = Text(ed, a + 1, ed.eol_num - (a + 1))
  BY <1>3, <1>4, <1>11, DropOrder
<1>13. QED BY <1>2, <1>3, <1>12 DEF RightOfCursor

-----------------------------------------------------------------------------
(* Completion.  The first entry of a list of names is the one of its least  *)
(* place in the table.                                                      *)
LEMMA EntryOf ==
  ASSUME NEW list \in SUBSET Nat, list # {}
  PROVE  \E j \in list : Entry(list) = Commands[j] /\ \A k \in list : j <= k
<1>1. \E j \in list : \A k \in list : j <= k BY LeastNumber
<1>2. QED BY <1>1 DEF Entry

(* A bounded set of numbers has a greatest element. *)
LEMMA FurthestOf ==
  ASSUME NEW n \in Nat, NEW ends \in SUBSET (0 .. n), ends # {}
  PROVE  Furthest(ends) \in ends /\ \A d \in ends : d <= Furthest(ends)
<1> DEFINE Rest == {n - e : e \in ends}
<1>1. Rest \subseteq Nat /\ Rest # {}
  <2>1. ASSUME NEW e \in ends PROVE n - e \in Nat
    <3>1. e \in 0 .. n OBVIOUS
    <3>2. QED BY <3>1, SMT
  <2>2. QED BY <2>1
<1>2. PICK r \in Rest : \A q \in Rest : r <= q BY <1>1, LeastNumber
<1>3. PICK e \in ends : r = n - e BY <1>2
<1>4. ASSUME NEW d \in ends PROVE d <= e
  <2>1. n - e <= n - d BY <1>2, <1>3
  <2>2. d \in 0 .. n /\ e \in 0 .. n OBVIOUS
  <2>3. QED BY <2>1, <2>2, SMT
<1>5. \E f \in ends : \A d \in ends : d <= f BY <1>4
<1>6. QED BY <1>5 DEF Furthest

(* The places of the names that match, and what a match is. *)
LEMMA MatchingNames ==
  ASSUME NEW text \in Seq(Cell), NEW j \in Matching(text)
  PROVE  /\ j \in 1 .. Len(Commands) /\ Commands[j] \in Seq(Chars)
         /\ Len(text) <= Len(Commands[j]) /\ Len(text) \in Nat /\ Len(Commands[j]) \in Nat
<1>1. Commands \in Seq(Seq(Chars)) BY ReadlineAssumption
<1>2. j \in DOMAIN Commands /\ IsPrefix(text, Commands[j]) BY DEF Matching
<1>3. j \in 1 .. Len(Commands) BY <1>1, <1>2, LenProperties
<1>4. Commands[j] \in Seq(Chars) BY <1>1, <1>3, ElementOfSeq
<1>5. Len(text) <= Len(Commands[j]) BY <1>2 DEF IsPrefix
<1>6. QED BY <1>3, <1>4, <1>5, LenProperties

(* The end of what is taken of the first name. *)
LEMMA EndsOf ==
  ASSUME NEW first \in Seq(Chars), NEW from \in Nat, from <= Len(first), NEW list
  PROVE  LET end == Furthest(Ends(list, first, from))
         IN  /\ end \in from .. Len(first)
             /\ \A p \in from .. end - 1 : Taken(list, first, p)
             /\ \A e \in from .. Len(first) :
                  (\A p \in from .. e - 1 : Taken(list, first, p)) => e <= end
<1>1. Len(first) \in Nat BY LenProperties
<1>2. from \in Ends(list, first, from)
  <2>1. from \in from .. Len(first) /\ \A p \in from .. from - 1 : FALSE BY <1>1, SMT
  <2>2. QED BY <2>1 DEF Ends
<1>3. Ends(list, first, from) \subseteq 0 .. Len(first)
  <2>1. \A e \in from .. Len(first) : e \in 0 .. Len(first) BY <1>1, SMT
  <2>2. QED BY <2>1 DEF Ends
<1>4. /\ Furthest(Ends(list, first, from)) \in Ends(list, first, from)
      /\ \A d \in Ends(list, first, from) : d <= Furthest(Ends(list, first, from))
  BY <1>1, <1>2, <1>3, FurthestOf
<1>5. QED BY <1>4 DEF Ends

(* What Tab adds is made of characters. *)
LEMMA OutChars ==
  ASSUME NEW text \in Seq(Cell)
  PROVE  out(text) \in Seq(Chars)
<1> DEFINE list == sl(text)
<1>1. CASE list = {}
  <2>1. out(text) = <<>> BY <1>1 DEF out
  <2>2. QED BY <2>1
<1>2. CASE list # {}
  <2>1. \A j \in list : j \in Matching(text) BY DEF sl, FirstOnes
  <2>2. \A j \in list : j \in Nat BY <2>1, MatchingNames
  <2>3. PICK j \in list : Entry(list) = Commands[j] BY <1>2, <2>2, EntryOf
  <2>4. Entry(list) \in Seq(Chars) /\ Len(text) \in Nat /\ Len(text) <= Len(Entry(list)) /\ Len(Entry(list)) \in Nat
    BY <2>1, <2>3, MatchingNames
  <2> DEFINE first == Entry(list)
             end == Furthest(Ends(list, first, Len(text)))
  <2>5. end \in Len(text) .. Len(first) BY <2>4, EndsOf
  <2>6. out(text) = SubSeq(first, Len(text) + 1, end) BY <1>2 DEF out
  <2> HIDE DEF end, first, list
  <2>7. first \in Seq(Chars) BY <2>4 DEF first
  <2>8. \A i \in Len(text) + 1 .. end : i \in 1 .. Len(first) BY <2>4, <2>5, SMT DEF first
  <2>9. \A i \in Len(text) + 1 .. end : first[i] \in Chars BY <2>7, <2>8, ElementOfSeq
  <2>10. Len(text) + 1 \in Int /\ end \in Int BY <2>4, <2>5, SMT
  <2>11. SubSeq(first, Len(text) + 1, end) \in Seq(Chars) BY <2>9, <2>10, SubSeqProperties
  <2>12. QED BY <2>6, <2>11
<1>3. QED BY <1>1, <1>2

(* Tab: the line is terminated, printed again when the names were listed,   *)
(* and what is added goes in like typed characters.                         *)
LEMMA CompleteKey ==
  ASSUME InOrder(ed), Complete
  PROVE  InOrder(ed') /\ (ed.insert => RightOfCursor(ed') = RightOfCursor(ed))
<1>1. /\ ed \in Editors /\ ed.num \in Nat /\ ed.eol_num \in Nat /\ ed.num <= ed.eol_num
      /\ ed.eol_num <= Size /\ ed.col = ed.num /\ Size \in Nat \ {0}
      /\ ed.buf \in [Cells -> Cell] /\ Cells = 0 .. Size - 1
  BY OrderNumbers
<1>2. ed.eol_num \in Cells
  <2>1. ed.eol_num < Size BY DEF Complete
  <2>2. QED BY <1>1, <2>1, SMT
<1> DEFINE t == Terminated(ed, ed.eol_num)
<1>3. InOrder(t) /\ RightOfCursor(t) = RightOfCursor(ed) /\ Line(t) = Line(ed) BY <1>2, TerminatedOrder
<1>4. /\ t \in Editors /\ t.num = ed.num /\ t.eol_num = ed.eol_num /\ t.insert = ed.insert
      /\ t.buf[ed.eol_num] = Nul
  BY <1>2, TerminatedEdits
<1>5. t.num \in Nat /\ t.eol_num \in Nat /\ t.num <= t.eol_num /\ t.eol_num <= Size BY <1>1, <1>4
<1> DEFINE text == Text(ed, 0, ed.num)
           blank == [t EXCEPT !.screen = Prompt(ed.buf).screen, !.col = 0]
           put == Put(blank, Line(t))
           back == IF t.buf[ed.num] = Nul THEN 0 ELSE ed.eol_num - ed.num
           again == Back(put, back)
           shown == IF Reprints(text, tab_pressed) THEN again ELSE t
<1>6. ed' = cread_add_chars(shown, out(text)) BY DEF Complete
<1> HIDE DEF t
<1>7. out(text) \in Seq(Chars)
  <2>1. 0 \in Nat /\ 0 + ed.num <= Size BY <1>1, SMT
  <2>2. text \in Seq(Cell) BY <1>1, <2>1, TextCells
  <2>3. QED BY <2>2, OutChars
<1>8. /\ again \in Editors /\ SameText(again, t) /\ again.col = ed.num
      /\ again.screen = put.screen
      /\ \A i \in 0 .. Size : put.screen[i] = IF 0 <= i /\ i < 0 + t.eol_num THEN t.buf[0 + (i - 0)] ELSE Space
  <2>1. Prompt(ed.buf).screen = [i \in 0 .. Size |-> Space] BY DEF Prompt
  <2>2. blank \in Editors /\ SameText(blank, t) /\ blank.col = 0 /\ \A i \in 0 .. Size : blank.screen[i] = Space
    <3>1. [i \in 0 .. Size |-> Space] \in [0 .. Size -> Shown] /\ 0 \in Int BY SMT DEF Shown
    <3>2. QED BY <1>4, <2>1, <3>1 DEF Editors, SameText
  <2> HIDE DEF blank
  <2>3. Printed(put, blank, t.buf, 0, t.eol_num)
    <3>1. blank.col \in Nat /\ 0 \in Nat /\ 0 + t.eol_num <= Size BY <1>5, <2>2, SMT
    <3>2. put = Put(blank, Text(t, 0, t.eol_num)) BY DEF Line
    <3> HIDE DEF put
    <3>3. QED BY <1>4, <1>5, <2>2, <3>1, <3>2, PutText
  <2> HIDE DEF put
  <2>4. put \in Editors /\ SameText(put, blank) /\ put.col = 0 + t.eol_num BY <2>2, <2>3 DEF Printed
  <2>5. back \in Int /\ (0 + ed.eol_num) - back = ed.num
    <3>1. t.buf[ed.num] = Nul <=> ed.num = ed.eol_num
      <4>1. ASSUME ed.num # ed.eol_num PROVE t.buf[ed.num] # Nul
        <5>1. ed.num \in 0 .. t.eol_num - 1 BY <1>1, <1>4, <4>1, SMT
        <5>2. t.buf[ed.num] \in Chars BY <1>3, <5>1 DEF InOrder
        <5>3. QED BY ReadlineAssumption, <5>2
      <4>2. QED BY <1>4, <4>1
    <3>2. CASE ed.num = ed.eol_num BY <1>1, <3>1, <3>2, SMT
    <3>3. CASE ed.num # ed.eol_num
      <4>1. back = ed.eol_num - ed.num BY <3>1, <3>3
      <4>2. QED BY <1>1, <4>1, SMT
    <3>4. QED BY <3>2, <3>3
  <2> HIDE DEF back
  <2>6. again \in Editors /\ SameText(again, put) /\ again.screen = put.screen /\ again.col = put.col - back
    BY <2>4, <2>5, BackEdits
  <2> HIDE DEF again
  <2>7. again.col = ed.num BY <1>4, <2>4, <2>5, <2>6
  <2>8. SameText(again, t) BY <2>2, <2>4, <2>6 DEF SameText
  <2>9. \A i \in 0 .. Size : put.screen[i] = IF 0 <= i /\ i < 0 + t.eol_num THEN t.buf[0 + (i - 0)] ELSE Space
    BY <2>2, <2>3 DEF Printed
  <2>10. QED BY <2>6, <2>7, <2>8, <2>9
<1> HIDE DEF again, put
<1>9. InOrder(again)
  <2>1. ASSUME NEW i \in 0 .. Size PROVE again.screen[i] = IF i < t.eol_num THEN t.buf[i] ELSE Space
    <3>1. (0 <= i /\ i < 0 + t.eol_num <=> i < t.eol_num) /\ 0 + (i - 0) = i BY <1>5, SMT
    <3>2. QED BY <1>8, <3>1
  <2>2. \A i \in 0 .. t.eol_num - 1 : t.buf[i] \in Chars BY <1>3 DEF InOrder
  <2>3. QED BY <1>4, <1>5, <1>8, <2>1, <2>2 DEF InOrder, SameText
<1>10. RightOfCursor(again) = RightOfCursor(t) BY <1>8 DEF SameText, RightOfCursor, Text
<1>11. InOrder(shown) /\ shown.insert = ed.insert /\ RightOfCursor(shown) = RightOfCursor(ed)
  BY <1>3, <1>4, <1>8, <1>9, <1>10 DEF SameText
<1> HIDE DEF shown
<1>12. QED BY <1>6, <1>7, <1>11, AddChars

(* Up and Down: the recalled line replaces the typed one, in the buffer and on the screen. *)
LEMMA RecalledOrder ==
  ASSUME InOrder(ed), NEW line \in Lines \cup {Blank}, Recalled(line)
  PROVE  InOrder(ed') /\ Line(ed') = line
<1>1. Size \in Nat \ {0} /\ Cells = 0 .. Size - 1 /\ ed.buf \in [Cells -> Cell] BY OrderNumbers
<1>2. line \in Seq(Chars) /\ Len(line) \in Nat /\ Len(line) < Size /\ line \in [1 .. Len(line) -> Chars]
  <2>1. CASE line \in Lines
    <3>1. PICK n \in 1 .. Size - 1 : line \in [1 .. n -> Chars] BY ReadlineAssumption, <2>1
    <3>2. n \in Nat /\ n < Size BY <1>1, SMT
    <3>3. line \in Seq(Chars) BY <3>1, <3>2, SeqDef
    <3>4. Len(line) = n BY <3>1, <3>2, <3>3, LenProperties, SMT
    <3>5. QED BY <3>2, <3>3, <3>4, LenProperties
  <2>2. CASE line = Blank
    <3>1. line = <<>> BY ReadlineAssumption, <2>2
    <3>2. line \in Seq(Chars) /\ Len(line) = 0 BY <3>1, SMT
    <3>3. Len(line) \in Nat /\ Len(line) < Size BY <1>1, <3>2, SMT
    <3>4. QED BY <3>2, <3>3, LenProperties
  <2>3. QED BY <2>1, <2>2
<1> DEFINE begin == BeginningOfLine(ed)
           empty == EraseToEol(begin)
           cells == [i \in Cells |-> IF i < Len(line) THEN line[i + 1] ELSE IF i = Len(line) THEN Nul ELSE ed.buf[i]]
           d == [empty EXCEPT !.buf = cells, !.eol_num = Len(line)]
<1>3. ed' = RefreshToEol(d) BY DEF Recalled
<1>4. InOrder(begin) /\ begin.num = 0 BY BeginningOrder
<1> HIDE DEF begin
<1>5. InOrder(empty) /\ empty.num = 0 /\ empty.eol_num = 0 BY <1>4, EraseOrder
<1> HIDE DEF empty
<1>6. ASSUME NEW i \in 0 .. Len(line) - 1 PROVE i \in Cells /\ cells[i] = line[i + 1] /\ line[i + 1] \in Chars
  <2>1. i \in 0 .. Size - 1 /\ i < Len(line) /\ i + 1 \in 1 .. Len(line) BY <1>1, <1>2, SMT
  <2>2. line[i + 1] \in Chars BY <1>2, <2>1
  <2>3. QED BY <1>1, <2>1, <2>2
<1>7. cells \in [Cells -> Cell]
  <2>1. ASSUME NEW i \in Cells, i < Len(line) PROVE line[i + 1] \in Cell
    <3>1. i \in 0 .. Len(line) - 1 BY <1>1, <1>2, <2>1, SMT
    <3>2. QED BY <1>6, <3>1 DEF Cell
  <2>2. ASSUME NEW i \in Cells
        PROVE  (IF i < Len(line) THEN line[i + 1] ELSE IF i = Len(line) THEN Nul ELSE ed.buf[i]) \in Cell
    <3>1. ed.buf[i] \in Cell BY <1>1
    <3>2. QED BY <2>1, <3>1 DEF Cell
  <2>3. QED BY <2>2
<1> HIDE DEF cells
<1>8. /\ d \in Editors /\ d.num = 0 /\ d.eol_num = Len(line) /\ d.buf = cells /\ d.col = 0
      /\ d.screen = empty.screen
  <2>1. empty \in Editors /\ empty.col = 0 BY <1>5 DEF InOrder
  <2>2. QED BY <1>2, <1>5, <1>7, <2>1 DEF Editors
<1>9. \A i \in 0 .. Size : d.screen[i] = Space
  <2>1. \A i \in 0 .. Size : empty.screen[i] = IF i < 0 THEN empty.buf[i] ELSE Space BY <1>5 DEF InOrder
  <2>2. \A i \in 0 .. Size : ~(i < 0) BY SMT
  <2>3. QED BY <1>8, <2>1, <2>2
<1> HIDE DEF d
<1>10. /\ InOrder(RefreshToEol(d)) /\ RefreshToEol(d).eol_num = d.eol_num /\ RefreshToEol(d).buf = d.buf
  <2>1. d.num <= d.eol_num /\ d.eol_num <= Size /\ d.col = d.num BY <1>1, <1>2, <1>8, SMT
  <2>2. \A i \in 0 .. Size : (i < d.num => d.screen[i] = d.buf[i]) /\ (~(i < d.eol_num) => d.screen[i] = Space)
    <3>1. \A i \in 0 .. Size : ~(i < 0) BY SMT
    <3>2. QED BY <1>8, <1>9, <3>1
  <2>3. \A i \in 0 .. d.eol_num - 1 : d.buf[i] \in Chars BY <1>6, <1>8
  <2>4. QED BY <1>8, <2>1, <2>2, <2>3, RefreshOrder
<1>11. Line(ed') = line
  <2>1. Line(ed') = [i \in 1 .. Len(line) |-> cells[0 + i - 1]] BY <1>3, <1>8, <1>10 DEF Line, Text
  <2>2. ASSUME NEW i \in 1 .. Len(line) PROVE cells[0 + i - 1] = line[i]
    <3>1. 0 + i - 1 \in 0 .. Len(line) - 1 /\ (0 + i - 1) + 1 = i BY <1>2, SMT
    <3>2. QED BY <1>6, <3>1
  <2>3. QED BY <1>2, <2>1, <2>2
<1>12. QED BY <1>3, <1>10, <1>11

(* The line that goes to the history is one the history keeps. *)
LEMMA LineKept ==
  ASSUME InOrder(ed), ed.eol_num < Size, ed.eol_num > 0, ed.buf[0] # Bang
  PROVE  Line(ed) \in Lines
<1>1. /\ ed \in Editors /\ ed.eol_num \in Nat /\ ed.eol_num <= Size /\ Size \in Nat \ {0}
  BY OrderNumbers
<1>2. ASSUME NEW i \in 1 .. ed.eol_num PROVE ed.buf[0 + i - 1] \in Chars
  <2>1. 0 + i - 1 \in 0 .. ed.eol_num - 1 BY <1>1, SMT
  <2>2. QED BY <2>1 DEF InOrder
<1>3. Line(ed) \in [1 .. ed.eol_num -> Chars] BY <1>2 DEF Line, Text
<1>4. ed.eol_num \in 1 .. Size - 1 BY <1>1, SMT
<1>5. Line(ed)[1] = ed.buf[0]
  <2>1. 1 \in 1 .. ed.eol_num /\ 0 + 1 - 1 = 0 BY <1>1, SMT
  <2>2. QED BY <2>1 DEF Line, Text
<1>6. QED BY ReadlineAssumption, <1>3, <1>4, <1>5

-----------------------------------------------------------------------------
(* The console's inductive invariant: the editor is in order, and the ring  *)
(* of the history is one of History's with kept lines only.                 *)
Console ==
  /\ InOrder(ed)
  /\ tab_pressed \in BOOLEAN /\ spilled \in BOOLEAN
  /\ HistInv /\ OnlyKeptLines

(* The console starts in order. *)
LEMMA InitConsole ==
  ASSUME Init
  PROVE  Console
<1>1. [i \in Cells |-> Junk] \in [Cells -> Cell] BY DEF Cell
<1>2. InOrder(ed) BY <1>1, PromptOrder DEF Init
<1>3. HistInv /\ OnlyKeptLines
  <2>1. HistInit BY DEF Init
  <2>2. HistInv BY <2>1, InitInv
  <2>3. OnlyKeptLines BY <2>1 DEF HistInit, OnlyKeptLines
  <2>4. QED BY <2>2, <2>3
<1>4. QED BY <1>2, <1>3 DEF Init, Console

(* What a step of the history ring finds: the line at the slot shown is one the history keeps. *)
LEMMA ShownLine ==
  ASSUME HistInv, OnlyKeptLines, NEW i \in 0 .. hist_max
  PROVE  LineAt(i) \in Lines \cup {Blank}
BY DEF OnlyKeptLines, LineAt

(* Every key is a step of the history or leaves it alone. *)
LEMMA KeyIsHistoryStep ==
  ASSUME Console, [Next]_vars
  PROVE  [HistNext]_histVars
<1>1. CASE Enter
  <2>1. CASE ed.eol_num > 0 /\ ed.buf[0] # Bang
    <3>1. KeepLine(Line(ed)) /\ ed.eol_num < Size BY <1>1, <2>1 DEF Enter
    <3>2. Line(ed) \in Lines BY <2>1, <3>1, LineKept DEF Console
    <3>3. QED BY <3>1, <3>2 DEF HistNext
  <2>2. CASE ~(ed.eol_num > 0 /\ ed.buf[0] # Bang) BY <1>1, <2>2 DEF Enter, HistNext
  <2>3. QED BY <2>1, <2>2
<1>2. CASE Up BY <1>2 DEF Up, HistNext
<1>3. CASE Down BY <1>3 DEF Down, HistNext
<1>4. CASE \E c \in Chars : Type(c) BY <1>4 DEF Type, Edits
<1>5. CASE Home \/ End \/ Right \/ Left \/ Insert BY <1>5 DEF Home, End, Right, Left, Insert, Edits
<1>6. CASE KillToEol \/ EraseLine \/ DeleteHere \/ Delete \/ Backspace
  BY <1>6 DEF KillToEol, EraseLine, DeleteHere, Delete, Backspace, Edits
<1>7. CASE LongEscape \/ Complete \/ Overrun \/ Break BY <1>7 DEF LongEscape, Complete, Overrun, Break
<1>8. CASE UNCHANGED vars BY <1>8 DEF vars
<1>9. QED BY <1>1, <1>2, <1>3, <1>4, <1>5, <1>6, <1>7, <1>8 DEF Next

(* Every key leaves the editor in order. *)
LEMMA KeyKeepsOrder ==
  ASSUME Console, HistInv', [Next]_vars
  PROVE  InOrder(ed')
<1>1. InOrder(ed) /\ HistInv /\ OnlyKeptLines BY DEF Console
<1>2. Size \in Nat \ {0} /\ Cells = 0 .. Size - 1 /\ ed.eol_num \in Nat /\ ed.buf \in [Cells -> Cell]
  BY <1>1, OrderNumbers
<1>3. CASE Enter
  <2>1. ed.eol_num < Size /\ ed' = Prompt(Terminated(ed, ed.eol_num).buf) BY <1>3 DEF Enter
  <2>2. ed.eol_num \in Cells BY <1>2, <2>1, SMT
  <2>3. QED BY <1>1, <2>1, <2>2, TerminatedEdits, PromptOrder
<1>4. CASE Break
  <2>1. ed' = Prompt(Terminated(ed, 0).buf) BY <1>4 DEF Break
  <2>2. 0 \in Cells BY <1>2, SMT
  <2>3. QED BY <1>1, <2>1, <2>2, TerminatedEdits, PromptOrder
<1>5. CASE Up \/ Down
  <2>1. hist_max' = hist_max BY <1>5 DEF Up, Down, hist_prev, hist_next
  <2>2. hist_cur' \in 0 .. hist_max BY <2>1 DEF HistInv
  <2>3. LineAt(hist_cur') \in Lines \cup {Blank} BY <1>1, <2>2, ShownLine
  <2>4. Recalled(LineAt(hist_cur')) BY <1>5 DEF Up, Down
  <2>5. QED BY <1>1, <2>3, <2>4, RecalledOrder
<1>6. CASE \E c \in Chars : Type(c) BY <1>1, <1>6, TypeKey
<1>7. CASE Home \/ End \/ Right \/ Left \/ Insert BY <1>1, <1>7, MoveKeys
<1>8. CASE KillToEol \/ EraseLine BY <1>1, <1>8, KillKeys
<1>9. CASE DeleteHere \/ Delete BY <1>1, <1>9, DeleteKeys
<1>10. CASE Backspace BY <1>1, <1>10, BackspaceKey
<1>11. CASE Complete BY <1>1, <1>11, CompleteKey
<1>12. CASE LongEscape \/ Overrun \/ UNCHANGED vars BY <1>1, <1>12 DEF LongEscape, Overrun, vars
<1>13. QED BY <1>3, <1>4, <1>5, <1>6, <1>7, <1>8, <1>9, <1>10, <1>11, <1>12 DEF Next

(* Every key keeps the invariant. *)
LEMMA KeyKeepsConsole ==
  ASSUME Console, [Next]_vars
  PROVE  Console'
<1>1. [HistNext]_histVars BY KeyIsHistoryStep
<1>2. HistInv' /\ OnlyKeptLines' BY <1>1, StepInv, StepKept DEF Console
<1>3. InOrder(ed') BY <1>2, KeyKeepsOrder
<1>4. tab_pressed' \in BOOLEAN
  <2>1. CASE Complete
    <3>1. \A text : TabPressed(text, tab_pressed) \in BOOLEAN
      <4>1. ASSUME NEW text PROVE TabPressed(text, tab_pressed) \in BOOLEAN
        <5>1. tab_pressed \in BOOLEAN BY DEF Console
        <5>2. (out(text) = <<>>) \in BOOLEAN OBVIOUS
        <5>3. QED BY <5>1, <5>2 DEF TabPressed
      <4>2. QED BY <4>1
    <3>2. QED BY <2>1, <3>1 DEF Complete
  <2>2. CASE ~Complete
    <3>1. tab_pressed' = tab_pressed
      BY <2>2 DEF Next, vars, Type, Home, End, Right, Left, Insert, KillToEol, EraseLine, DeleteHere, Delete,
                  Backspace, LongEscape, Up, Down, Recalled, Enter, Overrun, Break, Edits
    <3>2. QED BY <3>1 DEF Console
  <2>3. QED BY <2>1, <2>2
<1>5. spilled' \in BOOLEAN
  <2>1. spilled' = spilled \/ spilled' = TRUE
    BY DEF Next, vars, Type, Home, End, Right, Left, Insert, KillToEol, EraseLine, DeleteHere, Delete,
           Backspace, LongEscape, Complete, Up, Down, Recalled, Enter, Overrun, Break, Edits
  <2>2. QED BY <2>1 DEF Console
<1>6. QED BY <1>2, <1>3, <1>4, <1>5 DEF Console

(* Whatever the user types, the invariant holds. *)
LEMMA ConsoleHolds == Spec => []Console
<1>1. Init => Console BY InitConsole
<1>2. Console /\ [Next]_vars => Console' BY KeyKeepsConsole
<1>3. QED BY <1>1, <1>2, PTL DEF Spec

-----------------------------------------------------------------------------
(* The cursor and the end of the line stay inside the buffer, its cells and *)
(* the screen's hold characters, and the counters of the history are in     *)
(* step (readline.c:184-355), for every buffer size and command table.      *)
THEOREM ConsoleTypes == Spec => []TypeOK
<1>1. ASSUME Console PROVE TypeOK
  <2>1. /\ ed \in Editors /\ ed.num \in Nat /\ ed.num <= ed.eol_num /\ ed.eol_num <= Size
    BY <1>1, OrderNumbers DEF Console
  <2>2. 0 <= ed.num BY <2>1, SMT
  <2>3. Shown = Chars \cup {Nul, Junk, Space} BY DEF Shown, Cell
  <2>4. ed.buf \in [Cells -> Chars \cup {Nul, Junk}] /\ ed.screen \in [0 .. Size -> Chars \cup {Nul, Junk, Space}]
        /\ ed.insert \in BOOLEAN
    BY <2>1, <2>3 DEF Editors, Cell
  <2>5. QED BY <1>1, <2>1, <2>2, <2>4 DEF TypeOK, Console
<1>2. QED BY <1>1, ConsoleHolds, PTL

(* The terminal shows the line with its cursor at num, after any sequence   *)
(* of keys, for every buffer size, alphabet and command table: what each    *)
(* key prints and walks back is what it changed (readline.h:46-78,          *)
(* readline.c:150-355).                                                     *)
THEOREM ConsoleScreen == Spec => []ScreenShowsLine
<1>1. Console => ScreenShowsLine BY DEF Console, InOrder, ScreenShowsLine
<1>2. QED BY <1>1, ConsoleHolds, PTL

(* No stale byte gets into the line, of whatever length the buffer is: not  *)
(* the previous line's, not a terminator, not the byte the Delete key reads *)
(* beyond the buffer (readline.c:294-305).                                  *)
THEOREM ConsoleLine == Spec => []LineWasTyped
<1>1. Console => LineWasTyped BY DEF Console, InOrder, LineWasTyped
<1>2. QED BY <1>1, ConsoleHolds, PTL

(* Typing in insert mode, completing and backspacing keep the text right of *)
(* the cursor, whatever is moved under it (readline.c:150-182, 206-228,     *)
(* 278-293).                                                                *)
THEOREM ConsoleTail == Spec => TailKept
<1> DEFINE Kept == (ed.insert /\ ((\E c \in Chars : Type(c)) \/ Complete)) \/ Backspace
                     => RightOfCursor(ed') = RightOfCursor(ed)
<1>1. Console /\ [Next]_vars => [Kept]_vars
  BY TypeKey, CompleteKey, BackspaceKey DEF Console
<1>2. QED BY <1>1, ConsoleHolds, PTL DEF Spec, TailKept

(* The line at the place browsed to is the one in the slot shown. *)
PlaceShown ==
  /\ hist_cur = hist_add_idx => pos = 0
  /\ hist_cur # hist_add_idx => pos # 0 /\ log[pos] = hist_lines[hist_cur]

(* The place browsed to and the slot shown: a line of the log but at the bottom. *)
LEMMA RingPlace == HistInv => PlaceShown
<1> SUFFICES ASSUME HistInv PROVE PlaceShown OBVIOUS
<1>1. /\ HIST_MAX \in Nat \ {0} /\ hist_add_idx \in 0 .. HIST_MAX - 1 /\ hist_max \in 0 .. HIST_MAX - 1
      /\ hist_cur \in 0 .. hist_max /\ hist_add_idx <= hist_max
      /\ hist_max < HIST_MAX - 1 => hist_add_idx = hist_max
  BY HistoryAssumption DEF HistInv, Slots
<1>2. CASE hist_cur = hist_add_idx BY <1>1, <1>2, SMT DEF pos, PlaceShown
<1>3. CASE hist_cur # hist_add_idx
  <2>1. pos \in 1 .. hist_max BY <1>1, <1>3, SMT DEF pos
  <2>2. Behind(pos) = hist_cur BY <1>1, <1>3, SMT DEF pos, Behind
  <2>3. log[pos] = hist_lines[hist_cur] BY <2>1, <2>2 DEF log, count
  <2>4. pos # 0 BY <2>1, SMT
  <2>5. QED BY <1>3, <2>3, <2>4 DEF PlaceShown
<1>4. QED BY <1>2, <1>3

(* After Up or Down the line shown is the kept line at that place of the    *)
(* promise Recall makes, or empty at its bottom, for every ring size        *)
(* (readline.c:93-134, 306-333).                                            *)
THEOREM ConsoleRecalls == Spec => ShowsRecalled
<1>1. HistInv' => PlaceShown' BY RingPlace, PTL
<1> DEFINE Shows == Up \/ Down => Line(ed') = IF pos' = 0 THEN <<>> ELSE log'[pos']
<1>2. ASSUME Console, [Next]_vars PROVE Shows
  <2>1. Console' BY <1>2, KeyKeepsConsole
  <2>2. SUFFICES ASSUME Up \/ Down PROVE Line(ed') = IF pos' = 0 THEN <<>> ELSE log'[pos']
    OBVIOUS
  <2>3. hist_max' = hist_max /\ hist_add_idx' = hist_add_idx /\ hist_lines' = hist_lines
    BY <2>2 DEF Up, Down, hist_prev, hist_next
  <2>4. hist_cur' \in 0 .. hist_max BY <2>1, <2>3 DEF Console, HistInv
  <2>5. LineAt(hist_cur') \in Lines \cup {Blank} BY <1>2, <2>4, ShownLine DEF Console
  <2>6. Recalled(LineAt(hist_cur')) /\ InOrder(ed) BY <1>2, <2>2 DEF Up, Down, Console
  <2>7. Line(ed') = LineAt(hist_cur') BY <2>5, <2>6, RecalledOrder
  <2>8. HistInv' BY <2>1 DEF Console
  <2>9. CASE hist_cur' = hist_add_idx
    <3>1. pos' = 0 BY <1>1, <2>3, <2>8, <2>9 DEF PlaceShown
    <3>2. LineAt(hist_cur') = <<>> BY ReadlineAssumption, <2>9 DEF LineAt
    <3>3. QED BY <2>7, <3>1, <3>2
  <2>10. CASE hist_cur' # hist_add_idx
    <3>1. pos' # 0 /\ log'[pos'] = hist_lines'[hist_cur'] BY <1>1, <2>3, <2>8, <2>10 DEF PlaceShown
    <3>2. LineAt(hist_cur') = hist_lines[hist_cur'] BY <2>10 DEF LineAt
    <3>3. QED BY <2>3, <2>7, <3>1, <3>2
  <2>11. QED BY <2>9, <2>10
<1>3. Console /\ [Next]_vars => [Shows]_vars BY <1>2
<1>4. QED BY <1>3, ConsoleHolds, PTL DEF Spec, ShowsRecalled

(* The console implements Recall: whatever is typed between two steps of    *)
(* the history, the last HIST_MAX - 1 kept lines are visited newest first   *)
(* (readline.c:80-134, 306-355).                                            *)
THEOREM ConsoleImplementsRecall == Spec => ImplementsRecall
<1>1. Init => Recall!Init BY DEF Init, HistInit, Recall!Init, count, log, pos
<1>2. Console /\ Console' /\ [Next]_vars => [Recall!Next]_Recall!vars
  <2>1. SUFFICES ASSUME Console, Console', [Next]_vars PROVE [Recall!Next]_Recall!vars OBVIOUS
  <2>2. [HistNext]_histVars BY <2>1, KeyIsHistoryStep
  <2>3. HistInv /\ HistInv' BY <2>1 DEF Console
  <2>4. QED BY <2>2, <2>3, StepRefines
<1>3. QED BY <1>1, <1>2, ConsoleHolds, PTL DEF Spec, ImplementsRecall, Recall!Spec

-----------------------------------------------------------------------------
(* A part of a sequence, element by element. *)
LEMMA SubSeqCells ==
  ASSUME NEW S, NEW s \in Seq(S), NEW m \in Nat, NEW n \in Nat, 1 <= m, m <= n + 1, n <= Len(s)
  PROVE  /\ SubSeq(s, m, n) \in Seq(S) /\ Len(SubSeq(s, m, n)) = n - m + 1
         /\ \A i \in 1 .. n - m + 1 : SubSeq(s, m, n)[i] = s[m + i - 1]
<1>1. Len(s) \in Nat BY LenProperties
<1>2. \A i \in m .. n : i \in 1 .. Len(s) BY <1>1, SMT
<1>3. \A i \in m .. n : s[i] \in S BY <1>2, ElementOfSeq
<1>4. m \in Int /\ n \in Int BY SMT
<1>5. /\ SubSeq(s, m, n) \in Seq(S)
      /\ Len(SubSeq(s, m, n)) = IF m <= n THEN n - m + 1 ELSE 0
      /\ \A i \in 1 .. n - m + 1 : SubSeq(s, m, n)[i] = s[m + i - 1]
  BY <1>3, <1>4, SubSeqProperties
<1>6. ~(m <= n) => n - m + 1 = 0 BY SMT
<1>7. QED BY <1>5, <1>6

(* The start of a sequence, element by element. *)
LEMMA PrefixCells ==
  ASSUME NEW S, NEW s \in Seq(S), NEW t \in Seq(S)
  PROVE  IsPrefix(s, t) <=> Len(s) <= Len(t) /\ \A i \in 1 .. Len(s) : s[i] = t[i]
<1>1. Len(s) \in Nat /\ Len(t) \in Nat BY LenProperties
<1>2. SubSeq(s, 1, Len(s)) = s BY SubSeqFull
<1>3. ASSUME Len(s) <= Len(t)
      PROVE  /\ SubSeq(t, 1, Len(s)) \in Seq(S) /\ Len(SubSeq(t, 1, Len(s))) = Len(s)
             /\ \A i \in 1 .. Len(s) : SubSeq(t, 1, Len(s))[i] = t[i]
  <2>1. 1 \in Nat /\ 1 <= 1 /\ 1 <= Len(s) + 1 /\ Len(s) - 1 + 1 = Len(s) BY <1>1, SMT
  <2>2. /\ SubSeq(t, 1, Len(s)) \in Seq(S) /\ Len(SubSeq(t, 1, Len(s))) = Len(s) - 1 + 1
        /\ \A i \in 1 .. Len(s) - 1 + 1 : SubSeq(t, 1, Len(s))[i] = t[1 + i - 1]
    BY <1>1, <1>3, <2>1, SubSeqCells
  <2>3. \A i \in 1 .. Len(s) : 1 + i - 1 = i BY SMT
  <2>4. QED BY <2>1, <2>2, <2>3
<1>4. ASSUME IsPrefix(s, t) PROVE Len(s) <= Len(t) /\ \A i \in 1 .. Len(s) : s[i] = t[i]
  <2>1. Len(s) <= Len(t) /\ s = SubSeq(t, 1, Len(s)) BY <1>2, <1>4 DEF IsPrefix
  <2>2. QED BY <1>3, <2>1
<1>5. ASSUME Len(s) <= Len(t), \A i \in 1 .. Len(s) : s[i] = t[i] PROVE IsPrefix(s, t)
  <2> DEFINE r == SubSeq(t, 1, Len(s))
  <2>1. r \in Seq(S) /\ Len(r) = Len(s) /\ \A i \in 1 .. Len(s) : r[i] = s[i] BY <1>3, <1>5
  <2>2. IsPrefix(s, t) <=> s = r BY <1>2, <1>5 DEF IsPrefix
  <2> HIDE DEF r
  <2>3. s = r BY <2>1, SeqEqual
  <2>4. QED BY <2>2, <2>3
<1>6. QED BY <1>4, <1>5

(* A list that is not full holds every match. *)
LEMMA AllListed ==
  ASSUME NEW text \in Seq(Cell), Cardinality(Matching(text)) <= HIST_DEPTH
  PROVE  sl(text) = Matching(text)
<1> DEFINE M == Matching(text)
<1>1. Len(Commands) \in Nat
  <2>1. Commands \in Seq(Seq(Chars)) BY ReadlineAssumption
  <2>2. QED BY <2>1, LenProperties
<1>2. M \subseteq 1 .. Len(Commands) BY MatchingNames
<1>3. IsFiniteSet(M)
  <2>1. IsFiniteSet(1 .. Len(Commands)) BY <1>1, FS_Interval, SMT
  <2>2. QED BY <1>2, <2>1, FS_Subset
<1> HIDE DEF M
<1>4. ASSUME NEW j \in M PROVE Cardinality({k \in M : k < j}) < HIST_DEPTH
  <2> DEFINE B == {k \in M : k < j}
  <2>1. B \subseteq M /\ B # M
    <3>1. j \in Nat BY <1>1, <1>2, SMT
    <3>2. ~(j < j) BY <3>1, SMT
    <3>3. QED BY <3>2
  <2> HIDE DEF B
  <2>2. IsFiniteSet(B) /\ Cardinality(B) <= Cardinality(M) /\ Cardinality(B) # Cardinality(M)
    BY <1>3, <2>1, FS_Subset
  <2>3. Cardinality(B) \in Nat /\ Cardinality(M) \in Nat BY <1>3, <2>2, FS_CardinalityType
  <2>4. Cardinality(M) <= HIST_DEPTH /\ HIST_DEPTH \in Nat BY CompletionAssumption DEF M, CompletionAssumption
  <2>5. Cardinality(B) < HIST_DEPTH BY <2>2, <2>3, <2>4, SMT
  <2>6. QED BY <2>5 DEF B
<1>5. QED BY <1>4 DEF sl, FirstOnes, M

(* A name has the first m characters of the first one. *)
Agree(j, first, m) == m <= Len(Commands[j]) /\ \A i \in 1 .. m : Commands[j][i] = first[i]

(* What complete takes of the first name all the matching names have, when *)
(* none of them is the beginning of another.                               *)
LEMMA TakenAgrees ==
  ASSUME NEW text \in Seq(Cell), Ordinary(text),
         NEW j0 \in Matching(text), NEW first, first = Commands[j0],
         NEW end \in Len(text) .. Len(first),
         \A p \in Len(text) .. end - 1 : Taken(Matching(text), first, p)
  PROVE  \A j \in Matching(text) : Agree(j, first, end)
<1> DEFINE M == Matching(text)
           n == Len(text)
           Bad == {m \in n .. end : \E j \in M : ~Agree(j, first, m)}
<1>1. ASSUME NEW j \in M
      PROVE  /\ Commands[j] \in Seq(Cell) /\ Len(Commands[j]) \in Nat /\ n <= Len(Commands[j])
             /\ \A i \in 1 .. n : text[i] = Commands[j][i]
  <2>1. Commands[j] \in Seq(Chars) /\ Len(Commands[j]) \in Nat /\ n <= Len(Commands[j]) BY MatchingNames
  <2>2. Seq(Chars) \subseteq Seq(Cell) BY SeqDef DEF Cell
  <2>3. IsPrefix(text, Commands[j]) BY DEF Matching
  <2>4. \A i \in 1 .. n : text[i] = Commands[j][i] BY <2>1, <2>2, <2>3, PrefixCells
  <2>5. QED BY <2>1, <2>2, <2>4
<1>2. n \in Nat /\ Len(first) \in Nat /\ n <= end /\ end <= Len(first) /\ end \in Nat
  <2>1. n \in Nat /\ Len(first) \in Nat BY <1>1, LenProperties
  <2>2. QED BY <2>1, SMT
<1> HIDE DEF M
<1>3. \A j, k \in M : IsPrefix(Commands[j], Commands[k]) => j = k BY DEF Ordinary, M
<1>4. Bad = {}
  <2>1. SUFFICES ASSUME Bad # {} PROVE FALSE OBVIOUS
  <2>2. Bad \subseteq Nat BY <1>2, SMT
  <2>3. PICK m \in Bad : \A q \in Bad : m <= q BY <2>1, <2>2, LeastNumber
  <2>4. PICK j \in M : ~Agree(j, first, m) BY <2>3
  <2>5. m \in n .. end /\ m \in Nat BY <2>2, <2>3
  <2>6. j0 \in M BY DEF M
  <2>7. CASE m = n
    <3>1. \A i \in 1 .. n : Commands[j][i] = first[i] BY <1>1, <2>6
    <3>2. QED BY <1>1, <2>4, <2>7, <3>1 DEF Agree
  <2>8. CASE m # n
    <3>1. m - 1 \in n .. end - 1 /\ m - 1 \in n .. end /\ ~(m <= m - 1) /\ m - 1 \in Nat /\ (m - 1) + 1 = m
      BY <1>2, <2>5, <2>8, SMT
    <3>2. m - 1 \notin Bad BY <2>3, <3>1
    <3>3. \A k \in M : Agree(k, first, m - 1) BY <3>1, <3>2
    <3>4. Taken(M, first, m - 1) BY <3>1 DEF M
    <3>5. ASSUME NEW k \in M PROVE ~(Len(Commands[k]) <= m - 1)
      <4>1. SUFFICES ASSUME Len(Commands[k]) <= m - 1 PROVE FALSE OBVIOUS
      <4>2. m - 1 <= Len(Commands[k]) BY <3>3 DEF Agree
      <4>3. Len(Commands[k]) = m - 1
        <5>1. Len(Commands[k]) \in Nat BY <1>1
        <5>2. QED BY <3>1, <4>1, <4>2, <5>1, SMT
      <4>4. m - 1 < Len(first) BY <3>4 DEF Taken
      <4>5. Len(Commands[k]) <= Len(first) BY <1>2, <3>1, <4>3, <4>4, SMT
      <4>6. \A i \in 1 .. Len(Commands[k]) : Commands[k][i] = first[i] BY <3>3, <4>3 DEF Agree
      <4>7. IsPrefix(Commands[k], first) BY <1>1, <2>6, <4>5, <4>6, PrefixCells
      <4>8. k = j0 BY <1>3, <2>6, <4>7
      <4>9. QED BY <1>2, <3>1, <4>1, <4>4, <4>8, SMT
    <3>6. Commands[j][m] = first[m]
      <4>1. ~\E k \in M : k < j /\ Len(Commands[k]) <= m - 1 BY <3>5
      <4>2. ~(Len(Commands[j]) > m - 1 /\ Commands[j][m] # first[m]) BY <3>1, <3>4, <4>1 DEF Taken
      <4>3. Len(Commands[j]) > m - 1
        <5>1. Len(Commands[j]) \in Nat BY <1>1
        <5>2. QED BY <3>1, <3>5, <5>1, SMT
      <4>4. QED BY <4>2, <4>3
    <3>7. Agree(j, first, m)
      <4>1. m <= Len(Commands[j])
        <5>1. Len(Commands[j]) \in Nat BY <1>1
        <5>2. QED BY <3>1, <2>5, <3>5, <5>1, SMT
      <4>2. \A i \in 1 .. m : i = m \/ i \in 1 .. m - 1 BY <2>5, SMT
      <4>3. \A i \in 1 .. m - 1 : Commands[j][i] = first[i] BY <3>3 DEF Agree
      <4>4. QED BY <3>6, <4>1, <4>2, <4>3 DEF Agree
    <3>8. QED BY <2>4, <3>7
  <2>9. QED BY <2>7, <2>8
<1>5. end \in n .. end BY <1>2, SMT
<1>6. QED BY <1>4, <1>5 DEF M

(* What Tab adds is exactly what all the matching names go on with. *)
LEMMA TabAdds ==
  ASSUME NEW text \in Seq(Cell)
  PROVE  AddsCommonPart(text)
<1> SUFFICES ASSUME Ordinary(text) PROVE Common(text) = {out(text)} BY DEF AddsCommonPart
<1> DEFINE M == Matching(text)
           n == Len(text)
<1>1. sl(text) = M BY AllListed DEF Ordinary
<1>2. CASE M = {} BY <1>1, <1>2 DEF Common, out
<1>3. CASE M # {}
  <2>1. ASSUME NEW j \in M
        PROVE  /\ j \in Nat /\ Commands[j] \in Seq(Cell) /\ Len(Commands[j]) \in Nat /\ n <= Len(Commands[j])
               /\ Commands[j] \in Seq(Chars)
    <3>1. j \in Nat /\ Commands[j] \in Seq(Chars) /\ Len(Commands[j]) \in Nat /\ n <= Len(Commands[j])
      BY MatchingNames
    <3>2. Seq(Chars) \subseteq Seq(Cell) BY SeqDef DEF Cell
    <3>3. QED BY <3>1, <3>2
  <2> DEFINE first == Entry(M)
             end == Furthest(Ends(M, first, n))
             part == SubSeq(first, 1, end)
             S == Shared(M, text)
  <2>2. PICK j0 \in M : Entry(M) = Commands[j0]
    <3>1. M \in SUBSET Nat BY <2>1
    <3>2. QED BY <1>3, <3>1, EntryOf
  <2>3. first \in Seq(Cell) /\ first \in Seq(Chars) /\ Len(first) \in Nat /\ n \in Nat /\ n <= Len(first)
    BY <2>1, <2>2, LenProperties
  <2>4. /\ end \in n .. Len(first)
        /\ \A p \in n .. end - 1 : Taken(M, first, p)
        /\ \A e \in n .. Len(first) : (\A p \in n .. e - 1 : Taken(M, first, p)) => e <= end
    BY <2>3, EndsOf
  <2>5. out(text) = SubSeq(first, n + 1, end) BY <1>1, <1>3 DEF out
  <2>6. Common(text) = {SubSeq(p, n + 1, Len(p)) : p \in Longest(S)} BY <1>3 DEF Common
  <2>7. \A j \in M : IsPrefix(text, Commands[j]) BY DEF Matching
  <2> HIDE DEF M, first, end, S
  <2>8. \A j \in M : Agree(j, first, end) BY <2>2, <2>4, TakenAgrees DEF M, first
  <2>9. end \in Nat /\ n <= end /\ end <= Len(first) BY <2>3, <2>4, SMT
  <2>10. /\ part \in Seq(Cell) /\ Len(part) = end /\ \A i \in 1 .. end : part[i] = first[i]
    <3>1. 1 \in Nat /\ 1 <= 1 /\ 1 <= end + 1 /\ end - 1 + 1 = end /\ \A i \in 1 .. end : 1 + i - 1 = i
      BY <2>9, SMT
    <3>2. /\ part \in Seq(Cell) /\ Len(part) = end - 1 + 1
          /\ \A i \in 1 .. end - 1 + 1 : part[i] = first[1 + i - 1]
      BY <2>3, <2>9, <3>1, SubSeqCells
    <3>3. QED BY <3>1, <3>2
  <2>11. part \in S
    <3>1. part \in Prefixes(Commands[j0])
      <4>1. end \in 0 .. Len(first) BY <2>3, <2>9, SMT
      <4>2. part \in Prefixes(first) BY <4>1 DEF Prefixes
      <4>3. QED BY <2>2, <4>2 DEF first
    <3>2. IsPrefix(text, part)
      <4>1. IsPrefix(text, first) BY <2>2, <2>7 DEF first
      <4>2. \A i \in 1 .. n : text[i] = first[i] BY <2>3, <4>1, PrefixCells
      <4>3. \A i \in 1 .. n : i \in 1 .. end BY <2>3, <2>9, SMT
      <4>4. \A i \in 1 .. n : text[i] = part[i] BY <2>10, <4>2, <4>3
      <4>5. n <= Len(part) BY <2>9, <2>10
      <4>6. QED BY <2>10, <4>4, <4>5, PrefixCells
    <3>3. ASSUME NEW j \in M PROVE IsPrefix(part, Commands[j])
      <4>1. Agree(j, first, end) BY <2>8
      <4>2. Len(part) <= Len(Commands[j]) /\ \A i \in 1 .. Len(part) : part[i] = Commands[j][i]
        BY <2>10, <4>1 DEF Agree
      <4>3. Commands[j] \in Seq(Cell) BY <2>1
      <4>4. QED BY <2>10, <4>2, <4>3, PrefixCells
    <3> HIDE DEF part
    <3>4. QED BY <3>1, <3>2, <3>3 DEF S, Shared
  <2>12. ASSUME NEW q \in S
         PROVE  q \in Seq(Cell) /\ Len(q) <= end /\ Len(q) \in Nat /\ \A i \in 1 .. Len(q) : q[i] = first[i]
    <3>1. PICK j \in M : q \in Prefixes(Commands[j]) BY DEF S, Shared
    <3>2. PICK l \in 0 .. Len(Commands[j]) : q = SubSeq(Commands[j], 1, l) BY <3>1 DEF Prefixes
    <3>3. q \in Seq(Cell)
      <4>1. 1 \in Nat /\ l \in Nat /\ 1 <= 1 /\ 1 <= l + 1 /\ l <= Len(Commands[j]) BY <2>1, SMT
      <4>2. Commands[j] \in Seq(Cell) BY <2>1
      <4>3. QED BY <3>2, <4>1, <4>2, SubSeqCells
    <3>4. IsPrefix(text, q) /\ \A k \in M : IsPrefix(q, Commands[k]) BY DEF S, Shared
    <3>5. n <= Len(q) /\ Len(q) \in Nat BY <3>3, <3>4, LenProperties DEF IsPrefix
    <3>6. ASSUME NEW k \in M PROVE Len(q) <= Len(Commands[k]) /\ \A i \in 1 .. Len(q) : q[i] = Commands[k][i]
      <4>1. IsPrefix(q, Commands[k]) /\ Commands[k] \in Seq(Cell) BY <2>1, <3>4
      <4>2. QED BY <3>3, <4>1, PrefixCells
    <3>7. Len(q) <= Len(first) /\ \A i \in 1 .. Len(q) : q[i] = first[i] BY <2>2, <3>6 DEF first
    <3>8. ASSUME NEW p \in n .. Len(q) - 1 PROVE Taken(M, first, p)
      <4>1. p < Len(first) /\ p + 1 \in 1 .. Len(q) BY <2>3, <3>5, <3>7, SMT
      <4>2. \A k \in M : Commands[k][p + 1] = first[p + 1] BY <3>6, <3>7, <4>1
      <4>3. QED BY <4>1, <4>2 DEF Taken
    <3>9. Len(q) \in n .. Len(first) BY <2>3, <3>5, <3>7, SMT
    <3>10. QED BY <2>4, <3>3, <3>5, <3>7, <3>8, <3>9
  <2> HIDE DEF part
  <2>13. Longest(S) = {part}
    <3>1. part \in Longest(S) BY <2>10, <2>11, <2>12 DEF Longest
    <3>2. ASSUME NEW q \in Longest(S) PROVE q = part
      <4>1. q \in S /\ Len(part) <= Len(q) BY <2>11 DEF Longest
      <4>2. Len(q) = end BY <2>9, <2>10, <2>12, <4>1, SMT
      <4>3. QED BY <2>10, <2>12, <4>1, <4>2, SeqEqual
    <3>3. QED BY <3>1, <3>2
  <2>14. SubSeq(part, n + 1, Len(part)) = SubSeq(first, n + 1, end)
    <3>1. n + 1 \in Nat /\ 1 <= n + 1 /\ n + 1 <= end + 1 /\ end <= end BY <2>3, <2>9, SMT
    <3> DEFINE a == SubSeq(part, n + 1, end)
               b == SubSeq(first, n + 1, end)
               m == end - (n + 1) + 1
    <3>2. a \in Seq(Cell) /\ Len(a) = m /\ \A i \in 1 .. m : a[i] = part[(n + 1) + i - 1]
      <4>1. end <= Len(part) BY <2>10, <3>1
      <4>2. QED BY <2>9, <2>10, <3>1, <4>1, SubSeqCells
    <3>3. b \in Seq(Cell) /\ Len(b) = m /\ \A i \in 1 .. m : b[i] = first[(n + 1) + i - 1]
      BY <2>3, <2>9, <3>1, SubSeqCells
    <3>4. \A i \in 1 .. m : (n + 1) + i - 1 \in 1 .. end BY <2>3, <2>9, SMT
    <3> HIDE DEF a, b, m
    <3>5. \A i \in 1 .. Len(a) : a[i] = b[i] BY <2>10, <3>2, <3>3, <3>4
    <3>6. a = b BY <3>2, <3>3, <3>5, SeqEqual
    <3>7. QED BY <2>10, <3>6 DEF a, b
  <2>15. QED BY <2>5, <2>6, <2>13, <2>14
<1>4. QED BY <1>2, <1>3

(* Tab adds what the matching commands have in common, for every command    *)
(* table, depth of the list and line: complete() never adds a character     *)
(* only some of the names have (complete.c:134-154).                        *)
THEOREM ConsoleCompletes == Spec => []TabAddsCommonPart
<1>1. ASSUME Console PROVE TabAddsCommonPart
  <2>1. ed \in Editors /\ ed.num \in Nat /\ 0 \in Nat /\ 0 + ed.num <= Size
    <3>1. /\ ed \in Editors /\ ed.num \in Nat /\ ed.eol_num \in Nat /\ ed.num <= ed.eol_num
          /\ ed.eol_num <= Size /\ Size \in Nat \ {0}
      BY <1>1, OrderNumbers DEF Console
    <3>2. QED BY <3>1, SMT
  <2>2. Text(ed, 0, ed.num) \in Seq(Cell) BY <2>1, TextCells
  <2>3. QED BY <2>2, TabAdds DEF TabAddsCommonPart
<1>2. QED BY <1>1, ConsoleHolds, PTL
=============================================================================
