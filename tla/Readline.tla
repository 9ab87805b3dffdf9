------------------------------ MODULE Readline ------------------------------
(***************************************************************************)
(* The line editor of the BIOS console, litex/my_bios/readline.c and its   *)
(* macros in readline.h, called for ever by main.c, with the terminal it   *)
(* echoes to.  One action per key; a key's escape sequence arrives whole.  *)
(*                                                                         *)
(* ed holds the buffer of Size cells, the cursor num, the end of the line  *)
(* eol_num and insert, and what the terminal shows after the prompt with   *)
(* its own cursor col, moved only by what the code prints.  A write        *)
(* outside an array leaves C's defined behaviour: spilled is set, and no   *)
(* further key is modelled.                                                *)
(***************************************************************************)
EXTENDS History, Completion

CONSTANTS
  Size,        \* CMD_LINE_BUFFER_SIZE, the len of the call
  Chars,       \* printable characters
  Bang,        \* CREAD_HIST_CHAR
  Nul, Junk,   \* the terminator; a cell whose content nobody wrote
  Space        \* a blank on the screen

(* The history keeps the lines that are neither empty nor hidden and leave *)
(* room for the terminator; no name of the table holds anything else than  *)
(* characters.                                                             *)
ASSUME ReadlineAssumption ==
  /\ Size \in Nat \ {0}
  /\ Nul \notin Chars
  /\ Lines = {s \in UNION {[1 .. n -> Chars] : n \in 1 .. Size - 1} : s[1] # Bang}
  /\ Blank = <<>>
  /\ Commands \in Seq(Seq(Chars))

VARIABLES ed, tab_pressed, spilled

vars == <<ed, tab_pressed, spilled, histVars>>

Cells == 0 .. Size - 1

(* A fresh prompt: readline's locals and an empty screen line; buf is main's, as it was. *)
Prompt(buf) ==
  [buf |-> buf, num |-> 0, eol_num |-> 0, insert |-> TRUE,
   screen |-> [i \in 0 .. Size |-> Space], col |-> 0]

Init == /\ ed = Prompt([i \in Cells |-> Junk])
        /\ tab_pressed = FALSE
        /\ spilled = FALSE
        /\ HistInit

(* buf[from] .. buf[from + n - 1] *)
Text(e, from, n) == [i \in 1 .. n |-> e.buf[from + i - 1]]
Line(e) == Text(e, 0, e.eol_num)

(* putnstr and getcmd_putch of a blank; getcmd_putch(CTL_BACKSPACE) n times *)
Put(e, s) ==
  [e EXCEPT !.screen = [i \in DOMAIN @ |-> IF i \in e.col .. e.col + Len(s) - 1 THEN s[i - e.col + 1] ELSE @[i]],
            !.col = @ + Len(s)]
Back(e, n) == [e EXCEPT !.col = @ - n]
Blanks(n) == [i \in 1 .. n |-> Space]

(* memmove(&buf[to], &buf[from], n); what is read beyond the buffer is unknown *)
Move(buf, to, from, n) ==
  [i \in Cells |-> IF i \in to .. to + n - 1
                   THEN IF i - to + from \in Cells THEN buf[i - to + from] ELSE Junk
                   ELSE buf[i]]

(* cread_add_char *)
Grows(e) == e.insert \/ e.num = e.eol_num
Full(e) == Grows(e) /\ e.eol_num > Size - 1
cread_add_char(e, c) ==
  LET eol  == IF Grows(e) THEN e.eol_num + 1 ELSE e.eol_num
      wlen == IF e.insert THEN eol - e.num ELSE 1
      room == IF e.insert THEN Move(e.buf, e.num + 1, e.num, wlen - 1) ELSE e.buf
      new  == [e EXCEPT !.buf = [room EXCEPT ![e.num] = c], !.eol_num = eol]
  IN  IF Full(e) THEN e
      ELSE [Back(Put(new, Text(new, e.num, wlen)), wlen - 1) EXCEPT !.num = e.num + 1]

(* BEGINNING_OF_LINE, ERASE_TO_EOL, REFRESH_TO_EOL *)
BeginningOfLine(e) == [Back(e, e.num) EXCEPT !.num = 0]
EraseToEol(e) == LET n == e.eol_num - e.num
                 IN  [Back(Put(e, Blanks(n)), n) EXCEPT !.eol_num = e.num]
RefreshToEol(e) == [Put(e, Text(e, e.num, e.eol_num - e.num)) EXCEPT !.num = e.eol_num]

-----------------------------------------------------------------------------
Edits(new) == ed' = new /\ UNCHANGED <<tab_pressed, spilled, histVars>>

Type(c) == ~spilled /\ Edits(cread_add_char(ed, c))

Home == ~spilled /\ Edits(BeginningOfLine(ed))
End == ~spilled /\ Edits(RefreshToEol(ed))
Right == /\ ~spilled
         /\ ed.num < ed.eol_num
         /\ Edits([Put(ed, Text(ed, ed.num, 1)) EXCEPT !.num = @ + 1])
Left == ~spilled /\ ed.num > 0 /\ Edits([Back(ed, 1) EXCEPT !.num = @ - 1])
Insert == ~spilled /\ Edits([ed EXCEPT !.insert = ~@])
KillToEol == ~spilled /\ Edits(EraseToEol(ed))
EraseLine == ~spilled /\ Edits(EraseToEol(BeginningOfLine(ed)))

(* ^D: readline.c:249-263 *)
DeleteHere ==
  LET wlen == ed.eol_num - ed.num - 1
      new  == [ed EXCEPT !.buf = Move(@, ed.num, ed.num + 1, wlen)]
  IN  /\ ~spilled
      /\ ed.num < ed.eol_num
      /\ Edits([Back(Put(Put(new, Text(new, ed.num, wlen)), Blanks(1)), wlen + 1) EXCEPT !.eol_num = @ - 1])

(* Mutants: a backspace too few; eol_num left as it was. *)
DeleteBackShort ==
  LET wlen == ed.eol_num - ed.num
      new  == [ed EXCEPT !.buf = Move(@, ed.num, ed.num + 1, wlen)]
  IN  /\ ~spilled
      /\ ed.num < ed.eol_num
      /\ Edits([Back(Put(Put(new, Text(new, ed.num, wlen - 1)), Blanks(1)), wlen - 1) EXCEPT !.eol_num = @ - 1])
DeleteKeepsEnd ==
  LET wlen == ed.eol_num - ed.num
      new  == [ed EXCEPT !.buf = Move(@, ed.num, ed.num + 1, wlen)]
  IN  /\ ~spilled
      /\ ed.num < ed.eol_num
      /\ Edits(Back(Put(Put(new, Text(new, ed.num, wlen - 1)), Blanks(1)), wlen))

(* The Delete key: readline.c:294-305 *)
Delete ==
  LET wlen == ed.eol_num - ed.num
      new  == [ed EXCEPT !.buf = Move(@, ed.num, ed.num + 1, wlen)]
  IN  /\ ~spilled
      /\ ed.num < ed.eol_num
      /\ Edits([Back(Put(Put(new, Text(new, ed.num, wlen - 1)), Blanks(1)), wlen) EXCEPT !.eol_num = @ - 1])

(* Mutant: one byte too few moved. *)
BackspaceShort ==
  LET wlen == ed.eol_num - ed.num
      num  == ed.num - 1
      new  == [Back(ed, 1) EXCEPT !.buf = Move(@, num, num + 1, wlen - 1), !.num = num]
  IN  /\ ~spilled
      /\ ed.num > 0
      /\ Edits([Back(Put(Put(new, Text(new, num, wlen)), Blanks(1)), wlen + 1) EXCEPT !.eol_num = @ - 1])

(* Backspace, and also every escape sequence read_key does not know: its   *)
(* -1 is 255 as the unsigned char it is stored in, and 255 is DEL.         *)
Backspace ==
  LET wlen == ed.eol_num - ed.num
      num  == ed.num - 1
      new  == [Back(ed, 1) EXCEPT !.buf = Move(@, num, num + 1, wlen), !.num = num]
  IN  /\ ~spilled
      /\ ed.num > 0
      /\ Edits([Back(Put(Put(new, Text(new, num, wlen)), Blanks(1)), wlen + 1) EXCEPT !.eol_num = @ - 1])

(* read_key: esc[5] takes five bytes; a sequence whose fifth is '~' is     *)
(* terminated in a sixth cell.                                             *)
LongEscape == ~spilled /\ spilled' = TRUE /\ UNCHANGED <<ed, tab_pressed, histVars>>

(* cread_add_char for each character of s *)
cread_add_chars(e, s) ==
  LET after[k \in 0 .. Len(s)] == IF k = 0 THEN e ELSE cread_add_char(after[k - 1], s[k])
  IN  after[Len(s)]

(* Tab: the text left of the cursor is completed character by character *)
Terminated(e, i) == [e EXCEPT !.buf[i] = Nul]
Complete ==
  LET text  == Text(ed, 0, ed.num)
      ended == Terminated(ed, ed.eol_num)
      shown == IF Reprints(text, tab_pressed)
               THEN Back(Put([ended EXCEPT !.screen = Prompt(ed.buf).screen, !.col = 0], Line(ended)),
                         IF ended.buf[ed.num] = Nul THEN 0 ELSE ed.eol_num - ed.num)
               ELSE ended
  IN  /\ ~spilled
      /\ ed.eol_num < Size
      /\ ed' = cread_add_chars(shown, out(text))
      /\ tab_pressed' = TabPressed(text, tab_pressed)
      /\ UNCHANGED <<spilled, histVars>>

(* Up and Down: the recalled line replaces the typed one *)
Recalled(line) ==
  LET empty == EraseToEol(BeginningOfLine(ed))
      cells == [i \in Cells |-> IF i < Len(line) THEN line[i + 1] ELSE IF i = Len(line) THEN Nul ELSE ed.buf[i]]
  IN  /\ ed' = RefreshToEol([empty EXCEPT !.buf = cells, !.eol_num = Len(line)])
      /\ UNCHANGED <<tab_pressed, spilled>>
Up == ~spilled /\ hist_prev /\ Recalled(LineAt(hist_cur'))
Down == ~spilled /\ hist_next /\ Recalled(LineAt(hist_cur'))

(* Enter: the line is terminated, kept unless empty or hidden, and main prompts again *)
Enter ==
  /\ ~spilled
  /\ ed.eol_num < Size
  /\ ed' = Prompt(Terminated(ed, ed.eol_num).buf)
  /\ IF ed.eol_num > 0 /\ ed.buf[0] # Bang THEN KeepLine(Line(ed)) ELSE SkipLine
  /\ UNCHANGED <<tab_pressed, spilled>>

(* The terminator of a line that fills the buffer goes one cell beyond it *)
Overrun == ~spilled /\ ed.eol_num = Size /\ spilled' = TRUE /\ UNCHANGED <<ed, tab_pressed, histVars>>

(* ^C: the line is discarded; the place in the history stays *)
Break == /\ ~spilled
         /\ ed' = Prompt(Terminated(ed, 0).buf)
         /\ UNCHANGED <<tab_pressed, spilled, histVars>>

Next == \/ \E c \in Chars : Type(c)
        \/ Home \/ End \/ Right \/ Left \/ Insert \/ KillToEol \/ EraseLine
        \/ DeleteHere \/ Delete \/ Backspace \/ LongEscape
        \/ Complete \/ Up \/ Down \/ Enter \/ Overrun \/ Break

Spec == Init /\ [][Next]_vars

-----------------------------------------------------------------------------
TypeOK ==
  /\ ed.buf \in [Cells -> Chars \cup {Nul, Junk}]
  /\ 0 <= ed.num /\ ed.num <= ed.eol_num /\ ed.eol_num <= Size
  /\ ed.screen \in [0 .. Size -> Chars \cup {Nul, Junk, Space}]
  /\ {ed.insert, tab_pressed, spilled} \subseteq BOOLEAN
  /\ HistInv

(* The terminal shows the line and nothing else, with its cursor at num,   *)
(* after any sequence of keys: the code never redraws a line, it prints    *)
(* only what changed and walks back, so one backspace too few is never     *)
(* repaired.                                                               *)
ScreenShowsLine ==
  /\ ed.col = ed.num
  /\ \A i \in 0 .. Size : ed.screen[i] = IF i < ed.eol_num THEN ed.buf[i] ELSE Space

(* No stale byte gets into the line: not the previous line's, not the      *)
(* terminators Tab and Enter leave, not the byte the Delete key reads      *)
(* beyond the buffer.                                                      *)
LineWasTyped == \A i \in 0 .. ed.eol_num - 1 : ed.buf[i] \in Chars

(* Typing in insert mode, completing and backspacing keep the text right   *)
(* of the cursor, however the buffer is moved under it.                    *)
RightOfCursor(e) == Text(e, e.num, e.eol_num - e.num)
TailKept == [][(ed.insert /\ ((\E c \in Chars : Type(c)) \/ Complete)) \/ Backspace => RightOfCursor(ed') = RightOfCursor(ed)]_vars

(* After Up or Down the line is the kept line at that place of Recall, or  *)
(* empty at its bottom.                                                    *)
ShowsRecalled ==
  [][Up \/ Down => Line(ed') = IF pos' = 0 THEN <<>> ELSE log'[pos']]_vars

(* Tab adds what the matching commands have in common, when the list of    *)
(* matches holds them all.                                                 *)
TabAddsCommonPart == AddsCommonPart(Text(ed, 0, ed.num))
=============================================================================
