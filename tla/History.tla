------------------------------ MODULE History -------------------------------
(***************************************************************************)
(* The history of the BIOS console, litex/my_bios/readline.c: a ring of    *)
(* HIST_MAX lines, the slot the next line goes to, the slot shown and the  *)
(* highest slot in use.  The counters are the static variables of the      *)
(* file, zero at the start: main.c no longer calls hist_init, the only     *)
(* place that makes hist_cur negative.  hist_num is counted and never      *)
(* read.                                                                   *)
(***************************************************************************)
EXTENDS Integers

CONSTANTS HIST_MAX, Lines, Blank

ASSUME HistoryAssumption == HIST_MAX \in Nat \ {0} /\ Blank \notin Lines

VARIABLES hist_lines, hist_add_idx, hist_cur, hist_max

histVars == <<hist_lines, hist_add_idx, hist_cur, hist_max>>

Slots == 0 .. HIST_MAX - 1

HistInit == /\ hist_lines = [i \in Slots |-> Blank]
            /\ hist_add_idx = 0
            /\ hist_cur = 0
            /\ hist_max = 0

(* Mutant: the wrap one slot late. *)
KeepLineLate(line) ==
  /\ hist_lines' = [hist_lines EXCEPT ![hist_add_idx] = line]
  /\ hist_add_idx' = IF hist_add_idx + 1 > HIST_MAX THEN 0 ELSE hist_add_idx + 1
  /\ hist_max' = IF hist_add_idx' > hist_max THEN hist_add_idx' ELSE hist_max
  /\ hist_cur' = hist_add_idx'

(* cread_add_to_hist and the assignment of hist_cur after it, readline.c:347-349 *)
KeepLine(line) ==
  /\ hist_lines' = [hist_lines EXCEPT ![hist_add_idx] = line]
  /\ hist_add_idx' = IF hist_add_idx + 1 >= HIST_MAX THEN 0 ELSE hist_add_idx + 1
  /\ hist_max' = IF hist_add_idx' > hist_max THEN hist_add_idx' ELSE hist_max
  /\ hist_cur' = hist_add_idx'

SkipLine == hist_cur' = hist_add_idx /\ UNCHANGED <<hist_lines, hist_add_idx, hist_max>>

(* Mutant: the ring taken to be full from the start. *)
PreviousFull == IF hist_cur - 1 < 0 THEN HIST_MAX - 1 ELSE hist_cur - 1

(* hist_prev: where it goes, whether it finds a line, and the step *)
Previous == IF hist_cur - 1 < 0 THEN hist_max ELSE hist_cur - 1
HasPrevious == Previous # hist_add_idx
hist_prev ==
  /\ HasPrevious
  /\ hist_cur' = Previous
  /\ UNCHANGED <<hist_lines, hist_add_idx, hist_max>>

(* hist_next *)
Following == IF hist_cur + 1 > hist_max THEN 0 ELSE hist_cur + 1
HasFollowing == hist_cur # hist_add_idx
hist_next ==
  /\ HasFollowing
  /\ hist_cur' = Following
  /\ UNCHANGED <<hist_lines, hist_add_idx, hist_max>>

(* Mutant: the slot being filled shown as it stands. *)
LineAtSlot(i) == hist_lines[i]

(* The line a step to slot i returns: hist_next returns "" at the slot being filled. *)
LineAt(i) == IF i = hist_add_idx THEN Blank ELSE hist_lines[i]

HistNext == \/ \E line \in Lines : KeepLine(line)
            \/ SkipLine
            \/ hist_prev
            \/ hist_next

HistSpec == HistInit /\ [][HistNext]_histVars

-----------------------------------------------------------------------------
(* Refinement: the k-th newest line is k slots behind the one being filled. *)
Behind(k) == IF hist_add_idx >= k THEN hist_add_idx - k ELSE hist_add_idx - k + HIST_MAX

count == hist_max
log == [k \in 1 .. count |-> hist_lines[Behind(k)]]
pos == IF hist_add_idx >= hist_cur THEN hist_add_idx - hist_cur
                                   ELSE hist_add_idx - hist_cur + HIST_MAX

Recall == INSTANCE Recall WITH Limit <- HIST_MAX - 1

(* The ring implements Recall: stepping up and down visits the kept lines  *)
(* newest first, whatever the wrap-around, and the oldest slot, which the   *)
(* next line will overwrite, is never shown.                                *)
ImplementsRecall == Recall!Spec

(* Before the ring wraps the slot being filled is the highest one, and the  *)
(* slot shown is always one in use.                                         *)
HistInv ==
  /\ hist_lines \in [Slots -> Lines \cup {Blank}]
  /\ hist_add_idx \in Slots
  /\ hist_max \in Slots
  /\ hist_cur \in 0 .. hist_max
  /\ hist_max < HIST_MAX - 1 => hist_add_idx = hist_max
  /\ hist_add_idx <= hist_max

(* Only kept lines are recalled, never a slot that was not written. *)
OnlyKeptLines == \A i \in 0 .. hist_max : i # hist_add_idx => hist_lines[i] \in Lines
=============================================================================
