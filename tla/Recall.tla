------------------------------- MODULE Recall -------------------------------
(***************************************************************************)
(* What the line history of the BIOS console promises: the last Limit      *)
(* lines kept, newest first, and a position in them.  Position 0 is the    *)
(* line being typed; up goes to an older line, down to a newer one.        *)
(***************************************************************************)
EXTENDS Integers

CONSTANTS Lines, Limit

VARIABLES count, log, pos

vars == <<count, log, pos>>

Init == /\ count = 0
        /\ log = [k \in 1 .. 0 |-> 0]
        /\ pos = 0

(* A line is entered and kept: it becomes the newest; beyond Limit the oldest is dropped. *)
Keep(line) ==
  /\ count' = IF count < Limit THEN count + 1 ELSE count
  /\ log' = [k \in 1 .. count' |-> IF k = 1 THEN line ELSE log[k - 1]]
  /\ pos' = 0

(* A line is entered and not kept: an empty one, or one the user hides. *)
Skip == pos' = 0 /\ UNCHANGED <<count, log>>

Older == pos < count /\ pos' = pos + 1 /\ UNCHANGED <<count, log>>

Newer == pos > 0 /\ pos' = pos - 1 /\ UNCHANGED <<count, log>>

Next == \/ \E line \in Lines : Keep(line)
        \/ Skip
        \/ Older
        \/ Newer

Spec == Init /\ [][Next]_vars
=============================================================================
