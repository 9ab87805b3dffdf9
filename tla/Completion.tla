----------------------------- MODULE Completion -----------------------------
(***************************************************************************)
(* Command completion of the BIOS console, litex/my_bios/complete.c, as    *)
(* operators on the text left of the cursor.  A name is a sequence of      *)
(* characters; Commands is the linker's table of them, in its order.       *)
(***************************************************************************)
EXTENDS Integers, SequencesExt

CONSTANTS Commands, HIST_DEPTH

CompletionAssumption == HIST_DEPTH \in Nat \ {0} /\ \A i \in DOMAIN Commands : Commands[i] # <<>>
ASSUME CompletionAssumption

(* command_complete: the places in the table of the names that start with the text. *)
Matching(text) == {j \in DOMAIN Commands : IsPrefix(text, Commands[j])}

(* string_list_add: the first HIST_DEPTH of them. *)
FirstOnes(found) == {j \in found : Cardinality({k \in found : k < j}) < HIST_DEPTH}
sl(text) == FirstOnes(Matching(text))

(* list_first_entry *)
Entry(list) == Commands[CHOOSE j \in list : \A k \in list : j <= k]

(* Mutant: only the first name is looked at. *)
TakenFirst(list, first, pos) == pos < Len(first)

(* One turn of the loop of complete(): the first name's character at pos   *)
(* is taken unless a name that differs there comes before a name that has  *)
(* ended (complete.c:140-149).                                             *)
Taken(list, first, pos) ==
  /\ pos < Len(first)
  /\ \A j \in list :
       Len(Commands[j]) > pos /\ Commands[j][pos + 1] # first[pos + 1] =>
         \E k \in list : k < j /\ Len(Commands[k]) <= pos

(* out: the characters taken in a row, from the end of the text on. *)
Ends(list, first, from) ==
  {e \in from .. Len(first) : \A pos \in from .. e - 1 : Taken(list, first, pos)}
Furthest(ends) == CHOOSE e \in ends : \A d \in ends : d <= e
out(text) ==
  LET list  == sl(text)
      first == Entry(list)
  IN  IF list = {} THEN <<>>
      ELSE SubSeq(first, Len(text) + 1, Furthest(Ends(list, first, Len(text))))

(* complete: the list is printed when there is nothing to add and the key was the last one to add nothing. *)
Reprints(text, tab_pressed) ==
  Cardinality(sl(text)) > 1 /\ out(text) = <<>> /\ tab_pressed

(* tab_pressed as complete leaves it; unchanged when nothing matches. *)
TabPressed(text, tab_pressed) ==
  IF sl(text) = {} THEN tab_pressed ELSE out(text) = <<>>

-----------------------------------------------------------------------------
(* Reference: the longest text every matching command goes on with. *)
Shared(found, text) ==
  {p \in UNION {Prefixes(Commands[j]) : j \in found} :
     IsPrefix(text, p) /\ \A j \in found : IsPrefix(p, Commands[j])}
Longest(seqs) == {p \in seqs : \A q \in seqs : Len(q) <= Len(p)}
Common(text) ==
  IF Matching(text) = {} THEN {<<>>}
  ELSE {SubSeq(p, Len(text) + 1, Len(p)) : p \in Longest(Shared(Matching(text), text))}

(* The list holds every match, and no match is the beginning of another: the names of one build. *)
Ordinary(text) ==
  /\ Cardinality(Matching(text)) <= HIST_DEPTH
  /\ \A j, k \in Matching(text) : IsPrefix(Commands[j], Commands[k]) => j = k

(* What Tab adds is exactly what all matching commands have in common. *)
AddsCommonPart(text) == Ordinary(text) => Common(text) = {out(text)}
=============================================================================
