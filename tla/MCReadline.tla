----------------------------- MODULE MCReadline -----------------------------
(* The console with three-cell lines, three history slots and the letters a  *)
(* and b.  A line that starts with b is hidden from the history.             *)
EXTENDS Readline

MCLines == {<<"a">>, <<"a", "a">>, <<"a", "b">>}
MCBlank == <<>>
(* More names start with the empty text than HIST_DEPTH; bb hides b. *)
MCCommands == <<<<"a", "a", "b">>, <<"a", "a", "a">>, <<"a", "b", "b">>, <<"b", "b">>, <<"b">>>>
=============================================================================
