------------------------------- MODULE MCSoc -------------------------------
EXTENDS Soc
UsedRegs == {zero, ra, gp, t0, t1, a0, a1}

(* Multipliers of many lengths and weights, in every phase of the poll     *)
(* loop; divisors up to the sign bit; roots of several weights, one in the *)
(* phase that is read in time; numbers of every length.                    *)
EveryDriver ==
  [mult |-> {0, 1, 2, 5, 12, 31, 511},
   div |-> {1, 7, 32768, 65535},
   sqrt |-> {0, 169, 980, 65025},
   bin2bcd |-> {0, 10, 65535},
   bcd2bin |-> {0, 16, 629145}]   \* 0, 10, 99999

MultOnly == [mult |-> {0, 1, 3, 5}]
SqrtOnly == [sqrt |-> {1, 169}]
=============================================================================
