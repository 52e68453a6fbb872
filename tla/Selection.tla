------------------------------- MODULE Selection -------------------------------
(***************************************************************************)
(* The part of a list that is kept, in its order: what LREM, a filtering   *)
(* comprehension and a filtering loop leave of a list.  The definition is  *)
(* a recursive function, about which the provers can reason; it is         *)
(* SelectSeq with a set for its test.                                      *)
(***************************************************************************)
EXTENDS Integers, Sequences

Keep(s, S) ==
  LET kept[n \in 0..Len(s)] ==
        IF n = 0 THEN <<>>
        ELSE IF s[n] \in S THEN Append(kept[n - 1], s[n])
        ELSE kept[n - 1]
  IN  kept[Len(s)]
==============================================================================
