-------------------------------- MODULE Places --------------------------------
(***************************************************************************)
(* What is left of a sequence when some of its places are kept.  It says    *)
(* what SelectSeq says, by places: a proof can speak of the place an        *)
(* element came from.                                                       *)
(***************************************************************************)
EXTENDS Naturals, Sequences, FiniteSets

(* The elements of s at the places to keep, in order.                        *)
Where(s, keep) ==
  LET upto[i \in 0..Len(s)] ==
        IF i = 0 THEN <<>>
        ELSE IF i \in keep THEN Append(upto[i - 1], s[i]) ELSE upto[i - 1]
  IN  upto[Len(s)]
=============================================================================
