-------------------------------- MODULE Filters --------------------------------
(* The items of a sequence that are in a set, in their order: the filter()       *)
(* and the comprehensions of the code.  A recursive function, so that what it    *)
(* returns can be proved (ItemsKept in SequenceFacts).                          *)
EXTENDS Naturals, Sequences

Kept(s, T) ==
  LET K[i \in 0..Len(s)] == IF i = 0 THEN <<>>
                            ELSE IF s[i] \in T THEN Append(K[i - 1], s[i]) ELSE K[i - 1]
  IN K[Len(s)]
===============================================================================
