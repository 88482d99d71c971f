-------------------------------- MODULE Lists --------------------------------
(***************************************************************************)
(* What a list comprehension with a condition leaves of a list:            *)
(* [x for x in s if x in T].  A recursive function, since provers do not   *)
(* know SelectSeq.                                                         *)
(***************************************************************************)
EXTENDS Integers, Sequences

\* What is left of the first i.
Kept(s, T) ==
  LET f[i \in 0 .. Len(s)] ==
        IF i = 0 THEN <<>>
        ELSE IF s[i] \in T THEN Append(f[i - 1], s[i]) ELSE f[i - 1]
  IN f

Filtered(s, T) == Kept(s, T)[Len(s)]
=============================================================================
