---------------------------- MODULE Subsequences ----------------------------
(***************************************************************************)
(* The filter of the languages the platform is written in: what a list has *)
(* of a set, in the list's order.                                          *)
(***************************************************************************)
EXTENDS Integers, Sequences

\* SelectSeq, as a recursive function that one can prove about.
Among(s, S) ==
    LET among[n \in 0 .. Len(s)] ==
            IF n = 0 THEN <<>>
            ELSE IF s[n] \in S THEN Append(among[n - 1], s[n]) ELSE among[n - 1]
    IN  among[Len(s)]
=============================================================================
