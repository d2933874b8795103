-------------------------------- MODULE Lists --------------------------------
(***************************************************************************)
(* Lists, which the code filters and searches: of SelectSeq the provers    *)
(* know nothing, and theorems about these operators are in ListProofs.     *)
(***************************************************************************)
EXTENDS Naturals, Sequences

Members(s) == {s[i] : i \in DOMAIN s}

\* The members of s that are in K, in their order.
Kept(s, K) ==
  LET upto[n \in 0..Len(s)] ==
        IF n = 0 THEN <<>>
        ELSE IF s[n] \in K THEN Append(upto[n - 1], s[n]) ELSE upto[n - 1]
  IN  upto[Len(s)]
=============================================================================
