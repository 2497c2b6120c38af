------------------------------- MODULE SeqOps --------------------------------
(* Sums and parts of sequences. *)
EXTENDS Integers, SequencesExt

SumSeq(s) == FoldLeft(LAMBDA x, y : x + y, 0, s)

\* The elements of s that are in S, in the order of s.
InOrder(s, S) ==
  LET upTo[i \in 0 .. Len(s)] ==
        IF i = 0 THEN <<>>
        ELSE IF s[i] \in S THEN Append(upTo[i - 1], s[i]) ELSE upTo[i - 1]
  IN  upTo[Len(s)]
=============================================================================
