------------------------------- MODULE Objects -------------------------------
(***************************************************************************)
(* What the pages do to lists and objects all over: filter a list, and     *)
(* spread one object over another.                                         *)
(***************************************************************************)
EXTENDS Integers, Sequences, FiniteSets

\* The elements of s that are in S, in the order of s.
Sift(s, S) ==
    LET upTo[i \in 0..Len(s)] ==
            IF i = 0 THEN <<>> ELSE IF s[i] \in S THEN Append(upTo[i - 1], s[i]) ELSE upTo[i - 1]
    IN upTo[Len(s)]

\* The elements of s by weight, those of one weight in the order of s.
ByWeight(s, weight) ==
    LET place(i) == Cardinality({j \in DOMAIN s : weight[j] < weight[i] \/ (weight[j] = weight[i] /\ j <= i)})
    IN [k \in DOMAIN s |-> s[CHOOSE i \in DOMAIN s : place(i) = k]]

\* The second record with what the first has put over it, or with one value.
Over(top, below) == [k \in DOMAIN top \union DOMAIN below |-> IF k \in DOMAIN top THEN top[k] ELSE below[k]]
With(record, key, value) == Over([k \in {key} |-> value], record)
=============================================================================
