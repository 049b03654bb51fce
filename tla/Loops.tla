-------------------------------- MODULE Loops --------------------------------
(* What the program's loops over a list compute, as functions of how far the *)
(* loop has come: each step looks at one item and at the value so far.        *)
EXTENDS Integers, Sequences

\* [x for x in s if ...]: the items at the places in I, in their order.
Picked(s, I) ==
    LET upTo[n \in 0 .. Len(s)] ==
          IF n = 0 THEN <<>> ELSE IF n \in I THEN Append(upTo[n - 1], s[n]) ELSE upTo[n - 1]
    IN  upTo[Len(s)]

\* [x for x in s if x in S].
Among(s, S) == Picked(s, {i \in DOMAIN s : s[i] \in S})

\* extend with each list of ss.
Joined(ss) ==
    LET upTo[n \in 0 .. Len(ss)] == IF n = 0 THEN <<>> ELSE upTo[n - 1] \o ss[n]
    IN  upTo[Len(ss)]

\* sum.
SumOf(s) ==
    LET upTo[n \in 0 .. Len(s)] == IF n = 0 THEN 0 ELSE upTo[n - 1] + s[n]
    IN  upTo[Len(s)]
=============================================================================
