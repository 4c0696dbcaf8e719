------------------------------- MODULE Lists -------------------------------
(***************************************************************************)
(* Lists as sequences: the doubly linked lists of linqd (utils/list.h),    *)
(* the head first, and the packets that a handler delivers one by one.     *)
(***************************************************************************)
EXTENDS Integers, FiniteSets, Sequences

\* The list s after ListHead::remove of each item that is in T.
Without(s, T) ==
  LET left == {i \in DOMAIN s : s[i] \notin T}
      Before(i) == {k \in left : k < i}
  IN [j \in 1 .. Cardinality(left) |->
        s[CHOOSE i \in left : Cardinality(Before(i)) = j - 1]]

\* The packets of "out" that belong to S, in their order.
Among(out, S) ==
  LET pick[k \in 0 .. Len(out)] ==
        IF k = 0 THEN <<>>
        ELSE IF out[k] \in S THEN Append(pick[k - 1], out[k]) ELSE pick[k - 1]
  IN pick[Len(out)]
=============================================================================
