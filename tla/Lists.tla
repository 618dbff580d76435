------------------------------- MODULE Lists -------------------------------
EXTENDS Integers, Sequences

(* The entries of q at the positions K, in their order.                      *)
Kept(q, K) ==
  LET kept[i \in 0 .. Len(q)] ==
        IF i = 0 THEN <<>> ELSE IF i \in K THEN Append(kept[i - 1], q[i]) ELSE kept[i - 1]
  IN kept[Len(q)]
=============================================================================
