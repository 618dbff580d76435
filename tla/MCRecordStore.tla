---- MODULE MCRecordStore ----
(* Instances of RecordStore: two tables and an id without one; records that *)
(* fit their table, one of the wrong width (a3).                            *)
EXTENDS RecordStore, TLC

CONSTANTS a1, a2, a3, b1, b2, u1,  \* records of table a, of table b, of none
          a, b, u

Shapes == (a :> 1) @@ (b :> 2) @@ (u :> 0)
IdOfRecord == Restrict(
  (a1 :> a) @@ (a2 :> a) @@ (a3 :> a) @@ (b1 :> b) @@ (b2 :> b) @@ (u1 :> u), Data)
WidthOfRecord == Restrict(
  (a1 :> 1) @@ (a2 :> 1) @@ (a3 :> 2) @@ (b1 :> 2) @@ (b2 :> 2) @@ (u1 :> 0), Data)
====
