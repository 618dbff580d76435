---- MODULE MCWebServer ----
(* Instances of WebServer: one table of two columns; records of the times   *)
(* 1, 1 and 2, and three commands: one of them cannot be sent, one is for   *)
(* an id without a table.                                                   *)
EXTENDS WebServer, Functions, TLC

CONSTANTS a1, a2, a3, c1, c2, u1,  \* records and commands of table a, a command of none
          a, u, v, w, x

IdOfRecord == Restrict(
  (a1 :> a) @@ (a2 :> a) @@ (a3 :> a) @@ (c1 :> a) @@ (c2 :> a) @@ (u1 :> u), Data)
IterOfRecord == Restrict(
  (a1 :> 1) @@ (a2 :> 1) @@ (a3 :> 2) @@ (c1 :> 0) @@ (c2 :> 0) @@ (u1 :> 0), Data)
Shapes == a :> 2

Scene(data, viewers, readers) ==
  [data |-> data, viewers |-> viewers, readers |-> readers]

OneViewer  == Scene({a1, a2, a3}, {v}, {v})
TwoViewers == Scene({a1, a3}, {v, w}, {})
ACommand   == Scene({a1, c1, c2}, {x}, {x})
Unknown    == Scene({u1}, {}, {})

EveryScene == {OneViewer, TwoViewers, ACommand, Unknown}
====
