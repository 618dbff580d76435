------------------------------ MODULE RecordLog ------------------------------
(***************************************************************************)
(* What the data handler promises to the servers that call it: a record is *)
(* handed in at most once; an accepted record joins the end of its data    *)
(* id's queue; the oldest records of a queue are moved together, in the    *)
(* order they were accepted, either into the table of that id or to        *)
(* nowhere.  RecordStore shows how handler.go does it with one channel,    *)
(* one goroutine and one write batch per id.                               *)
(***************************************************************************)
EXTENDS Naturals, Sequences

CONSTANTS
  Data,          \* the records (*Data in handler.go) the callers hand in
  IdOf,          \* the data id each record belongs to
  RecordTables   \* the ids that have a table "record<id>"

VARIABLES
  waiting,       \* the records not handed in, or still in the caller's hands
  pending,       \* per id: accepted, not settled yet, oldest first
  rows           \* per id: the rows of table "record<id>", oldest first

vars == <<waiting, pending, rows>>

Init ==
  /\ waiting = Data
  /\ pending = [id \in RecordTables |-> <<>>]
  /\ rows = [id \in RecordTables |-> <<>>]

(* The caller is told that the record is in the store's hands. *)
Accept(d) ==
  /\ d \in waiting
  /\ IdOf[d] \in RecordTables
  /\ waiting' = waiting \ {d}
  /\ pending' = [pending EXCEPT ![IdOf[d]] = Append(@, d)]
  /\ UNCHANGED rows

(* The caller is told otherwise, or the record's id has no table. *)
Refuse(d) ==
  /\ d \in waiting
  /\ waiting' = waiting \ {d}
  /\ UNCHANGED <<pending, rows>>

(* A record written past the queue (WriteSynt). *)
Insert(d) ==
  /\ d \in waiting
  /\ IdOf[d] \in RecordTables
  /\ waiting' = waiting \ {d}
  /\ rows' = [rows EXCEPT ![IdOf[d]] = Append(@, d)]
  /\ UNCHANGED pending

(* The k oldest records of an id leave its queue at once ... *)
Leave(id, k) ==
  /\ pending' = [pending EXCEPT ![id] = SubSeq(@, k + 1, Len(@))]
  /\ UNCHANGED waiting

(* ... for the table, all of them, in order; *)
Commit(id, k) ==
  /\ Leave(id, k)
  /\ rows' = [rows EXCEPT ![id] = @ \o SubSeq(pending[id], 1, k)]

(* ... or all of them are given up. *)
Discard(id, k) ==
  /\ Leave(id, k)
  /\ UNCHANGED rows

Settle(id) == \E k \in 1 .. Len(pending[id]) : Commit(id, k) \/ Discard(id, k)

Next ==
  \/ \E d \in Data : Accept(d) \/ Refuse(d) \/ Insert(d)
  \/ \E id \in RecordTables : Settle(id)

Spec == Init /\ [][Next]_vars

(* Whatever is pending is settled some day. *)
FairSpec == Spec /\ \A id \in RecordTables : WF_vars(Settle(id))
=============================================================================
