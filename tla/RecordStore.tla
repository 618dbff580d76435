----------------------------- MODULE RecordStore -----------------------------
(***************************************************************************)
(* The write path of src/src/handler/handler.go: WriteToBuffer, called by  *)
(* any number of goroutines (Server.Send is started with "go"); one        *)
(* buffered channel DataBuffer[id] and one goroutine handleData(id) per    *)
(* record table; WriteRange, which stores a whole batch with one INSERT;   *)
(* and WriteSynt, which stores one record past the buffer.                 *)
(*                                                                         *)
(* Time is one flag per id: lapsed[id] says that 100 ms have passed since  *)
(* lastWriteTime.  A record is an element of Data; what the code tells     *)
(* apart is its id, the width of its value and whether a "%f" of the value *)
(* is a number SQL accepts (NaN and Inf are not).                          *)
(***************************************************************************)
EXTENDS Naturals, Sequences, FiniteSets, Functions

CONSTANTS
  Data,           \* the records; each is handed in by a goroutine of its own
  Ids,            \* the data ids that occur, known or not
  IdOf,           \* [Data -> Ids]
  Width,          \* [Data -> Nat]: len(data.Value)
  NonFinite,      \* the records with a NaN or an infinity in Value
  DirectWriters,  \* the records whose goroutine calls WriteSynt
  RecordTables,   \* the ids with a table "record<id>", found by Init
  DataShapes,     \* [Ids -> Nat]: data_size in the info table, 0 if absent
  BUFFLEN,        \* capacity of a channel (65536)
  BATCH,          \* records that force a write (256)
  FlakyTables     \* the ids whose well-formed INSERTs may fail too

ASSUME RecordsAssumption ==
  /\ IdOf \in [Data -> Ids]
  /\ Width \in [Data -> Nat]
  /\ NonFinite \subseteq Data
  /\ DirectWriters \subseteq Data
  /\ RecordTables \subseteq Ids
  /\ DataShapes \in [Ids -> Nat]

ASSUME BoundsAssumption == BUFFLEN \in Nat \ {0} /\ BATCH \in Nat \ {0}

ASSUME FailureAssumption == FlakyTables \subseteq RecordTables

VARIABLES
  sender,      \* where the goroutine that hands in each record is
  DataBuffer,  \* the channel of each id, oldest record first
  buffer,      \* handleData's local batch
  writer,      \* what handleData(id) is doing: its select, or a WriteRange
  lapsed,      \* 100 ms or more since handleData's lastWriteTime
  table,       \* the rows of "record<id>", in the order of insertion
  lost         \* history: accepted records that a failed write dropped

vars == <<sender, DataBuffer, buffer, writer, lapsed, table, lost>>

SenderStates ==
  {"calling", "pushing",             \* about to check, about to push
   "buffered", "stored",             \* accepted by the channel, by the table
   "unknown", "full", "failed"}      \* no such table, error returned

(* dataWrite and idleWrite: the WriteRange of select's first, second case. *)
WriterStates == {"select", "dataWrite", "idleWrite"}

Storable(d) == Width[d] = DataShapes[IdOf[d]] /\ d \notin NonFinite

(* Handler.Init makes a channel for every record table it found. *)
Channels == [id \in RecordTables |-> <<>>]

Init ==
  /\ sender = [d \in Data |-> "calling"]
  /\ DataBuffer = Channels
  /\ buffer = [id \in RecordTables |-> <<>>]
  /\ writer = [id \in RecordTables |-> "select"]
  /\ lapsed = [id \in RecordTables |-> FALSE]
  /\ table = [id \in RecordTables |-> <<>>]
  /\ lost = {}

-----------------------------------------------------------------------------
(* WriteToBuffer(id, data).  Its two checks and its push are separate steps: *)
(* len(channel) is read, and the channel is pushed to, with nothing held.    *)

Return(d, outcome) == sender' = [sender EXCEPT ![d] = outcome]

(* A nil channel: the record is dropped and nil is returned. *)
WriteUnknown(d) ==
  /\ sender[d] = "calling"
  /\ d \notin DirectWriters
  /\ IdOf[d] \notin RecordTables
  /\ Return(d, "unknown")
  /\ UNCHANGED <<DataBuffer, buffer, writer, lapsed, table, lost>>

CheckFull(d) ==
  /\ sender[d] = "calling"
  /\ d \notin DirectWriters
  /\ IdOf[d] \in RecordTables
  /\ Return(d, IF Len(DataBuffer[IdOf[d]]) >= BUFFLEN THEN "full" ELSE "pushing")
  /\ UNCHANGED <<DataBuffer, buffer, writer, lapsed, table, lost>>

(* A mutant: a push that is done again. *)
PushAgain(d) ==
  /\ sender[d] = "pushing"
  /\ Len(DataBuffer[IdOf[d]]) < BUFFLEN
  /\ DataBuffer' = [DataBuffer EXCEPT ![IdOf[d]] = Append(@, d)]
  /\ sender' \in {sender, [sender EXCEPT ![d] = "buffered"]}
  /\ UNCHANGED <<buffer, writer, lapsed, table, lost>>

(* The push blocks while the channel is full. *)
Push(d) ==
  /\ sender[d] = "pushing"
  /\ Len(DataBuffer[IdOf[d]]) < BUFFLEN
  /\ DataBuffer' = [DataBuffer EXCEPT ![IdOf[d]] = Append(@, d)]
  /\ Return(d, "buffered")
  /\ UNCHANGED <<buffer, writer, lapsed, table, lost>>

(* WriteSynt(id, data): one row, unless the id, the shape, the values or    *)
(* the database stand in the way.                                           *)
WriteSynt(d) ==
  /\ sender[d] = "calling"
  /\ d \in DirectWriters
  /\ \/ /\ IdOf[d] \in RecordTables
        /\ Storable(d)
        /\ table' = [table EXCEPT ![IdOf[d]] = Append(@, d)]
        /\ Return(d, "stored")
     \/ /\ IdOf[d] \notin RecordTables
        /\ Return(d, "unknown")
        /\ UNCHANGED table
     \/ /\ IdOf[d] \in RecordTables
        /\ ~Storable(d) \/ IdOf[d] \in FlakyTables
        /\ Return(d, "failed")
        /\ UNCHANGED table
  /\ UNCHANGED <<DataBuffer, buffer, writer, lapsed, lost>>

-----------------------------------------------------------------------------
(* handleData(id) *)

(* A mutant: the size is compared with ">". *)
MustWriteLate(id) == lapsed[id] \/ Len(buffer[id]) + 1 > BATCH

(* handler.go:604, for the batch with the record just received. *)
MustWrite(id) == lapsed[id] \/ Len(buffer[id]) + 1 >= BATCH

(* select's first case: take a record, and write the batch when 100 ms have *)
(* passed since the last write or the batch is full.  lastWriteTime becomes *)
(* the time BEFORE that write, so 100 ms may pass again during it.          *)
Receive(id) ==
  /\ writer[id] = "select"
  /\ DataBuffer[id] # <<>>
  /\ DataBuffer' = [DataBuffer EXCEPT ![id] = Tail(@)]
  /\ buffer' = [buffer EXCEPT ![id] = Append(@, Head(DataBuffer[id]))]
  /\ IF MustWrite(id)
       THEN /\ writer' = [writer EXCEPT ![id] = "dataWrite"]
            /\ lapsed' = [lapsed EXCEPT ![id] = FALSE]
       ELSE UNCHANGED <<writer, lapsed>>
  /\ UNCHANGED <<sender, table, lost>>

(* A mutant: nothing is written while nothing arrives. *)
IdleWait(id) ==
  /\ writer[id] = "select"
  /\ lapsed' = [lapsed EXCEPT ![id] = TRUE]
  /\ UNCHANGED <<sender, DataBuffer, buffer, writer, table, lost>>

(* select's second case: its timer fires after 100 ms, which are also 100   *)
(* ms without a write.  A record may arrive as it fires: of two cases that  *)
(* are ready, select takes either.                                          *)
IdleTimeout(id) ==
  /\ writer[id] = "select"
  /\ lapsed' = [lapsed EXCEPT ![id] = TRUE]
  /\ writer' = [writer EXCEPT ![id] = IF buffer[id] = <<>> THEN "select" ELSE "idleWrite"]
  /\ UNCHANGED <<sender, DataBuffer, buffer, table, lost>>

(* A mutant: the batch is not emptied after the write. *)
KeepBatch(id) == UNCHANGED buffer

(* buffer = []*Data{} after a write, whether it failed or not. *)
EmptyBatch(id) == buffer' = [buffer EXCEPT ![id] = <<>>]

(* A mutant: the rows are stored until one does not fit. *)
WriteRowByRow(id) ==
  /\ writer[id] # "select"
  /\ table' = [table EXCEPT ![id] = @ \o SelectSeq(buffer[id], Storable)]
  /\ lost' = lost \cup {d \in Range(buffer[id]) : ~Storable(d)}
  /\ EmptyBatch(id)
  /\ writer' = [writer EXCEPT ![id] = "select"]
  /\ UNCHANGED <<sender, DataBuffer, lapsed>>

(* A mutant: handleData returns the error. *)
WriteRangeOrStop(id) ==
  /\ writer[id] # "select"
  /\ lost' = lost \cup Range(buffer[id])
  /\ EmptyBatch(id)
  /\ writer' = [writer EXCEPT ![id] = "stopped"]
  /\ UNCHANGED <<sender, DataBuffer, lapsed, table>>

(* WriteRange(id, buffer): one INSERT of all rows, which the database does  *)
(* completely or not at all; one record of the wrong shape, one value that  *)
(* is not a number or a database error fails it for all.  handleData logs   *)
(* the error and goes on.                                                   *)
WriteRange(id) ==
  /\ writer[id] # "select"
  /\ \/ /\ \A d \in Range(buffer[id]) : Storable(d)
        /\ table' = [table EXCEPT ![id] = @ \o buffer[id]]
        /\ UNCHANGED lost
     \/ /\ id \in FlakyTables \/ \E d \in Range(buffer[id]) : ~Storable(d)
        /\ lost' = lost \cup Range(buffer[id])
        /\ UNCHANGED table
  /\ EmptyBatch(id)
  /\ writer' = [writer EXCEPT ![id] = "select"]
  /\ lapsed' = [lapsed EXCEPT ![id] = @ /\ writer[id] = "dataWrite"]
  /\ UNCHANGED <<sender, DataBuffer>>

(* 100 ms have passed since lastWriteTime. *)
Elapse(id) ==
  /\ ~lapsed[id]
  /\ lapsed' = [lapsed EXCEPT ![id] = TRUE]
  /\ UNCHANGED <<sender, DataBuffer, buffer, writer, table, lost>>

-----------------------------------------------------------------------------
SenderStep(d) == WriteUnknown(d) \/ CheckFull(d) \/ Push(d) \/ WriteSynt(d)

WriterStep(id) == Receive(id) \/ IdleTimeout(id) \/ WriteRange(id)

Next ==
  \/ \E d \in Data : SenderStep(d)
  \/ \E id \in RecordTables : WriterStep(id) \/ Elapse(id)

Spec == Init /\ [][Next]_vars

(* The Go scheduler runs every runnable goroutine, timers fire, and the     *)
(* database answers every INSERT.  The clock itself is under no obligation. *)
Fairness ==
  /\ \A d \in Data : WF_vars(SenderStep(d))
  /\ \A id \in RecordTables : WF_vars(WriterStep(id))

FairSpec == Spec /\ Fairness

-----------------------------------------------------------------------------
(* PROPERTIES *)

TypeOK ==
  /\ sender \in [Data -> SenderStates]
  /\ DataBuffer \in [RecordTables -> Seq(Data)]
  /\ buffer \in [RecordTables -> Seq(Data)]
  /\ writer \in [RecordTables -> WriterStates]
  /\ lapsed \in [RecordTables -> BOOLEAN]
  /\ table \in [RecordTables -> Seq(Data)]
  /\ lost \in SUBSET Data

RecordsOf(id) == {d \in Data : IdOf[d] = id}

Held(id) == Range(DataBuffer[id]) \cup Range(buffer[id]) \cup Range(table[id])

(* Channel, batch and table of an id hold records of that id, none of them  *)
(* twice ...                                                                *)
NoRepeats ==
  \A id \in RecordTables :
    /\ Held(id) \subseteq RecordsOf(id)
    /\ IsInjective(DataBuffer[id])
    /\ IsInjective(buffer[id])
    /\ IsInjective(table[id])

(* ... and no record is in two of channel, batch, table and lost.           *)
NoOverlap ==
  \A id \in RecordTables :
    /\ Range(DataBuffer[id]) \cap Range(buffer[id]) = {}
    /\ Range(DataBuffer[id]) \cap Range(table[id]) = {}
    /\ Range(buffer[id]) \cap Range(table[id]) = {}
    /\ lost \cap Held(id) = {}

(* Whoever is accepted is somewhere, and nobody else is anywhere.           *)
Conserved ==
  \A d \in Data :
    sender[d] \in {"buffered", "stored"} <=>
      d \in lost \/ (IdOf[d] \in RecordTables /\ d \in Held(IdOf[d]))

(* Nobody pushes to a nil channel, which would block for ever.              *)
NoNilPush == \A d \in Data : sender[d] = "pushing" => IdOf[d] \in RecordTables

(* No record that a caller handed over vanishes between the channel, the    *)
(* batch and the table or is stored twice, and none whose caller got an     *)
(* error or is still blocked in the push is stored: handler.go:577-624.     *)
EachRecordInOnePlace == NoRepeats /\ NoOverlap /\ Conserved /\ NoNilPush

(* handleData never lets a batch outgrow the 256 records that force a       *)
(* write, and outside a write the batch is smaller: the comparison          *)
(* handler.go:604 is evaluated after every single append.                   *)
BatchBounded ==
  \A id \in RecordTables :
    /\ Len(buffer[id]) <= BATCH
    /\ writer[id] = "select" => Len(buffer[id]) < BATCH
    /\ writer[id] # "select" => buffer[id] # <<>>

(* Where the database takes every well-formed INSERT, a record is lost only *)
(* to a malformed record of its own id, whatever happens to the INSERTs of  *)
(* other tables, and one malformed record takes at most a batch with it:    *)
(* handler.go:314-316 fails the whole batch, and no more than that.         *)
LossIsLocal ==
  \A id \in RecordTables \ FlakyTables :
    LET gone == lost \cap RecordsOf(id)
        bad == {d \in gone : ~Storable(d)}
    IN Cardinality(gone) <= BATCH * Cardinality(bad)

(* Rows are never changed or removed, and the rows one step adds are the    *)
(* whole batch or the one record of a WriteSynt: a reader of the table sees *)
(* a batch completely or not at all.                                        *)
WholeBatches ==
  [][\A id \in RecordTables :
       \/ table'[id] = table[id]
       \/ table'[id] = table[id] \o buffer[id] /\ buffer'[id] = <<>>
       \/ \E d \in DirectWriters : table'[id] = Append(table[id], d)]_vars

(* Every goroutine that hands in a record returns, also one that found room *)
(* in the channel and then blocks in the push because others took it.       *)
EveryCallReturns ==
  \A d \in Data : <>(sender[d] \notin {"calling", "pushing"})

(* The promise: RecordLog, with the batch and the channel as one queue.     *)
Log == INSTANCE RecordLog WITH
  waiting <- {d \in Data : sender[d] \in {"calling", "pushing"}},
  pending <- [id \in RecordTables |-> buffer[id] \o DataBuffer[id]],
  rows <- table

(* Channel, batch and goroutine together are the queue RecordLog promises:  *)
(* first in first out, nothing duplicated, prefixes settled atomically.     *)
ImplementsLog == Log!Spec

(* ... and whatever is pending is settled some day.                         *)
SettlesAsPromised == Log!FairSpec
=============================================================================
