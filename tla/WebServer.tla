------------------------------ MODULE WebServer ------------------------------
(***************************************************************************)
(* src/server/web.go over the tables RecordLog promises: a web socket's    *)
(* handler and its Subscribe goroutine per table, which polls the table    *)
(* and writes to the one channel all handlers read; HistoryProcess; and    *)
(* CommandProcess, whose records join the tables with time 0.              *)
(*                                                                         *)
(* A viewer is one socket; a client that connects again is another viewer. *)
(***************************************************************************)
EXTENDS Naturals, Sequences, SequencesExt, FiniteSets, FiniteSetsExt, Lists

CONSTANTS
  Data,              \* the records, those of commands among them
  IdOf,              \* [Data -> ids]
  IterOf,            \* [Data -> Nat]: Iter, the simulink time
  Commands,          \* the records CommandProcess makes
  RecordTables,      \* the ids with a table "record<id>"
  DataShapes,        \* [RecordTables -> Nat]: columns of each table
  Viewers,           \* the sockets clients may open
  Scenes,            \* bound: the records, viewers and readers of history
                     \* that occur together in one behaviour
  Reachable,         \* the commands whose destination sendPkt can reach
  Unlucky,           \* the viewers whose queries may fail, once per goroutine
  OUTPUT_BUFFER_LEN  \* capacity of bufferOutput (65536)

ASSUME RecordsAssumption ==
  /\ IterOf \in [Data -> Nat]
  /\ Reachable \subseteq Commands /\ Commands \subseteq Data
  /\ \A d \in Commands : IterOf[d] = 0
  /\ Unlucky \subseteq Viewers
  /\ DataShapes \in [RecordTables -> Nat]

ASSUME BoundAssumption ==
  /\ OUTPUT_BUFFER_LEN \in Nat \ {0}
  /\ Scenes \subseteq [data : SUBSET Data, viewers : SUBSET Viewers, readers : SUBSET Viewers]

VARIABLES
  waiting, pending, rows,  \* the data handler: see RecordLog
  socket,                  \* per viewer: the handler of its socket
  subscription,            \* per viewer and id: its Subscribe goroutine
  bufferOutput,            \* the cells the handlers have not taken, oldest first
  page,                    \* per viewer and id: its call of HistoryProcess
  command,                 \* per command: its call of CommandProcess
  shown,                   \* history: the cells a viewer was sent while alone
  failed                   \* history: whose queries failed

store == <<waiting, pending, rows>>
calls == <<page, command>>
vars == <<waiting, pending, rows, socket, subscription, bufferOutput, page,
          command, shown, failed>>

Log == INSTANCE RecordLog

(* A goroutine whose cursors are at t. *)
Goroutine(at, t) == [at |-> at, start |-> t, lastTime |-> t, currentTime |-> 0, todo |-> <<>>]
Idle == Goroutine("off", 0)
NoPage(at) == [at |-> at, end |-> 0, live |-> FALSE, found |-> {}]

Init ==
  /\ pending = [id \in RecordTables |-> <<>>]
  /\ rows = [id \in RecordTables |-> <<>>]
  /\ \E scene \in Scenes :
       /\ waiting = scene.data
       /\ socket = [v \in Viewers |-> IF v \in scene.viewers THEN "absent" ELSE "never"]
       /\ page = [v \in Viewers |-> [id \in RecordTables |->
            NoPage(IF v \in scene.readers THEN "none" ELSE "never")]]
  /\ subscription = [v \in Viewers |-> [id \in RecordTables |-> Idle]]
  /\ bufferOutput = <<>>
  /\ command = [d \in Commands |-> "none"]
  /\ shown = [v \in Viewers |-> <<>>]
  /\ failed = {}

-----------------------------------------------------------------------------
(* The data handler *)

(* The callers of the handler other than CommandProcess, and its writers; a *)
(* record that is refused leaves no trace here.                             *)
Store ==
  /\ \/ \E d \in Data \ Commands : Log!Accept(d) \/ Log!Insert(d)
     \/ \E id \in RecordTables : Log!Settle(id)
  /\ UNCHANGED <<socket, subscription, bufferOutput, calls, shown, failed>>

(* A query that goroutine g makes for a viewer fails; a goroutine meets one *)
(* failure at most, which bounds the replays.                               *)
Fails(g) == g[1] \in Unlucky /\ g \notin failed /\ failed' = failed \cup {g}
Succeeds == UNCHANGED failed

(* QueryLastSynt: 0 also for an empty table and for a query that failed. *)
LastSynt(id) == Max({0} \cup {IterOf[d] : d \in ToSet(rows[id])})

(* ReadRange: no ORDER BY, the rows come as they were inserted. *)
RowsBetween(id, start, end) ==
  Kept(rows[id], {i \in DOMAIN rows[id] : start <= IterOf[rows[id][i]] /\ IterOf[rows[id][i]] < end})

-----------------------------------------------------------------------------
(* RealtimeProcess *)

(* Upgrade, then a goroutine per table. *)
Connect(v) ==
  /\ socket[v] = "absent"
  /\ socket' = [socket EXCEPT ![v] = "open"]
  /\ subscription' = [subscription EXCEPT ![v] = [id \in RecordTables |-> Goroutine("start", 0)]]
  /\ UNCHANGED <<store, bufferOutput, calls, shown, failed>>

(* The connection ends: from now on every WriteJSON fails, and the          *)
(* receiving goroutine offers closeSig until the handler takes it; after    *)
(* that it offers it for ever to nobody.                                    *)
Leave(v) ==
  /\ socket[v] = "open"
  /\ socket' = [socket EXCEPT ![v] = "left"]
  /\ UNCHANGED <<store, subscription, bufferOutput, calls, shown, failed>>

(* v is connected, and nobody else has been. *)
Alone(v) ==
  /\ socket[v] = "open"
  /\ \A u \in Viewers \ {v} : socket[u] \in {"never", "absent"}

(* select, case data: whose subscription it came from does not matter; an   *)
(* item that cannot be written is gone.                                     *)
Send(v) ==
  /\ socket[v] \in {"open", "left"}
  /\ bufferOutput # <<>>
  /\ bufferOutput' = Tail(bufferOutput)
  /\ shown' = IF Alone(v) THEN [shown EXCEPT ![v] = Append(@, Head(bufferOutput))]
              ELSE shown
  /\ UNCHANGED <<store, socket, subscription, calls, failed>>

(* select, case closeSig: SubscribeCloseSig is set, the handler returns. *)
Close(v) ==
  /\ socket[v] = "left"
  /\ socket' = [socket EXCEPT ![v] = "returned"]
  /\ UNCHANGED <<store, subscription, bufferOutput, calls, shown, failed>>

-----------------------------------------------------------------------------
(* Subscribe(id) for viewer v *)

Polls(v, id, sub) ==
  /\ subscription' = [subscription EXCEPT ![v][id] = sub]
  /\ UNCHANGED <<store, socket, calls, shown>>

(* QueryLastSynt as goroutine g meets it. *)
Queried(g, id, t) ==
  \/ t = LastSynt(id) /\ Succeeds
  \/ t = 0 /\ Fails(g)

(* A mutant: the newest row is taken for history. *)
StartAfterLast(v, id) ==
  /\ subscription[v][id].at = "start"
  /\ \E t \in {0, LastSynt(id)} :
       /\ Queried(<<v, id, "live">>, id, t)
       /\ Polls(v, id, Goroutine("poll", t + 1))
  /\ UNCHANGED bufferOutput

(* The first cursor, taken once the goroutine runs. *)
StartCursor(v, id) ==
  /\ subscription[v][id].at = "start"
  /\ \E t \in {0, LastSynt(id)} :
       /\ Queried(<<v, id, "live">>, id, t)
       /\ Polls(v, id, Goroutine("poll", t))
  /\ UNCHANGED bufferOutput

(* A mutant: the signal is not looked at in the loop. *)
PollOn(v, id) ==
  /\ subscription[v][id].at = "poll"
  /\ \E t \in {0, LastSynt(id)} :
       /\ Queried(<<v, id, "live">>, id, t)
       /\ Polls(v, id, [subscription[v][id] EXCEPT !.at = "read", !.currentTime = t])
  /\ UNCHANGED bufferOutput

(* The top of the loop: the signal, then currentTime. *)
Poll(v, id) ==
  /\ subscription[v][id].at = "poll"
  /\ \/ /\ socket[v] = "returned"
        /\ Polls(v, id, [subscription[v][id] EXCEPT !.at = "ended"])
        /\ Succeeds
     \/ /\ socket[v] # "returned"
        /\ \E t \in {0, LastSynt(id)} :
             /\ Queried(<<v, id, "live">>, id, t)
             /\ Polls(v, id, [subscription[v][id] EXCEPT !.at = "read", !.currentTime = t])
  /\ UNCHANGED bufferOutput

(* One cell per column of a row: VisualData. *)
CellsOf(d) == [c \in 1 .. DataShapes[IdOf[d]] |-> [row |-> d, col |-> c]]
Cells(found) == FlattenSeq([i \in DOMAIN found |-> CellsOf(found[i])])

(* The goroutine has a next cell to write, or sleeps for a period. *)
Continue(sub) == [sub EXCEPT !.at = IF sub.todo = <<>> THEN "poll" ELSE "write"]

(* A mutant: the cursor is queried again when the rows have been read. *)
ReadThenQuery(v, id) ==
  LET sub == subscription[v][id]
  IN /\ sub.at = "read"
     /\ Polls(v, id, Continue([sub EXCEPT
          !.todo = Cells(RowsBetween(id, sub.lastTime, sub.currentTime)),
          !.lastTime = LastSynt(id)]))
     /\ Succeeds
     /\ UNCHANGED bufferOutput

(* ReadRange(id, lastTime, currentTime); nothing reads lastTime before the  *)
(* cells are written, so it is set here. An error ends the goroutine.       *)
ReadRange(v, id) ==
  LET sub == subscription[v][id]
  IN /\ sub.at = "read"
     /\ \/ /\ Polls(v, id, Continue([sub EXCEPT
                !.todo = Cells(RowsBetween(id, sub.lastTime, sub.currentTime)),
                !.lastTime = sub.currentTime]))
           /\ Succeeds
        \/ /\ Polls(v, id, [sub EXCEPT !.at = "ended"])
           /\ Fails(<<v, id, "live">>)
     /\ UNCHANGED bufferOutput

(* writeBufferOutput: blocks while the channel is full. *)
WriteCell(v, id) ==
  LET sub == subscription[v][id]
  IN /\ sub.at = "write"
     /\ Len(bufferOutput) < OUTPUT_BUFFER_LEN
     /\ bufferOutput' = Append(bufferOutput, Head(sub.todo))
     /\ Polls(v, id, Continue([sub EXCEPT !.todo = Tail(@)]))
     /\ Succeeds

Subscribe(v, id) ==
  StartCursor(v, id) \/ Poll(v, id) \/ ReadRange(v, id) \/ WriteCell(v, id)

-----------------------------------------------------------------------------
(* HistoryProcess, once per viewer and id *)

HistoryEnd(v, id) ==
  /\ page[v][id].at = "none"
  /\ \E t \in {0, LastSynt(id)} :
       /\ Queried(<<v, id, "history">>, id, t)
       /\ page' = [page EXCEPT ![v][id] = [at |-> "asked", end |-> t, found |-> {},
            live |-> subscription[v][id].at \notin {"off", "start"}]]
  /\ UNCHANGED <<store, socket, subscription, bufferOutput, command, shown>>

HistoryRange(v, id) ==
  /\ page[v][id].at = "asked"
  /\ \/ /\ page' = [page EXCEPT ![v][id] = [@ EXCEPT
            !.at = "answered", !.found = ToSet(RowsBetween(id, 0, page[v][id].end))]]
        /\ Succeeds
     \/ /\ page' = [page EXCEPT ![v][id] = [@ EXCEPT !.at = "failed"]]
        /\ Fails(<<v, id, "history">>)
  /\ UNCHANGED <<store, socket, subscription, bufferOutput, command, shown>>

-----------------------------------------------------------------------------
(* CommandProcess *)

(* sendPkt to the destination; without it the record is never made. *)
Forward(d) ==
  /\ command[d] = "none" /\ d \in waiting
  /\ command' = [command EXCEPT ![d] = IF d \in Reachable THEN "sent" ELSE "failed"]
  /\ UNCHANGED <<store, socket, subscription, bufferOutput, page, shown, failed>>

(* Server.Send: WriteToBuffer refuses when the channel is full, and takes   *)
(* no notice of an id without a table.                                      *)
Keep(d) ==
  /\ command[d] = "sent"
  /\ \/ Log!Accept(d) /\ command' = [command EXCEPT ![d] = "done"]
     \/ Log!Refuse(d) /\ command' = [command EXCEPT ![d] = IF IdOf[d] \in RecordTables THEN "failed" ELSE "done"]
  /\ UNCHANGED <<socket, subscription, bufferOutput, page, shown, failed>>

-----------------------------------------------------------------------------
Next ==
  \/ Store
  \/ \E v \in Viewers : Connect(v) \/ Leave(v) \/ Send(v) \/ Close(v)
  \/ \E v \in Viewers, id \in RecordTables :
       Subscribe(v, id) \/ HistoryEnd(v, id) \/ HistoryRange(v, id)
  \/ \E d \in Commands : Forward(d) \/ Keep(d)

Spec == Init /\ [][Next]_vars

(* The goroutines run, the handler's select takes each ready case some      *)
(* time (Go chooses at random), and a blocked writer gets its turn (a       *)
(* channel serves its waiters in order). Nothing makes a client connect,    *)
(* leave or ask, or a record come.                                          *)
FairSpec ==
  /\ Spec
  /\ \A v \in Viewers : WF_vars(Send(v)) /\ WF_vars(Close(v))
  /\ \A v \in Viewers, id \in RecordTables :
       /\ WF_vars(StartCursor(v, id) \/ Poll(v, id) \/ ReadRange(v, id))
       /\ SF_vars(WriteCell(v, id))

-----------------------------------------------------------------------------
(* Properties *)

(* The rows of a table were inserted in the order of their times.           *)
InOrder(id) ==
  \A i, j \in DOMAIN rows[id] : i < j => IterOf[rows[id][i]] <= IterOf[rows[id][j]]

Started(v, id) == subscription[v][id].at \notin {"off", "start"}

(* What v has, or is on the way to it, of a table.                          *)
Stream(v, id) ==
  LET out == shown[v] \o bufferOutput
  IN Kept(out, {i \in DOMAIN out : IdOf[out[i].row] = id}) \o subscription[v][id].todo

(* web.go:153-174: a single viewer of a table whose rows come in order gets *)
(* each row from its first cursor up to the last one exactly once, in       *)
(* order, all columns, however the polls fall between the writes: the       *)
(* exclusive end holds back the newest time, so that rows of that time      *)
(* which come later are not missed.                                         *)
LiveViewIsExact ==
  \A v \in Viewers, id \in RecordTables :
    Alone(v) /\ Started(v, id) /\ InOrder(id) /\ <<v, id, "live">> \notin failed =>
      LET sub == subscription[v][id]
      IN Stream(v, id) = Cells(RowsBetween(id, sub.start, sub.lastTime))

(* web.go:153, 214: a page that asks for the history of a table once the    *)
(* subscription has taken its first cursor misses no row before the last    *)
(* cursor: history and live view meet.                                      *)
PageHasAll ==
  \A v \in Viewers, id \in RecordTables :
    LET view == page[v][id]
        live == {cell.row : cell \in ToSet(Stream(v, id))}
    IN /\ Alone(v) /\ InOrder(id) /\ view.at = "answered" /\ view.live
       /\ {<<v, id, "live">>, <<v, id, "history">>} \cap failed = {}
       => \A d \in ToSet(rows[id]) :
            IterOf[d] < Max({view.end, subscription[v][id].lastTime})
              => d \in view.found \cup live

(* web.go:149: "No history data for Visualization in the real time part".   *)
(* A query of the last time that fails resets the cursor to 0: the next     *)
(* poll sends the whole table (configuration WebReplay.cfg).                *)
NoHistoryInLiveView ==
  \A v \in Viewers, id \in RecordTables : \A cell \in ToSet(Stream(v, id)) :
    Alone(v) /\ Started(v, id) => IterOf[cell.row] >= subscription[v][id].start

Ended(v) == \A id \in RecordTables : subscription[v][id].at = "ended"

(* Every handler has returned and somebody waits to write to a full channel.*)
Stuck ==
  /\ Len(bufferOutput) = OUTPUT_BUFFER_LEN
  /\ \A v \in Viewers : socket[v] \in {"never", "absent", "returned"}

(* web.go:116-132, 155: when a client leaves, all its goroutines end -      *)
(* unless the channel is full and no client ever comes again: then they     *)
(* hold its cells for ever.                                                 *)
LeaversEnd ==
  (\A v \in Viewers : socket[v] = "left" ~> Ended(v)) \/ <>[]Stuck
=============================================================================
