------------------------------ MODULE UdpServer ------------------------------
(***************************************************************************)
(* The UDP side of src/src/server/server.go: the producers that fill       *)
(* server.Buffer, the consumers that run handlePkt, the goroutines it      *)
(* starts, the subscriber register and the sequence counter.  The data     *)
(* handler behind Send and the reads is the queue and the tables that      *)
(* RecordLog promises.                                                     *)
(*                                                                         *)
(* A call is one execution of handlePkt for one copy of a packet (UDP may  *)
(* duplicate, reorder and lose), or one direct call of Subscribe by main.  *)
(* A stored record is the subframe of a SEND call; its value is not told   *)
(* apart from others of the same id.                                       *)
(***************************************************************************)
EXTENDS Naturals, Sequences, FiniteSets, Functions, Lists

CONSTANTS
  Packets,         \* the packets clients may send: see PacketOK
  Copies,          \* how often the network may deliver each of them
  Together,        \* bound: sets of calls that may occur in one behaviour
  DirectCalls,     \* main's calls of Subscribe, written as packets
  Ids,             \* the data ids that occur
  RecordTables,    \* those that have a table
  DataShapes,      \* [Ids -> Nat]: columns of each table, 0 without a table
  Addressable,     \* the system ids in AllClientAddr
  Consumers,       \* consumer goroutines: UDPConsumerNums per local address
  BUFFLEN,         \* capacity of server.Buffer
  DBMayFail,       \* whether a SELECT may fail
  TIME_SIMU_LAST,  \* the largest simulink time, also "the last one"
  PARAMTER_REQUEST_LAST,  \* the largest time difference, also "to the last one"
  ROWS,            \* one more than the row field of a packet can hold (2^8)
  SEQUENCES        \* one more than the sequence field can hold (2^16)

SubframeOK(s) == s.id \in Ids /\ s.diff \in 0 .. PARAMTER_REQUEST_LAST

PacketOK(p) ==
  /\ p.service \in {"SEND", "REQUEST", "PUBLISH", "SUBSCRIBE"}
  /\ p.synt \in 0 .. TIME_SIMU_LAST
  /\ \A i \in DOMAIN p.subs : SubframeOK(p.subs[i])

ASSUME PacketsAssumption ==
  /\ IsFiniteSet(Packets) /\ IsFiniteSet(DirectCalls)
  /\ \A p \in Packets \cup DirectCalls : PacketOK(p)
  /\ \A p \in DirectCalls : p.service = "SUBSCRIBE"
  /\ Copies \in Nat
  /\ Together \subseteq SUBSET ((Packets \X (1 .. Copies)) \cup (DirectCalls \X {0}))

ASSUME TablesAssumption ==
  /\ RecordTables \subseteq Ids
  /\ DataShapes \in [Ids -> Nat]

ASSUME BoundsAssumption ==
  /\ {Consumers, BUFFLEN, TIME_SIMU_LAST, PARAMTER_REQUEST_LAST, ROWS, SEQUENCES}
       \subseteq Nat \ {0}
  /\ DBMayFail \in BOOLEAN

VARIABLES
  up,                  \* the process runs
  Buffer,              \* server.Buffer: calls whose packet waits, oldest first
  frame,               \* per call: where its goroutine is, and its locals
  subscriberRegister,  \* per id: the registered clients, in order
  Sequence,            \* the counter all outgoing packets are numbered from
  forwards,            \* the goroutines "go server.sendPkt" of handlePkt
  sent,                \* history: the packets written to the network
  waiting, pending, rows  \* RecordLog's, for the records of the SEND calls

store == <<waiting, pending, rows>>
vars == <<up, Buffer, frame, subscriberRegister, Sequence, forwards, sent, store>>

Calls == (Packets \X (1 .. Copies)) \cup (DirectCalls \X {0})
Received == {c \in Calls : c[2] > 0}

Pkt(c) == c[1]
Sub(c) == Pkt(c).subs[frame[c].sub]
Subframes(c) == DOMAIN Pkt(c).subs

Records == UNION {{c} \X Subframes(c) : c \in {k \in Received : Pkt(k).service = "SEND"}}
IdOfRecord == [d \in Records |-> Pkt(d[1]).subs[d[2]].id]

(* A mutant: the sum does not wrap. *)
PlusUnbounded(t, n) == t + n

(* uint32 arithmetic: simulink time plus time difference. *)
Plus(t, n) == (t + n) % (TIME_SIMU_LAST + 1)

Iter(d) == Plus(Pkt(d[1]).synt, Pkt(d[1]).subs[d[2]].diff)

NoRow == <<>>   \* ReadSynt found nothing: a nil row

Log == INSTANCE RecordLog WITH Data <- Records, IdOf <- IdOfRecord

PCs == {"absent", "queued", "handle", "lookup", "register",
        "queryLast", "queryEnd", "readSynt", "readRange", "catchUpLast", "catchUp",
        "stamp", "transmit", "stampAck", "transmitAck", "bump", "done"}

NewFrame(pc) ==
  [pc |-> pc, sub |-> 1, synt |-> 0, end |-> 0, rows |-> <<>>, seq |-> 0, seen |-> {}]

Init ==
  /\ up = TRUE
  /\ Buffer = <<>>
  /\ frame = [c \in Calls |-> NewFrame("absent")]
  /\ subscriberRegister = [id \in Ids |-> <<>>]
  /\ Sequence = 0
  /\ forwards = {}
  /\ sent = {}
  /\ Log!Init

-----------------------------------------------------------------------------
(* Control of one call *)

At(c, pc) == up /\ frame[c].pc = pc

Goto(c, pc) == frame' = [frame EXCEPT ![c].pc = pc]

(* On to the packet's next subframe, or back to waiting for a packet. *)
NextSubframe(c) ==
  frame' = [frame EXCEPT ![c] =
    [NewFrame(IF @.sub = Len(Pkt(c).subs) THEN "done" ELSE "handle")
       EXCEPT !.sub = frame[c].sub + 1, !.seen = frame[c].seen]]

(* A mutant: the consumer goroutine ends with the error. *)
StopConsumer(c) == Goto(c, "stopped")

(* handlePkt returns an error: the rest of the packet is not looked at. *)
ReturnError(c) == Goto(c, "done")

Handles(c, service) ==
  /\ At(c, "handle")
  /\ frame[c].sub \in Subframes(c)
  /\ Pkt(c).service = service

-----------------------------------------------------------------------------
(* listen: producers and consumers *)

Begun == {c \in Calls : frame[c].pc # "absent"}
MayBegin(c) == At(c, "absent") /\ \E calls \in Together : Begun \cup {c} \subseteq calls
Active == {c \in Received : frame[c].pc \notin {"absent", "queued", "done"}}

(* A producer reads a packet from the socket and puts it into the buffer. *)
Listen(c) ==
  /\ MayBegin(c)
  /\ Len(Buffer) < BUFFLEN
  /\ Buffer' = Append(Buffer, c)
  /\ Goto(c, "queued")
  /\ UNCHANGED <<up, subscriberRegister, Sequence, forwards, sent, store>>

(* main calls Subscribe, with packets of clients already arriving.          *)
CallDirectly(c) ==
  /\ MayBegin(c)
  /\ Goto(c, "handle")
  /\ UNCHANGED <<up, Buffer, subscriberRegister, Sequence, forwards, sent, store>>

Stored(id) == IF id \in RecordTables THEN Range(rows[id]) ELSE {}

(* A free consumer takes the next packet; seen is what the tables hold then. *)
Consume ==
  /\ up
  /\ Buffer # <<>>
  /\ Cardinality(Active) < Consumers
  /\ frame' = [frame EXCEPT ![Head(Buffer)].pc = "handle",
                            ![Head(Buffer)].seen = UNION {Stored(id) : id \in Ids}]
  /\ Buffer' = Tail(Buffer)
  /\ UNCHANGED <<up, subscriberRegister, Sequence, forwards, sent, store>>

(* A packet without subframes. *)
HandleEmpty(c) ==
  /\ At(c, "handle")
  /\ Subframes(c) = {}
  /\ Pkt(c).service # "PUBLISH"
  /\ Goto(c, "done")
  /\ UNCHANGED <<up, Buffer, subscriberRegister, Sequence, forwards, sent, store>>

-----------------------------------------------------------------------------
(* SEND *)

(* go server.Send(...): from here on the record can reach the handler. *)
StartSend(c) ==
  /\ Handles(c, "SEND")
  /\ Goto(c, "lookup")
  /\ UNCHANGED <<up, Buffer, subscriberRegister, Sequence, forwards, sent, store>>

Started(d) ==
  LET f == frame[d[1]] IN f.sub > d[2] \/ (f.sub = d[2] /\ f.pc = "lookup")

(* A mutant: only the first subframe is served. *)
LookupFirst(c) ==
  /\ At(c, "lookup")
  /\ LET list == subscriberRegister[Pkt(c).subs[1].id]
     IN forwards' = forwards \cup
          {[call |-> c, sub |-> 1, slot |-> k, dst |-> list[k],
            stamped |-> FALSE, seq |-> 0] : k \in DOMAIN list}
  /\ NextSubframe(c)
  /\ UNCHANGED <<up, Buffer, subscriberRegister, Sequence, sent, store>>

(* The register is read under its lock; a goroutine is started for every    *)
(* entry read, also for a client that is on it twice.                       *)
LookupSubscribers(c) ==
  /\ At(c, "lookup")
  /\ LET list == subscriberRegister[Sub(c).id]
     IN forwards' = forwards \cup
          {[call |-> c, sub |-> frame[c].sub, slot |-> k, dst |-> list[k],
            stamped |-> FALSE, seq |-> 0] : k \in DOMAIN list}
  /\ NextSubframe(c)
  /\ UNCHANGED <<up, Buffer, subscriberRegister, Sequence, sent, store>>

(* Send hands the record to WriteToBuffer, which takes it or, when the id   *)
(* is unknown or its channel is full, does not.                             *)
SendReturns(d) ==
  /\ up
  /\ Started(d)
  /\ Log!Accept(d) \/ Log!Refuse(d)
  /\ UNCHANGED <<up, Buffer, frame, subscriberRegister, Sequence, forwards, sent>>

(* The handler stores or drops the oldest records of an id. *)
HandleData(id) ==
  /\ up
  /\ Log!Settle(id)
  /\ UNCHANGED <<up, Buffer, frame, subscriberRegister, Sequence, forwards, sent>>
-----------------------------------------------------------------------------
(* sendPkt and sendOpt: stamped with a sequence number under the lock, then *)
(* written to the network with nothing held.                                *)

NextSequence == Sequence' = (Sequence + 1) % SEQUENCES

Cells(id, r) == IF r = NoRow THEN 0 ELSE DataShapes[id]

(* The packet of a sendPkt: its row and col fields come from the number of  *)
(* rows, cut to a byte, and from the first row.                             *)
DataPacket(c, i, slot, dst, synt, list, seq) ==
  [kind |-> "data", call |-> c, sub |-> i, slot |-> slot, dst |-> dst,
   id |-> Pkt(c).subs[i].id, synt |-> synt, rows |-> list, seq |-> seq,
   row |-> Len(list) % ROWS,
   col |-> IF list = <<>> THEN 0 ELSE Cells(Pkt(c).subs[i].id, list[1])]

Ack(c) ==
  [kind |-> "ack", call |-> c, sub |-> frame[c].sub, slot |-> 0, dst |-> Pkt(c).src,
   id |-> Sub(c).id, synt |-> Pkt(c).synt, rows |-> <<>>, seq |-> frame[c].seq,
   row |-> 0, col |-> 0]

StampForward(f) ==
  /\ up
  /\ f \in forwards
  /\ ~f.stamped
  /\ forwards' = (forwards \ {f}) \cup {[f EXCEPT !.stamped = TRUE, !.seq = Sequence]}
  /\ NextSequence
  /\ UNCHANGED <<up, Buffer, frame, subscriberRegister, sent, store>>

(* The forwarded packet has the time of its packet, not of its subframe. *)
TransmitForward(f) ==
  /\ up
  /\ f \in forwards
  /\ f.stamped
  /\ forwards' = forwards \ {f}
  /\ sent' = IF f.dst \in Addressable
               THEN sent \cup {DataPacket(f.call, f.sub, f.slot, f.dst, Pkt(f.call).synt,
                                          <<<<f.call, f.sub>>>>, f.seq)}
               ELSE sent
  /\ UNCHANGED <<up, Buffer, frame, subscriberRegister, Sequence, store>>

Stamp(c) ==
  /\ up
  /\ \/ At(c, "stamp") /\ frame' = [frame EXCEPT ![c].pc = "transmit", ![c].seq = Sequence]
     \/ At(c, "stampAck") /\ frame' = [frame EXCEPT ![c].pc = "transmitAck", ![c].seq = Sequence]
  /\ NextSequence
  /\ UNCHANGED <<up, Buffer, subscriberRegister, forwards, sent, store>>

(* The data packet of a call; Subscribe does not look at sendPkt's error.   *)
Transmit(c) ==
  /\ At(c, "transmit")
  /\ IF Pkt(c).src \in Addressable
       THEN sent' = sent \cup {DataPacket(c, frame[c].sub, 0, Pkt(c).src, frame[c].synt,
                                          frame[c].rows, frame[c].seq)}
       ELSE UNCHANGED sent
  /\ \/ Pkt(c).service = "SUBSCRIBE" /\ Goto(c, "stampAck")
     \/ Pkt(c).service = "REQUEST" /\ Pkt(c).src \in Addressable /\ NextSubframe(c)
     \/ Pkt(c).service = "REQUEST" /\ Pkt(c).src \notin Addressable /\ ReturnError(c)
  /\ UNCHANGED <<up, Buffer, subscriberRegister, Sequence, forwards, store>>

(* sendOpt numbers from the counter again once its packet is written. *)
TransmitAck(c) ==
  /\ At(c, "transmitAck")
  /\ IF Pkt(c).src \in Addressable
       THEN sent' = sent \cup {Ack(c)} /\ Goto(c, "bump")
       ELSE ReturnError(c) /\ UNCHANGED sent
  /\ UNCHANGED <<up, Buffer, subscriberRegister, Sequence, forwards, store>>

(* A mutant: the counter is set from the number the goroutine had read. *)
BumpStale(c) ==
  /\ At(c, "bump")
  /\ Sequence' = (frame[c].seq + 1) % SEQUENCES
  /\ NextSubframe(c)
  /\ UNCHANGED <<up, Buffer, subscriberRegister, forwards, sent, store>>

Bump(c) ==
  /\ At(c, "bump")
  /\ NextSequence
  /\ NextSubframe(c)
  /\ UNCHANGED <<up, Buffer, subscriberRegister, forwards, sent, store>>

-----------------------------------------------------------------------------
(* The queries of the data handler *)

(* QueryLastSynt: 0 when there is no table, no row or an error. *)
LastSynts(id) ==
  LET times == {Iter(d) : d \in Stored(id)}
  IN {t \in times : \A u \in times : u <= t}
       \cup (IF times = {} \/ DBMayFail THEN {0} ELSE {})

(* ReadSynt: any row with that time, the iter column not being unique. *)
RowsAt(id, t) ==
  LET found == {d \in Stored(id) : Iter(d) = t}
  IN found \cup (IF found = {} \/ DBMayFail THEN {NoRow} ELSE {})

(* A mutant: the end is included. *)
RowsUpTo(id, start, end) ==
  Kept(rows[id], {k \in DOMAIN rows[id] : start <= Iter(rows[id][k]) /\ Iter(rows[id][k]) <= end})

(* The rows with start <= iter < end, in the order of insertion. *)
RowsBetween(id, start, end) ==
  Kept(rows[id], {k \in DOMAIN rows[id] : start <= Iter(rows[id][k]) /\ Iter(rows[id][k]) < end})

-----------------------------------------------------------------------------
(* REQUEST *)

StartRequest(c) ==
  /\ Handles(c, "REQUEST")
  /\ LET t == Pkt(c).synt
         n == Sub(c).diff
         pc == IF n = 0
                 THEN IF t = TIME_SIMU_LAST THEN "queryLast" ELSE "readSynt"
                 ELSE IF n = PARAMTER_REQUEST_LAST THEN "queryEnd" ELSE "readRange"
     IN frame' = [frame EXCEPT ![c].pc = pc, ![c].synt = t, ![c].end = Plus(t, n)]
  /\ UNCHANGED <<up, Buffer, subscriberRegister, Sequence, forwards, sent, store>>

QueryLast(c) ==
  /\ At(c, "queryLast")
  /\ \E t \in LastSynts(Sub(c).id) :
       frame' = [frame EXCEPT ![c].pc = "readSynt", ![c].synt = t]
  /\ UNCHANGED <<up, Buffer, subscriberRegister, Sequence, forwards, sent, store>>

ReadSynt(c) ==
  /\ At(c, "readSynt")
  /\ \E r \in RowsAt(Sub(c).id, frame[c].synt) :
       frame' = [frame EXCEPT ![c].pc = "stamp", ![c].rows = <<r>>]
  /\ UNCHANGED <<up, Buffer, subscriberRegister, Sequence, forwards, sent, store>>

QueryEnd(c) ==
  /\ At(c, "queryEnd")
  /\ \E t \in LastSynts(Sub(c).id) :
       frame' = [frame EXCEPT ![c].pc = "readRange", ![c].end = t]
  /\ UNCHANGED <<up, Buffer, subscriberRegister, Sequence, forwards, sent, store>>

(* ReadRange never asks rows.Err, so a query that breaks off looks complete. *)
ReadRange(c) ==
  /\ At(c, "readRange")
  /\ \/ /\ Sub(c).id \in RecordTables
        /\ LET found == RowsBetween(Sub(c).id, frame[c].synt, frame[c].end)
           IN \E k \in IF DBMayFail THEN 0 .. Len(found) ELSE {Len(found)} :
                frame' = [frame EXCEPT ![c].pc = "stamp", ![c].rows = SubSeq(found, 1, k)]
     \/ /\ Sub(c).id \notin RecordTables \/ DBMayFail
        /\ ReturnError(c)
  /\ UNCHANGED <<up, Buffer, subscriberRegister, Sequence, forwards, sent, store>>

-----------------------------------------------------------------------------
(* SUBSCRIBE; the rate (the subframe's time difference) is not looked at. *)

Registered(id, client) == client \in Range(subscriberRegister[id])

(* A mutant: the register is not looked at. *)
RegisterAgain(c) ==
  /\ Handles(c, "SUBSCRIBE")
  /\ Goto(c, "register")
  /\ UNCHANGED <<up, Buffer, subscriberRegister, Sequence, forwards, sent, store>>

(* Under the read lock, which is released before anything is done about it. *)
CheckRegister(c) ==
  /\ Handles(c, "SUBSCRIBE")
  /\ Goto(c, IF Registered(Sub(c).id, Pkt(c).src) THEN "catchUpLast" ELSE "register")
  /\ UNCHANGED <<up, Buffer, subscriberRegister, Sequence, forwards, sent, store>>

(* A mutant: the list is replaced. *)
RegisterOnly(c) ==
  /\ At(c, "register")
  /\ subscriberRegister' = [subscriberRegister EXCEPT ![Sub(c).id] = <<Pkt(c).src>>]
  /\ Goto(c, "stampAck")
  /\ UNCHANGED <<up, Buffer, Sequence, forwards, sent, store>>

Register(c) ==
  /\ At(c, "register")
  /\ subscriberRegister' = [subscriberRegister EXCEPT ![Sub(c).id] = Append(@, Pkt(c).src)]
  /\ Goto(c, "stampAck")
  /\ UNCHANGED <<up, Buffer, Sequence, forwards, sent, store>>

CatchUpLast(c) ==
  /\ At(c, "catchUpLast")
  /\ \E last \in LastSynts(Sub(c).id) :
       IF Pkt(c).synt <= last
         THEN frame' = [frame EXCEPT ![c].pc = "catchUp", ![c].rows = <<>>,
                                     ![c].synt = Pkt(c).synt, ![c].end = last]
         ELSE Goto(c, "stampAck")
  /\ UNCHANGED <<up, Buffer, subscriberRegister, Sequence, forwards, sent, store>>

(* A mutant: the last time is left out. *)
CatchUpBefore(c) ==
  /\ At(c, "catchUp")
  /\ IF frame[c].synt < frame[c].end
       THEN \E r \in RowsAt(Sub(c).id, frame[c].synt) :
              frame' = [frame EXCEPT ![c].synt = Plus(@, 1), ![c].rows = Append(@, r)]
       ELSE frame' = [frame EXCEPT ![c].pc = "stamp", ![c].synt = Pkt(c).synt]
  /\ UNCHANGED <<up, Buffer, subscriberRegister, Sequence, forwards, sent, store>>

(* for i := synt; i <= lastSynt; i++: one query a round, until i, which is  *)
(* a uint32, is above the last time; the packet has the first time.  The    *)
(* list is not extended beyond one row per time, for it may grow for ever.  *)
CatchUp(c) ==
  /\ At(c, "catchUp")
  /\ IF frame[c].synt <= frame[c].end
       THEN \E r \in RowsAt(Sub(c).id, frame[c].synt) :
              frame' = [frame EXCEPT
                ![c].synt = Plus(@, 1),
                ![c].rows = IF Len(@) > TIME_SIMU_LAST THEN @ ELSE Append(@, r)]
       ELSE frame' = [frame EXCEPT ![c].pc = "stamp", ![c].synt = Pkt(c).synt]
  /\ UNCHANGED <<up, Buffer, subscriberRegister, Sequence, forwards, sent, store>>

-----------------------------------------------------------------------------
(* PUBLISH: what is left of the 4500 bytes after the subframes is six more  *)
(* than a multiple of eight, and PayloadBuf2Float slices eight bytes at     *)
(* every multiple: a panic that nothing recovers ends the process.          *)
HandlePublish(c) ==
  /\ At(c, "handle")
  /\ Pkt(c).service = "PUBLISH"
  /\ up' = FALSE
  /\ UNCHANGED <<Buffer, frame, subscriberRegister, Sequence, forwards, sent, store>>

-----------------------------------------------------------------------------
CallStep(c) ==
  \/ HandleEmpty(c)
  \/ StartSend(c) \/ LookupSubscribers(c)
  \/ StartRequest(c) \/ QueryLast(c) \/ ReadSynt(c) \/ QueryEnd(c) \/ ReadRange(c)
  \/ CheckRegister(c) \/ Register(c) \/ CatchUpLast(c) \/ CatchUp(c)
  \/ Stamp(c) \/ Transmit(c) \/ TransmitAck(c) \/ Bump(c)
  \/ HandlePublish(c)

Next ==
  \/ \E c \in Received : Listen(c)
  \/ \E c \in Calls \ Received : CallDirectly(c)
  \/ Consume
  \/ \E c \in Calls : CallStep(c)
  \/ \E d \in Records : SendReturns(d)
  \/ \E id \in RecordTables : HandleData(id)
  \/ \E f \in forwards : StampForward(f) \/ TransmitForward(f)

Spec == Init /\ [][Next]_vars

(* Every runnable goroutine runs; the network need not deliver anything.    *)
Fairness ==
  /\ WF_vars(Consume)
  /\ \A c \in Calls \ Received : WF_vars(CallDirectly(c))
  /\ \A c \in Calls : WF_vars(CallStep(c))
  /\ \A d \in Records : WF_vars(SendReturns(d))
  /\ WF_vars(\E f \in forwards : StampForward(f) \/ TransmitForward(f))

FairSpec == Spec /\ Fairness

-----------------------------------------------------------------------------
(* PROPERTIES *)

Rows == Seq(Records \cup {NoRow})
Numbers == 0 .. SEQUENCES - 1
Clients == {p.src : p \in Packets \cup DirectCalls}

TypeOK ==
  /\ up \in BOOLEAN
  /\ Buffer \in Seq(Received)
  /\ frame \in [Calls -> [pc : PCs, sub : Nat \ {0}, synt : 0 .. TIME_SIMU_LAST,
                          end : 0 .. TIME_SIMU_LAST, rows : Rows, seq : Numbers,
                          seen : SUBSET Records]]
  /\ subscriberRegister \in [Ids -> Seq(Clients)]
  /\ Sequence \in Numbers
  /\ forwards \subseteq [call : Received, sub : Nat, slot : Nat, dst : Clients,
                         stamped : BOOLEAN, seq : Numbers]
  /\ waiting \in SUBSET Records
  /\ pending \in [RecordTables -> Seq(Records)]
  /\ rows \in [RecordTables -> Seq(Records)]

(* No two packets on their way or on the network have one number, as long   *)
(* as the 16 bits have not wrapped, although requests, acknowledgements and *)
(* forwards take theirs in goroutines of their own (server.go:394-397).     *)
UniqueSequence ==
  LET handed == {c \in Calls : frame[c].pc \in {"transmit", "transmitAck"}}
      stamped == {f \in forwards : f.stamped}
  IN /\ \A p, q \in sent : p.seq = q.seq => p = q
     /\ \A f, g \in stamped : f.seq = g.seq => f = g
     /\ \A c, k \in handed : frame[c].seq = frame[k].seq => c = k
     /\ \A p \in sent : \A f \in stamped : p.seq # f.seq
     /\ \A p \in sent : \A c \in handed : p.seq # frame[c].seq
     /\ \A f \in stamped : \A c \in handed : f.seq # frame[c].seq

Entries(id, client) == {k \in DOMAIN subscriberRegister[id] : subscriberRegister[id][k] = client}

(* Subscribe checks the register under one lock and appends under another,  *)
(* so concurrent calls can put a client on the list twice (and it then gets *)
(* everything twice), but never more often than there are goroutines that   *)
(* can be between the two: server.go:346-362.                               *)
DuplicatesBounded ==
  \A id \in Ids : \A client \in Clients :
    Cardinality(Entries(id, client)) <=
      Consumers + Cardinality({p \in DirectCalls : p.src = client})

Acked(id, client) == \E p \in sent : p.kind = "ack" /\ p.id = id /\ p.dst = client

(* A client that holds an acknowledgement for an id is on the id's list.    *)
AckMeansRegistered ==
  \A id \in Ids : \A client \in Clients : Acked(id, client) => Registered(id, client)

(* A client that repeats a SUBSCRIBE (or whose packet the network repeats)   *)
(* after an acknowledgement is never put on the list again: only calls that *)
(* overlap the registration can be, server.go:346-364.                      *)
AckEndsRegistration ==
  [][\A c \in Calls : frame[c].pc = "handle" /\ frame'[c].pc = "register" =>
       ~Acked(Sub(c).id, Pkt(c).src)]_vars

Replies == {p \in sent : p.kind = "data" /\ p.slot = 0}

(* What a data packet carries belongs where it is: a forward is the record  *)
(* it was started for, a reply has rows that are stored for the id and      *)
(* times that were asked for, and row k of a catch-up is for the k-th time  *)
(* from the start, found or not.                                            *)
RepliesAreTrue ==
  /\ \A p \in Replies : \A k \in DOMAIN p.rows : p.rows[k] # NoRow =>
       LET d == p.rows[k]
       IN /\ d \in Stored(p.id)
          /\ IF Pkt(p.call).service = "SUBSCRIBE" THEN Iter(d) = p.synt + k - 1
             ELSE IF Pkt(p.call).subs[p.sub].diff = 0 THEN Iter(d) = p.synt
             ELSE /\ Iter(d) >= p.synt
                  /\ \/ Pkt(p.call).subs[p.sub].diff = PARAMTER_REQUEST_LAST
                     \/ Iter(d) < Plus(p.synt, Pkt(p.call).subs[p.sub].diff)
  /\ \A p \in sent : p.kind = "data" /\ p.slot > 0 => p.rows = <<<<p.call, p.sub>>>>

(* Whatever was stored when a packet was taken from the buffer is in the    *)
(* reply it asks for: the row of a time, a time not before the last one,    *)
(* the rows of a duration, and the row of every time of a catch-up.         *)
RepliesAreComplete ==
  ~DBMayFail =>
    \A p \in Replies :
      LET known == {d \in frame[p.call].seen : IdOfRecord[d] = p.id}
          pkt == Pkt(p.call)
          n == pkt.subs[p.sub].diff
          Has(t) == \E d \in Range(p.rows) : d # NoRow /\ Iter(d) = t
      IN CASE pkt.service = "SUBSCRIBE" ->
                \A d \in known : Iter(d) >= p.synt => Has(Iter(d))
           [] pkt.service = "REQUEST" /\ n = 0 /\ pkt.synt = TIME_SIMU_LAST ->
                \A d \in known : p.synt >= Iter(d) /\ Has(p.synt)
           [] pkt.service = "REQUEST" /\ n = 0 /\ pkt.synt # TIME_SIMU_LAST ->
                \A d \in known : Iter(d) = p.synt => Has(p.synt)
           [] pkt.service = "REQUEST" /\ n \notin {0, PARAMTER_REQUEST_LAST} ->
                \A d \in known : p.synt <= Iter(d) /\ Iter(d) < p.synt + n
                                   /\ p.synt + n <= TIME_SIMU_LAST => Has(Iter(d))
           [] OTHER -> TRUE

(* Every packet that a producer put into the buffer is handled to its end,  *)
(* unless a panic ends the process: no error stops a consumer, and none     *)
(* waits for another.  (SubscribeAnswered has the exception: a catch-up in  *)
(* a table with the largest simulink time.)                                 *)
EveryPacketHandled ==
  \A c \in Received : frame[c].pc = "queued" ~> frame[c].pc = "done" \/ ~up

(* A record that arrives when a client holds an acknowledgement for its id  *)
(* reaches that client's address.                                           *)
SubscribersServed ==
  \A d \in Records : \A client \in Clients :
    frame[d[1]].pc = "queued" /\ Acked(IdOfRecord[d], client) ~>
      \/ \E p \in sent : p.kind = "data" /\ p.call = d[1] /\ p.sub = d[2] /\ p.dst = client
      \/ ~up

-----------------------------------------------------------------------------
(* WHAT THE DOCUMENTATION SAYS AND THE CODE DOES NOT DO *)

(* README.md:272: a SUBSCRIBE with the data rate 0 terminates the           *)
(* subscription: when its handling ends, the client is off the list.        *)
TerminateUnsubscribes ==
  [][\A c \in Received :
       /\ Pkt(c).service = "SUBSCRIBE" /\ \A i \in Subframes(c) : Pkt(c).subs[i].diff = 0
       /\ frame[c].pc # "done" /\ frame'[c].pc = "done"
       => \A i \in Subframes(c) : ~Registered(Pkt(c).subs[i].id, Pkt(c).src)']_vars

(* README.md:268: a subscription from simulink time 0 gets all data, those  *)
(* stored before it too.                                                    *)
FromZeroGetsAll ==
  \A p \in sent : p.kind = "ack" /\ p.synt = 0 =>
    \A d \in frame[p.call].seen : IdOfRecord[d] = p.id =>
      \E q \in Replies : q.call = p.call /\ d \in Range(q.rows)

(* README.md:212: a request with the time difference 0xffff returns the     *)
(* data from the simulink time to the last data.                            *)
ToLastHasLast ==
  \A p \in Replies :
    Pkt(p.call).service = "REQUEST" /\ Pkt(p.call).subs[p.sub].diff = PARAMTER_REQUEST_LAST =>
      \A d \in frame[p.call].seen : IdOfRecord[d] = p.id /\ Iter(d) >= p.synt =>
        d \in Range(p.rows)

(* README.md:214 and 270: what a data packet carries is decoded by its      *)
(* shape, row times col numbers.                                            *)
DecodedByShape ==
  \A p \in sent : p.kind = "data" =>
    p.row * p.col = DataShapes[p.id] * Cardinality({k \in DOMAIN p.rows : p.rows[k] # NoRow})

(* README.md:234: a PUBLISH is answered.                                    *)
PublishAnswered ==
  \A c \in Received : Pkt(c).service = "PUBLISH" /\ frame[c].pc = "queued" ~>
    \E p \in sent : p.call = c

(* README.md:270: a SUBSCRIBE is answered, whatever simulink times from 0   *)
(* to 4294967295 (README.md:161) are in the table.                          *)
SubscribeAnswered ==
  \A c \in Received : Pkt(c).service = "SUBSCRIBE" /\ frame[c].pc = "queued" ~>
    \E p \in sent : p.call = c
=============================================================================
