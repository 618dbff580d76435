-------------------------- MODULE UdpServerProofs --------------------------
(* Theorems about the UDP server, for any packets and copies of them, any    *)
(* number of consumers and any contents of the tables: what an               *)
(* acknowledgement promises, how often a client can be on a list that is     *)
(* checked under one lock and extended under another, what the sequence      *)
(* numbers of packets tell apart, and what a reply that several queries      *)
(* collect while records arrive has and lacks.                               *)
EXTENDS UdpServer, ListsProofs, FiniteSetTheorems, SequenceTheorems, TLAPS

(* The locals of a call, whatever they hold.                                 *)
IsFrame(f) ==
  /\ f = [pc |-> f.pc, sub |-> f.sub, synt |-> f.synt, end |-> f.end, rows |-> f.rows, seq |-> f.seq, seen |-> f.seen]
  /\ f.sub \in Nat \ {0}
Shaped ==
  /\ frame = [c \in Calls |-> frame[c]]
  /\ \A c \in Calls : IsFrame(frame[c])
  /\ Buffer \in Seq(Received)
  /\ subscriberRegister \in [Ids -> Seq(Clients)]

(* Where a call can be depends on its service; past the check of the         *)
(* register, or past the append, its client is on the list.                  *)
Requesting == {"queryLast", "queryEnd", "readSynt", "readRange"}
Subscribing == {"register", "catchUpLast", "catchUp", "stampAck", "transmitAck"}
OfService(c) ==
  /\ frame[c].pc \in Requesting => Pkt(c).service = "REQUEST"
  /\ frame[c].pc \in Subscribing => Pkt(c).service = "SUBSCRIBE"
  /\ frame[c].pc \in Requesting \cup Subscribing \cup {"stamp", "transmit"} => frame[c].sub \in Subframes(c)
OnTheList(c) ==
  Pkt(c).service = "SUBSCRIBE" /\ frame[c].pc \in (Subscribing \ {"register"}) \cup {"stamp", "transmit"} =>
    Registered(Sub(c).id, Pkt(c).src)
RegisterInv == Shaped /\ (\A c \in Calls : OfService(c) /\ OnTheList(c)) /\ AckMeansRegistered

-----------------------------------------------------------------------------
(* Calls and their frames                                                    *)

LEMMA CallFacts ==
  ASSUME NEW c \in Calls
  PROVE  /\ PacketOK(Pkt(c)) /\ Pkt(c).src \in Clients
         /\ \A i \in Subframes(c) : Pkt(c).subs[i].id \in Ids
         /\ c \notin Received => Pkt(c) \in DirectCalls
<1>1. Pkt(c) \in Packets \cup DirectCalls /\ (c \notin Received => Pkt(c) \in DirectCalls)
  BY PacketsAssumption DEF Calls, Received, Pkt
<1>2. PacketOK(Pkt(c)) /\ Pkt(c).src \in Clients
  BY <1>1, PacketsAssumption DEF Clients
<1>3. \A i \in Subframes(c) : Pkt(c).subs[i].id \in Ids
  BY <1>2 DEF PacketOK, SubframeOK, Subframes
<1> QED
  BY <1>1, <1>2, <1>3

(* What a step of a call does to the frames: to its own g, to others nothing.*)
Others(c) == \A k \in Calls : k # c => frame'[k] = frame[k]

LEMMA FrameChange ==
  ASSUME Shaped, NEW c \in Calls, NEW g, frame' = [frame EXCEPT ![c] = g]
  PROVE  /\ frame' = [k \in Calls |-> frame'[k]]
         /\ frame'[c] = g /\ Others(c)
BY DEF Shaped, Others

Moved(c, pc) ==
  /\ frame' = [k \in Calls |-> frame'[k]] /\ Others(c) /\ IsFrame(frame'[c])
  /\ frame'[c].pc = pc /\ frame'[c].sub = frame[c].sub

LEMMA FrameFacts ==
  ASSUME Shaped, NEW c \in Calls, NEW pc, NEW t, NEW u, NEW l
  PROVE  /\ Goto(c, pc) => Moved(c, pc)
         /\ frame' = [frame EXCEPT ![c].pc = pc, ![c].seq = t] => Moved(c, pc)
         /\ frame' = [frame EXCEPT ![c].pc = pc, ![c].seen = t] => Moved(c, pc)
         /\ frame' = [frame EXCEPT ![c].pc = pc, ![c].synt = t] => Moved(c, pc)
         /\ frame' = [frame EXCEPT ![c].pc = pc, ![c].end = t] => Moved(c, pc)
         /\ frame' = [frame EXCEPT ![c].pc = pc, ![c].rows = l] => Moved(c, pc)
         /\ frame' = [frame EXCEPT ![c].pc = pc, ![c].synt = t, ![c].end = u] => Moved(c, pc)
         /\ frame' = [frame EXCEPT ![c].pc = pc, ![c].rows = l, ![c].synt = t, ![c].end = u] => Moved(c, pc)
         /\ frame' = [frame EXCEPT ![c].synt = t, ![c].rows = l] => Moved(c, frame[c].pc)
<1> USE DEF Moved, IsFrame
<1>0. IsFrame(frame[c])
  BY DEF Shaped
<1>1. ASSUME Goto(c, pc) PROVE Moved(c, pc)
  BY <1>0, <1>1, FrameChange DEF Goto
<1>2. ASSUME frame' = [frame EXCEPT ![c].pc = pc, ![c].seq = t] PROVE Moved(c, pc)
  BY <1>0, <1>2 DEF Shaped, Others
<1>3. ASSUME frame' = [frame EXCEPT ![c].pc = pc, ![c].seen = t] PROVE Moved(c, pc)
  BY <1>0, <1>3 DEF Shaped, Others
<1>4. ASSUME frame' = [frame EXCEPT ![c].pc = pc, ![c].synt = t] PROVE Moved(c, pc)
  BY <1>0, <1>4 DEF Shaped, Others
<1>5. ASSUME frame' = [frame EXCEPT ![c].pc = pc, ![c].end = t] PROVE Moved(c, pc)
  BY <1>0, <1>5 DEF Shaped, Others
<1>6. ASSUME frame' = [frame EXCEPT ![c].pc = pc, ![c].rows = l] PROVE Moved(c, pc)
  BY <1>0, <1>6 DEF Shaped, Others
<1>7. ASSUME frame' = [frame EXCEPT ![c].pc = pc, ![c].synt = t, ![c].end = u] PROVE Moved(c, pc)
  BY <1>0, <1>7 DEF Shaped, Others
<1>8. ASSUME frame' = [frame EXCEPT ![c].pc = pc, ![c].rows = l, ![c].synt = t, ![c].end = u] PROVE Moved(c, pc)
  BY <1>0, <1>8 DEF Shaped, Others
<1>9. ASSUME frame' = [frame EXCEPT ![c].synt = t, ![c].rows = l] PROVE Moved(c, frame[c].pc)
  BY <1>0, <1>9 DEF Shaped, Others
<1> QED
  BY <1>1, <1>2, <1>3, <1>4, <1>5, <1>6, <1>7, <1>8, <1>9

(* Where the reads lead.                                                     *)
LEMMA GotoFacts ==
  ASSUME Shaped, NEW c \in Calls, NEW pc, Goto(c, pc)
  PROVE  Moved(c, pc)
BY FrameFacts

LEMMA CatchUpFacts ==
  ASSUME Shaped, NEW c \in Calls, CatchUpLast(c) \/ CatchUp(c)
  PROVE  \E pc \in {"catchUp", "stampAck", "stamp"} : Moved(c, pc)
<1>1. CASE CatchUpLast(c)
  <2>1. PICK last \in LastSynts(Sub(c).id) :
          \/ frame' = [frame EXCEPT ![c].pc = "catchUp", ![c].rows = <<>>, ![c].synt = Pkt(c).synt, ![c].end = last]
          \/ Goto(c, "stampAck")
    BY <1>1 DEF CatchUpLast
  <2> DEFINE l == <<>>
             t == Pkt(c).synt
             pc == "catchUp"
  <2>2. \/ frame' = [frame EXCEPT ![c].pc = pc, ![c].rows = l, ![c].synt = t, ![c].end = last]
        \/ Goto(c, "stampAck")
    BY <2>1
  <2> HIDE DEF l, t, pc
  <2>3. ASSUME frame' = [frame EXCEPT ![c].pc = pc, ![c].rows = l, ![c].synt = t, ![c].end = last]
        PROVE  Moved(c, pc)
    BY <2>3, FrameFacts
  <2> QED
    BY <2>2, <2>3, GotoFacts DEF pc
<1>2. CASE CatchUp(c)
  <2>1. frame[c].pc = "catchUp"
    BY <1>2 DEF CatchUp, At
  <2>2. \/ \E t : frame' = [frame EXCEPT ![c].pc = "stamp", ![c].synt = t]
        \/ \E t, l : frame' = [frame EXCEPT ![c].synt = t, ![c].rows = l]
    BY <1>2 DEF CatchUp
  <2>3. CASE \E t : frame' = [frame EXCEPT ![c].pc = "stamp", ![c].synt = t]
    BY <2>3, FrameFacts
  <2>4. ASSUME NEW t, NEW l, frame' = [frame EXCEPT ![c].synt = t, ![c].rows = l]
        PROVE  Moved(c, frame[c].pc)
    BY <2>4, FrameFacts
  <2> QED
    BY <2>1, <2>2, <2>3, <2>4
<1> QED
  BY <1>1, <1>2

LEMMA ReadFacts ==
  ASSUME Shaped, NEW c \in Calls, ReadRange(c)
  PROVE  Moved(c, "stamp") \/ Moved(c, "done")
<1>1. \/ \E l : frame' = [frame EXCEPT ![c].pc = "stamp", ![c].rows = l]
      \/ Goto(c, "done")
  BY DEF ReadRange, ReturnError
<1>2. CASE \E l : frame' = [frame EXCEPT ![c].pc = "stamp", ![c].rows = l]
  BY <1>2, FrameFacts
<1> QED
  BY <1>1, <1>2, GotoFacts

LEMMA NextSubframeFacts ==
  ASSUME Shaped, NEW c \in Calls, NextSubframe(c)
  PROVE  /\ frame' = [k \in Calls |-> frame'[k]] /\ Others(c)
         /\ IsFrame(frame'[c]) /\ frame'[c].pc \in {"done", "handle"}
<1> DEFINE p == IF frame[c].sub = Len(Pkt(c).subs) THEN "done" ELSE "handle"
           n == frame[c].sub + 1
           s == frame[c].seen
           f == NewFrame(p)
           g == [f EXCEPT !.sub = n, !.seen = s]
<1>1. frame' = [frame EXCEPT ![c] = g]
  BY DEF NextSubframe
<1>2. n \in Nat \ {0} /\ p \in {"done", "handle"}
  BY DEF Shaped, IsFrame
<1> HIDE DEF p, n, s
<1>3. /\ f = [pc |-> f.pc, sub |-> f.sub, synt |-> f.synt, end |-> f.end, rows |-> f.rows, seq |-> f.seq,
              seen |-> f.seen]
      /\ f.pc = p
  BY DEF NewFrame
<1>4. g = [f EXCEPT !.sub = n, !.seen = s]
  OBVIOUS
<1> HIDE DEF f, g
<1>5. /\ g = [pc |-> g.pc, sub |-> g.sub, synt |-> g.synt, end |-> g.end, rows |-> g.rows, seq |-> g.seq,
              seen |-> g.seen]
      /\ g.sub = n /\ g.pc = p
  BY <1>3, <1>4
<1>6. IsFrame(g)
  BY <1>2, <1>5 DEF IsFrame
<1> QED
  BY <1>1, <1>2, <1>5, <1>6, FrameChange

-----------------------------------------------------------------------------
(* The register and the acknowledgements                                     *)

LEMMA RegisterGrows ==
  ASSUME NEW s \in Seq(Clients), NEW x \in Clients
  PROVE  /\ Append(s, x) \in Seq(Clients) /\ DOMAIN Append(s, x) = 1 .. Len(s) + 1 /\ DOMAIN s = 1 .. Len(s)
         /\ Len(s) \in Nat /\ Append(s, x)[Len(s) + 1] = x
         /\ \A k \in 1 .. Len(s) : Append(s, x)[k] = s[k]
         /\ x \in Range(Append(s, x))
         /\ Range(s) \subseteq Range(Append(s, x))
<1>1. /\ Append(s, x) \in Seq(Clients) /\ Len(Append(s, x)) = Len(s) + 1 /\ Len(s) \in Nat
      /\ Append(s, x)[Len(s) + 1] = x
      /\ \A k \in 1 .. Len(s) : Append(s, x)[k] = s[k]
  BY AppendProperties, LenProperties
<1>2. DOMAIN Append(s, x) = 1 .. Len(s) + 1 /\ DOMAIN s = 1 .. Len(s)
  BY <1>1, LenProperties
<1>3. x \in Range(Append(s, x)) /\ Range(s) \subseteq Range(Append(s, x))
  BY <1>1, <1>2 DEF Range
<1> QED
  BY <1>1, <1>2, <1>3

(* No step takes a client off a list, and what is sent is an acknowledgement *)
(* only if its client is on the list.                                        *)
StaysListed == \A id \in Ids : \A client : Registered(id, client) => Registered(id, client)'
SentInOrder == \A p \in sent' : p \in sent \/ p.kind = "data" \/ (p.id \in Ids /\ Registered(p.id, p.dst)')
Quiet == UNCHANGED <<subscriberRegister, sent>>

LEMMA QuietKeeps ==
  ASSUME Quiet
  PROVE  StaysListed /\ SentInOrder
BY DEF Quiet, StaysListed, SentInOrder, Registered

LEMMA CallMoves ==
  ASSUME RegisterInv, NEW c \in Calls,
         frame' = [k \in Calls |-> frame'[k]], Others(c), IsFrame(frame'[c]),
         Buffer' \in Seq(Received), subscriberRegister' \in [Ids -> Seq(Clients)],
         StaysListed, SentInOrder, OfService(c)', OnTheList(c)'
  PROVE  RegisterInv'
<1>1. Shaped'
  BY DEF RegisterInv, Shaped, Others
<1>2. ASSUME NEW k \in Calls, k # c
      PROVE  OfService(k)' /\ OnTheList(k)'
  <2>1. frame'[k] = frame[k] /\ OfService(k) /\ OnTheList(k)
    BY <1>2 DEF Others, RegisterInv
  <2>2. OfService(k)'
    BY <2>1 DEF OfService
  <2>3. frame[k].sub \in Subframes(k) => Sub(k).id \in Ids
    BY CallFacts DEF Sub
  <2>4. OnTheList(k)'
    BY <2>1, <2>3 DEF OnTheList, OfService, Sub, StaysListed
  <2> QED
    BY <2>2, <2>4
<1>3. AckMeansRegistered'
  BY DEF AckMeansRegistered, Acked, RegisterInv, StaysListed, SentInOrder
<1> QED
  BY <1>1, <1>2, <1>3 DEF RegisterInv

LEMMA CallMovesQuietly ==
  ASSUME RegisterInv, NEW c \in Calls, NEW pc, Moved(c, pc), Quiet, Buffer' \in Seq(Received), OfService(c)', OnTheList(c)'
  PROVE  RegisterInv'
BY QuietKeeps, CallMoves DEF RegisterInv, Shaped, Quiet, Moved
Places == Requesting \cup Subscribing \cup {"stamp", "transmit"}

LEMMA MovesAway ==
  ASSUME RegisterInv, NEW c \in Calls, NEW pc, pc \notin Places, Moved(c, pc), Quiet, Buffer' \in Seq(Received)
  PROVE  RegisterInv'
<1>1. OfService(c)' /\ OnTheList(c)'
  BY DEF OfService, OnTheList, Moved, Places, Requesting, Subscribing
<1> QED
  BY <1>1, CallMovesQuietly

(* Within one subframe: the place alone changes.                             *)
LEMMA MovesOn ==
  ASSUME RegisterInv, NEW c \in Calls, NEW pc, Moved(c, pc), Quiet, Buffer' = Buffer, frame[c].sub \in Subframes(c),
         pc \in Requesting => Pkt(c).service = "REQUEST",
         pc \in Subscribing => Pkt(c).service = "SUBSCRIBE",
         Pkt(c).service = "SUBSCRIBE" /\ pc \in (Subscribing \ {"register"}) \cup {"stamp", "transmit"} =>
           Registered(Sub(c).id, Pkt(c).src)
  PROVE  RegisterInv'
<1>1. OfService(c)'
  BY DEF OfService, Moved
<1>2. OnTheList(c)'
  BY DEF OnTheList, Moved, Sub, Registered, Quiet
<1>3. Buffer' \in Seq(Received)
  BY DEF RegisterInv, Shaped
<1> QED
  BY <1>1, <1>2, <1>3, CallMovesQuietly

LEMMA NobodyMoves ==
  ASSUME RegisterInv, UNCHANGED <<frame, Buffer, subscriberRegister>>, SentInOrder
  PROVE  RegisterInv'
<1>1. Shaped' /\ \A c \in Calls : OfService(c)' /\ OnTheList(c)'
  BY DEF RegisterInv, Shaped, OfService, OnTheList, Sub, Registered
<1>2. AckMeansRegistered'
  BY DEF AckMeansRegistered, Acked, RegisterInv, SentInOrder, Registered
<1> QED
  BY <1>1, <1>2 DEF RegisterInv

(* The steps of a REQUEST and those that all services share.                 *)
LEMMA RequestKeeps ==
  ASSUME RegisterInv, NEW c \in Calls,
         HandleEmpty(c) \/ StartSend(c) \/ LookupSubscribers(c) \/ StartRequest(c) \/ QueryLast(c) \/ ReadSynt(c)
           \/ QueryEnd(c) \/ ReadRange(c) \/ HandlePublish(c)
  PROVE  RegisterInv'
<1>0. Shaped /\ Buffer \in Seq(Received) /\ OfService(c)
  BY DEF RegisterInv, Shaped
<1>1. CASE HandleEmpty(c) \/ StartSend(c)
  <2>1. \E pc \in {"done", "lookup"} : Goto(c, pc) /\ Quiet /\ Buffer' = Buffer
    BY <1>1 DEF HandleEmpty, StartSend, Quiet
  <2> QED
    BY <1>0, <2>1, GotoFacts, MovesAway DEF Places, Requesting, Subscribing
<1>2. CASE LookupSubscribers(c)
  <2>1. NextSubframe(c) /\ Quiet /\ Buffer' = Buffer
    BY <1>2 DEF LookupSubscribers, Quiet
  <2>2. Moved(c, frame'[c].pc) \/ frame'[c].pc \in {"done", "handle"}
    BY <1>0, <2>1, NextSubframeFacts
  <2>3. OfService(c)' /\ OnTheList(c)'
    BY <1>0, <2>1, NextSubframeFacts DEF OfService, OnTheList, Requesting, Subscribing
  <2> QED
    BY <1>0, <2>1, <2>3, NextSubframeFacts, QuietKeeps, CallMoves DEF Shaped, Quiet
<1>3. CASE StartRequest(c)
  <2> DEFINE t == Pkt(c).synt
             n == Sub(c).diff
             u == Plus(t, n)
             pc == IF n = 0
                   THEN IF t = TIME_SIMU_LAST THEN "queryLast" ELSE "readSynt"
                   ELSE IF n = PARAMTER_REQUEST_LAST THEN "queryEnd" ELSE "readRange"
  <2>1. /\ frame' = [frame EXCEPT ![c].pc = pc, ![c].synt = t, ![c].end = u]
        /\ Quiet /\ Buffer' = Buffer /\ Pkt(c).service = "REQUEST" /\ frame[c].sub \in Subframes(c)
    BY <1>3 DEF StartRequest, Handles, Quiet
  <2>2. pc \in Requesting
    BY DEF Requesting
  <2> HIDE DEF t, n, u, pc
  <2>3. Moved(c, pc)
    BY <1>0, <2>1, FrameFacts
  <2> QED
    BY <2>1, <2>2, <2>3, MovesOn DEF Requesting, Subscribing
<1>4. CASE QueryLast(c) \/ ReadSynt(c) \/ QueryEnd(c)
  <2>1. /\ \E pc \in Requesting \cup {"stamp"} : \E t :
             \/ frame' = [frame EXCEPT ![c].pc = pc, ![c].synt = t]
             \/ frame' = [frame EXCEPT ![c].pc = pc, ![c].rows = t]
             \/ frame' = [frame EXCEPT ![c].pc = pc, ![c].end = t]
        /\ Quiet /\ Buffer' = Buffer /\ frame[c].pc \in Requesting
    BY <1>4 DEF QueryLast, ReadSynt, QueryEnd, Quiet, Requesting, At
  <2>2. \E pc \in Requesting \cup {"stamp"} : Moved(c, pc)
    BY <1>0, <2>1, FrameFacts
  <2>3. Pkt(c).service = "REQUEST" /\ frame[c].sub \in Subframes(c)
    BY <1>0, <2>1 DEF OfService
  <2> QED
    BY <2>1, <2>2, <2>3, MovesOn DEF Requesting, Subscribing
<1>5. CASE ReadRange(c)
  <2>1. Quiet /\ Buffer' = Buffer /\ frame[c].pc \in Requesting
    BY <1>5 DEF ReadRange, Quiet, Requesting, At
  <2>2. Moved(c, "stamp") \/ Moved(c, "done")
    BY <1>0, <1>5, ReadFacts
  <2>3. Pkt(c).service = "REQUEST" /\ frame[c].sub \in Subframes(c)
    BY <1>0, <2>1 DEF OfService
  <2>4. CASE Moved(c, "stamp")
    BY <2>1, <2>3, <2>4, MovesOn DEF Requesting, Subscribing
  <2>5. CASE Moved(c, "done")
    BY <1>0, <2>1, <2>5, MovesAway DEF Places, Requesting, Subscribing
  <2> QED
    BY <2>2, <2>4, <2>5
<1>6. CASE HandlePublish(c)
  BY <1>6, QuietKeeps, NobodyMoves DEF HandlePublish, Quiet
<1> QED
  BY <1>1, <1>2, <1>3, <1>4, <1>5, <1>6

(* The steps of a SUBSCRIBE up to its reply.                                 *)
LEMMA SubscribeKeeps ==
  ASSUME RegisterInv, NEW c \in Calls, CheckRegister(c) \/ Register(c) \/ CatchUpLast(c) \/ CatchUp(c)
  PROVE  RegisterInv'
<1>0. Shaped /\ Buffer \in Seq(Received) /\ OfService(c) /\ OnTheList(c)
  BY DEF RegisterInv, Shaped
<1>1. CASE CheckRegister(c)
  <2>1. /\ Goto(c, IF Registered(Sub(c).id, Pkt(c).src) THEN "catchUpLast" ELSE "register")
        /\ Quiet /\ Buffer' = Buffer /\ Pkt(c).service = "SUBSCRIBE" /\ frame[c].sub \in Subframes(c)
    BY <1>1 DEF CheckRegister, Handles, Quiet
  <2>2. CASE Registered(Sub(c).id, Pkt(c).src)
    <3>1. Moved(c, "catchUpLast")
      BY <1>0, <2>1, <2>2, GotoFacts
    <3> QED
      BY <2>1, <2>2, <3>1, MovesOn DEF Requesting, Subscribing
  <2>3. CASE ~Registered(Sub(c).id, Pkt(c).src)
    <3>1. Moved(c, "register")
      BY <1>0, <2>1, <2>3, GotoFacts
    <3> QED
      BY <2>1, <3>1, MovesOn DEF Requesting, Subscribing
  <2> QED
    BY <2>2, <2>3
<1>2. CASE Register(c)
  <2> DEFINE id == Sub(c).id
             client == Pkt(c).src
  <2>1. /\ frame[c].pc = "register" /\ Goto(c, "stampAck") /\ UNCHANGED <<Buffer, sent>>
        /\ subscriberRegister' = [subscriberRegister EXCEPT ![id] = Append(@, client)]
    BY <1>2 DEF Register, At
  <2>2. Pkt(c).service = "SUBSCRIBE" /\ frame[c].sub \in Subframes(c) /\ id \in Ids /\ client \in Clients
    BY <1>0, <2>1, CallFacts DEF OfService, Subscribing, Sub
  <2>3. subscriberRegister[id] \in Seq(Clients)
    BY <1>0, <2>2 DEF Shaped
  <2>4. /\ subscriberRegister' \in [Ids -> Seq(Clients)]
        /\ client \in Range(subscriberRegister'[id])
        /\ \A k \in Ids : Range(subscriberRegister[k]) \subseteq Range(subscriberRegister'[k])
    BY <1>0, <2>1, <2>2, <2>3, RegisterGrows DEF Shaped
  <2>5. StaysListed /\ SentInOrder
    BY <2>1, <2>4 DEF StaysListed, SentInOrder, Registered
  <2>6. Moved(c, "stampAck")
    BY <1>0, <2>1, GotoFacts
  <2>7. OfService(c)' /\ OnTheList(c)'
    BY <2>2, <2>4, <2>6 DEF OfService, OnTheList, Moved, Sub, Registered, Requesting, Subscribing
  <2> QED
    BY <1>0, <2>1, <2>4, <2>5, <2>6, <2>7, CallMoves DEF Moved
<1>3. CASE CatchUpLast(c) \/ CatchUp(c)
  <2>1. frame[c].pc \in {"catchUpLast", "catchUp"} /\ Quiet /\ Buffer' = Buffer
    BY <1>3 DEF CatchUpLast, CatchUp, At, Quiet
  <2>2. \E pc \in {"catchUp", "stampAck", "stamp"} : Moved(c, pc)
    BY <1>0, <1>3, CatchUpFacts
  <2>3. /\ Pkt(c).service = "SUBSCRIBE" /\ frame[c].sub \in Subframes(c)
        /\ Registered(Sub(c).id, Pkt(c).src)
    BY <1>0, <2>1 DEF OfService, OnTheList, Subscribing
  <2> QED
    BY <2>1, <2>2, <2>3, MovesOn DEF Requesting, Subscribing
<1> QED
  BY <1>1, <1>2, <1>3

(* Numbering and writing of replies and acknowledgements.                    *)
LEMMA ReplyKeeps ==
  ASSUME RegisterInv, NEW c \in Calls, Stamp(c) \/ Transmit(c) \/ TransmitAck(c) \/ Bump(c)
  PROVE  RegisterInv'
<1>0. Shaped /\ Buffer \in Seq(Received) /\ OfService(c) /\ OnTheList(c) /\ subscriberRegister \in [Ids -> Seq(Clients)]
  BY DEF RegisterInv, Shaped
<1>1. CASE Stamp(c)
  <2>1. /\ Quiet /\ Buffer' = Buffer
        /\ \/ frame[c].pc = "stamp" /\ Moved(c, "transmit")
           \/ frame[c].pc = "stampAck" /\ Moved(c, "transmitAck")
    BY <1>0, <1>1, FrameFacts DEF Stamp, At, Quiet
  <2> QED
    BY <1>0, <2>1, MovesOn DEF OfService, OnTheList, Requesting, Subscribing
<1>2. CASE Transmit(c)
  <2>1. /\ frame[c].pc = "transmit" /\ UNCHANGED <<Buffer, subscriberRegister>>
        /\ \A p \in sent' : p \in sent \/ p.kind = "data"
        /\ \/ Pkt(c).service = "SUBSCRIBE" /\ Goto(c, "stampAck")
           \/ Pkt(c).service = "REQUEST" /\ NextSubframe(c)
           \/ Goto(c, "done")
    BY <1>2 DEF Transmit, At, ReturnError, DataPacket
  <2>2. StaysListed /\ SentInOrder /\ Buffer' \in Seq(Received) /\ subscriberRegister' \in [Ids -> Seq(Clients)]
    BY <1>0, <2>1 DEF StaysListed, SentInOrder, Registered
  <2>3. CASE Pkt(c).service = "SUBSCRIBE" /\ Goto(c, "stampAck")
    <3>1. Moved(c, "stampAck")
      BY <1>0, <2>3, GotoFacts
    <3>2. OfService(c)' /\ OnTheList(c)'
      BY <1>0, <2>1, <2>3, <3>1 DEF OfService, OnTheList, Moved, Sub, Registered, Requesting, Subscribing
    <3> QED
      BY <2>2, <3>1, <3>2, CallMoves DEF Moved
  <2>4. CASE NextSubframe(c)
    <3>1. OfService(c)' /\ OnTheList(c)'
      BY <1>0, <2>4, NextSubframeFacts DEF OfService, OnTheList, Requesting, Subscribing
    <3> QED
      BY <1>0, <2>2, <2>4, <3>1, NextSubframeFacts, CallMoves
  <2>5. CASE Goto(c, "done")
    <3>1. Moved(c, "done")
      BY <1>0, <2>5, GotoFacts
    <3>2. OfService(c)' /\ OnTheList(c)'
      BY <3>1 DEF OfService, OnTheList, Moved, Requesting, Subscribing
    <3> QED
      BY <2>2, <3>1, <3>2, CallMoves DEF Moved
  <2> QED
    BY <2>1, <2>3, <2>4, <2>5
<1>3. CASE TransmitAck(c)
  <2>1. /\ frame[c].pc = "transmitAck" /\ UNCHANGED <<Buffer, subscriberRegister>>
        /\ \A p \in sent' : p \in sent \/ (p.id = Sub(c).id /\ p.dst = Pkt(c).src)
        /\ \E pc \in {"bump", "done"} : Goto(c, pc)
    BY <1>3 DEF TransmitAck, At, ReturnError, Ack
  <2>2. Registered(Sub(c).id, Pkt(c).src) /\ Sub(c).id \in Ids
    BY <1>0, <2>1, CallFacts DEF OfService, OnTheList, Subscribing, Sub
  <2>3. StaysListed /\ SentInOrder /\ Buffer' \in Seq(Received) /\ subscriberRegister' \in [Ids -> Seq(Clients)]
    BY <1>0, <2>1, <2>2 DEF StaysListed, SentInOrder, Registered
  <2>4. \E pc \in {"bump", "done"} : Moved(c, pc)
    BY <1>0, <2>1, GotoFacts
  <2>5. OfService(c)' /\ OnTheList(c)'
    BY <2>4 DEF OfService, OnTheList, Moved, Requesting, Subscribing
  <2> QED
    BY <2>3, <2>4, <2>5, CallMoves DEF Moved
<1>4. CASE Bump(c)
  <2>1. NextSubframe(c) /\ Quiet /\ Buffer' = Buffer
    BY <1>4 DEF Bump, Quiet
  <2>2. OfService(c)' /\ OnTheList(c)'
    BY <1>0, <2>1, NextSubframeFacts DEF OfService, OnTheList, Requesting, Subscribing
  <2> QED
    BY <1>0, <2>1, <2>2, NextSubframeFacts, QuietKeeps, CallMoves DEF Shaped, Quiet
<1> QED
  BY <1>1, <1>2, <1>3, <1>4

LEMMA RegisterStep == RegisterInv /\ [Next]_vars => RegisterInv'
<1> SUFFICES ASSUME RegisterInv, [Next]_vars PROVE RegisterInv'
  OBVIOUS
<1>0. Shaped /\ Buffer \in Seq(Received) /\ Received \subseteq Calls
  BY DEF RegisterInv, Shaped, Received
<1>1. ASSUME NEW c \in Received, Listen(c)
      PROVE  RegisterInv'
  <2>1. Goto(c, "queued") /\ Quiet /\ Buffer' = Append(Buffer, c) /\ c \in Calls
    BY <1>0, <1>1 DEF Listen, Quiet
  <2>2. Buffer' \in Seq(Received)
    BY <1>0, <2>1, AppendProperties
  <2> QED
    BY <1>0, <2>1, <2>2, GotoFacts, MovesAway DEF Places, Requesting, Subscribing
<1>2. ASSUME NEW c \in Calls, CallDirectly(c)
      PROVE  RegisterInv'
  <2>1. Goto(c, "handle") /\ Quiet /\ Buffer' = Buffer
    BY <1>2 DEF CallDirectly, Quiet
  <2> QED
    BY <1>0, <2>1, GotoFacts, MovesAway DEF Places, Requesting, Subscribing
<1>3. CASE Consume
  <2> DEFINE h == Head(Buffer)
             held == UNION {Stored(id) : id \in Ids}
  <2>1. /\ Buffer # <<>> /\ Quiet /\ Buffer' = Tail(Buffer)
        /\ frame' = [frame EXCEPT ![h].pc = "handle", ![h].seen = held]
    BY <1>3 DEF Consume, Quiet
  <2>2. h \in Calls /\ Buffer' \in Seq(Received)
    BY <1>0, <2>1, HeadTailProperties
  <2> HIDE DEF h, held
  <2>3. Moved(h, "handle")
    BY <1>0, <2>1, <2>2, FrameFacts
  <2> QED
    BY <2>1, <2>2, <2>3, MovesAway DEF Places, Requesting, Subscribing
<1>4. ASSUME NEW c \in Calls, CallStep(c)
      PROVE  RegisterInv'
  BY <1>4, RequestKeeps, SubscribeKeeps, ReplyKeeps DEF CallStep
<1>5. CASE \/ \E d \in Records : SendReturns(d)
           \/ \E id \in RecordTables : HandleData(id)
           \/ \E f \in forwards : StampForward(f)
           \/ UNCHANGED vars
  <2>1. UNCHANGED <<frame, Buffer, subscriberRegister, sent>>
    BY <1>5 DEF SendReturns, HandleData, StampForward, vars
  <2> QED
    BY <2>1, QuietKeeps, NobodyMoves DEF Quiet
<1>6. ASSUME NEW f \in forwards, TransmitForward(f)
      PROVE  RegisterInv'
  <2>1. UNCHANGED <<frame, Buffer, subscriberRegister>> /\ \A p \in sent' : p \in sent \/ p.kind = "data"
    BY <1>6 DEF TransmitForward, DataPacket
  <2> QED
    BY <2>1, NobodyMoves DEF SentInOrder
<1> QED
  BY <1>1, <1>2, <1>3, <1>4, <1>5, <1>6 DEF Next

LEMMA RegisterStart == Init => RegisterInv
<1> SUFFICES ASSUME Init PROVE RegisterInv
  OBVIOUS
<1>1. /\ \A c \in Calls : frame[c] = NewFrame("absent")
      /\ frame = [c \in Calls |-> frame[c]]
      /\ Buffer \in Seq(Received) /\ subscriberRegister \in [Ids -> Seq(Clients)] /\ sent = {}
  BY EmptySeq DEF Init
<1>2. \A c \in Calls : IsFrame(frame[c]) /\ frame[c].pc = "absent"
  BY <1>1 DEF NewFrame, IsFrame
<1> QED
  BY <1>1, <1>2 DEF RegisterInv, Shaped, OfService, OnTheList, Requesting, Subscribing, AckMeansRegistered, Acked

LEMMA AlwaysRegisterInv == Spec => []RegisterInv
BY RegisterStart, RegisterStep, PTL DEF Spec

(* A client that was told of its subscription is on the list (server.go:     *)
(* 345-382): the invariant AckMeansRegistered holds, whatever other calls    *)
(* do between the check of the register, the append and the acknowledgement. *)
THEOREM AcknowledgedAreListed == Spec => []AckMeansRegistered
<1>1. RegisterInv => AckMeansRegistered
  BY DEF RegisterInv
<1> QED
  BY <1>1, AlwaysRegisterInv, PTL
-----------------------------------------------------------------------------
(* Repeated registration                                                     *)

(* Calls between the check of the register and the append, and those made    *)
(* by main, which no consumer makes wait.                                    *)
Pending(id, client) == {c \in Calls : frame[c].pc = "register" /\ Sub(c).id = id /\ Pkt(c).src = client}
Direct(client) == {c \in Calls \ Received : Pkt(c).src = client}
Bound(client) == Consumers + Cardinality({p \in DirectCalls : p.src = client})

ActiveBounded == Cardinality(Active) <= Consumers
PendingBounded ==
  \A id \in Ids : \A client \in Clients :
    Cardinality(Entries(id, client)) + Cardinality(Pending(id, client)) <= Bound(client)

LEMMA FiniteCalls == IsFiniteSet(Calls)
<1>0. 1 \in Int /\ Copies \in Int
  BY PacketsAssumption
<1>1. IsFiniteSet(1 .. Copies) /\ IsFiniteSet({0})
  BY <1>0, FS_Interval, FS_Singleton
<1>2. IsFiniteSet(Packets \X (1 .. Copies)) /\ IsFiniteSet(DirectCalls \X {0})
  BY <1>1, PacketsAssumption, FS_Product
<1> QED
  BY <1>2, FS_Union DEF Calls

LEMMA Smaller ==
  ASSUME NEW S, IsFiniteSet(S), NEW T, T \subseteq S
  PROVE  /\ Cardinality(S) \in Nat /\ Cardinality(T) \in Nat
         /\ IsFiniteSet(T) /\ Cardinality(T) <= Cardinality(S)
BY FS_Subset, FS_CardinalityType

LEMMA UnionBounds ==
  ASSUME NEW S, IsFiniteSet(S), NEW T, IsFiniteSet(T), NEW U, U \subseteq S \cup T
  PROVE  Cardinality(U) <= Cardinality(S) + Cardinality(T)
<1>1. /\ IsFiniteSet(S \cup T)
      /\ Cardinality(S \cup T) = Cardinality(S) + Cardinality(T) - Cardinality(S \cap T)
  BY FS_Union
<1>2. S \cap T \subseteq S
  OBVIOUS
<1>3. Cardinality(S) \in Nat /\ Cardinality(T) \in Nat /\ Cardinality(S \cap T) \in Nat
  BY <1>2, Smaller, FS_CardinalityType
<1>4. Cardinality(U) \in Nat /\ Cardinality(U) <= Cardinality(S \cup T)
  BY <1>1, Smaller
<1> QED
  BY <1>1, <1>3, <1>4

(* One direct call of main for each of its packets.                          *)
LEMMA DirectBounded ==
  ASSUME NEW client
  PROVE  /\ IsFiniteSet(Direct(client))
         /\ Cardinality(Direct(client)) <= Cardinality({p \in DirectCalls : p.src = client})
<1> DEFINE P == {p \in DirectCalls : p.src = client}
           D == Direct(client)
           f == [c \in D |-> c[1]]
<1>1. IsFiniteSet(P)
  BY PacketsAssumption, FS_Subset
<1>2. \A c \in D : c = <<c[1], 0>> /\ c[1] \in P
  BY PacketsAssumption DEF Direct, Calls, Received, Pkt
<1>3. f \in [D -> P] /\ \A c, k \in D : f[c] = f[k] => c = k
  BY <1>2
<1>4. f \in Injection(D, P)
  BY <1>3 DEF Injection, IsInjective
<1> QED
  BY <1>1, <1>4, FS_Injection

LEMMA BoundType ==
  ASSUME NEW client
  PROVE  Bound(client) \in Nat /\ Consumers \in Nat
<1>1. IsFiniteSet({p \in DirectCalls : p.src = client})
  BY PacketsAssumption, FS_Subset
<1>2. Cardinality({p \in DirectCalls : p.src = client}) \in Nat
  BY <1>1, FS_CardinalityType
<1> QED
  BY <1>2, BoundsAssumption DEF Bound

LEMMA Countable ==
  ASSUME Shaped, NEW id \in Ids, NEW client
  PROVE  /\ IsFiniteSet(Entries(id, client)) /\ Cardinality(Entries(id, client)) \in Nat
         /\ IsFiniteSet(Pending(id, client)) /\ Cardinality(Pending(id, client)) \in Nat
<1>1. subscriberRegister[id] \in Seq(Clients)
  BY DEF Shaped
<1>2. Len(subscriberRegister[id]) \in Nat /\ DOMAIN subscriberRegister[id] = 1 .. Len(subscriberRegister[id])
  BY <1>1, LenProperties
<1> DEFINE n == Len(subscriberRegister[id])
<1>3. n \in Int /\ 1 \in Int
  BY <1>2
<1> HIDE DEF n
<1>4. IsFiniteSet(1 .. n)
  BY <1>3, FS_Interval
<1>5. Entries(id, client) \subseteq 1 .. Len(subscriberRegister[id])
  BY <1>2 DEF Entries
<1>6. Pending(id, client) \subseteq Calls
  BY DEF Pending
<1> QED
  BY <1>4, <1>5, <1>6, Smaller, FiniteCalls DEF n

(* Where the step of a call can lead, as far as the register is concerned.   *)
LEMMA CallStepFacts ==
  ASSUME Shaped, NEW c \in Calls, CallStep(c)
  PROVE  /\ frame[c].pc \notin {"absent", "queued", "done"} /\ Others(c)
         /\ \/ CheckRegister(c)
            \/ Register(c)
            \/ frame[c].pc # "register" /\ frame'[c].pc # "register" /\ UNCHANGED subscriberRegister
<1> DEFINE Goal == /\ frame[c].pc \notin {"absent", "queued", "done"} /\ Others(c)
                   /\ frame[c].pc # "register" /\ frame'[c].pc # "register" /\ UNCHANGED subscriberRegister
<1>0. IsFrame(frame[c])
  BY DEF Shaped
<1>1. CASE HandleEmpty(c) \/ StartSend(c)
  <2>1. frame[c].pc = "handle" /\ UNCHANGED subscriberRegister /\ \E pc \in {"done", "lookup"} : Goto(c, pc)
    BY <1>1 DEF HandleEmpty, StartSend, Handles, At
  <2> QED
    BY <2>1, GotoFacts DEF Moved
<1>2. CASE LookupSubscribers(c) \/ Bump(c)
  <2>1. frame[c].pc \in {"lookup", "bump"} /\ UNCHANGED subscriberRegister /\ NextSubframe(c)
    BY <1>2 DEF LookupSubscribers, Bump, At
  <2> QED
    BY <2>1, NextSubframeFacts
<1>3. CASE StartRequest(c)
  <2>1. frame[c].pc = "handle" /\ UNCHANGED subscriberRegister /\ Others(c)
    BY <1>3 DEF StartRequest, Handles, At, Shaped, Others
  <2>2. frame'[c].pc # "register"
    BY <1>0, <1>3 DEF StartRequest, Shaped, IsFrame
  <2> QED
    BY <2>1, <2>2
<1>4. CASE QueryLast(c) \/ ReadSynt(c) \/ QueryEnd(c) \/ ReadRange(c) \/ CatchUpLast(c) \/ CatchUp(c) \/ Stamp(c)
  <2>1. frame[c].pc \notin {"absent", "queued", "done", "register"} /\ UNCHANGED subscriberRegister
    BY <1>4 DEF QueryLast, ReadSynt, QueryEnd, ReadRange, CatchUpLast, CatchUp, Stamp, At
  <2>2. Others(c)
    BY <1>4 DEF QueryLast, ReadSynt, QueryEnd, ReadRange, CatchUpLast, CatchUp, Stamp, Goto, ReturnError, Shaped, Others
  <2>3. frame'[c].pc # "register"
    <3>1. CASE QueryLast(c)
      BY <1>0, <3>1 DEF QueryLast, Shaped, IsFrame
    <3>2. CASE ReadSynt(c)
      BY <1>0, <3>2 DEF ReadSynt, Shaped, IsFrame
    <3>3. CASE QueryEnd(c)
      BY <1>0, <3>3 DEF QueryEnd, Shaped, IsFrame
    <3>4. CASE ReadRange(c)
      BY <3>4, ReadFacts DEF Moved
    <3>5. CASE CatchUpLast(c) \/ CatchUp(c)
      BY <3>5, CatchUpFacts DEF Moved
    <3>6. CASE Stamp(c)
      BY <1>0, <3>6 DEF Stamp, Shaped, IsFrame
    <3> QED
      BY <1>4, <3>1, <3>2, <3>3, <3>4, <3>5, <3>6
  <2> QED
    BY <2>1, <2>2, <2>3
<1>5. CASE Transmit(c) \/ TransmitAck(c)
  <2>1. /\ frame[c].pc \in {"transmit", "transmitAck"} /\ UNCHANGED subscriberRegister
        /\ NextSubframe(c) \/ \E pc \in {"stampAck", "bump", "done"} : Goto(c, pc)
    BY <1>5 DEF Transmit, TransmitAck, At, ReturnError
  <2> QED
    BY <2>1, GotoFacts, NextSubframeFacts DEF Moved
<1>6. CASE HandlePublish(c)
  BY <1>6 DEF HandlePublish, At, Others
<1>7. CASE CheckRegister(c) \/ Register(c)
  <2>1. frame[c].pc \in {"handle", "register"} /\ \E pc : Goto(c, pc)
    BY <1>7 DEF CheckRegister, Register, Handles, At
  <2> QED
    BY <1>7, <2>1, GotoFacts DEF Moved
<1> QED
  BY <1>1, <1>2, <1>3, <1>4, <1>5, <1>6, <1>7 DEF CallStep
(* Nobody joins those between check and append, and no list changes.         *)
LEMMA PendingShrinks ==
  ASSUME Shaped, Shaped', PendingBounded, UNCHANGED subscriberRegister,
         \A k \in Calls : frame'[k].pc = "register" => frame'[k] = frame[k]
  PROVE  PendingBounded'
<1> SUFFICES ASSUME NEW id \in Ids, NEW client \in Clients
             PROVE  (Cardinality(Entries(id, client)) + Cardinality(Pending(id, client)) <= Bound(client))'
  BY DEF PendingBounded
<1>1. Entries(id, client)' = Entries(id, client)
  BY DEF Entries
<1>2. Pending(id, client)' \subseteq Pending(id, client)
  BY DEF Pending, Sub
<1>3. /\ Cardinality(Pending(id, client)') \in Nat
      /\ Cardinality(Pending(id, client)') <= Cardinality(Pending(id, client))
      /\ Cardinality(Pending(id, client)) \in Nat /\ Cardinality(Entries(id, client)) \in Nat
  BY <1>2, Countable, Smaller
<1>4. Cardinality(Entries(id, client)) + Cardinality(Pending(id, client)) <= Bound(client)
  BY DEF PendingBounded
<1>5. Cardinality(Entries(id, client)') = Cardinality(Entries(id, client))
  BY <1>1
<1>6. Bound(client)' = Bound(client) /\ Bound(client) \in Nat
  BY BoundType DEF Bound
<1> QED
  BY <1>3, <1>4, <1>5, <1>6

LEMMA CheckBounded ==
  ASSUME RegisterInv, Shaped', PendingBounded, ActiveBounded, NEW c \in Calls, CheckRegister(c)
  PROVE  PendingBounded'
<1>0. Shaped
  BY DEF RegisterInv
<1>1. UNCHANGED subscriberRegister /\ frame[c].pc = "handle" /\ Pkt(c).service = "SUBSCRIBE"
  BY DEF CheckRegister, Handles, At
<1>2. CASE Registered(Sub(c).id, Pkt(c).src)
  <2>1. Moved(c, "catchUpLast")
    BY <1>0, <1>2, GotoFacts DEF CheckRegister
  <2> QED
    BY <1>0, <1>1, <2>1, PendingShrinks DEF Moved, Others
<1>3. CASE ~Registered(Sub(c).id, Pkt(c).src)
  <2>1. Moved(c, "register")
    BY <1>0, <1>3, GotoFacts DEF CheckRegister
  <2> SUFFICES ASSUME NEW id \in Ids, NEW client \in Clients
               PROVE  (Cardinality(Entries(id, client)) + Cardinality(Pending(id, client)) <= Bound(client))'
    BY DEF PendingBounded
  <2>2. Entries(id, client)' = Entries(id, client) /\ Sub(c)' = Sub(c)
    BY <1>1, <2>1 DEF Entries, Moved, Sub
  <2>3. /\ Cardinality(Entries(id, client)) + Cardinality(Pending(id, client)) <= Bound(client)
        /\ Bound(client)' = Bound(client) /\ Bound(client) \in Nat /\ Consumers \in Nat
        /\ Cardinality(Entries(id, client)') = Cardinality(Entries(id, client))
        /\ Cardinality(Entries(id, client)) \in Nat /\ Cardinality(Pending(id, client)) \in Nat
    BY <1>0, <2>2, BoundType, Countable DEF PendingBounded, Bound
  <2>4. CASE id = Sub(c).id /\ client = Pkt(c).src
    <3>1. Entries(id, client) = {}
      BY <1>3, <2>4 DEF Entries, Registered, Range
    <3>2. Pending(id, client)' \subseteq Active \cup Direct(client)
      <4> SUFFICES ASSUME NEW k \in Calls, frame'[k].pc = "register", Pkt(k).src = client, k \in Received
                   PROVE  k \in Active
        BY DEF Pending, Direct
      <4>1. frame[k].pc \in {"handle", "register"}
        BY <1>1, <2>1 DEF Moved, Others
      <4> QED
        BY <4>1 DEF Active
    <3>3. IsFiniteSet(Active) /\ Cardinality(Active) \in Nat
      BY FiniteCalls, Smaller DEF Active, Received
    <3>4. Cardinality(Pending(id, client)') <= Cardinality(Active) + Cardinality(Direct(client))
      BY <3>2, <3>3, DirectBounded, UnionBounds
    <3>5. /\ Cardinality(Direct(client)) \in Nat /\ Cardinality(Pending(id, client)') \in Nat
          /\ Cardinality({p \in DirectCalls : p.src = client}) \in Nat
          /\ Cardinality(Direct(client)) <= Cardinality({p \in DirectCalls : p.src = client})
      <4>1. IsFiniteSet({p \in DirectCalls : p.src = client})
        BY PacketsAssumption, FS_Subset
      <4>2. IsFiniteSet(Pending(id, client)')
        BY FiniteCalls, Smaller DEF Pending
      <4> QED
        BY <4>1, <4>2, DirectBounded, FS_CardinalityType
    <3>6. Cardinality(Entries(id, client)) = 0
      BY <3>1, FS_EmptySet
    <3> QED
      BY <2>3, <3>3, <3>4, <3>5, <3>6 DEF ActiveBounded, Bound
  <2>5. CASE ~(id = Sub(c).id /\ client = Pkt(c).src)
    <3>1. Pending(id, client)' = Pending(id, client)
      BY <1>1, <2>1, <2>2, <2>5 DEF Pending, Moved, Others, Sub
    <3>2. Cardinality(Pending(id, client)') = Cardinality(Pending(id, client))
      BY <3>1
    <3> QED
      BY <2>3, <3>2
  <2> QED
    BY <2>4, <2>5
<1> QED
  BY <1>2, <1>3

LEMMA RegisterBounded ==
  ASSUME RegisterInv, Shaped', PendingBounded, NEW c \in Calls, Register(c)
  PROVE  PendingBounded'
<1> DEFINE i == Sub(c).id
           x == Pkt(c).src
           s == subscriberRegister[i]
<1>0. Shaped /\ OfService(c)
  BY DEF RegisterInv
<1>1. /\ frame[c].pc = "register" /\ Goto(c, "stampAck")
      /\ subscriberRegister' = [subscriberRegister EXCEPT ![i] = Append(s, x)]
  BY DEF Register, At
<1>2. Moved(c, "stampAck")
  BY <1>0, <1>1, GotoFacts
<1>3. i \in Ids /\ x \in Clients
  BY <1>0, <1>1, CallFacts DEF OfService, Subscribing, Sub
<1>4. s \in Seq(Clients) /\ subscriberRegister'[i] = Append(s, x)
      /\ \A id \in Ids : id # i => subscriberRegister'[id] = subscriberRegister[id]
  BY <1>0, <1>1, <1>3 DEF Shaped
<1> SUFFICES ASSUME NEW id \in Ids, NEW client \in Clients
             PROVE  (Cardinality(Entries(id, client)) + Cardinality(Pending(id, client)) <= Bound(client))'
  BY DEF PendingBounded
<1>5. /\ Cardinality(Entries(id, client)) + Cardinality(Pending(id, client)) <= Bound(client)
      /\ Bound(client)' = Bound(client) /\ Bound(client) \in Nat
      /\ IsFiniteSet(Entries(id, client)) /\ IsFiniteSet(Pending(id, client))
      /\ Cardinality(Entries(id, client)) \in Nat /\ Cardinality(Pending(id, client)) \in Nat
  BY <1>0, BoundType, Countable DEF PendingBounded, Bound
<1>6. CASE id = i /\ client = x
  <2>1. /\ DOMAIN Append(s, x) = 1 .. Len(s) + 1 /\ DOMAIN s = 1 .. Len(s) /\ Len(s) \in Nat
        /\ Append(s, x)[Len(s) + 1] = x /\ \A k \in 1 .. Len(s) : Append(s, x)[k] = s[k]
    BY <1>3, <1>4, RegisterGrows
  <2> DEFINE n == Len(s) + 1
  <2>2. Entries(id, client)' = Entries(id, client) \cup {n}
    <3>1. /\ Entries(id, client)' = {k \in DOMAIN Append(s, x) : Append(s, x)[k] = x}
          /\ Entries(id, client) = {k \in DOMAIN s : s[k] = x}
      BY <1>4, <1>6 DEF Entries
    <3> HIDE DEF s
    <3> QED
      BY <2>1, <3>1
  <2>3. n \notin Entries(id, client)
    BY <1>6, <2>1 DEF Entries
  <2>4. Cardinality(Entries(id, client)') = Cardinality(Entries(id, client)) + 1
    BY <1>5, <2>2, <2>3, FS_AddElement
  <2>5. Pending(id, client)' = Pending(id, client) \ {c} /\ c \in Pending(id, client)
    BY <1>1, <1>2, <1>6 DEF Pending, Moved, Others, Sub
  <2>6. Cardinality(Pending(id, client)') = Cardinality(Pending(id, client)) - 1
    BY <1>5, <2>5, FS_RemoveElement
  <2> QED
    BY <1>5, <2>4, <2>6
<1>7. CASE ~(id = i /\ client = x)
  <2>1. Pending(id, client)' = Pending(id, client)
    BY <1>1, <1>2, <1>7 DEF Pending, Moved, Others, Sub
  <2>2. Entries(id, client)' = Entries(id, client)
    <3>1. CASE id # i
      BY <1>4, <3>1 DEF Entries
    <3>2. CASE id = i /\ client # x
      <4>1. /\ Entries(id, client)' = {k \in DOMAIN Append(s, x) : Append(s, x)[k] = client}
            /\ Entries(id, client) = {k \in DOMAIN s : s[k] = client}
        BY <1>4, <3>2 DEF Entries
      <4>2. /\ DOMAIN Append(s, x) = 1 .. Len(s) + 1 /\ DOMAIN s = 1 .. Len(s) /\ Len(s) \in Nat
            /\ Append(s, x)[Len(s) + 1] = x /\ \A k \in 1 .. Len(s) : Append(s, x)[k] = s[k]
        BY <1>3, <1>4, RegisterGrows
      <4> HIDE DEF s
      <4> QED
        BY <3>2, <4>1, <4>2
    <3> QED
      BY <1>7, <3>1, <3>2
  <2>3. /\ Cardinality(Pending(id, client)') = Cardinality(Pending(id, client))
        /\ Cardinality(Entries(id, client)') = Cardinality(Entries(id, client))
    BY <2>1, <2>2
  <2> QED
    BY <1>5, <2>3
<1> QED
  BY <1>6, <1>7

(* A consumer takes its next packet only when it has finished the last one.  *)
LEMMA ActiveStep ==
  ASSUME Shaped, ActiveBounded, [Next]_vars
  PROVE  ActiveBounded'
<1>0. IsFiniteSet(Active) /\ Cardinality(Active) \in Nat /\ Consumers \in Nat /\ Received \subseteq Calls
  BY FiniteCalls, Smaller, BoundType DEF Active, Received
<1>1. CASE Consume
  <2> DEFINE h == Head(Buffer)
  <2>1. Cardinality(Active) < Consumers /\ \A k \in Calls : k # h => frame'[k] = frame[k]
    BY <1>1 DEF Consume, Shaped
  <2>2. Active' \subseteq Active \cup {h}
    BY <1>0, <2>1 DEF Active
  <2>3. IsFiniteSet({h}) /\ Cardinality({h}) = 1
    BY FS_Singleton
  <2>4. Cardinality(Active') <= Cardinality(Active) + 1
    BY <1>0, <2>2, <2>3, UnionBounds
  <2>5. IsFiniteSet(Active') /\ Cardinality(Active') \in Nat
    BY FiniteCalls, Smaller DEF Active, Received
  <2> QED
    BY <1>0, <2>1, <2>4, <2>5 DEF ActiveBounded
<1>2. CASE ~Consume
  <2>1. Active' \subseteq Active
    <3>1. ASSUME NEW c \in Calls, Listen(c) \/ (c \in Calls \ Received /\ CallDirectly(c))
          PROVE  Active' \subseteq Active
      <4>1. \E pc : Goto(c, pc) /\ (c \in Received => pc = "queued")
        BY <3>1 DEF Listen, CallDirectly
      <4> QED
        BY <1>0, <4>1, GotoFacts DEF Moved, Others, Active
    <3>2. ASSUME NEW c \in Calls, CallStep(c)
          PROVE  Active' \subseteq Active
      BY <1>0, <3>2, CallStepFacts DEF Others, Active
    <3>3. CASE UNCHANGED frame
      BY <3>3 DEF Active
    <3>4. \/ \E c \in Calls : Listen(c) \/ (c \in Calls \ Received /\ CallDirectly(c)) \/ CallStep(c)
          \/ UNCHANGED frame
      BY <1>0, <1>2 DEF Next, SendReturns, HandleData, StampForward, TransmitForward, vars
    <3> QED
      BY <3>1, <3>2, <3>3, <3>4
  <2>2. Cardinality(Active') \in Nat /\ Cardinality(Active') <= Cardinality(Active)
    BY <1>0, <2>1, Smaller
  <2> QED
    BY <1>0, <2>2 DEF ActiveBounded
<1> QED
  BY <1>1, <1>2

LEMMA PendingStep ==
  ASSUME RegisterInv, RegisterInv', ActiveBounded, PendingBounded, [Next]_vars
  PROVE  PendingBounded'
<1>0. Shaped /\ Shaped' /\ Received \subseteq Calls /\ Buffer \in Seq(Received)
  BY DEF RegisterInv, Shaped, Received
<1>1. ASSUME NEW c \in Calls, CallStep(c)
      PROVE  PendingBounded'
  <2>1. CASE CheckRegister(c)
    BY <1>0, <2>1, CheckBounded
  <2>2. CASE Register(c)
    BY <1>0, <2>2, RegisterBounded
  <2>3. CASE frame'[c].pc # "register" /\ UNCHANGED subscriberRegister /\ Others(c)
    BY <1>0, <2>3, PendingShrinks DEF Others
  <2> QED
    BY <1>0, <1>1, <2>1, <2>2, <2>3, CallStepFacts
<1>2. ASSUME NEW c \in Calls, Listen(c) \/ CallDirectly(c)
      PROVE  PendingBounded'
  <2>1. UNCHANGED subscriberRegister /\ \E pc \in {"queued", "handle"} : Goto(c, pc)
    BY <1>2 DEF Listen, CallDirectly
  <2>2. \A k \in Calls : frame'[k].pc = "register" => frame'[k] = frame[k]
    BY <1>0, <2>1, GotoFacts DEF Moved, Others
  <2> QED
    BY <1>0, <2>1, <2>2, PendingShrinks
<1>3. CASE Consume
  <2> DEFINE h == Head(Buffer)
             held == UNION {Stored(id) : id \in Ids}
  <2>1. /\ Buffer # <<>> /\ UNCHANGED subscriberRegister
        /\ frame' = [frame EXCEPT ![h].pc = "handle", ![h].seen = held]
    BY <1>3 DEF Consume
  <2>2. h \in Calls
    BY <1>0, <2>1, HeadTailProperties
  <2> HIDE DEF h, held
  <2>3. Moved(h, "handle")
    BY <1>0, <2>1, <2>2, FrameFacts
  <2>4. \A k \in Calls : frame'[k].pc = "register" => frame'[k] = frame[k]
    BY <2>3 DEF Moved, Others
  <2> QED
    BY <1>0, <2>1, <2>4, PendingShrinks
<1>4. CASE UNCHANGED <<frame, subscriberRegister>>
  BY <1>0, <1>4, PendingShrinks
<1>5. \/ \E c \in Calls : Listen(c) \/ CallDirectly(c) \/ CallStep(c)
      \/ Consume
      \/ UNCHANGED <<frame, subscriberRegister>>
  BY <1>0 DEF Next, SendReturns, HandleData, StampForward, TransmitForward, vars
<1> QED
  BY <1>1, <1>2, <1>3, <1>4, <1>5

LEMMA BoundsStart == Init => ActiveBounded /\ PendingBounded
<1> SUFFICES ASSUME Init PROVE ActiveBounded /\ PendingBounded
  OBVIOUS
<1>1. \A c \in Calls : frame[c].pc = "absent"
  BY DEF Init, NewFrame
<1>2. Active = {} /\ \A id \in Ids, client \in Clients : Entries(id, client) = {} /\ Pending(id, client) = {}
  BY <1>1 DEF Init, Active, Entries, Pending, Received
<1>3. Cardinality({}) = 0 /\ Consumers \in Nat
  BY FS_EmptySet, BoundType
<1>4. ActiveBounded
  BY <1>2, <1>3 DEF ActiveBounded
<1>5. ASSUME NEW id \in Ids, NEW client \in Clients
      PROVE  Cardinality(Entries(id, client)) + Cardinality(Pending(id, client)) <= Bound(client)
  <2>1. Cardinality(Entries(id, client)) = 0 /\ Cardinality(Pending(id, client)) = 0 /\ Bound(client) \in Nat
    BY <1>2, <1>3, BoundType
  <2> QED
    BY <2>1
<1> QED
  BY <1>4, <1>5 DEF PendingBounded

(* A client is on a list at most once per goroutine that can be between the  *)
(* check under the read lock and the append (server.go:346-364), however     *)
(* many SUBSCRIBEs it sends and the network repeats: DuplicatesBounded.      *)
THEOREM RepeatsAreBounded == Spec => []DuplicatesBounded
<1>1. RegisterInv /\ ActiveBounded /\ PendingBounded => DuplicatesBounded
  <2> SUFFICES ASSUME RegisterInv, PendingBounded, NEW id \in Ids, NEW client \in Clients
               PROVE  Cardinality(Entries(id, client)) <= Bound(client)
    BY DEF DuplicatesBounded, Bound
  <2>1. /\ Cardinality(Entries(id, client)) + Cardinality(Pending(id, client)) <= Bound(client)
        /\ Cardinality(Entries(id, client)) \in Nat /\ Cardinality(Pending(id, client)) \in Nat
        /\ Bound(client) \in Nat
    BY Countable, BoundType DEF RegisterInv, PendingBounded
  <2> QED
    BY <2>1
<1>2. RegisterInv /\ RegisterInv' /\ ActiveBounded /\ PendingBounded /\ [Next]_vars => ActiveBounded' /\ PendingBounded'
  BY ActiveStep, PendingStep DEF RegisterInv
<1> QED
  BY <1>1, <1>2, BoundsStart, AlwaysRegisterInv, PTL DEF Spec

(* A client that holds an acknowledgement is not put on the list again       *)
(* (server.go:346-364): the action property AckEndsRegistration.             *)
THEOREM AcknowledgementIsFinal == Spec => AckEndsRegistration
<1> DEFINE Again == \A c \in Calls : frame[c].pc = "handle" /\ frame'[c].pc = "register" => ~Acked(Sub(c).id, Pkt(c).src)
<1>1. RegisterInv /\ [Next]_vars => [Again]_vars
  <2> SUFFICES ASSUME RegisterInv, Next, NEW c \in Calls, frame[c].pc = "handle", frame'[c].pc = "register"
               PROVE  ~Acked(Sub(c).id, Pkt(c).src)
    BY DEF Again
  <2>0. Shaped /\ Received \subseteq Calls /\ Buffer \in Seq(Received)
    BY DEF RegisterInv, Shaped, Received
  <2>1. CheckRegister(c)
    <3>1. ASSUME NEW k \in Calls, CallStep(k)
          PROVE  CheckRegister(c)
      BY <2>0, <3>1, CallStepFacts DEF Others, CheckRegister, Register, Handles, At
    <3>2. ASSUME NEW k \in Calls, Listen(k) \/ CallDirectly(k)
          PROVE  CheckRegister(c)
      <4>1. \E pc \in {"queued", "handle"} : Goto(k, pc)
        BY <3>2 DEF Listen, CallDirectly
      <4> QED
        BY <2>0, <4>1, GotoFacts DEF Moved, Others
    <3>3. CASE Consume
      <4> DEFINE h == Head(Buffer)
                 held == UNION {Stored(id) : id \in Ids}
      <4>1. Buffer # <<>> /\ frame' = [frame EXCEPT ![h].pc = "handle", ![h].seen = held]
        BY <3>3 DEF Consume
      <4>2. h \in Calls
        BY <2>0, <4>1, HeadTailProperties
      <4> HIDE DEF h, held
      <4>3. Moved(h, "handle")
        BY <2>0, <4>1, <4>2, FrameFacts
      <4> QED
        BY <4>3 DEF Moved, Others
    <3>4. CASE UNCHANGED frame
      BY <3>4
    <3>5. \/ \E k \in Calls : Listen(k) \/ CallDirectly(k) \/ CallStep(k)
          \/ Consume
          \/ UNCHANGED frame
      BY <2>0 DEF Next, SendReturns, HandleData, StampForward, TransmitForward
    <3> QED
      BY <3>1, <3>2, <3>3, <3>4, <3>5
  <2>2. frame[c].sub \in Subframes(c) /\ ~Registered(Sub(c).id, Pkt(c).src)
    <3>1. Registered(Sub(c).id, Pkt(c).src) => Moved(c, "catchUpLast")
      BY <2>0, <2>1, GotoFacts DEF CheckRegister
    <3> QED
      BY <2>1, <3>1 DEF CheckRegister, Handles, Moved
  <2>3. Sub(c).id \in Ids /\ Pkt(c).src \in Clients
    BY <2>2, CallFacts DEF Sub
  <2> QED
    BY <2>2, <2>3 DEF RegisterInv, AckMeansRegistered
<1> QED
  BY <1>1, AlwaysRegisterInv, PTL DEF Spec, AckEndsRegistration, Again
-----------------------------------------------------------------------------
(* What each step makes of the locals of its call                            *)

Local(pc, sub, synt, end, list, seq, seen) ==
  [pc |-> pc, sub |-> sub, synt |-> synt, end |-> end, rows |-> list, seq |-> seq, seen |-> seen]
Becomes(c, g) == frame' = [k \in Calls |-> frame'[k]] /\ Others(c) /\ frame'[c] = g

LEMMA BecomesFacts ==
  ASSUME Shaped, NEW c \in Calls, NEW pc, NEW t, NEW u, NEW l
  PROVE  LET f == frame[c] IN
         /\ Goto(c, pc) => Becomes(c, Local(pc, f.sub, f.synt, f.end, f.rows, f.seq, f.seen))
         /\ frame' = [frame EXCEPT ![c].pc = pc, ![c].seq = t] =>
              Becomes(c, Local(pc, f.sub, f.synt, f.end, f.rows, t, f.seen))
         /\ frame' = [frame EXCEPT ![c].pc = pc, ![c].seen = t] =>
              Becomes(c, Local(pc, f.sub, f.synt, f.end, f.rows, f.seq, t))
         /\ frame' = [frame EXCEPT ![c].pc = pc, ![c].synt = t] =>
              Becomes(c, Local(pc, f.sub, t, f.end, f.rows, f.seq, f.seen))
         /\ frame' = [frame EXCEPT ![c].pc = pc, ![c].end = t] =>
              Becomes(c, Local(pc, f.sub, f.synt, t, f.rows, f.seq, f.seen))
         /\ frame' = [frame EXCEPT ![c].pc = pc, ![c].rows = l] =>
              Becomes(c, Local(pc, f.sub, f.synt, f.end, l, f.seq, f.seen))
         /\ frame' = [frame EXCEPT ![c].pc = pc, ![c].synt = t, ![c].end = u] =>
              Becomes(c, Local(pc, f.sub, t, u, f.rows, f.seq, f.seen))
         /\ frame' = [frame EXCEPT ![c].pc = pc, ![c].rows = l, ![c].synt = t, ![c].end = u] =>
              Becomes(c, Local(pc, f.sub, t, u, l, f.seq, f.seen))
         /\ frame' = [frame EXCEPT ![c].synt = t, ![c].rows = l] =>
              Becomes(c, Local(f.pc, f.sub, t, f.end, l, f.seq, f.seen))
<1> USE DEF Becomes, IsFrame, Local
<1> DEFINE f == frame[c]
<1>0. IsFrame(frame[c])
  BY DEF Shaped
<1>1. ASSUME Goto(c, pc) PROVE Becomes(c, Local(pc, f.sub, f.synt, f.end, f.rows, f.seq, f.seen))
  BY <1>0, <1>1 DEF Goto, Shaped, Others
<1>2. ASSUME frame' = [frame EXCEPT ![c].pc = pc, ![c].seq = t]
      PROVE  Becomes(c, Local(pc, f.sub, f.synt, f.end, f.rows, t, f.seen))
  BY <1>0, <1>2 DEF Shaped, Others
<1>3. ASSUME frame' = [frame EXCEPT ![c].pc = pc, ![c].seen = t]
      PROVE  Becomes(c, Local(pc, f.sub, f.synt, f.end, f.rows, f.seq, t))
  BY <1>0, <1>3 DEF Shaped, Others
<1>4. ASSUME frame' = [frame EXCEPT ![c].pc = pc, ![c].synt = t]
      PROVE  Becomes(c, Local(pc, f.sub, t, f.end, f.rows, f.seq, f.seen))
  BY <1>0, <1>4 DEF Shaped, Others
<1>5. ASSUME frame' = [frame EXCEPT ![c].pc = pc, ![c].end = t]
      PROVE  Becomes(c, Local(pc, f.sub, f.synt, t, f.rows, f.seq, f.seen))
  BY <1>0, <1>5 DEF Shaped, Others
<1>6. ASSUME frame' = [frame EXCEPT ![c].pc = pc, ![c].rows = l]
      PROVE  Becomes(c, Local(pc, f.sub, f.synt, f.end, l, f.seq, f.seen))
  BY <1>0, <1>6 DEF Shaped, Others
<1>7. ASSUME frame' = [frame EXCEPT ![c].pc = pc, ![c].synt = t, ![c].end = u]
      PROVE  Becomes(c, Local(pc, f.sub, t, u, f.rows, f.seq, f.seen))
  BY <1>0, <1>7 DEF Shaped, Others
<1>8. ASSUME frame' = [frame EXCEPT ![c].pc = pc, ![c].rows = l, ![c].synt = t, ![c].end = u]
      PROVE  Becomes(c, Local(pc, f.sub, t, u, l, f.seq, f.seen))
  BY <1>0, <1>8 DEF Shaped, Others
<1>9. ASSUME frame' = [frame EXCEPT ![c].synt = t, ![c].rows = l]
      PROVE  Becomes(c, Local(f.pc, f.sub, t, f.end, l, f.seq, f.seen))
  BY <1>0, <1>9 DEF Shaped, Others
<1> QED
  BY <1>1, <1>2, <1>3, <1>4, <1>5, <1>6, <1>7, <1>8, <1>9

LEMMA NextSubframeBecomes ==
  ASSUME Shaped, NEW c \in Calls, NextSubframe(c)
  PROVE  \E pc \in {"done", "handle"} : Becomes(c, Local(pc, frame[c].sub + 1, 0, 0, <<>>, 0, frame[c].seen))
<1> DEFINE p == IF frame[c].sub = Len(Pkt(c).subs) THEN "done" ELSE "handle"
           n == frame[c].sub + 1
           s == frame[c].seen
           f == NewFrame(p)
           g == [f EXCEPT !.sub = n, !.seen = s]
<1>1. frame' = [frame EXCEPT ![c] = g]
  BY DEF NextSubframe
<1>2. p \in {"done", "handle"}
  OBVIOUS
<1> HIDE DEF p, n, s
<1>3. /\ f = [pc |-> f.pc, sub |-> f.sub, synt |-> f.synt, end |-> f.end, rows |-> f.rows, seq |-> f.seq,
              seen |-> f.seen]
      /\ f.pc = p /\ f.synt = 0 /\ f.end = 0 /\ f.rows = <<>> /\ f.seq = 0
  BY DEF NewFrame
<1>4. g = [f EXCEPT !.sub = n, !.seen = s]
  OBVIOUS
<1> HIDE DEF f, g
<1>5. g = Local(p, n, 0, 0, <<>>, 0, s)
  BY <1>3, <1>4 DEF Local
<1>6. Becomes(c, g)
  BY <1>1, FrameChange DEF Becomes
<1> QED
  BY <1>2, <1>5, <1>6 DEF n, s

-----------------------------------------------------------------------------
(* Types                                                                     *)

Times == 0 .. TIME_SIMU_LAST
Locals == [pc : PCs, sub : Nat \ {0}, synt : Times, end : Times, rows : Rows, seq : Numbers, seen : SUBSET Records]
Forwards ==
  [call : Received, sub : Nat, slot : Nat, dst : Clients, stamped : BOOLEAN, seq : Numbers]

(* A call that looks subscribers up has a subframe with a record.            *)
Looking(c) == frame[c].pc = "lookup" => Pkt(c).service = "SEND" /\ frame[c].sub \in Subframes(c)
TypeInv == RegisterInv /\ TypeOK /\ \A c \in Calls : Looking(c)

LEMMA Numeric ==
  /\ TIME_SIMU_LAST \in Nat /\ TIME_SIMU_LAST # 0
  /\ PARAMTER_REQUEST_LAST \in Nat /\ PARAMTER_REQUEST_LAST # 0
  /\ SEQUENCES \in Nat /\ SEQUENCES # 0
  /\ 0 \in Times /\ 0 \in Numbers /\ TIME_SIMU_LAST \in Times /\ Times \subseteq Nat
BY BoundsAssumption DEF Times, Numbers

LEMMA PlusFacts ==
  ASSUME NEW t \in Nat, NEW n \in Nat
  PROVE  Plus(t, n) \in Times /\ (t + n <= TIME_SIMU_LAST => Plus(t, n) = t + n)
<1>1. TIME_SIMU_LAST + 1 \in Nat \ {0} /\ t + n \in Nat /\ TIME_SIMU_LAST \in Nat
  BY Numeric
<1>2. (t + n) % (TIME_SIMU_LAST + 1) \in 0 .. TIME_SIMU_LAST
  BY <1>1
<1>3. t + n <= TIME_SIMU_LAST => (t + n) % (TIME_SIMU_LAST + 1) = t + n
  BY <1>1
<1> QED
  BY <1>2, <1>3 DEF Plus, Times

LEMMA SubframeFacts ==
  ASSUME NEW c \in Calls, NEW i \in Subframes(c)
  PROVE  /\ Pkt(c).subs[i].id \in Ids /\ Pkt(c).subs[i].diff \in 0 .. PARAMTER_REQUEST_LAST
         /\ Pkt(c).synt \in Times
BY CallFacts DEF PacketOK, SubframeOK, Subframes, Times

LEMMA RecordFacts ==
  ASSUME NEW d \in Records
  PROVE  Iter(d) \in Times /\ IdOfRecord[d] \in Ids
<1>1. PICK c \in {k \in Received : Pkt(k).service = "SEND"} : d \in {c} \X Subframes(c)
  BY DEF Records
<1>2. c \in Calls /\ d[1] = c /\ d[2] \in Subframes(c)
  BY <1>1 DEF Received
<1> DEFINE i == d[2]
<1>3. Pkt(c).subs[i].diff \in 0 .. PARAMTER_REQUEST_LAST /\ Pkt(c).synt \in Times /\ Pkt(c).subs[i].id \in Ids
  BY <1>2, SubframeFacts
<1> HIDE DEF i
<1>4. Pkt(c).subs[i].diff \in Nat /\ Pkt(c).synt \in Nat
  BY <1>3, Numeric DEF Times
<1> QED
  BY <1>2, <1>3, <1>4, PlusFacts DEF Iter, IdOfRecord, i

LEMMA StoredFacts ==
  ASSUME TypeOK, NEW id
  PROVE  Stored(id) \subseteq Records
<1>1. CASE id \in RecordTables
  <2>1. rows[id] \in Seq(Records)
    BY <1>1 DEF TypeOK
  <2> QED
    BY <1>1, <2>1, ElementOfSeq, LenProperties DEF Stored, Range
<1>2. CASE id \notin RecordTables
  BY <1>2 DEF Stored
<1> QED
  BY <1>1, <1>2

-----------------------------------------------------------------------------
(* The steps of a call                                                       *)

Same(c, pc) ==
  Becomes(c, Local(pc, frame[c].sub, frame[c].synt, frame[c].end, frame[c].rows, frame[c].seq, frame[c].seen))
After(c) == \E pc \in {"done", "handle"} : Becomes(c, Local(pc, frame[c].sub + 1, 0, 0, <<>>, 0, frame[c].seen))
Reads(c, pc, synt, end) == Becomes(c, Local(pc, frame[c].sub, synt, end, frame[c].rows, frame[c].seq, frame[c].seen))
Answers(c, list) == Becomes(c, Local("stamp", frame[c].sub, frame[c].synt, frame[c].end, list, frame[c].seq, frame[c].seen))
Collects(c, pc, synt, end, list) == Becomes(c, Local(pc, frame[c].sub, synt, end, list, frame[c].seq, frame[c].seen))
Numbered(c, pc) ==
  Becomes(c, Local(pc, frame[c].sub, frame[c].synt, frame[c].end, frame[c].rows, Sequence, frame[c].seen))

LEMMA GotoBecomes ==
  ASSUME Shaped, NEW c \in Calls, NEW pc, Goto(c, pc)
  PROVE  Same(c, pc)
BY BecomesFacts DEF Same

LEMMA RequestSteps ==
  ASSUME Shaped, NEW c \in Calls
  PROVE  /\ StartRequest(c) =>
              LET t == Pkt(c).synt
                  n == Sub(c).diff
              IN /\ frame[c].pc = "handle" /\ Pkt(c).service = "REQUEST" /\ frame[c].sub \in Subframes(c)
                 /\ \/ n = 0 /\ t = TIME_SIMU_LAST /\ Reads(c, "queryLast", t, Plus(t, n))
                    \/ n = 0 /\ t # TIME_SIMU_LAST /\ Reads(c, "readSynt", t, Plus(t, n))
                    \/ n # 0 /\ n = PARAMTER_REQUEST_LAST /\ Reads(c, "queryEnd", t, Plus(t, n))
                    \/ n # 0 /\ n # PARAMTER_REQUEST_LAST /\ Reads(c, "readRange", t, Plus(t, n))
         /\ QueryLast(c) =>
              /\ frame[c].pc = "queryLast"
              /\ \E t \in LastSynts(Sub(c).id) : Reads(c, "readSynt", t, frame[c].end)
         /\ QueryEnd(c) =>
              /\ frame[c].pc = "queryEnd"
              /\ \E t \in LastSynts(Sub(c).id) : Reads(c, "readRange", frame[c].synt, t)
         /\ ReadSynt(c) =>
              /\ frame[c].pc = "readSynt"
              /\ \E r \in RowsAt(Sub(c).id, frame[c].synt) : Answers(c, <<r>>)
         /\ ReadRange(c) =>
              /\ frame[c].pc = "readRange"
              /\ \/ Same(c, "done")
                 \/ /\ Sub(c).id \in RecordTables
                    /\ LET found == RowsBetween(Sub(c).id, frame[c].synt, frame[c].end)
                       IN \E k \in IF DBMayFail THEN 0 .. Len(found) ELSE {Len(found)} :
                            Answers(c, SubSeq(found, 1, k))
<1>1. ASSUME StartRequest(c)
      PROVE  LET t == Pkt(c).synt
                 n == Sub(c).diff
             IN /\ frame[c].pc = "handle" /\ Pkt(c).service = "REQUEST" /\ frame[c].sub \in Subframes(c)
                /\ \/ n = 0 /\ t = TIME_SIMU_LAST /\ Reads(c, "queryLast", t, Plus(t, n))
                   \/ n = 0 /\ t # TIME_SIMU_LAST /\ Reads(c, "readSynt", t, Plus(t, n))
                   \/ n # 0 /\ n = PARAMTER_REQUEST_LAST /\ Reads(c, "queryEnd", t, Plus(t, n))
                   \/ n # 0 /\ n # PARAMTER_REQUEST_LAST /\ Reads(c, "readRange", t, Plus(t, n))
  <2> DEFINE t == Pkt(c).synt
             n == Sub(c).diff
             u == Plus(t, n)
             pc == IF n = 0
                   THEN IF t = TIME_SIMU_LAST THEN "queryLast" ELSE "readSynt"
                   ELSE IF n = PARAMTER_REQUEST_LAST THEN "queryEnd" ELSE "readRange"
  <2>1. /\ frame' = [frame EXCEPT ![c].pc = pc, ![c].synt = t, ![c].end = u]
        /\ frame[c].pc = "handle" /\ Pkt(c).service = "REQUEST" /\ frame[c].sub \in Subframes(c)
    BY <1>1 DEF StartRequest, Handles, At
  <2>2. \/ n = 0 /\ t = TIME_SIMU_LAST /\ pc = "queryLast"
        \/ n = 0 /\ t # TIME_SIMU_LAST /\ pc = "readSynt"
        \/ n # 0 /\ n = PARAMTER_REQUEST_LAST /\ pc = "queryEnd"
        \/ n # 0 /\ n # PARAMTER_REQUEST_LAST /\ pc = "readRange"
    OBVIOUS
  <2> HIDE DEF t, n, u, pc
  <2>3. Reads(c, pc, t, u)
    BY <2>1, BecomesFacts DEF Reads
  <2> QED
    BY <2>1, <2>2, <2>3 DEF t, n, u
<1>2. ASSUME QueryLast(c)
      PROVE  frame[c].pc = "queryLast" /\ \E t \in LastSynts(Sub(c).id) : Reads(c, "readSynt", t, frame[c].end)
  BY <1>2, BecomesFacts DEF QueryLast, At, Reads
<1>3. ASSUME QueryEnd(c)
      PROVE  frame[c].pc = "queryEnd" /\ \E t \in LastSynts(Sub(c).id) : Reads(c, "readRange", frame[c].synt, t)
  BY <1>3, BecomesFacts DEF QueryEnd, At, Reads
<1>4. ASSUME ReadSynt(c)
      PROVE  frame[c].pc = "readSynt" /\ \E r \in RowsAt(Sub(c).id, frame[c].synt) : Answers(c, <<r>>)
  BY <1>4, BecomesFacts DEF ReadSynt, At, Answers
<1>5. ASSUME ReadRange(c)
      PROVE  /\ frame[c].pc = "readRange"
             /\ \/ Same(c, "done")
                \/ /\ Sub(c).id \in RecordTables
                   /\ LET found == RowsBetween(Sub(c).id, frame[c].synt, frame[c].end)
                      IN \E k \in IF DBMayFail THEN 0 .. Len(found) ELSE {Len(found)} :
                           Answers(c, SubSeq(found, 1, k))
  <2> DEFINE found == RowsBetween(Sub(c).id, frame[c].synt, frame[c].end)
             ks == IF DBMayFail THEN 0 .. Len(found) ELSE {Len(found)}
  <2>1. /\ frame[c].pc = "readRange"
        /\ \/ Goto(c, "done")
           \/ /\ Sub(c).id \in RecordTables
              /\ \E k \in ks : frame' = [frame EXCEPT ![c].pc = "stamp", ![c].rows = SubSeq(found, 1, k)]
    BY <1>5 DEF ReadRange, At, ReturnError
  <2> HIDE DEF found, ks
  <2>2. \/ Same(c, "done")
        \/ /\ Sub(c).id \in RecordTables
           /\ \E k \in ks : Answers(c, SubSeq(found, 1, k))
    BY <2>1, BecomesFacts DEF Same, Answers
  <2> QED
    BY <2>1, <2>2 DEF found, ks
<1> QED
  BY <1>1, <1>2, <1>3, <1>4, <1>5

LEMMA CatchUpSteps ==
  ASSUME Shaped, NEW c \in Calls
  PROVE  /\ CatchUpLast(c) =>
              /\ frame[c].pc = "catchUpLast"
              /\ \/ Same(c, "stampAck")
                 \/ \E last \in LastSynts(Sub(c).id) :
                      Pkt(c).synt <= last /\ Collects(c, "catchUp", Pkt(c).synt, last, <<>>)
         /\ CatchUp(c) =>
              /\ frame[c].pc = "catchUp"
              /\ \/ /\ frame[c].synt <= frame[c].end
                    /\ \E r \in RowsAt(Sub(c).id, frame[c].synt) :
                         LET list == frame[c].rows
                         IN Collects(c, "catchUp", Plus(frame[c].synt, 1), frame[c].end,
                                     IF Len(list) > TIME_SIMU_LAST THEN list ELSE Append(list, r))
                 \/ /\ ~(frame[c].synt <= frame[c].end)
                    /\ Reads(c, "stamp", Pkt(c).synt, frame[c].end)
<1>1. ASSUME CatchUpLast(c)
      PROVE  /\ frame[c].pc = "catchUpLast"
             /\ \/ Same(c, "stampAck")
                \/ \E last \in LastSynts(Sub(c).id) :
                     Pkt(c).synt <= last /\ Collects(c, "catchUp", Pkt(c).synt, last, <<>>)
  <2>1. PICK last \in LastSynts(Sub(c).id) :
          \/ /\ Pkt(c).synt <= last
             /\ frame' = [frame EXCEPT ![c].pc = "catchUp", ![c].rows = <<>>, ![c].synt = Pkt(c).synt, ![c].end = last]
          \/ Goto(c, "stampAck")
    BY <1>1 DEF CatchUpLast
  <2> DEFINE l == <<>>
             t == Pkt(c).synt
             pc == "catchUp"
  <2>2. \/ t <= last /\ frame' = [frame EXCEPT ![c].pc = pc, ![c].rows = l, ![c].synt = t, ![c].end = last]
        \/ Goto(c, "stampAck")
    BY <2>1
  <2> HIDE DEF l, t, pc
  <2>3. ASSUME frame' = [frame EXCEPT ![c].pc = pc, ![c].rows = l, ![c].synt = t, ![c].end = last]
        PROVE  Collects(c, pc, t, last, l)
    BY <2>3, BecomesFacts DEF Collects
  <2>4. Same(c, "stampAck") \/ (t <= last /\ Collects(c, pc, t, last, l))
    BY <2>2, <2>3, GotoBecomes
  <2>5. frame[c].pc = "catchUpLast"
    BY <1>1 DEF CatchUpLast, At
  <2> QED
    BY <2>4, <2>5 DEF l, t, pc
<1>2. ASSUME CatchUp(c)
      PROVE  /\ frame[c].pc = "catchUp"
             /\ \/ /\ frame[c].synt <= frame[c].end
                   /\ \E r \in RowsAt(Sub(c).id, frame[c].synt) :
                        LET list == frame[c].rows
                        IN Collects(c, "catchUp", Plus(frame[c].synt, 1), frame[c].end,
                                    IF Len(list) > TIME_SIMU_LAST THEN list ELSE Append(list, r))
                \/ /\ ~(frame[c].synt <= frame[c].end)
                   /\ Reads(c, "stamp", Pkt(c).synt, frame[c].end)
  <2>0. frame[c].pc = "catchUp" /\ IsFrame(frame[c]) /\ frame = [k \in Calls |-> frame[k]]
    BY <1>2 DEF CatchUp, At, Shaped
  <2>1. CASE frame[c].synt <= frame[c].end
    <3>1. PICK r \in RowsAt(Sub(c).id, frame[c].synt) :
            frame' = [frame EXCEPT ![c].synt = Plus(@, 1),
                                   ![c].rows = IF Len(@) > TIME_SIMU_LAST THEN @ ELSE Append(@, r)]
      BY <1>2, <2>1 DEF CatchUp
    <3> DEFINE list == frame[c].rows
               t == Plus(frame[c].synt, 1)
               l == IF Len(list) > TIME_SIMU_LAST THEN list ELSE Append(list, r)
    <3>2. frame' = [frame EXCEPT ![c].synt = t, ![c].rows = l]
      BY <2>0, <3>1 DEF IsFrame
    <3> HIDE DEF t, l
    <3>3. Collects(c, "catchUp", t, frame[c].end, l)
      BY <2>0, <3>2, BecomesFacts DEF Collects
    <3> QED
      BY <2>0, <2>1, <3>3 DEF t, l
  <2>2. CASE ~(frame[c].synt <= frame[c].end)
    BY <1>2, <2>0, <2>2, BecomesFacts DEF CatchUp, Reads
  <2> QED
    BY <2>1, <2>2
<1> QED
  BY <1>1, <1>2

LEMMA OtherSteps ==
  ASSUME Shaped, NEW c \in Calls
  PROVE  /\ HandleEmpty(c) => Same(c, "done")
         /\ StartSend(c) => Same(c, "lookup") /\ Pkt(c).service = "SEND" /\ frame[c].sub \in Subframes(c)
         /\ LookupSubscribers(c) => frame[c].pc = "lookup" /\ After(c)
         /\ CheckRegister(c) => \E pc \in {"catchUpLast", "register"} : Same(c, pc)
         /\ Register(c) => Same(c, "stampAck")
         /\ Stamp(c) => \/ frame[c].pc = "stamp" /\ Numbered(c, "transmit")
                        \/ frame[c].pc = "stampAck" /\ Numbered(c, "transmitAck")
         /\ Transmit(c) => /\ frame[c].pc = "transmit"
                           /\ Same(c, "stampAck") \/ Same(c, "done") \/ After(c)
         /\ TransmitAck(c) => frame[c].pc = "transmitAck" /\ \E pc \in {"bump", "done"} : Same(c, pc)
         /\ Bump(c) => After(c)
<1>1. NextSubframe(c) => After(c)
  BY NextSubframeBecomes DEF After
<1>2. HandleEmpty(c) => Same(c, "done")
  BY GotoBecomes DEF HandleEmpty
<1>3. StartSend(c) => Same(c, "lookup") /\ Pkt(c).service = "SEND" /\ frame[c].sub \in Subframes(c)
  BY GotoBecomes DEF StartSend, Handles
<1>4. LookupSubscribers(c) => frame[c].pc = "lookup" /\ After(c)
  BY <1>1 DEF LookupSubscribers, At
<1>5. CheckRegister(c) => \E pc \in {"catchUpLast", "register"} : Same(c, pc)
  BY GotoBecomes DEF CheckRegister
<1>6. Register(c) => Same(c, "stampAck")
  BY GotoBecomes DEF Register
<1>7. Stamp(c) => \/ frame[c].pc = "stamp" /\ Numbered(c, "transmit")
                  \/ frame[c].pc = "stampAck" /\ Numbered(c, "transmitAck")
  BY BecomesFacts DEF Stamp, At, Numbered
<1>8. Transmit(c) => frame[c].pc = "transmit" /\ (Same(c, "stampAck") \/ Same(c, "done") \/ After(c))
  BY <1>1, GotoBecomes DEF Transmit, At, ReturnError
<1>9. TransmitAck(c) => frame[c].pc = "transmitAck" /\ \E pc \in {"bump", "done"} : Same(c, pc)
  BY GotoBecomes DEF TransmitAck, At, ReturnError
<1>10. Bump(c) => After(c)
  BY <1>1 DEF Bump
<1> QED
  BY <1>2, <1>3, <1>4, <1>5, <1>6, <1>7, <1>8, <1>9, <1>10

-----------------------------------------------------------------------------
(* Every step keeps the types                                                *)

LEMMA LastTyped ==
  ASSUME TypeOK, NEW id, NEW t \in LastSynts(id)
  PROVE  t \in Times
<1>1. t = 0 \/ \E d \in Stored(id) : t = Iter(d)
  BY DEF LastSynts
<1> QED
  BY <1>1, StoredFacts, RecordFacts, Numeric

LEMMA RowFacts ==
  ASSUME TypeOK, NEW id, NEW t, NEW r \in RowsAt(id, t)
  PROVE  r = NoRow \/ (r \in Stored(id) /\ r \in Records /\ Iter(r) = t)
BY StoredFacts DEF RowsAt

LEMMA RangeFacts ==
  ASSUME TypeOK, NEW id \in RecordTables, NEW start, NEW end,
         NEW found, found = RowsBetween(id, start, end)
  PROVE  /\ found \in Seq(Records)
         /\ \A k \in DOMAIN found : found[k] \in Stored(id) /\ start <= Iter(found[k]) /\ Iter(found[k]) < end
         /\ \A d \in Stored(id) : start <= Iter(d) /\ Iter(d) < end => \E k \in DOMAIN found : found[k] = d
<1> DEFINE q == rows[id]
           K == {k \in DOMAIN q : start <= Iter(q[k]) /\ Iter(q[k]) < end}
<1>1. q \in Seq(Records)
  BY DEF TypeOK
<1>2. found = Kept(q, K)
  BY DEF RowsBetween
<1>3. PICK e : Picks(found, e, q, DOMAIN q \cap K)
  BY <1>1, <1>2, KeptFacts
<1>4. found \in Seq(Records)
  BY <1>1, <1>2, KeptFacts
<1>5. DOMAIN q \cap K = K
  OBVIOUS
<1>6. ASSUME NEW k \in DOMAIN found
      PROVE  found[k] \in Stored(id) /\ start <= Iter(found[k]) /\ Iter(found[k]) < end
  <2>1. e[k] \in K /\ found[k] = q[e[k]]
    BY <1>3, <1>4, <1>5, LenProperties DEF Picks
  <2> QED
    BY <2>1 DEF Stored, Range
<1>7. ASSUME NEW d \in Stored(id), start <= Iter(d), Iter(d) < end
      PROVE  \E k \in DOMAIN found : found[k] = d
  <2>1. PICK i \in DOMAIN q : q[i] = d
    BY DEF Stored, Range
  <2>2. i \in K
    BY <1>7, <2>1
  <2>3. PICK k \in 1 .. Len(found) : e[k] = i
    BY <1>3, <1>5, <2>2 DEF Picks
  <2> QED
    BY <1>3, <1>4, <2>1, <2>3, LenProperties DEF Picks
<1> QED
  BY <1>4, <1>6, <1>7

LEMMA BecomesTyped ==
  ASSUME TypeOK, NEW c \in Calls, NEW g \in Locals, Becomes(c, g)
  PROVE  frame' \in [Calls -> Locals]
<1>1. frame \in [Calls -> Locals]
  BY DEF TypeOK, Locals, Times
<1> QED
  BY <1>1 DEF Becomes, Others

LEMMA LocalTyped ==
  ASSUME NEW pc \in PCs, NEW sub \in Nat \ {0}, NEW synt \in Times, NEW end \in Times, NEW list \in Rows,
         NEW seq \in Numbers, NEW seen \in SUBSET Records
  PROVE  Local(pc, sub, synt, end, list, seq, seen) \in Locals
BY DEF Local, Locals

LEMMA FrameFields ==
  ASSUME TypeOK, NEW c \in Calls
  PROVE  /\ frame[c].pc \in PCs /\ frame[c].sub \in Nat \ {0} /\ frame[c].synt \in Times /\ frame[c].end \in Times
         /\ frame[c].rows \in Rows /\ frame[c].seq \in Numbers /\ frame[c].seen \in SUBSET Records
         /\ Pkt(c).synt \in Times
<1>1. frame \in [Calls -> Locals]
  BY DEF TypeOK, Locals, Times
<1>2. frame[c] \in Locals
  BY <1>1
<1>3. Pkt(c).synt \in Times
  BY CallFacts DEF PacketOK, Times
<1> QED
  BY <1>2, <1>3 DEF Locals

LEMMA SameTyped ==
  ASSUME TypeOK, NEW c \in Calls, NEW pc \in PCs, Same(c, pc)
  PROVE  frame' \in [Calls -> Locals]
<1> DEFINE g == Local(pc, frame[c].sub, frame[c].synt, frame[c].end, frame[c].rows, frame[c].seq, frame[c].seen)
<1>1. g \in Locals
  BY FrameFields, LocalTyped
<1>2. Becomes(c, g)
  BY DEF Same
<1> HIDE DEF g
<1> QED
  BY <1>1, <1>2, BecomesTyped

LEMMA CallTyped ==
  ASSUME TypeInv, NEW c \in Calls, CallStep(c)
  PROVE  frame' \in [Calls -> Locals] /\ Others(c) /\ Looking(c)'
<1>0. TypeOK /\ Shaped /\ OfService(c)
  BY DEF TypeInv, RegisterInv
<1>1. ASSUME NEW pc \in PCs \ {"lookup"}, Same(c, pc)
      PROVE  frame' \in [Calls -> Locals] /\ Others(c) /\ Looking(c)'
  BY <1>0, <1>1, SameTyped DEF Same, Becomes, Local, Looking
<1>2. ASSUME After(c)
      PROVE  frame' \in [Calls -> Locals] /\ Others(c) /\ Looking(c)'
  <2>1. PICK pc \in {"done", "handle"} : Becomes(c, Local(pc, frame[c].sub + 1, 0, 0, <<>>, 0, frame[c].seen))
    BY <1>2 DEF After
  <2>2. pc \in PCs /\ frame[c].sub + 1 \in Nat \ {0} /\ <<>> \in Rows
    BY <1>0, FrameFields, EmptySeq DEF PCs, Rows
  <2>3. Local(pc, frame[c].sub + 1, 0, 0, <<>>, 0, frame[c].seen) \in Locals
    BY <1>0, <2>2, Numeric, FrameFields, LocalTyped
  <2> QED
    BY <1>0, <2>1, <2>3, BecomesTyped DEF Becomes, Local, Looking
<1>3. ASSUME NEW pc \in PCs \ {"lookup"}, NEW synt \in Times, NEW end \in Times, NEW list \in Rows,
             Collects(c, pc, synt, end, list)
      PROVE  frame' \in [Calls -> Locals] /\ Others(c) /\ Looking(c)'
  <2>1. Local(pc, frame[c].sub, synt, end, list, frame[c].seq, frame[c].seen) \in Locals
    BY <1>0, FrameFields, LocalTyped
  <2> QED
    BY <1>0, <1>3, <2>1, BecomesTyped DEF Collects, Becomes, Local, Looking
<1>4. ASSUME NEW pc \in PCs \ {"lookup"}, NEW synt \in Times, NEW end \in Times, Reads(c, pc, synt, end)
      PROVE  frame' \in [Calls -> Locals] /\ Others(c) /\ Looking(c)'
  BY <1>0, <1>3, <1>4, FrameFields DEF Reads, Collects
<1>5. ASSUME NEW list \in Rows, Answers(c, list)
      PROVE  frame' \in [Calls -> Locals] /\ Others(c) /\ Looking(c)'
  <2>1. Collects(c, "stamp", frame[c].synt, frame[c].end, list)
    BY <1>5 DEF Answers, Collects
  <2> QED
    BY <1>0, <1>3, <2>1, FrameFields DEF PCs
<1>6. ASSUME StartRequest(c)
      PROVE  frame' \in [Calls -> Locals] /\ Others(c) /\ Looking(c)'
  <2> DEFINE t == Pkt(c).synt
             u == Plus(t, Sub(c).diff)
  <2>1. frame[c].sub \in Subframes(c) /\ \E pc \in Requesting : Reads(c, pc, t, u)
    BY <1>0, <1>6, RequestSteps DEF Requesting
  <2>2. Sub(c).diff \in Nat /\ t \in Nat /\ t \in Times
    <3>1. Sub(c).diff \in 0 .. PARAMTER_REQUEST_LAST
      BY <2>1, SubframeFacts DEF Sub
    <3>2. Sub(c).diff \in Nat
      BY <3>1, Numeric
    <3> QED
      BY <1>0, <3>2, Numeric, FrameFields
  <2>3. u \in Times
    BY <2>2, PlusFacts
  <2> HIDE DEF t, u
  <2> QED
    BY <1>4, <2>1, <2>2, <2>3 DEF Requesting, PCs
<1>7. CASE QueryLast(c) \/ QueryEnd(c)
  <2>1. \E t \in LastSynts(Sub(c).id) : Reads(c, "readSynt", t, frame[c].end) \/ Reads(c, "readRange", frame[c].synt, t)
    BY <1>0, <1>7, RequestSteps
  <2> QED
    BY <1>0, <1>4, <2>1, LastTyped, FrameFields DEF PCs
<1>8. CASE ReadSynt(c)
  <2>1. PICK r \in RowsAt(Sub(c).id, frame[c].synt) : Answers(c, <<r>>)
    BY <1>0, <1>8, RequestSteps
  <2>2. r \in Records \cup {NoRow}
    BY <1>0, <2>1, RowFacts
  <2>3. <<r>> \in Rows
    BY <2>2 DEF Rows
  <2> QED
    BY <1>5, <2>1, <2>3
<1>9. CASE ReadRange(c)
  <2>1. CASE Same(c, "done")
    BY <1>1, <2>1 DEF PCs
  <2>2. CASE ~Same(c, "done")
    <3> DEFINE found == RowsBetween(Sub(c).id, frame[c].synt, frame[c].end)
    <3>1. Sub(c).id \in RecordTables /\ \E k \in 0 .. Len(found) : Answers(c, SubSeq(found, 1, k))
      <4>1. found \in Seq(Records) \/ Sub(c).id \notin RecordTables
        BY <1>0, RangeFacts
      <4>2. Len(found) \in Nat \/ Sub(c).id \notin RecordTables
        BY <4>1, LenProperties
      <4> QED
        BY <1>0, <1>9, <2>2, <4>2, RequestSteps
    <3>2. found \in Seq(Records)
      BY <1>0, <3>1, RangeFacts
    <3> HIDE DEF found
    <3>3. PICK k \in 0 .. Len(found) : Answers(c, SubSeq(found, 1, k))
      BY <3>1
    <3>4. found \in Rows
      BY <3>2 DEF Rows
    <3>5. SubSeq(found, 1, k) \in Rows
      BY <3>3, <3>4, LenProperties DEF Rows
    <3> QED
      BY <1>5, <3>3, <3>5
  <2> QED
    BY <2>1, <2>2
<1>10. CASE CatchUpLast(c)
  <2>1. \/ Same(c, "stampAck")
        \/ \E last \in LastSynts(Sub(c).id) : Collects(c, "catchUp", Pkt(c).synt, last, <<>>)
    BY <1>0, <1>10, CatchUpSteps
  <2>2. <<>> \in Rows
    BY EmptySeq DEF Rows
  <2> QED
    BY <1>0, <1>1, <1>3, <2>1, <2>2, LastTyped, FrameFields DEF PCs
<1>11. CASE CatchUp(c)
  <2>1. CASE Reads(c, "stamp", Pkt(c).synt, frame[c].end)
    BY <1>0, <1>4, <2>1, FrameFields DEF PCs
  <2>2. CASE \E r \in RowsAt(Sub(c).id, frame[c].synt) :
               Collects(c, "catchUp", Plus(frame[c].synt, 1), frame[c].end,
                        IF Len(frame[c].rows) > TIME_SIMU_LAST THEN frame[c].rows ELSE Append(frame[c].rows, r))
    <3>1. PICK r \in RowsAt(Sub(c).id, frame[c].synt) :
            Collects(c, "catchUp", Plus(frame[c].synt, 1), frame[c].end,
                     IF Len(frame[c].rows) > TIME_SIMU_LAST THEN frame[c].rows ELSE Append(frame[c].rows, r))
      BY <2>2
    <3>2. r \in Records \cup {NoRow} /\ frame[c].rows \in Rows /\ frame[c].synt \in Nat /\ frame[c].end \in Times
      BY <1>0, <3>1, RowFacts, FrameFields, Numeric
    <3>3. (IF Len(frame[c].rows) > TIME_SIMU_LAST THEN frame[c].rows ELSE Append(frame[c].rows, r)) \in Rows
      BY <3>2, AppendProperties DEF Rows
    <3>4. Plus(frame[c].synt, 1) \in Times
      BY <3>2, PlusFacts
    <3> QED
      BY <1>3, <3>1, <3>2, <3>3, <3>4 DEF PCs
  <2> QED
    BY <1>0, <1>11, <2>1, <2>2, CatchUpSteps
<1>12. CASE Stamp(c)
  <2>1. \E pc \in {"transmit", "transmitAck"} : Numbered(c, pc)
    BY <1>0, <1>12, OtherSteps
  <2>2. PICK pc \in {"transmit", "transmitAck"} : Numbered(c, pc)
    BY <2>1
  <2>3. Sequence \in Numbers
    BY <1>0 DEF TypeOK
  <2>4. Local(pc, frame[c].sub, frame[c].synt, frame[c].end, frame[c].rows, Sequence, frame[c].seen) \in Locals
    BY <1>0, <2>2, <2>3, FrameFields, LocalTyped DEF PCs
  <2> QED
    BY <1>0, <2>2, <2>4, BecomesTyped DEF Numbered, Becomes, Local, Looking
<1>13. CASE StartSend(c)
  <2>1. Same(c, "lookup") /\ Pkt(c).service = "SEND" /\ frame[c].sub \in Subframes(c)
    BY <1>0, <1>13, OtherSteps
  <2> QED
    BY <1>0, <2>1, SameTyped DEF PCs, Same, Becomes, Local, Looking
<1>14. CASE HandlePublish(c)
  BY <1>0, <1>14 DEF HandlePublish, At, Others, Looking, TypeOK, Locals, Times
<1>15. CASE HandleEmpty(c) \/ LookupSubscribers(c) \/ CheckRegister(c) \/ Register(c) \/ Transmit(c) \/ TransmitAck(c) \/ Bump(c)
  <2>1. After(c) \/ \E pc \in {"done", "catchUpLast", "register", "stampAck", "bump"} : Same(c, pc)
    BY <1>0, <1>15, OtherSteps
  <2> QED
    BY <1>1, <1>2, <2>1 DEF PCs
<1> QED
  BY <1>6, <1>7, <1>8, <1>9, <1>10, <1>11, <1>12, <1>13, <1>14, <1>15 DEF CallStep

(* The goroutines that forward records.                                      *)
LEMMA LookupTyped ==
  ASSUME TypeInv, NEW c \in Calls, LookupSubscribers(c)
  PROVE  forwards' \subseteq Forwards
<1> DEFINE list == subscriberRegister[Sub(c).id]
           new == {[call |-> c, sub |-> frame[c].sub, slot |-> k, dst |-> list[k], stamped |-> FALSE, seq |-> 0] :
                     k \in DOMAIN list}
<1>0. TypeOK /\ Looking(c) /\ forwards \subseteq Forwards /\ frame[c].pc = "lookup"
  BY DEF TypeInv, TypeOK, Forwards, LookupSubscribers, At
<1>1. Pkt(c).service = "SEND" /\ frame[c].sub \in Subframes(c)
  BY <1>0 DEF Looking
<1>2. c \in Received
  BY <1>1, CallFacts, PacketsAssumption
<1>3. Sub(c).id \in Ids
  BY <1>1, SubframeFacts DEF Sub
<1>4. list \in Seq(Clients)
  BY <1>0, <1>3 DEF TypeOK
<1>5. frame[c].sub \in Nat /\ 0 \in Numbers
  BY <1>0, FrameFields, Numeric
<1>6. ASSUME NEW k \in DOMAIN list
      PROVE  [call |-> c, sub |-> frame[c].sub, slot |-> k, dst |-> list[k], stamped |-> FALSE, seq |-> 0] \in Forwards
  <2>1. k \in Nat /\ list[k] \in Clients
    BY <1>4, <1>6, ElementOfSeq, LenProperties
  <2> QED
    BY <1>2, <1>5, <2>1 DEF Forwards
<1>7. forwards' = forwards \cup new
  BY DEF LookupSubscribers
<1> QED
  BY <1>0, <1>6, <1>7

LEMMA StampTyped ==
  ASSUME TypeOK, NEW f \in forwards, StampForward(f)
  PROVE  LET g == [f EXCEPT !.stamped = TRUE, !.seq = Sequence]
         IN /\ forwards' = (forwards \ {f}) \cup {g} /\ forwards' \subseteq Forwards
            /\ g.stamped /\ g.seq = Sequence /\ g.call = f.call /\ g.sub = f.sub /\ g.slot = f.slot /\ g.dst = f.dst
<1> DEFINE g == [f EXCEPT !.stamped = TRUE, !.seq = Sequence]
<1>1. f \in Forwards /\ Sequence \in Numbers /\ forwards \subseteq Forwards
  BY DEF TypeOK, Forwards
<1>2. /\ g \in Forwards /\ g.stamped /\ g.seq = Sequence /\ g.call = f.call /\ g.sub = f.sub /\ g.slot = f.slot
      /\ g.dst = f.dst
  BY <1>1 DEF Forwards
<1>3. forwards' = (forwards \ {f}) \cup {g}
  BY DEF StampForward
<1> QED
  BY <1>1, <1>2, <1>3

LEMMA SequenceTyped ==
  ASSUME TypeOK, NextSequence \/ UNCHANGED Sequence
  PROVE  Sequence' \in Numbers
<1>1. Sequence \in Nat /\ SEQUENCES \in Nat /\ SEQUENCES # 0 /\ Sequence \in Numbers
  BY Numeric DEF TypeOK, Numbers
<1>2. (Sequence + 1) % SEQUENCES \in 0 .. SEQUENCES - 1
  BY <1>1
<1> QED
  BY <1>1, <1>2 DEF NextSequence, Numbers

(* The log that RecordLog promises.                                          *)
LogTyped ==
  /\ waiting \in SUBSET Records
  /\ pending \in [RecordTables -> Seq(Records)]
  /\ rows \in [RecordTables -> Seq(Records)]

LEMMA AcceptTyped ==
  ASSUME LogTyped, NEW d \in Records, Log!Accept(d) \/ Log!Refuse(d)
  PROVE  LogTyped'
<1>1. ASSUME Log!Accept(d)
      PROVE  LogTyped'
  <2> DEFINE id == IdOfRecord[d]
  <2>1. /\ id \in RecordTables /\ waiting' = waiting \ {d} /\ rows' = rows
        /\ pending' = [pending EXCEPT ![id] = Append(pending[id], d)]
    BY <1>1 DEF Log!Accept, LogTyped
  <2>2. pending[id] \in Seq(Records)
    BY <2>1 DEF LogTyped
  <2>3. Append(pending[id], d) \in Seq(Records)
    BY <2>2, AppendProperties
  <2> QED
    BY <2>1, <2>3 DEF LogTyped
<1>2. ASSUME Log!Refuse(d)
      PROVE  LogTyped'
  BY <1>2 DEF Log!Refuse, LogTyped
<1> QED
  BY <1>1, <1>2

(* What is pending or stored for an id is of that id; tables only grow.      *)
InTables ==
  \A id \in RecordTables :
    /\ \A k \in DOMAIN pending[id] : IdOfRecord[pending[id][k]] = id
    /\ \A k \in DOMAIN rows[id] : IdOfRecord[rows[id][k]] = id
TablesGrow == \A id : Stored(id) \subseteq Stored(id)'

LEMMA JoinFacts ==
  ASSUME NEW S, NEW s \in Seq(S), NEW t \in Seq(S)
  PROVE  /\ s \o t \in Seq(S) /\ Len(s \o t) = Len(s) + Len(t) /\ Len(s) \in Nat
         /\ \A i \in 1 .. Len(s) : (s \o t)[i] = s[i]
         /\ \A i \in Len(s) + 1 .. Len(s) + Len(t) : (s \o t)[i] = t[i - Len(s)]
<1>1. Len(s) \in Nat /\ Len(t) \in Nat
  BY LenProperties
<1>2. /\ s \o t \in Seq(S) /\ Len(s \o t) = Len(s) + Len(t)
      /\ \A i \in 1 .. Len(s) + Len(t) : (s \o t)[i] = IF i <= Len(s) THEN s[i] ELSE t[i - Len(s)]
  BY ConcatProperties
<1> QED
  BY <1>1, <1>2

LEMMA SettleTyped ==
  ASSUME LogTyped, NEW id \in RecordTables, Log!Settle(id)
  PROVE  LogTyped' /\ TablesGrow /\ (InTables => InTables')
<1> DEFINE q == pending[id]
<1>1. q \in Seq(Records) /\ rows[id] \in Seq(Records) /\ Len(q) \in Nat /\ DOMAIN q = 1 .. Len(q)
  BY LenProperties DEF LogTyped
<1>2. PICK k \in 1 .. Len(q) : Log!Commit(id, k) \/ Log!Discard(id, k)
  BY DEF Log!Settle
<1> DEFINE rest == SubSeq(q, k + 1, Len(q))
           first == SubSeq(q, 1, k)
<1>3. /\ rest \in Seq(Records) /\ first \in Seq(Records)
      /\ Len(first) = k /\ \A i \in 1 .. k : first[i] = q[i]
      /\ Len(rest) = Len(q) - k /\ \A i \in 1 .. Len(q) - k : rest[i] = q[k + i]
  <2>1. k \in Nat /\ k + 1 \in 1 .. Len(q) + 1 /\ Len(q) \in 0 .. Len(q)
    BY <1>1
  <2> HIDE DEF q
  <2>2. first \in Seq(Records) /\ Len(first) = k /\ \A i \in 1 .. k : first[i] = q[i]
    BY <1>1, <2>1, SubSeqProperties
  <2> DEFINE m == k + 1
             n == Len(q)
  <2>3. m \in 1 .. n + 1 /\ n \in m - 1 .. n
    BY <1>1, <2>1
  <2>4. SubSeq(q, m, n) \in Seq(Records) /\ Len(SubSeq(q, m, n)) = n - m + 1
        /\ \A i \in 1 .. n - m + 1 : SubSeq(q, m, n)[i] = q[m + i - 1]
    <3> HIDE DEF m
    <3> QED
      BY <1>1, <2>3, SubSeqProperties
  <2>5. rest \in Seq(Records) /\ Len(rest) = Len(q) - k /\ \A i \in 1 .. Len(q) - k : rest[i] = q[k + i]
    <3>1. n - m + 1 = Len(q) - k /\ \A i \in Int : m + i - 1 = k + i
      BY <1>1, <2>1
    <3>2. rest = SubSeq(q, m, n)
      OBVIOUS
    <3>3. Len(SubSeq(q, m, n)) = Len(q) - k /\ \A i \in 1 .. Len(q) - k : SubSeq(q, m, n)[i] = q[m + i - 1]
      BY <2>4, <3>1
    <3> HIDE DEF m, n, rest
    <3> QED
      BY <2>4, <3>1, <3>2, <3>3, SMTT(30)
  <2> QED
    BY <2>2, <2>5
<1>4. /\ pending' = [pending EXCEPT ![id] = rest] /\ UNCHANGED waiting
      /\ rows' = rows \/ rows' = [rows EXCEPT ![id] = rows[id] \o first]
  BY <1>2 DEF Log!Commit, Log!Discard, Log!Leave, LogTyped
<1> HIDE DEF q, rest, first
<1> DEFINE old == rows[id]
           both == old \o first
<1>10. /\ both \in Seq(Records) /\ Len(both) = Len(old) + Len(first) /\ Len(old) \in Nat
       /\ \A i \in 1 .. Len(old) : both[i] = old[i]
       /\ \A i \in Len(old) + 1 .. Len(old) + Len(first) : both[i] = first[i - Len(old)]
  <2>1. old \in Seq(Records)
    BY <1>1
  <2> HIDE DEF old
  <2> QED
    BY <1>3, <2>1, JoinFacts
<1>11. Len(first) = k
  BY <1>3
<1>5. /\ rows[id] \o first \in Seq(Records)
      /\ Len(rows[id] \o first) = Len(rows[id]) + k /\ Len(rows[id]) \in Nat
      /\ \A i \in 1 .. Len(rows[id]) : (rows[id] \o first)[i] = rows[id][i]
      /\ \A i \in Len(rows[id]) + 1 .. Len(rows[id]) + k : (rows[id] \o first)[i] = first[i - Len(rows[id])]
  BY <1>10, <1>11
<1>6. LogTyped'
  BY <1>3, <1>4, <1>5 DEF LogTyped
<1>7. \A i \in RecordTables : DOMAIN rows[i] \subseteq DOMAIN rows'[i] /\ \A j \in DOMAIN rows[i] : rows'[i][j] = rows[i][j]
  <2>1. DOMAIN rows[id] = 1 .. Len(rows[id]) /\ DOMAIN (rows[id] \o first) = 1 .. Len(rows[id] \o first)
    BY <1>1, <1>5, LenProperties
  <2>2. DOMAIN rows[id] \subseteq DOMAIN (rows[id] \o first)
    BY <1>2, <1>5, <2>1
  <2> QED
    BY <1>4, <1>5, <2>1, <2>2 DEF LogTyped
<1>8. TablesGrow
  BY <1>7 DEF TablesGrow, Stored, Range
<1>9. ASSUME InTables
      PROVE  InTables'
  <2>1. \A i \in DOMAIN q : IdOfRecord[q[i]] = id
    BY <1>9 DEF InTables, q
  <2>2. ASSUME NEW i \in DOMAIN rest
        PROVE  IdOfRecord[rest[i]] = id
    <3>1. i \in 1 .. Len(q) - k
      BY <1>3, <2>2, LenProperties
    <3>2. k + i \in DOMAIN q
      BY <1>1, <3>1
    <3> QED
      BY <1>3, <2>1, <3>1, <3>2
  <2>3. ASSUME NEW i \in DOMAIN (rows[id] \o first)
        PROVE  IdOfRecord[(rows[id] \o first)[i]] = id
    <3>1. i \in 1 .. Len(rows[id]) + k
      BY <1>5, <2>3, LenProperties
    <3>2. CASE i \in 1 .. Len(rows[id])
      BY <1>1, <1>5, <1>9, <3>2, LenProperties DEF InTables
    <3>3. CASE i \notin 1 .. Len(rows[id])
      <4>1. i \in Len(rows[id]) + 1 .. Len(rows[id]) + k /\ i - Len(rows[id]) \in 1 .. k
        BY <1>5, <3>1, <3>3
      <4>2. i - Len(rows[id]) \in DOMAIN q
        BY <1>1, <1>2, <4>1 DEF q
      <4> QED
        BY <1>3, <1>5, <2>1, <4>1, <4>2
    <3> QED
      BY <3>2, <3>3
  <2> QED
    BY <1>4, <1>9, <2>2, <2>3 DEF InTables, LogTyped
<1> QED
  BY <1>6, <1>8, <1>9

(* A call starts: it is put into the buffer, made by main, or taken from the *)
(* buffer.                                                                   *)
Taken(c) ==
  Becomes(c, Local("handle", frame[c].sub, frame[c].synt, frame[c].end, frame[c].rows, frame[c].seq,
                   UNION {Stored(id) : id \in Ids}))

LEMMA BeginFacts ==
  ASSUME Shaped, NEW c \in Calls
  PROVE  /\ Listen(c) => frame[c].pc = "absent" /\ Same(c, "queued") /\ Buffer' = Append(Buffer, c)
         /\ CallDirectly(c) => frame[c].pc = "absent" /\ Same(c, "handle") /\ Buffer' = Buffer
<1>1. Listen(c) => frame[c].pc = "absent" /\ Same(c, "queued") /\ Buffer' = Append(Buffer, c)
  BY GotoBecomes DEF Listen, MayBegin, At
<1>2. CallDirectly(c) => frame[c].pc = "absent" /\ Same(c, "handle") /\ Buffer' = Buffer
  BY GotoBecomes DEF CallDirectly, MayBegin, At
<1> QED
  BY <1>1, <1>2

LEMMA ConsumeFacts ==
  ASSUME Shaped, Consume
  PROVE  /\ Buffer # <<>> /\ Head(Buffer) \in Calls /\ Taken(Head(Buffer))
         /\ Buffer' = Tail(Buffer)
<1> DEFINE h == Head(Buffer)
           held == UNION {Stored(id) : id \in Ids}
<1>1. /\ Buffer # <<>> /\ Buffer' = Tail(Buffer)
      /\ frame' = [frame EXCEPT ![h].pc = "handle", ![h].seen = held]
  BY DEF Consume
<1>2. h \in Calls
  BY <1>1, HeadTailProperties DEF Shaped, Received
<1> HIDE DEF h, held
<1>3. Becomes(h, Local("handle", frame[h].sub, frame[h].synt, frame[h].end, frame[h].rows, frame[h].seq, held))
  BY <1>1, <1>2, BecomesFacts
<1> QED
  BY <1>1, <1>2, <1>3 DEF Taken, h, held

LEMMA FrameStep ==
  ASSUME TypeInv, [Next]_vars
  PROVE  frame' \in [Calls -> Locals] /\ \A c \in Calls : Looking(c)'
<1>0. TypeOK /\ Shaped /\ Received \subseteq Calls /\ frame \in [Calls -> Locals] /\ \A c \in Calls : Looking(c)
  BY DEF TypeInv, TypeOK, RegisterInv, Received, Locals, Times
<1>1. ASSUME NEW c \in Calls, frame' \in [Calls -> Locals], Others(c), Looking(c)'
      PROVE  frame' \in [Calls -> Locals] /\ \A k \in Calls : Looking(k)'
  BY <1>0, <1>1 DEF Others, Looking
<1>2. ASSUME NEW c \in Calls, CallStep(c)
      PROVE  frame' \in [Calls -> Locals] /\ \A k \in Calls : Looking(k)'
  BY <1>1, <1>2, CallTyped
<1>3. ASSUME NEW c \in Calls, Listen(c) \/ CallDirectly(c)
      PROVE  frame' \in [Calls -> Locals] /\ \A k \in Calls : Looking(k)'
  <2>1. PICK pc \in {"queued", "handle"} : Same(c, pc)
    BY <1>0, <1>3, BeginFacts
  <2>2. frame' \in [Calls -> Locals]
    BY <1>0, <2>1, SameTyped DEF PCs
  <2>3. Others(c) /\ Looking(c)'
    BY <2>1 DEF Same, Becomes, Local, Looking
  <2> QED
    BY <1>1, <2>2, <2>3
<1>4. CASE Consume
  <2>1. \E h \in Calls : Taken(h)
    BY <1>0, <1>4, ConsumeFacts
  <2>2. (UNION {Stored(id) : id \in Ids}) \in SUBSET Records
    <3>1. \A id \in Ids : Stored(id) \subseteq Records
      BY <1>0, StoredFacts
    <3> QED
      BY <3>1
  <2>3. PICK h \in Calls, held \in SUBSET Records :
          Becomes(h, Local("handle", frame[h].sub, frame[h].synt, frame[h].end, frame[h].rows, frame[h].seq, held))
    BY <2>1, <2>2 DEF Taken
  <2>4. Local("handle", frame[h].sub, frame[h].synt, frame[h].end, frame[h].rows, frame[h].seq, held) \in Locals
    BY <1>0, FrameFields, LocalTyped DEF PCs
  <2>5. frame' \in [Calls -> Locals] /\ Others(h) /\ Looking(h)'
    BY <1>0, <2>3, <2>4, BecomesTyped DEF Becomes, Local, Looking
  <2> QED
    BY <1>1, <2>5
<1>5. CASE UNCHANGED frame
  BY <1>0, <1>5 DEF Looking
<1> QED
  BY <1>0, <1>2, <1>3, <1>4, <1>5 DEF Next, SendReturns, HandleData, StampForward, TransmitForward, vars

LEMMA ForwardsStep ==
  ASSUME TypeInv, [Next]_vars
  PROVE  forwards' \subseteq Forwards /\ Sequence' \in Numbers
<1>0. TypeOK /\ forwards \subseteq Forwards /\ Received \subseteq Calls
  BY DEF TypeInv, TypeOK, Forwards, Received
<1>1. NextSequence \/ UNCHANGED Sequence
  BY ZenonT(30) DEF Next, vars, Listen, CallDirectly, Consume, SendReturns, HandleData, StampForward, TransmitForward, CallStep,
         HandleEmpty, StartSend, LookupSubscribers, StartRequest, QueryLast, ReadSynt, QueryEnd, ReadRange,
         CheckRegister, Register, CatchUpLast, CatchUp, Stamp, Transmit, TransmitAck, Bump, HandlePublish
<1>2. \/ \E f \in forwards : StampForward(f)
      \/ \E c \in Calls : LookupSubscribers(c)
      \/ forwards' \subseteq forwards
  BY ZenonT(30) DEF Next, vars, Listen, CallDirectly, Consume, SendReturns, HandleData, TransmitForward, CallStep,
         HandleEmpty, StartSend, StartRequest, QueryLast, ReadSynt, QueryEnd, ReadRange,
         CheckRegister, Register, CatchUpLast, CatchUp, Stamp, Transmit, TransmitAck, Bump, HandlePublish
<1> QED
  BY <1>0, <1>1, <1>2, SequenceTyped, StampTyped, LookupTyped

LEMMA LogStep ==
  ASSUME TypeInv, [Next]_vars
  PROVE  LogTyped' /\ up' \in BOOLEAN /\ TablesGrow /\ (InTables => InTables')
<1>0. LogTyped /\ up \in BOOLEAN
  BY DEF TypeInv, TypeOK, LogTyped
<1>1. up' \in BOOLEAN
  BY <1>0, ZenonT(30) DEF Next, vars, Listen, CallDirectly, Consume, SendReturns, HandleData, StampForward, TransmitForward, CallStep,
         HandleEmpty, StartSend, LookupSubscribers, StartRequest, QueryLast, ReadSynt, QueryEnd, ReadRange,
         CheckRegister, Register, CatchUpLast, CatchUp, Stamp, Transmit, TransmitAck, Bump, HandlePublish
<1>2. \/ \E d \in Records : SendReturns(d)
      \/ \E id \in RecordTables : HandleData(id)
      \/ UNCHANGED store
  BY ZenonT(30) DEF Next, vars, Listen, CallDirectly, Consume, StampForward, TransmitForward, CallStep,
         HandleEmpty, StartSend, LookupSubscribers, StartRequest, QueryLast, ReadSynt, QueryEnd, ReadRange,
         CheckRegister, Register, CatchUpLast, CatchUp, Stamp, Transmit, TransmitAck, Bump, HandlePublish
<1>3. ASSUME NEW d \in Records, SendReturns(d)
      PROVE  LogTyped' /\ TablesGrow /\ (InTables => InTables')
  <2>1. LogTyped'
    BY <1>0, <1>3, AcceptTyped DEF SendReturns
  <2>2. UNCHANGED rows
    BY <1>3 DEF SendReturns, Log!Accept, Log!Refuse
  <2>3. TablesGrow
    BY <2>2 DEF TablesGrow, Stored
  <2>4. ASSUME InTables
        PROVE  InTables'
    <3>1. CASE UNCHANGED pending
      BY <2>2, <2>4, <3>1 DEF InTables
    <3>2. CASE Log!Accept(d)
      <4> DEFINE id == IdOfRecord[d]
                 q == pending[id]
      <4>1. id \in RecordTables /\ pending' = [pending EXCEPT ![id] = Append(q, d)] /\ q \in Seq(Records)
        BY <1>0, <3>2 DEF Log!Accept, LogTyped
      <4>2. \A k \in DOMAIN q : IdOfRecord[q[k]] = id
        BY <2>4, <4>1 DEF InTables
      <4>3. \A k \in DOMAIN Append(q, d) : Append(q, d)[k] = d \/ (k \in DOMAIN q /\ Append(q, d)[k] = q[k])
        BY <4>1, AppendProperties, LenProperties
      <4>4. \A k \in DOMAIN Append(q, d) : IdOfRecord[Append(q, d)[k]] = id
        BY <4>2, <4>3
      <4> HIDE DEF q
      <4> QED
        BY <1>0, <2>2, <2>4, <4>1, <4>4 DEF InTables, LogTyped
    <3> QED
      BY <1>3, <3>1, <3>2 DEF SendReturns, Log!Refuse
  <2> QED
    BY <2>1, <2>3, <2>4
<1>4. ASSUME NEW id \in RecordTables, HandleData(id)
      PROVE  LogTyped' /\ TablesGrow /\ (InTables => InTables')
  BY <1>0, <1>4, SettleTyped DEF HandleData
<1>5. ASSUME UNCHANGED store
      PROVE  LogTyped' /\ TablesGrow /\ (InTables => InTables')
  <2>1. waiting' = waiting /\ pending' = pending /\ rows' = rows
    BY <1>5 DEF store
  <2>2. LogTyped' /\ (InTables => InTables')
    BY <1>0, <2>1 DEF LogTyped, InTables
  <2>3. TablesGrow
    BY <2>1 DEF TablesGrow, Stored
  <2> QED
    BY <2>2, <2>3
<1> QED
  BY <1>1, <1>2, <1>3, <1>4, <1>5

LEMMA TypeStep == TypeInv /\ [Next]_vars => TypeInv'
<1> SUFFICES ASSUME TypeInv, [Next]_vars PROVE TypeInv'
  OBVIOUS
<1>1. RegisterInv'
  BY RegisterStep DEF TypeInv
<1>2. Buffer' \in Seq(Received) /\ subscriberRegister' \in [Ids -> Seq(Clients)]
  BY <1>1 DEF RegisterInv, Shaped
<1>3. TypeOK'
  BY <1>2, FrameStep, ForwardsStep, LogStep DEF TypeOK, Locals, Times, Forwards, LogTyped
<1> QED
  BY <1>1, <1>3, FrameStep DEF TypeInv

LEMMA TypeStart == Init => TypeInv /\ InTables
<1> SUFFICES ASSUME Init PROVE TypeInv /\ InTables
  OBVIOUS
<1>1. NewFrame("absent") \in Locals
  BY Numeric, EmptySeq DEF NewFrame, Locals, PCs, Rows
<1>2. \A c \in Calls : frame[c].pc = "absent"
  BY DEF Init, NewFrame
<1>3. frame \in [Calls -> Locals]
  BY <1>1 DEF Init
<1>4. TypeOK
  BY <1>3, Numeric, EmptySeq DEF Init, TypeOK, Locals, Times, Log!Init
<1>5. InTables
  BY EmptySeq DEF Init, Log!Init, InTables
<1> QED
  BY <1>2, <1>4, <1>5, RegisterStart DEF TypeInv, Looking

LEMMA AlwaysTypeInv == Spec => [](TypeInv /\ InTables)
<1>1. TypeInv /\ InTables /\ [Next]_vars => (TypeInv /\ InTables)'
  BY TypeStep, LogStep
<1> QED
  BY <1>1, TypeStart, PTL DEF Spec

(* The frames, the register, the forwards, the counter and the tables keep   *)
(* their types: in particular no query and no wrap of a time or of the       *)
(* counter leaves its range, and only records of SEND calls are stored.      *)
THEOREM TypesAreKept == Spec => []TypeOK
<1>1. TypeInv => TypeOK
  BY DEF TypeInv
<1> QED
  BY <1>1, AlwaysTypeInv, PTL

-----------------------------------------------------------------------------
(* Sequence numbers                                                          *)

Handed(c) == frame[c].pc \in {"transmit", "transmitAck"}
BelowSequence ==
  /\ \A p \in sent : p.seq \in Nat /\ p.seq < Sequence
  /\ \A f \in forwards : f.stamped => f.seq \in Nat /\ f.seq < Sequence
  /\ \A c \in Calls : Handed(c) => frame[c].seq \in Nat /\ frame[c].seq < Sequence
NumberInv == BelowSequence /\ UniqueSequence

LEMMA Advances ==
  ASSUME TypeOK, NextSequence, SEQUENCES > 1, Sequence <= Sequence'
  PROVE  Sequence \in Nat /\ Sequence' = Sequence + 1
<1>1. Sequence \in Nat /\ Sequence < SEQUENCES /\ SEQUENCES \in Nat
  BY Numeric DEF TypeOK, Numbers
<1>2. Sequence + 1 = SEQUENCES => (Sequence + 1) % SEQUENCES = 0
  BY <1>1
<1>3. Sequence + 1 < SEQUENCES => (Sequence + 1) % SEQUENCES = Sequence + 1
  BY <1>1
<1>4. Sequence' = (Sequence + 1) % SEQUENCES
  BY DEF NextSequence
<1> QED
  BY <1>1, <1>2, <1>3, <1>4

(* A step that numbers nothing and writes nothing.                           *)
LEMMA NothingNumbered ==
  ASSUME NumberInv, TypeOK, Sequence' \in Numbers, Sequence <= Sequence', UNCHANGED sent,
         \A f \in forwards' : f.stamped => f \in forwards,
         \A k \in Calls : Handed(k)' => frame'[k] = frame[k]
  PROVE  NumberInv'
<1>0. Sequence \in Nat /\ Sequence' \in Nat
  BY Numeric DEF TypeOK, Numbers
<1>1. \A k \in Calls : Handed(k)' => Handed(k)
  BY DEF Handed
<1>2. BelowSequence'
  <2>1. \A n \in Nat : n < Sequence => n < Sequence'
    BY <1>0
  <2> QED
    BY <1>1, <2>1 DEF NumberInv, BelowSequence
<1>3. UniqueSequence'
  BY <1>1 DEF NumberInv, UniqueSequence, Handed
<1> QED
  BY <1>2, <1>3 DEF NumberInv

(* A call or a forward is numbered.                                          *)
LEMMA CallNumbered ==
  ASSUME NumberInv, Sequence \in Nat, Sequence' = Sequence + 1, UNCHANGED <<sent, forwards>>,
         NEW c \in Calls, Others(c), frame'[c].seq = Sequence
  PROVE  NumberInv'
<1>1. \A k \in Calls : k # c => frame'[k] = frame[k]
  BY DEF Others
<1>2. BelowSequence'
  <2>1. \A n \in Nat : n < Sequence => n < Sequence'
    OBVIOUS
  <2>2. Sequence < Sequence'
    OBVIOUS
  <2>3. ASSUME NEW k \in Calls, Handed(k)'
        PROVE  frame'[k].seq \in Nat /\ frame'[k].seq < Sequence'
    BY <1>1, <2>1, <2>2, <2>3 DEF NumberInv, BelowSequence, Handed
  <2> QED
    BY <2>1, <2>3 DEF NumberInv, BelowSequence
<1>3. /\ \A p \in sent : p.seq # Sequence
      /\ \A f \in forwards : f.stamped => f.seq # Sequence
      /\ \A k \in Calls : k # c /\ Handed(k)' => frame'[k] = frame[k] /\ Handed(k) /\ frame[k].seq # Sequence
  BY <1>1 DEF NumberInv, BelowSequence, Handed
<1>4. UniqueSequence'
  BY <1>3 DEF NumberInv, UniqueSequence, Handed
<1> QED
  BY <1>2, <1>4 DEF NumberInv

LEMMA ForwardNumbered ==
  ASSUME NumberInv, Sequence \in Nat, Sequence' = Sequence + 1, UNCHANGED <<sent, frame>>,
         NEW f \in forwards, NEW g, g.stamped, g.seq = Sequence, forwards' = (forwards \ {f}) \cup {g}
  PROVE  NumberInv'
<1>1. BelowSequence'
  <2>1. \A n \in Nat : n < Sequence => n < Sequence'
    OBVIOUS
  <2>2. Sequence < Sequence'
    OBVIOUS
  <2> QED
    BY <2>1, <2>2 DEF NumberInv, BelowSequence, Handed
<1>2. /\ \A p \in sent : p.seq # Sequence
      /\ \A h \in forwards : h.stamped => h.seq # Sequence
      /\ \A k \in Calls : Handed(k) => frame[k].seq # Sequence
  BY DEF NumberInv, BelowSequence
<1>3. UniqueSequence'
  BY <1>2 DEF NumberInv, UniqueSequence, Handed
<1> QED
  BY <1>1, <1>3 DEF NumberInv

(* What was numbered is written, or dropped.                                 *)
LEMMA ForwardWritten ==
  ASSUME NumberInv, NEW f \in forwards, f.stamped, forwards' = forwards \ {f}, UNCHANGED <<Sequence, frame>>,
         NEW p, p.seq = f.seq, sent' = sent \/ sent' = sent \cup {p}
  PROVE  NumberInv'
<1>1. BelowSequence'
  BY DEF NumberInv, BelowSequence, Handed
<1>2. UniqueSequence'
  BY DEF NumberInv, UniqueSequence, Handed
<1> QED
  BY <1>1, <1>2 DEF NumberInv

LEMMA CallWritten ==
  ASSUME NumberInv, NEW c \in Calls, Handed(c), ~Handed(c)', Others(c), UNCHANGED <<Sequence, forwards>>,
         NEW p, p.seq = frame[c].seq, sent' = sent \/ sent' = sent \cup {p}
  PROVE  NumberInv'
<1>1. \A k \in Calls : Handed(k)' => Handed(k) /\ k # c /\ frame'[k] = frame[k]
  BY DEF Handed, Others
<1>2. BelowSequence'
  BY <1>1 DEF NumberInv, BelowSequence
<1>3. UniqueSequence'
  BY <1>1 DEF NumberInv, UniqueSequence, Handed
<1> QED
  BY <1>2, <1>3 DEF NumberInv

(* A call that is not numbering or writing is not between the two after it.  *)
LEMMA CallHands ==
  ASSUME TypeInv, NEW c \in Calls, CallStep(c)
  PROVE  Stamp(c) \/ Transmit(c) \/ TransmitAck(c) \/ \A k \in Calls : Handed(k)' => frame'[k] = frame[k]
<1>0. Shaped
  BY DEF TypeInv, RegisterInv
<1>1. ASSUME NEW g, Becomes(c, g), g.pc \notin {"transmit", "transmitAck"}
      PROVE  \A k \in Calls : Handed(k)' => frame'[k] = frame[k]
  BY <1>1 DEF Becomes, Others, Handed
<1>2. ASSUME NEW pc \in PCs \ {"transmit", "transmitAck"}, Same(c, pc)
      PROVE  \A k \in Calls : Handed(k)' => frame'[k] = frame[k]
  BY <1>1, <1>2 DEF Same, Local
<1>3. ASSUME After(c)
      PROVE  \A k \in Calls : Handed(k)' => frame'[k] = frame[k]
  BY <1>1, <1>3 DEF After, Local
<1>4. ASSUME NEW pc \in PCs \ {"transmit", "transmitAck"}, NEW t, NEW u, Reads(c, pc, t, u)
      PROVE  \A k \in Calls : Handed(k)' => frame'[k] = frame[k]
  BY <1>1, <1>4 DEF Reads, Local
<1>5. ASSUME NEW l, Answers(c, l)
      PROVE  \A k \in Calls : Handed(k)' => frame'[k] = frame[k]
  BY <1>1, <1>5 DEF Answers, Local
<1>6. ASSUME NEW t, NEW u, NEW l, Collects(c, "catchUp", t, u, l)
      PROVE  \A k \in Calls : Handed(k)' => frame'[k] = frame[k]
  BY <1>1, <1>6 DEF Collects, Local
<1>7. ASSUME StartRequest(c) \/ QueryLast(c) \/ QueryEnd(c)
      PROVE  \A k \in Calls : Handed(k)' => frame'[k] = frame[k]
  <2>1. \E pc \in Requesting : \E t, u : Reads(c, pc, t, u)
    <3>1. CASE StartRequest(c)
      BY <1>0, <3>1, RequestSteps DEF Requesting
    <3>2. CASE QueryLast(c) \/ QueryEnd(c)
      BY <1>0, <3>2, RequestSteps DEF Requesting
    <3> QED
      BY <1>7, <3>1, <3>2
  <2> QED
    BY <1>4, <2>1 DEF Requesting, PCs
<1>8. ASSUME ReadSynt(c) \/ ReadRange(c)
      PROVE  \A k \in Calls : Handed(k)' => frame'[k] = frame[k]
  <2>1. Same(c, "done") \/ \E l : Answers(c, l)
    BY <1>0, <1>8, RequestSteps
  <2> QED
    BY <1>2, <1>5, <2>1 DEF PCs
<1>9. ASSUME CatchUpLast(c) \/ CatchUp(c)
      PROVE  \A k \in Calls : Handed(k)' => frame'[k] = frame[k]
  <2>1. Same(c, "stampAck") \/ (\E t, u : Reads(c, "stamp", t, u)) \/ \E t, u, l : Collects(c, "catchUp", t, u, l)
    BY <1>0, <1>9, CatchUpSteps
  <2> QED
    BY <1>2, <1>4, <1>6, <2>1 DEF PCs
<1>10. ASSUME HandleEmpty(c) \/ StartSend(c) \/ LookupSubscribers(c) \/ CheckRegister(c) \/ Register(c) \/ Bump(c)
       PROVE  \A k \in Calls : Handed(k)' => frame'[k] = frame[k]
  <2>1. After(c) \/ \E pc \in {"done", "lookup", "catchUpLast", "register", "stampAck"} : Same(c, pc)
    BY <1>0, <1>10, OtherSteps
  <2> QED
    BY <1>2, <1>3, <2>1 DEF PCs
<1>11. ASSUME HandlePublish(c)
       PROVE  \A k \in Calls : Handed(k)' => frame'[k] = frame[k]
  BY <1>11 DEF HandlePublish
<1> QED
  BY <1>7, <1>8, <1>9, <1>10, <1>11 DEF CallStep

LEMMA NumberStep ==
  ASSUME SEQUENCES > 1, TypeInv, TypeInv', NumberInv, [Next]_vars, Sequence <= Sequence'
  PROVE  NumberInv'
<1>0. TypeOK /\ Shaped /\ Sequence' \in Numbers /\ Received \subseteq Calls
  BY DEF TypeInv, TypeOK, RegisterInv, Received
<1>1. ASSUME NEW c \in Calls, Stamp(c)
      PROVE  NumberInv'
  <2>1. NextSequence /\ UNCHANGED <<sent, forwards>> /\ \E pc : Numbered(c, pc)
    BY <1>0, <1>1, OtherSteps DEF Stamp
  <2>2. Others(c) /\ frame'[c].seq = Sequence
    BY <2>1 DEF Numbered, Becomes, Local
  <2> QED
    BY <1>0, <2>1, <2>2, Advances, CallNumbered
<1>2. ASSUME NEW f \in forwards, StampForward(f)
      PROVE  NumberInv'
  <2>1. NextSequence /\ UNCHANGED <<sent, frame>>
    BY <1>2 DEF StampForward
  <2>2. \E g : g.stamped /\ g.seq = Sequence /\ forwards' = (forwards \ {f}) \cup {g}
    BY <1>0, <1>2, StampTyped
  <2> QED
    BY <1>0, <2>1, <2>2, Advances, ForwardNumbered
<1>3. ASSUME NEW f \in forwards, TransmitForward(f)
      PROVE  NumberInv'
  <2> DEFINE p == DataPacket(f.call, f.sub, f.slot, f.dst, Pkt(f.call).synt, <<<<f.call, f.sub>>>>, f.seq)
  <2>1. /\ f.stamped /\ forwards' = forwards \ {f} /\ UNCHANGED <<Sequence, frame>>
        /\ sent' = sent \/ sent' = sent \cup {p}
    BY <1>3 DEF TransmitForward
  <2>2. p.seq = f.seq
    BY DEF DataPacket
  <2> HIDE DEF p
  <2> QED
    BY <2>1, <2>2, ForwardWritten
<1>4. ASSUME NEW c \in Calls, Transmit(c) \/ TransmitAck(c)
      PROVE  NumberInv'
  <2>1. /\ Handed(c) /\ UNCHANGED <<Sequence, forwards>>
        /\ \E p : p.seq = frame[c].seq /\ (sent' = sent \/ sent' = sent \cup {p})
    <3>1. CASE Transmit(c)
      <4> DEFINE p == DataPacket(c, frame[c].sub, 0, Pkt(c).src, frame[c].synt, frame[c].rows, frame[c].seq)
      <4>1. frame[c].pc = "transmit" /\ UNCHANGED <<Sequence, forwards>> /\ (sent' = sent \/ sent' = sent \cup {p})
        BY <3>1 DEF Transmit, At
      <4>2. p.seq = frame[c].seq
        BY DEF DataPacket
      <4> HIDE DEF p
      <4> QED
        BY <4>1, <4>2 DEF Handed
    <3>2. CASE TransmitAck(c)
      <4>1. frame[c].pc = "transmitAck" /\ UNCHANGED <<Sequence, forwards>> /\ (sent' = sent \/ sent' = sent \cup {Ack(c)})
        BY <3>2 DEF TransmitAck, At
      <4>2. Ack(c).seq = frame[c].seq
        BY DEF Ack
      <4> QED
        BY <4>1, <4>2 DEF Handed
    <3> QED
      BY <1>4, <3>1, <3>2
  <2>2. ~Handed(c)' /\ Others(c)
    <3>1. After(c) \/ \E pc \in {"stampAck", "done", "bump"} : Same(c, pc)
      BY <1>0, <1>4, OtherSteps
    <3> QED
      BY <3>1 DEF After, Same, Becomes, Local, Handed
  <2> QED
    BY <2>1, <2>2, CallWritten
<1>5. ASSUME NEW c \in Calls, CallStep(c), ~(Stamp(c) \/ Transmit(c) \/ TransmitAck(c))
      PROVE  NumberInv'
  <2>1. \A k \in Calls : Handed(k)' => frame'[k] = frame[k]
    BY <1>5, CallHands
  <2>2. UNCHANGED sent /\ \A f \in forwards' : f.stamped => f \in forwards
    <3>1. CASE LookupSubscribers(c)
      BY <3>1 DEF LookupSubscribers
    <3>2. CASE ~LookupSubscribers(c)
      <4>1. UNCHANGED <<sent, forwards>>
        BY <1>5, <3>2 DEF CallStep, HandleEmpty, StartSend, StartRequest, QueryLast, ReadSynt, QueryEnd, ReadRange,
           CheckRegister, Register, CatchUpLast, CatchUp, Bump, HandlePublish
      <4> QED
        BY <4>1
    <3> QED
      BY <3>1, <3>2
  <2> QED
    BY <1>0, <2>1, <2>2, NothingNumbered
<1>6. ASSUME NEW c \in Calls, Listen(c) \/ CallDirectly(c)
      PROVE  NumberInv'
  <2>1. UNCHANGED <<sent, forwards>> /\ \E pc \in {"queued", "handle"} : Same(c, pc)
    BY <1>0, <1>6, BeginFacts DEF Listen, CallDirectly
  <2>2. \A k \in Calls : Handed(k)' => frame'[k] = frame[k]
    BY <2>1 DEF Same, Becomes, Local, Handed, Others
  <2> QED
    BY <1>0, <2>1, <2>2, NothingNumbered
<1>7. ASSUME Consume
      PROVE  NumberInv'
  <2>1. UNCHANGED <<sent, forwards>>
    BY <1>7 DEF Consume
  <2>2. \E h \in Calls : Taken(h)
    BY <1>0, <1>7, ConsumeFacts
  <2>3. \A k \in Calls : Handed(k)' => frame'[k] = frame[k]
    BY <2>2 DEF Taken, Becomes, Local, Handed, Others
  <2> QED
    BY <1>0, <2>1, <2>3, NothingNumbered
<1>8. ASSUME UNCHANGED <<sent, forwards, frame>>
      PROVE  NumberInv'
  BY <1>0, <1>8, NothingNumbered
<1>9. \/ \E c \in Calls : Listen(c) \/ CallDirectly(c) \/ CallStep(c)
      \/ Consume
      \/ \E f \in forwards : StampForward(f) \/ TransmitForward(f)
      \/ UNCHANGED <<sent, forwards, frame>>
  BY <1>0 DEF Next, SendReturns, HandleData, vars
<1> QED
  BY <1>1, <1>2, <1>3, <1>4, <1>5, <1>6, <1>7, <1>8, <1>9

(* The counter of 16 bits goes round after so many packets.                  *)
NeverWraps == [][Sequence <= Sequence']_vars

(* Requests, acknowledgements and forwards take their numbers in goroutines  *)
(* of their own (server.go:394-397, 420-423), and yet no two packets on      *)
(* their way or on the network have one number, until the counter wraps: in  *)
(* every behaviour in which the counter never falls.                         *)
THEOREM NumbersAreUnique ==
  ASSUME SEQUENCES > 1
  PROVE  Spec /\ NeverWraps => []UniqueSequence
<1>1. TypeInv /\ TypeInv' /\ NumberInv /\ [Next]_vars /\ [Sequence <= Sequence']_vars => NumberInv'
  <2> SUFFICES ASSUME TypeInv, TypeInv', NumberInv, [Next]_vars, [Sequence <= Sequence']_vars
               PROVE  NumberInv'
    OBVIOUS
  <2>1. Sequence <= Sequence'
    <3>1. Sequence \in Nat
      BY Numeric DEF TypeInv, TypeOK, Numbers
    <3> QED
      BY <3>1 DEF vars
  <2> QED
    BY <2>1, NumberStep
<1>2. Init => NumberInv
  <2> SUFFICES ASSUME Init PROVE NumberInv
    OBVIOUS
  <2>1. sent = {} /\ forwards = {} /\ \A c \in Calls : ~Handed(c)
    BY DEF Init, NewFrame, Handed
  <2> QED
    BY <2>1 DEF NumberInv, BelowSequence, UniqueSequence, Handed
<1>3. NumberInv => UniqueSequence
  BY DEF NumberInv
<1> QED
  BY <1>1, <1>2, <1>3, AlwaysTypeInv, PTL DEF Spec, NeverWraps

-----------------------------------------------------------------------------
(* What the reads of a call have found                                       *)

(* The rows of a reply, when its call starts reading at start and T is what  *)
(* the table holds; and the records the reply must have.                     *)
TrueRow(c, i, d, k, start) ==
  LET n == Pkt(c).subs[i].diff
  IN IF Pkt(c).service = "SUBSCRIBE" THEN Iter(d) = start + k - 1
     ELSE IF n = 0 THEN Iter(d) = start
     ELSE Iter(d) >= start /\ (n = PARAMTER_REQUEST_LAST \/ Iter(d) < Plus(start, n))
TrueRows(c, i, list, start, T) ==
  \A k \in DOMAIN list : list[k] # NoRow => list[k] \in T /\ TrueRow(c, i, list[k], k, start)

Has(list, t) == \E k \in DOMAIN list : list[k] # NoRow /\ Iter(list[k]) = t
FullRows(c, i, list, start, known) ==
  LET n == Pkt(c).subs[i].diff
  IN /\ Pkt(c).service = "SUBSCRIBE" => \A d \in known : Iter(d) >= start => Has(list, Iter(d))
     /\ Pkt(c).service = "REQUEST" /\ n = 0 /\ Pkt(c).synt = TIME_SIMU_LAST =>
          \A d \in known : start >= Iter(d) /\ Has(list, start)
     /\ Pkt(c).service = "REQUEST" /\ n = 0 /\ Pkt(c).synt # TIME_SIMU_LAST =>
          \A d \in known : Iter(d) = start => Has(list, start)
     /\ Pkt(c).service = "REQUEST" /\ n \notin {0, PARAMTER_REQUEST_LAST} =>
          \A d \in known : start <= Iter(d) /\ Iter(d) < start + n /\ start + n <= TIME_SIMU_LAST => Has(list, Iter(d))

(* A catch-up up to the largest time never ends; of the others, row k is for *)
(* the k-th time.                                                            *)
ReadTrue(c) ==
  LET f == frame[c]
      n == Sub(c).diff
      T == Stored(Sub(c).id)
  IN /\ f.pc \in {"queryLast", "readSynt"} => n = 0
     /\ f.pc = "queryEnd" => n = PARAMTER_REQUEST_LAST
     /\ f.pc = "readRange" => n # 0 /\ (n = PARAMTER_REQUEST_LAST \/ f.end = Plus(f.synt, n))
     /\ f.pc = "catchUp" /\ f.end # TIME_SIMU_LAST =>
          f.synt = Pkt(c).synt + Len(f.rows) /\ f.synt <= f.end + 1 /\ TrueRows(c, f.sub, f.rows, Pkt(c).synt, T)
     /\ f.pc \in {"stamp", "transmit"} => TrueRows(c, f.sub, f.rows, f.synt, T)

Known(c, id) == {d \in frame[c].seen : IdOfRecord[d] = id}
ReadFull(c) ==
  LET f == frame[c]
      known == Known(c, Sub(c).id)
  IN /\ f.pc = "readSynt" /\ Pkt(c).synt = TIME_SIMU_LAST =>
          \A d \in known : f.synt >= Iter(d) /\ \E e \in Stored(Sub(c).id) : Iter(e) = f.synt
     /\ f.pc = "catchUp" /\ f.end # TIME_SIMU_LAST =>
          \A d \in known : Iter(d) <= f.end /\ (Pkt(c).synt <= Iter(d) /\ Iter(d) < f.synt => Has(f.rows, Iter(d)))
     /\ f.pc \in {"stamp", "transmit"} => FullRows(c, f.sub, f.rows, f.synt, known)
SeenStored == \A c \in Calls : \A d \in frame[c].seen : d \in Stored(IdOfRecord[d])
ReadInv(c) == ReadTrue(c) /\ (~DBMayFail => ReadFull(c))
BaseInv == TypeInv /\ InTables /\ SeenStored

(* Elsewhere there is nothing to say of a call.                              *)
Reading == {"queryLast", "readSynt", "queryEnd", "readRange", "catchUp", "stamp", "transmit"}

LEMMA NotReading ==
  ASSUME NEW c \in Calls, frame'[c].pc \notin Reading
  PROVE  ReadInv(c)'
BY DEF ReadInv, ReadTrue, ReadFull, Reading

LEMMA KnownFacts ==
  ASSUME BaseInv, NEW c \in Calls, NEW id, NEW d \in Known(c, id)
  PROVE  d \in Stored(id) /\ d \in Records /\ Iter(d) \in Nat
<1>1. d \in Stored(id) /\ TypeOK
  BY DEF BaseInv, TypeInv, SeenStored, Known
<1> QED
  BY <1>1, StoredFacts, RecordFacts, Numeric

LEMMA TrueRowsGrow ==
  ASSUME NEW c, NEW i, NEW list, NEW start, NEW T, NEW U, T \subseteq U, TrueRows(c, i, list, start, T)
  PROVE  TrueRows(c, i, list, start, U)
BY DEF TrueRows

(* A call that does not move has still read what it had.                     *)
LEMMA ReadStays ==
  ASSUME NEW c \in Calls, ReadInv(c), frame'[c] = frame[c], TablesGrow
  PROVE  ReadInv(c)'
<1> DEFINE T == Stored(Sub(c).id)
           U == Stored(Sub(c).id)'
<1>1. T \subseteq U
  <2>1. Sub(c)' = Sub(c)
    BY DEF Sub
  <2> QED
    BY <2>1 DEF TablesGrow
<1>2. Sub(c)' = Sub(c) /\ Known(c, Sub(c).id)' = Known(c, Sub(c).id)
  BY DEF Sub, Known
<1>3. ReadTrue(c)'
  BY <1>1, <1>2, TrueRowsGrow DEF ReadInv, ReadTrue
<1>4. ASSUME ~DBMayFail
      PROVE  ReadFull(c)'
  BY <1>1, <1>2, <1>4 DEF ReadInv, ReadFull
<1> QED
  BY <1>3, <1>4 DEF ReadInv

LEMMA NoRowIsNone ==
  ASSUME NEW d \in Records
  PROVE  d # NoRow
<1>1. \E x, y : d = <<x, y>>
  BY DEF Records
<1>2. PICK x, y : d = <<x, y>>
  BY <1>1
<1>3. Len(<<x, y>>) = 2 /\ Len(<<>>) = 0
  OBVIOUS
<1> QED
  BY <1>2, <1>3 DEF NoRow

(* When the query does not fail: a row of the time is found if there is one, *)
(* and the last time is the last.                                            *)
LEMMA FoundIfStored ==
  ASSUME BaseInv, ~DBMayFail, NEW id, NEW t, NEW r \in RowsAt(id, t), NEW d \in Stored(id), Iter(d) = t
  PROVE  r # NoRow /\ r \in Stored(id) /\ Iter(r) = t
<1>1. r \in {e \in Stored(id) : Iter(e) = t}
  BY DEF RowsAt
<1>2. r \in Records
  BY <1>1, StoredFacts DEF BaseInv, TypeInv
<1> QED
  BY <1>1, <1>2, NoRowIsNone

LEMMA LastIsLast ==
  ASSUME ~DBMayFail, NEW id, NEW t \in LastSynts(id), NEW d \in Stored(id)
  PROVE  Iter(d) <= t /\ \E e \in Stored(id) : Iter(e) = t
BY DEF LastSynts

(* What a step that reads leaves alone.                                      *)
LEMMA ReadLeaves ==
  ASSUME NEW c \in Calls, NEW g, Becomes(c, g), g.sub = frame[c].sub, g.seen = frame[c].seen, UNCHANGED rows
  PROVE  /\ Sub(c)' = Sub(c) /\ Known(c, Sub(c).id)' = Known(c, Sub(c).id)
         /\ Stored(Sub(c).id)' = Stored(Sub(c).id) /\ frame'[c] = g
BY DEF Becomes, Sub, Known, Stored

LEMMA StartReads ==
  ASSUME BaseInv, NEW c \in Calls, StartRequest(c)
  PROVE  ReadInv(c)'
<1> DEFINE t == Pkt(c).synt
           n == Sub(c).diff
<1>0. Shaped
  BY DEF BaseInv, TypeInv, RegisterInv
<1>1. \/ n = 0 /\ t = TIME_SIMU_LAST /\ Reads(c, "queryLast", t, Plus(t, n))
      \/ n = 0 /\ t # TIME_SIMU_LAST /\ Reads(c, "readSynt", t, Plus(t, n))
      \/ n # 0 /\ n = PARAMTER_REQUEST_LAST /\ Reads(c, "queryEnd", t, Plus(t, n))
      \/ n # 0 /\ n # PARAMTER_REQUEST_LAST /\ Reads(c, "readRange", t, Plus(t, n))
  BY <1>0, RequestSteps
<1>2. PICK pc : /\ Reads(c, pc, t, Plus(t, n))
                /\ \/ n = 0 /\ t = TIME_SIMU_LAST /\ pc = "queryLast"
                   \/ n = 0 /\ t # TIME_SIMU_LAST /\ pc = "readSynt"
                   \/ n # 0 /\ n = PARAMTER_REQUEST_LAST /\ pc = "queryEnd"
                   \/ n # 0 /\ n # PARAMTER_REQUEST_LAST /\ pc = "readRange"
  BY <1>1
<1>3. /\ frame'[c].pc = pc /\ frame'[c].synt = t /\ frame'[c].end = Plus(t, n) /\ Sub(c)' = Sub(c)
  BY <1>2 DEF Reads, Becomes, Local, Sub
<1>4. ReadTrue(c)'
  BY <1>2, <1>3 DEF ReadTrue
<1>5. ReadFull(c)'
  BY <1>2, <1>3 DEF ReadFull
<1> QED
  BY <1>4, <1>5 DEF ReadInv

LEMMA QueryReads ==
  ASSUME BaseInv, NEW c \in Calls, ReadInv(c), OfService(c), QueryLast(c) \/ QueryEnd(c)
  PROVE  ReadInv(c)'
<1>0. Shaped /\ UNCHANGED rows
  BY DEF BaseInv, TypeInv, RegisterInv, QueryLast, QueryEnd, store
<1>1. CASE QueryLast(c)
  <2>1. frame[c].pc = "queryLast"
    BY <1>0, <1>1, RequestSteps
  <2>2. PICK t \in LastSynts(Sub(c).id) : Reads(c, "readSynt", t, frame[c].end)
    BY <1>0, <1>1, RequestSteps
  <2>3. /\ Sub(c)' = Sub(c) /\ Known(c, Sub(c).id)' = Known(c, Sub(c).id)
        /\ Stored(Sub(c).id)' = Stored(Sub(c).id) /\ frame'[c].pc = "readSynt" /\ frame'[c].synt = t
    BY <1>0, <2>2, ReadLeaves DEF Reads, Local
  <2>4. Sub(c).diff = 0
    BY <2>1 DEF ReadInv, ReadTrue
  <2>5. ReadTrue(c)'
    BY <2>3, <2>4 DEF ReadTrue
  <2>6. ASSUME ~DBMayFail
        PROVE  ReadFull(c)'
    <3>1. ASSUME NEW d \in Known(c, Sub(c).id)
          PROVE  t >= Iter(d) /\ \E e \in Stored(Sub(c).id) : Iter(e) = t
      <4>1. d \in Stored(Sub(c).id) /\ Iter(d) \in Nat /\ t \in Nat
        BY <2>2, KnownFacts, LastTyped, Numeric DEF BaseInv, TypeInv
      <4>2. Iter(d) <= t /\ \E e \in Stored(Sub(c).id) : Iter(e) = t
        BY <2>2, <2>6, <4>1, LastIsLast
      <4> QED
        BY <4>1, <4>2
    <3> QED
      BY <2>3, <3>1 DEF ReadFull
  <2> QED
    BY <2>5, <2>6 DEF ReadInv
<1>2. CASE QueryEnd(c)
  <2>1. frame[c].pc = "queryEnd"
    BY <1>0, <1>2, RequestSteps
  <2>2. PICK t \in LastSynts(Sub(c).id) : Reads(c, "readRange", frame[c].synt, t)
    BY <1>0, <1>2, RequestSteps
  <2>3. Sub(c)' = Sub(c) /\ frame'[c].pc = "readRange"
    BY <1>0, <2>2, ReadLeaves DEF Reads, Local
  <2>4. Sub(c).diff = PARAMTER_REQUEST_LAST /\ Sub(c).diff # 0
    BY <2>1, Numeric DEF ReadInv, ReadTrue
  <2> QED
    BY <2>3, <2>4 DEF ReadInv, ReadTrue, ReadFull
<1> QED
  BY <1>1, <1>2

LEMMA SyntReads ==
  ASSUME BaseInv, NEW c \in Calls, ReadInv(c), OfService(c), ReadSynt(c)
  PROVE  ReadInv(c)'
<1> DEFINE id == Sub(c).id
           t == frame[c].synt
<1>0. Shaped /\ UNCHANGED rows /\ TypeOK
  BY DEF BaseInv, TypeInv, RegisterInv, ReadSynt, store
<1>1. frame[c].pc = "readSynt"
  BY <1>0, RequestSteps
<1>2. PICK r \in RowsAt(id, t) : Answers(c, <<r>>)
  BY <1>0, RequestSteps
<1>3. /\ Sub(c)' = Sub(c) /\ Known(c, id)' = Known(c, id) /\ Stored(id)' = Stored(id)
      /\ frame'[c] = Local("stamp", frame[c].sub, t, frame[c].end, <<r>>, frame[c].seq, frame[c].seen)
  BY <1>0, <1>2, ReadLeaves DEF Answers, Local
<1>4. frame'[c].pc = "stamp" /\ frame'[c].synt = t /\ frame'[c].rows = <<r>> /\ frame'[c].sub = frame[c].sub
  BY <1>3 DEF Local
<1>5. Sub(c).diff = 0 /\ Pkt(c).service = "REQUEST" /\ Sub(c) = Pkt(c).subs[frame[c].sub]
  BY <1>1 DEF ReadInv, ReadTrue, OfService, Requesting, Sub
<1>6. DOMAIN <<r>> = {1} /\ <<r>>[1] = r
  OBVIOUS
<1>7. TrueRows(c, frame[c].sub, <<r>>, t, Stored(id))
  <2>1. r = NoRow \/ (r \in Stored(id) /\ Iter(r) = t)
    BY <1>0, <1>2, RowFacts
  <2> QED
    BY <1>5, <1>6, <2>1 DEF TrueRows, TrueRow
<1>8. ReadTrue(c)'
  BY <1>3, <1>4, <1>7 DEF ReadTrue
<1>9. ASSUME ~DBMayFail
      PROVE  ReadFull(c)'
  <2>1. ASSUME NEW d \in Known(c, id), Iter(d) = t
        PROVE  Has(<<r>>, t)
    <3>1. d \in Stored(id)
      BY KnownFacts
    <3>2. r # NoRow /\ Iter(r) = t
      BY <1>2, <1>9, <2>1, <3>1, FoundIfStored
    <3> QED
      BY <1>6, <3>2 DEF Has
  <2>2. ASSUME Pkt(c).synt = TIME_SIMU_LAST, NEW d \in Known(c, id)
        PROVE  t >= Iter(d) /\ Has(<<r>>, t)
    <3>1. t >= Iter(d) /\ \E e \in Stored(id) : Iter(e) = t
      BY <1>1, <1>9, <2>2 DEF ReadInv, ReadFull
    <3>2. PICK e \in Stored(id) : Iter(e) = t
      BY <3>1
    <3>3. r # NoRow /\ Iter(r) = t
      BY <1>2, <1>9, <3>2, FoundIfStored
    <3> QED
      BY <1>6, <3>1, <3>3 DEF Has
  <2>3. FullRows(c, frame[c].sub, <<r>>, t, Known(c, id))
    BY <1>5, <2>1, <2>2 DEF FullRows
  <2> QED
    BY <1>3, <1>4, <2>3 DEF ReadFull
<1> QED
  BY <1>8, <1>9 DEF ReadInv

LEMMA RangeReads ==
  ASSUME BaseInv, NEW c \in Calls, ReadInv(c), OfService(c), ReadRange(c)
  PROVE  ReadInv(c)'
<1> DEFINE id == Sub(c).id
           t == frame[c].synt
           end == frame[c].end
           n == Sub(c).diff
<1>0. Shaped /\ UNCHANGED rows /\ TypeOK /\ t \in Nat
  BY FrameFields, Numeric DEF BaseInv, TypeInv, RegisterInv, ReadRange, store
<1>1. /\ frame[c].pc = "readRange"
      /\ n # 0 /\ (n = PARAMTER_REQUEST_LAST \/ end = Plus(t, n))
      /\ Pkt(c).service = "REQUEST" /\ Sub(c) = Pkt(c).subs[frame[c].sub] /\ frame[c].sub \in Subframes(c)
  <2>1. frame[c].pc = "readRange"
    BY <1>0, RequestSteps
  <2> QED
    BY <2>1 DEF ReadInv, ReadTrue, OfService, Requesting, Sub
<1>2. CASE Same(c, "done")
  BY <1>2, NotReading DEF Same, Becomes, Local, Reading
<1>3. CASE ~Same(c, "done")
  <2>1. PICK found : found = RowsBetween(id, t, end)
    OBVIOUS
  <2>2. /\ id \in RecordTables
        /\ \E k \in IF DBMayFail THEN 0 .. Len(found) ELSE {Len(found)} : Answers(c, SubSeq(found, 1, k))
    BY <1>0, <1>3, <2>1, RequestSteps
  <2>4. /\ found \in Seq(Records)
        /\ \A j \in DOMAIN found : found[j] \in Stored(id) /\ t <= Iter(found[j]) /\ Iter(found[j]) < end
        /\ \A d \in Stored(id) : t <= Iter(d) /\ Iter(d) < end => \E j \in DOMAIN found : found[j] = d
    BY <1>0, <2>1, <2>2, RangeFacts
  <2>5. Len(found) \in Nat /\ DOMAIN found = 1 .. Len(found)
    BY <2>4, LenProperties
  <2>3. PICK k \in 0 .. Len(found) : (~DBMayFail => k = Len(found)) /\ Answers(c, SubSeq(found, 1, k))
    <3>1. CASE DBMayFail
      BY <2>2, <3>1
    <3>2. CASE ~DBMayFail
      <4>1. Len(found) \in 0 .. Len(found)
        BY <2>5
      <4>2. Answers(c, SubSeq(found, 1, Len(found)))
        BY <2>2, <3>2
      <4> QED
        BY <4>1, <4>2
    <3> QED
      BY <3>1, <3>2
  <2> DEFINE list == SubSeq(found, 1, k)
  <2>6. DOMAIN list = 1 .. k /\ \A j \in 1 .. k : list[j] = found[j]
    <3>0. k \in Nat /\ k <= Len(found)
      BY <2>5
    <3>1. k \in Int /\ 1 \in Int /\ \A j \in 1 .. k : found[j] \in Records
      <4>1. \A j \in DOMAIN found : found[j] \in Records
        BY <2>4, ElementOfSeq, LenProperties
      <4>2. \A j \in 1 .. k : j \in DOMAIN found
        BY <2>5, <3>0
      <4> QED
        BY <3>0, <4>1, <4>2
    <3>2. list \in Seq(Records) /\ Len(list) = k /\ \A j \in 1 .. k : list[j] = found[j]
      BY <3>0, <3>1, SubSeqProperties
    <3> HIDE DEF list
    <3> QED
      BY <3>2, LenProperties
  <2> HIDE DEF list
  <2>7. /\ Sub(c)' = Sub(c) /\ Known(c, id)' = Known(c, id) /\ Stored(id)' = Stored(id)
        /\ frame'[c] = Local("stamp", frame[c].sub, t, end, list, frame[c].seq, frame[c].seen)
    BY <1>0, <2>3, ReadLeaves DEF Answers, Local, list
  <2>8. frame'[c].pc = "stamp" /\ frame'[c].synt = t /\ frame'[c].rows = list /\ frame'[c].sub = frame[c].sub
    BY <2>7 DEF Local
  <2>9. TrueRows(c, frame[c].sub, list, t, Stored(id))
    <3> SUFFICES ASSUME NEW j \in DOMAIN list
                 PROVE  list[j] \in Stored(id) /\ TrueRow(c, frame[c].sub, list[j], j, t)
      BY DEF TrueRows
    <3>1. list[j] \in Stored(id) /\ t <= Iter(list[j]) /\ Iter(list[j]) < end
      <4>0. j \in 1 .. k
        BY <2>6
      <4>1. j \in 1 .. k /\ j \in DOMAIN found
        <5>1. k \in Nat /\ k <= Len(found) /\ Len(found) \in Nat
          BY <2>5
        <5>2. j \in 1 .. Len(found)
          BY <4>0, <5>1
        <5> QED
          BY <2>5, <4>0, <5>2
      <4>2. list[j] = found[j]
        BY <2>6, <4>1
      <4> QED
        BY <2>4, <4>1, <4>2
    <3>2. Iter(list[j]) \in Nat
      BY <1>0, <3>1, StoredFacts, RecordFacts, Numeric
    <3> QED
      BY <1>0, <1>1, <3>1, <3>2 DEF TrueRow
  <2>10. ReadTrue(c)'
    BY <2>7, <2>8, <2>9 DEF ReadTrue
  <2>11. ASSUME ~DBMayFail
         PROVE  ReadFull(c)'
    <3>1. ASSUME NEW d \in Known(c, id), n # PARAMTER_REQUEST_LAST,
                 t <= Iter(d), Iter(d) < t + n, t + n <= TIME_SIMU_LAST
          PROVE  Has(list, Iter(d))
      <4>1. d \in Stored(id) /\ d \in Records
        BY KnownFacts
      <4>2. n \in Nat
        <5>1. n \in 0 .. PARAMTER_REQUEST_LAST
          BY <1>1, SubframeFacts
        <5> QED
          BY <5>1, Numeric
      <4>3. end = t + n
        BY <1>0, <1>1, <3>1, <4>2, PlusFacts
      <4>4. PICK j \in DOMAIN found : found[j] = d
        BY <2>4, <3>1, <4>1, <4>3
      <4>5. k = Len(found)
        BY <2>11, <2>3
      <4>6. j \in DOMAIN list /\ list[j] = d
        BY <2>5, <2>6, <4>4, <4>5
      <4> QED
        BY <4>1, <4>6, NoRowIsNone DEF Has
    <3>2. FullRows(c, frame[c].sub, list, t, Known(c, id))
      BY <1>1, <3>1 DEF FullRows
    <3> QED
      BY <2>7, <2>8, <3>2 DEF ReadFull
  <2> QED
    BY <2>10, <2>11 DEF ReadInv
<1> QED
  BY <1>2, <1>3

LEMMA CatchUpLastReads ==
  ASSUME BaseInv, NEW c \in Calls, CatchUpLast(c)
  PROVE  ReadInv(c)'
<1> DEFINE id == Sub(c).id
           t == Pkt(c).synt
<1>0. Shaped /\ UNCHANGED rows /\ TypeOK /\ t \in Nat /\ TIME_SIMU_LAST \in Nat
  BY FrameFields, Numeric DEF BaseInv, TypeInv, RegisterInv, CatchUpLast, store
<1>1. CASE Same(c, "stampAck")
  BY <1>1, NotReading DEF Same, Becomes, Local, Reading
<1>2. CASE ~Same(c, "stampAck")
  <2>1. PICK last \in LastSynts(id) : t <= last /\ Collects(c, "catchUp", t, last, <<>>)
    BY <1>0, <1>2, CatchUpSteps
  <2>2. /\ Sub(c)' = Sub(c) /\ Known(c, id)' = Known(c, id) /\ Stored(id)' = Stored(id)
        /\ frame'[c] = Local("catchUp", frame[c].sub, t, last, <<>>, frame[c].seq, frame[c].seen)
    BY <1>0, <2>1, ReadLeaves DEF Collects, Local
  <2>3. /\ frame'[c].pc = "catchUp" /\ frame'[c].synt = t /\ frame'[c].end = last /\ frame'[c].rows = <<>>
        /\ frame'[c].sub = frame[c].sub
    BY <2>2 DEF Local
  <2>4. last \in Nat
    BY <1>0, <2>1, LastTyped, Numeric
  <2>5. TrueRows(c, frame[c].sub, <<>>, t, Stored(id)) /\ Len(<<>>) = 0
    BY DEF TrueRows
  <2>6. ReadTrue(c)'
    BY <1>0, <2>1, <2>2, <2>3, <2>4, <2>5 DEF ReadTrue
  <2>7. ASSUME ~DBMayFail
        PROVE  ReadFull(c)'
    <3>1. ASSUME NEW d \in Known(c, id)
          PROVE  Iter(d) <= last /\ ~(t <= Iter(d) /\ Iter(d) < t)
      <4>1. d \in Stored(id) /\ Iter(d) \in Nat
        BY KnownFacts
      <4> QED
        BY <1>0, <2>1, <2>7, <4>1, LastIsLast
    <3> QED
      BY <2>2, <2>3, <3>1 DEF ReadFull
  <2> QED
    BY <2>6, <2>7 DEF ReadInv
<1> QED
  BY <1>1, <1>2

LEMMA HasStays ==
  ASSUME NEW S, NEW list \in Seq(S), NEW r \in S, NEW t
  PROVE  /\ Has(list, t) => Has(Append(list, r), t)
         /\ r # NoRow => Has(Append(list, r), Iter(r))
<1>1. /\ Len(list) \in Nat /\ DOMAIN list = 1 .. Len(list) /\ DOMAIN Append(list, r) = 1 .. Len(list) + 1
      /\ \A k \in 1 .. Len(list) : Append(list, r)[k] = list[k]
      /\ Append(list, r)[Len(list) + 1] = r
  BY AppendProperties, LenProperties
<1> QED
  BY <1>1 DEF Has

LEMMA CatchUpReads ==
  ASSUME BaseInv, NEW c \in Calls, ReadInv(c), OfService(c), CatchUp(c)
  PROVE  ReadInv(c)'
<1> DEFINE id == Sub(c).id
           start == Pkt(c).synt
           t == frame[c].synt
           end == frame[c].end
           list == frame[c].rows
           i == frame[c].sub
<1>0. Shaped /\ UNCHANGED rows /\ TypeOK
  BY DEF BaseInv, TypeInv, RegisterInv, CatchUp, store
<1>1. /\ start \in Nat /\ t \in Nat /\ end \in Nat /\ TIME_SIMU_LAST \in Nat
      /\ start <= TIME_SIMU_LAST /\ t <= TIME_SIMU_LAST /\ end <= TIME_SIMU_LAST
      /\ list \in Rows /\ Len(list) \in Nat
  <2>1. list \in Rows
    BY <1>0, FrameFields
  <2>2. start \in Times /\ t \in Times /\ end \in Times
    BY <1>0, FrameFields
  <2> QED
    BY <2>1, <2>2, Numeric, LenProperties DEF Times, Rows
<1>2. /\ frame[c].pc = "catchUp" /\ Pkt(c).service = "SUBSCRIBE" /\ Sub(c) = Pkt(c).subs[i]
      /\ end # TIME_SIMU_LAST => t = start + Len(list) /\ t <= end + 1 /\ TrueRows(c, i, list, start, Stored(id))
  <2>1. frame[c].pc = "catchUp"
    BY <1>0, CatchUpSteps
  <2> QED
    BY <2>1 DEF ReadInv, ReadTrue, OfService, Subscribing, Sub
<1>3. CASE ~(t <= end)
  <2>1. Reads(c, "stamp", start, end)
    BY <1>0, <1>3, CatchUpSteps
  <2>2. /\ Sub(c)' = Sub(c) /\ Known(c, id)' = Known(c, id) /\ Stored(id)' = Stored(id)
        /\ frame'[c] = Local("stamp", i, start, end, list, frame[c].seq, frame[c].seen)
    BY <1>0, <2>1, ReadLeaves DEF Reads, Local
  <2>3. frame'[c].pc = "stamp" /\ frame'[c].synt = start /\ frame'[c].rows = list /\ frame'[c].sub = i
    BY <2>2 DEF Local
  <2>4. end # TIME_SIMU_LAST
    BY <1>1, <1>3
  <2>5. ReadTrue(c)'
    BY <1>2, <2>2, <2>3, <2>4 DEF ReadTrue
  <2>6. ASSUME ~DBMayFail
        PROVE  ReadFull(c)'
    <3>1. ASSUME NEW d \in Known(c, id), Iter(d) >= start
          PROVE  Has(list, Iter(d))
      <4>1. Iter(d) <= end /\ (start <= Iter(d) /\ Iter(d) < t => Has(list, Iter(d)))
        BY <1>2, <2>4, <2>6 DEF ReadInv, ReadFull
      <4>2. Iter(d) \in Nat
        BY KnownFacts
      <4> QED
        BY <1>1, <1>3, <3>1, <4>1, <4>2
    <3>2. FullRows(c, i, list, start, Known(c, id))
      BY <1>2, <3>1 DEF FullRows
    <3> QED
      BY <2>2, <2>3, <3>2 DEF ReadFull
  <2> QED
    BY <2>5, <2>6 DEF ReadInv
<1>4. CASE t <= end
  <2>1. PICK r \in RowsAt(id, t) :
          Collects(c, "catchUp", Plus(t, 1), end, IF Len(list) > TIME_SIMU_LAST THEN list ELSE Append(list, r))
    BY <1>0, <1>4, CatchUpSteps
  <2> DEFINE more == IF Len(list) > TIME_SIMU_LAST THEN list ELSE Append(list, r)
  <2>2. Collects(c, "catchUp", Plus(t, 1), end, more)
    BY <2>1
  <2> HIDE DEF more
  <2>3. /\ Sub(c)' = Sub(c) /\ Known(c, id)' = Known(c, id) /\ Stored(id)' = Stored(id)
        /\ frame'[c] = Local("catchUp", i, Plus(t, 1), end, more, frame[c].seq, frame[c].seen)
    BY <1>0, <2>2, ReadLeaves DEF Collects, Local
  <2>4. /\ frame'[c].pc = "catchUp" /\ frame'[c].synt = Plus(t, 1) /\ frame'[c].end = end /\ frame'[c].rows = more
        /\ frame'[c].sub = i
    BY <2>3 DEF Local
  <2>5. CASE end = TIME_SIMU_LAST
    BY <2>4, <2>5 DEF ReadInv, ReadTrue, ReadFull
  <2>6. CASE end # TIME_SIMU_LAST
    <3>1. t = start + Len(list) /\ t < TIME_SIMU_LAST /\ TrueRows(c, i, list, start, Stored(id))
      BY <1>1, <1>2, <1>4, <2>6
    <3>2. Plus(t, 1) = t + 1
      BY <1>1, <3>1, PlusFacts
    <3>3. more = Append(list, r)
      BY <1>1, <3>1, SMTT(30) DEF more
    <3>4. r \in Records \cup {NoRow} /\ (r = NoRow \/ (r \in Stored(id) /\ Iter(r) = t))
      BY <1>0, <2>1, RowFacts
    <3>5. list \in Seq(Records \cup {NoRow})
      BY <1>1 DEF Rows
    <3>6. /\ DOMAIN list = 1 .. Len(list) /\ DOMAIN more = 1 .. Len(list) + 1 /\ Len(more) = Len(list) + 1
          /\ \A k \in 1 .. Len(list) : more[k] = list[k]
          /\ more[Len(list) + 1] = r
      BY <3>3, <3>4, <3>5, AppendProperties, LenProperties
    <3>7. TrueRows(c, i, more, start, Stored(id))
      <4> SUFFICES ASSUME NEW k \in 1 .. Len(list) + 1, more[k] # NoRow
                   PROVE  more[k] \in Stored(id) /\ TrueRow(c, i, more[k], k, start)
        BY <3>6 DEF TrueRows
      <4>1. CASE k \in 1 .. Len(list)
        BY <3>1, <3>6, <4>1 DEF TrueRows
      <4>2. CASE k = Len(list) + 1
        <5>1. more[k] = r /\ Iter(r) = t /\ r \in Stored(id) /\ t = start + k - 1
          BY <1>1, <3>1, <3>4, <3>6, <4>2
        <5> QED
          BY <1>2, <5>1 DEF TrueRow
      <4> QED
        BY <1>1, <4>1, <4>2, SMTT(30)
    <3>8. ReadTrue(c)'
      <4>1. Len(more) = Len(list) + 1
        BY <3>6
      <4>2. Plus(t, 1) = start + Len(more) /\ Plus(t, 1) <= end + 1
        BY <1>1, <1>4, <3>1, <3>2, <4>1, SMTT(30)
      <4> QED
        BY <2>3, <2>4, <3>7, <4>2 DEF ReadTrue
    <3>9. ASSUME ~DBMayFail
          PROVE  ReadFull(c)'
      <4>1. ASSUME NEW d \in Known(c, id)
            PROVE  Iter(d) <= end /\ (start <= Iter(d) /\ Iter(d) < t + 1 => Has(more, Iter(d)))
        <5>1. Iter(d) <= end /\ (start <= Iter(d) /\ Iter(d) < t => Has(list, Iter(d)))
          BY <1>2, <2>6, <3>9 DEF ReadInv, ReadFull
        <5>2. Iter(d) \in Nat /\ d \in Stored(id)
          BY KnownFacts
        <5>3. Has(list, Iter(d)) => Has(more, Iter(d))
          BY <3>3, <3>4, <3>5, HasStays
        <5>4. Iter(d) = t => Has(more, Iter(d))
          <6>1. Iter(d) = t => r # NoRow /\ Iter(r) = t
            BY <2>1, <3>9, <5>2, FoundIfStored
          <6>2. r # NoRow => Has(more, Iter(r))
            BY <3>3, <3>4, <3>5, HasStays
          <6> QED
            BY <6>1, <6>2
        <5>5. Iter(d) < t + 1 => Iter(d) < t \/ Iter(d) = t
          BY <1>1, <5>2
        <5> QED
          BY <5>1, <5>3, <5>4, <5>5
      <4> QED
        BY <2>3, <2>4, <3>2, <4>1 DEF ReadFull
    <3> QED
      BY <3>8, <3>9 DEF ReadInv
  <2> QED
    BY <2>5, <2>6
<1> QED
  BY <1>3, <1>4

LEMMA StampReads ==
  ASSUME BaseInv, NEW c \in Calls, ReadInv(c), Stamp(c)
  PROVE  ReadInv(c)'
<1>0. Shaped /\ UNCHANGED rows
  BY DEF BaseInv, TypeInv, RegisterInv, Stamp, store
<1>1. CASE frame[c].pc = "stamp" /\ Numbered(c, "transmit")
  <2>1. /\ Sub(c)' = Sub(c) /\ Known(c, Sub(c).id)' = Known(c, Sub(c).id) /\ Stored(Sub(c).id)' = Stored(Sub(c).id)
        /\ frame'[c].pc = "transmit" /\ frame'[c].synt = frame[c].synt /\ frame'[c].rows = frame[c].rows
        /\ frame'[c].sub = frame[c].sub
    BY <1>0, <1>1, ReadLeaves DEF Numbered, Local
  <2>2. ReadTrue(c)'
    BY <1>1, <2>1 DEF ReadInv, ReadTrue
  <2>3. ASSUME ~DBMayFail
        PROVE  ReadFull(c)'
    BY <1>1, <2>1, <2>3 DEF ReadInv, ReadFull
  <2> QED
    BY <2>2, <2>3 DEF ReadInv
<1>2. CASE Numbered(c, "transmitAck")
  BY <1>2, NotReading DEF Numbered, Becomes, Local, Reading
<1> QED
  BY <1>0, <1>1, <1>2, OtherSteps

LEMMA CallReads ==
  ASSUME BaseInv, NEW c \in Calls, ReadInv(c), TablesGrow, CallStep(c)
  PROVE  ReadInv(c)'
<1>0. Shaped /\ OfService(c)
  BY DEF BaseInv, TypeInv, RegisterInv
<1>1. ASSUME HandleEmpty(c) \/ StartSend(c) \/ LookupSubscribers(c) \/ CheckRegister(c) \/ Register(c) \/ Transmit(c)
               \/ TransmitAck(c) \/ Bump(c)
      PROVE  ReadInv(c)'
  <2>1. After(c) \/ \E pc \in {"done", "lookup", "catchUpLast", "register", "stampAck", "bump"} : Same(c, pc)
    BY <1>0, <1>1, OtherSteps
  <2> QED
    BY <2>1, NotReading DEF After, Same, Becomes, Local, Reading
<1>2. ASSUME HandlePublish(c)
      PROVE  ReadInv(c)'
  BY <1>2, ReadStays DEF HandlePublish
<1> QED
  BY <1>0, <1>1, <1>2, StartReads, QueryReads, SyntReads, RangeReads, CatchUpLastReads, CatchUpReads, StampReads DEF CallStep

(* What is told of every step of a call.                                     *)
LEMMA CallBecomes ==
  ASSUME Shaped, NEW c \in Calls, CallStep(c)
  PROVE  /\ Others(c) /\ frame[c].pc \notin {"absent", "queued"}
         /\ frame'[c].pc \notin {"absent", "queued"} /\ frame'[c].seen = frame[c].seen
<1> DEFINE Goal == frame'[c].pc \notin {"absent", "queued"} /\ frame'[c].seen = frame[c].seen
<1>0. Others(c) /\ frame[c].pc \notin {"absent", "queued"}
  BY CallStepFacts
<1>1. ASSUME After(c) \/ \E pc \in {"done", "lookup", "catchUpLast", "register", "stampAck", "bump"} : Same(c, pc)
      PROVE  Goal
  BY <1>1 DEF After, Same, Becomes, Local
<1>2. ASSUME NEW pc \in Requesting \cup {"stamp"}, NEW t, NEW u, Reads(c, pc, t, u)
      PROVE  Goal
  BY <1>2 DEF Reads, Becomes, Local, Requesting
<1>3. ASSUME NEW l, Answers(c, l)
      PROVE  Goal
  BY <1>3 DEF Answers, Becomes, Local
<1>4. ASSUME NEW t, NEW u, NEW l, Collects(c, "catchUp", t, u, l)
      PROVE  Goal
  BY <1>4 DEF Collects, Becomes, Local
<1>5. ASSUME NEW pc \in {"transmit", "transmitAck"}, Numbered(c, pc)
      PROVE  Goal
  BY <1>5 DEF Numbered, Becomes, Local
<1>6. ASSUME StartRequest(c) \/ QueryLast(c) \/ QueryEnd(c)
      PROVE  Goal
  <2>1. \E pc \in Requesting : \E t, u : Reads(c, pc, t, u)
    <3>1. CASE StartRequest(c)
      BY <3>1, RequestSteps DEF Requesting
    <3>2. CASE QueryLast(c) \/ QueryEnd(c)
      BY <3>2, RequestSteps DEF Requesting
    <3> QED
      BY <1>6, <3>1, <3>2
  <2> QED
    BY <1>2, <2>1
<1>7. ASSUME ReadSynt(c) \/ ReadRange(c)
      PROVE  Goal
  <2>1. Same(c, "done") \/ \E l : Answers(c, l)
    BY <1>7, RequestSteps
  <2> QED
    BY <1>1, <1>3, <2>1
<1>8. ASSUME CatchUpLast(c) \/ CatchUp(c)
      PROVE  Goal
  <2>1. Same(c, "stampAck") \/ (\E t, u : Reads(c, "stamp", t, u)) \/ \E t, u, l : Collects(c, "catchUp", t, u, l)
    BY <1>8, CatchUpSteps
  <2> QED
    BY <1>1, <1>2, <1>4, <2>1
<1>9. ASSUME Stamp(c)
      PROVE  Goal
  BY <1>5, <1>9, OtherSteps
<1>10. ASSUME HandleEmpty(c) \/ StartSend(c) \/ LookupSubscribers(c) \/ CheckRegister(c) \/ Register(c) \/ Transmit(c)
                \/ TransmitAck(c) \/ Bump(c)
       PROVE  Goal
  <2>1. After(c) \/ \E pc \in {"done", "lookup", "catchUpLast", "register", "stampAck", "bump"} : Same(c, pc)
    BY <1>10, OtherSteps
  <2> QED
    BY <1>1, <2>1
<1>11. ASSUME HandlePublish(c)
      PROVE  Goal
  BY <1>0, <1>11 DEF HandlePublish
<1>12. Goal
  BY <1>6, <1>7, <1>8, <1>9, <1>10, <1>11 DEF CallStep
<1> QED
  BY <1>0, <1>12

(* Every step moves one call, or none.                                       *)
LEMMA OneMoves ==
  ASSUME Shaped, [Next]_vars
  PROVE  \/ \E c \in Calls : CallStep(c)
         \/ \E c \in Calls : frame[c].pc = "absent" /\ Same(c, "queued") /\ Buffer' = Append(Buffer, c) /\ UNCHANGED sent
         \/ \E c \in Calls : frame[c].pc = "absent" /\ Same(c, "handle") /\ UNCHANGED <<Buffer, sent>>
         \/ /\ Buffer # <<>> /\ Buffer' = Tail(Buffer) /\ UNCHANGED sent /\ UNCHANGED rows
            /\ \E c \in Calls : c = Head(Buffer) /\ Taken(c)
         \/ UNCHANGED <<frame, Buffer>>
<1>0. Received \subseteq Calls
  BY DEF Received
<1>1. ASSUME NEW c \in Calls, Listen(c)
      PROVE  frame[c].pc = "absent" /\ Same(c, "queued") /\ Buffer' = Append(Buffer, c) /\ UNCHANGED sent
  BY <1>1, BeginFacts DEF Listen
<1>2. ASSUME NEW c \in Calls, CallDirectly(c)
      PROVE  frame[c].pc = "absent" /\ Same(c, "handle") /\ UNCHANGED <<Buffer, sent>>
  BY <1>2, BeginFacts DEF CallDirectly
<1>3. ASSUME Consume
      PROVE  /\ Buffer # <<>> /\ Buffer' = Tail(Buffer) /\ UNCHANGED sent /\ UNCHANGED rows
             /\ \E c \in Calls : c = Head(Buffer) /\ Taken(c)
  <2>1. UNCHANGED sent /\ UNCHANGED rows
    BY <1>3 DEF Consume, store
  <2> QED
    BY <1>3, <2>1, ConsumeFacts
<1>4. \/ \E c \in Calls : Listen(c) \/ CallDirectly(c) \/ CallStep(c)
      \/ Consume
      \/ UNCHANGED <<frame, Buffer>>
  BY <1>0 DEF Next, SendReturns, HandleData, StampForward, TransmitForward, vars
<1> QED
  BY <1>1, <1>2, <1>3, <1>4

LEMMA ReadStep ==
  ASSUME BaseInv, \A c \in Calls : ReadInv(c), [Next]_vars
  PROVE  \A c \in Calls : ReadInv(c)'
<1>0. Shaped /\ TablesGrow
  BY LogStep DEF BaseInv, TypeInv, RegisterInv
<1>1. ASSUME NEW c \in Calls, Others(c), ReadInv(c)'
      PROVE  \A k \in Calls : ReadInv(k)'
  BY <1>0, <1>1, ReadStays DEF Others
<1>2. ASSUME NEW c \in Calls, CallStep(c)
      PROVE  \A k \in Calls : ReadInv(k)'
  BY <1>0, <1>1, <1>2, CallReads, CallBecomes
<1>3. ASSUME NEW c \in Calls, Same(c, "queued") \/ Same(c, "handle") \/ Taken(c)
      PROVE  \A k \in Calls : ReadInv(k)'
  <2>1. Others(c) /\ frame'[c].pc \in {"queued", "handle"}
    BY <1>3 DEF Same, Taken, Becomes, Local
  <2> QED
    BY <1>1, <2>1, NotReading DEF Reading
<1>4. ASSUME UNCHANGED frame
      PROVE  \A k \in Calls : ReadInv(k)'
  BY <1>0, <1>4, ReadStays
<1> QED
  BY <1>0, <1>2, <1>3, <1>4, OneMoves

LEMMA SeenStep ==
  ASSUME BaseInv, [Next]_vars
  PROVE  SeenStored'
<1>0. Shaped /\ TablesGrow /\ InTables /\ TypeOK
  BY LogStep DEF BaseInv, TypeInv, RegisterInv
<1>1. ASSUME NEW c \in Calls, \A d \in frame'[c].seen : d \in frame[c].seen
      PROVE  \A d \in frame'[c].seen : d \in Stored(IdOfRecord[d])'
  BY <1>0, <1>1 DEF BaseInv, SeenStored, TablesGrow
<1>2. ASSUME NEW c \in Calls, Taken(c), UNCHANGED rows
      PROVE  \A k \in Calls : \A d \in frame'[k].seen : d \in Stored(IdOfRecord[d])'
  <2>1. frame'[c].seen = UNION {Stored(id) : id \in Ids} /\ Others(c)
    BY <1>2 DEF Taken, Becomes, Local
  <2>2. ASSUME NEW d \in frame'[c].seen
        PROVE  d \in Stored(IdOfRecord[d])'
    <3>1. PICK id \in Ids : d \in Stored(id)
      BY <2>1, <2>2
    <3>2. id \in RecordTables /\ \E k \in DOMAIN rows[id] : rows[id][k] = d
      BY <3>1 DEF Stored, Range
    <3>3. IdOfRecord[d] = id
      BY <1>0, <3>2 DEF InTables
    <3> QED
      BY <1>0, <3>1, <3>3 DEF TablesGrow
  <2> QED
    BY <1>1, <2>1, <2>2 DEF Others
<1>3. ASSUME NEW c \in Calls, Same(c, "queued") \/ Same(c, "handle") \/ CallStep(c)
      PROVE  \A k \in Calls : \A d \in frame'[k].seen : d \in Stored(IdOfRecord[d])'
  <2>1. Others(c) /\ frame'[c].seen = frame[c].seen
    BY <1>0, <1>3, CallBecomes DEF Same, Becomes, Local
  <2> QED
    BY <1>1, <2>1 DEF Others
<1>4. ASSUME UNCHANGED frame
      PROVE  \A k \in Calls : \A d \in frame'[k].seen : d \in Stored(IdOfRecord[d])'
  BY <1>1, <1>4
<1> QED
  BY <1>0, <1>2, <1>3, <1>4, OneMoves DEF SeenStored

-----------------------------------------------------------------------------
(* What waits in the buffer waits once, and its call is queued.              *)
QueueInv ==
  /\ \A i \in DOMAIN Buffer : frame[Buffer[i]].pc = "queued"
  /\ \A i, j \in DOMAIN Buffer : Buffer[i] = Buffer[j] => i = j

LEMMA BufferFacts ==
  ASSUME Shaped
  PROVE  /\ Len(Buffer) \in Nat /\ DOMAIN Buffer = 1 .. Len(Buffer) /\ \A i \in DOMAIN Buffer : Buffer[i] \in Calls
         /\ Buffer # <<>> => /\ Head(Buffer) = Buffer[1] /\ 1 \in DOMAIN Buffer
                             /\ Len(Tail(Buffer)) = Len(Buffer) - 1 /\ DOMAIN Tail(Buffer) = 1 .. Len(Buffer) - 1
                             /\ \A i \in DOMAIN Tail(Buffer) : Tail(Buffer)[i] = Buffer[i + 1]
<1>1. Buffer \in Seq(Received) /\ Received \subseteq Calls
  BY DEF Shaped, Received
<1>2. Len(Buffer) \in Nat /\ DOMAIN Buffer = 1 .. Len(Buffer) /\ \A i \in DOMAIN Buffer : Buffer[i] \in Calls
  BY <1>1, LenProperties, ElementOfSeq
<1>3. ASSUME Buffer # <<>>
      PROVE  /\ Head(Buffer) = Buffer[1] /\ 1 \in DOMAIN Buffer
             /\ Len(Tail(Buffer)) = Len(Buffer) - 1 /\ DOMAIN Tail(Buffer) = 1 .. Len(Buffer) - 1
             /\ \A i \in DOMAIN Tail(Buffer) : Tail(Buffer)[i] = Buffer[i + 1]
  <2>1. Len(Buffer) # 0
    BY <1>1, <1>3, EmptySeq
  <2>2. 1 \in DOMAIN Buffer
    BY <1>2, <2>1
  <2>3. /\ Head(Buffer) = Buffer[1] /\ Tail(Buffer) \in Seq(Received) /\ Len(Tail(Buffer)) = Len(Buffer) - 1
        /\ \A i \in 1 .. Len(Tail(Buffer)) : Tail(Buffer)[i] = Buffer[i + 1]
    BY <1>1, <1>3, HeadTailProperties
  <2>4. DOMAIN Tail(Buffer) = 1 .. Len(Tail(Buffer))
    BY <2>3, LenProperties
  <2> QED
    BY <2>2, <2>3, <2>4
<1> QED
  BY <1>2, <1>3

LEMMA QueueStep ==
  ASSUME TypeInv, QueueInv, [Next]_vars
  PROVE  QueueInv'
<1>0. Shaped
  BY DEF TypeInv, RegisterInv
<1>b. Len(Buffer) \in Nat /\ DOMAIN Buffer = 1 .. Len(Buffer) /\ \A i \in DOMAIN Buffer : Buffer[i] \in Calls
  BY <1>0, BufferFacts
<1>1. ASSUME UNCHANGED Buffer, NEW c \in Calls, frame[c].pc # "queued", Others(c)
      PROVE  QueueInv'
  BY <1>b, <1>1 DEF QueueInv, Others
<1>2. ASSUME NEW c \in Calls, CallStep(c)
      PROVE  QueueInv'
  <2>1. UNCHANGED Buffer
    BY <1>2 DEF CallStep, HandleEmpty, StartSend, LookupSubscribers, StartRequest, QueryLast, ReadSynt, QueryEnd,
       ReadRange, CheckRegister, Register, CatchUpLast, CatchUp, Stamp, Transmit, TransmitAck, Bump, HandlePublish
  <2> QED
    BY <1>0, <1>1, <1>2, <2>1, CallBecomes
<1>3. ASSUME NEW c \in Calls, frame[c].pc = "absent", Same(c, "queued"), Buffer' = Append(Buffer, c)
      PROVE  QueueInv'
  <2>1. Others(c) /\ frame'[c].pc = "queued"
    BY <1>3 DEF Same, Becomes, Local
  <2>2. \A i \in DOMAIN Buffer : Buffer[i] # c
    BY <1>3 DEF QueueInv
  <2>3. /\ Len(Buffer') = Len(Buffer) + 1 /\ DOMAIN Buffer' = 1 .. Len(Buffer) + 1
        /\ Buffer'[Len(Buffer) + 1] = c /\ \A i \in 1 .. Len(Buffer) : Buffer'[i] = Buffer[i]
    <3>1. Buffer \in Seq(Calls)
      BY <1>0 DEF Shaped, Received
    <3> QED
      BY <1>3, <3>1, AppendProperties, LenProperties
  <2>4. \A i \in DOMAIN Buffer' : i = Len(Buffer) + 1 \/ i \in DOMAIN Buffer
    BY <1>b, <2>3
  <2>5. \A i \in DOMAIN Buffer' : frame'[Buffer'[i]].pc = "queued"
    BY <1>b, <2>1, <2>2, <2>3, <2>4 DEF QueueInv, Others
  <2>6. \A i, j \in DOMAIN Buffer' : Buffer'[i] = Buffer'[j] => i = j
    BY <1>b, <2>2, <2>3, <2>4 DEF QueueInv
  <2> QED
    BY <2>5, <2>6 DEF QueueInv
<1>4. ASSUME NEW c \in Calls, frame[c].pc = "absent", Same(c, "handle"), UNCHANGED Buffer
      PROVE  QueueInv'
  BY <1>1, <1>4 DEF Same, Becomes
<1>5. ASSUME NEW c \in Calls, Buffer # <<>>, c = Head(Buffer), Taken(c), Buffer' = Tail(Buffer)
      PROVE  QueueInv'
  <2>1. c = Buffer[1] /\ 1 \in DOMAIN Buffer /\ DOMAIN Buffer' = 1 .. Len(Buffer) - 1
        /\ \A i \in DOMAIN Buffer' : Buffer'[i] = Buffer[i + 1]
    BY <1>0, <1>5, BufferFacts
  <2>2. \A i \in DOMAIN Buffer' : i \in Nat /\ i + 1 \in DOMAIN Buffer /\ i + 1 # 1
    BY <1>b, <2>1
  <2>3. \A i \in DOMAIN Buffer' : Buffer'[i] # c
    BY <2>1, <2>2 DEF QueueInv
  <2>4. \A i \in DOMAIN Buffer' : frame'[Buffer'[i]].pc = "queued"
    BY <1>5, <1>b, <2>1, <2>2, <2>3 DEF QueueInv, Taken, Becomes, Others
  <2>5. \A i, j \in DOMAIN Buffer' : Buffer'[i] = Buffer'[j] => i = j
    <3> SUFFICES ASSUME NEW i \in DOMAIN Buffer', NEW j \in DOMAIN Buffer', Buffer'[i] = Buffer'[j] PROVE i = j
      OBVIOUS
    <3>1. i + 1 = j + 1
      BY <2>1, <2>2 DEF QueueInv
    <3> QED
      BY <2>2, <3>1
  <2> QED
    BY <2>4, <2>5 DEF QueueInv
<1>6. ASSUME UNCHANGED <<frame, Buffer>>
      PROVE  QueueInv'
  BY <1>6 DEF QueueInv
<1> QED
  BY <1>0, <1>2, <1>3, <1>4, <1>5, <1>6, OneMoves

-----------------------------------------------------------------------------
(* What was read is what is sent                                             *)

(* A reply keeps what was true of the reads it was made from: the tables     *)
(* only grow, and what its call had seen when it was taken from the buffer   *)
(* is what it has seen.                                                      *)
ReplyOfCall(p) ==
  /\ p.call \in Calls /\ p.sub \in Subframes(p.call) /\ p.id = Pkt(p.call).subs[p.sub].id
  /\ frame[p.call].pc \notin {"absent", "queued"}
ReplyKept(p) ==
  /\ TrueRows(p.call, p.sub, p.rows, p.synt, Stored(p.id))
  /\ ~DBMayFail => FullRows(p.call, p.sub, p.rows, p.synt, Known(p.call, p.id))
ForwardKept(p) == p.kind = "data" /\ p.slot > 0 => p.rows = <<<<p.call, p.sub>>>>
SentInv ==
  /\ \A p \in Replies : ReplyOfCall(p) /\ ReplyKept(p)
  /\ \A p \in sent : ForwardKept(p)
  /\ \A f \in forwards : f.slot > 0
ReplyInv == BaseInv /\ (\A c \in Calls : ReadInv(c)) /\ QueueInv /\ SentInv

LEMMA SlotsStay ==
  ASSUME TypeInv, \A f \in forwards : f.slot > 0, [Next]_vars
  PROVE  \A f \in forwards' : f.slot > 0
<1>0. TypeOK
  BY DEF TypeInv
<1>1. ASSUME NEW f \in forwards, StampForward(f)
      PROVE  \A g \in forwards' : g.slot > 0
  BY <1>0, <1>1, StampTyped
<1>2. ASSUME NEW c \in Calls, LookupSubscribers(c)
      PROVE  \A g \in forwards' : g.slot > 0
  <2> DEFINE list == subscriberRegister[Sub(c).id]
  <2>1. Looking(c) /\ frame[c].pc = "lookup"
    BY <1>2 DEF TypeInv, LookupSubscribers, At
  <2>2. Sub(c).id \in Ids
    BY <2>1, SubframeFacts DEF Sub, Looking
  <2>3. list \in Seq(Clients)
    BY <1>0, <2>2 DEF TypeOK
  <2>4. \A k \in DOMAIN list : k > 0
    BY <2>3, LenProperties
  <2>5. \A g \in forwards' : g \in forwards \/ \E k \in DOMAIN list : g.slot = k
    BY <1>2 DEF LookupSubscribers
  <2> HIDE DEF list
  <2> QED
    BY <2>4, <2>5
<1>3. \/ \E f \in forwards : StampForward(f)
      \/ \E c \in Calls : LookupSubscribers(c)
      \/ forwards' \subseteq forwards
  BY ZenonT(30) DEF Next, vars, Listen, CallDirectly, Consume, SendReturns, HandleData, TransmitForward, CallStep, Received,
         HandleEmpty, StartSend, StartRequest, QueryLast, ReadSynt, QueryEnd, ReadRange,
         CheckRegister, Register, CatchUpLast, CatchUp, Stamp, Transmit, TransmitAck, Bump, HandlePublish
<1> QED
  BY <1>1, <1>2, <1>3

(* What is new on the network: the data packet of a call that has read, an   *)
(* acknowledgement, or a forward.                                            *)
LEMMA WhatIsSent ==
  ASSUME Shaped, [Next]_vars, NEW p \in sent', p \notin sent
  PROVE  \/ \E c \in Calls : /\ Transmit(c) /\ p.call = c /\ p.sub = frame[c].sub /\ p.slot = 0
                             /\ p.id = Sub(c).id /\ p.synt = frame[c].synt /\ p.rows = frame[c].rows
         \/ p.kind = "ack"
         \/ \E f \in forwards : p.slot = f.slot /\ p.rows = <<<<p.call, p.sub>>>>
<1>1. ASSUME NEW c \in Calls, Transmit(c)
      PROVE  /\ p.call = c /\ p.sub = frame[c].sub /\ p.slot = 0
             /\ p.id = Sub(c).id /\ p.synt = frame[c].synt /\ p.rows = frame[c].rows
  <2>1. p = DataPacket(c, frame[c].sub, 0, Pkt(c).src, frame[c].synt, frame[c].rows, frame[c].seq)
    BY <1>1 DEF Transmit
  <2> QED
    BY <2>1 DEF DataPacket, Sub
<1>2. ASSUME NEW c \in Calls, TransmitAck(c)
      PROVE  p.kind = "ack"
  <2>1. p = Ack(c)
    BY <1>2 DEF TransmitAck
  <2> QED
    BY <2>1 DEF Ack
<1>3. ASSUME NEW f \in forwards, TransmitForward(f)
      PROVE  p.slot = f.slot /\ p.rows = <<<<p.call, p.sub>>>>
  <2>1. p = DataPacket(f.call, f.sub, f.slot, f.dst, Pkt(f.call).synt, <<<<f.call, f.sub>>>>, f.seq)
    BY <1>3 DEF TransmitForward
  <2> QED
    BY <2>1 DEF DataPacket
<1>4. (\E c \in Calls : Transmit(c) \/ TransmitAck(c)) \/ (\E f \in forwards : TransmitForward(f)) \/ UNCHANGED sent
  BY ZenonT(30) DEF Next, vars, Listen, CallDirectly, Consume, SendReturns, HandleData, StampForward, CallStep, Received,
         HandleEmpty, StartSend, LookupSubscribers, StartRequest, QueryLast, ReadSynt, QueryEnd, ReadRange,
         CheckRegister, Register, CatchUpLast, CatchUp, Stamp, Bump, HandlePublish
<1> QED
  BY <1>1, <1>2, <1>3, <1>4

(* No step takes back what a packet of a begun call has seen.                *)
LEMMA BegunStays ==
  ASSUME TypeInv, QueueInv, [Next]_vars, NEW c \in Calls, frame[c].pc \notin {"absent", "queued"}
  PROVE  frame'[c].pc \notin {"absent", "queued"} /\ frame'[c].seen = frame[c].seen
<1>0. Shaped
  BY DEF TypeInv, RegisterInv
<1>1. ASSUME NEW k \in Calls, Others(k), k # c
      PROVE  frame'[c].pc \notin {"absent", "queued"} /\ frame'[c].seen = frame[c].seen
  BY <1>1 DEF Others
<1>2. ASSUME NEW k \in Calls, CallStep(k)
      PROVE  frame'[c].pc \notin {"absent", "queued"} /\ frame'[c].seen = frame[c].seen
  BY <1>0, <1>1, <1>2, CallBecomes
<1>3. ASSUME NEW k \in Calls, frame[k].pc = "absent", Same(k, "queued") \/ Same(k, "handle")
      PROVE  frame'[c].pc \notin {"absent", "queued"} /\ frame'[c].seen = frame[c].seen
  BY <1>1, <1>3 DEF Same, Becomes
<1>4. ASSUME NEW k \in Calls, Buffer # <<>>, k = Head(Buffer), Taken(k)
      PROVE  frame'[c].pc \notin {"absent", "queued"} /\ frame'[c].seen = frame[c].seen
  <2>1. frame[k].pc = "queued"
    BY <1>0, <1>4, BufferFacts DEF QueueInv
  <2> QED
    BY <1>1, <1>4, <2>1 DEF Taken, Becomes
<1> QED
  BY <1>0, <1>2, <1>3, <1>4, OneMoves

LEMMA SentStep ==
  ASSUME ReplyInv, [Next]_vars
  PROVE  SentInv'
<1>0. Shaped /\ TablesGrow /\ TypeInv /\ QueueInv /\ BaseInv
  BY LogStep DEF ReplyInv, BaseInv, TypeInv, RegisterInv
<1>1. \A f \in forwards' : f.slot > 0
  BY <1>0, SlotsStay DEF ReplyInv, SentInv
<1>2. ASSUME NEW p, ReplyOfCall(p), ReplyKept(p)
      PROVE  ReplyOfCall(p)' /\ ReplyKept(p)'
  <2>1. frame'[p.call].pc \notin {"absent", "queued"} /\ frame'[p.call].seen = frame[p.call].seen
    BY <1>0, <1>2, BegunStays DEF ReplyOfCall
  <2>2. Known(p.call, p.id)' = Known(p.call, p.id)
    BY <2>1 DEF Known
  <2>3. Stored(p.id) \subseteq Stored(p.id)'
    BY <1>0 DEF TablesGrow
  <2>4. TrueRows(p.call, p.sub, p.rows, p.synt, Stored(p.id)')
    BY <1>2, <2>3, TrueRowsGrow DEF ReplyKept
  <2> QED
    BY <1>2, <2>1, <2>2, <2>4 DEF ReplyOfCall, ReplyKept
<1>3. ASSUME NEW c \in Calls, Transmit(c), NEW p,
             p.call = c, p.sub = frame[c].sub, p.id = Sub(c).id, p.synt = frame[c].synt, p.rows = frame[c].rows
      PROVE  ReplyOfCall(p) /\ ReplyKept(p)
  <2>1. frame[c].pc = "transmit"
    BY <1>3 DEF Transmit, At
  <2>2. frame[c].sub \in Subframes(c) /\ ReadInv(c)
    BY <1>0, <2>1 DEF TypeInv, RegisterInv, OfService, ReplyInv
  <2>3. ReplyOfCall(p)
    BY <1>3, <2>1, <2>2 DEF ReplyOfCall, Sub
  <2>4. TrueRows(c, frame[c].sub, frame[c].rows, frame[c].synt, Stored(Sub(c).id))
    BY <2>1, <2>2 DEF ReadInv, ReadTrue
  <2>5. ASSUME ~DBMayFail
        PROVE  FullRows(c, frame[c].sub, frame[c].rows, frame[c].synt, Known(c, Sub(c).id))
    BY <2>1, <2>2, <2>5 DEF ReadInv, ReadFull
  <2> QED
    BY <1>3, <2>3, <2>4, <2>5 DEF ReplyKept
<1>4. ASSUME NEW p \in Replies'
      PROVE  ReplyOfCall(p)' /\ ReplyKept(p)'
  <2>1. p \in sent' /\ p.kind = "data" /\ p.slot = 0
    BY DEF Replies
  <2>2. CASE p \in sent
    BY <1>2, <2>1, <2>2 DEF ReplyInv, SentInv, Replies
  <2>3. CASE p \notin sent
    <3>1. \/ \E c \in Calls : /\ Transmit(c) /\ p.call = c /\ p.sub = frame[c].sub /\ p.slot = 0
                             /\ p.id = Sub(c).id /\ p.synt = frame[c].synt /\ p.rows = frame[c].rows
          \/ \E f \in forwards : p.slot = f.slot
      BY <1>0, <2>1, <2>3, WhatIsSent
    <3>2. ~ \E f \in forwards : p.slot = f.slot
      BY <2>1 DEF ReplyInv, SentInv
    <3> QED
      BY <1>2, <1>3, <3>1, <3>2
  <2> QED
    BY <2>2, <2>3
<1>5. ASSUME NEW p \in sent'
      PROVE  ForwardKept(p)
  <2>1. CASE p \in sent
    BY <2>1 DEF ReplyInv, SentInv
  <2>2. CASE p \notin sent
    <3>1. p.slot = 0 \/ p.kind = "ack" \/ p.rows = <<<<p.call, p.sub>>>>
      BY <1>0, <2>2, WhatIsSent
    <3> QED
      BY <3>1 DEF ForwardKept
  <2> QED
    BY <2>1, <2>2
<1> QED
  BY <1>1, <1>4, <1>5 DEF SentInv

LEMMA ReplyStart == Init => ReplyInv
<1> SUFFICES ASSUME Init PROVE ReplyInv
  OBVIOUS
<1>1. /\ sent = {} /\ forwards = {} /\ Buffer = <<>>
      /\ \A c \in Calls : frame[c].pc = "absent" /\ frame[c].seen = {}
  BY DEF Init, NewFrame
<1>2. QueueInv /\ SentInv
  <2>1. DOMAIN Buffer = {}
    BY <1>1
  <2> QED
    BY <1>1, <2>1 DEF QueueInv, SentInv, Replies
<1>3. SeenStored /\ \A c \in Calls : ReadInv(c)
  BY <1>1 DEF SeenStored, ReadInv, ReadTrue, ReadFull
<1> QED
  BY <1>2, <1>3, TypeStart DEF ReplyInv, BaseInv

LEMMA AlwaysReplyInv == Spec => []ReplyInv
<1>1. ReplyInv /\ (TypeInv /\ InTables)' /\ [Next]_vars => ReplyInv'
  <2> SUFFICES ASSUME ReplyInv, (TypeInv /\ InTables)', [Next]_vars PROVE ReplyInv'
    OBVIOUS
  <2>1. BaseInv /\ TypeInv /\ QueueInv /\ \A c \in Calls : ReadInv(c)
    BY DEF ReplyInv, BaseInv
  <2>2. SentInv'
    BY SentStep
  <2>3. QueueInv'
    BY <2>1, QueueStep
  <2>4. SeenStored'
    BY <2>1, SeenStep
  <2>5. \A c \in Calls : ReadInv(c)'
    BY <2>1, ReadStep
  <2> QED
    BY <2>2, <2>3, <2>4, <2>5 DEF ReplyInv, BaseInv
<1> QED
  BY <1>1, ReplyStart, AlwaysTypeInv, PTL DEF Spec

(* Nothing is in a reply that is not stored for its id and of a time that    *)
(* was asked for, row k of a catch-up is of the k-th time, and a forward     *)
(* carries the record it was started for (server.go:207-390).                *)
THEOREM RepliesTellTheTruth == Spec => []RepliesAreTrue
<1>1. ReplyInv => RepliesAreTrue
  <2> SUFFICES ASSUME ReplyInv PROVE RepliesAreTrue
    OBVIOUS
  <2>1. ASSUME NEW p \in Replies, NEW k \in DOMAIN p.rows, p.rows[k] # NoRow
        PROVE  p.rows[k] \in Stored(p.id) /\ TrueRow(p.call, p.sub, p.rows[k], k, p.synt)
    BY <2>1 DEF ReplyInv, SentInv, ReplyKept, TrueRows
  <2>2. \A p \in sent : p.kind = "data" /\ p.slot > 0 => p.rows = <<<<p.call, p.sub>>>>
    BY DEF ReplyInv, SentInv, ForwardKept
  <2> QED
    BY <2>1, <2>2 DEF RepliesAreTrue, TrueRow
<1> QED
  BY <1>1, AlwaysReplyInv, PTL

(* Whatever was stored when a packet was taken from the buffer is in the     *)
(* reply it asks for, however many records other goroutines store between    *)
(* the queries of one reply, unless a query fails.                           *)
THEOREM RepliesLackNothing == Spec => []RepliesAreComplete
<1>1. ReplyInv => RepliesAreComplete
  <2> SUFFICES ASSUME ReplyInv, ~DBMayFail, NEW p \in Replies
               PROVE  LET known == {d \in frame[p.call].seen : IdOfRecord[d] = p.id}
                          pkt == Pkt(p.call)
                          n == pkt.subs[p.sub].diff
                          Holds(t) == \E d \in Range(p.rows) : d # NoRow /\ Iter(d) = t
                      IN CASE pkt.service = "SUBSCRIBE" ->
                                \A d \in known : Iter(d) >= p.synt => Holds(Iter(d))
                           [] pkt.service = "REQUEST" /\ n = 0 /\ pkt.synt = TIME_SIMU_LAST ->
                                \A d \in known : p.synt >= Iter(d) /\ Holds(p.synt)
                           [] pkt.service = "REQUEST" /\ n = 0 /\ pkt.synt # TIME_SIMU_LAST ->
                                \A d \in known : Iter(d) = p.synt => Holds(p.synt)
                           [] pkt.service = "REQUEST" /\ n \notin {0, PARAMTER_REQUEST_LAST} ->
                                \A d \in known : p.synt <= Iter(d) /\ Iter(d) < p.synt + n
                                                   /\ p.synt + n <= TIME_SIMU_LAST => Holds(Iter(d))
                           [] OTHER -> TRUE
    BY DEF RepliesAreComplete
  <2> DEFINE known == Known(p.call, p.id)
             n == Pkt(p.call).subs[p.sub].diff
             Holds(t) == \E d \in Range(p.rows) : d # NoRow /\ Iter(d) = t
  <2>1. FullRows(p.call, p.sub, p.rows, p.synt, known)
    BY DEF ReplyInv, SentInv, ReplyKept
  <2>2. \A t : Has(p.rows, t) => Holds(t)
    BY DEF Has, Range
  <2>3. /\ Pkt(p.call).service = "SUBSCRIBE" => \A d \in known : Iter(d) >= p.synt => Holds(Iter(d))
        /\ Pkt(p.call).service = "REQUEST" /\ n = 0 /\ Pkt(p.call).synt = TIME_SIMU_LAST =>
             \A d \in known : p.synt >= Iter(d) /\ Holds(p.synt)
        /\ Pkt(p.call).service = "REQUEST" /\ n = 0 /\ Pkt(p.call).synt # TIME_SIMU_LAST =>
             \A d \in known : Iter(d) = p.synt => Holds(p.synt)
        /\ Pkt(p.call).service = "REQUEST" /\ n \notin {0, PARAMTER_REQUEST_LAST} =>
             \A d \in known : p.synt <= Iter(d) /\ Iter(d) < p.synt + n /\ p.synt + n <= TIME_SIMU_LAST => Holds(Iter(d))
    <3> HIDE DEF Holds, known
    <3> QED
      BY <2>1, <2>2 DEF FullRows
  <2>4. known = {d \in frame[p.call].seen : IdOfRecord[d] = p.id}
    BY DEF Known
  <2> HIDE DEF known, Holds
  <2> QED
    BY <2>3, <2>4 DEF Holds
<1> QED
  BY <1>1, AlwaysReplyInv, PTL
=============================================================================
