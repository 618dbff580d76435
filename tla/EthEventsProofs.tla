-------------------------- MODULE EthEventsProofs --------------------------
(* Theorems about the delivery of events by the ETH32 library, for any       *)
(* number of calling threads, any calls of theirs, queues of any size and    *)
(* any number of events.                                                     *)
EXTENDS EthEvents, FiniteSetTheorems, SequenceTheorems, TLAPS

Places == {"idle", "dequeue", "configure", "handler", "leaving", "emptying", "waiting", "woken", "quit", "join",
           "create", "store", "unqueue", "counting", "closed"}
ThreadPlaces == {"none", "running", "waiting", "reading", "calling", "gone"}
Policies == {DISCARD_NEW, DISCARD_OLD}
HandlerRecords ==
  [type : {"none", "callback"}, maxqueue : Nat, fullqueue : Policies, eventfn : Pointers, extra : Pointers]
CallRecords ==
  [name : {"none", "dequeue", "configure", "handler"}, size : Nat, fullqueue : Policies,
   wait : {"none", "empty", "limited", "forever"}, type : {"none", "callback", "failed"},
   eventfn : Pointers, extra : Pointers]

-----------------------------------------------------------------------------
(* The parts of the inductive invariant.                                     *)
QueuesTyped ==
  /\ evt_queue \in Seq(Nat) /\ evt_queue_size \in Nat /\ evt_queue_fullqueue \in Policies
  /\ evt_callback_queue \in Seq(Nat)
  /\ arrived \in Nat /\ taken \in Nat /\ serving \in Nat /\ born \in Nat
ThreadsTyped ==
  /\ event_handler \in HandlerRecords /\ event_quitflag \in BOOLEAN
  /\ eventthread \in ThreadPlaces /\ eventthread_done \in BOOLEAN
  /\ changing \in Threads \cup {"free"}
  /\ reader \in {"reading", "waking", "gone"} /\ readthread_done \in Int /\ closing \in BOOLEAN
  /\ refcount \in Int
  /\ pc \in [Threads -> Places] /\ call \in [Threads -> CallRecords] /\ made \in [Threads -> Nat]
Typed == QueuesTyped /\ ThreadsTyped

(* What was handed out has arrived.                                          *)
InTime == taken <= arrived /\ serving <= arrived
QueueInv == Typed /\ QueueBounded /\ EventsInOrder /\ InTime

Alive == eventthread \notin {"none", "gone"}

(* One thread at a time changes the handler; while it does, the handler it   *)
(* found is in place, and a callback it has started has seen no event.       *)
ChangePlaces == {"quit", "join", "create", "store"}
OneChanges == \A t \in Threads : pc[t] \in ChangePlaces <=> changing = t
ChangesInOrder ==
  \A t \in Threads :
    /\ pc[t] \in {"quit", "join"} => event_handler.type = "callback" /\ call[t].type # "callback"
    /\ pc[t] = "create" => ~Alive /\ (call[t].type = "callback" => event_handler.type = "none")
    /\ pc[t] = "store" /\ call[t].type # "callback" => ~Alive
QuietUntilStored ==
  event_handler.type = "none" /\ Alive =>
    /\ evt_callback_queue = <<>> /\ eventthread \notin {"reading", "calling"}
    /\ \E t \in Threads : pc[t] = "store" /\ call[t].type = "callback"
BornInTime == born <= arrived + 1
ChangeInv == OneChanges /\ ChangesInOrder /\ QuietUntilStored

(* What a callback is: with the handler's type and a valid request goes a    *)
(* function.                                                                 *)
Named == /\ event_handler.type = "callback" => event_handler.eventfn \in Functions
         /\ \A t \in Threads : call[t].type = "callback" => call[t].eventfn \in Functions

(* The event thread has read what the handler named since its event was      *)
(* taken, and every callback in that time had a function.                    *)
InCallback == eventthread \in {"reading", "calling"}
ReadInTime ==
  /\ running.eventfn = "unread" \/ running.eventfn \in {h.eventfn : h \in since}
  /\ running.extra = "unread" \/ running.extra \in {h.extra : h \in since}
ReadInv ==
  /\ Named
  /\ DOMAIN running = {"eventfn", "extra"}
  /\ \A h \in since : h.eventfn \in Functions
  /\ InCallback => ReadInTime
  /\ ~InCallback => running = Unread
  /\ eventthread = "reading" => Handed(event_handler) \in since
  /\ eventthread = "calling" => running.eventfn # "unread" /\ running.extra # "unread"

(* The count covers the calls under way, and once the reading thread stops   *)
(* its error is there to be seen.                                            *)
Outside == {"idle", "emptying"}
Busy == {t \in Callers : pc[t] \notin Outside}
Counted == Cardinality(Busy) <= refcount
ErrorSeen == reader # "reading" => readthread_done # 0
OwnerAwake == pc[Owner] # "waiting"
CountInv == Counted /\ ErrorSeen /\ OwnerAwake

OrderedTo(q, after, last) ==
  /\ \A i \in DOMAIN q : after < q[i] /\ q[i] <= last
  /\ \A i, j \in DOMAIN q : i < j => q[i] < q[j]
SuffixOf(u, q) == \E k \in Nat : Len(u) + k = Len(q) /\ \A i \in 1..Len(u) : u[i] = q[i + k]

-----------------------------------------------------------------------------
(* What the operators on queues do                                           *)

LEMMA SuffixFacts ==
  ASSUME NEW q \in Seq(Nat), NEW u \in Seq(Nat), SuffixOf(u, q),
         NEW after, NEW last, OrderedTo(q, after, last)
  PROVE  /\ OrderedTo(u, after, last)
         /\ Len(u) <= Len(q)
         /\ \A i \in DOMAIN u : \E j \in DOMAIN q : u[i] = q[j]
<1>1. Len(u) \in Nat /\ DOMAIN u = 1..Len(u) /\ Len(q) \in Nat /\ DOMAIN q = 1..Len(q)
  BY LenProperties
<1>2. PICK k \in Nat : Len(u) + k = Len(q) /\ \A i \in 1..Len(u) : u[i] = q[i + k]
  BY DEF SuffixOf
<1>3. \A i \in 1..Len(u) : i + k \in 1..Len(q)
  BY <1>1, <1>2
<1>4. \A i \in DOMAIN u : after < u[i] /\ u[i] <= last
  BY <1>1, <1>2, <1>3 DEF OrderedTo
<1>5. \A i, j \in DOMAIN u : i < j => u[i] < u[j]
  <2> SUFFICES ASSUME NEW i \in 1..Len(u), NEW j \in 1..Len(u), i < j PROVE u[i] < u[j]
    BY <1>1
  <2>1. i + k \in DOMAIN q /\ j + k \in DOMAIN q /\ i + k < j + k
    BY <1>1, <1>3
  <2> QED
    BY <1>2, <2>1 DEF OrderedTo
<1>6. \A i \in DOMAIN u : \E j \in DOMAIN q : u[i] = q[j]
  BY <1>1, <1>2, <1>3
<1> QED
  BY <1>1, <1>2, <1>4, <1>5, <1>6 DEF OrderedTo

LEMMA SubSeqOfNat ==
  ASSUME NEW q \in Seq(Nat), NEW m \in Int, NEW n \in Int, \A i \in m..n : q[i] \in Nat
  PROVE  /\ SubSeq(q, m, n) \in Seq(Nat)
         /\ Len(SubSeq(q, m, n)) = IF m <= n THEN n - m + 1 ELSE 0
         /\ \A i \in 1..(n - m + 1) : SubSeq(q, m, n)[i] = q[m + i - 1]
BY SubSeqProperties

(* Trimming takes entries from the front until the room is enough.           *)
LEMMA TrimmedFacts ==
  ASSUME NEW q \in Seq(Nat), NEW room \in Int
  PROVE  /\ Trimmed(q, room) \in Seq(Nat)
         /\ Len(Trimmed(q, room)) <= room \/ Len(Trimmed(q, room)) = 0
         /\ SuffixOf(Trimmed(q, room), q)
<1>0. Len(q) \in Nat /\ \A i \in 1..Len(q) : q[i] \in Nat
  BY LenProperties, ElementOfSeq
<1>1. CASE Len(q) <= room
  <2>1. Trimmed(q, room) = q
    BY <1>1 DEF Trimmed
  <2>2. Len(q) + 0 = Len(q) /\ \A i \in 1..Len(q) : q[i] = q[i + 0]
    BY <1>0
  <2> QED
    BY <1>0, <1>1, <2>1, <2>2 DEF SuffixOf
<1>2. CASE ~(Len(q) <= room)
  <2> DEFINE m == Len(q) - room + 1
             u == SubSeq(q, m, Len(q))
  <2>1. Trimmed(q, room) = u
    BY <1>2 DEF Trimmed
  <2>2. m \in Int /\ m >= 2 /\ m = Len(q) - room + 1
    BY <1>0, <1>2
  <2> HIDE DEF m
  <2>3. \A i \in m..Len(q) : q[i] \in Nat
    BY <1>0, <2>2
  <2>4. /\ u \in Seq(Nat) /\ Len(u) = IF m <= Len(q) THEN Len(q) - m + 1 ELSE 0
        /\ \A i \in 1..(Len(q) - m + 1) : u[i] = q[m + i - 1]
    BY <1>0, <2>2, <2>3, SubSeqOfNat
  <2> HIDE DEF u
  <2>5. CASE m <= Len(q)
    <3>1. Len(u) = room
      BY <1>0, <2>2, <2>4, <2>5
    <3>2. m - 1 \in Nat /\ Len(u) + (m - 1) = Len(q)
      BY <1>0, <2>2, <3>1
    <3>3. \A i \in 1..Len(u) : u[i] = q[i + (m - 1)]
      <4> TAKE i \in 1..Len(u)
      <4>1. i \in 1..(Len(q) - m + 1) /\ m + i - 1 = i + (m - 1)
        BY <1>0, <2>2, <3>1
      <4> QED
        BY <2>4, <4>1
    <3>4. SuffixOf(u, q)
      BY <3>2, <3>3 DEF SuffixOf
    <3>5. Len(u) <= room
      BY <3>1
    <3> QED
      BY <2>1, <2>4, <3>4, <3>5
  <2>6. CASE ~(m <= Len(q))
    <3>1. Len(u) = 0
      BY <2>4, <2>6
    <3>2. Len(u) + Len(q) = Len(q) /\ \A i \in 1..Len(u) : u[i] = q[i + Len(q)]
      BY <1>0, <3>1
    <3>3. SuffixOf(u, q)
      BY <1>0, <3>2 DEF SuffixOf
    <3> QED
      BY <2>1, <2>4, <3>1, <3>3
  <2> QED
    BY <2>5, <2>6
<1> QED
  BY <1>1, <1>2

LEMMA TailFacts ==
  ASSUME NEW q \in Seq(Nat), q # <<>>, NEW after \in Nat, NEW last \in Nat, OrderedTo(q, after, last)
  PROVE  /\ Head(q) \in Nat /\ Head(q) = q[1] /\ 1 \in DOMAIN q /\ Head(q) <= last
         /\ Tail(q) \in Seq(Nat) /\ Len(Tail(q)) = Len(q) - 1
         /\ OrderedTo(Tail(q), Head(q), last)
         /\ \A i \in DOMAIN Tail(q) : \E j \in DOMAIN q : Tail(q)[i] = q[j]
<1> DEFINE u == Tail(q)
<1>1. /\ Len(q) \in Nat \ {0} /\ DOMAIN q = 1..Len(q)
      /\ u \in Seq(Nat) /\ Len(u) = Len(q) - 1 /\ DOMAIN u = 1..Len(u)
      /\ \A i \in 1..Len(u) : u[i] = q[i + 1]
      /\ Head(q) \in Nat
  BY HeadTailProperties, LenProperties, EmptySeq
<1>2. Head(q) = q[1]
  BY <1>1
<1> HIDE DEF u
<1>3. Len(u) + 1 = Len(q)
  BY <1>1
<1>4. SuffixOf(u, q)
  BY <1>1, <1>3 DEF SuffixOf
<1>5. OrderedTo(u, after, last) /\ \A i \in DOMAIN u : \E j \in DOMAIN q : u[i] = q[j]
  BY <1>1, <1>4, SuffixFacts
<1>6. 1 \in DOMAIN q
  BY <1>1
<1>7. \A i \in DOMAIN u : q[1] < u[i]
  <2> SUFFICES ASSUME NEW i \in 1..Len(u) PROVE q[1] < q[i + 1]
    BY <1>1
  <2>1. i + 1 \in DOMAIN q /\ 1 < i + 1
    BY <1>1
  <2> QED
    BY <1>6, <2>1 DEF OrderedTo
<1>8. OrderedTo(u, Head(q), last)
  BY <1>2, <1>5, <1>7 DEF OrderedTo
<1>9. Head(q) <= last
  BY <1>2, <1>6 DEF OrderedTo
<1> QED
  BY <1>1, <1>2, <1>5, <1>6, <1>8, <1>9 DEF u

(* A queue that takes the newest event stays in order and within its size.   *)
LEMMA PutFacts ==
  ASSUME NEW q \in Seq(Nat), NEW event \in Nat, NEW size \in Nat, NEW policy \in Policies,
         NEW after \in Nat, NEW last \in Nat, after <= last, event = last + 1, OrderedTo(q, after, last)
  PROVE  LET r == Put(q, event, size, policy) IN
         /\ r \in Seq(Nat)
         /\ Len(q) <= size => Len(r) <= size
         /\ OrderedTo(r, after, event)
         /\ \A i \in DOMAIN r : r[i] = event \/ \E j \in DOMAIN q : r[i] = q[j]
<1> DEFINE kept == IF policy = DISCARD_OLD THEN Trimmed(q, size - 1) ELSE q
           r == Put(q, event, size, policy)
<1>0. size - 1 \in Int /\ Len(q) \in Nat
  BY LenProperties
<1>1. /\ kept \in Seq(Nat) /\ OrderedTo(kept, after, last)
      /\ Len(q) <= size => Len(kept) <= size
      /\ \A i \in DOMAIN kept : \E j \in DOMAIN q : kept[i] = q[j]
  <2> DEFINE u == Trimmed(q, size - 1)
  <2>1. u \in Seq(Nat) /\ (Len(u) <= size - 1 \/ Len(u) = 0) /\ SuffixOf(u, q)
    BY <1>0, TrimmedFacts
  <2>2. Len(u) \in Nat
    BY <2>1, LenProperties
  <2> HIDE DEF u
  <2>3. OrderedTo(u, after, last) /\ \A i \in DOMAIN u : \E j \in DOMAIN q : u[i] = q[j]
    BY <2>1, SuffixFacts
  <2>4. Len(u) <= size
    BY <2>1, <2>2
  <2>5. CASE policy = DISCARD_OLD
    <3>1. kept = u
      BY <2>5 DEF u
    <3> QED
      BY <2>1, <2>3, <2>4, <3>1
  <2>6. CASE policy # DISCARD_OLD
    BY <2>6
  <2> QED
    BY <2>5, <2>6
<1>2. Len(kept) \in Nat /\ DOMAIN kept = 1..Len(kept)
  BY <1>1, LenProperties
<1>3. r = IF Len(kept) < size THEN Append(kept, event) ELSE kept
  BY DEF Put
<1> HIDE DEF kept, r
<1>4. \A i \in DOMAIN kept : kept[i] \in Nat /\ after < kept[i] /\ kept[i] <= last
  BY <1>1, <1>2, ElementOfSeq DEF OrderedTo
<1>5. CASE Len(kept) < size
  <2>1. /\ r \in Seq(Nat) /\ Len(r) = Len(kept) + 1 /\ DOMAIN r = 1..(Len(kept) + 1)
        /\ \A i \in 1..Len(kept) : r[i] = kept[i]
        /\ r[Len(kept) + 1] = event
    BY <1>1, <1>2, <1>3, <1>5, AppendProperties, LenProperties
  <2>2. \A i \in DOMAIN r : (i \in DOMAIN kept /\ r[i] = kept[i]) \/ (i = Len(kept) + 1 /\ r[i] = event)
    <3>1. \A i \in 1..(Len(kept) + 1) : i \in 1..Len(kept) \/ i = Len(kept) + 1
      BY <1>2
    <3> QED
      BY <1>2, <2>1, <3>1
  <2>3. \A i \in DOMAIN r : after < r[i] /\ r[i] <= event
    BY <1>4, <2>2
  <2>4. \A i, j \in DOMAIN r : i < j => r[i] < r[j]
    <3> SUFFICES ASSUME NEW i \in DOMAIN r, NEW j \in DOMAIN r, i < j PROVE r[i] < r[j]
      OBVIOUS
    <3>1. i \in DOMAIN kept /\ r[i] = kept[i]
      BY <1>2, <2>1, <2>2
    <3>2. CASE j \in DOMAIN kept /\ r[j] = kept[j]
      BY <1>1, <3>1, <3>2 DEF OrderedTo
    <3>3. CASE r[j] = event
      BY <1>4, <3>1, <3>3
    <3> QED
      BY <2>2, <3>2, <3>3
  <2>5. OrderedTo(r, after, event)
    BY <2>3, <2>4 DEF OrderedTo
  <2>6. \A i \in DOMAIN r : r[i] = event \/ \E j \in DOMAIN q : r[i] = q[j]
    BY <1>1, <2>2
  <2>7. Len(r) <= size
    BY <1>2, <1>5, <2>1
  <2> QED
    BY <2>1, <2>5, <2>6, <2>7 DEF r
<1>6. CASE ~(Len(kept) < size)
  <2>1. r = kept
    BY <1>3, <1>6
  <2>2. \A i \in DOMAIN kept : kept[i] <= event
    BY <1>4
  <2>3. OrderedTo(kept, after, event)
    BY <1>1, <2>2 DEF OrderedTo
  <2> QED
    BY <1>1, <2>1, <2>3 DEF r
<1> QED
  BY <1>5, <1>6

LEMMA PutMembers ==
  ASSUME NEW q \in Seq(Nat), NEW event \in Nat, NEW size \in Nat, NEW policy \in Policies,
         NEW after \in Nat, NEW last \in Nat, after <= last, event = last + 1, OrderedTo(q, after, last)
  PROVE  \A i \in DOMAIN Put(q, event, size, policy) :
           Put(q, event, size, policy)[i] = event \/ \E j \in DOMAIN q : Put(q, event, size, policy)[i] = q[j]
BY PutFacts

(* Records of calls and handlers keep their types.                           *)
LEMMA FieldFacts ==
  /\ \A c \in CallRecords : [c EXCEPT !.type = "failed"] \in CallRecords
  /\ \A c \in CallRecords : [c EXCEPT !.type = "failed"].type = "failed"
  /\ \A h \in HandlerRecords : [h EXCEPT !.type = "none"] \in HandlerRecords
  /\ \A h \in HandlerRecords : [h EXCEPT !.type = "none"].type = "none"
  /\ \A c \in CallRecords : [c EXCEPT !.wait = "forever"] \in CallRecords
  /\ NoCall \in CallRecords
  /\ Requests \subseteq CallRecords
BY DEF CallRecords, HandlerRecords, NoCall, Requests, Policies, Pointers

-----------------------------------------------------------------------------
(* Type correctness of the threads and the handler                           *)

LEMMA WokenPlaces ==
  ASSUME NEW p \in [Threads -> Places]
  PROVE  /\ WakeCallers(p) \in [Threads -> Places]
         /\ \A t \in Threads : WakeCallers(p)[t] = IF p[t] = "waiting" THEN "woken" ELSE p[t]
         /\ eventthread \in ThreadPlaces => WakeEventThread \in ThreadPlaces
BY DEF WakeCallers, WakeEventThread, Places, ThreadPlaces

LEMMA BeginTyped ==
  ASSUME Typed, NEW t \in Callers, made[t] < Len(Calls[t]), NEW c \in Calls[t][made[t] + 1], Begin(t, c)
  PROVE  ThreadsTyped' /\ c \in Requests
<1>1. made[t] \in Nat /\ Calls[t] \in Seq(SUBSET Requests)
  BY EventsAssumption DEF Typed, ThreadsTyped, Threads
<1>2. made[t] + 1 \in 1..Len(Calls[t])
  BY <1>1, LenProperties
<1>3. c \in Requests
  BY <1>1, <1>2, ElementOfSeq
<1>4. c.name \in Places /\ c \in CallRecords
  BY <1>3, FieldFacts DEF Requests, Places
<1>5. t \in Threads /\ made' = [made EXCEPT ![t] = @ + 1] /\ call' = [call EXCEPT ![t] = c]
      /\ pc' = [pc EXCEPT ![t] = c.name]
  BY DEF Begin, Goto, Threads
<1>6. refcount' \in Int
  BY DEF Begin, Refcount, Typed, ThreadsTyped
<1>7. pc' \in [Threads -> Places] /\ call' \in [Threads -> CallRecords] /\ made' \in [Threads -> Nat]
  BY <1>4, <1>5 DEF Typed, ThreadsTyped
<1> QED
  BY <1>3, <1>6, <1>7 DEF Begin, Typed, ThreadsTyped, callback, handle

LEMMA ThreadsStep == Typed /\ [Next]_vars => ThreadsTyped'
<1> SUFFICES ASSUME Typed, [Next]_vars PROVE ThreadsTyped'
  OBVIOUS
<1> USE DEF Typed
<1>0. /\ WakeCallers(pc) \in [Threads -> Places] /\ WakeEventThread \in ThreadPlaces
      /\ Owner \in Threads /\ Callers \subseteq Threads
  BY WokenPlaces DEF ThreadsTyped, Threads
<1>1. CASE Dispatch
  BY <1>0, <1>1 DEF Dispatch, ThreadsTyped, handle
<1>2. CASE ReaderDone \/ ReaderWakes
  BY <1>0, <1>2 DEF ReaderDone, ReaderWakes, ThreadsTyped, callback, callers
<1>3. CASE EventThread
  BY <1>3 DEF EventThread, Serve, ReadHandler, CallbackReturns, EventThreadSleeps,
      EventThreadEnds, ThreadsTyped, ThreadPlaces,
    handle, callers
<1>4. CASE Close
  BY <1>0, <1>4 DEF Close, Goto, ThreadsTyped, Places, callback
<1>5. CASE CloseQueue
  BY <1>0, <1>5 DEF CloseQueue, Goto, ThreadsTyped, Places, handle
<1>6. CASE CloseReader
  BY <1>0, <1>6 DEF CloseReader, Goto, ThreadsTyped, Places, callback
<1>7. ASSUME NEW t \in Callers, made[t] < Len(Calls[t]), NEW c \in Calls[t][made[t] + 1], Begin(t, c)
      PROVE  ThreadsTyped'
  BY <1>7, BeginTyped
<1>8. ASSUME NEW t \in Callers, Configure(t)
      PROVE  ThreadsTyped'
  BY <1>0, <1>8 DEF Configure, ThreadsTyped, Places, handle
<1>9. ASSUME NEW t \in Callers, Refuse(t) \/ Take(t) \/ GiveUp(t) \/ Sleep(t) \/ TimeOut(t)
      PROVE  ThreadsTyped'
  <2>1. PICK l \in Places : pc' = [pc EXCEPT ![t] = l]
    BY <1>9 DEF Refuse, Take, GiveUp, Sleep, TimeOut, Return, Goto, Places
  <2>2. UNCHANGED <<event_handler, callback, changing, handle, refcount, made>>
    BY <1>9 DEF Refuse, Take, GiveUp, Sleep, TimeOut
  <2>3. call' = call \/ call' = [call EXCEPT ![t] = [call[t] EXCEPT !.wait = "forever"]]
    BY <1>9 DEF Refuse, Take, GiveUp, Sleep, TimeOut
  <2>4. call' \in [Threads -> CallRecords]
    BY <1>0, <2>3, FieldFacts DEF ThreadsTyped
  <2> QED
    BY <1>0, <2>1, <2>2, <2>4 DEF ThreadsTyped, callback, handle
<1>10. ASSUME NEW t \in Callers, Leave(t) \/ Again(t)
       PROVE  ThreadsTyped'
  <2>1. PICK l \in Places : pc' = [pc EXCEPT ![t] = l]
    BY <1>10 DEF Leave, Again, Goto, Places
  <2>2. refcount' \in Int
    BY <1>10 DEF Leave, Again, Refcount, ThreadsTyped
  <2>3. call' = call \/ call' = [call EXCEPT ![t] = NoCall]
    BY <1>10 DEF Leave, Again
  <2>4. call' \in [Threads -> CallRecords]
    BY <1>0, <2>3, FieldFacts DEF ThreadsTyped
  <2>5. UNCHANGED <<event_handler, callback, changing, handle, made>>
    BY <1>10 DEF Leave, Again
  <2> QED
    BY <1>0, <2>1, <2>2, <2>4, <2>5 DEF ThreadsTyped, callback, handle
<1>11. ASSUME NEW t \in Threads, Handler(t) \/ Join(t) \/ Nothing(t)
       PROVE  ThreadsTyped'
  <2>1. PICK l \in Places : pc' = [pc EXCEPT ![t] = l]
    BY <1>11 DEF Handler, Join, Nothing, Goto, Places
  <2>2. UNCHANGED <<event_handler, callback, handle, refcount, call, made>> /\ changing' \in {changing, t}
    BY <1>11 DEF Handler, Join, Nothing
  <2> QED
    BY <2>1, <2>2 DEF ThreadsTyped, callback, handle
<1>12. ASSUME NEW t \in Threads, Quit(t)
       PROVE  ThreadsTyped'
  BY <1>0, <1>12 DEF Quit, ThreadsTyped, Places, handle
<1>13. ASSUME NEW t \in Threads, Create(t)
       PROVE  ThreadsTyped'
  <2>1. call' = call \/ call' = [call EXCEPT ![t] = [call[t] EXCEPT !.type = "failed"]]
    BY <1>13, Zenon DEF Create
  <2>2. call' \in [Threads -> CallRecords]
    BY <2>1, FieldFacts DEF ThreadsTyped
  <2>3. /\ eventthread' \in {eventthread, "running"} /\ pc' = [pc EXCEPT ![t] = "store"]
        /\ event_quitflag' = FALSE /\ eventthread_done' = FALSE
        /\ UNCHANGED <<event_handler, changing, handle, refcount, made>>
    BY <1>13, Zenon DEF Create, Goto
  <2>4. event_quitflag' \in BOOLEAN /\ eventthread_done' \in BOOLEAN
    BY <2>3, Zenon
  <2> QED
    BY <2>2, <2>3, <2>4 DEF ThreadsTyped, ThreadPlaces, Places, handle
<1>14. ASSUME NEW t \in Threads, Store(t)
       PROVE  ThreadsTyped'
  <2>1. call[t] \in CallRecords
    BY DEF ThreadsTyped
  <2>2. event_handler' \in HandlerRecords
    <3>1. CASE call[t].type = "failed"
      <4>1. event_handler' = [event_handler EXCEPT !.type = "none"]
        BY <1>14, <3>1, Zenon DEF Store
      <4> QED
        BY <4>1, FieldFacts DEF ThreadsTyped
    <3>2. CASE call[t].type # "failed"
      <4>1. event_handler' = New(t)
        BY <1>14, <3>2, Zenon DEF Store
      <4>2. New(t) \in HandlerRecords
        BY <2>1, <3>2 DEF New, HandlerRecords, CallRecords, Policies, Pointers
      <4> QED
        BY <4>1, <4>2
    <3> QED
      BY <3>1, <3>2
  <2>3. PICK l \in Places : pc' = [pc EXCEPT ![t] = l]
    BY <1>14 DEF Store, Goto, Places
  <2>4. /\ changing' = "free"
        /\ UNCHANGED <<event_quitflag, eventthread, eventthread_done, handle, refcount, call, made>>
    BY <1>14 DEF Store
  <2> QED
    BY <2>2, <2>3, <2>4 DEF ThreadsTyped, handle
<1>15. CASE UNCHANGED vars
  BY <1>15 DEF vars, ThreadsTyped, callback, handle, callers
<1> QED
  BY <1>1, <1>2, <1>3, <1>4, <1>5, <1>6, <1>7, <1>8, <1>9, <1>10, <1>11, <1>12, <1>13, <1>14, <1>15
  DEF Next, Closing, Caller, Change

-----------------------------------------------------------------------------
(* The queues                                                                *)

LEMMA OrderedLater ==
  ASSUME NEW q \in Seq(Nat), NEW after, NEW last \in Nat, OrderedTo(q, after, last)
  PROVE  OrderedTo(q, after, last + 1)
<1>1. \A i \in DOMAIN q : q[i] \in Nat
  BY LenProperties, ElementOfSeq
<1> QED
  BY <1>1 DEF OrderedTo

LEMMA NothingOrdered ==
  ASSUME NEW after, NEW last
  PROVE  <<>> \in Seq(Nat) /\ Len(<<>>) = 0 /\ OrderedTo(<<>>, after, last)
BY EmptySeq DEF OrderedTo

LEMMA QueueStart == Init => QueueInv
<1> SUFFICES ASSUME Init PROVE QueueInv
  OBVIOUS
<1>1. QueuesTyped
  BY NothingOrdered DEF Init, QueuesTyped, Policies
<1>2. ThreadsTyped
  <2>1. pc \in [Threads -> Places] /\ call \in [Threads -> CallRecords] /\ made \in [Threads -> Nat]
    BY FieldFacts DEF Init, Places
  <2>2. event_handler \in HandlerRecords
    BY DEF Init, HandlerRecords, Policies, Pointers, CALLBACK_DEFAULT
  <2>3. event_quitflag \in BOOLEAN /\ eventthread_done \in BOOLEAN /\ closing \in BOOLEAN
    BY Zenon DEF Init
  <2>4. /\ eventthread \in ThreadPlaces /\ changing \in Threads \cup {"free"}
        /\ reader \in {"reading", "waking", "gone"} /\ readthread_done \in Int /\ refcount \in Int
    BY DEF Init, ThreadPlaces
  <2> QED
    BY <2>1, <2>2, <2>3, <2>4 DEF ThreadsTyped
<1>3. QueueBounded /\ EventsInOrder /\ InTime
  BY NothingOrdered DEF Init, QueueBounded, EventsInOrder, Ordered, InTime
<1> QED
  BY <1>1, <1>2, <1>3 DEF QueueInv, Typed

(* The steps that leave both queues alone.                                   *)
QueuesKept == UNCHANGED <<queue, evt_callback_queue, serving, arrived, taken>>

LEMMA KeptByOthers ==
  /\ ReaderDone \/ ReaderWakes \/ ReadHandler \/ CallbackReturns \/ EventThreadSleeps \/ EventThreadEnds \/ Close
        \/ CloseReader
       => QueuesKept /\ UNCHANGED born
  /\ \A t \in Threads :
       /\ \A c : Begin(t, c) => QueuesKept /\ UNCHANGED born
       /\ Refuse(t) \/ GiveUp(t) \/ Sleep(t) \/ TimeOut(t) \/ Leave(t) \/ Again(t) => QueuesKept /\ UNCHANGED born
       /\ Handler(t) \/ Quit(t) \/ Join(t) \/ Nothing(t) \/ Store(t) => QueuesKept /\ UNCHANGED born
<1>1. ReaderDone \/ ReaderWakes \/ ReadHandler \/ CallbackReturns \/ EventThreadSleeps \/ EventThreadEnds \/ Close
        \/ CloseReader
        => QueuesKept /\ UNCHANGED born
  BY DEF ReaderDone, ReaderWakes, ReadHandler, CallbackReturns, EventThreadSleeps, EventThreadEnds, Close,
    CloseReader,
    QueuesKept, callback, served
<1>2. ASSUME NEW t \in Threads
      PROVE  /\ \A c : Begin(t, c) => QueuesKept /\ UNCHANGED born
             /\ Refuse(t) \/ GiveUp(t) \/ Sleep(t) \/ TimeOut(t) \/ Leave(t) \/ Again(t) => QueuesKept /\ UNCHANGED born
             /\ Handler(t) \/ Quit(t) \/ Join(t) \/ Nothing(t) \/ Store(t) => QueuesKept /\ UNCHANGED born
  <2>1. \A c : Begin(t, c) => QueuesKept /\ UNCHANGED born
    BY DEF Begin, QueuesKept, callback, served
  <2>2. Refuse(t) \/ GiveUp(t) \/ Sleep(t) \/ TimeOut(t) \/ Leave(t) \/ Again(t) => QueuesKept /\ UNCHANGED born
    BY DEF Refuse, GiveUp, Sleep, TimeOut, Leave, Again, QueuesKept, callback, served
  <2>3. Handler(t) \/ Quit(t) \/ Join(t) \/ Nothing(t) \/ Store(t) => QueuesKept /\ UNCHANGED born
    BY DEF Handler, Quit, Join, Nothing, Store, QueuesKept, callback, served
  <2> QED
    BY <2>1, <2>2, <2>3
<1> QED
  BY <1>1, <1>2

LEMMA DispatchQueues ==
  ASSUME QueueInv, Dispatch
  PROVE  /\ evt_queue' \in {evt_queue, Put(evt_queue, arrived + 1, evt_queue_size, evt_queue_fullqueue)}
         /\ \/ evt_callback_queue' = evt_callback_queue
            \/ /\ event_handler.type = "callback"
               /\ evt_callback_queue' = Put(evt_callback_queue, arrived + 1, event_handler.maxqueue,
                                            event_handler.fullqueue)
         /\ arrived' = arrived + 1
         /\ evt_queue' # evt_queue => pc' = WakeCallers(pc)
         /\ evt_callback_queue' # evt_callback_queue => eventthread' = WakeEventThread
         /\ pc' \in {pc, WakeCallers(pc)} /\ eventthread' \in {eventthread, WakeEventThread}
         /\ UNCHANGED <<evt_queue_size, evt_queue_fullqueue, serving, taken, born>>
BY Zenon DEF Dispatch, served

LEMMA QueueStep == QueueInv /\ [Next]_vars => QueueInv'
<1> SUFFICES ASSUME QueueInv, [Next]_vars PROVE QueuesTyped' /\ QueueBounded' /\ EventsInOrder' /\ InTime'
  BY ThreadsStep DEF QueueInv, Typed
<1> USE DEF QueuesTyped
<1>a. /\ QueuesTyped /\ event_handler \in HandlerRecords /\ call \in [Threads -> CallRecords]
      /\ QueueBounded /\ EventsInOrder /\ InTime
  BY DEF QueueInv, Typed, ThreadsTyped
<1>b. OrderedTo(evt_queue, taken, arrived) /\ OrderedTo(evt_callback_queue, serving, arrived)
  BY <1>a DEF EventsInOrder, Ordered, OrderedTo
<1>c. ASSUME OrderedTo(evt_queue', taken', arrived'), OrderedTo(evt_callback_queue', serving', arrived')
      PROVE  EventsInOrder'
  BY <1>c DEF EventsInOrder, Ordered, OrderedTo
<1>d. ASSUME QueuesKept, born' = born
      PROVE  QueuesTyped' /\ QueueBounded' /\ EventsInOrder' /\ InTime'
  BY <1>a, <1>b, <1>c, <1>d DEF QueuesKept, queue, QueueBounded, InTime
<1>1. CASE Dispatch
  <2> DEFINE added == Put(evt_queue, arrived + 1, evt_queue_size, evt_queue_fullqueue)
             called == Put(evt_callback_queue, arrived + 1, event_handler.maxqueue, event_handler.fullqueue)
  <2>1. event_handler.maxqueue \in Nat /\ event_handler.fullqueue \in Policies /\ arrived + 1 \in Nat
    BY <1>a DEF HandlerRecords
  <2>2. added \in Seq(Nat) /\ Len(added) <= evt_queue_size /\ OrderedTo(added, taken, arrived + 1)
    BY <1>a, <1>b, <2>1, PutFacts DEF QueueBounded, InTime
  <2>3. called \in Seq(Nat) /\ OrderedTo(called, serving, arrived + 1)
    BY <1>a, <1>b, <2>1, PutFacts DEF InTime
  <2>4. OrderedTo(evt_queue, taken, arrived + 1) /\ OrderedTo(evt_callback_queue, serving, arrived + 1)
    BY <1>a, <1>b, OrderedLater
  <2> HIDE DEF added, called
  <2>5. /\ evt_queue' \in {evt_queue, added} /\ evt_callback_queue' \in {evt_callback_queue, called}
        /\ arrived' = arrived + 1
        /\ UNCHANGED <<evt_queue_size, evt_queue_fullqueue, serving, taken, born>>
    BY <1>1, DispatchQueues DEF added, called
  <2>6. EventsInOrder'
    BY <1>c, <2>2, <2>3, <2>4, <2>5
  <2> QED
    BY <1>a, <2>2, <2>3, <2>5, <2>6 DEF QueueBounded, InTime
<1>2. CASE Serve
  <2>1. /\ evt_callback_queue # <<>> /\ serving' = Head(evt_callback_queue)
        /\ evt_callback_queue' = Tail(evt_callback_queue) /\ UNCHANGED <<queue, arrived, taken, born>>
    BY <1>2 DEF Serve
  <2>2. /\ serving' \in Nat /\ serving' <= arrived /\ evt_callback_queue' \in Seq(Nat)
        /\ OrderedTo(evt_callback_queue', serving', arrived)
    BY <1>a, <1>b, <2>1, TailFacts
  <2>3. EventsInOrder'
    BY <1>b, <1>c, <2>1, <2>2 DEF queue
  <2> QED
    BY <1>a, <2>1, <2>2, <2>3 DEF queue, QueueBounded, InTime
<1>3. ASSUME NEW t \in Callers, Configure(t)
      PROVE  QueuesTyped' /\ QueueBounded' /\ EventsInOrder' /\ InTime'
  <2>1. /\ evt_queue' = Trimmed(evt_queue, call[t].size) /\ evt_queue_size' = call[t].size
        /\ evt_queue_fullqueue' = call[t].fullqueue
        /\ UNCHANGED <<evt_callback_queue, serving, arrived, taken, born>>
    BY <1>3 DEF Configure, served
  <2>2. call[t].size \in Nat /\ call[t].fullqueue \in Policies
    BY <1>a DEF CallRecords, Threads
  <2>3. /\ evt_queue' \in Seq(Nat) /\ SuffixOf(evt_queue', evt_queue)
        /\ Len(evt_queue') <= call[t].size \/ Len(evt_queue') = 0
    BY <1>a, <2>1, <2>2, TrimmedFacts
  <2>4. OrderedTo(evt_queue', taken, arrived)
    BY <1>a, <1>b, <2>3, SuffixFacts
  <2>5. EventsInOrder'
    BY <1>b, <1>c, <2>1, <2>4
  <2>6. Len(evt_queue') <= evt_queue_size'
    BY <2>1, <2>2, <2>3
  <2> QED
    BY <1>a, <2>1, <2>2, <2>3, <2>5, <2>6 DEF QueueBounded, InTime
<1>4. ASSUME NEW t \in Callers, Take(t)
      PROVE  QueuesTyped' /\ QueueBounded' /\ EventsInOrder' /\ InTime'
  <2>1. /\ evt_queue # <<>> /\ taken' = Head(evt_queue) /\ evt_queue' = Tail(evt_queue)
        /\ UNCHANGED <<evt_queue_size, evt_queue_fullqueue, evt_callback_queue, serving, arrived, born>>
    BY <1>4 DEF Take, callback, served
  <2>2. /\ taken' \in Nat /\ taken' <= arrived /\ evt_queue' \in Seq(Nat)
        /\ Len(evt_queue') = Len(evt_queue) - 1 /\ OrderedTo(evt_queue', taken', arrived)
    BY <1>a, <1>b, <2>1, TailFacts
  <2>3. EventsInOrder'
    BY <1>b, <1>c, <2>1, <2>2
  <2>4. Len(evt_queue) \in Nat
    BY <1>a, LenProperties
  <2> QED
    BY <1>a, <2>1, <2>2, <2>3, <2>4 DEF QueueBounded, InTime
<1>5. ASSUME NEW t \in Threads, Create(t)
      PROVE  QueuesTyped' /\ QueueBounded' /\ EventsInOrder' /\ InTime'
  <2>1. /\ evt_callback_queue' = <<>> /\ UNCHANGED <<queue, arrived, taken>>
        /\ \/ serving' = 0 /\ born' = arrived + 1
           \/ serving' = serving /\ born' = born
    BY <1>5, Zenon DEF Create
  <2>2. serving' \in Nat /\ born' \in Nat /\ serving' <= arrived
    BY <1>a, <2>1 DEF InTime
  <2>3. EventsInOrder'
    BY <1>b, <1>c, <2>1, NothingOrdered DEF queue
  <2> QED
    BY <1>a, <2>1, <2>2, <2>3, NothingOrdered DEF queue, QueueBounded, InTime
<1>6. CASE CloseQueue
  <2>1. /\ UNCHANGED <<evt_callback_queue, serving, arrived, taken, born>>
        /\ \/ UNCHANGED queue
           \/ evt_queue' = <<>> /\ evt_queue_size' = 0 /\ evt_queue_fullqueue' = DISCARD_NEW
    BY <1>6 DEF CloseQueue, served
  <2>2. CASE UNCHANGED queue
    BY <1>d, <2>1, <2>2 DEF QueuesKept
  <2>3. CASE evt_queue' = <<>> /\ evt_queue_size' = 0 /\ evt_queue_fullqueue' = DISCARD_NEW
    <3>1. EventsInOrder'
      BY <1>b, <1>c, <2>1, <2>3, NothingOrdered
    <3> QED
      BY <1>a, <2>1, <2>3, <3>1, NothingOrdered DEF QueueBounded, InTime, Policies
  <2> QED
    BY <2>1, <2>2, <2>3
<1>7. CASE ReaderDone \/ ReaderWakes \/ ReadHandler \/ CallbackReturns \/ EventThreadSleeps \/ EventThreadEnds
           \/ Close \/ CloseReader
  BY <1>7, <1>d, KeptByOthers
<1>8. ASSUME NEW t \in Callers,
             (\E c : Begin(t, c)) \/ Refuse(t) \/ GiveUp(t) \/ Sleep(t) \/ TimeOut(t) \/ Leave(t) \/ Again(t)
      PROVE  QueuesTyped' /\ QueueBounded' /\ EventsInOrder' /\ InTime'
  BY <1>8, <1>d, KeptByOthers DEF Threads
<1>9. ASSUME NEW t \in Threads, Handler(t) \/ Quit(t) \/ Join(t) \/ Nothing(t) \/ Store(t)
      PROVE  QueuesTyped' /\ QueueBounded' /\ EventsInOrder' /\ InTime'
  BY <1>9, <1>d, KeptByOthers
<1>10. CASE UNCHANGED vars
  BY <1>10, <1>d DEF vars, queue, callback, served, QueuesKept
<1> QED
  BY <1>1, <1>2, <1>3, <1>4, <1>5, <1>6, <1>7, <1>8, <1>9, <1>10
  DEF Next, EventThread, Closing, Caller, Change

LEMMA AlwaysQueueInv == Spec => []QueueInv
BY QueueStart, QueueStep, PTL DEF Spec

(* The application's queue keeps within its size (eth32.c:1669-1716,         *)
(* eth32_internal.c:497-587): the invariant QueueBounded holds for every     *)
(* size and policy, also when the size is lowered below what is queued.      *)
THEOREM QueueStaysBounded == Spec => []QueueBounded
<1>1. QueueInv => QueueBounded
  BY DEF QueueInv
<1> QED
  BY <1>1, AlwaysQueueInv, PTL

(* Both queues hold what arrived, in order and later than what was handed    *)
(* out (eth32_internal.c:497-587, eth32.c:1752-1855): the invariant          *)
(* EventsInOrder holds, whatever is discarded on the way.                    *)
THEOREM EventsStayInOrder == Spec => []EventsInOrder
<1>1. QueueInv => EventsInOrder
  BY DEF QueueInv
<1> QED
  BY <1>1, AlwaysQueueInv, PTL

-----------------------------------------------------------------------------
(* The handler                                                               *)

(* A step that leaves a change of the handler where it is: it starts no      *)
(* event thread and gives it nothing to call for a handler not stored yet.   *)
Steady ==
  /\ UNCHANGED <<changing, event_handler>>
  /\ \A t \in Threads : pc[t] \in ChangePlaces \/ pc'[t] \in ChangePlaces
                         => pc'[t] = pc[t] /\ call'[t] = call[t]
  /\ Alive' => Alive
  /\ event_handler.type = "none" /\ evt_callback_queue = <<>> => evt_callback_queue' = <<>>
  /\ InCallback' => InCallback \/ evt_callback_queue # <<>>

LEMMA SteadyKeeps == ChangeInv /\ Steady => ChangeInv'
<1> SUFFICES ASSUME ChangeInv, Steady PROVE ChangeInv'
  OBVIOUS
<1> USE DEF ChangeInv
<1>1. OneChanges'
  BY DEF OneChanges, Steady
<1>2. ChangesInOrder'
  <2> SUFFICES ASSUME NEW t \in Threads
               PROVE  /\ pc'[t] \in {"quit", "join"} => event_handler'.type = "callback" /\ call'[t].type # "callback"
                      /\ pc'[t] = "create" => ~Alive' /\ (call'[t].type = "callback" => event_handler'.type = "none")
                      /\ pc'[t] = "store" /\ call'[t].type # "callback" => ~Alive'
    BY DEF ChangesInOrder
  <2>1. pc'[t] \in ChangePlaces => pc'[t] = pc[t] /\ call'[t] = call[t]
    BY DEF Steady
  <2>2. (Alive' => Alive) /\ event_handler' = event_handler
    BY DEF Steady
  <2> QED
    BY <2>1, <2>2 DEF ChangesInOrder, ChangePlaces
<1>3. QuietUntilStored'
  <2> SUFFICES ASSUME event_handler'.type = "none", Alive'
               PROVE  /\ evt_callback_queue' = <<>> /\ eventthread' \notin {"reading", "calling"}
                      /\ \E t \in Threads : pc'[t] = "store" /\ call'[t].type = "callback"
    BY DEF QuietUntilStored
  <2>1. event_handler.type = "none" /\ Alive
    BY DEF Steady
  <2>2. PICK t \in Threads : pc[t] = "store" /\ call[t].type = "callback"
    BY <2>1 DEF QuietUntilStored
  <2>3. pc'[t] = "store" /\ call'[t].type = "callback"
    BY <2>2 DEF Steady, ChangePlaces
  <2>4. evt_callback_queue = <<>> /\ eventthread \notin {"reading", "calling"}
    BY <2>1 DEF QuietUntilStored
  <2> QED
    BY <2>1, <2>3, <2>4 DEF Steady, InCallback
<1> QED
  BY <1>1, <1>2, <1>3

LEMMA WakingIsSteady ==
  /\ WakeEventThread \in {"reading", "calling"} <=> InCallback
  /\ WakeEventThread = "reading" <=> eventthread = "reading"
  /\ WakeEventThread = "calling" <=> eventthread = "calling"
  /\ WakeEventThread \notin {"none", "gone"} <=> Alive
BY DEF WakeEventThread, Alive, InCallback

LEMMA OthersAreSteady ==
  ASSUME Typed,
         \/ ReaderDone \/ ReaderWakes \/ EventThread \/ Closing
         \/ \E t \in Callers : Caller(t)
         \/ UNCHANGED vars
  PROVE  Steady
<1> USE DEF Typed, ThreadsTyped
<1>0. /\ \A t \in Threads : WakeCallers(pc)[t] = IF pc[t] = "waiting" THEN "woken" ELSE pc[t]
      /\ WakeCallers(pc) \in [Threads -> Places]
      /\ Owner \in Threads /\ Callers \subseteq Threads
  BY WokenPlaces DEF Threads
<1>1. CASE ReaderDone
  BY <1>1 DEF ReaderDone, callback, callers, Steady, Alive, InCallback
<1>2. CASE ReaderWakes
  BY <1>0, <1>2, WakingIsSteady DEF ReaderWakes, Steady, Alive, InCallback, ChangePlaces
<1>3. CASE EventThread
  BY <1>3 DEF EventThread, Serve, ReadHandler, CallbackReturns, EventThreadSleeps,
      EventThreadEnds, callers, Steady, Alive, InCallback
<1>4. CASE Close
  BY <1>0, <1>4 DEF Close, Goto, callback, Steady, Alive, InCallback, ChangePlaces
<1>5. CASE CloseQueue
  <2>1. /\ UNCHANGED <<event_handler, evt_callback_queue, changing, call>>
        /\ eventthread' \in {eventthread, WakeEventThread}
    BY <1>5 DEF CloseQueue, queue
  <2>2. /\ pc[Owner] = "unqueue"
        /\ pc' \in {[WakeCallers(pc) EXCEPT ![Owner] = "counting"], [pc EXCEPT ![Owner] = "counting"]}
    BY <1>5 DEF CloseQueue, Goto
  <2>3. \A t \in Threads : pc[t] \in ChangePlaces \/ pc'[t] \in ChangePlaces => pc'[t] = pc[t]
    BY <1>0, <2>2 DEF ChangePlaces
  <2>4. (Alive' => Alive) /\ (InCallback' => InCallback)
    BY <2>1, WakingIsSteady DEF Alive, InCallback
  <2> QED
    BY <2>1, <2>3, <2>4 DEF Steady
<1>6. CASE CloseReader
  BY <1>0, <1>6 DEF CloseReader, Goto, callback, Steady, Alive, InCallback, ChangePlaces
<1>7. ASSUME NEW t \in Callers, made[t] < Len(Calls[t]), NEW c \in Calls[t][made[t] + 1], Begin(t, c)
      PROVE  Steady
  <2>1. c.name \in {"dequeue", "configure", "handler"}
    BY <1>7, BeginTyped DEF Requests
  <2>2. /\ pc[t] = "idle" /\ pc' = [pc EXCEPT ![t] = c.name] /\ call' = [call EXCEPT ![t] = c]
        /\ UNCHANGED <<event_handler, callback, changing>>
    BY <1>7 DEF Begin, Goto
  <2>3. \A x \in Threads : pc[x] \in ChangePlaces \/ pc'[x] \in ChangePlaces
                            => pc'[x] = pc[x] /\ call'[x] = call[x]
    BY <1>0, <2>1, <2>2 DEF ChangePlaces
  <2> QED
    BY <2>2, <2>3 DEF callback, Steady, Alive, InCallback
<1>8. ASSUME NEW t \in Callers, Configure(t)
      PROVE  Steady
  BY <1>0, <1>8, WakingIsSteady DEF Configure, Steady, Alive, InCallback, ChangePlaces
<1>9. ASSUME NEW t \in Callers, Refuse(t) \/ Take(t) \/ GiveUp(t) \/ Sleep(t) \/ TimeOut(t) \/ Leave(t) \/ Again(t)
      PROVE  Steady
  <2>1. /\ pc[t] \in {"dequeue", "woken", "waiting", "leaving", "emptying"}
        /\ \E l \in {"leaving", "emptying", "waiting", "dequeue", "idle"} : pc' = [pc EXCEPT ![t] = l]
    BY <1>9 DEF Refuse, Take, GiveUp, Sleep, TimeOut, Leave, Again, Looking, Return, Goto
  <2>2. UNCHANGED <<event_handler, callback, changing>> /\ \E c : call' = call \/ call' = [call EXCEPT ![t] = c]
    BY <1>9 DEF Refuse, Take, GiveUp, Sleep, TimeOut, Leave, Again
  <2>3. \A x \in Threads : pc[x] \in ChangePlaces \/ pc'[x] \in ChangePlaces
                            => pc'[x] = pc[x] /\ call'[x] = call[x]
    BY <1>0, <2>1, <2>2 DEF ChangePlaces
  <2> QED
    BY <2>2, <2>3 DEF callback, Steady, Alive, InCallback
<1>10. CASE UNCHANGED vars
  BY <1>10 DEF vars, callback, callers, Steady, Alive, InCallback
<1> QED
  BY <1>1, <1>2, <1>3, <1>4, <1>5, <1>6, <1>7, <1>8, <1>9, <1>10 DEF Closing, Caller

LEMMA DispatchIsSteady == QueueInv /\ Dispatch => Steady
<1> SUFFICES ASSUME QueueInv, Dispatch PROVE Steady
  OBVIOUS
<1>1. pc \in [Threads -> Places]
  BY DEF QueueInv, Typed, ThreadsTyped
<1>2. UNCHANGED <<changing, event_handler, call>>
  BY DEF Dispatch
<1>3. pc' \in {pc, WakeCallers(pc)} /\ eventthread' \in {eventthread, WakeEventThread}
  BY DispatchQueues
<1>4. event_handler.type = "none" => evt_callback_queue' = evt_callback_queue
  BY DispatchQueues
<1>5. \A t \in Threads : pc[t] \in ChangePlaces \/ pc'[t] \in ChangePlaces => pc'[t] = pc[t]
  BY <1>1, <1>3, WokenPlaces DEF ChangePlaces
<1>6. (Alive' => Alive) /\ (InCallback' => InCallback)
  BY <1>3, WakingIsSteady DEF Alive, InCallback
<1> QED
  BY <1>2, <1>4, <1>5, <1>6 DEF Steady

(* Taking, ending and storing a change.                                      *)
LEMMA ChangeKeeps ==
  ASSUME Typed, ChangeInv, NEW t \in Threads, Change(t)
  PROVE  ChangeInv'
<1> USE EventsAssumption DEF Typed, ThreadsTyped, ChangeInv, ChangePlaces
<1>0. /\ \A x \in Threads : WakeCallers(pc)[x] = IF pc[x] = "waiting" THEN "woken" ELSE pc[x]
      /\ WakeCallers(pc) \in [Threads -> Places]
      /\ call[t] \in CallRecords
  BY WokenPlaces
<1>1. CASE Handler(t)
  <2>1. /\ pc[t] = "handler" /\ changing = "free" /\ changing' = t
        /\ UNCHANGED <<event_handler, eventthread, evt_callback_queue, call>>
    BY <1>1 DEF Handler, callback
  <2>2. PICK l \in {"store", "quit", "create"} :
          /\ pc' = [pc EXCEPT ![t] = l]
          /\ l = "store" => call[t].type = event_handler.type
          /\ l = "quit" => call[t].type # event_handler.type /\ event_handler.type = "callback"
          /\ l = "create" => call[t].type # event_handler.type /\ event_handler.type # "callback"
    BY <1>1 DEF Handler, Goto
  <2>3. \A x \in Threads : pc[x] \notin ChangePlaces
    BY <2>1 DEF OneChanges
  <2>4. event_handler.type \in {"none", "callback"} /\ (event_handler.type = "none" => ~Alive)
    BY <2>3 DEF QuietUntilStored, HandlerRecords
  <2>5. OneChanges'
    BY <2>1, <2>2, <2>3 DEF OneChanges
  <2>6. ChangesInOrder'
    BY <2>1, <2>2, <2>3, <2>4 DEF ChangesInOrder, Alive
  <2>7. QuietUntilStored'
    BY <2>1, <2>4 DEF QuietUntilStored, Alive
  <2> QED
    BY <2>5, <2>6, <2>7
<1>2. CASE Quit(t)
  <2>1. /\ pc[t] = "quit" /\ UNCHANGED <<changing, event_handler, evt_callback_queue, call>>
        /\ pc' = [WakeCallers(pc) EXCEPT ![t] = "join"] /\ eventthread' = WakeEventThread
    BY <1>2 DEF Quit
  <2>2. changing = t /\ \A x \in Threads : x # t => pc[x] \notin ChangePlaces /\ pc'[x] \notin ChangePlaces
    BY <1>0, <2>1 DEF OneChanges
  <2>3. pc'[t] = "join" /\ event_handler.type = "callback" /\ call[t].type # "callback"
    BY <1>0, <2>1 DEF ChangesInOrder
  <2>4. OneChanges'
    BY <2>1, <2>2, <2>3 DEF OneChanges
  <2>5. ChangesInOrder' /\ QuietUntilStored'
    BY <2>1, <2>2, <2>3 DEF ChangesInOrder, QuietUntilStored
  <2> QED
    BY <2>4, <2>5
<1>3. CASE Join(t)
  <2>1. /\ pc[t] = "join" /\ eventthread = "gone" /\ pc' = [pc EXCEPT ![t] = "create"]
        /\ UNCHANGED <<changing, event_handler, eventthread, call>>
    BY <1>3 DEF Join, Goto, callback
  <2>2. changing = t /\ \A x \in Threads : x # t => pc[x] \notin ChangePlaces /\ pc'[x] \notin ChangePlaces
    BY <2>1 DEF OneChanges
  <2>3. pc'[t] = "create" /\ event_handler.type = "callback" /\ call[t].type # "callback"
    BY <2>1 DEF ChangesInOrder
  <2>4. OneChanges'
    BY <2>1, <2>2, <2>3 DEF OneChanges
  <2>5. ChangesInOrder' /\ QuietUntilStored'
    BY <2>1, <2>2, <2>3 DEF ChangesInOrder, QuietUntilStored, Alive
  <2> QED
    BY <2>4, <2>5
<1>4. CASE Create(t)
  <2>1. /\ pc[t] = "create" /\ call[t].type = "callback" /\ pc' = [pc EXCEPT ![t] = "store"]
        /\ evt_callback_queue' = <<>> /\ UNCHANGED <<changing, event_handler>>
        /\ \/ eventthread' = "running" /\ call' = call
           \/ eventthread' = eventthread /\ call' = [call EXCEPT ![t] = [call[t] EXCEPT !.type = "failed"]]
    BY <1>4, Zenon DEF Create, Goto
  <2>2. changing = t /\ \A x \in Threads : x # t => pc[x] \notin ChangePlaces /\ pc'[x] \notin ChangePlaces
    BY <2>1 DEF OneChanges
  <2>3. pc'[t] = "store" /\ ~Alive /\ event_handler.type = "none"
    BY <2>1 DEF ChangesInOrder
  <2>4. \/ eventthread' = "running" /\ call'[t].type = "callback"
        \/ eventthread' = eventthread /\ call'[t].type = "failed"
    BY <1>0, <2>1, FieldFacts
  <2>5. OneChanges'
    BY <2>1, <2>2, <2>3 DEF OneChanges
  <2>6. ChangesInOrder'
    BY <2>2, <2>3, <2>4 DEF ChangesInOrder, Alive
  <2>7. QuietUntilStored'
    BY <2>1, <2>3, <2>4 DEF QuietUntilStored, Alive
  <2> QED
    BY <2>5, <2>6, <2>7
<1>5. CASE Nothing(t)
  <2>1. /\ pc[t] = "create" /\ pc' = [pc EXCEPT ![t] = "store"]
        /\ UNCHANGED <<changing, event_handler, eventthread, call>>
    BY <1>5 DEF Nothing, Goto, callback
  <2>2. changing = t /\ \A x \in Threads : x # t => pc[x] \notin ChangePlaces /\ pc'[x] \notin ChangePlaces
    BY <2>1 DEF OneChanges
  <2>3. pc'[t] = "store" /\ ~Alive
    BY <2>1 DEF ChangesInOrder
  <2>4. OneChanges'
    BY <2>1, <2>2, <2>3 DEF OneChanges
  <2>5. ChangesInOrder' /\ QuietUntilStored'
    BY <2>1, <2>2, <2>3 DEF ChangesInOrder, QuietUntilStored, Alive
  <2> QED
    BY <2>4, <2>5
<1>6. CASE Store(t)
  <2>1. /\ pc[t] = "store" /\ changing' = "free" /\ UNCHANGED <<eventthread, evt_callback_queue, call>>
        /\ \E l \in {"unqueue", "leaving"} : pc' = [pc EXCEPT ![t] = l]
    BY <1>6 DEF Store, Goto
  <2>2. changing = t /\ \A x \in Threads : pc'[x] \notin ChangePlaces
    BY <2>1 DEF OneChanges
  <2>3. event_handler'.type = "none" => call[t].type # "callback"
    <3>1. CASE call[t].type = "failed"
      BY <3>1
    <3>2. CASE call[t].type # "failed"
      <4>1. event_handler' = New(t)
        BY <1>6, <3>2, Zenon DEF Store
      <4> QED
        BY <4>1 DEF New
    <3> QED
      BY <3>1, <3>2
  <2>4. event_handler'.type = "none" => ~Alive
    BY <2>1, <2>3 DEF ChangesInOrder
  <2>5. OneChanges'
    BY <2>1, <2>2 DEF OneChanges
  <2>6. ChangesInOrder' /\ QuietUntilStored'
    BY <2>1, <2>2, <2>4 DEF ChangesInOrder, QuietUntilStored, Alive
  <2> QED
    BY <2>5, <2>6
<1> QED
  BY <1>1, <1>2, <1>3, <1>4, <1>5, <1>6 DEF Change

LEMMA ChangeStep == QueueInv /\ ChangeInv /\ [Next]_vars => ChangeInv'
<1> SUFFICES ASSUME QueueInv, ChangeInv, [Next]_vars PROVE ChangeInv'
  OBVIOUS
<1>0. Typed
  BY DEF QueueInv
<1>1. CASE Dispatch
  BY <1>1, DispatchIsSteady, SteadyKeeps
<1>2. CASE \/ ReaderDone \/ ReaderWakes \/ EventThread \/ Closing
           \/ \E t \in Callers : Caller(t)
           \/ UNCHANGED vars
  BY <1>0, <1>2, OthersAreSteady, SteadyKeeps
<1>3. ASSUME NEW t \in Threads, Change(t)
      PROVE  ChangeInv'
  BY <1>0, <1>3, ChangeKeeps
<1> QED
  BY <1>1, <1>2, <1>3 DEF Next

LEMMA ChangeStart == Init => ChangeInv
BY EventsAssumption DEF Init, ChangeInv, OneChanges, ChangesInOrder, QuietUntilStored, Alive, ChangePlaces

LEMMA AlwaysChangeInv == Spec => []ChangeInv
BY AlwaysQueueInv, ChangeStart, ChangeStep, PTL DEF Spec

(* The handler and the requests of calls keep their functions.               *)
LEMMA NamedStep ==
  ASSUME Typed, Named, [Next]_vars
  PROVE  Named'
<1> USE DEF Typed, ThreadsTyped, Named
<1>0. Callers \subseteq Threads /\ call \in [Threads -> CallRecords]
  BY DEF Threads
<1>1. ASSUME NEW t \in Callers, made[t] < Len(Calls[t]), NEW c \in Calls[t][made[t] + 1], Begin(t, c)
      PROVE  Named'
  <2>1. c.type = "callback" => c.eventfn \in Functions
    BY <1>1, BeginTyped DEF Requests
  <2>2. call' = [call EXCEPT ![t] = c] /\ event_handler' = event_handler
    BY <1>1 DEF Begin
  <2> QED
    BY <1>0, <2>1, <2>2
<1>2. ASSUME NEW t \in Callers, Leave(t) \/ Again(t) \/ Sleep(t)
      PROVE  Named'
  <2>1. /\ event_handler' = event_handler
        /\ \/ call' = call \/ call' = [call EXCEPT ![t] = NoCall]
           \/ call' = [call EXCEPT ![t] = [call[t] EXCEPT !.wait = "forever"]]
    BY <1>2 DEF Leave, Again, Sleep
  <2>2. call[t] \in CallRecords /\ NoCall.type # "callback"
    BY <1>0 DEF NoCall
  <2>3. /\ [call[t] EXCEPT !.wait = "forever"].type = call[t].type
        /\ [call[t] EXCEPT !.wait = "forever"].eventfn = call[t].eventfn
    BY <2>2 DEF CallRecords
  <2> QED
    BY <1>0, <2>1, <2>2, <2>3
<1>3. ASSUME NEW t \in Threads, Create(t)
      PROVE  Named'
  <2>1. /\ event_handler' = event_handler
        /\ call' = call \/ call' = [call EXCEPT ![t] = [call[t] EXCEPT !.type = "failed"]]
    BY <1>3, Zenon DEF Create
  <2>2. [call[t] EXCEPT !.type = "failed"].type = "failed"
    BY <1>0, FieldFacts
  <2> QED
    BY <1>0, <2>1, <2>2
<1>4. ASSUME NEW t \in Threads, Store(t)
      PROVE  Named'
  <2>1. call' = call
    BY <1>4 DEF Store
  <2>2. CASE call[t].type = "failed"
    <3>1. event_handler' = [event_handler EXCEPT !.type = "none"]
      BY <1>4, <2>2, Zenon DEF Store
    <3> QED
      BY <2>1, <3>1, FieldFacts
  <2>3. CASE call[t].type # "failed"
    <3>1. event_handler' = New(t)
      BY <1>4, <2>3, Zenon DEF Store
    <3>2. New(t).type = call[t].type /\ New(t).eventfn = call[t].eventfn
      BY DEF New
    <3> QED
      BY <2>1, <3>1, <3>2
  <2> QED
    BY <2>2, <2>3
<1>5. CASE \/ Dispatch \/ ReaderDone \/ ReaderWakes \/ EventThread \/ Closing \/ UNCHANGED vars
           \/ \E t \in Callers : Configure(t) \/ Refuse(t) \/ Take(t) \/ GiveUp(t) \/ TimeOut(t)
           \/ \E t \in Threads : Handler(t) \/ Quit(t) \/ Join(t) \/ Nothing(t)
  <2>1. UNCHANGED <<event_handler, call>>
    BY <1>5 DEF Dispatch, ReaderDone, ReaderWakes, EventThread, Serve, ReadHandler, CallbackReturns, EventThreadSleeps,
      EventThreadEnds, Closing, Close, CloseQueue, CloseReader, Configure, Refuse, Take, GiveUp, TimeOut, Handler, Quit,
      Join, Nothing, vars, callers
  <2> QED
    BY <2>1
<1> QED
  BY <1>1, <1>2, <1>3, <1>4, <1>5 DEF Next, Caller, Change

(* The steps in which the event thread neither enters nor leaves a callback  *)
(* nor reads for it, and nobody stores a handler.                            *)
ReadingKept ==
  /\ UNCHANGED <<running, since>>
  /\ eventthread = "reading" <=> eventthread' = "reading"
  /\ eventthread = "calling" <=> eventthread' = "calling"
  /\ eventthread' = "reading" => event_handler' = event_handler

LEMMA KeptReading ==
  ASSUME Typed, ChangeInv,
         \/ Dispatch \/ ReaderDone \/ ReaderWakes \/ EventThreadSleeps \/ EventThreadEnds \/ Closing
         \/ \E t \in Callers : Caller(t)
         \/ \E t \in Threads : Handler(t) \/ Quit(t) \/ Join(t) \/ Create(t) \/ Nothing(t)
         \/ UNCHANGED vars
  PROVE  ReadingKept
<1>1. CASE Dispatch
  <2>1. eventthread' \in {eventthread, WakeEventThread} /\ UNCHANGED <<running, since, event_handler>>
    BY <1>1, Zenon DEF Dispatch, served
  <2> QED
    BY <2>1, WakingIsSteady DEF ReadingKept
<1>2. CASE ReaderDone \/ ReaderWakes \/ EventThreadSleeps \/ EventThreadEnds \/ Closing \/ UNCHANGED vars
  <2>1. UNCHANGED <<running, since, event_handler>>
    BY <1>2 DEF ReaderDone, ReaderWakes, EventThreadSleeps, EventThreadEnds, Closing, Close, CloseQueue, CloseReader,
      vars, callback, served
  <2>2. \/ eventthread' \in {eventthread, WakeEventThread}
        \/ eventthread = "running" /\ eventthread' \in {"waiting", "gone"}
    BY <1>2 DEF ReaderDone, ReaderWakes, EventThreadSleeps, EventThreadEnds, Closing, Close, CloseQueue, CloseReader,
      vars, callback
  <2> QED
    BY <2>1, <2>2, WakingIsSteady DEF ReadingKept
<1>3. ASSUME NEW t \in Callers, Caller(t)
      PROVE  ReadingKept
  <2>1. UNCHANGED <<running, since, event_handler>> /\ eventthread' \in {eventthread, WakeEventThread}
    BY <1>3 DEF Caller, Begin, Configure, Refuse, Take, GiveUp, Sleep, TimeOut, Leave, Again, callback, served
  <2> QED
    BY <2>1, WakingIsSteady DEF ReadingKept
<1>4. ASSUME NEW t \in Threads, Handler(t) \/ Quit(t) \/ Join(t) \/ Nothing(t)
      PROVE  ReadingKept
  <2>1. UNCHANGED <<running, since, event_handler>> /\ eventthread' \in {eventthread, WakeEventThread}
    BY <1>4 DEF Handler, Quit, Join, Nothing, callback, served
  <2> QED
    BY <2>1, WakingIsSteady DEF ReadingKept
<1>5. ASSUME NEW t \in Threads, Create(t)
      PROVE  ReadingKept
  <2>1. pc[t] = "create" /\ UNCHANGED <<running, since, event_handler>> /\ eventthread' \in {eventthread, "running"}
    BY <1>5, Zenon DEF Create
  <2>2. ~Alive
    BY <2>1 DEF ChangeInv, ChangesInOrder
  <2> QED
    BY <2>1, <2>2 DEF ReadingKept, Alive
<1> QED
  BY <1>1, <1>2, <1>3, <1>4, <1>5

LEMMA ReadStep ==
  ASSUME Typed, ChangeInv, ReadInv, [Next]_vars
  PROVE  ReadInv'
<1> USE DEF ReadInv, InCallback
<1>0. Named'
  BY NamedStep
<1>1. CASE ReadingKept
  BY <1>0, <1>1 DEF ReadingKept, ReadInTime, Handed
<1>2. CASE Serve
  <2>1. /\ eventthread = "running" /\ eventthread' = "reading" /\ evt_callback_queue # <<>>
        /\ running' = running /\ since' = {Handed(event_handler)} /\ event_handler' = event_handler
    BY <1>2 DEF Serve
  <2>2. event_handler.type = "callback"
    BY <2>1 DEF ChangeInv, QuietUntilStored, Alive, Typed, ThreadsTyped, HandlerRecords
  <2>3. Handed(event_handler).eventfn \in Functions
    BY <2>2 DEF Named, Handed
  <2>4. running' = Unread
    BY <2>1
  <2> QED
    BY <1>0, <2>1, <2>3, <2>4 DEF ReadInTime, Unread
<1>3. CASE ReadHandler
  <2>1. /\ eventthread = "reading" /\ UNCHANGED <<since, event_handler>>
        /\ eventthread' = IF "unread" \in {running'.eventfn, running'.extra} THEN "reading" ELSE "calling"
    BY <1>3 DEF ReadHandler
  <2>2. PICK field \in {"eventfn", "extra"} : running' = [running EXCEPT ![field] = event_handler[field]]
    BY <1>3 DEF ReadHandler
  <2>3. Handed(event_handler) \in since /\ ReadInTime
    BY <2>1
  <2>4. /\ Handed(event_handler).eventfn = event_handler.eventfn
        /\ Handed(event_handler).extra = event_handler.extra
    BY DEF Handed
  <2>5. /\ DOMAIN running' = {"eventfn", "extra"}
        /\ running'.eventfn \in {running.eventfn, Handed(event_handler).eventfn}
        /\ running'.extra \in {running.extra, Handed(event_handler).extra}
    BY <2>2, <2>4
  <2>6. ReadInTime'
    BY <2>1, <2>3, <2>5 DEF ReadInTime
  <2> QED
    BY <1>0, <2>1, <2>3, <2>5, <2>6
<1>4. CASE CallbackReturns
  <2>1. running' = Unread /\ since' = {} /\ eventthread' = "running"
    BY <1>4 DEF CallbackReturns
  <2> QED
    BY <1>0, <2>1 DEF Unread
<1>5. ASSUME NEW t \in Threads, Store(t)
      PROVE  ReadInv'
  <2>1. /\ pc[t] = "store" /\ UNCHANGED <<eventthread, running>>
        /\ since' = IF eventthread = "reading" THEN since \cup {Handed(event_handler')} ELSE since
        /\ event_handler' = IF call[t].type = "failed" THEN [event_handler EXCEPT !.type = "none"] ELSE New(t)
    BY <1>5 DEF Store
  <2>2. CASE eventthread = "reading"
    <3>1. call[t].type = "callback"
      BY <2>1, <2>2 DEF ChangeInv, ChangesInOrder, Alive
    <3>2. event_handler' = New(t)
      BY <2>1, <3>1
    <3>3. Handed(event_handler').eventfn \in Functions
      BY <3>1, <3>2 DEF Named, New, Handed
    <3>4. since' = since \cup {Handed(event_handler')}
      BY <2>1, <2>2
    <3>5. ReadInTime'
      BY <2>1, <2>2, <3>4 DEF ReadInTime
    <3> QED
      BY <1>0, <2>1, <2>2, <3>3, <3>4, <3>5
  <2>3. CASE eventthread # "reading"
    <3>1. since' = since
      BY <2>1, <2>3
    <3> QED
      BY <1>0, <2>1, <2>3, <3>1 DEF ReadInTime
  <2> QED
    BY <2>2, <2>3
<1> QED
  BY <1>1, <1>2, <1>3, <1>4, <1>5, KeptReading DEF Next, EventThread, Change

LEMMA ReadStart == Init => ReadInv
<1> SUFFICES ASSUME Init PROVE ReadInv
  OBVIOUS
<1>1. running = Unread /\ since = {} /\ eventthread = "none"
  BY DEF Init
<1>2. Named
  BY DEF Init, Named, NoCall
<1> QED
  BY <1>1, <1>2 DEF ReadInv, InCallback, Unread

(* A callback runs only while one is set, and none after a change to no      *)
(* handler has returned; what runs is a function and an extra value that the *)
(* handler named since the event was taken, so that one that was replaced is *)
(* called for no later event (eth32_internal.c:144-214, 671-765): the        *)
(* invariant CallbackOnlyWhileSet holds, also when a thread fails to start,  *)
(* and however changes, events and the closing of the handle meet.           *)
THEOREM CallbackRunsOnlyWhileSet == Spec => []CallbackOnlyWhileSet
<1>1. QueueInv /\ ChangeInv /\ ReadInv => CallbackOnlyWhileSet
  <2> SUFFICES ASSUME QueueInv, ChangeInv, ReadInv PROVE CallbackOnlyWhileSet
    OBVIOUS
  <2>1. event_handler.type \in {"none", "callback"}
    BY DEF QueueInv, Typed, ThreadsTyped, HandlerRecords
  <2>2. eventthread \in {"reading", "calling"} => event_handler.type = "callback"
    BY <2>1 DEF ChangeInv, QuietUntilStored, Alive
  <2>3. event_handler.type # "callback" /\ changing = "free" => ~Alive
    BY <2>1, EventsAssumption DEF ChangeInv, QuietUntilStored, OneChanges, ChangePlaces
  <2>4. eventthread = "calling" =>
          /\ running.eventfn \in {h.eventfn : h \in since} \cap Functions
          /\ running.extra \in {h.extra : h \in since}
    BY DEF ReadInv, ReadInTime, InCallback
  <2> QED
    BY <2>2, <2>3, <2>4 DEF CallbackOnlyWhileSet, Alive
<1>2. QueueInv => Typed
  BY DEF QueueInv
<1> QED
  BY <1>1, <1>2, AlwaysQueueInv, AlwaysChangeInv, ReadStart, ReadStep, PTL DEF Spec

-----------------------------------------------------------------------------
(* A callback sees nothing from before it was set                            *)

LEMMA FreshStep ==
  QueueInv /\ BornInTime /\ FreshCallbacks /\ [Next]_vars => BornInTime' /\ FreshCallbacks'
<1> SUFFICES ASSUME QueueInv, BornInTime, FreshCallbacks, [Next]_vars PROVE BornInTime' /\ FreshCallbacks'
  OBVIOUS
<1>a. Typed /\ QueuesTyped /\ born <= arrived + 1 /\ OrderedTo(evt_callback_queue, serving, arrived)
  BY DEF QueueInv, Typed, BornInTime, EventsInOrder, Ordered, OrderedTo
<1>b. ASSUME QueuesKept, born' = born, Alive' => Alive
      PROVE  BornInTime' /\ FreshCallbacks'
  BY <1>b DEF QueuesKept, BornInTime, FreshCallbacks, Alive
<1>1. CASE Dispatch
  <2>1. Alive' => Alive
    BY <1>1, DispatchIsSteady DEF Steady
  <2>2. arrived' = arrived + 1 /\ born' = born /\ serving' = serving
    BY <1>1, DispatchQueues
  <2>3. \A i \in DOMAIN evt_callback_queue' :
          evt_callback_queue'[i] = arrived + 1 \/ \E j \in DOMAIN evt_callback_queue :
                                                    evt_callback_queue'[i] = evt_callback_queue[j]
    <3>1. /\ event_handler.maxqueue \in Nat /\ event_handler.fullqueue \in Policies
          /\ evt_callback_queue \in Seq(Nat) /\ arrived \in Nat /\ arrived + 1 \in Nat
          /\ serving \in Nat /\ serving <= arrived
      BY DEF QueueInv, Typed, ThreadsTyped, QueuesTyped, HandlerRecords, InTime
    <3> DEFINE called == Put(evt_callback_queue, arrived + 1, event_handler.maxqueue, event_handler.fullqueue)
    <3>2. \A i \in DOMAIN called : called[i] = arrived + 1 \/ \E j \in DOMAIN evt_callback_queue :
                                                               called[i] = evt_callback_queue[j]
      BY <1>a, <3>1, PutMembers
    <3>3. evt_callback_queue' = evt_callback_queue \/ evt_callback_queue' = called
      BY <1>1, DispatchQueues
    <3> HIDE DEF called
    <3> QED
      BY <3>2, <3>3
  <2> QED
    BY <1>a, <2>1, <2>2, <2>3 DEF BornInTime, FreshCallbacks, QueuesTyped, Alive
<1>2. CASE Serve
  <2>1. /\ eventthread = "running" /\ evt_callback_queue # <<>> /\ UNCHANGED <<arrived, born>>
        /\ serving' = Head(evt_callback_queue) /\ evt_callback_queue' = Tail(evt_callback_queue)
    BY <1>2 DEF Serve
  <2>2. /\ serving' = evt_callback_queue[1] /\ 1 \in DOMAIN evt_callback_queue
        /\ \A i \in DOMAIN evt_callback_queue' : \E j \in DOMAIN evt_callback_queue :
                                                   evt_callback_queue'[i] = evt_callback_queue[j]
    BY <1>a, <2>1, TailFacts DEF QueuesTyped
  <2>3. \A j \in DOMAIN evt_callback_queue : evt_callback_queue[j] >= born
    BY <2>1 DEF FreshCallbacks
  <2> QED
    BY <1>a, <2>1, <2>2, <2>3 DEF BornInTime, FreshCallbacks
<1>3. ASSUME NEW t \in Threads, Create(t)
      PROVE  BornInTime' /\ FreshCallbacks'
  <2>1. /\ evt_callback_queue' = <<>> /\ arrived' = arrived
        /\ \/ serving' = 0 /\ born' = arrived + 1
           \/ serving' = serving /\ born' = born /\ eventthread' = eventthread
    BY <1>3, Zenon DEF Create
  <2>2. \A i \in DOMAIN evt_callback_queue' : evt_callback_queue'[i] >= born'
    BY <2>1
  <2> QED
    BY <1>a, <2>1, <2>2 DEF BornInTime, FreshCallbacks, QueuesTyped
<1>4. CASE \/ ReaderDone \/ ReaderWakes \/ ReadHandler \/ CallbackReturns \/ EventThreadSleeps \/ EventThreadEnds
           \/ Close \/ CloseReader
  <2>1. Alive' => Alive
    BY <1>4, <1>a, OthersAreSteady DEF Steady, EventThread, Closing
  <2> QED
    BY <1>4, <1>b, <2>1, KeptByOthers
<1>5. CASE CloseQueue
  <2>1. (Alive' => Alive) /\ UNCHANGED <<evt_callback_queue, serving, arrived, born>>
    BY <1>5, <1>a, OthersAreSteady DEF Steady, Closing, CloseQueue, served
  <2> QED
    BY <2>1 DEF BornInTime, FreshCallbacks, Alive
<1>6. ASSUME NEW t \in Callers, Caller(t)
      PROVE  BornInTime' /\ FreshCallbacks'
  <2>1. Alive' => Alive
    BY <1>6, <1>a, OthersAreSteady DEF Steady
  <2>2. UNCHANGED <<evt_callback_queue, serving, arrived, born>>
    BY <1>6 DEF Caller, Begin, Configure, Refuse, Take, GiveUp, Sleep, TimeOut, Leave, Again, callback, served
  <2> QED
    BY <2>1, <2>2 DEF BornInTime, FreshCallbacks, Alive
<1>7. ASSUME NEW t \in Threads, Handler(t) \/ Quit(t) \/ Join(t) \/ Nothing(t) \/ Store(t)
      PROVE  BornInTime' /\ FreshCallbacks'
  <2>1. Alive' => Alive
    BY <1>7, WakingIsSteady DEF Handler, Quit, Join, Nothing, Store, callback, Alive
  <2> QED
    BY <1>7, <1>b, <2>1, KeptByOthers
<1>8. CASE UNCHANGED vars
  BY <1>8 DEF vars, callback, served, BornInTime, FreshCallbacks
<1> QED
  BY <1>1, <1>2, <1>3, <1>4, <1>5, <1>6, <1>7, <1>8 DEF Next, EventThread, Closing, Change

(* A callback set where there was none sees no event from before, whatever   *)
(* an earlier event thread left in the queue and however often the handler   *)
(* changes (eth32_internal.c:589-617): the invariant FreshCallbacks holds.   *)
(* It says nothing of one that replaces another.                             *)
THEOREM CallbacksStayFresh == Spec => []FreshCallbacks
<1>1. Init => BornInTime /\ FreshCallbacks
  BY DEF Init, BornInTime, FreshCallbacks
<1> QED
  BY <1>1, FreshStep, AlwaysQueueInv, PTL DEF Spec

-----------------------------------------------------------------------------
(* Wakeups                                                                   *)

CallersSleep == \E t \in Threads : pc[t] = "waiting"

LEMMA OneMore ==
  ASSUME NEW S, IsFiniteSet(S), NEW x
  PROVE  /\ Cardinality(S) \in Nat /\ Cardinality(S \cup {x}) \in Nat
         /\ Cardinality(S \cup {x}) <= Cardinality(S) + 1
<1>1. IsFiniteSet(S \cup {x}) /\ Cardinality(S \cup {x}) = IF x \in S THEN Cardinality(S) ELSE Cardinality(S) + 1
  BY FS_AddElement
<1>2. Cardinality(S) \in Nat
  BY FS_CardinalityType
<1> DEFINE m == Cardinality(S)
           n == Cardinality(S \cup {x})
<1>3. m \in Nat /\ n = IF x \in S THEN m ELSE m + 1
  BY <1>1, <1>2
<1> HIDE DEF m, n
<1>4. n \in Nat /\ n <= m + 1
  BY <1>3
<1> QED
  BY <1>2, <1>4 DEF m, n

(* A call begins and ends with the count; in between it stays busy.          *)
LEMMA BusyKept ==
  ASSUME Counted, refcount' = refcount, \A t \in Callers : pc'[t] \in Outside <=> pc[t] \in Outside
  PROVE  Counted'
<1>1. Busy' = Busy
  BY DEF Busy
<1> QED
  BY <1>1 DEF Counted

LEMMA BusyMoves ==
  ASSUME Typed, Counted, NEW t \in Callers
  PROVE  /\ \A c : Begin(t, c) => Counted'
         /\ Leave(t) => Counted'
         /\ Again(t) => Counted'
<1>0. t \in Threads /\ IsFiniteSet(Busy) /\ Cardinality(Busy) \in Nat /\ pc \in [Threads -> Places] /\ refcount \in Int
      /\ Callers \subseteq Threads
  BY EventsAssumption, FS_Subset, FS_CardinalityType DEF Busy, Threads, Typed, ThreadsTyped
<1>1. ASSUME NEW c, Begin(t, c)
      PROVE  Counted'
  <2>1. pc[t] \in Outside /\ pc' = [pc EXCEPT ![t] = c.name] /\ refcount' = refcount + 1
    BY <1>1 DEF Begin, Goto, Check, Refcount, Outside
  <2>2. Busy' = Busy \cup {t} \/ Busy' = Busy
    BY <1>0, <2>1 DEF Busy
  <2>3. Cardinality(Busy') \in Nat /\ Cardinality(Busy') <= Cardinality(Busy) + 1
    <3>1. /\ Cardinality(Busy \cup {t}) \in Nat
          /\ Cardinality(Busy \cup {t}) <= Cardinality(Busy) + 1
      BY <1>0, OneMore
    <3>2. CASE Busy' = Busy \cup {t}
      BY <3>1, <3>2
    <3>3. CASE Busy' = Busy
      <4>1. Cardinality(Busy') = Cardinality(Busy)
        BY <3>3
      <4> QED
        BY <1>0, <4>1
    <3> QED
      BY <2>2, <3>2, <3>3
  <2> QED
    BY <1>0, <2>1, <2>3 DEF Counted
<1>2. ASSUME Leave(t)
      PROVE  Counted'
  <2>1. /\ pc[t] = "leaving" /\ refcount' = Refcount(-1)
        /\ \E l \in Outside : pc' = [pc EXCEPT ![t] = l]
    BY <1>2 DEF Leave, Goto, Outside
  <2>2. Busy' = Busy \ {t} /\ t \in Busy
    BY <1>0, <2>1 DEF Busy, Outside
  <2>3. Cardinality(Busy') = Cardinality(Busy) - 1
    BY <1>0, <2>2, FS_RemoveElement
  <2>4. refcount' = refcount \/ refcount' = refcount - 1
    BY <1>0, <2>1 DEF Refcount
  <2> QED
    BY <1>0, <2>3, <2>4 DEF Counted
<1>3. ASSUME Again(t)
      PROVE  Counted'
  <2>1. CASE closing
    <3>1. pc[t] = "emptying" /\ pc' = [pc EXCEPT ![t] = "idle"] /\ refcount' = refcount
      BY <1>3, <2>1 DEF Again, Goto, Refcount
    <3> QED
      BY <1>0, <3>1, BusyKept DEF Outside
  <2>2. CASE ~closing
    <3>1. pc' = [pc EXCEPT ![t] = "dequeue"] /\ refcount' = refcount + 1
      BY <1>3, <2>2 DEF Again, Goto, Refcount
    <3>2. Busy' = Busy \cup {t}
      BY <1>0, <3>1 DEF Busy, Outside
    <3>3. /\ Cardinality(Busy \cup {t}) \in Nat
          /\ Cardinality(Busy \cup {t}) <= Cardinality(Busy) + 1
      BY <1>0, OneMore
    <3> QED
      BY <1>0, <3>1, <3>2, <3>3 DEF Counted
  <2> QED
    BY <2>1, <2>2
<1> QED
  BY <1>1, <1>2, <1>3

(* What a step does to the places of the threads.                            *)
Settled ==
  /\ \A t \in Callers : pc'[t] \in Outside <=> pc[t] \in Outside
  /\ refcount' = refcount
Calm == \A t \in Threads : pc'[t] = "waiting" => pc[t] = "waiting"

LEMMA MovesAreCalm ==
  ASSUME Typed, NEW t \in Threads, NEW l, NEW p \in {pc, WakeCallers(pc)}, pc' = [p EXCEPT ![t] = l]
  PROVE  /\ l # "waiting" => Calm
         /\ l # "waiting" /\ p = WakeCallers(pc) => ~CallersSleep'
         /\ pc[t] \notin Outside /\ l \notin Outside => \A x \in Callers : pc'[x] \in Outside <=> pc[x] \in Outside
         /\ t = Owner => \A x \in Callers : pc'[x] \in Outside <=> pc[x] \in Outside
<1>1. /\ pc \in [Threads -> Places] /\ p \in [Threads -> Places]
      /\ \A x \in Threads : p[x] = pc[x] \/ (pc[x] = "waiting" /\ p[x] = "woken")
      /\ p = WakeCallers(pc) => \A x \in Threads : p[x] # "waiting"
      /\ Callers \subseteq Threads /\ Owner \notin Callers
  BY WokenPlaces, EventsAssumption DEF Typed, ThreadsTyped, Threads
<1>2. \A x \in Threads : pc'[x] = IF x = t THEN l ELSE p[x]
  BY <1>1
<1> QED
  BY <1>1, <1>2 DEF Calm, CallersSleep, Outside

LEMMA WokenAreCalm ==
  ASSUME Typed, pc' \in {pc, WakeCallers(pc)}
  PROVE  /\ Calm
         /\ \A x \in Callers : pc'[x] \in Outside <=> pc[x] \in Outside
         /\ pc' = WakeCallers(pc) => ~CallersSleep'
<1>1. /\ \A x \in Threads : pc'[x] = pc[x] \/ (pc[x] = "waiting" /\ pc'[x] = "woken")
      /\ pc' = WakeCallers(pc) => \A x \in Threads : pc'[x] # "waiting"
      /\ Callers \subseteq Threads
  BY WokenPlaces DEF Typed, ThreadsTyped, Threads
<1> QED
  BY <1>1 DEF Calm, CallersSleep, Outside

(* The steps between the beginning and the end of calls, and of the owner.   *)
LEMMA OthersSettle ==
  ASSUME Typed,
         \/ Dispatch \/ ReaderDone \/ ReaderWakes \/ EventThread \/ Closing
         \/ \E t \in Threads : Change(t)
         \/ \E t \in Callers : Configure(t) \/ Refuse(t) \/ Take(t) \/ GiveUp(t) \/ TimeOut(t)
         \/ UNCHANGED vars
  PROVE  Settled /\ Calm
<1> USE DEF Settled
<1>0. Owner \in Threads /\ Callers \subseteq Threads
  BY DEF Threads
<1>1. CASE Dispatch \/ ReaderDone \/ ReaderWakes \/ EventThread \/ UNCHANGED vars
  <2>1. pc' \in {pc, WakeCallers(pc)} /\ refcount' = refcount
    BY <1>1 DEF Dispatch, ReaderDone, ReaderWakes, EventThread, Serve, ReadHandler, CallbackReturns, EventThreadSleeps,
      EventThreadEnds, vars, callers
  <2> QED
    BY <2>1, WokenAreCalm
<1>2. CASE Closing
  <2>1. /\ \E l \in {"handler", "counting", "closed"}, p \in {pc, WakeCallers(pc)} : pc' = [p EXCEPT ![Owner] = l]
        /\ refcount' = refcount
    BY <1>2 DEF Closing, Close, CloseQueue, CloseReader, Goto
  <2> QED
    BY <1>0, <2>1, MovesAreCalm
<1>3. ASSUME NEW t \in Threads, Change(t)
      PROVE  Settled /\ Calm
  <2>1. /\ pc[t] \notin Outside /\ refcount' = refcount
        /\ \E l \in {"store", "quit", "create", "join", "unqueue", "leaving"}, p \in {pc, WakeCallers(pc)} :
             pc' = [p EXCEPT ![t] = l]
    BY <1>3 DEF Change, Handler, Quit, Join, Create, Nothing, Store, Goto, Outside
  <2> QED
    BY <2>1, MovesAreCalm DEF Outside
<1>4. ASSUME NEW t \in Callers, Configure(t) \/ Refuse(t) \/ Take(t) \/ GiveUp(t) \/ TimeOut(t)
      PROVE  Settled /\ Calm
  <2>0. t \in Threads
    BY <1>0
  <2>1. /\ pc[t] \notin Outside /\ refcount' = refcount
        /\ \E p \in {pc, WakeCallers(pc)} : pc' = [p EXCEPT ![t] = "leaving"]
    BY <1>4 DEF Configure, Refuse, Take, GiveUp, TimeOut, Looking, Return, Goto, Outside
  <2>2. "leaving" \notin Outside
    BY DEF Outside
  <2> QED
    BY <2>0, <2>1, <2>2, MovesAreCalm, ZenonT(30)
<1> QED
  BY <1>1, <1>2, <1>3, <1>4
(* Beginnings and ends of calls, and a caller that goes to sleep.            *)
LEMMA CallsMove ==
  ASSUME Typed, NEW t \in Callers
  PROVE  /\ \A c \in Requests : Begin(t, c) => Calm
         /\ Leave(t) \/ Again(t) => Calm
         /\ Sleep(t) => Settled
         /\ Sleep(t) => pc'[Owner] = pc[Owner]
<1>0. t \in Threads /\ Owner \in Threads /\ t # Owner /\ pc \in [Threads -> Places]
  BY EventsAssumption DEF Threads, Typed, ThreadsTyped
<1>1. ASSUME NEW c \in Requests, Begin(t, c)
      PROVE  Calm
  <2>1. c.name \in {"dequeue", "configure", "handler"} /\ pc' = [pc EXCEPT ![t] = c.name]
    BY <1>1 DEF Begin, Goto, Requests
  <2>2. c.name # "waiting"
    BY <2>1
  <2> QED
    BY <1>0, <2>1, <2>2, MovesAreCalm
<1>2. ASSUME Leave(t) \/ Again(t)
      PROVE  Calm
  <2>1. \E l \in {"dequeue", "emptying", "idle"} : pc' = [pc EXCEPT ![t] = l]
    BY <1>2 DEF Leave, Again, Goto
  <2> QED
    BY <1>0, <2>1, MovesAreCalm
<1>3. ASSUME Sleep(t)
      PROVE  Settled /\ pc'[Owner] = pc[Owner]
  <2>1. pc[t] \notin Outside /\ pc' = [pc EXCEPT ![t] = "waiting"] /\ refcount' = refcount
    BY <1>3 DEF Sleep, Looking, Goto, Outside
  <2> QED
    BY <1>0, <2>1, MovesAreCalm DEF Settled, Outside
<1> QED
  BY <1>1, <1>2, <1>3

LEMMA AskedFor ==
  ASSUME Typed, NEW t \in Callers, made[t] < Len(Calls[t])
  PROVE  Calls[t][made[t] + 1] \subseteq Requests
<1>1. Calls[t] \in Seq(SUBSET Requests) /\ made[t] \in Nat
  BY EventsAssumption DEF Typed, ThreadsTyped, Threads
<1>2. Len(Calls[t]) \in Nat /\ \A i \in 1..Len(Calls[t]) : Calls[t][i] \in SUBSET Requests
  BY <1>1, LenProperties, ElementOfSeq
<1>3. made[t] + 1 \in 1..Len(Calls[t])
  BY <1>1, <1>2
<1> QED
  BY <1>2, <1>3

(* The reading thread has an error before it is gone.                        *)
LEMMA ErrorKept ==
  ASSUME Typed, ErrorSeen, [Next]_vars
  PROVE  ErrorSeen'
<1>1. CASE ReaderDone \/ ReaderWakes \/ CloseReader
  BY <1>1 DEF ReaderDone, ReaderWakes, CloseReader, ErrorSeen
<1>2. CASE \/ Dispatch \/ EventThread \/ Close \/ CloseQueue
           \/ \E t \in Callers : Caller(t)
           \/ \E t \in Threads : Change(t)
           \/ UNCHANGED vars
  <2>1. reader' = reader /\ readthread_done' = readthread_done
    BY <1>2 DEF Dispatch, EventThread, Serve, ReadHandler, CallbackReturns, EventThreadSleeps,
      EventThreadEnds, Close, CloseQueue,
      Caller, Begin, Configure, Refuse, Take, GiveUp, Sleep, TimeOut, Leave, Again, Change, Handler, Quit, Join, Create,
      Nothing, Store, vars, handle
  <2> QED
    BY <2>1 DEF ErrorSeen
<1> QED
  BY <1>1, <1>2 DEF Next, Closing

LEMMA CountStep ==
  ASSUME Typed, CountInv, [Next]_vars
  PROVE  CountInv'
<1> USE DEF CountInv
<1>0. Owner \in Threads /\ Callers \subseteq Threads
  BY DEF Threads
<1>1. ErrorSeen'
  BY ErrorKept
<1>2. CASE \/ Dispatch \/ ReaderDone \/ ReaderWakes \/ EventThread \/ Closing
           \/ \E t \in Threads : Change(t)
           \/ \E t \in Callers : Configure(t) \/ Refuse(t) \/ Take(t) \/ GiveUp(t) \/ TimeOut(t)
           \/ UNCHANGED vars
  <2>1. Settled /\ Calm
    BY <1>2, OthersSettle
  <2>2. Counted'
    BY <2>1, BusyKept DEF Settled
  <2>3. OwnerAwake'
    BY <1>0, <2>1 DEF Calm, OwnerAwake
  <2> QED
    BY <1>1, <2>2, <2>3
<1>3. ASSUME NEW t \in Callers, (made[t] < Len(Calls[t]) /\ \E c \in Calls[t][made[t] + 1] : Begin(t, c))
                             \/ Leave(t) \/ Again(t)
      PROVE  CountInv'
  <2>1. Calm
    BY <1>3, AskedFor, CallsMove
  <2>2. Counted'
    BY <1>3, BusyMoves
  <2>3. OwnerAwake'
    BY <1>0, <2>1 DEF Calm, OwnerAwake
  <2> QED
    BY <1>1, <2>2, <2>3
<1>4. ASSUME NEW t \in Callers, Sleep(t)
      PROVE  CountInv'
  <2>1. Settled /\ pc'[Owner] = pc[Owner]
    BY <1>4, CallsMove
  <2>2. Counted'
    BY <2>1, BusyKept DEF Settled
  <2> QED
    BY <1>1, <2>1, <2>2 DEF OwnerAwake
<1> QED
  BY <1>2, <1>3, <1>4 DEF Next, Caller

LEMMA CountStart == Init => CountInv
<1> SUFFICES ASSUME Init PROVE CountInv
  OBVIOUS
<1>1. Busy = {} /\ Owner \in Threads
  BY DEF Busy, Init, Threads, Outside
<1>2. Cardinality(Busy) = 0
  BY <1>1, FS_EmptySet
<1> QED
  BY <1>1, <1>2 DEF Init, CountInv, Counted, ErrorSeen, OwnerAwake

(* With no call counted none is under way.                                   *)
LEMMA NobodyBusy ==
  ASSUME Typed, Counted, refcount <= 0
  PROVE  Busy = {}
<1>1. IsFiniteSet(Busy)
  BY EventsAssumption, FS_Subset DEF Busy
<1>2. Cardinality(Busy) \in Nat /\ refcount \in Int /\ Cardinality(Busy) <= refcount
  BY <1>1, FS_CardinalityType DEF Counted, Typed, ThreadsTyped
<1>3. Cardinality(Busy) = 0
  BY <1>2
<1> QED
  BY <1>1, <1>3, FS_EmptySet

(* The event thread sleeps on after a step only if nothing new came up.      *)
LEMMA EventThreadWoken ==
  ASSUME Typed, [Next]_vars
  PROVE  \/ eventthread' # "waiting"
         \/ UNCHANGED <<evt_callback_queue, event_quitflag, eventthread>>
         \/ evt_callback_queue' = <<>> /\ ~event_quitflag'
<1> DEFINE Goal == \/ eventthread' # "waiting"
                   \/ UNCHANGED <<evt_callback_queue, event_quitflag, eventthread>>
                   \/ evt_callback_queue' = <<>> /\ ~event_quitflag'
<1>0. WakeEventThread # "waiting"
  BY DEF WakeEventThread
<1>1. CASE Dispatch
  <2>1. \/ eventthread' = WakeEventThread
        \/ UNCHANGED <<evt_callback_queue, event_quitflag, eventthread>>
    BY <1>1 DEF Dispatch
  <2> QED
    BY <1>0, <2>1
<1>2. CASE ReaderWakes \/ (\E t \in Callers : Configure(t)) \/ (\E t \in Threads : Quit(t))
  <2>1. eventthread' = WakeEventThread
    BY <1>2 DEF ReaderWakes, Configure, Quit
  <2> QED
    BY <1>0, <2>1
<1>3. CASE EventThread
  <2>1. CASE Serve \/ ReadHandler \/ CallbackReturns \/ EventThreadEnds
    BY <2>1 DEF Serve, ReadHandler, CallbackReturns, EventThreadEnds
  <2>2. CASE EventThreadSleeps
    BY <2>2 DEF EventThreadSleeps
  <2> QED
    BY <1>3, <2>1, <2>2 DEF EventThread
<1>4. ASSUME NEW t \in Threads, Create(t)
      PROVE  Goal
  <2>1. evt_callback_queue' = <<>> /\ event_quitflag' = FALSE
    BY <1>4 DEF Create
  <2> QED
    BY <2>1, Zenon
<1>5. CASE CloseQueue
  <2>1. \/ eventthread' = WakeEventThread
        \/ UNCHANGED <<evt_callback_queue, event_quitflag, eventthread>>
    BY <1>5 DEF CloseQueue
  <2> QED
    BY <1>0, <2>1
<1>6. CASE ReaderDone \/ Close \/ CloseReader \/ UNCHANGED vars
  BY <1>6 DEF ReaderDone, Close, CloseReader, vars, callback
<1>7. ASSUME NEW t \in Callers,
             \/ \E c : Begin(t, c)
             \/ Refuse(t) \/ Take(t) \/ GiveUp(t) \/ Sleep(t) \/ TimeOut(t) \/ Leave(t) \/ Again(t)
      PROVE  Goal
  BY <1>7 DEF Begin, Refuse, Take, GiveUp, Sleep, TimeOut, Leave, Again, callback
<1>8. ASSUME NEW t \in Threads, Handler(t) \/ Join(t) \/ Nothing(t) \/ Store(t)
      PROVE  Goal
  BY <1>8 DEF Handler, Join, Nothing, Store, callback
<1> QED
  BY <1>1, <1>2, <1>3, <1>4, <1>5, <1>6, <1>7, <1>8 DEF Next, Closing, Change, Caller

(* What callers sleep on changes in a step only if it wakes all of them.     *)
LEMMA CallersWoken ==
  ASSUME Typed, CountInv, [Next]_vars
  PROVE  \/ ~CallersSleep'
         \/ /\ CallersSleep' => CallersSleep
            /\ evt_queue' # <<>> => evt_queue # <<>>
            /\ reader' = "gone" => reader = "gone"
         \/ evt_queue' = <<>> /\ reader' # "gone"
<1> DEFINE Goal == \/ ~CallersSleep'
                   \/ /\ CallersSleep' => CallersSleep
                      /\ evt_queue' # <<>> => evt_queue # <<>>
                      /\ reader' = "gone" => reader = "gone"
                   \/ evt_queue' = <<>> /\ reader' # "gone"
<1>0. Owner \in Threads /\ Callers \subseteq Threads /\ Threads = Callers \cup {Owner}
      /\ (Calm => (CallersSleep' => CallersSleep))
  BY DEF Threads, Calm, CallersSleep
<1>1. CASE Dispatch
  <2>1. pc' \in {pc, WakeCallers(pc)} /\ reader' = reader
        /\ (pc' = WakeCallers(pc) \/ evt_queue' = evt_queue)
    BY <1>1 DEF Dispatch, handle
  <2> QED
    BY <1>0, <2>1, WokenAreCalm
<1>2. CASE ReaderWakes
  <2>1. pc' = WakeCallers(pc)
    BY <1>2 DEF ReaderWakes
  <2> QED
    BY <2>1, WokenAreCalm
<1>3. ASSUME NEW t \in Callers, Configure(t)
      PROVE  Goal
  <2>1. t \in Threads /\ pc' = [WakeCallers(pc) EXCEPT ![t] = "leaving"]
    BY <1>0, <1>3 DEF Configure
  <2>2. \A p \in {pc, WakeCallers(pc)} : p = WakeCallers(pc) /\ pc' = [p EXCEPT ![t] = "leaving"] => ~CallersSleep'
    BY <2>1, MovesAreCalm, ZenonT(30)
  <2>3. ~CallersSleep'
    BY <2>1, <2>2
  <2> QED
    BY <2>3
<1>4. CASE CloseQueue
  <2>1. reader' = reader /\ (evt_queue' = <<>> \/ evt_queue' = evt_queue)
    BY <1>4 DEF CloseQueue, handle, queue
  <2>2. Calm
    BY <1>4, OthersSettle DEF Closing
  <2> QED
    BY <1>0, <2>1, <2>2
<1>5. CASE CloseReader
  <2>1. refcount <= 0 /\ pc[Owner] = "counting" /\ Calm
    BY <1>5, OthersSettle DEF CloseReader, Closing
  <2>2. Busy = {}
    BY <2>1, NobodyBusy DEF CountInv
  <2>3. ~CallersSleep
    BY <1>0, <2>1, <2>2 DEF Busy, CallersSleep, Outside
  <2> QED
    BY <1>0, <2>1, <2>3
<1>6. ASSUME NEW t \in Callers, Sleep(t)
      PROVE  Goal
  <2>1. evt_queue' = <<>> /\ reader' = reader /\ readthread_done = 0
    BY <1>6 DEF Sleep, queue, handle, Check
  <2> QED
    BY <2>1 DEF CountInv, ErrorSeen
<1>7. ASSUME NEW t \in Callers, Take(t)
      PROVE  Goal
  <2>1. evt_queue # <<>> /\ reader' = reader /\ Calm
    BY <1>7, OthersSettle DEF Take, handle
  <2> QED
    BY <1>0, <2>1
<1>8. ASSUME NEW t \in Callers, (made[t] < Len(Calls[t]) /\ \E c \in Calls[t][made[t] + 1] : Begin(t, c))
                             \/ Leave(t) \/ Again(t)
      PROVE  Goal
  <2>1. Calm
    BY <1>8, AskedFor, CallsMove
  <2>2. reader' = reader /\ evt_queue' = evt_queue
    BY <1>8 DEF Begin, Leave, Again, queue, handle
  <2> QED
    BY <1>0, <2>1, <2>2
<1>9. CASE \/ ReaderDone \/ EventThread \/ Close
           \/ \E t \in Threads : Change(t)
           \/ \E t \in Callers : Refuse(t) \/ GiveUp(t) \/ TimeOut(t)
           \/ UNCHANGED vars
  <2>1. Calm
    BY <1>9, OthersSettle DEF Closing
  <2>2. evt_queue' = evt_queue /\ (reader' = "gone" => reader = "gone")
    BY <1>9 DEF ReaderDone, EventThread, Serve, ReadHandler, CallbackReturns, EventThreadSleeps,
      EventThreadEnds, Close,
      Refuse, GiveUp, TimeOut, Change, Handler, Quit, Join, Create, Nothing, Store, vars, queue, handle
  <2> QED
    BY <1>0, <2>1, <2>2
<1> QED
  BY <1>1, <1>2, <1>3, <1>4, <1>5, <1>6, <1>7, <1>8, <1>9 DEF Next, Closing, Caller

(* Nobody sleeps on an event that is queued, a callback thread that is to    *)
(* serve or to quit does not sleep, and nobody sleeps once the reading       *)
(* thread is gone (eth32_internal.c:117-214, 497-669, eth32.c:1669-1855):    *)
(* every path that changes what a waiter looks at broadcasts.                *)
THEOREM NobodySleepsOn == Spec => []NoLostWakeup
<1>1. Init => NoLostWakeup
  BY DEF Init, NoLostWakeup
<1>2. Typed /\ CountInv /\ NoLostWakeup /\ [Next]_vars => NoLostWakeup'
  <2> SUFFICES ASSUME Typed, CountInv, NoLostWakeup, [Next]_vars PROVE NoLostWakeup'
    OBVIOUS
  <2>1. /\ (evt_queue # <<>> => ~CallersSleep) /\ (reader = "gone" => ~CallersSleep)
        /\ (evt_callback_queue # <<>> \/ event_quitflag => eventthread # "waiting")
    BY DEF NoLostWakeup, CallersSleep
  <2>2. (evt_queue' # <<>> => ~CallersSleep') /\ (reader' = "gone" => ~CallersSleep')
    BY <2>1, CallersWoken
  <2>3. evt_callback_queue' # <<>> \/ event_quitflag' => eventthread' # "waiting"
    BY <2>1, EventThreadWoken, Zenon
  <2> QED
    BY <2>2, <2>3 DEF NoLostWakeup, CallersSleep
<1>3. Typed /\ CountInv /\ [Next]_vars => CountInv'
  BY CountStep
<1>4. QueueInv => Typed
  BY DEF QueueInv
<1> QED
  BY <1>1, <1>2, <1>3, <1>4, CountStart, AlwaysQueueInv, PTL DEF Spec

-----------------------------------------------------------------------------
(* What is left in the queue comes before the end of the connection          *)

ResultTyped == DOMAIN result = Threads

LEMMA OnlyResult ==
  ASSUME ResultTyped, NEW t \in Threads, NEW r, result' = [result EXCEPT ![t] = r]
  PROVE  ResultTyped' /\ result'[t] = r /\ \A u \in Threads : u # t => result'[u] = result[u]
BY DEF ResultTyped

(* The steps that give a call its result or take it away.                    *)
LEMMA ResultSteps ==
  ASSUME ResultTyped, NEW t \in Callers, Refuse(t) \/ Take(t) \/ GiveUp(t) \/ TimeOut(t) \/ Leave(t)
  PROVE  /\ ResultTyped'
         /\ \A u \in Threads : result'[u] = "ETH_NETWORK_ERROR" /\ result[u] # "ETH_NETWORK_ERROR" => evt_queue = <<>>
<1>0. t \in Threads
  BY DEF Threads
<1>1. CASE Refuse(t) \/ Take(t) \/ TimeOut(t) \/ Leave(t)
  <2>1. PICK r \in {"ETH_WRONG_MODE", "ETH_TIMEOUT", "event", "none"} : result' = [result EXCEPT ![t] = r]
    BY <1>1 DEF Refuse, Take, TimeOut, Leave, Return
  <2>2. ResultTyped' /\ result'[t] = r /\ \A u \in Threads : u # t => result'[u] = result[u]
    BY <1>0, <2>1, OnlyResult
  <2> QED
    BY <2>1, <2>2
<1>2. CASE GiveUp(t)
  <2>1. PICK r : result' = [result EXCEPT ![t] = r]
    BY <1>2 DEF GiveUp, Return
  <2>2. ResultTyped'
    BY <1>0, <2>1, OnlyResult
  <2> QED
    BY <1>2, <2>2 DEF GiveUp
<1> QED
  BY <1>1, <1>2

LEMMA ResultStep ==
  ASSUME ResultTyped, [Next]_vars
  PROVE  /\ ResultTyped'
         /\ \A u \in Threads : result'[u] = "ETH_NETWORK_ERROR" /\ result[u] # "ETH_NETWORK_ERROR" => evt_queue = <<>>
<1>1. CASE UNCHANGED result
  BY <1>1 DEF ResultTyped
<1>2. CASE \/ Dispatch \/ ReaderDone \/ ReaderWakes \/ EventThread \/ Closing \/ UNCHANGED vars
  <2>1. UNCHANGED result
    BY <1>2 DEF Dispatch, ReaderDone, ReaderWakes, EventThread, Serve, ReadHandler, CallbackReturns, EventThreadSleeps,
      EventThreadEnds, Closing, Close, CloseQueue, CloseReader, vars, callers
  <2> QED
    BY <1>1, <2>1
<1>3. ASSUME NEW t \in Threads, Change(t) PROVE UNCHANGED result
  BY <1>3 DEF Change, Handler, Quit, Join, Create, Nothing, Store
<1>4. ASSUME NEW t \in Callers, (\E c \in Calls[t][made[t] + 1] : Begin(t, c)) \/ Configure(t) \/ Sleep(t) \/ Again(t)
      PROVE  UNCHANGED result
  BY <1>4 DEF Begin, Configure, Sleep, Again
<1> QED
  BY <1>1, <1>2, <1>3, <1>4, ResultSteps DEF Next, Caller

(* Whoever is told that the network failed was told so with an empty queue   *)
(* (eth32.c:1752-1855): the action property LeftoversFirst.                  *)
THEOREM LeftoversComeFirst == Spec => LeftoversFirst
<1> DEFINE Told == \A t \in Threads :
                     result'[t] = "ETH_NETWORK_ERROR" /\ result[t] # "ETH_NETWORK_ERROR" => evt_queue = <<>>
<1>1. Init => ResultTyped
  BY DEF Init, ResultTyped
<1>2. ResultTyped /\ [Next]_vars => ResultTyped'
  BY ResultStep
<1>3. ResultTyped /\ [Next]_vars => [Told]_vars
  BY ResultStep
<1> QED
  BY <1>1, <1>2, <1>3, PTL DEF Spec, LeftoversFirst
=============================================================================
