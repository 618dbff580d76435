----------------------------- MODULE EthEvents -----------------------------
(* The way of an event from the reading thread of the ETH32 library to the   *)
(* application: the queue it polls, the queue and the thread of its          *)
(* callback, the changes of both configurations, and what eth32_close does   *)
(* to them.  An event is its number; EthEventTables says which ones arrive.  *)
(*                                                                           *)
(* evt_info_event guards both queues: a step is one section under it.  A     *)
(* broadcast on it wakes whoever sleeps at that moment.                      *)
EXTENDS Integers, Sequences, FiniteSets

CONSTANTS
  Callers,    \* threads of the application
  Owner,      \* the thread that closes the handle
  Calls,      \* bound: Calls[t][n] is what caller t may do as its n-th call
  MaxEvents,  \* bound: the events that arrive
  Functions,  \* callback functions; an extra value is named for the function it is meant for
  MayFail     \* whether a thread can fail to start

CALLBACK_DEFAULT == 1000
DISCARD_NEW == 0
DISCARD_OLD == 1
Threads == Callers \cup {Owner}

(* What a caller may ask for: a queue or a callback queue of some size, an   *)
(* event, and how long to wait for it, or a function to be called.           *)
Pointers == Functions \cup {"NULL"}
Requests ==
  {r \in [name : {"dequeue", "configure", "handler"}, size : Nat, fullqueue : {DISCARD_NEW, DISCARD_OLD},
          wait : {"none", "empty", "limited", "forever"}, type : {"none", "callback"},
          eventfn : Pointers, extra : Pointers] : r.type = "callback" => r.eventfn \in Functions}

ASSUME EventsAssumption ==
  /\ IsFiniteSet(Callers) /\ Owner \notin Callers /\ "free" \notin Threads
  /\ MaxEvents \in Nat /\ MayFail \in BOOLEAN /\ {"NULL", "unread"} \cap Functions = {}
  /\ Calls \in [Callers -> Seq(SUBSET Requests)]

VARIABLES
  evt_queue, evt_queue_size, evt_queue_fullqueue,   \* the application's queue
  event_handler,     \* type, maxqueue, fullqueue, eventfn, extra
  evt_callback_queue, event_quitflag,               \* the callback's queue and end
  eventthread,       \* where the event thread is
  eventthread_done,
  serving,           \* the event it has taken, 0 for none
  running,           \* the function it has read to call, and the extra value
  since,             \* what the handler named at some time since that event was taken
  changing,          \* holder of event_handler_change_mutex, or "free"
  reader,            \* where the reading thread is
  readthread_done, closing, refcount,
  pc, call, made, result,   \* of each thread
  arrived,           \* events so far
  taken,             \* the last one the application took
  born               \* the first one the present event thread may see

queue == <<evt_queue, evt_queue_size, evt_queue_fullqueue>>
served == <<serving, running, since, born>>
callback == <<evt_callback_queue, event_quitflag, eventthread, eventthread_done, served>>
handle == <<reader, readthread_done, closing>>
callers == <<pc, call, made, result>>
vars == <<queue, event_handler, callback, changing, handle, refcount, callers, arrived, taken>>

Handed(h) == [eventfn |-> h.eventfn, extra |-> h.extra]
Unread == [eventfn |-> "unread", extra |-> "unread"]
NoCall ==
  [name |-> "none", size |-> 0, fullqueue |-> DISCARD_NEW, wait |-> "none", type |-> "none",
   eventfn |-> "NULL", extra |-> "NULL"]

-----------------------------------------------------------------------------
Check(skipreadthread) ==
  IF ~skipreadthread /\ readthread_done # 0 THEN "ETH_NETWORK_ERROR"
  ELSE IF closing THEN "ETH_CLOSING" ELSE "ok"
Refcount(change) == IF closing THEN refcount ELSE refcount + change

WakeCallers(p) == [t \in Threads |-> IF p[t] = "waiting" THEN "woken" ELSE p[t]]
WakeEventThread == IF eventthread = "waiting" THEN "running" ELSE eventthread

(* Put an event into a queue of a given room, the oldest ones giving way if  *)
(* the queue is set so.                                                      *)
Trimmed(q, room) == IF Len(q) <= room THEN q ELSE SubSeq(q, Len(q) - room + 1, Len(q))
Put(q, event, size, fullqueue) ==
  LET kept == IF fullqueue = DISCARD_OLD THEN Trimmed(q, size - 1) ELSE q IN
  IF Len(kept) < size THEN Append(kept, event) ELSE kept

-----------------------------------------------------------------------------
(* eth32_dispatch_event, in the reading thread.                              *)
(* A mutant: whether to wake anyone is decided by the first queue alone.     *)
DispatchWakesForQueue ==
  /\ reader = "reading" /\ arrived < MaxEvents
  /\ arrived' = arrived + 1
  /\ LET event == arrived + 1
         handled == event_handler.type = "callback"
         queued == IF evt_queue_size = 0 THEN evt_queue ELSE Put(evt_queue, event, evt_queue_size, evt_queue_fullqueue)
         calls == IF ~handled THEN evt_callback_queue
                  ELSE Put(evt_callback_queue, event, event_handler.maxqueue, event_handler.fullqueue)
         added == queued # evt_queue IN
     /\ evt_queue' = queued /\ evt_callback_queue' = calls
     /\ pc' = IF added THEN WakeCallers(pc) ELSE pc
     /\ eventthread' = IF added THEN WakeEventThread ELSE eventthread
  /\ UNCHANGED <<evt_queue_size, evt_queue_fullqueue, event_handler, event_quitflag, eventthread_done, served,
                 changing, handle, refcount, call, made, result, taken>>
Dispatch ==
  /\ reader = "reading" /\ arrived < MaxEvents
  /\ arrived' = arrived + 1
  /\ LET event == arrived + 1
         handled == event_handler.type = "callback"
         queued == IF evt_queue_size = 0 THEN evt_queue ELSE Put(evt_queue, event, evt_queue_size, evt_queue_fullqueue)
         calls == IF ~handled THEN evt_callback_queue
                  ELSE Put(evt_callback_queue, event, event_handler.maxqueue, event_handler.fullqueue)
         added == queued # evt_queue \/ calls # evt_callback_queue IN
     /\ evt_queue' = queued /\ evt_callback_queue' = calls
     /\ pc' = IF added THEN WakeCallers(pc) ELSE pc
     /\ eventthread' = IF added THEN WakeEventThread ELSE eventthread
  /\ UNCHANGED <<evt_queue_size, evt_queue_fullqueue, event_handler, event_quitflag, eventthread_done, served,
                 changing, handle, refcount, call, made, result, taken>>

(* The reading thread stops when the network fails, and tells the waiters    *)
(* that no event will follow.                                                *)
ReaderDone ==
  /\ reader = "reading"
  /\ reader' = "waking" /\ readthread_done' = -1
  /\ UNCHANGED <<queue, event_handler, callback, changing, closing, refcount, callers, arrived, taken>>

ReaderWakes ==
  /\ reader = "waking"
  /\ reader' = "gone"
  /\ pc' = WakeCallers(pc) /\ eventthread' = WakeEventThread
  /\ UNCHANGED <<queue, event_handler, evt_callback_queue, event_quitflag, eventthread_done, served,
                 changing, readthread_done, closing, refcount, call, made, result, arrived, taken>>

-----------------------------------------------------------------------------
(* eth32_eventthread: it takes an event, and with nothing locked it reads    *)
(* the handler and calls it.  The compiler chooses which of the two          *)
(* arguments of the call it reads first.                                     *)
(* A mutant: the event stays in the queue while its callback runs.           *)
ServeKeeping ==
  /\ eventthread = "running" /\ ~event_quitflag /\ evt_callback_queue # <<>>
  /\ serving' = Head(evt_callback_queue) /\ since' = {Handed(event_handler)}
  /\ eventthread' = "reading"
  /\ UNCHANGED <<queue, event_handler, evt_callback_queue, event_quitflag, eventthread_done, running, born,
                 changing, handle, refcount, callers, arrived, taken>>
Serve ==
  /\ eventthread = "running" /\ ~event_quitflag /\ evt_callback_queue # <<>>
  /\ serving' = Head(evt_callback_queue) /\ since' = {Handed(event_handler)}
  /\ evt_callback_queue' = Tail(evt_callback_queue)
  /\ eventthread' = "reading"
  /\ UNCHANGED <<queue, event_handler, event_quitflag, eventthread_done, running, born, changing, handle,
                 refcount, callers, arrived, taken>>

ReadHandler ==
  /\ eventthread = "reading"
  /\ \E field \in {"eventfn", "extra"} :
       running[field] = "unread" /\ running' = [running EXCEPT ![field] = event_handler[field]]
  /\ eventthread' = IF "unread" \in {running'.eventfn, running'.extra} THEN "reading" ELSE "calling"
  /\ UNCHANGED <<queue, event_handler, evt_callback_queue, event_quitflag, eventthread_done, serving, since, born,
                 changing, handle, refcount, callers, arrived, taken>>

CallbackReturns ==
  /\ eventthread = "calling"
  /\ eventthread' = "running" /\ running' = Unread /\ since' = {}
  /\ UNCHANGED <<queue, event_handler, evt_callback_queue, event_quitflag, eventthread_done, serving, born,
                 changing, handle, refcount, callers, arrived, taken>>

EventThreadSleeps ==
  /\ eventthread = "running" /\ ~event_quitflag /\ evt_callback_queue = <<>>
  /\ eventthread' = "waiting"
  /\ UNCHANGED <<queue, event_handler, evt_callback_queue, event_quitflag, eventthread_done, served,
                 changing, handle, refcount, callers, arrived, taken>>

EventThreadEnds ==
  /\ eventthread = "running" /\ event_quitflag
  /\ eventthread' = "gone" /\ eventthread_done' = TRUE
  /\ UNCHANGED <<queue, event_handler, evt_callback_queue, event_quitflag, served, changing, handle,
                 refcount, callers, arrived, taken>>

-----------------------------------------------------------------------------
(* A call of the application holds a reference from its start to its end;    *)
(* EthConnection has the steps of taking it.                                 *)
Goto(t, label) == pc' = [pc EXCEPT ![t] = label]
Return(t, r) == Goto(t, "leaving") /\ result' = [result EXCEPT ![t] = r]

Begin(t, c) ==
  /\ pc[t] = "idle"
  /\ IF c.name = "dequeue" THEN ~closing ELSE Check(TRUE) = "ok"
  /\ made' = [made EXCEPT ![t] = @ + 1]
  /\ refcount' = Refcount(1)
  /\ call' = [call EXCEPT ![t] = c]
  /\ Goto(t, c.name)
  /\ UNCHANGED <<queue, event_handler, callback, changing, handle, result, arrived, taken>>

(* eth32_empty_event_queue dequeues until that fails: each time it lets its  *)
(* reference go and takes it again, which a close can refuse.                *)
Leave(t) ==
  /\ pc[t] = "leaving"
  /\ refcount' = Refcount(-1)
  /\ IF call[t].wait = "empty" /\ result[t] = "event"
     THEN Goto(t, "emptying") /\ UNCHANGED call
     ELSE Goto(t, "idle") /\ call' = [call EXCEPT ![t] = NoCall]
  /\ result' = [result EXCEPT ![t] = "none"]
  /\ UNCHANGED <<queue, event_handler, callback, changing, handle, made, arrived, taken>>

Again(t) ==
  /\ pc[t] = "emptying"
  /\ refcount' = Refcount(1)
  /\ IF closing
     THEN Goto(t, "idle") /\ call' = [call EXCEPT ![t] = NoCall]
     ELSE Goto(t, "dequeue") /\ UNCHANGED call
  /\ UNCHANGED <<queue, event_handler, callback, changing, handle, made, result, arrived, taken>>

(* eth32_set_event_queue_config.                                             *)
(* A mutant: the queue is not shortened to its new size.                     *)
ConfigureKeepingAll(t) ==
  /\ pc[t] = "configure"
  /\ evt_queue_size' = call[t].size /\ evt_queue_fullqueue' = call[t].fullqueue
  /\ pc' = [WakeCallers(pc) EXCEPT ![t] = "leaving"]
  /\ eventthread' = WakeEventThread
  /\ UNCHANGED <<evt_queue, event_handler, evt_callback_queue, event_quitflag, eventthread_done, served,
                 changing, handle, refcount, call, made, result, arrived, taken>>
Configure(t) ==
  /\ pc[t] = "configure"
  /\ evt_queue' = Trimmed(evt_queue, call[t].size)
  /\ evt_queue_size' = call[t].size /\ evt_queue_fullqueue' = call[t].fullqueue
  /\ pc' = [WakeCallers(pc) EXCEPT ![t] = "leaving"]
  /\ eventthread' = WakeEventThread
  /\ UNCHANGED <<event_handler, evt_callback_queue, event_quitflag, eventthread_done, served,
                 changing, handle, refcount, call, made, result, arrived, taken>>

(* eth32_dequeue_event: refusals, then the loop around the wait.             *)
Refuse(t) ==
  /\ pc[t] = "dequeue"
  /\ \/ evt_queue_size = 0 /\ Return(t, "ETH_WRONG_MODE")
     \/ evt_queue_size > 0 /\ evt_queue = <<>> /\ call[t].wait \in {"none", "empty"} /\ Return(t, "ETH_TIMEOUT")
  /\ UNCHANGED <<queue, event_handler, callback, changing, handle, refcount, call, made, arrived, taken>>

Looking(t) == \/ pc[t] = "woken"
              \/ /\ pc[t] = "dequeue" /\ evt_queue_size > 0
                 /\ evt_queue = <<>> => call[t].wait \notin {"none", "empty"}

(* A mutant: a dead connection is reported before what is left is handed out.*)
TakeWhileConnected(t) ==
  /\ Looking(t) /\ evt_queue # <<>>
  /\ IF Check(FALSE) = "ok"
     THEN evt_queue' = Tail(evt_queue) /\ taken' = Head(evt_queue) /\ Return(t, "event")
     ELSE Return(t, Check(FALSE)) /\ UNCHANGED <<evt_queue, taken>>
  /\ UNCHANGED <<evt_queue_size, evt_queue_fullqueue, event_handler, callback, changing, handle, refcount,
                 call, made, arrived>>
Take(t) ==
  /\ Looking(t) /\ evt_queue # <<>>
  /\ evt_queue' = Tail(evt_queue)
  /\ taken' = Head(evt_queue)
  /\ Return(t, "event")
  /\ UNCHANGED <<evt_queue_size, evt_queue_fullqueue, event_handler, callback, changing, handle, refcount,
                 call, made, arrived>>

GiveUp(t) ==
  /\ Looking(t) /\ evt_queue = <<>>
  /\ \/ evt_queue_size = 0 /\ Return(t, "ETH_WRONG_MODE")
     \/ evt_queue_size > 0 /\ Check(FALSE) # "ok" /\ Return(t, Check(FALSE))
  /\ UNCHANGED <<queue, event_handler, callback, changing, handle, refcount, call, made, arrived, taken>>

(* A caller woken after its time was up finds the time that is left wrapped  *)
(* around to weeks, and sleeps on as if it had no limit.                     *)
Sleep(t) ==
  /\ Looking(t) /\ evt_queue = <<>> /\ evt_queue_size > 0 /\ Check(FALSE) = "ok"
  /\ Goto(t, "waiting")
  /\ \/ UNCHANGED call
     \/ pc[t] = "woken" /\ call[t].wait = "limited" /\ call' = [call EXCEPT ![t].wait = "forever"]
  /\ UNCHANGED <<queue, event_handler, callback, changing, handle, refcount, made, result, arrived, taken>>

TimeOut(t) ==
  /\ pc[t] = "waiting" /\ call[t].wait = "limited"
  /\ Return(t, "ETH_TIMEOUT")
  /\ UNCHANGED <<queue, event_handler, callback, changing, handle, refcount, call, made, arrived, taken>>

-----------------------------------------------------------------------------
(* eth32_set_event_handler_int, also from eth32_close_int with no handler.   *)
New(t) ==
  [type |-> call[t].type, maxqueue |-> call[t].size, fullqueue |-> call[t].fullqueue,
   eventfn |-> call[t].eventfn, extra |-> call[t].extra]
Handler(t) ==
  /\ pc[t] = "handler" /\ changing = "free"
  /\ changing' = t
  /\ Goto(t, IF call[t].type = event_handler.type THEN "store"
             ELSE IF event_handler.type = "callback" THEN "quit" ELSE "create")
  /\ UNCHANGED <<queue, event_handler, callback, handle, refcount, call, made, result, arrived, taken>>

Quit(t) ==
  /\ pc[t] = "quit"
  /\ event_quitflag' = TRUE
  /\ pc' = [WakeCallers(pc) EXCEPT ![t] = "join"]
  /\ eventthread' = WakeEventThread
  /\ UNCHANGED <<queue, event_handler, evt_callback_queue, eventthread_done, served, changing, handle,
                 refcount, call, made, result, arrived, taken>>

(* A mutant: the end of the event thread is not waited for.                  *)
JoinAtOnce(t) ==
  /\ pc[t] = "join"
  /\ Goto(t, "create")
  /\ UNCHANGED <<queue, event_handler, callback, changing, handle, refcount, call, made, result, arrived, taken>>
Join(t) ==
  /\ pc[t] = "join" /\ eventthread_done /\ eventthread = "gone"
  /\ Goto(t, "create")
  /\ UNCHANGED <<queue, event_handler, callback, changing, handle, refcount, call, made, result, arrived, taken>>

(* A mutant: what the last event thread left in the queue stays there.       *)
CreateKeepingQueue(t) ==
  /\ pc[t] = "create" /\ call[t].type = "callback"
  /\ eventthread_done' = FALSE /\ event_quitflag' = FALSE
  /\ eventthread' = "running" /\ serving' = 0 /\ born' = arrived + 1
  /\ Goto(t, "store")
  /\ UNCHANGED <<queue, event_handler, evt_callback_queue, running, since, changing, handle, refcount, call, made,
                 result, arrived, taken>>
Create(t) ==
  /\ pc[t] = "create" /\ call[t].type = "callback"
  /\ evt_callback_queue' = <<>>
  /\ eventthread_done' = FALSE /\ event_quitflag' = FALSE
  /\ \/ eventthread' = "running" /\ serving' = 0 /\ born' = arrived + 1 /\ UNCHANGED call
     \/ MayFail /\ call' = [call EXCEPT ![t].type = "failed"] /\ UNCHANGED <<eventthread, serving, born>>
  /\ Goto(t, "store")
  /\ UNCHANGED <<queue, event_handler, running, since, changing, handle, refcount, made, result, arrived, taken>>

Nothing(t) ==
  /\ pc[t] = "create" /\ call[t].type # "callback"
  /\ Goto(t, "store")
  /\ UNCHANGED <<queue, event_handler, callback, changing, handle, refcount, call, made, result, arrived, taken>>

Store(t) ==
  /\ pc[t] = "store"
  /\ event_handler' = IF call[t].type = "failed" THEN [event_handler EXCEPT !.type = "none"] ELSE New(t)
  /\ since' = IF eventthread = "reading" THEN since \cup {Handed(event_handler')} ELSE since
  /\ changing' = "free"
  /\ Goto(t, IF t = Owner THEN "unqueue" ELSE "leaving")
  /\ UNCHANGED <<queue, evt_callback_queue, event_quitflag, eventthread, eventthread_done, serving, running, born,
                 handle, refcount, call, made, result, arrived, taken>>

-----------------------------------------------------------------------------
(* eth32_close_int: closing, no handler, a queue of size zero, no callers.   *)
Close ==
  /\ pc[Owner] = "idle"
  /\ closing' = TRUE
  /\ Goto(Owner, "handler")
  /\ UNCHANGED <<queue, event_handler, callback, changing, reader, readthread_done, refcount, call, made, result,
                 arrived, taken>>

(* eth32_set_event_queue_config(handle, 0, 0) meets its own status check.    *)
CloseQueue ==
  /\ pc[Owner] = "unqueue"
  /\ IF Check(TRUE) = "ok"
     THEN /\ evt_queue' = <<>> /\ evt_queue_size' = 0 /\ evt_queue_fullqueue' = DISCARD_NEW
          /\ pc' = [WakeCallers(pc) EXCEPT ![Owner] = "counting"] /\ eventthread' = WakeEventThread
     ELSE Goto(Owner, "counting") /\ UNCHANGED <<queue, eventthread>>
  /\ UNCHANGED <<event_handler, evt_callback_queue, event_quitflag, eventthread_done, served, changing,
                 handle, refcount, call, made, result, arrived, taken>>

CloseReader ==
  /\ pc[Owner] = "counting" /\ refcount <= 0
  /\ Goto(Owner, "closed")
  /\ reader' = "gone" /\ readthread_done' = IF readthread_done = 0 THEN 1 ELSE readthread_done
  /\ UNCHANGED <<queue, event_handler, callback, changing, closing, refcount, call, made, result, arrived, taken>>

-----------------------------------------------------------------------------
Init ==
  /\ evt_queue = <<>> /\ evt_queue_size = 0 /\ evt_queue_fullqueue = DISCARD_NEW
  /\ event_handler = [type |-> "none", maxqueue |-> CALLBACK_DEFAULT, fullqueue |-> DISCARD_NEW,
                       eventfn |-> "NULL", extra |-> "NULL"]
  /\ evt_callback_queue = <<>> /\ event_quitflag = FALSE
  /\ eventthread = "none" /\ eventthread_done = FALSE
  /\ serving = 0 /\ running = Unread /\ since = {} /\ born = 1
  /\ changing = "free" /\ reader = "reading" /\ readthread_done = 0 /\ closing = FALSE /\ refcount = 0
  /\ pc = [t \in Threads |-> "idle"] /\ call = [t \in Threads |-> NoCall]
  /\ made = [t \in Threads |-> 0] /\ result = [t \in Threads |-> "none"]
  /\ arrived = 0 /\ taken = 0

EventThread == Serve \/ ReadHandler \/ CallbackReturns \/ EventThreadSleeps \/ EventThreadEnds
Change(t) == Handler(t) \/ Quit(t) \/ Join(t) \/ Create(t) \/ Nothing(t) \/ Store(t)
Caller(t) == \/ made[t] < Len(Calls[t]) /\ \E c \in Calls[t][made[t] + 1] : Begin(t, c)
             \/ Configure(t) \/ Refuse(t) \/ Take(t) \/ GiveUp(t) \/ Sleep(t) \/ TimeOut(t) \/ Leave(t)
             \/ Again(t)
Closing == Close \/ CloseQueue \/ CloseReader
Next == \/ Dispatch \/ ReaderDone \/ ReaderWakes \/ EventThread \/ Closing
        \/ \E t \in Callers : Caller(t)
        \/ \E t \in Threads : Change(t)

(* Threads run, waits with a limit end, and so do the application's          *)
(* callbacks; a mutex goes to every thread that keeps asking.                *)
Fairness ==
  /\ WF_vars(ReaderWakes) /\ WF_vars(EventThread) /\ WF_vars(CloseQueue) /\ WF_vars(CloseReader)
  /\ \A t \in Threads : SF_vars(Handler(t)) /\ WF_vars(Quit(t) \/ Join(t) \/ Create(t) \/ Nothing(t) \/ Store(t))
  /\ \A t \in Callers : WF_vars(Configure(t) \/ Refuse(t) \/ Take(t) \/ GiveUp(t) \/ Sleep(t) \/ TimeOut(t) \/ Leave(t)
                                \/ Again(t))
Spec == Init /\ [][Next]_vars
FairSpec == Spec /\ Fairness

-----------------------------------------------------------------------------
(* The application's queue never holds more than it is set to hold, also     *)
(* when it is set smaller while it is full.                                  *)
QueueBounded == Len(evt_queue) <= evt_queue_size

(* Both queues hold events in the order they arrived, each of them later     *)
(* than the last one handed out: nothing is delivered twice or overtaken.    *)
Ordered(q, after) ==
  /\ \A i \in DOMAIN q : after < q[i] /\ q[i] <= arrived
  /\ \A i, j \in DOMAIN q : i < j => q[i] < q[j]
EventsInOrder == Ordered(evt_queue, taken) /\ Ordered(evt_callback_queue, serving)

(* A callback runs only while some callback is the handler, and once a       *)
(* change to no handler has returned none runs again.  A change from one     *)
(* callback to another waits for nobody: what runs then is a function, with  *)
(* an extra value, that the handler named at some time since the event was   *)
(* taken, so that a replaced one runs for the event at hand and for no more. *)
CallbackOnlyWhileSet ==
  /\ eventthread \in {"reading", "calling"} => event_handler.type = "callback"
  /\ event_handler.type # "callback" /\ changing = "free" => eventthread \in {"none", "gone"}
  /\ eventthread = "calling" =>
       /\ running.eventfn \in {h.eventfn : h \in since} \cap Functions
       /\ running.extra \in {h.extra : h \in since}

(* A function is called with the extra value that was set with it: "extra    *)
(* user-defined value to be passed to the callback whenever it is called".   *)
CallbackGetsItsExtra == eventthread = "calling" => running \in since

(* A callback that is set where there was none sees no event from before:    *)
(* what an earlier one left in the queue is gone.  One that replaces another *)
(* takes over the queue and the thread of that one, with the events in them. *)
FreshCallbacks ==
  eventthread \notin {"none", "gone"} =>
    /\ \A i \in DOMAIN evt_callback_queue : evt_callback_queue[i] >= born
    /\ serving # 0 => serving >= born

(* Nobody sleeps on what is already there: no caller while an event is       *)
(* queued, not the event thread while it has an event to serve or is to      *)
(* quit, and no caller after the reading thread has said its last word.      *)
NoLostWakeup ==
  /\ evt_queue # <<>> => \A t \in Threads : pc[t] # "waiting"
  /\ evt_callback_queue # <<>> \/ event_quitflag => eventthread # "waiting"
  /\ reader = "gone" => \A t \in Threads : pc[t] # "waiting"

(* A caller is told that the network failed only when nothing is left to     *)
(* take: events that arrived in time outlive the connection.                 *)
LeftoversFirst ==
  [][\A t \in Threads : result'[t] = "ETH_NETWORK_ERROR" /\ result[t] # "ETH_NETWORK_ERROR" => evt_queue = <<>>]_vars

(* A close does not leave a caller of eth32_dequeue_event asleep: it is to   *)
(* "cause any users who are waiting on an event_dequeue to exit".            *)
DequeueEndsOnClose == \A t \in Callers : (pc[t] = "waiting" /\ closing) ~> pc[t] # "waiting"
=============================================================================
