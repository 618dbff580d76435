--------------------------- MODULE EthConnection ---------------------------
(* One connection of the ETH32 library from eth32_open to eth32_close: the   *)
(* resources its handle owns, the references that calls hold on it, the       *)
(* query and reply protocol its callers and its reading thread run over one  *)
(* socket, and the shutdown of all of it.                                    *)
(*                                                                           *)
(* A section of code under one lock is one step; whatever happens between    *)
(* two locks, or between a test and the lock after it, is two.  What the     *)
(* calls ask is EthCommands; here a query is only who asked it.              *)
EXTENDS Integers, Sequences, SequencesExt, FiniteSets, Lists

CONSTANTS
  Callers,     \* threads of the application
  CallsEach,   \* bound: the calls each of them makes
  WireBound,   \* bound: queries the socket takes before the device reads
  Timeouts     \* values for eth32_set_timeout, 0 for no limit

ASSUME ConnectionAssumption ==
  /\ IsFiniteSet(Callers) /\ "free" \notin Callers
  /\ CallsEach \in [Callers -> Nat] /\ WireBound \in Nat /\ Timeouts \subseteq Nat

VARIABLES
  stage,            \* what the owner of the handle is doing with it
  step,             \* how far it is in acquiring or in releasing
  owned,            \* resources initialised and not yet destroyed
  closing,          \* handle->closing
  quitflag,         \* handle->quitflag
  refcount,         \* handle->refcount
  timeout,          \* handle->timeout
  sequence,         \* handle->sequence
  sequence_mutex,   \* the caller inside the mutex, or "free"
  queries_replies,  \* the list of nodes, oldest first
  reader,           \* where the reading thread is
  readthread_done,  \* 0, 1, or the error it stopped with
  toDevice,         \* queries the device has not read
  fromDevice,       \* replies the reading thread has not read
  alive,            \* whether the network carries anything
  pc, calls, limited, query, result   \* of each caller

handle == <<stage, step, owned, closing, quitflag>>
wire == <<toDevice, fromDevice, alive>>
thread == <<reader, readthread_done>>
callers == <<pc, calls, limited, query, result>>
vars == <<handle, refcount, timeout, sequence, sequence_mutex, queries_replies, thread, wire, callers>>

TIMEOUT_DEFAULT == 10000
SEQUENCES == 256      \* sequence is an unsigned char
NoQuery == [sequence |-> 0, asks |-> <<>>]
NoResult == [error |-> "none", reply |-> <<>>]

-----------------------------------------------------------------------------
(* eth32_open acquires in this order, and a failure jumps to the label that  *)
(* releases what came before, newest first.                                  *)
Acquired ==
  <<"memory", "refcount_event", "doneflags_event", "queries_replies", "replies_event", "timeout_mutex",
    "evt_queue", "event_handler_change_mutex", "evt_info_event", "evt_callback_queue", "sequence_mutex",
    "socket", "reader", "table">>
Resources == Range(Acquired)

Labels ==
  <<"socket", "sequence_mutex", "evt_callback_queue", "evt_info_event", "event_handler_change_mutex",
    "evt_queue", "timeout_mutex", "replies_event", "queries_replies", "doneflags_event",
    "refcount_event", "memory">>

(* The first label to run when acquiring r fails.                            *)
(* A mutant: the events' condition is taken for initialised when it is not.  *)
ErrorLabelLate(r) ==
  [doneflags_event |-> 11, queries_replies |-> 10, replies_event |-> 9, timeout_mutex |-> 8,
   evt_queue |-> 7, event_handler_change_mutex |-> 6, evt_info_event |-> 4, evt_callback_queue |-> 4,
   sequence_mutex |-> 3, socket |-> 2, reader |-> 1, refcount_event |-> 12, memory |-> 13][r]
ErrorLabel(r) ==
  [doneflags_event |-> 11, queries_replies |-> 10, replies_event |-> 9, timeout_mutex |-> 8,
   evt_queue |-> 7, event_handler_change_mutex |-> 6, evt_info_event |-> 5, evt_callback_queue |-> 4,
   sequence_mutex |-> 3, socket |-> 2, reader |-> 1, refcount_event |-> 12, memory |-> 13][r]

(* eth32_close_int releases in this order, once the thread is gone.          *)
Closed ==
  <<"reader", "socket", "refcount_event", "doneflags_event", "replies_event", "timeout_mutex",
    "evt_info_event", "event_handler_change_mutex", "sequence_mutex", "queries_replies", "evt_queue",
    "evt_callback_queue", "table", "memory">>

(* What the owner still has to release.                                      *)
ToRelease == IF stage = "unwinding" THEN Range(SubSeq(Labels, step, Len(Labels)))
             ELSE Range(SubSeq(Closed, step, Len(Closed)))

-----------------------------------------------------------------------------
Node(t) == [caller |-> t, sequence |-> query[t].sequence, received |-> FALSE, abandoned |-> FALSE, reply |-> <<>>]
Mine(t) == CHOOSE i \in DOMAIN queries_replies :
             queries_replies[i].caller = t /\ ~queries_replies[i].abandoned

(* eth32_check: a dead reading thread comes before a handle being closed.    *)
Check(skipreadthread) ==
  IF ~skipreadthread /\ readthread_done # 0 THEN "ETH_NETWORK_ERROR"
  ELSE IF closing THEN "ETH_CLOSING" ELSE "ok"

(* A broadcast wakes whoever sleeps; a thread about to sleep misses it.      *)
Broadcast(p) == [t \in Callers |-> IF p[t] = "waiting" THEN "woken" ELSE p[t]]

(* The reference of a call outlives the call when it ends after closing was  *)
(* set: eth32_refcount then changes nothing, in either direction.            *)
Refcount(change) == IF closing THEN refcount ELSE refcount + change

-----------------------------------------------------------------------------
(* eth32_open.                                                               *)
Acquire ==
  /\ stage = "opening"
  /\ owned' = owned \cup {Acquired[step]}
  /\ step' = step + 1
  /\ stage' = IF step = Len(Acquired) THEN "open" ELSE "opening"
  /\ timeout' = IF Acquired[step] = "socket" THEN TIMEOUT_DEFAULT ELSE timeout
  /\ reader' = IF Acquired[step] = "reader" THEN "reading" ELSE reader
  /\ UNCHANGED <<closing, quitflag, refcount, sequence, sequence_mutex, queries_replies, readthread_done,
                 wire, callers>>

AcquireFails ==
  /\ stage = "opening" /\ Acquired[step] # "table"
  /\ step' = ErrorLabel(Acquired[step])
  /\ stage' = IF step' > Len(Labels) THEN "failed" ELSE "unwinding"
  /\ UNCHANGED <<owned, closing, quitflag, refcount, timeout, sequence, sequence_mutex, queries_replies,
                 thread, wire, callers>>

Unwind ==
  /\ stage = "unwinding"
  /\ owned' = owned \ {Labels[step]}
  /\ step' = step + 1
  /\ stage' = IF step = Len(Labels) THEN "failed" ELSE "unwinding"
  /\ UNCHANGED <<closing, quitflag, refcount, timeout, sequence, sequence_mutex, queries_replies,
                 thread, wire, callers>>

-----------------------------------------------------------------------------
(* A public call: the status check, the reference, then either a query with  *)
(* the timeout of that moment or the change of the timeout, which does not   *)
(* need the reading thread.                                                  *)
Begin(t) ==
  /\ pc[t] = "idle" /\ calls[t] < CallsEach[t]
  /\ stage \in {"open", "closing", "stopping"}
  /\ calls' = [calls EXCEPT ![t] = @ + 1]
  /\ \/ pc' = [pc EXCEPT ![t] = IF Check(FALSE) = "ok" THEN "admitted" ELSE "idle"]
     \/ /\ Timeouts # {}
        /\ pc' = [pc EXCEPT ![t] = IF Check(TRUE) = "ok" THEN "setting" ELSE "idle"]
  /\ UNCHANGED <<handle, refcount, timeout, sequence, sequence_mutex, queries_replies, thread, wire,
                 limited, query, result>>

Reference(t) ==
  /\ pc[t] \in {"admitted", "setting"} /\ "refcount_event" \in owned
  /\ refcount' = Refcount(1)
  /\ pc' = [pc EXCEPT ![t] = IF closing THEN "idle" ELSE IF @ = "setting" THEN "timing" ELSE "referenced"]
  /\ UNCHANGED <<handle, timeout, sequence, sequence_mutex, queries_replies, thread, wire,
                 calls, limited, query, result>>

SetTimeout(t) ==
  /\ pc[t] = "timing"
  /\ \E ms \in Timeouts : timeout' = ms
  /\ pc' = [pc EXCEPT ![t] = "leaving"]
  /\ UNCHANGED <<handle, refcount, sequence, sequence_mutex, queries_replies, thread, wire,
                 calls, limited, query, result>>

(* eth32_get_timeout takes a second reference; refused, it leaves the local  *)
(* variable as it was, and the caller does not look at its result.           *)
AskTimeout(t) ==
  /\ pc[t] = "referenced"
  /\ refcount' = Refcount(1)
  /\ IF closing
     THEN /\ \E b \in BOOLEAN : limited' = [limited EXCEPT ![t] = b]
          /\ pc' = [pc EXCEPT ![t] = "queueing"]
     ELSE /\ pc' = [pc EXCEPT ![t] = "asking"]
          /\ UNCHANGED limited
  /\ UNCHANGED <<handle, timeout, sequence, sequence_mutex, queries_replies, thread, wire,
                 calls, query, result>>

GetTimeout(t) ==
  /\ pc[t] = "asking"
  /\ limited' = [limited EXCEPT ![t] = timeout # 0]
  /\ refcount' = Refcount(-1)
  /\ pc' = [pc EXCEPT ![t] = "queueing"]
  /\ UNCHANGED <<handle, timeout, sequence, sequence_mutex, queries_replies, thread, wire,
                 calls, query, result>>

Leave(t) ==
  /\ pc[t] = "leaving"
  /\ refcount' = Refcount(-1)
  /\ pc' = [pc EXCEPT ![t] = "idle"]
  /\ result' = [result EXCEPT ![t] = NoResult]
  /\ limited' = [limited EXCEPT ![t] = FALSE]
  /\ query' = [query EXCEPT ![t] = NoQuery]
  /\ UNCHANGED <<handle, timeout, sequence, sequence_mutex, queries_replies, thread, wire, calls>>

-----------------------------------------------------------------------------
(* eth32_query_reply, with eth32_write_data as its second step.              *)
TakeSequence(t) ==
  /\ pc[t] = "queueing" /\ sequence_mutex = "free"
  /\ sequence_mutex' = t
  /\ query' = [query EXCEPT ![t] = [sequence |-> sequence, asks |-> <<t, calls[t]>>]]
  /\ sequence' = (sequence + 1) % SEQUENCES
  /\ pc' = [pc EXCEPT ![t] = "sending"]
  /\ UNCHANGED <<handle, refcount, timeout, queries_replies, thread, wire, calls, limited, result>>

Fail(t, error) ==
  /\ result' = [result EXCEPT ![t].error = error]
  /\ pc' = [pc EXCEPT ![t] = "leaving"]

NoSequence(t) ==
  /\ pc[t] = "queueing" /\ sequence_mutex # "free" /\ limited[t]
  /\ Fail(t, "ETH_TIMEOUT")
  /\ UNCHANGED <<handle, refcount, timeout, sequence, sequence_mutex, queries_replies, thread, wire,
                 calls, limited, query>>

(* A mutant: the sequence mutex is released as soon as the query is out.     *)
SendAndRelease(t) ==
  /\ pc[t] = "sending" /\ Check(FALSE) = "ok"
  /\ \/ Len(toDevice) < WireBound
        /\ toDevice' = Append(toDevice, query[t])
     \/ ~alive /\ UNCHANGED toDevice
  /\ pc' = [pc EXCEPT ![t] = "sent"]
  /\ sequence_mutex' = "free"
  /\ UNCHANGED <<handle, refcount, timeout, sequence, queries_replies, thread, fromDevice, alive,
                 calls, limited, query, result>>
Send(t) ==
  /\ pc[t] = "sending" /\ Check(FALSE) = "ok"
  /\ \/ Len(toDevice) < WireBound
        /\ toDevice' = Append(toDevice, query[t])
     \/ ~alive /\ UNCHANGED toDevice
  /\ pc' = [pc EXCEPT ![t] = "sent"]
  /\ UNCHANGED <<handle, refcount, timeout, sequence, sequence_mutex, queries_replies, thread,
                 fromDevice, alive, calls, limited, query, result>>

SendFails(t) ==
  /\ pc[t] = "sending"
  /\ \/ Check(FALSE) # "ok" /\ Fail(t, Check(FALSE))
     \/ Check(FALSE) = "ok" /\ ~alive /\ Fail(t, "ETH_NETWORK_ERROR")
     \/ Check(FALSE) = "ok" /\ limited[t] /\ Len(toDevice) >= WireBound /\ Fail(t, "ETH_TIMEOUT")
  /\ sequence_mutex' = "free"
  /\ UNCHANGED <<handle, refcount, timeout, sequence, queries_replies, thread, wire,
                 calls, limited, query>>

(* The list is locked before the sequence mutex is released, and the lock is *)
(* given up by going to sleep.                                               *)
AppendNode(t) ==
  /\ pc[t] = "sent"
  /\ queries_replies' = Append(queries_replies, Node(t))
  /\ sequence_mutex' = IF sequence_mutex = t THEN "free" ELSE sequence_mutex
  /\ pc' = [pc EXCEPT ![t] = "waiting"]
  /\ UNCHANGED <<handle, refcount, timeout, sequence, thread, wire, calls, limited, query, result>>

TimeOut(t) ==
  /\ pc[t] = "waiting" /\ limited[t]
  /\ pc' = [pc EXCEPT ![t] = "late"]
  /\ UNCHANGED <<handle, refcount, timeout, sequence, sequence_mutex, queries_replies, thread, wire,
                 calls, limited, query, result>>

(* Awake with the list locked again: a reply that is there counts, however   *)
(* the wait ended; a node given up stays in the list, marked. When another's *)
(* reply wakes a thread that runs only after its own deadline, the time left *)
(* is an unsigned number below zero, and it waits again as if for ever.      *)
(* A mutant: a wait that timed out is believed.                              *)
RecheckTimeoutFirst(t) ==
  /\ pc[t] \in {"woken", "late"}
  /\ LET i == Mine(t)  node == queries_replies[i]  error == IF pc[t] = "late" THEN "ETH_TIMEOUT" ELSE Check(FALSE) IN
     \/ /\ node.received /\ pc[t] # "late"
        /\ result' = [result EXCEPT ![t].reply = node.reply]
        /\ pc' = [pc EXCEPT ![t] = "leaving"]
        /\ queries_replies' = RemoveAt(queries_replies, i)
        /\ UNCHANGED limited
     \/ /\ ~(node.received /\ pc[t] # "late") /\ error # "ok"
        /\ Fail(t, error)
        /\ queries_replies' = [queries_replies EXCEPT ![i].abandoned = TRUE]
        /\ UNCHANGED limited
     \/ /\ ~node.received /\ error = "ok"
        /\ pc' = [pc EXCEPT ![t] = "waiting"]
        /\ limited' \in {limited, [limited EXCEPT ![t] = FALSE]}
        /\ UNCHANGED <<result, queries_replies>>
  /\ UNCHANGED <<handle, refcount, timeout, sequence, sequence_mutex, thread, wire, calls, query>>
Recheck(t) ==
  /\ pc[t] \in {"woken", "late"}
  /\ LET i == Mine(t)  node == queries_replies[i]  error == IF pc[t] = "late" THEN "ETH_TIMEOUT" ELSE Check(FALSE) IN
     \/ /\ node.received
        /\ result' = [result EXCEPT ![t].reply = node.reply]
        /\ pc' = [pc EXCEPT ![t] = "leaving"]
        /\ queries_replies' = RemoveAt(queries_replies, i)
        /\ UNCHANGED limited
     \/ /\ ~node.received /\ error # "ok"
        /\ Fail(t, error)
        /\ queries_replies' = [queries_replies EXCEPT ![i].abandoned = TRUE]
        /\ UNCHANGED limited
     \/ /\ ~node.received /\ error = "ok"
        /\ pc' = [pc EXCEPT ![t] = "waiting"]
        /\ limited' \in {limited, [limited EXCEPT ![t] = FALSE]}
        /\ UNCHANGED <<result, queries_replies>>
  /\ UNCHANGED <<handle, refcount, timeout, sequence, sequence_mutex, thread, wire, calls, query>>

-----------------------------------------------------------------------------
(* The device answers what it reads, in that order, repeating the sequence.  *)
Answer ==
  /\ alive /\ toDevice # <<>>
  /\ fromDevice' = Append(fromDevice, Head(toDevice))
  /\ toDevice' = Tail(toDevice)
  /\ UNCHANGED <<handle, refcount, timeout, sequence, sequence_mutex, queries_replies, thread, alive, callers>>

Disconnect ==
  /\ alive /\ "socket" \in owned
  /\ alive' = FALSE
  /\ UNCHANGED <<handle, refcount, timeout, sequence, sequence_mutex, queries_replies, thread,
                 toDevice, fromDevice, callers>>

(* The node a reply belongs to: the oldest one still open that it matches.   *)
Matches(reply) == {i \in DOMAIN queries_replies :
                     ~queries_replies[i].received /\ queries_replies[i].sequence = reply.sequence}
(* A mutant: replies go to the oldest node still open.                       *)
MatchFirst(reply) == LET open == {i \in DOMAIN queries_replies : ~queries_replies[i].received} IN
                     IF open = {} THEN 0 ELSE CHOOSE i \in open : \A j \in open : i <= j
Match(reply) == IF Matches(reply) = {} THEN 0
                ELSE CHOOSE i \in Matches(reply) : \A j \in Matches(reply) : i <= j

(* eth32_process_incoming: nodes given up go when their own reply, or one to *)
(* a younger node, arrives; a reply that matches nothing is dropped.         *)
Received(i, reply) == [queries_replies EXCEPT ![i].received = TRUE, ![i].reply = reply.asks]
Purged(list, i) ==
  Kept(list, {k \in DOMAIN list : k > i \/ ~list[k].abandoned \/ (k < i /\ list[k].received)})
(* A mutant: the reply is stored and nobody is woken.                        *)
ProcessIncomingSilent(reply) ==
  LET i == Match(reply) IN
  IF i = 0 THEN UNCHANGED <<queries_replies, pc>>
  ELSE queries_replies' = Purged(Received(i, reply), i) /\ UNCHANGED pc
ProcessIncoming(reply) ==
  LET i == Match(reply) IN
  IF i = 0 THEN UNCHANGED <<queries_replies, pc>>
  ELSE /\ queries_replies' = Purged(Received(i, reply), i)
       /\ pc' = IF queries_replies[i].abandoned THEN pc ELSE Broadcast(pc)

Receive ==
  /\ reader = "reading" /\ ~quitflag /\ fromDevice # <<>>
  /\ ProcessIncoming(Head(fromDevice))
  /\ fromDevice' = Tail(fromDevice)
  /\ UNCHANGED <<handle, refcount, timeout, sequence, sequence_mutex, thread, toDevice, alive,
                 calls, limited, query, result>>

(* The reading thread stops on a network error or because it is told to, and *)
(* says so first to whoever waits for its end, then to whoever waits for     *)
(* replies.                                                                  *)
ReaderEnds ==
  /\ reader = "reading"
  /\ \/ ~quitflag /\ ~alive /\ reader' = "failing"
     \/ quitflag /\ reader' = "stopping"
  /\ UNCHANGED <<handle, refcount, timeout, sequence, sequence_mutex, queries_replies, readthread_done,
                 wire, callers>>

(* A mutant: a thread that fails leaves without saying so.                   *)
ReaderDoneUnlessFailing ==
  /\ reader \in {"failing", "stopping"}
  /\ readthread_done' = IF reader = "failing" THEN 0 ELSE 1
  /\ reader' = "waking"
  /\ UNCHANGED <<handle, refcount, timeout, sequence, sequence_mutex, queries_replies, wire, callers>>
ReaderDone ==
  /\ reader \in {"failing", "stopping"}
  /\ readthread_done' = IF reader = "failing" THEN -1 ELSE 1
  /\ reader' = "waking"
  /\ UNCHANGED <<handle, refcount, timeout, sequence, sequence_mutex, queries_replies, wire, callers>>

ReaderWakes ==
  /\ reader = "waking"
  /\ reader' = "gone"
  /\ pc' = Broadcast(pc)
  /\ UNCHANGED <<handle, refcount, timeout, sequence, sequence_mutex, queries_replies, readthread_done,
                 wire, calls, limited, query, result>>

-----------------------------------------------------------------------------
(* eth32_close_int: the flag, the wait for the calls, the end of the reading *)
(* thread, and the release of everything.                                    *)
Close ==
  /\ stage = "open"
  /\ stage' = "closing"
  /\ closing' = TRUE
  /\ UNCHANGED <<step, owned, quitflag, refcount, timeout, sequence, sequence_mutex, queries_replies,
                 thread, wire, callers>>

(* A mutant: the calls under way are not waited for.                         *)
StopReaderAtOnce ==
  /\ stage = "closing"
  /\ stage' = "stopping"
  /\ quitflag' = TRUE
  /\ UNCHANGED <<step, owned, closing, refcount, timeout, sequence, sequence_mutex, queries_replies,
                 thread, wire, callers>>
StopReader ==
  /\ stage = "closing" /\ refcount <= 0
  /\ stage' = "stopping"
  /\ quitflag' = TRUE
  /\ UNCHANGED <<step, owned, closing, refcount, timeout, sequence, sequence_mutex, queries_replies,
                 thread, wire, callers>>

JoinReader ==
  /\ stage = "stopping" /\ readthread_done # 0 /\ reader = "gone"
  /\ stage' = "releasing"
  /\ step' = 1
  /\ UNCHANGED <<owned, closing, quitflag, refcount, timeout, sequence, sequence_mutex, queries_replies,
                 thread, wire, callers>>

Release ==
  /\ stage = "releasing"
  /\ owned' = owned \ {Closed[step]}
  /\ step' = step + 1
  /\ stage' = IF step = Len(Closed) THEN "closed" ELSE "releasing"
  /\ UNCHANGED <<closing, quitflag, refcount, timeout, sequence, sequence_mutex, queries_replies,
                 thread, wire, callers>>

-----------------------------------------------------------------------------
Init ==
  /\ stage = "opening" /\ step = 1 /\ owned = {} /\ closing = FALSE /\ quitflag = FALSE
  /\ refcount = 0 /\ timeout = 0 /\ sequence = 0 /\ sequence_mutex = "free" /\ queries_replies = <<>>
  /\ reader = "none" /\ readthread_done = 0
  /\ toDevice = <<>> /\ fromDevice = <<>> /\ alive = TRUE
  /\ pc = [t \in Callers |-> "idle"] /\ calls = [t \in Callers |-> 0]
  /\ limited = [t \in Callers |-> FALSE] /\ query = [t \in Callers |-> NoQuery]
  /\ result = [t \in Callers |-> NoResult]

Owner == Acquire \/ AcquireFails \/ Unwind \/ Close \/ StopReader \/ JoinReader \/ Release
Reader == Receive \/ ReaderEnds \/ ReaderDone \/ ReaderWakes
Caller(t) == Begin(t) \/ Reference(t) \/ SetTimeout(t) \/ AskTimeout(t) \/ GetTimeout(t) \/ TakeSequence(t)
             \/ NoSequence(t) \/ Send(t) \/ SendFails(t) \/ AppendNode(t) \/ TimeOut(t) \/ Recheck(t) \/ Leave(t)
Next == Owner \/ Reader \/ Answer \/ Disconnect \/ \E t \in Callers : Caller(t)

(* Threads run, and a wait with a limit ends: the library asks for it with   *)
(* pthread_cond_timedwait and select.  A mutex goes to every thread that     *)
(* keeps asking.  Nothing makes the device answer or the owner close.        *)
Fairness ==
  /\ WF_vars(Acquire) /\ WF_vars(Unwind) /\ WF_vars(StopReader) /\ WF_vars(JoinReader) /\ WF_vars(Release)
  /\ WF_vars(Reader)
  /\ \A t \in Callers : /\ WF_vars(Reference(t)) /\ WF_vars(SetTimeout(t)) /\ WF_vars(AskTimeout(t))
                        /\ WF_vars(GetTimeout(t)) /\ SF_vars(TakeSequence(t)) /\ WF_vars(NoSequence(t))
                        /\ WF_vars(Send(t) \/ SendFails(t)) /\ WF_vars(AppendNode(t)) /\ WF_vars(TimeOut(t))
                        /\ WF_vars(Recheck(t)) /\ WF_vars(Leave(t))

Spec == Init /\ [][Next]_vars
FairSpec == Spec /\ Fairness

-----------------------------------------------------------------------------
(* Callers that hold a reference.                                            *)
Inside == {t \in Callers : pc[t] \notin {"idle", "admitted", "setting"}}
Asking == {t \in Callers : pc[t] = "asking"}

(* A call that holds a reference finds every part of the handle in place:    *)
(* the count that eth32_close waits for covers it, whatever the close, the   *)
(* failure of the network and the other calls do meanwhile.                  *)
ReferenceKeepsHandle == Inside # {} => owned = Resources

(* Whatever eth32_open and eth32_close have still to release is there, and   *)
(* is all there is: no label destroys what was not initialised or leaks what *)
(* was, and a handle given up or closed has left nothing behind.             *)
ReleasedOnce ==
  /\ stage \in {"unwinding", "releasing"} => owned = ToRelease
  /\ stage \in {"failed", "closed"} => owned = {}

(* The list is in the order of the socket, which is the order of the         *)
(* sequence numbers: what process_incoming assumes when it takes a node it   *)
(* skipped for one whose reply is lost.  Stated below the wrap-around.       *)
ListInWireOrder ==
  LET increasing(s) == \A i, j \in DOMAIN s : i < j => s[i].sequence < s[j].sequence IN
  increasing(queries_replies) /\ increasing(fromDevice \o toDevice)

(* A call that succeeds returns the answer to its own query, whatever was    *)
(* given up, answered late or dropped before.                                *)
RepliesAreOwn == \A t \in Callers : result[t].reply \in {<<>>, query[t].asks}

(* A reply that was stored has a caller that will find it: no node is both   *)
(* answered and given up, although the wait may end as the answer comes in.  *)
NoStrandedReply ==
  \A i \in DOMAIN queries_replies :
    queries_replies[i].received =>
      ~queries_replies[i].abandoned /\ pc[queries_replies[i].caller] \in {"woken", "late"}

(* A call whose reply was stored returns, without any timeout's help, and a  *)
(* call whose timeout is limited returns or ends up waiting without a limit: *)
(* that happens when another's reply wakes it and it runs too late.          *)
Answered(t) == \E i \in DOMAIN queries_replies : queries_replies[i].caller = t /\ queries_replies[i].received
Overslept(t) == pc[t] = "waiting" /\ ~limited[t]
CallsReturn ==
  \A t \in Callers : /\ Answered(t) ~> pc[t] = "idle"
                     /\ (t \in Inside /\ limited[t]) ~> (pc[t] = "idle" \/ Overslept(t))

(* A call whose timeout is limited returns, as the wait has it that "waits   *)
(* for the event, timing out after timeout milliseconds".                    *)
LimitedCallsReturn == \A t \in Callers : (t \in Inside /\ limited[t]) ~> pc[t] = "idle"

(* eth32_close ends when no call is under way as it begins, also when the    *)
(* network has failed before or fails meanwhile.                             *)
QuietCloseEnds == (stage = "closing" /\ refcount = 0) ~> stage = "closed"

(* Once eth32_close has begun it ends: it makes sure "there are no users     *)
(* with calls into this object" and then takes the object apart.             *)
CloseEnds == closing ~> stage = "closed"
=============================================================================
