---------------------------- MODULE MCEthEvents ----------------------------
(* A caller that polls and resizes the queue, and one that sets, replaces    *)
(* and takes away the callback, while events arrive and the handle may be    *)
(* closed.                                                                   *)
EXTENDS EthEvents, TLC

CONSTANTS poller, setter, f, g

Dequeue(wait) == [NoCall EXCEPT !.name = "dequeue", !.wait = wait]
SetQueue(size, fullqueue) == [NoCall EXCEPT !.name = "configure", !.size = size, !.fullqueue = fullqueue]
SetHandler(type, max, fullqueue, function) ==
  [NoCall EXCEPT !.name = "handler", !.type = type, !.size = max, !.fullqueue = fullqueue,
                 !.eventfn = function, !.extra = function]

Callback1 == SetHandler("callback", 1, DISCARD_NEW, g)
Callback2 == SetHandler("callback", 2, DISCARD_OLD, f)
NoHandler == SetHandler("none", 1, DISCARD_NEW, "NULL")
Polling == <<{SetQueue(2, DISCARD_OLD)},
             {Dequeue("empty"), Dequeue("limited"), SetQueue(1, DISCARD_NEW)}>>
Setting == <<{Callback2}, {NoHandler, Callback1}, {Callback1}>>
Both == poller :> Polling @@ setter :> Setting

Replacing == setter :> <<{Callback2}, {Callback1}>>
OnePoll == poller :> <<{SetQueue(1, DISCARD_NEW)}, {Dequeue("forever")}>>
=============================================================================
