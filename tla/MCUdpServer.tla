---- MODULE MCUdpServer ----
(* Instances of UdpServer: packets of the clients x and y; u has no table.  *)
EXTENDS UdpServer, TLC

CONSTANTS x, y,    \* clients
          a, u     \* ids

Shapes == (a :> 1) @@ (u :> 0)

Frame(id, diff) == [id |-> id, diff |-> diff]
Packet(service, src, synt, subs) ==
  [service |-> service, src |-> src, synt |-> synt, subs |-> subs]

SendA(t) == Packet("SEND", x, t, <<Frame(a, 0)>>)
SendA12 == Packet("SEND", x, 1, <<Frame(a, 0), Frame(a, 1)>>)
SendA23 == Packet("SEND", x, 2, <<Frame(a, 0), Frame(a, 1)>>)
SendU2A2 == Packet("SEND", y, 2, <<Frame(u, 0), Frame(a, 0)>>)
Subscribe(client, t, rate) == Packet("SUBSCRIBE", client, t, <<Frame(a, rate)>>)
SubscribeUA(client) == Packet("SUBSCRIBE", client, 1, <<Frame(u, 1), Frame(a, 1)>>)
Request(client, t, diff) == Packet("REQUEST", client, t, <<Frame(a, diff)>>)
RequestUA(client, t, diff) == Packet("REQUEST", client, t, <<Frame(u, diff), Frame(a, diff)>>)
RequestsA(client) ==
  Packet("REQUEST", client, 1,
         <<Frame(a, 0), Frame(a, 1), Frame(a, TIME_SIMU_LAST), Frame(a, PARAMTER_REQUEST_LAST)>>)
Empty == Packet("REQUEST", x, 1, <<>>)
PublishA == Packet("PUBLISH", x, 1, <<Frame(a, 1)>>)

MainSubscribes == {Subscribe(x, 1, 1)}

Registrations == {Subscribe(x, 1, 1)}
Requests == {SendA12, RequestsA(x), Request(y, TIME_SIMU_LAST, 0), Empty, PublishA}
CatchUps == {SendA(2), SendA(3), Subscribe(x, 1, 1)}

AllAtOnce == {Calls}
Dialogues == Requests \cup CatchUps
OneDialogue == {Requests \X {1}, (CatchUps \X {1}) \cup (MainSubscribes \X {0})}
Service == {SendU2A2, Subscribe(x, 1, 1), Subscribe(y, 1, 1),
            RequestUA(x, 0, PARAMTER_REQUEST_LAST)}

Terminate == {Subscribe(x, 1, 0)}
FromZero == {SendA(1), Subscribe(x, 0, 1)}
ToLast == {SendA(1), Request(x, 0, PARAMTER_REQUEST_LAST)}
Gap == {SendA(2), Subscribe(x, 1, 1)}
Publish == {PublishA}
LastTime == {SendA(TIME_SIMU_LAST), Subscribe(x, 1, 1)}
====
