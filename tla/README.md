# A TLA+ verification of the RETHi data service (DRDS)

The repository is the data repository and distribution service of a simulated
space habitat. Subsystems (Simulink models, Python scripts, a visualisation)
send records over UDP; the service stores them in MySQL, answers requests for
them, forwards them to subscribers and shows them in a browser. Almost all of
it is concurrent: every UDP packet is handled by one of a pool of goroutines,
every record is handed to the store by a goroutine of its own, and the stored
rows are read while they are being written. The hardware side of the same
repository carries, and builds, the C library of the ETH32 input/output device:
a connection with a reading thread, an event queue, a callback thread and a
discovery protocol. This directory has TLA+ models of that code, TLC runs over
small instances of them, and proofs checked by TLAPS.

## 1. Inventory

| part | source | state | operations | talks to |
|---|---|---|---|---|
| data handler, write path | `src/handler/handler.go:213-340, 577-624` | one channel per record table, one batch and one time per writer goroutine | `WriteToBuffer`, `WriteSynt`, `WriteRange`, `handleData` | called by the UDP and web servers; MySQL |
| data handler, queries | `handler.go:342-575` | none | `ReadSynt`, `ReadRange`, `QueryLastSynt` (`QueryFirstSynt`, `QueryInfo` have no caller) | MySQL |
| start | `handler.go:45-202`, `initializer.go` | the tables, `RecordTables`, `DataShapes` | `Handler.Init`, `DatabaseGenerator` | MySQL; run before anything else |
| UDP server | `src/server/server.go` | `Buffer`, `subscriberRegister`, `publisherRegister`, `Sequence`, the goroutines | `listen`, `handlePkt`, `Send`, `Request`, `RequestRange`, `Publish`, `Subscribe`, `sendPkt`, `sendOpt` | the handler; clients over UDP |
| packet codec | `src/server/packet.go` | none | `FromServiceBuf`, `ToServiceBuf`, `PayloadBuf2Float`, `PayloadFloat2Buf` | UDP server; the same format again in `utils/pyapi/utils.py` |
| web server | `src/server/web.go` | `bufferOutput`, one polling cursor per data id and socket | `RealtimeProcess`, `Subscribe`, `HistoryProcess`, `CommandProcess` | handler and UDP server |
| composition | `main.go` | two servers, habitat and ground | starts both, subscribes two clients | all of the above |
| Python API | `utils/pyapi/api.py` | a sequence number never changed, an input socket | `send`, `request`, `publish_register`, `subscribe_register`, `subscribe` | UDP server |
| ClientDRDS | `utils/last_all_same_time.py` | per id a list of times and a list of records | `run` (thread), `subscribe`, `get_latest_all` | Python API |
| hardware agent | `utils/cpt/agent.py`, `hil_*.py` | per signal a buffer shared by two threads | `receive_latest`, `run`, the agent loops | instruments, OpalRT |
| ETH32: commands and queries | `eth32api-2.01/eth32.c`, `commands.h` | the device's registers | some fifty calls that set or read them | connection |
| ETH32: connection, closing | `eth32.c:154-441`, `eth32_internal.c` | the handle: flags, count of active calls, open queries, socket | `eth32_open`, `eth32_close`, `eth32_query_reply`, `eth32_process_incoming`, the reading thread | the device over TCP |
| ETH32: event configuration | `eth32.c:1396-1442, 1877-2173` | tables of enabled events; the device's mask | `eth32_enable_event`, `eth32_disable_event`, `eth32_reset`, `eth32_process_event` | connection, event delivery |
| ETH32: event delivery | `eth32_internal.c:144-215, 497-765` | two queues, the handler, its thread | `eth32_dispatch_event`, `eth32_dequeue_event`, `eth32_set_event_handler`, the event thread | the application |
| ETH32: discovery, configuration | `eth32cfg.c` | one list of devices per query | `eth32cfg_query`, `_discover_ip`, `_set_config`, `_get_config`, `_free` | all devices by UDP broadcast |
| ETH32: threads, lists, sockets | `threads.c`, `dbllist.c`, `devtable.c`, `socket.c` | mutexes, condition variables, lists | wrappers of the system's | all of the ETH32 library |
| ETH32: Windows helpers | `iphelper.c`, `eth32cfg_pcap.c` | none | interface lists, packet capture | IPHelper, WinPcap |
| examples, generators | `utils/*.py`, `utils/simapi`, `utils/data` | | | Python API |

What is hard about each part, and what makes it correct:

* **Write path.** Callers check that a channel has room and push later; the
  writer empties the channel into a batch and stores the batch when it is full,
  when 100 ms have passed or when nothing arrives, and an INSERT that fails
  takes its batch with it. Correct when every accepted record is in exactly one
  place, in order, a loss is bounded and no caller blocks for ever.
* **Queries.** Each is one SELECT, but the servers combine them (last time,
  then rows) while rows are being added. Correct when a reply has only stored
  rows of the time asked for and all that were stored when it was asked.
* **UDP server.** Registration is a check under one lock and an append under
  another; forwards, replies and acknowledgements leave from different
  goroutines and share a counter; consumers are a bounded pool. Correct when an
  acknowledged client gets every later record, duplicates are bounded, sequence
  numbers are unique and no packet stops a consumer.
* **Codec.** Two implementations of one layout, 8- and 16-bit fields. Correct
  when decoding is the inverse of encoding within the bounds of the fields.
* **Web server.** A cursor that polls with an exclusive end while rows arrive;
  one channel for all sockets; a close signal read and sent by goroutines that
  end at different times. Correct when a viewer sees every row once, history
  and live view meet, and nothing is left behind after a viewer.
* **Python API, ClientDRDS.** The next datagram is taken as the answer; two
  lists without a lock. Correct when an answer belongs to its question and a
  time never comes with another time's record.
* **Hardware agent.** A list shared by two threads that each replace it.
  Correct when the newest command is not lost.
* **Start.** Tables are dropped and made anew at every start, shapes are read
  from the table that was just filled. Correct when no channel, table or shape
  is missing for an id the configuration names.
* **ETH32 commands.** Fifty packet formats with their own argument checks and
  reply layouts; some calls are several packets. Correct when each call changes
  and reads the registers it names and no others, whatever other threads do,
  and when one that breaks off leaves the device as it was up to a known step.
* **ETH32 connection.** Callers share one socket, the reading thread matches
  replies with open queries by a number of one byte, time-outs race with
  replies, and closing must wait for callers it can no longer count. Correct
  when replies go to their questions, the handle outlives every call in it,
  everything acquired is released once, and answered calls return.
* **ETH32 event configuration.** A port event and the events of its bits share
  one mask in the device; what to keep is decided from the tables. Correct when
  what was confirmed is reported until it is disabled.
* **ETH32 event delivery.** A queue whose bound and policy change while it is
  full; a callback that is replaced while it runs; a condition variable with
  several kinds of waiters. Correct when queues stay bounded and ordered, no
  callback runs once there is none, a replaced one for the event at hand only,
  and nobody sleeps on an event or a lost connection.
* **ETH32 discovery.** Broadcasts with several rounds, lost and late replies of
  two kinds, merged into one entry per device. Correct when an entry is what
  its device said, or what the code fills in for one that cannot say it, filters are kept, and the outcome of a change of settings is
  what the device did.

`PROJECT.json` lists under "hazards" what a test of this code would hardly
reach, each at its line, with the properties for it or the module planned.

## 2. Modules

| module | what it is |
|---|---|
| `RecordLog` | what the data handler promises: a queue and a table per id |
| `RecordStore` | how `handler.go` does it; refines `RecordLog` |
| `UdpServer` | `server.go` over `RecordLog` |
| `WebServer` | `web.go` over `RecordLog` |
| `EthRegisters` | what a caller of the ETH32 API may rely on |
| `EthCommands` | how `eth32.c` does it, packet by packet; refines `EthRegisters` |
| `EthConnection` | one connection: opening, queries, the reading thread, closing |
| `EthEventTables` | which events the device sends and the library passes on |
| `EthEvents` | how events reach the application |
| `EthConfig` | discovery and configuration by broadcast |
| `Lists` | the entries of a sequence at given positions, in their order |
| `MC...` | the instances of each for TLC |
| `RecordStoreProofs`, `UdpServerProofs`, `EthConnectionProofs`, `EthEventTablesProofs`, `EthEventsProofs`, `EthConfigProofs`, `WebServerProofs` | the theorems |
| `ListsProofs` | what the proofs know of sequences, minima and iteration |

`RecordStore` implements `RecordLog`, and both servers are composed with
`RecordLog`, not with `RecordStore`: what is shown of a server holds over any
store that keeps the promise. The ETH32 modules divide the library where its
parts meet in one kind of step: a query of `EthCommands` is one step, which
`EthConnection` takes apart; an event of `EthEvents` is a number, and
`EthEventTables` says which events there are.

### RecordStore

| variable | code |
|---|---|
| `sender[d]` | where the goroutine is that hands in record `d`: before the check, before the push, returned (and with what) |
| `DataBuffer[id]` | the channel of the id |
| `buffer[id]` | `handleData`'s local slice |
| `writer[id]` | whether `handleData` is in its `select` or in the `WriteRange` of the first or second case |
| `lapsed[id]` | whether 100 ms have passed since `lastWriteTime` |
| `table[id]` | the rows of `record<id>` |
| `lost` | history: the records of failed writes |

`WriteToBuffer` is three actions: `WriteUnknown`, `CheckFull` and `Push`, since
the channel may change between its check and its push. A case of `handleData`'s
`select` is `Receive` or `IdleTimeout`, and the INSERT that may follow is
`WriteRange`, with the emptying of the batch behind it. `Elapse` is the clock:
nothing forces it, and it may come at any moment, also during an INSERT when
`lastWriteTime` was taken before it (`handler.go:603-610`). The database does an
INSERT completely or not at all (InnoDB, one statement); it fails for a wrong
number of columns, for a value that `%f` prints as NaN or Inf, and, for the
tables in `FlakyTables`, for no reason.

`RecordLog` has one queue per id for what is accepted and not settled. The
refinement takes the batch followed by the channel as that queue and the callers
that have not returned as `waiting`.

### UdpServer

A *call* is one execution of `handlePkt`, for one copy of a packet, or one of
main's direct calls of `Subscribe` (`CallDirectly`; main runs them while packets
already arrive). `frame[c]` has its program counter and the locals it carries
over a point where others may act: the subframe, the simulink time, the end of a
range, the rows read, the sequence number. `Copies` lets the network deliver a
packet again; not delivering it and delivering it late are what `Listen` does by
not happening or happening late. `Together` names the sets of calls that may
occur in one behaviour, so that one run can have several small dialogues.

| code | actions |
|---|---|
| `listen` | `Listen`, `Consume` |
| SEND | `StartSend`, `LookupSubscribers`, `SendReturns` (`go Send`), `StampForward` and `TransmitForward` (`go sendPkt`) |
| REQUEST | `StartRequest`, `QueryLast`, `ReadSynt`, `QueryEnd`, `ReadRange`, `Stamp`, `Transmit` |
| SUBSCRIBE | `CheckRegister`, `Register`, `CatchUpLast`, `CatchUp` (one row a step), `Stamp`, `Transmit`, then `Stamp`, `TransmitAck`, `Bump` of `sendOpt` |
| PUBLISH | `HandlePublish` |
| a packet without subframes | `HandleEmpty` |
| the data handler | `HandleData`: a `Settle` of `RecordLog` |

A step ends where a lock is released, a query is answered or a packet is
written. `Server.Publish` is not modelled: `handlePkt` panics in front of each
call of it (configuration `UdpPublish.cfg`). `sendPkt` to a client without an
address fails in `DialUDP`; `Request` returns that error and `Subscribe` does
not look at it.

### WebServer

A *viewer* is one socket. `Scenes` names which records, viewers and readers of
history occur together in one behaviour.

| variable | code |
|---|---|
| `waiting`, `pending`, `rows` | the data handler (`RecordLog`) |
| `socket[v]` | the handler of the socket: open, its connection gone, returned (`SubscribeCloseSig`) |
| `subscription[v][id]` | a `Subscribe` goroutine: `lastTime`, `currentTime`, the cells it has still to write; history: its first cursor |
| `bufferOutput` | the channel |
| `page[v][id]` | one call of `HistoryProcess` |
| `command[d]` | one call of `CommandProcess` |
| `shown`, `failed` | history: what a viewer was sent while it was the only one; whose queries failed |

| code | actions |
|---|---|
| `RealtimeProcess` | `Connect`, `Leave` (the receiving goroutine's first error), `Send` and `Close` (the two cases of the `select`) |
| `Subscribe` | `StartCursor`, `Poll` (the signal and `currentTime`), `ReadRange`, `WriteCell` |
| `HistoryProcess` | `HistoryEnd`, `HistoryRange` |
| `CommandProcess` | `Forward` (`sendPkt`), `Keep` (`Server.Send`) |
| the data handler | `Store`: a step of `RecordLog` |

The signal is a bool that two goroutines share without a lock; it is read once
a round and set once, so a stale value is a later `Poll`. After its first
signal the receiving goroutine reads the broken socket again and offers a second
signal nobody takes: it is left behind by every viewer (it holds no state, so the
model ends with it).

### EthRegisters and EthCommands

`EthRegisters` has, for each thread, a call that changes some registers and
reads others, one group after the other, and a result: a call that returns
success has done all of it. `EthCommands` has the code: each call of `eth32.c`
is a record of its argument tests, in the code's order, with their errors (`early` where they
come before the test of the connection, as in `eth32_set_led`), and of the packets it writes and the registers it takes from the replies; a thread
goes through the packets (`Write`, `Return`, or `Fail` at any of them). `wire`
has the packets on their way, of which a query's comes back to who waits for
it, `Device` executes the oldest, `LoseConnection` ends the traffic. The
refinement takes a register's value as what it will be when the packets on the
wire have been executed: the connection is in order, so that a caller's next
query sees them.

### EthConnection

| variable | code |
|---|---|
| `stage`, `step`, `owned` | how far the owner is in `eth32_open`, its error labels or `eth32_close_int`; what has been initialised |
| `closing`, `quitflag`, `refcount`, `timeout`, `sequence`, `readthread_done` | the members of the handle |
| `sequence_mutex` | its mutex |
| `queries_replies` | the list of open queries |
| `reader` | where the reading thread is |
| `toDevice`, `fromDevice`, `alive` | the connection |
| `pc`, `calls`, `limited`, `query`, `result` | where each caller is, its time-out, its query and its reply |

| code | actions |
|---|---|
| `eth32_open` | `Acquire`; `AcquireFails`, `Unwind` for the labels |
| `eth32_check`, `eth32_refcount` | `Begin`, `Reference`, `Leave` |
| `eth32_set_timeout`, `eth32_get_timeout` | `SetTimeout`, `AskTimeout`, `GetTimeout` |
| `eth32_query_reply` | `TakeSequence`, `NoSequence`, `Send`, `SendFails`, `AppendNode`, `TimeOut`, `Recheck` |
| reading thread, `eth32_process_incoming` | `Receive` (with `ProcessIncoming`), `ReaderEnds`, `ReaderDone`, `ReaderWakes` |
| `eth32_close_int` | `Close`, `StopReader`, `JoinReader`, `Release` |
| device, network | `Answer`, `Disconnect` |

A section under one lock is one step; a test and the lock after it are two.
`eth32_set_timeout` does not ask for the reading thread and works on a dead
connection, as `Begin` has it. A wait with a limit ends (`TimeOut`) unless a
broadcast for another wakes it after its time was up: the rest is then computed
unsigned (`threads.c:640`), and `Recheck` may go back to sleep without a limit.

### EthEventTables

`table` is `evt_ports`, `evt_bit` and the heartbeat entry, `mask` the device's;
`Enable`, `Disable` and `Reset` begin a call, `ChooseMask` is the decision of
`eth32_disable_event` what to keep, `Write` and `WriteFails` its packet, `Forget`
the clearing of the tables. `Change`, `Report` and `Execute` are the device;
`Receive` is `eth32_process_event`, which decodes a report into the events of
its port and bits. `confirmed` and `told` are histories: what an application
was promised, and what it was told last.

### EthEvents

`evt_queue` and `evt_callback_queue` with their sizes and policies,
`event_handler`, `eventthread` and `event_handler_change_mutex` are the members of
the handle; `arrived`, `taken`, `serving` and `born` say which events have come,
which the application and the callback took last and which the present event
thread may see. `Dispatch` is `eth32_dispatch_event`; `Configure`, and `Take`,
`GiveUp`, `Sleep`, `TimeOut` are `eth32_set_event_queue_config` and
`eth32_dequeue_event`, `Leave` and `Again` the loop of `eth32_empty_event_queue`
around it; `Handler`, `Quit`, `Join`, `Create`, `Nothing`, `Store` are
`eth32_set_event_handler_int`; `Serve`, `ReadHandler`, `CallbackReturns`,
`EventThreadSleeps`, `EventThreadEnds` the event thread; `Close`, `CloseQueue`,
`CloseReader` the close. One condition variable is behind all waiting: a broadcast
moves every waiter to `woken`.

A callback is one of `Functions`, with an extra value that is named for the
function it was set with. The event thread takes an event under the lock (`Serve`)
and reads the two members of the handler without it, each in a step of its own
and in either order (`ReadHandler`, `eth32_internal.c:194`). Replacing a callback by
another stops no thread and empties no queue (`eth32_internal.c:713`), so that the
new function gets the events that were queued, and the replaced one may still be
called for the event at hand. `running` is what has been read, and `since`, a
history, what the handler has named since the event was taken.

### EthConfig

A call (`Begin`) opens a socket of its own, sends its packets (`Send`, one to
each device for every round), gathers answers (`Receive`), and goes on with its
next round or ends (`TimeOut`). Requests and answers are sets from which any
member may be taken at any time or never. The netmask, the checksum, the
merging of replies, the filter and the sorting are operators translated from
the code; `Hear` is a device. `reports` and `fate` are histories of what devices
said and did. The loops over a list (the sum of the checksum, the passes of the
sort) are recursive functions over their counter, so that they can be reasoned
about. Addresses, masks and serial numbers are tuples of bytes, as the packets
have them: the checksum and the netmask are about every byte. The last loop of
`eth32cfg_query` (`FillActive`) gives every entry with firmware below 3 the
configured settings as its active ones; the firmware is 0 where the query's reply
was lost, and `EntriesAreReported` names what such an entry has. An entry of
`eth32cfg_discover_ip` has no configured half and keeps the active one.

## 3. Runs

`RecordStore` (`BUFFLEN` 1 instead of 65536, `BATCH` 2 instead of 256):

| run | states | question |
|---|---|---|
| `record_store` | 61 194 | Is each accepted record in exactly one place, are batches stored whole, is all of it the queue of `RecordLog`, what does a malformed record cost, does every caller return and every accepted record settle? |

A channel of one slot is full after one record, so that callers pass the check
together and block in the push; two records fill a batch, so a batch fills with
and without the clock; three records of one id are more than a batch and a
channel slot together. Two tables and an unknown id show that ids do not
disturb each other; the INSERTs of one table may fail for no reason, so that the
bound on losses of the other is seen to be local. Larger values change how often
this happens, not what can happen; the theorems are for all values.

`UdpServer` (simulink times 0 to 3 or 4, two clients, one id with a table of
one column and one id without, two consumers, two places in `Buffer`):

| run | states | question |
|---|---|---|
| `udp_register` | 38 575 | How often can overlapping SUBSCRIBEs list a client, does a copy that comes after the acknowledgement change anything, and are sequence numbers unique? |
| `udp_streams` | 23 560 | Is an acknowledged client kept on the list and served every later record, and every packet handled to its end, also when another client has no address, an id no table and a request fails? |
| `udp_requests` | 506 604 | Is what a reply carries stored, of the time asked for, and complete? |
| `udp_last_time` | violation | Does a SUBSCRIBE always get its acknowledgement (`README.md:270`)? |

Two consumers and one direct call are enough for every pair of overlapping
handlers, and a third copy of a packet makes the bound on duplicates tight: the
bound is the number of goroutines that can be between the check and the append.
`udp_requests` has the requests of one packet (a time, a duration, a duration
that wraps, one "to the last"), or the catch-up of a client main registered;
`Together` keeps the two apart. In runs that do not ask about sequence numbers
the counter has one value (`SEQUENCES = 1`), which only merges states that
differ in it.

`WebServer` (a channel of one cell instead of 65536, a table of two columns, a
second `Subscribe` of the same table from a second viewer):

| run | states | question |
|---|---|---|
| `web_server` | 87 401 | Does a single viewer get each row exactly once and in order, do history and live view meet, does everything a viewer started end when it leaves? |

Its four scenes: one viewer with its history while records of the times 1, 1
and 2 come by every way `RecordLog` has (two of one time on both sides of a poll
are what an exclusive end is for); two viewers who come and go, who share the
channel and can leave it full; a viewer whose queries may fail, with commands
stored at time 0 among the records; a command for an id without a table. What
one of several viewers sees has no property: each handler takes what comes next
(hazard `web.go:124`).

The ETH32 library:

| run | states | question |
|---|---|---|
| `eth_commands` | 67 992 | Does each of the fifty calls, at and beyond the edges of its arguments, change and read what it names and nothing else, with another call and failures at any moment? |
| `eth_connection` | 153 740 | Do replies go to their questions, is nothing freed in use, twice or never, do answered calls return, and limited ones that are not woken too late, does a close without active calls end? |
| `eth_event_tables` | 2 725 973 | Is what was confirmed reported, and is what the application was told what the device has? |
| `eth_events` | 2 440 014 | Are the queues bounded and ordered, does no callback run once none is set, and only one the handler named since the event was taken, does nobody sleep on? |
| `eth_config` | 404 588 | Is every entry what its device said, or for the active half what the code puts over it, does the filter hold, is the outcome of a change what the device did? |
| `eth_dequeue_close` | violation | Does `eth32_dequeue_event` return when the handle is closed (the comment at `eth32_internal.c:1031`)? |

`eth_commands` runs suites of calls that meet on the same registers, two threads
with one call each: the effects of a call are per register, so that two calls
are enough for every interference. `eth_connection` has two callers, one of them
with two queries, so that a query can meet what an abandoned one left in the
list; time-outs of zero and none; a connection that may break at any time.
`eth_event_tables` has one configuring thread with three calls, a port with two
bits, and two reports of other kinds; a second configuring thread is the
configuration `EthEventRace.cfg` below. `eth_events` has three events, queues of
at most two, one thread that makes the queue and then takes from it, empties it
or makes it smaller, and one that sets, replaces, removes and sets again one of
two callbacks. Two functions are enough to tell a replaced one from its
successor. `eth_config` has an old, locked device and a new one, two
rounds, and one caller that changes settings while the other discovers.

`CHECK_DEADLOCK FALSE` is set for all but `RecordStore`: packets, calls, viewers
and events are finitely many and the system rests when they are handled.

### What the code does and its documentation does not say

Two runs show it: `udp_last_time` (the loop of the catch-up over a uint32 never
ends when the table has the largest simulink time) and `eth_dequeue_close` (a
call that waits in `eth32_dequeue_event` is not woken by closing, since the
library's own call to wake it is refused on a closing handle). Further
configurations beside the twelve runs, each with one property and TLC's
counterexample (`tlc -config <file> <MC module>`):

| configuration | property | what the documentation says | what the code does |
|---|---|---|---|
| `UdpTerminate.cfg` | `TerminateUnsubscribes` | `README.md:272`: rate 0 terminates a subscription | the rate is not read; the client is registered |
| `UdpFromZero.cfg` | `FromZeroGetsAll` | `README.md:268`: time 0 gets all data | a first subscription gets no history |
| `UdpToLast.cfg` | `ToLastHasLast` | `README.md:212`: returns the data to the last data | the end is exclusive, the last row is missing |
| `UdpGap.cfg` | `DecodedByShape` | `README.md:214, 270`: decoded by its shape | rows that are not there are counted, and 256 rows are announced as 0 |
| `UdpPublish.cfg` | `PublishAnswered` | `README.md:234`: the packet is sent back | the process panics |
| `WebReplay.cfg` | `NoHistoryInLiveView` | `web.go:149`: no history data in the real time part | a failed query of the last time resets the cursor, and the whole table is sent |
| `EthEventRace.cfg` | `ConfirmedAreReported` | | two threads that configure events of one port: a confirmed event can stay masked |
| `EthActiveLost.cfg` | `ActiveIsReported` | `eth32cfg.c:808-810`: active settings are filled in for devices below 3.0 | when only the reply with the firmware is lost, a new device is taken for an old one and its active settings are zeroed |
| `EthCloseActive.cfg` | `CloseEnds` | | a call that is active when closing begins is never uncounted: the close waits for ever |
| `EthTornHandler.cfg` | `CallbackGetsItsExtra` | `eth32.h:230`: the extra value is passed to the callback whenever it is called; `eth32_internal.h:262`: reading the handler should be protected by `evt_info_event` | function and extra value are read without that lock (`eth32_internal.c:194`): while one callback replaces another, a function is called with the extra value of the other |
| `EthOversleep.cfg` | `LimitedCallsReturn` | `threads.c:603`: times out after timeout milliseconds | a caller that another's reply wakes after its time was up finds the rest of it wrapped (`threads.c:640`) and waits some 49 days more |

## 4. Fairness

`RecordStore`: weak fairness of each caller's and each writer's steps. The Go
scheduler runs every runnable goroutine, the timer of the `select` fires, and
an INSERT is answered (the driver returns an error when the connection breaks).
A push needs only weak fairness because the writer keeps room in the channel
once no further caller comes; the records are finitely many. The clock `Elapse`
has no fairness: `SettlesAsPromised` rests on the idle case alone.

`UdpServer`: weak fairness of consumers, of each call, of `Send` goroutines and
of the forwards. Nothing is assumed of the network (`Listen`) or of the handler
(`HandleData`). Forwards are fair as a group, finitely many exist.

`WebServer`: weak fairness of the handlers' two cases, each on its own, since
Go chooses among ready cases at random, and of the goroutines; strong fairness
of a write to the channel, whose waiters are served in order. Nothing makes a
client connect, ask or leave, or a record come.

`EthConnection`: weak fairness of the reading thread, of opening and closing
and of the callers, whose limited waits end (one whose rest has wrapped has no
limit any more, and nothing ends it but its reply or the reading thread); strong fairness of taking the
mutex `sequence_mutex`, which others take again and again. Nothing makes the
device answer, the connection stay or the owner close. `EthEvents` (in
`eth_dequeue_close`): weak fairness of the threads, whose callbacks return, and
strong fairness of taking `event_handler_change_mutex`. The other ETH32 modules
state safety only.

## 5. Proofs

The theorems hold for every value of the constants that satisfies the named
ASSUMEs of the component's module; TLC evaluates these on every run. What else a
theorem supposes stands in its statement and is named below. An invariant that
is used for its neighbours was first checked by TLC.

`ListsProofs` has what several proofs need of data. The library's induction
theorems take a property as an operator, which the provers cannot instantiate;
`NatSetInduction` says the same of a *set* of numbers, from the well-foundedness
of the order, and a property becomes the set of numbers that have it. On it
rest `KeptFacts` (the entries of a sequence at given positions: they are where
they were in order, and no others), `RemoveAtFacts`, `NatMinimum` and
`IterationExists` (the function that computes the steps of a loop exists), by
which a recursive function is known by its recursion. `SeqSetInduction` is
induction over sequences, a set of sequences in place of the property; it gives
what `WebServerProofs` needs of `Those` (the entries of a sequence that belong to
a set) and of `Each` (the lists a function gives for the entries, one after the
other): how both go over `Append` and concatenation, and what they contain.
`Kept` stands in `Lists`
in place of a selection by a test, for the same reason: a set of positions is a
value.

### `RecordStoreProofs`

* `TypeCorrect`, `BatchStaysBounded`: `TypeOK`, and `BatchBounded`, which is
  inductive with it. `Receive` needs that the batch was smaller than `BATCH` in
  the `select`, so the invariant says that and not only the bound.
* `StoredWhole`: the action property `WholeBatches`, from `TypeOK` alone: one
  step per kind of action, and only `WriteSynt` and `WriteRange` touch a table.
* `EveryRecordInOnePlace`: `EachRecordInOnePlace`. Its four parts are inductive
  only together: that a push makes no duplicate needs `Conserved` (a record
  still in its caller's hands is nowhere), that `WriteRange` makes none needs
  `NoOverlap`, and that `Push` meets a channel at all needs `NoNilPush`. The
  lemmas on sequences say what `Append`, `Tail` and concatenation do to the
  range and to injectivity of a sequence; there is one lemma per action that
  moves records.
* `LossStaysLocal`: `LossIsLocal`. `LossInv` adds that `lost` is finite, and the
  step needs the two theorems before it: a failing `WriteRange` adds a batch
  that has at most `BATCH` records (`BatchBounded`), among them a malformed one
  that was not lost before (`EachRecordInOnePlace`), so that both sides of the
  inequality grow by enough.
* `StoreImplementsLog`: the refinement. `Receive` is a stutter, as the head of
  the channel moves to the end of the batch and the concatenation stays the
  same (`MoveHead`); `WriteRange` is `Commit` or `Discard` of as many records as
  the batch has (`SplitConcat`); `BatchBounded` gives that this is at least one.

### `UdpServerProofs`

For every set of packets, copies, ids and consumers:

* `AcknowledgedAreListed`, `AcknowledgementIsFinal`: `AckMeansRegistered` and
  `AckEndsRegistration`. The invariant `RegisterInv` adds the shape of the
  variables concerned, that a call is only in the steps of its packet's service,
  and that a call on its way to the acknowledgement, which follows the append
  by several steps, already finds its client on the list.
* `RepeatsAreBounded`: `DuplicatesBounded`. The bound itself is not inductive:
  every call between the check and the append will add an entry whatever the
  list is by then. `PendingBounded` counts these calls with the entries; that
  they are at most the consumers and the direct calls is `ActiveBounded`. The
  packets and direct calls have to be finitely many.
* `TypesAreKept`: `TypeOK`, with `RegisterInv` and `InTables` (a row or a queued
  record is of the id it is kept under, which the step of `RecordLog` needs):
  times stay in 32 bits and numbers in 16, through sums that wrap.
* `NumbersAreUnique`: `UniqueSequence`. `NumberInv` says that whatever has a
  number has a smaller one than the counter. The theorem is about behaviours in
  which the counter does not fall (`NeverWraps`) and supposes `SEQUENCES > 1`:
  after 65 536 packets the code does give a number again, so that without the
  first the statement is false, and with one value every packet has the number
  zero. Both are satisfied by behaviours of `udp_register`, whose counter has
  enough values for all its packets.
* `RepliesTellTheTruth`, `RepliesLackNothing`: `RepliesAreTrue` and
  `RepliesAreComplete`. `ReplyInv` follows a reply through the queries it is
  made of: `SeenStored` (what was stored when the packet was taken is still
  stored), `ReadInv` (at each place of `handlePkt`, what the locals of the call
  say of the table: the last time is that of a row and none that was seen is
  later; the rows of a catch-up so far are those of the times so far), `QueueInv`
  (a packet is in the buffer once, so that no other consumer changes what its
  call has read) and `SentInv` (a reply keeps what was true of the reads). The
  tables only grow, which carries each of these over the steps of others.

### `EthConnectionProofs`

For every number of callers and calls:

* `EverythingReleasedOnce`: `ReleasedOnce`, from `HandleInv`: `owned` is a
  function of how far opening or closing has come, and each flag of the handle
  of the stage it was set in.
* `HandleOutlivesCalls`: `ReferenceKeepsHandle`. `ReferenceInv` says that the
  callers holding a reference are at most `refcount` until the owner has seen
  zero. Equality does not hold: `eth32_refcount` stops counting down when
  `closing` is set, which is why a close can wait for ever but never frees too
  early.
* `EveryReplyIsTaken`: `NoStrandedReply`, from `ListInv`: between a caller that
  waits and an open node of the list there is a one-to-one correspondence
  (`OneOpenNode`), which every step on the list has to keep.
* `ListFollowsWire`: `ListInWireOrder`. `OrderInv` says that the numbers in the
  list and on the socket increase and stay below the counter, and below the number
  of a caller that has taken one and not yet written or queued (`ListBelow`,
  `WireBelow`, `MutexHeld`, `TakenLast`): these are three steps, and only the
  mutex keeps them together.
* `RepliesFindTheirQueries`: `RepliesAreOwn`. `OwnInv` says of each open query
  that what is on the socket or in its node under its number is its own, also
  when nodes that were given up lie in between.

  The last two suppose `BelowTheWrap`, that there are fewer calls than the 256
  numbers. It is needed: a query that was given up stays in the list until a
  later reply passes it, and after 256 more the code cannot tell it from a new
  one. `eth_connection` satisfies it.

### `EthEventTablesProofs`

* `ConfirmedStayReported`: `ConfirmedAreReported`, for one thread that
  configures events (`Configurers = {t}`): two such threads break it, as
  `EthEventRace.cfg` shows. `MaskInv` looks ahead: `WillReport`
  says what the mask will be when every packet on the wire has been executed,
  and `KeepsConfirmed` that a call that has decided what to keep has decided for
  every confirmed event.
* `ViewIsExact`: `ViewFollowsDevice`, for any number of such threads. `ViewInv`
  is about the *last* report on the way of each bit: it has the level of the
  port, and when there is none, what was told has (`WireTrue`, `ToldTrue`).
  Values are told only under ids of the table (`ToldAreEnabled`).

### `EthEventsProofs`

For every queue size, policy and number of threads:

* `QueueStaysBounded`, `EventsStayInOrder`: `QueueBounded` and `EventsInOrder`,
  from `QueueInv`, which has the callback's queue and what was taken with them.
* `CallbackRunsOnlyWhileSet`, `CallbacksStayFresh`: `CallbackOnlyWhileSet` and
  `FreshCallbacks`, from `ChangeInv`: at most one thread is changing the handler,
  the event thread exists only in certain steps of that change, and a handler of
  another type is stored only behind its end. That what runs was named by the
  handler since its event was taken is `ReadInv`: the present handler is in
  `since` while the thread reads it, and what has been read is from `since`
  (`KeptReading` and `ReadStep` go through the actions). The first does not say that a replaced callback never runs,
  nor the second that a replacing one sees no older event: neither is so.
* `NobodySleepsOn`: `NoLostWakeup`, from `CountInv`: what a waiter has to know of
  was followed by a broadcast, or the thread that will broadcast is before it.
* `LeftoversComeFirst`: the action property `LeftoversFirst`: of all steps that
  give a result, only `GiveUp` gives this error, and it has looked at the queue
  under the same lock.

### `EthConfigProofs`

For every number of callers, devices and rounds, every sequence of calls and any
loss, delay, repetition and order of packets (`ScriptAssumption`,
`FactoryAssumption`: bytes are bytes, and every device has an address of its
own):

* the data. `ChecksumIsAccepted`: the code sums the words of the packet as a
  little-endian machine reads them, the device in network order; both sums agree
  modulo 65 535 up to the exchange of bytes, so that the device takes every
  packet for intact. `NetmaskSurvives`: taking a mask apart and putting it
  together again agree for every mask without a gap. `PacketSurvives`: the
  fields of a packet are found where the device looks for them. `SortedFacts`:
  the sort keeps the entries and puts them in order (`SwapKeepsSettled` and
  `PassFacts` are the invariant of its two loops).
* `ResultsAreTrue`, `SettingsArrive`: `OutcomeIsTrue` and `SetIsReported`, from
  `BaseInv` and `SetInv`. What a device did is read off its confirmation, and
  what it stored off the packet: `RequestsKept` says that each packet on its way
  is made from the settings of the call that sent it, `AnswersKept` that a
  confirmation says what its device did with the call it goes to, and
  `RefusalsKept` and `ConfiguredKept` tie the devices to `fate` and to the
  settings. All of it is about the identity of a call, which stands for its
  socket: a late answer carries that of an earlier call and meets no later one.
* `EntriesAreOneReply`, `OthersAreLeftOut`: `EntriesAreReported` and
  `OnlyMatches`, from `ListInv`: the list a call gathers has no two entries of
  one address, each of its halves is empty or a report to this call that passed
  the filter, and `FinishedFacts` carries that over the sort and the filling of
  the active settings, which overwrites the active half of a query's entry with
  old or unknown firmware (`FilledFacts`) and no other. The merging needs `ReportsKept`: reports with one address are
  of one device, so that the second half of an entry, which overwrites address
  and serial number, leaves the first half what it was.

### `WebServerProofs`

For any records, tables, viewers and scenes, any size of the channel, and
queries that fail for any of the viewers in `Unlucky`:

* `WebAlways`: `WebInv`, inductive under every action of the module. Beside the
  shapes (`Shaped`: a goroutine has cells left exactly while it writes them, and
  they are of its table) it says, of each viewer and table: `Cursor` (the cursors
  go up and the last one is at most the last time of the table), `Fresh` (before
  the first cursor nothing of the table is on the way to a viewer that is alone),
  `Exact` (what was sent, what is in the channel and what is left to write are
  together the cells of the rows between the cursors), `Recent` (none of it is
  from before the first cursor) and `Reader` (the end of a page lies within the
  table and not before that cursor, and the page has every row before it).
  `Quiet` adds that nothing happens to who never connected.
* `LiveViewExact`, `HistoryMeetsLiveView`: `LiveViewIsExact` and `PageHasAll`. The
  first is not inductive alone: rows that are stored later must not fall between
  the cursors, which in an ordered table is so because the last cursor is at most
  its last time (`Cursor`, with `RowsJoin`: what joins the end of an ordered table
  is not before its last time); a round adds the rows between two cursors to
  those before (`SpansJoin`); and the first round needs the empty start (`Fresh`).
  The second takes a row before the end of the page from the page (`Reader`) and a
  later one from the live view (`Exact`). It supposes that every table has a
  column, as the one of `web_server` does: a row without columns is no cell of
  a live view.
* `NoHistoryUnlessAQueryFails`: `NoHistoryInLiveView` where no query fails
  (`Unlucky = {}`), in whatever order rows come. `WebReplay.cfg` is its
  counterexample where queries may fail, so that nothing else can bring it about.

All of it is about a viewer that is alone, as the properties are. A step of
another actor leaves the pair of viewer and table alone or takes it out of the
properties' scope (`PairStays`); only the goroutine and the reader of the pair
itself have lemmas of their own (`StartCursorKeeps` to `HistoryRangeKeeps`).

### Only model-checked

* liveness, which the prover cannot treat: `EveryCallReturns`,
  `SettlesAsPromised`, `EveryPacketHandled`, `SubscribersServed`, `LeaversEnd`,
  `CallsReturn`, `QuietCloseEnds`;
* `EepromWrittenInOrder`, `PinDrivenLast` and the refinement
  `ImplementsRegisters` of `EthCommands`. A call there is a record of data: that
  its packets do what its caller names is a question of some forty encodings and
  decodings with division, remainders and powers of two, products of two
  unknowns in `set_pwm_parameters` among them, which the provers do not treat;
  and the two properties speak of the values the calls of an instance use
  (`EepromWrittenInOrder` can tell old from new only where these differ). TLC
  evaluates each call at and beyond the edges of its arguments.

## 6. Weaknesses of the code that no property states

Met while modelling; the models have them, and the properties are stated so as
to hold in spite of them.

* Go: commands are stored with time 0 (`web.go:298`), so a viewer never sees
  them live; a failed query of the last time gives a page an empty history with
  code 200; a record that is older than the newest one is never shown; every
  viewer leaves a goroutine behind (`web.go:116`); an id without a table is
  answered like a stored one (`handler.go:582`).
* ETH32, queries: a reply that arrives between the write of a query and its
  entry in the list is dropped, and the caller waits for its time-out; a query
  entered after the reading thread's last broadcast waits for its whole time;
  abandoned entries stay until a later reply passes them and, after 256 further
  queries, can be taken for another; the result of `eth32_get_timeout` is not
  looked at, so that a failure leaves the time-out uninitialised.
* ETH32, closing: a call between `eth32_check` and the reference counts nowhere,
  and may use a handle that is being freed (`Reference` waits for ever then, and
  the properties are about calls that hold a reference);
  one that is active when closing begins stops the close; closing or changing
  the handler from inside the callback waits for itself.
* ETH32, events: the event thread reads the handler without its lock, so that a
  replaced callback can run after the change has returned, or run with its
  successor's extra value (`EthTornHandler.cfg`); a callback that replaces another
  gets older events; the tables have no lock; a smaller `maxqueue` for a callback that stays of the same
  type leaves its queue above the bound with `QUEUE_DISCARD_NEW`.
* ETH32, commands: `set_counter_rollover` does not refuse negative values;
  overlapping `set_pwm_parameters` leave a mixture; a duty of 0 becomes one count;
  `connection_flags` clears flags even when its reply is lost.
* ETH32, discovery: the count of entries grows before the reallocation that may
  fail; any confirmation is taken by any `set_config` that waits.
* ETH32, threads: `wth_event_wait` on Linux computes a remaining time that can
  become negative and then wraps (`threads.c:640`): `EthOversleep.cfg`, and the
  exception in `CallsReturn`.

## 7. Not modelled

* Values of records, except their number and whether SQL takes them; physical
  times; priorities, flags and options, which are copied.
* `Server.Publish` and `publisherRegister` (not reachable).
* The size of a datagram: a reply too large for UDP fails in `Write`, which a
  SUBSCRIBE ignores.
* Reconnection to MySQL, connection limits: a query is answered or fails.
* HTTP, JSON, column numbers and the upgrade of a web socket.
* ETH32: the event object built for Windows, the lists and socket wrappers
  (steps and sequences of the models), the table of open devices that only a
  forked child reads, strings, Windows messages and the Windows helpers.
* Examples, generators and retired scripts: calls of the Python API.

## 8. Plan

1. `PythonApi` and `ClientDRDS` with a network that delays, drops and repeats:
   answers and questions, the two lists. Any datagram counts as the
   acknowledgement of `subscribe_register` although its docstring says that the
   ACK packet is returned; `get_latest_all` can find a time whose record is not
   there yet.
2. `Codec`: both implementations of the packet layout with field widths, rows
   and columns; decoding against encoding over bounded packets; multi-row SENDs.
3. `HilUdp`: the shared command buffer, the agent loop.
4. `Bootstrap`: `DatabaseGenerator`, `Handler.Init`, restarts; that the
   assumptions of `RecordStore` on tables and shapes are established.
5. Proofs: `EthCommands` refines `EthRegisters`: first the interleaving of
   calls, for any calls whose packets do what they name (the registers after
   what is on the wire has been executed are the invariant), then the encodings,
   one lemma for each kind of packet.
