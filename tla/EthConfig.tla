------------------------------ MODULE EthConfig ------------------------------
(* Discovery and configuration of the devices by UDP broadcast: eth32cfg.c.  *)
(* A call opens a socket of its own, sends its packet to every device once   *)
(* or several times, and waits a limited time after each for answers, which  *)
(* may be late, repeated, reordered or lost; then it closes the socket.      *)
(* The devices are external. A byte is a number, an address four of them; of *)
(* a device's data the product number is left out, which nothing decides on. *)
EXTENDS Integers, FiniteSets, SequencesExt

CONSTANTS
  Callers,     \* threads or programs that use the library on one network
  Script,      \* what each of them calls: a sequence of sets of calls
  Devices,
  Factory,     \* the state every device starts in
  QUERYCOUNT   \* how often a query is sent (4 in the code)

CMD_QUERY == 1
CMD_QUERY_REPLY == 2
CMD_SET_CONFIG == 3
CMD_CONFIRM == 4
CMD_IPCONF_QUERY == 5
CMD_IPCONF_REPLY == 6

Octets(n) == [1..n -> 0..255]

(* A discovery may filter by address and by serial number. *)
CallOK(x) ==
  /\ x.name \in {"query", "discover_ip", "set_config"}
  /\ DOMAIN x.filter \subseteq {"mac", "serial"}
  /\ x.name = "set_config" =>
       /\ x.filter = <<>>
       /\ x.data \in [mac : Octets(6), serial : Octets(4), ip : Octets(4), gateway : Octets(4),
                      netmask : Octets(4), dhcp : 0..255]
ASSUME ScriptAssumption ==
  /\ \A c \in Callers : /\ Len(Script[c]) \in Nat
                        /\ \A n \in 1..Len(Script[c]) : \A x \in Script[c][n] : CallOK(x)
  /\ QUERYCOUNT \in Nat

(* A device has an address of its own, and is locked or not. *)
IpConfig == [ip : Octets(4), gateway : Octets(4), nmb : 0..255, nmm : 0..255]
ASSUME FactoryAssumption ==
  /\ Factory \in [Devices -> [mac : Octets(6), serial : Octets(4), firmware : Nat, enable : {0, 1},
                              config : IpConfig, active : IpConfig, dhcp : 0..255, by : {<<>>}]]
  /\ \A d, e \in Devices : Factory[d].mac = Factory[e].mac => d = e

VARIABLES
  device,      \* external: what each device is and how it is configured
  requests,    \* external: packets that a device has not heard yet
  answers,     \* external: packets on their way to an open socket
  call,        \* per caller: the call, its step, its round and what it gathered
  handle,      \* per caller: the list that a query or discovery returned
  outcome,     \* per caller: the result code of its last call
  reports,     \* history: every reply to a query that a device sent
  fate         \* history: what the device did with each set_config

vars == <<device, requests, answers, call, handle, outcome, reports, fate>>

(* Netmasks: the number of whole bytes of ones and the byte after them.      *)
LeadingOnes == {256 - 2^k : k \in 1..8}
WholeBytes(mask) == Max({k \in 0..4 : \A i \in 1..k : mask[i] = 255})
Leftover(mask) == IF WholeBytes(mask) = 4 THEN 0 ELSE mask[WholeBytes(mask) + 1]
(* A mutant: what follows the byte with the last ones is not looked at. *)
ValidNetmaskLoose(mask) == Leftover(mask) \in LeadingOnes
ValidNetmask(mask) ==
  /\ Leftover(mask) \in LeadingOnes
  /\ \A i \in WholeBytes(mask) + 2..4 : mask[i] = 0
Netmask(bytes, leftover) ==
  [i \in 1..4 |-> IF i <= bytes THEN 255 ELSE IF i = bytes + 1 THEN leftover ELSE 0]

(* The sum of a packet's 16-bit words as a little-endian machine reads them, *)
(* an odd byte at the end by itself, with the carries added back in. There   *)
(* are far fewer than 2^15 words, so that two foldings do.                   *)
LittleEndian(bytes) ==
  [i \in 1..(Len(bytes) + 1) \div 2 |->
     bytes[2*i - 1] + (IF 2*i <= Len(bytes) THEN 256 * bytes[2*i] ELSE 0)]
FoldCarry(sum) == (sum % 65536) + (sum \div 65536)
Total(words) ==
  LET sum[i \in 0..Len(words)] == IF i = 0 THEN 0 ELSE sum[i - 1] + words[i]
  IN sum[Len(words)]
(* A mutant: the carries are dropped. *)
ChecksumDroppingCarries(words) == Total(words) % 65536
Checksum(words) == FoldCarry(FoldCarry(Total(words)))

SetConfigBytes(data) ==
  <<CMD_SET_CONFIG>> \o data.mac \o data.serial \o data.ip \o data.gateway
    \o <<WholeBytes(data.netmask), Leftover(data.netmask), data.dhcp>>
WithChecksum(bytes) ==
  LET ck == 65535 - Checksum(LittleEndian(bytes)) IN bytes \o <<ck % 256, ck \div 256>>

(* What the answers hold, as the receiving callback reads it: the byte count *)
(* of a netmask is limited to four.                                          *)
Settings(report) ==
  [ip |-> report.part.ip, gateway |-> report.part.gateway,
   netmask |-> Netmask(Min({report.part.nmb, 4}), report.part.nmm)]
Zero == <<0, 0, 0, 0>>
NoSettings == [ip |-> Zero, gateway |-> Zero, netmask |-> Zero]

NewEntry(report) ==
  [mac |-> report.mac, serial |-> report.serial, query_response |-> FALSE, ipconfig_response |-> FALSE,
   config |-> NoSettings, firmware |-> 0, enable |-> 0, dhcp |-> 0, active |-> NoSettings]

(* A mutant: only the first half of the address is compared. *)
FoundVendor(list, mac) == {i \in DOMAIN list : SubSeq(list[i].mac, 1, 3) = SubSeq(mac, 1, 3)}
Found(list, mac) == {i \in DOMAIN list : list[i].mac = mac}
Index(list, mac) == IF Found(list, mac) = {} THEN Len(list) + 1 ELSE Min(Found(list, mac))
WithEntry(list, report) ==
  IF Found(list, report.mac) = {} THEN Append(list, NewEntry(report)) ELSE list

(* Each half of an entry is filled by the first reply of its kind.           *)
StoreQueryReply(e, report) ==
  IF e.query_response THEN e
  ELSE [e EXCEPT !.query_response = TRUE, !.mac = report.mac, !.serial = report.serial,
                 !.config = Settings(report), !.firmware = report.firmware, !.enable = report.enable]
StoreIpConfig(e, report) ==
  IF e.ipconfig_response THEN e
  ELSE [e EXCEPT !.ipconfig_response = TRUE, !.mac = report.mac, !.serial = report.serial,
                 !.active = Settings(report), !.dhcp = report.dhcp]

(* A discovery filters in the library too: a device need not honour it.      *)
(* A mutant: only one of the two kinds of reply is filtered. *)
PassesQueryReply(filter, report) ==
  report.cmd = CMD_QUERY_REPLY => \A key \in DOMAIN filter : filter[key] = report[key]
Passes(filter, report) == \A key \in DOMAIN filter : filter[key] = report[key]

(* Both calls sort what they gathered by address, byte by byte.              *)
Greater(a, b) ==
  \E k \in DOMAIN a : a[k] > b[k] /\ \A i \in 1..k - 1 : a[i] = b[i]
SwapIfGreater(list, j) ==
  IF Greater(list[j].mac, list[j + 1].mac)
  THEN [list EXCEPT ![j] = list[j + 1], ![j + 1] = list[j]] ELSE list
Pass(list, last) ==
  LET pass[j \in 0..last - 1] == IF j = 0 THEN list ELSE SwapIfGreater(pass[j - 1], j)
  IN pass[last - 1]
Sorted(list) ==
  LET sorted[k \in 0..Len(list)] ==
        IF k = 0 THEN list ELSE Pass(sorted[k - 1], Len(list) + 1 - k)
  IN sorted[Len(list)]

(* eth32cfg_query takes every entry of a firmware below 3 for one of a       *)
(* device without DHCP.                                                      *)
FillActive(e) == IF e.firmware < 3 THEN [e EXCEPT !.dhcp = 0, !.active = e.config] ELSE e
Finished(name, list) ==
  IF name = "query" THEN [i \in DOMAIN list |-> FillActive(Sorted(list)[i])] ELSE Sorted(list)

-----------------------------------------------------------------------------
(* The devices. An answer that finds its socket closed is dropped.           *)
QueryReply(d, to) ==
  [to |-> to, cmd |-> CMD_QUERY_REPLY, mac |-> device[d].mac, serial |-> device[d].serial,
   part |-> device[d].config, firmware |-> device[d].firmware, enable |-> device[d].enable]
IpConfReply(d, to) ==
  [to |-> to, cmd |-> CMD_IPCONF_REPLY, mac |-> device[d].mac, serial |-> device[d].serial,
   part |-> device[d].active, dhcp |-> device[d].dhcp]
Confirm(d, to, status) == [to |-> to, cmd |-> CMD_CONFIRM, mac |-> device[d].mac, status |-> status]

Id(c) == <<c, call[c].number>>
CallIds == UNION {{c} \X (1..Len(Script[c])) : c \in Callers}
Open(id) == call[id[1]].step = "receive" /\ Id(id[1]) = id
Say(report) ==
  /\ answers' = IF Open(report.to) THEN answers \cup {report} ELSE answers
  /\ reports' = IF report.cmd = CMD_CONFIRM THEN reports ELSE reports \cup {report}

(* A device checks the packet as RFC 1071 has it, in network byte order.     *)
NetworkOrder(bytes) == [i \in 1..Len(bytes) \div 2 |-> 256 * bytes[2*i - 1] + bytes[2*i]]
Intact(bytes) == FoldCarry(FoldCarry(Total(NetworkOrder(bytes)))) = 65535
Accepts(d, r) == device[d].enable = 1 /\ Intact(r.bytes)
Configured(d, r) ==
  LET config == [ip |-> SubSeq(r.bytes, 12, 15), gateway |-> SubSeq(r.bytes, 16, 19),
                 nmb |-> r.bytes[20], nmm |-> r.bytes[21]]
      dhcp == r.bytes[22]
  IN [device[d] EXCEPT !.config = config, !.dhcp = dhcp, !.by = r.from,
                       !.active = IF dhcp = 0 THEN config ELSE @]

HearQuery(d, r) ==
  /\ r.cmd = CMD_QUERY
  /\ Say(QueryReply(d, r.from))
  /\ UNCHANGED <<device, fate>>
HearIpConfQuery(d, r) ==
  /\ r.cmd = CMD_IPCONF_QUERY
  /\ device[d].firmware >= 3
  /\ Say(IpConfReply(d, r.from))
  /\ UNCHANGED <<device, fate>>
HearSetConfig(d, r) ==
  /\ r.cmd = CMD_SET_CONFIG
  /\ SubSeq(r.bytes, 2, 7) = device[d].mac
  /\ fate' = [fate EXCEPT ![r.from] = IF Accepts(d, r) THEN "applied" ELSE "refused"]
  /\ device' = [device EXCEPT ![d] = IF Accepts(d, r) THEN Configured(d, r) ELSE @]
  /\ Say(Confirm(d, r.from, IF Accepts(d, r) THEN 1 ELSE 0))
Hear(d) ==
  \E r \in requests :
    /\ r.at = d
    /\ requests' = requests \ {r}
    /\ HearQuery(d, r) \/ HearIpConfQuery(d, r) \/ HearSetConfig(d, r)
    /\ UNCHANGED <<call, handle, outcome>>

-----------------------------------------------------------------------------
(* The calls.                                                                *)
NewCall(x, step, number) == [asks |-> x, step |-> step, number |-> number, round |-> 0, list |-> <<>>]
Idle == NewCall([name |-> "none", filter |-> <<>>], "idle", 0)
NoHandle == [valid |-> FALSE, list |-> <<>>]

Calling(c) ==
  IF call[c].number < Len(Script[c]) THEN Script[c][call[c].number + 1] ELSE {}

Rounds(c) == IF call[c].asks.name = "set_config" THEN 1 ELSE QUERYCOUNT

(* eth32cfg_free; a program frees its list before it asks for another.       *)
Free(c) ==
  /\ call[c].step = "idle"
  /\ handle[c].valid
  /\ handle' = [handle EXCEPT ![c] = NoHandle]
  /\ UNCHANGED <<device, requests, answers, call, outcome, reports, fate>>

(* A netmask with a gap is refused before anything is sent, and the call     *)
(* fails when it cannot have a broadcast socket.                             *)
Started(c, x, step) == NewCall(x, step, call[c].number + 1)
Begin(c) ==
  \E x \in Calling(c) :
    /\ call[c].step = "idle"
    /\ ~handle[c].valid
    /\ \/ /\ x.name = "set_config"
          /\ ~ValidNetmask(x.data.netmask)
          /\ call' = [call EXCEPT ![c] = Started(c, x, "idle")]
          /\ outcome' = [outcome EXCEPT ![c] = "ETH_INVALID_NETMASK"]
       \/ /\ x.name = "set_config" => ValidNetmask(x.data.netmask)
          /\ call' = [call EXCEPT ![c] = Started(c, x, "send")]
          /\ outcome' = [outcome EXCEPT ![c] = "none"]
       \/ /\ x.name = "set_config" => ValidNetmask(x.data.netmask)
          /\ call' = [call EXCEPT ![c] = Started(c, x, "idle")]
          /\ outcome' = [outcome EXCEPT ![c] = "ETH_WINSOCK_ERROR"]
    /\ UNCHANGED <<device, requests, answers, handle, reports, fate>>

(* One packet of each kind the call sends, to every device. What a query     *)
(* holds besides its kind is left out.                                       *)
Kinds(c) ==
  CASE call[c].asks.name = "query" -> {CMD_QUERY, CMD_IPCONF_QUERY}
    [] call[c].asks.name = "discover_ip" -> {CMD_IPCONF_QUERY}
    [] call[c].asks.name = "set_config" -> {CMD_SET_CONFIG}
Contents(c) ==
  IF call[c].asks.name = "set_config" THEN WithChecksum(SetConfigBytes(call[c].asks.data)) ELSE <<>>
Send(c) ==
  /\ call[c].step = "send"
  /\ requests' = requests \cup
       {[cmd |-> k, from |-> Id(c), at |-> d, bytes |-> Contents(c)] : k \in Kinds(c), d \in Devices}
  /\ call' = [call EXCEPT ![c].step = "receive", ![c].round = @ + 1]
  /\ UNCHANGED <<device, answers, handle, outcome, reports, fate>>

(* The socket closes: what was on its way to it is lost, and no answer to an *)
(* unheard query would find it open.                                         *)
Close(c) ==
  /\ answers' = {a \in answers : a.to /= Id(c)}
  /\ requests' = {r \in requests : r.from /= Id(c) \/ r.cmd = CMD_SET_CONFIG}
Ends(c, code, list) ==
  /\ call' = [call EXCEPT ![c].step = "idle", ![c].list = <<>>]
  /\ outcome' = [outcome EXCEPT ![c] = code]
  /\ handle' = IF call[c].asks.name /= "set_config" /\ code = "ok"
               THEN [handle EXCEPT ![c] = [valid |-> TRUE, list |-> Finished(call[c].asks.name, list)]] ELSE handle
  /\ Close(c)

(* A set_config that hears nothing says so; a query returns what it has.     *)
TimeOut(c) ==
  /\ call[c].step = "receive"
  /\ IF call[c].round < Rounds(c)
     THEN /\ call' = [call EXCEPT ![c].step = "send"]
          /\ UNCHANGED <<requests, answers, handle, outcome>>
     ELSE Ends(c, IF call[c].asks.name = "set_config" THEN "ETH_CFG_NOACK" ELSE "ok", call[c].list)
  /\ UNCHANGED <<device, reports, fate>>

Continue(c, a, list) ==
  /\ call' = [call EXCEPT ![c].list = list]
  /\ answers' = answers \ {a}
  /\ UNCHANGED <<requests, handle, outcome>>

(* query_recv_callback: a discovery with a filter stops at the first address *)
(* it stores, and a list that cannot grow ends the call.                     *)
Gather(c, a) ==
  LET list == call[c].list
      i == Index(list, a.mac)
      stored == [WithEntry(list, a) EXCEPT
                   ![i] = IF a.cmd = CMD_QUERY_REPLY THEN StoreQueryReply(@, a) ELSE StoreIpConfig(@, a)]
      complete == /\ DOMAIN call[c].asks.filter /= {}
                  /\ a.cmd = CMD_IPCONF_REPLY
                  /\ ~WithEntry(list, a)[i].ipconfig_response
  IN /\ a.cmd \in {CMD_QUERY_REPLY, CMD_IPCONF_REPLY}
     /\ \/ ~Passes(call[c].asks.filter, a) /\ Continue(c, a, list)
        \/ Passes(call[c].asks.filter, a) /\ ~complete /\ Continue(c, a, stored)
        \/ Passes(call[c].asks.filter, a) /\ complete /\ Ends(c, "ok", stored)
        \/ Passes(call[c].asks.filter, a) /\ Found(list, a.mac) = {} /\ Ends(c, "ETH_MALLOC_ERROR", list)

(* set_config_recv_callback: a confirmation names no device.                 *)
TakeConfirm(c, a) ==
  /\ a.cmd = CMD_CONFIRM
  /\ Ends(c, IF a.status = 0 THEN "ETH_CFG_REJECT" ELSE "ok", <<>>)

Receive(c) ==
  /\ call[c].step = "receive"
  /\ \E a \in answers :
       /\ a.to = Id(c)
       /\ Gather(c, a) \/ TakeConfirm(c, a)
  /\ UNCHANGED <<device, reports, fate>>

Init ==
  /\ device = Factory
  /\ requests = {} /\ answers = {} /\ reports = {}
  /\ call = [c \in Callers |-> Idle]
  /\ handle = [c \in Callers |-> NoHandle]
  /\ outcome = [c \in Callers |-> "none"]
  /\ fate = [id \in CallIds |-> "none"]
Next ==
  \/ \E d \in Devices : Hear(d)
  \/ \E c \in Callers : Begin(c) \/ Send(c) \/ TimeOut(c) \/ Receive(c) \/ Free(c)
Spec == Init /\ [][Next]_vars

-----------------------------------------------------------------------------
(* What a caller may rely on.                                                *)
Returned(c) == handle[c].list
Reported(c, cmd) == {r \in reports : r.to = Id(c) /\ r.cmd = cmd}

(* Every entry of a returned list is of one device, in the order of their    *)
(* addresses, and each half of it is what that device reported in one reply  *)
(* to this call, or empty when that reply was lost: late and repeated        *)
(* replies of four rounds never make a device appear twice, mix two devices  *)
(* or mix two configurations of one (query_replies_find,                     *)
(* query_recv_callback, the sort). The exception is the active half after    *)
(* eth32cfg_query (not eth32cfg_discover_ip) of an entry whose firmware is   *)
(* below 3, or unknown for want of a query reply: it is a copy of the        *)
(* configured half without DHCP, which is all zeros in the second case       *)
(* although the device may have reported it.                                 *)
Overwritten(c, e) == call[c].asks.name = "query" /\ e.firmware < 3
EntryIsReported(c, e) ==
  /\ e.query_response \/ e.ipconfig_response
  /\ IF e.query_response
     THEN \E r \in Reported(c, CMD_QUERY_REPLY) :
            /\ e.mac = r.mac /\ e.serial = r.serial /\ e.config = Settings(r)
            /\ e.firmware = r.firmware /\ e.enable = r.enable
     ELSE e.config = NoSettings /\ e.firmware = 0 /\ e.enable = 0
  /\ e.ipconfig_response =>
       \E r \in Reported(c, CMD_IPCONF_REPLY) :
         /\ e.mac = r.mac /\ e.serial = r.serial
         /\ Overwritten(c, e) \/ (e.active = Settings(r) /\ e.dhcp = r.dhcp)
  /\ ~e.ipconfig_response /\ ~Overwritten(c, e) => e.active = NoSettings /\ e.dhcp = 0
  /\ Overwritten(c, e) => e.active = e.config /\ e.dhcp = 0
EntriesAreReported ==
  \A c \in Callers :
    /\ \A i \in DOMAIN Returned(c) : EntryIsReported(c, Returned(c)[i])
    /\ \A i, j \in DOMAIN Returned(c) : i < j => Greater(Returned(c)[j].mac, Returned(c)[i].mac)

(* A discovery returns only devices that match all of its filter, although   *)
(* devices that do not answer it too (query_recv_callback).                  *)
OnlyMatches ==
  \A c \in Callers :
    \A i \in DOMAIN Returned(c) :
      \A key \in DOMAIN call[c].asks.filter : Returned(c)[i][key] = call[c].asks.filter[key]

(* The result of set_config is true of this call and no other: success means *)
(* the device applied it, a rejection that the device, locked, did not; a    *)
(* late answer to an earlier call never counts (eth32cfg_cmd_response opens  *)
(* a socket for each call, set_config_recv_callback checks nothing).         *)
OutcomeIsTrue ==
  \A c \in Callers :
    call[c].asks.name = "set_config" /\ call[c].step = "idle" =>
      /\ outcome[c] = "ok" => fate[Id(c)] = "applied"
      /\ outcome[c] = "ETH_CFG_REJECT" =>
           /\ fate[Id(c)] = "refused"
           /\ \E d \in Devices : device[d].mac = call[c].asks.data.mac /\ device[d].enable = 0

(* A device that was last configured by a call reports what the call asked   *)
(* for, whatever its netmask: taking it apart and putting it together again  *)
(* agree, and a mask with a gap reaches no device (eth32cfg_netmask_breakup).*)
SetIsReported ==
  \A c \in Callers, d \in Devices :
    device[d].by = Id(c) =>
      Settings(QueryReply(d, Id(c))) =
        [ip |-> call[c].asks.data.ip, gateway |-> call[c].asks.data.gateway, netmask |-> call[c].asks.data.netmask]

(* The active settings of an entry are those the device reported, unless its *)
(* firmware has no DHCP, as the comment in eth32cfg_query has it: "if there  *)
(* are any responses from devices with firmware <3.0 then we will fill in    *)
(* the "active" settings". An entry whose query reply was lost has firmware  *)
(* 0, and its active settings are overwritten with zeros.                    *)
ActiveIsReported ==
  \A c \in Callers :
    \A i \in DOMAIN Returned(c) :
      Returned(c)[i].ipconfig_response =>
        \E r \in Reported(c, CMD_IPCONF_REPLY) :
          r.mac = Returned(c)[i].mac /\ Returned(c)[i].active = Settings(r)
=============================================================================
