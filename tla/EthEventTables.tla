-------------------------- MODULE EthEventTables --------------------------
(* Which events the ETH32 sends and which of them reach the application: the *)
(* tables of eth32_enable_event, eth32_disable_event and eth32_reset, the    *)
(* masks of the device they are meant to match, and the decoding of what the *)
(* device reports.  The events decoded here go on to EthEvents.              *)
EXTENDS Integers, Sequences, FiniteSetsExt

CONSTANTS
  Configurers,  \* threads that enable and disable events
  Requests,     \* what they may ask for
  CallsMade,    \* bound: the calls they make together
  Levels,       \* values a digital port takes, as sets of bits
  Reports,      \* packets of the device that are not about digital ports
  ReportsMade,  \* bound: the changes and other reports of the device
  MayFail       \* whether a write can fail

Bits == 0 .. 7
NUM_DIGPORTS == 4
NUM_COUNTERS == 2
EVT_INDEX_ANALOG_0 == 4
EVT_INDEX_COUNTER_ROLLOVER == 6
EVT_INDEX_COUNTER_EVENT == 7
PortEvent(p) == [kind |-> "port", index |-> p, bits |-> Bits]
BitEvent(index, b) == [kind |-> "bit", index |-> index, bits |-> {b}]
Heartbeat == [kind |-> "heartbeat", index |-> 8, bits |-> {}]
Nothing == [kind |-> "none", index |-> 8, bits |-> {}]

VARIABLES
  table,      \* the id of every enabled event: evt_ports, evt_bit, evt_heartbeat
  mask,       \* bits the device reports, for every index
  toDevice,   \* commands on their way
  fromDevice, \* reports on their way
  level,      \* value of the digital ports
  unseen,     \* bits whose last change the device did not report
  told,       \* what the application was last told under each id
  confirmed,  \* events whose enabling returned success, until disabled
  call,       \* what each configurer is doing
  made, reported

vars == <<table, mask, toDevice, fromDevice, level, unseen, told, confirmed, call, made, reported>>

-----------------------------------------------------------------------------
(* The event a request is about, or the error it is refused with.            *)
Refused(r) ==
  CASE r.type = "digital" -> IF r.port \notin 0 .. NUM_DIGPORTS - 1 THEN "ETH_INVALID_PORT"
                             ELSE IF r.bit \notin -1 .. 7 THEN "ETH_INVALID_BIT" ELSE "none"
    [] r.type = "analog" -> IF r.port \notin {0, 1} THEN "ETH_INVALID_PORT"
                            ELSE IF r.bit \notin Bits THEN "ETH_INVALID_CHANNEL" ELSE "none"
    [] r.type = "rollover" -> IF r.port \notin 0 .. NUM_COUNTERS - 1 THEN "ETH_INVALID_PORT" ELSE "none"
    [] r.type = "threshold" -> IF r.port # 0 THEN "ETH_INVALID_PORT" ELSE "none"
    [] r.type = "heartbeat" -> "none"
    [] OTHER -> "ETH_INVALID_OTHER"

Event(r) ==
  CASE r.type = "digital" -> IF r.bit = -1 THEN PortEvent(r.port) ELSE BitEvent(r.port, r.bit)
    [] r.type = "analog" -> BitEvent(EVT_INDEX_ANALOG_0 + r.port, r.bit)
    [] r.type = "rollover" -> BitEvent(EVT_INDEX_COUNTER_ROLLOVER, r.port)
    [] r.type = "threshold" -> BitEvent(EVT_INDEX_COUNTER_EVENT, r.port)
    [] r.type = "heartbeat" -> Heartbeat

(* Values are of eight bits, the bank of an analog report is one, reports    *)
(* about digital ports come from Change, and the application gives different *)
(* events different ids, so that what it was told under one is about one.    *)
ASSUME TablesAssumption ==
  /\ Levels \subseteq SUBSET Bits
  /\ \A p \in Reports : \/ p.kind \in {"EVT_COUNT", "EVT_HEART"}
                        \/ p.kind = "EVT_ANLG" /\ p.bank \in {0, 1}
                        \/ p.kind = "EVT_DIGI" /\ p.port >= NUM_DIGPORTS
  /\ \A r, s \in Requests :
       Refused(r) = "none" /\ Refused(s) = "none" /\ r.id = s.id => Event(r) = Event(s)

Enabled(e) == e \in DOMAIN table
EnabledBits(port) == {b \in Bits : Enabled(BitEvent(port, b))}
Digital(e) == e.index < NUM_DIGPORTS
Without(f, S) == [k \in DOMAIN f \ S |-> f[k]]

Idle == [doing |-> "nothing", event |-> Nothing, keep |-> {}]

-----------------------------------------------------------------------------
(* The table changes before the command goes out, and stays changed when the *)
(* command cannot.  A heartbeat needs no command.                            *)
Enable(t, r) ==
  /\ call[t] = Idle /\ made < CallsMade
  /\ IF Refused(r) # "none" THEN UNCHANGED <<table, call, confirmed, told, made>>
     ELSE LET e == Event(r) IN
          /\ made' = made + 1
          /\ table' = [k \in DOMAIN table \cup {e} |-> IF k = e THEN r.id ELSE table[k]]
          /\ told' = IF Enabled(e) THEN Without(told, {table[e]}) ELSE told
          /\ IF e = Heartbeat
             THEN confirmed' = confirmed \cup {e} /\ UNCHANGED call
             ELSE call' = [call EXCEPT ![t] = [doing |-> "enabling", event |-> e, keep |-> {}]] /\ UNCHANGED confirmed
  /\ UNCHANGED <<mask, toDevice, fromDevice, level, unseen, reported>>

Disable(t, r) ==
  /\ call[t] = Idle /\ made < CallsMade
  /\ IF Refused(r) # "none" THEN UNCHANGED <<table, call, confirmed, told, made>>
     ELSE LET e == Event(r) IN
          /\ made' = made + 1
          /\ table' = Without(table, {e})
          /\ told' = IF Enabled(e) THEN Without(told, {table[e]}) ELSE told
          /\ confirmed' = confirmed \ {e}
          /\ call' = IF e = Heartbeat THEN call
                     ELSE [call EXCEPT ![t] = [doing |-> "masking", event |-> e, keep |-> {}]]
  /\ UNCHANGED <<mask, toDevice, fromDevice, level, unseen, reported>>

(* The bits the device shall go on reporting: those of the other events of   *)
(* the port.                                                                 *)
(* A mutant: disabling a port event takes the events of its bits along.      *)
KeepNone(e) ==
  IF e.kind = "port" THEN {}
  ELSE IF Digital(e) /\ Enabled(PortEvent(e.index)) THEN Bits ELSE Bits \ e.bits
Keep(e) ==
  IF e.kind = "port" THEN EnabledBits(e.index)
  ELSE IF Digital(e) /\ Enabled(PortEvent(e.index)) THEN Bits ELSE Bits \ e.bits

ChooseMask(t) ==
  /\ call[t].doing = "masking"
  /\ LET e == call[t].event IN
     call' = [call EXCEPT ![t] = IF Digital(e) /\ Keep(e) = Bits THEN Idle
                                 ELSE [doing |-> "disabling", event |-> e, keep |-> Keep(e)]]
  /\ UNCHANGED <<table, mask, toDevice, fromDevice, level, unseen, told, confirmed, made, reported>>

Reset(t) ==
  /\ call[t] = Idle /\ made < CallsMade
  /\ made' = made + 1
  /\ call' = [call EXCEPT ![t] = [doing |-> "resetting", event |-> Nothing, keep |-> {}]]
  /\ UNCHANGED <<table, mask, toDevice, fromDevice, level, unseen, told, confirmed, reported>>

(* eth32_write_data of the command; the reset forgets the table afterwards.  *)
Command(t) == [name |-> call[t].doing, event |-> call[t].event, keep |-> call[t].keep]
Write(t) ==
  /\ call[t].doing \in {"enabling", "disabling", "resetting"}
  /\ toDevice' = Append(toDevice, Command(t))
  /\ call' = [call EXCEPT ![t] = IF @.doing = "resetting" THEN [@ EXCEPT !.doing = "forgetting"] ELSE Idle]
  /\ confirmed' = IF call[t].doing = "enabling" /\ Enabled(call[t].event)
                  THEN confirmed \cup {call[t].event} ELSE confirmed
  /\ UNCHANGED <<table, mask, fromDevice, level, unseen, told, made, reported>>

WriteFails(t) ==
  /\ MayFail
  /\ call[t].doing \in {"enabling", "disabling", "resetting"}
  /\ call' = [call EXCEPT ![t] = Idle]
  /\ UNCHANGED <<table, mask, toDevice, fromDevice, level, unseen, told, confirmed, made, reported>>

Forget(t) ==
  /\ call[t].doing = "forgetting"
  /\ table' = <<>> /\ told' = <<>> /\ confirmed' = {}
  /\ call' = [call EXCEPT ![t] = Idle]
  /\ UNCHANGED <<mask, toDevice, fromDevice, level, unseen, made, reported>>

-----------------------------------------------------------------------------
(* The device: EEVT adds bits, DEVT leaves the bits it names, RST none.      *)
Masked(m, c) ==
  CASE c.name = "enabling" -> [m EXCEPT ![c.event.index] = @ \cup c.event.bits]
    [] c.name = "disabling" -> [m EXCEPT ![c.event.index] = @ \cap c.keep]
    [] c.name = "resetting" -> [i \in DOMAIN m |-> {}]
Execute ==
  /\ toDevice # <<>>
  /\ mask' = Masked(mask, Head(toDevice))
  /\ toDevice' = Tail(toDevice)
  /\ UNCHANGED <<table, fromDevice, level, unseen, told, confirmed, call, made, reported>>

Differing(a, b) == (a \ b) \cup (b \ a)
Change(port, new) ==
  /\ reported < ReportsMade /\ new # level[port]
  /\ level' = [level EXCEPT ![port] = new]
  /\ LET changed == Differing(new, level[port]) \cap mask[port] IN
     /\ fromDevice' = IF changed = {} THEN fromDevice
                      ELSE Append(fromDevice, [kind |-> "EVT_DIGI", port |-> port, new |-> new, changed |-> changed])
     /\ unseen' = {u \in unseen : u[1] # port \/ u[2] \notin changed}
                   \cup {<<port, b>> : b \in Differing(new, level[port]) \ changed}
  /\ reported' = reported + 1
  /\ UNCHANGED <<table, mask, toDevice, told, confirmed, call, made>>

Report(packet) ==
  /\ reported < ReportsMade
  /\ fromDevice' = Append(fromDevice, packet)
  /\ reported' = reported + 1
  /\ UNCHANGED <<table, mask, toDevice, level, unseen, told, confirmed, call, made>>

-----------------------------------------------------------------------------
(* eth32_process_event: what the application is told, under which id.        *)
Value(bits) == SumSet({2 ^ b : b \in bits})
EventsOfPort(p) ==
  IF ~Enabled(PortEvent(p.port)) THEN {}
  ELSE LET prev == Differing(p.new, p.changed) IN
       {[id |-> table[PortEvent(p.port)], value |-> Value(p.new), prev_value |-> Value(prev),
         direction |-> IF Value(p.new) > Value(prev) THEN 1 ELSE -1]}
EventOfBit(p, b) ==
  LET up == b \in p.new IN
  [id |-> table[BitEvent(p.port, b)], value |-> IF up THEN 1 ELSE 0, prev_value |-> IF up THEN 0 ELSE 1,
   direction |-> IF up THEN 1 ELSE -1]
(* A mutant: of the bits that changed only the lowest one is looked at.      *)
EventsOfLowestBit(p) ==
  LET wanted == p.changed \cap EnabledBits(p.port) IN
  {EventOfBit(p, b) : b \in {b \in wanted : \A c \in p.changed : b <= c}}
EventsOfBits(p) == {EventOfBit(p, b) : b \in p.changed \cap EnabledBits(p.port)}

(* An analog packet carries ten bits of each value, the low two packed apart.*)
EventsOfAnalog(p) ==
  LET e == BitEvent(EVT_INDEX_ANALOG_0 + p.bank, p.channel) IN
  IF ~Enabled(e) THEN {}
  ELSE {[id |-> table[e], value |-> p.high * 4 + (p.low \div 64), prev_value |-> p.prevHigh * 4 + (p.low % 4),
         direction |-> IF p.rising THEN 1 ELSE -1]}

EventsOfCounter(p) ==
  LET e == BitEvent(IF p.which = 0 THEN EVT_INDEX_COUNTER_ROLLOVER ELSE EVT_INDEX_COUNTER_EVENT, p.counter) IN
  IF p.counter >= NUM_COUNTERS \/ p.which \notin {0, 1} \/ ~Enabled(e) THEN {}
  ELSE {[id |-> table[e], value |-> p.value, prev_value |-> 0, direction |-> 0]}

ProcessEvent(p) ==
  CASE p.kind = "EVT_DIGI" -> IF p.port >= NUM_DIGPORTS THEN {} ELSE EventsOfPort(p) \cup EventsOfBits(p)
    [] p.kind = "EVT_ANLG" -> EventsOfAnalog(p)
    [] p.kind = "EVT_COUNT" -> EventsOfCounter(p)
    [] p.kind = "EVT_HEART" -> IF Enabled(Heartbeat)
         THEN {[id |-> table[Heartbeat], value |-> 0, prev_value |-> 0, direction |-> 0]} ELSE {}

Receive ==
  /\ fromDevice # <<>>
  /\ LET events == ProcessEvent(Head(fromDevice))  ids == {v.id : v \in events} IN
     told' = [i \in DOMAIN told \cup ids |-> IF i \in ids THEN (CHOOSE v \in events : v.id = i).value ELSE told[i]]
  /\ fromDevice' = Tail(fromDevice)
  /\ UNCHANGED <<table, mask, toDevice, level, unseen, confirmed, call, made, reported>>

-----------------------------------------------------------------------------
Init ==
  /\ table = <<>> /\ told = <<>> /\ confirmed = {}
  /\ mask = [i \in 0 .. 7 |-> {}] /\ unseen = {} /\ level = [p \in 0 .. NUM_DIGPORTS - 1 |-> {}]
  /\ toDevice = <<>> /\ fromDevice = <<>>
  /\ call = [t \in Configurers |-> Idle] /\ made = 0 /\ reported = 0

Next ==
  \/ \E t \in Configurers : \/ \E r \in Requests : Enable(t, r) \/ Disable(t, r)
                            \/ Reset(t) \/ ChooseMask(t) \/ Write(t) \/ WriteFails(t) \/ Forget(t)
  \/ \E p \in DOMAIN level, new \in Levels : Change(p, new)
  \/ \E packet \in Reports : Report(packet)
  \/ Execute \/ Receive
Spec == Init /\ [][Next]_vars

-----------------------------------------------------------------------------
AtRest == \A t \in Configurers : call[t] = Idle

(* An event whose enabling was confirmed to the application is one the       *)
(* device reports once it has read what is on its way, whatever was enabled, *)
(* disabled or failed for the same port since: the commands sent from the    *)
(* table never take it away.                                                 *)
ConfirmedAreReported ==
  AtRest /\ toDevice = <<>> => \A e \in confirmed \ {Heartbeat} : e.bits \subseteq mask[e.index]

(* Once the application was told the value of a bit, what it believes is     *)
(* what the port has, as soon as nothing is on its way: no change the device *)
(* reported is lost or overtaken while tables and masks change under it.     *)
(* (A port event has no such property: its value may have been told while    *)
(* its command was still on the way.)                                        *)
ViewFollowsDevice ==
  AtRest /\ toDevice = <<>> /\ fromDevice = <<>> =>
    \A e \in DOMAIN table :
      Digital(e) /\ e.kind = "bit" /\ table[e] \in DOMAIN told /\ (\A b \in e.bits : <<e.index, b>> \notin unseen) =>
        told[table[e]] = IF e.bits \subseteq level[e.index] THEN 1 ELSE 0
=============================================================================
