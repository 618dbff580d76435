------------------------ MODULE EthEventTablesProofs ------------------------
(* Theorems about the events the ETH32 sends and the library passes on, for  *)
(* any requests, any values and any number of calls and reports.             *)
EXTENDS EthEventTables, SequenceTheorems, TLAPS

Indices == 0 .. 7
Ports == 0 .. NUM_DIGPORTS - 1
Maskable == {PortEvent(p) : p \in Ports} \cup {BitEvent(i, b) : i \in Indices, b \in Bits}
Events == Maskable \cup {Heartbeat}
Commands == {c \in [name : {"enabling", "disabling", "resetting"}, event : Events \cup {Nothing}, keep : SUBSET Bits] :
               c.name # "resetting" => c.event \in Maskable}
Changes == [kind : {"EVT_DIGI"}, port : Ports, new : SUBSET Bits, changed : SUBSET Bits]
Packets == Reports \cup Changes
CallStates ==
  {c \in [doing : {"nothing", "enabling", "masking", "disabling", "resetting", "forgetting"},
          event : Events \cup {Nothing}, keep : SUBSET Bits] :
     c.doing \in {"enabling", "masking", "disabling"} => c.event \in Maskable}

(* An event is in the table under an id of a request that names it.          *)
Named(e, id) == \E r \in Requests : Refused(r) = "none" /\ Event(r) = e /\ r.id = id

-----------------------------------------------------------------------------
(* The inductive invariant of any number of configurers.                     *)
DeviceTyped ==
  /\ mask \in [Indices -> SUBSET Bits] /\ level \in [Ports -> SUBSET Bits]
  /\ toDevice \in Seq(Commands) /\ fromDevice \in Seq(Packets)
TablesTyped ==
  /\ \A e \in DOMAIN table : e \in Events /\ Named(e, table[e])
  /\ call \in [Configurers -> CallStates]
  /\ confirmed \subseteq DOMAIN table
TypeInv == DeviceTyped /\ TablesTyped

(* A bit that a packet on its way is about, and whether the packet is the    *)
(* last such one.                                                            *)
About(p, port, b) == p.kind = "EVT_DIGI" /\ p.port = port /\ b \in p.changed
LastAbout(k, port, b) ==
  /\ k \in DOMAIN fromDevice /\ About(fromDevice[k], port, b)
  /\ \A l \in DOMAIN fromDevice : l > k => ~About(fromDevice[l], port, b)

(* The last packet about a bit has its value; when there is none, what was   *)
(* told is its value.  Who was told is in the table.                         *)
WireTrue ==
  \A port \in Ports, b \in Bits :
    <<port, b>> \notin unseen =>
      \A k \in DOMAIN fromDevice : LastAbout(k, port, b) => (b \in fromDevice[k].new <=> b \in level[port])
ToldTrue ==
  \A port \in Ports, b \in Bits :
    LET e == BitEvent(port, b) IN
    /\ <<port, b>> \notin unseen
    /\ \A k \in DOMAIN fromDevice : ~About(fromDevice[k], port, b)
    /\ e \in DOMAIN table /\ table[e] \in DOMAIN told
    => told[table[e]] = IF b \in level[port] THEN 1 ELSE 0
ToldAreEnabled == \A i \in DOMAIN told : \E e \in DOMAIN table : table[e] = i
ViewInv == TypeInv /\ WireTrue /\ ToldTrue /\ ToldAreEnabled

-----------------------------------------------------------------------------
(* The inductive invariant of one configurer: what the device will report    *)
(* when the commands q have reached a device with masks m.                   *)
Adds(c, i, b) == c.name = "enabling" /\ c.event.index = i /\ b \in c.event.bits
Drops(c, i, b) == \/ c.name = "resetting"
                  \/ c.name = "disabling" /\ c.event.index = i /\ b \notin c.keep
WillReport(m, q, i, b) ==
  \/ b \in m[i] /\ \A k \in DOMAIN q : ~Drops(q[k], i, b)
  \/ \E k \in DOMAIN q : Adds(q[k], i, b) /\ \A l \in DOMAIN q : l > k => ~Drops(q[l], i, b)

WillAllReport(t) ==
  call[t].doing # "forgetting" =>
    \A e \in confirmed \ {Heartbeat} : \A b \in e.bits : WillReport(mask, toDevice, e.index, b)
KeepsConfirmed(t) ==
  /\ call[t].doing = "masking" => call[t].event \notin DOMAIN table
  /\ call[t].doing = "disabling" =>
       \A e \in confirmed \ {Heartbeat} : e.index = call[t].event.index => e.bits \subseteq call[t].keep
MaskInv(t) == TypeInv /\ WillAllReport(t) /\ KeepsConfirmed(t)

-----------------------------------------------------------------------------
(* Events                                                                    *)

LEMMA RequestsAreEvents ==
  ASSUME NEW r \in Requests, Refused(r) = "none"
  PROVE  /\ Event(r) \in Events
         /\ Named(Event(r), r.id)
         /\ Event(r) # Heartbeat => Event(r) \in Maskable
<1>1. r.type \in {"digital", "analog", "rollover", "threshold", "heartbeat"}
  BY DEF Refused
<1>2. CASE r.type = "digital"
  <2>1. r.port \in Ports /\ r.bit \in -1 .. 7
    BY <1>2 DEF Refused, Ports
  <2>2. Event(r) = IF r.bit = -1 THEN PortEvent(r.port) ELSE BitEvent(r.port, r.bit)
    BY <1>2 DEF Event
  <2>3. r.bit # -1 => r.bit \in Bits /\ r.port \in Indices
    BY <2>1 DEF Bits, Ports, Indices, NUM_DIGPORTS
  <2> QED
    BY <2>1, <2>2, <2>3 DEF Events, Maskable, Named
<1>3. CASE r.type = "analog"
  <2>1. r.port \in {0, 1} /\ r.bit \in Bits
    BY <1>3 DEF Refused
  <2>2. EVT_INDEX_ANALOG_0 + r.port \in Indices
    BY <2>1 DEF Indices, EVT_INDEX_ANALOG_0
  <2>3. Event(r) = BitEvent(EVT_INDEX_ANALOG_0 + r.port, r.bit)
    BY <1>3 DEF Event
  <2> QED
    BY <2>1, <2>2, <2>3 DEF Events, Maskable, Named
<1>4. CASE r.type = "rollover"
  <2>1. r.port \in Bits
    BY <1>4 DEF Refused, NUM_COUNTERS, Bits
  <2>2. EVT_INDEX_COUNTER_ROLLOVER \in Indices
    BY DEF Indices, EVT_INDEX_COUNTER_ROLLOVER
  <2>3. Event(r) = BitEvent(EVT_INDEX_COUNTER_ROLLOVER, r.port)
    BY <1>4 DEF Event
  <2> QED
    BY <2>1, <2>2, <2>3 DEF Events, Maskable, Named
<1>5. CASE r.type = "threshold"
  <2>1. r.port \in Bits
    BY <1>5 DEF Refused, Bits
  <2>2. EVT_INDEX_COUNTER_EVENT \in Indices
    BY DEF Indices, EVT_INDEX_COUNTER_EVENT
  <2>3. Event(r) = BitEvent(EVT_INDEX_COUNTER_EVENT, r.port)
    BY <1>5 DEF Event
  <2> QED
    BY <2>1, <2>2, <2>3 DEF Events, Maskable, Named
<1>6. CASE r.type = "heartbeat"
  BY <1>6 DEF Event, Events, Named
<1> QED
  BY <1>1, <1>2, <1>3, <1>4, <1>5, <1>6

(* What the invariant needs to know of the shape of events.                  *)
LEMMA EventShapes ==
  /\ \A e \in Maskable : e # Heartbeat /\ e.index \in Indices /\ e.bits \subseteq Bits
  /\ \A i, b : BitEvent(i, b).index = i /\ BitEvent(i, b).bits = {b} /\ BitEvent(i, b).kind = "bit"
  /\ \A p : PortEvent(p).index = p /\ PortEvent(p).bits = Bits /\ PortEvent(p).kind = "port"
  /\ \A e \in Maskable : \/ e.kind = "port" /\ e = PortEvent(e.index) /\ e.index \in Ports
                         \/ e.kind = "bit" /\ \E b \in Bits : e = BitEvent(e.index, b)
  /\ Heartbeat.kind = "heartbeat" /\ Heartbeat \notin Maskable
  /\ \A i, b, j, c : BitEvent(i, b) = BitEvent(j, c) => i = j /\ b = c
<1>1. \A e \in Maskable : e # Heartbeat /\ e.index \in Indices /\ e.bits \subseteq Bits
  BY DEF Maskable, PortEvent, BitEvent, Heartbeat, Indices, Ports, Bits, NUM_DIGPORTS
<1>2. \A i, b : BitEvent(i, b).index = i /\ BitEvent(i, b).bits = {b} /\ BitEvent(i, b).kind = "bit"
  BY DEF BitEvent
<1>3. \A p : PortEvent(p).index = p /\ PortEvent(p).bits = Bits /\ PortEvent(p).kind = "port"
  BY DEF PortEvent
<1>4. \A e \in Maskable : \/ e.kind = "port" /\ e = PortEvent(e.index) /\ e.index \in Ports
                          \/ e.kind = "bit" /\ \E b \in Bits : e = BitEvent(e.index, b)
  BY <1>2, <1>3 DEF Maskable
<1>5. Heartbeat.kind = "heartbeat" /\ Heartbeat \notin Maskable
  BY <1>1 DEF Heartbeat
<1>6. \A i, b, j, c : BitEvent(i, b) = BitEvent(j, c) => i = j /\ b = c
  <2> SUFFICES ASSUME NEW i, NEW b, NEW j, NEW c, BitEvent(i, b) = BitEvent(j, c) PROVE i = j /\ b = c
    OBVIOUS
  <2>1. BitEvent(i, b).index = i /\ BitEvent(j, c).index = j
    BY DEF BitEvent
  <2>2. BitEvent(i, b).bits = {b} /\ BitEvent(j, c).bits = {c}
    BY DEF BitEvent
  <2>3. b \in {c}
    BY <2>2
  <2> QED
    BY <2>1, <2>3
<1> QED
  BY <1>1, <1>2, <1>3, <1>4, <1>5, <1>6

(* Two events of the table have two ids.                                     *)
LEMMA IdsDiffer ==
  ASSUME NEW e, NEW f, NEW id, Named(e, id), Named(f, id)
  PROVE  e = f
BY TablesAssumption DEF Named

-----------------------------------------------------------------------------
(* Sequences                                                                 *)

LEMMA AppendFacts ==
  ASSUME NEW S, NEW q \in Seq(S), NEW x \in S
  PROVE  /\ Append(q, x) \in Seq(S)
         /\ DOMAIN q = 1 .. Len(q) /\ Len(q) \in Nat
         /\ DOMAIN Append(q, x) = 1 .. Len(q) + 1
         /\ Append(q, x)[Len(q) + 1] = x
         /\ \A k \in DOMAIN q : k \in DOMAIN Append(q, x) /\ k # Len(q) + 1 /\ Append(q, x)[k] = q[k]
         /\ \A k \in DOMAIN Append(q, x) : k \in DOMAIN q \/ k = Len(q) + 1
BY AppendProperties, LenProperties

LEMMA TailFacts ==
  ASSUME NEW S, NEW q \in Seq(S), q # <<>>
  PROVE  /\ Tail(q) \in Seq(S) /\ Head(q) = q[1] /\ Head(q) \in S
         /\ DOMAIN q = 1 .. Len(q) /\ Len(q) \in Nat /\ 1 \in DOMAIN q
         /\ \A k \in DOMAIN Tail(q) : k + 1 \in DOMAIN q /\ Tail(q)[k] = q[k + 1] /\ k \in Nat \ {0}
         /\ \A k \in DOMAIN q : k # 1 => k - 1 \in DOMAIN Tail(q) /\ Tail(q)[k - 1] = q[k] /\ k > 1
<1>1. Len(q) \in Nat /\ Len(q) # 0 /\ DOMAIN q = 1 .. Len(q) /\ 1 \in DOMAIN q
  BY LenProperties, EmptySeq
<1>2. Tail(q) \in Seq(S) /\ Len(Tail(q)) = Len(q) - 1 /\ Head(q) = q[1] /\ \A k \in 1 .. Len(q) - 1 : Tail(q)[k] = q[k + 1]
  BY <1>1, HeadTailProperties
<1>3. DOMAIN Tail(q) = 1 .. Len(q) - 1
  BY <1>1, <1>2, LenProperties
<1>4. Head(q) \in S
  BY <1>1, <1>2, ElementOfSeq
<1>5. \A k \in DOMAIN Tail(q) : k + 1 \in DOMAIN q /\ Tail(q)[k] = q[k + 1] /\ k \in Nat \ {0}
  BY <1>1, <1>2, <1>3
<1>6. \A k \in DOMAIN q : k # 1 => k - 1 \in DOMAIN Tail(q) /\ Tail(q)[k - 1] = q[k] /\ k > 1
  <2> TAKE k \in DOMAIN q
  <2> HAVE k # 1
  <2>1. k - 1 \in 1 .. Len(q) - 1 /\ (k - 1) + 1 = k /\ k > 1
    BY <1>1
  <2> QED
    BY <1>2, <1>3, <2>1
<1> QED
  BY <1>1, <1>2, <1>4, <1>5, <1>6

-----------------------------------------------------------------------------
(* Types, for any number of configurers                                      *)

LEMMA CallChange ==
  ASSUME call \in [Configurers -> CallStates], NEW t \in Configurers, NEW c \in CallStates,
         call' = [call EXCEPT ![t] = c]
  PROVE  /\ call' \in [Configurers -> CallStates]
         /\ call'[t] = c
         /\ \A u \in Configurers : u # t => call'[u] = call[u]
OBVIOUS

LEMMA IdleIsCallState == Idle \in CallStates /\ Idle.doing = "nothing"
BY DEF Idle, CallStates, Nothing, Bits

LEMMA TypeInit == Init => TypeInv
<1> SUFFICES ASSUME Init PROVE TypeInv
  OBVIOUS
<1>1. mask \in [Indices -> SUBSET Bits] /\ level \in [Ports -> SUBSET Bits]
  BY DEF Init, Indices, Ports
<1>2. toDevice \in Seq(Commands) /\ fromDevice \in Seq(Packets)
  BY EmptySeq DEF Init
<1>3. DOMAIN table = {}
  BY DEF Init
<1>4. call \in [Configurers -> CallStates]
  BY IdleIsCallState DEF Init
<1> QED
  BY <1>1, <1>2, <1>3, <1>4 DEF Init, TypeInv, DeviceTyped, TablesTyped

LEMMA EnableTypes ==
  ASSUME TypeInv, NEW t \in Configurers, NEW r \in Requests, Enable(t, r)
  PROVE  TypeInv'
<1>1. CASE Refused(r) # "none"
  BY <1>1 DEF Enable, TypeInv, DeviceTyped, TablesTyped, Named
<1>2. CASE Refused(r) = "none"
  <2> DEFINE e == Event(r)
  <2>1. /\ table' = [k \in DOMAIN table \cup {e} |-> IF k = e THEN r.id ELSE table[k]]
        /\ IF e = Heartbeat
           THEN confirmed' = confirmed \cup {e} /\ UNCHANGED call
           ELSE call' = [call EXCEPT ![t] = [doing |-> "enabling", event |-> e, keep |-> {}]] /\ UNCHANGED confirmed
        /\ UNCHANGED <<mask, toDevice, fromDevice, level>>
    BY <1>2 DEF Enable
  <2>2. e \in Events /\ Named(e, r.id) /\ (e # Heartbeat => e \in Maskable)
    BY <1>2, RequestsAreEvents
  <2> HIDE DEF e
  <2>3. e # Heartbeat => [doing |-> "enabling", event |-> e, keep |-> {}] \in CallStates
    BY <2>2 DEF CallStates
  <2>4. call' \in [Configurers -> CallStates]
    BY <2>1, <2>3 DEF TypeInv, TablesTyped
  <2>5. \A k \in DOMAIN table' : k \in Events /\ Named(k, table'[k])
    BY <2>1, <2>2 DEF TypeInv, TablesTyped
  <2>6. confirmed' \subseteq DOMAIN table'
    BY <2>1 DEF TypeInv, TablesTyped
  <2> QED
    BY <2>1, <2>4, <2>5, <2>6 DEF TypeInv, DeviceTyped, TablesTyped, Named
<1> QED
  BY <1>1, <1>2

LEMMA DisableTypes ==
  ASSUME TypeInv, NEW t \in Configurers, NEW r \in Requests, Disable(t, r)
  PROVE  TypeInv'
<1>1. CASE Refused(r) # "none"
  BY <1>1 DEF Disable, TypeInv, DeviceTyped, TablesTyped, Named
<1>2. CASE Refused(r) = "none"
  <2> DEFINE e == Event(r)
  <2>1. /\ table' = [k \in DOMAIN table \ {e} |-> table[k]]
        /\ confirmed' = confirmed \ {e}
        /\ call' = IF e = Heartbeat THEN call
                   ELSE [call EXCEPT ![t] = [doing |-> "masking", event |-> e, keep |-> {}]]
        /\ UNCHANGED <<mask, toDevice, fromDevice, level>>
    BY <1>2 DEF Disable, Without
  <2>2. e \in Events /\ (e # Heartbeat => e \in Maskable)
    BY <1>2, RequestsAreEvents
  <2> HIDE DEF e
  <2>3. e # Heartbeat => [doing |-> "masking", event |-> e, keep |-> {}] \in CallStates
    BY <2>2 DEF CallStates
  <2>4. call' \in [Configurers -> CallStates]
    BY <2>1, <2>3 DEF TypeInv, TablesTyped
  <2>5. \A k \in DOMAIN table' : k \in Events /\ Named(k, table'[k])
    BY <2>1 DEF TypeInv, TablesTyped
  <2>6. confirmed' \subseteq DOMAIN table'
    BY <2>1 DEF TypeInv, TablesTyped
  <2> QED
    BY <2>1, <2>4, <2>5, <2>6 DEF TypeInv, DeviceTyped, TablesTyped, Named
<1> QED
  BY <1>1, <1>2

LEMMA KeepIsBits == ASSUME NEW e \in Maskable PROVE Keep(e) \subseteq Bits
BY EventShapes DEF Keep, EnabledBits, Bits

(* The other steps of a call leave the table alone, or empty it.             *)
LEMMA CallTypes ==
  ASSUME TypeInv, NEW t \in Configurers,
         Reset(t) \/ ChooseMask(t) \/ Write(t) \/ WriteFails(t) \/ Forget(t)
  PROVE  TypeInv'
<1> USE DEF TypeInv, TablesTyped, DeviceTyped
<1>0. call[t] \in CallStates
  OBVIOUS
<1>1. CASE Reset(t)
  <2>1. [doing |-> "resetting", event |-> Nothing, keep |-> {}] \in CallStates
    BY DEF CallStates, Nothing
  <2>2. call' = [call EXCEPT ![t] = [doing |-> "resetting", event |-> Nothing, keep |-> {}]]
    BY <1>1 DEF Reset
  <2>3. call' \in [Configurers -> CallStates]
    BY <2>1, <2>2, CallChange
  <2> QED
    BY <1>1, <2>3 DEF Reset, Named
<1>2. CASE ChooseMask(t)
  <2> DEFINE e == call[t].event
             c == IF Digital(e) /\ Keep(e) = Bits THEN Idle ELSE [doing |-> "disabling", event |-> e, keep |-> Keep(e)]
  <2>1. e \in Maskable
    BY <1>0, <1>2 DEF ChooseMask, CallStates
  <2>2. Keep(e) \subseteq Bits
    BY <2>1, KeepIsBits
  <2>3. c \in CallStates
    BY <2>1, <2>2, IdleIsCallState DEF CallStates, Events
  <2>4. call' = [call EXCEPT ![t] = c]
    BY <1>2 DEF ChooseMask
  <2>5. call' \in [Configurers -> CallStates]
    BY <2>3, <2>4, CallChange
  <2> QED
    BY <1>2, <2>5 DEF ChooseMask, Named
<1>3. CASE Write(t)
  <2> DEFINE c == IF call[t].doing = "resetting" THEN [call[t] EXCEPT !.doing = "forgetting"] ELSE Idle
  <2>1. Command(t) \in Commands
    BY <1>0, <1>3 DEF Write, Command, Commands, CallStates
  <2>2. toDevice' \in Seq(Commands)
    BY <1>3, <2>1, AppendProperties DEF Write
  <2>3. c \in CallStates
    BY <1>0, IdleIsCallState DEF CallStates
  <2>4. call' = [call EXCEPT ![t] = c]
    BY <1>3 DEF Write
  <2>5. call' \in [Configurers -> CallStates]
    BY <2>3, <2>4, CallChange
  <2>6. confirmed' \subseteq DOMAIN table'
    BY <1>3 DEF Write, Enabled
  <2> QED
    BY <1>3, <2>2, <2>5, <2>6 DEF Write, Named
<1>4. CASE WriteFails(t)
  <2>1. call' \in [Configurers -> CallStates]
    BY <1>4, IdleIsCallState, CallChange DEF WriteFails
  <2> QED
    BY <1>4, <2>1 DEF WriteFails, Named
<1>5. CASE Forget(t)
  <2>1. call' \in [Configurers -> CallStates]
    BY <1>5, IdleIsCallState, CallChange DEF Forget
  <2>2. DOMAIN table' = {} /\ confirmed' = {}
    BY <1>5 DEF Forget
  <2> QED
    BY <1>5, <2>1, <2>2 DEF Forget
<1> QED
  BY <1>1, <1>2, <1>3, <1>4, <1>5

LEMMA MaskedTypes ==
  ASSUME NEW m \in [Indices -> SUBSET Bits], NEW c \in Commands
  PROVE  Masked(m, c) \in [Indices -> SUBSET Bits]
<1>1. c.name \in {"enabling", "disabling"} => c.event \in Maskable
  BY DEF Commands
<1>2. c.name \in {"enabling", "disabling"} => c.event.index \in Indices /\ c.event.bits \subseteq Bits
  BY <1>1, EventShapes
<1>3. c.name \in {"enabling", "disabling", "resetting"}
  BY DEF Commands
<1>4. CASE c.name = "enabling"
  BY <1>2, <1>4 DEF Masked
<1>5. CASE c.name = "disabling"
  BY <1>2, <1>5 DEF Masked
<1>6. CASE c.name = "resetting"
  BY <1>6 DEF Masked
<1> QED
  BY <1>3, <1>4, <1>5, <1>6

LEMMA DeviceTypes ==
  ASSUME TypeInv,
         \/ Execute \/ Receive
         \/ \E p \in DOMAIN level, new \in Levels : Change(p, new)
         \/ \E packet \in Reports : Report(packet)
  PROVE  TypeInv'
<1> USE DEF TypeInv, TablesTyped, DeviceTyped
<1>1. CASE Execute
  <2>1. Head(toDevice) \in Commands /\ Tail(toDevice) \in Seq(Commands)
    BY <1>1, TailFacts DEF Execute
  <2>2. mask' \in [Indices -> SUBSET Bits]
    BY <1>1, <2>1, MaskedTypes DEF Execute
  <2> QED
    BY <1>1, <2>1, <2>2 DEF Execute, Named
<1>2. CASE Receive
  <2>1. Tail(fromDevice) \in Seq(Packets)
    BY <1>2, TailFacts DEF Receive
  <2> QED
    BY <1>2, <2>1 DEF Receive, Named
<1>3. ASSUME NEW p \in DOMAIN level, NEW new \in Levels, Change(p, new) PROVE TypeInv'
  <2> DEFINE changed == Differing(new, level[p]) \cap mask[p]
             packet == [kind |-> "EVT_DIGI", port |-> p, new |-> new, changed |-> changed]
  <2>1. p \in Ports /\ p \in Indices /\ new \subseteq Bits
    BY TablesAssumption DEF Ports, Indices, NUM_DIGPORTS
  <2>2. mask[p] \subseteq Bits /\ changed \subseteq Bits
    BY <2>1
  <2>3. packet \in Packets
    BY <2>1, <2>2 DEF Packets, Changes
  <2>4. fromDevice' = (IF changed = {} THEN fromDevice ELSE Append(fromDevice, packet))
    BY <1>3 DEF Change
  <2>5. fromDevice' \in Seq(Packets)
    BY <2>3, <2>4, AppendProperties
  <2>6. level' \in [Ports -> SUBSET Bits]
    BY <1>3, <2>1 DEF Change
  <2> QED
    BY <1>3, <2>5, <2>6 DEF Change, Named
<1>4. ASSUME NEW packet \in Reports, Report(packet) PROVE TypeInv'
  <2>1. fromDevice' \in Seq(Packets)
    BY <1>4, AppendProperties DEF Report, Packets
  <2> QED
    BY <1>4, <2>1 DEF Report, Named
<1> QED
  BY <1>1, <1>2, <1>3, <1>4

LEMMA TypeStep == TypeInv /\ [Next]_vars => TypeInv'
<1> SUFFICES ASSUME TypeInv, [Next]_vars PROVE TypeInv'
  OBVIOUS
<1>1. CASE UNCHANGED vars
  BY <1>1 DEF vars, TypeInv, DeviceTyped, TablesTyped, Named
<1>2. CASE Next
  BY <1>2, EnableTypes, DisableTypes, CallTypes, DeviceTypes DEF Next
<1> QED
  BY <1>1, <1>2

-----------------------------------------------------------------------------
(* What is confirmed is reported, with one configurer                        *)

(* A command put behind the others: what it adds will be reported, and so is *)
(* what would have been and it does not drop.                                *)
LEMMA AppendedCommand ==
  ASSUME NEW m, NEW q \in Seq(Commands), NEW c \in Commands, NEW i, NEW b,
         Adds(c, i, b) \/ (WillReport(m, q, i, b) /\ ~Drops(c, i, b))
  PROVE  WillReport(m, Append(q, c), i, b)
<1> DEFINE a == Append(q, c)  n == Len(q) + 1
<1>1. /\ n - 1 \in Nat /\ n \in DOMAIN a /\ a[n] = c
      /\ \A k \in DOMAIN a : k \in 1 .. n /\ (k \in DOMAIN q \/ k = n)
      /\ \A k \in DOMAIN q : k \in DOMAIN a /\ a[k] = q[k]
  BY AppendFacts
<1> HIDE DEF a, n
<1>2. CASE Adds(c, i, b)
  <2>1. \A l \in DOMAIN a : ~(l > n)
    BY <1>1
  <2> QED
    BY <1>1, <1>2, <2>1 DEF WillReport, a
<1>3. CASE ~Drops(c, i, b) /\ b \in m[i] /\ \A k \in DOMAIN q : ~Drops(q[k], i, b)
  BY <1>1, <1>3 DEF WillReport, a
<1>4. ASSUME ~Drops(c, i, b), NEW k \in DOMAIN q, Adds(q[k], i, b), \A l \in DOMAIN q : l > k => ~Drops(q[l], i, b)
      PROVE  WillReport(m, a, i, b)
  <2>1. k \in DOMAIN a /\ Adds(a[k], i, b)
    BY <1>1, <1>4
  <2>2. \A l \in DOMAIN a : l > k => ~Drops(a[l], i, b)
    BY <1>1, <1>4
  <2> QED
    BY <2>1, <2>2 DEF WillReport
<1> QED
  BY <1>2, <1>3, <1>4 DEF WillReport, a

(* The device executes the first command: what will be reported stays so.    *)
LEMMA ExecutedCommand ==
  ASSUME NEW m \in [Indices -> SUBSET Bits], NEW q \in Seq(Commands), q # <<>>,
         NEW i \in Indices, NEW b, WillReport(m, q, i, b)
  PROVE  WillReport(Masked(m, Head(q)), Tail(q), i, b)
<1> DEFINE c == Head(q)  n == Masked(m, c)  s == Tail(q)
<1>1. /\ c \in Commands /\ c = q[1] /\ 1 \in DOMAIN q
      /\ \A k \in DOMAIN s : k + 1 \in DOMAIN q /\ s[k] = q[k + 1] /\ k \in Nat \ {0}
      /\ \A k \in DOMAIN q : k # 1 => k - 1 \in DOMAIN s /\ s[k - 1] = q[k] /\ k > 1
      /\ \A k \in DOMAIN q : k \in Nat
  BY TailFacts
<1>2. c.name \in {"enabling", "disabling", "resetting"} /\ (c.name # "resetting" => c.event.index \in Indices)
  BY <1>1, EventShapes DEF Commands
<1>3. ASSUME b \in m[i], ~Drops(c, i, b) PROVE b \in n[i]
  <2>1. CASE c.name = "enabling"
    BY <1>2, <1>3, <2>1 DEF Masked
  <2>2. CASE c.name = "disabling"
    <3>1. n = [m EXCEPT ![c.event.index] = @ \cap c.keep]
      BY <2>2 DEF Masked
    <3>2. c.event.index = i => b \in c.keep
      BY <1>3, <2>2 DEF Drops
    <3> QED
      BY <1>2, <1>3, <2>2, <3>1, <3>2
  <2> QED
    BY <1>2, <1>3, <2>1, <2>2 DEF Drops
<1>4. ASSUME Adds(c, i, b) PROVE b \in n[i]
  <2>1. n = [m EXCEPT ![c.event.index] = @ \cup c.event.bits]
    BY <1>4 DEF Adds, Masked
  <2> QED
    BY <1>2, <1>4, <2>1 DEF Adds
<1> HIDE DEF c, n, s
<1>5. CASE b \in m[i] /\ \A k \in DOMAIN q : ~Drops(q[k], i, b)
  <2>1. b \in n[i]
    BY <1>1, <1>3, <1>5
  <2>2. \A k \in DOMAIN s : ~Drops(s[k], i, b)
    BY <1>1, <1>5
  <2> QED
    BY <2>1, <2>2 DEF WillReport, n, s, c
<1>6. ASSUME NEW k \in DOMAIN q, Adds(q[k], i, b), \A l \in DOMAIN q : l > k => ~Drops(q[l], i, b)
      PROVE  WillReport(n, s, i, b)
  <2>1. CASE k = 1
    <3>1. b \in n[i]
      BY <1>1, <1>4, <1>6, <2>1
    <3>2. \A l \in DOMAIN s : ~Drops(s[l], i, b)
      BY <1>1, <1>6, <2>1
    <3> QED
      BY <3>1, <3>2 DEF WillReport
  <2>2. CASE k # 1
    <3>1. k - 1 \in DOMAIN s /\ Adds(s[k - 1], i, b)
      BY <1>1, <1>6, <2>2
    <3>2. \A l \in DOMAIN s : l > k - 1 => ~Drops(s[l], i, b)
      <4> TAKE l \in DOMAIN s
      <4> HAVE l > k - 1
      <4>1. l + 1 \in DOMAIN q /\ s[l] = q[l + 1] /\ l + 1 > k
        BY <1>1
      <4> QED
        BY <1>6, <4>1
    <3> QED
      BY <3>1, <3>2 DEF WillReport
  <2> QED
    BY <2>1, <2>2
<1> QED
  BY <1>5, <1>6 DEF WillReport, n, s, c

(* The bits chosen when an event is disabled are those of the other events   *)
(* of its index.                                                             *)
LEMMA KeepOthers ==
  ASSUME NEW d \in Maskable, d \notin DOMAIN table, NEW e \in Maskable, e \in DOMAIN table, e.index = d.index
  PROVE  e.bits \subseteq Keep(d)
<1>1. CASE d.kind = "port"
  <2>1. e # PortEvent(d.index)
    BY <1>1, EventShapes
  <2>2. PICK b \in Bits : e = BitEvent(d.index, b)
    BY <2>1, EventShapes
  <2>3. b \in EnabledBits(d.index) /\ e.bits = {b}
    BY <2>2, EventShapes DEF EnabledBits, Enabled
  <2> QED
    BY <1>1, <2>3 DEF Keep
<1>2. CASE d.kind # "port" /\ Digital(d) /\ Enabled(PortEvent(d.index))
  <2>1. Keep(d) = Bits
    BY <1>2 DEF Keep
  <2> QED
    BY <2>1, EventShapes
<1>3. CASE d.kind # "port" /\ ~(Digital(d) /\ Enabled(PortEvent(d.index)))
  <2>1. Keep(d) = Bits \ d.bits
    BY <1>3 DEF Keep
  <2>2. PICK b \in Bits : d = BitEvent(d.index, b)
    BY <1>3, EventShapes
  <2>3. e.kind # "port"
    <3> SUFFICES ASSUME e.kind = "port" PROVE FALSE
      OBVIOUS
    <3>1. e = PortEvent(d.index) /\ d.index \in Ports
      BY EventShapes
    <3>2. Digital(d)
      BY <3>1 DEF Digital, Ports, NUM_DIGPORTS
    <3> QED
      BY <1>3, <3>1, <3>2 DEF Enabled
  <2>4. PICK a \in Bits : e = BitEvent(d.index, a)
    BY <2>3, EventShapes
  <2>5. a # b
    BY <2>2, <2>4
  <2>6. e.bits = {a} /\ d.bits = {b}
    BY <2>2, <2>4, EventShapes
  <2> QED
    BY <2>1, <2>5, <2>6
<1> QED
  BY <1>1, <1>2, <1>3

LEMMA ConfirmedShapes ==
  ASSUME TypeInv, NEW e \in confirmed \ {Heartbeat}
  PROVE  e \in DOMAIN table /\ e \in Maskable /\ e.index \in Indices
BY EventShapes DEF TypeInv, TablesTyped, Events

(* Steps of the configurer that send nothing.                                *)
LEMMA MaskCallStep ==
  ASSUME NEW t, Configurers = {t}, MaskInv(t),
         \/ \E r \in Requests : Enable(t, r) \/ Disable(t, r)
         \/ Reset(t) \/ ChooseMask(t) \/ WriteFails(t) \/ Forget(t)
  PROVE  WillAllReport(t)' /\ KeepsConfirmed(t)'
<1>0. call \in [{t} -> CallStates] /\ Idle.doing = "nothing"
  BY IdleIsCallState DEF MaskInv, TypeInv, TablesTyped
<1>1. ASSUME NEW r \in Requests, Enable(t, r) PROVE WillAllReport(t)' /\ KeepsConfirmed(t)'
  <2>1. /\ call[t].doing = "nothing" /\ call'[t].doing \in {"nothing", "enabling"}
        /\ confirmed' \subseteq confirmed \cup {Heartbeat} /\ UNCHANGED <<mask, toDevice>>
    BY <1>0, <1>1 DEF Enable
  <2> QED
    BY <2>1 DEF MaskInv, WillAllReport, KeepsConfirmed
<1>2. ASSUME NEW r \in Requests, Disable(t, r) PROVE WillAllReport(t)' /\ KeepsConfirmed(t)'
  <2>1. /\ call[t].doing = "nothing" /\ call'[t].doing \in {"nothing", "masking"}
        /\ confirmed' \subseteq confirmed /\ UNCHANGED <<mask, toDevice>>
        /\ call'[t].doing = "masking" => call'[t].event \notin DOMAIN table'
    BY <1>0, <1>2 DEF Disable, Without
  <2> QED
    BY <2>1 DEF MaskInv, WillAllReport, KeepsConfirmed
<1>3. CASE Reset(t) \/ WriteFails(t)
  <2>1. /\ call[t].doing # "forgetting" /\ call'[t].doing \in {"nothing", "resetting"}
        /\ UNCHANGED <<mask, toDevice, confirmed>>
    BY <1>0, <1>3 DEF Reset, WriteFails
  <2> QED
    BY <2>1 DEF MaskInv, WillAllReport, KeepsConfirmed
<1>4. CASE ChooseMask(t)
  <2> DEFINE d == call[t].event
  <2>1. d \in Maskable /\ d \notin DOMAIN table
    BY <1>0, <1>4 DEF ChooseMask, CallStates, MaskInv, KeepsConfirmed
  <2>2. \A e \in confirmed \ {Heartbeat} : e.index = d.index => e.bits \subseteq Keep(d)
    BY <2>1, ConfirmedShapes, KeepOthers DEF MaskInv
  <2>3. /\ call[t].doing = "masking" /\ UNCHANGED <<mask, toDevice, confirmed>>
        /\ \/ call'[t].doing = "nothing"
           \/ call'[t].doing = "disabling" /\ call'[t].event = d /\ call'[t].keep = Keep(d)
    BY <1>0, <1>4 DEF ChooseMask
  <2> QED
    BY <2>2, <2>3 DEF MaskInv, WillAllReport, KeepsConfirmed
<1>5. CASE Forget(t)
  BY <1>0, <1>5 DEF Forget, MaskInv, WillAllReport, KeepsConfirmed
<1> QED
  BY <1>1, <1>2, <1>3, <1>4, <1>5

LEMMA MaskWriteStep ==
  ASSUME NEW t, Configurers = {t}, MaskInv(t), Write(t)
  PROVE  WillAllReport(t)' /\ KeepsConfirmed(t)'
<1> DEFINE c == Command(t)
<1>0. call \in [{t} -> CallStates] /\ Idle.doing = "nothing" /\ toDevice \in Seq(Commands)
  BY IdleIsCallState DEF MaskInv, TypeInv, TablesTyped, DeviceTyped
<1>1. c \in Commands /\ c.name = call[t].doing /\ c.event = call[t].event /\ c.keep = call[t].keep
  BY <1>0 DEF Write, Command, Commands, CallStates
<1>2. toDevice' = Append(toDevice, c) /\ mask' = mask
  BY DEF Write
<1>3. call[t].doing = "resetting" => call'[t].doing = "forgetting"
  BY <1>0 DEF Write, CallStates
<1>4. call[t].doing # "resetting" => call'[t].doing = "nothing"
  BY <1>0 DEF Write
<1> HIDE DEF c
<1>5. ASSUME call[t].doing # "resetting", NEW e \in confirmed' \ {Heartbeat}, NEW b \in e.bits
      PROVE  WillReport(mask', toDevice', e.index, b)
  <2>1. CASE call[t].doing = "enabling" /\ e = call[t].event
    <3>1. Adds(c, e.index, b)
      BY <1>1, <2>1 DEF Adds
    <3>2. c \in Commands /\ toDevice \in Seq(Commands)
      BY <1>0, <1>1
    <3>3. WillReport(mask, Append(toDevice, c), e.index, b)
      BY <3>1, <3>2, AppendedCommand
    <3> QED
      BY <1>2, <3>3
  <2>2. CASE ~(call[t].doing = "enabling" /\ e = call[t].event)
    <3>1. e \in confirmed \ {Heartbeat}
      BY <2>2 DEF Write
    <3>2. WillReport(mask, toDevice, e.index, b)
      BY <3>1 DEF Write, MaskInv, WillAllReport
    <3>3. ~Drops(c, e.index, b)
      BY <1>1, <1>5, <3>1 DEF Drops, MaskInv, KeepsConfirmed
    <3> QED
      BY <1>0, <1>1, <1>2, <3>2, <3>3, AppendedCommand
  <2> QED
    BY <2>1, <2>2
<1> QED
  BY <1>3, <1>4, <1>5 DEF WillAllReport, KeepsConfirmed

LEMMA MaskStep ==
  ASSUME NEW t, Configurers = {t}, MaskInv(t), [Next]_vars
  PROVE  MaskInv(t)'
<1>0. TypeInv'
  BY TypeStep DEF MaskInv
<1>1. CASE UNCHANGED vars
  BY <1>0, <1>1 DEF vars, MaskInv, WillAllReport, KeepsConfirmed
<1>2. CASE Execute
  <2>1. UNCHANGED <<table, confirmed, call>> /\ mask' = Masked(mask, Head(toDevice)) /\ toDevice' = Tail(toDevice)
    BY <1>2 DEF Execute
  <2>2. \A e \in confirmed \ {Heartbeat} : \A b \in e.bits :
          WillReport(mask, toDevice, e.index, b) => WillReport(mask', toDevice', e.index, b)
    BY <1>2, <2>1, ConfirmedShapes, ExecutedCommand DEF Execute, MaskInv, TypeInv, DeviceTyped
  <2> QED
    BY <1>0, <2>1, <2>2 DEF MaskInv, WillAllReport, KeepsConfirmed
<1>3. CASE \/ Receive
           \/ \E p \in DOMAIN level, new \in Levels : Change(p, new)
           \/ \E packet \in Reports : Report(packet)
  <2>1. UNCHANGED <<table, confirmed, call, mask, toDevice>>
    BY <1>3 DEF Receive, Change, Report
  <2> QED
    BY <1>0, <2>1 DEF MaskInv, WillAllReport, KeepsConfirmed
<1> QED
  BY <1>0, <1>1, <1>2, <1>3, MaskCallStep, MaskWriteStep DEF MaskInv, Next

(* With one thread that configures them, the events confirmed to the         *)
(* application are among those the device reports (ConfirmedAreReported).    *)
(* eth32.c decides what to keep from its tables without a lock, so two such  *)
(* threads can break this.                                                   *)
THEOREM ConfirmedStayReported ==
  ASSUME NEW t, Configurers = {t}
  PROVE  Spec => []ConfirmedAreReported
<1>1. Init => MaskInv(t)
  <2> SUFFICES ASSUME Init PROVE MaskInv(t)
    OBVIOUS
  <2>1. confirmed = {} /\ call[t].doing = "nothing"
    BY IdleIsCallState DEF Init
  <2> QED
    BY <2>1, TypeInit DEF MaskInv, WillAllReport, KeepsConfirmed
<1>2. MaskInv(t) /\ [Next]_vars => MaskInv(t)'
  BY MaskStep
<1>3. MaskInv(t) => ConfirmedAreReported
  <2> SUFFICES ASSUME MaskInv(t), AtRest, toDevice = <<>>, NEW e \in confirmed \ {Heartbeat}
               PROVE  e.bits \subseteq mask[e.index]
    BY DEF ConfirmedAreReported
  <2>1. call[t].doing = "nothing"
    BY IdleIsCallState DEF AtRest
  <2>2. DOMAIN toDevice = {}
    OBVIOUS
  <2>3. \A b \in e.bits : WillReport(mask, toDevice, e.index, b)
    BY <2>1 DEF MaskInv, WillAllReport
  <2> QED
    BY <2>2, <2>3 DEF WillReport
<1> QED
  BY <1>1, <1>2, <1>3, PTL DEF Spec

-----------------------------------------------------------------------------
(* What the application was told is what the port has                        *)

(* A packet that is not about a bit, put behind the others.                  *)
LEMMA AppendedPacket ==
  ASSUME NEW packet \in Packets, fromDevice \in Seq(Packets), NEW port, NEW b,
         \/ fromDevice' = fromDevice
         \/ fromDevice' = Append(fromDevice, packet) /\ ~About(packet, port, b)
  PROVE  /\ \A k \in DOMAIN fromDevice' : LastAbout(k, port, b)' =>
              k \in DOMAIN fromDevice /\ LastAbout(k, port, b) /\ fromDevice'[k] = fromDevice[k]
         /\ (\A k \in DOMAIN fromDevice' : ~About(fromDevice'[k], port, b)) =>
              (\A k \in DOMAIN fromDevice : ~About(fromDevice[k], port, b))
<1>1. CASE fromDevice' = fromDevice
  BY <1>1 DEF LastAbout
<1>2. CASE fromDevice' = Append(fromDevice, packet) /\ ~About(packet, port, b)
  <2> DEFINE n == Len(fromDevice) + 1
  <2>1. /\ fromDevice'[n] = packet
        /\ \A k \in DOMAIN fromDevice : k \in DOMAIN fromDevice' /\ fromDevice'[k] = fromDevice[k]
        /\ \A k \in DOMAIN fromDevice' : k \in DOMAIN fromDevice \/ k = n
    BY <1>2, AppendFacts
  <2> HIDE DEF n
  <2> QED
    BY <1>2, <2>1 DEF LastAbout
<1> QED
  BY <1>1, <1>2

LEMMA EnableView ==
  ASSUME ViewInv, NEW t \in Configurers, NEW r \in Requests, Enable(t, r)
  PROVE  WireTrue' /\ ToldTrue' /\ ToldAreEnabled'
<1>1. UNCHANGED <<fromDevice, level, unseen>>
  BY DEF Enable
<1>2. WireTrue'
  BY <1>1 DEF ViewInv, WireTrue, LastAbout
<1>3. CASE Refused(r) # "none"
  <2>1. UNCHANGED <<table, told>>
    BY <1>3 DEF Enable
  <2> QED
    BY <1>1, <1>2, <2>1 DEF ViewInv, ToldTrue, ToldAreEnabled
<1>4. CASE Refused(r) = "none"
  <2> DEFINE e == Event(r)
  <2>1. /\ DOMAIN table' = DOMAIN table \cup {e} /\ table'[e] = r.id
        /\ \A f \in DOMAIN table : f # e => table'[f] = table[f]
    BY <1>4 DEF Enable
  <2>2. /\ DOMAIN told' \subseteq DOMAIN told /\ \A i \in DOMAIN told' : told'[i] = told[i]
        /\ e \in DOMAIN table => table[e] \notin DOMAIN told'
    BY <1>4 DEF Enable, Without, Enabled
  <2>3. Named(e, r.id) /\ \A f \in DOMAIN table : Named(f, table[f])
    BY <1>4, RequestsAreEvents DEF ViewInv, TypeInv, TablesTyped
  <2> HIDE DEF e
  <2>4. ToldAreEnabled'
    BY <2>1, <2>2 DEF ViewInv, ToldAreEnabled
  <2>5. r.id \notin DOMAIN told'
    <3> SUFFICES ASSUME r.id \in DOMAIN told' PROVE FALSE
      OBVIOUS
    <3>1. PICK g \in DOMAIN table : table[g] = r.id
      BY <2>2 DEF ViewInv, ToldAreEnabled
    <3>2. g = e
      BY <2>3, <3>1, IdsDiffer
    <3> QED
      BY <2>2, <3>1, <3>2
  <2>6. ToldTrue'
    BY <1>1, <2>1, <2>2, <2>5 DEF ViewInv, ToldTrue
  <2> QED
    BY <1>2, <2>4, <2>6
<1> QED
  BY <1>3, <1>4

LEMMA DisableView ==
  ASSUME ViewInv, NEW t \in Configurers, NEW r \in Requests, Disable(t, r)
  PROVE  WireTrue' /\ ToldTrue' /\ ToldAreEnabled'
<1>1. UNCHANGED <<fromDevice, level, unseen>>
  BY DEF Disable
<1>2. WireTrue'
  BY <1>1 DEF ViewInv, WireTrue, LastAbout
<1>3. CASE Refused(r) # "none"
  <2>1. UNCHANGED <<table, told>>
    BY <1>3 DEF Disable
  <2> QED
    BY <1>1, <1>2, <2>1 DEF ViewInv, ToldTrue, ToldAreEnabled
<1>4. CASE Refused(r) = "none"
  <2> DEFINE e == Event(r)
  <2>1. /\ DOMAIN table' = DOMAIN table \ {e} /\ \A f \in DOMAIN table' : table'[f] = table[f]
        /\ DOMAIN told' \subseteq DOMAIN told /\ \A i \in DOMAIN told' : told'[i] = told[i]
        /\ e \in DOMAIN table => table[e] \notin DOMAIN told'
    BY <1>4 DEF Disable, Without, Enabled
  <2> HIDE DEF e
  <2>2. ToldAreEnabled'
    <3> SUFFICES ASSUME NEW i \in DOMAIN told' PROVE \E f \in DOMAIN table' : table'[f] = i
      BY DEF ToldAreEnabled
    <3>1. PICK g \in DOMAIN table : table[g] = i
      BY <2>1 DEF ViewInv, ToldAreEnabled
    <3> QED
      BY <2>1, <3>1
  <2>3. ToldTrue'
    BY <1>1, <2>1 DEF ViewInv, ToldTrue
  <2> QED
    BY <1>2, <2>2, <2>3
<1> QED
  BY <1>3, <1>4

(* A change of a port, seen from one of its bits or of another port.         *)
LEMMA ChangeFacts ==
  ASSUME TypeInv, NEW p \in Ports, NEW new \in Levels, Change(p, new),
         NEW port \in Ports, NEW b \in Bits, <<port, b>> \notin unseen'
  PROVE  LET changed == Differing(new, level[p]) \cap mask[p]
             packet == [kind |-> "EVT_DIGI", port |-> p, new |-> new, changed |-> changed] IN
         /\ packet \in Packets
         /\ port = p /\ b \in changed =>
              fromDevice' = Append(fromDevice, packet) /\ (b \in new <=> b \in level'[port])
         /\ ~(port = p /\ b \in changed) =>
              /\ <<port, b>> \notin unseen /\ (b \in level'[port] <=> b \in level[port])
              /\ \/ fromDevice' = fromDevice
                 \/ fromDevice' = Append(fromDevice, packet) /\ ~About(packet, port, b)
<1> DEFINE changed == Differing(new, level[p]) \cap mask[p]
           packet == [kind |-> "EVT_DIGI", port |-> p, new |-> new, changed |-> changed]
<1>1. /\ level \in [Ports -> SUBSET Bits] /\ mask \in [Indices -> SUBSET Bits] /\ new \subseteq Bits /\ p \in Indices
  BY TablesAssumption DEF TypeInv, DeviceTyped, Ports, Indices, NUM_DIGPORTS
<1>2. packet \in Packets
  BY <1>1 DEF Packets, Changes
<1>3. /\ level' = [level EXCEPT ![p] = new]
      /\ fromDevice' = IF changed = {} THEN fromDevice ELSE Append(fromDevice, packet)
      /\ unseen' = {u \in unseen : u[1] # p \/ u[2] \notin changed} \cup {<<p, c>> : c \in Differing(new, level[p]) \ changed}
  BY DEF Change
<1>4. ~About(packet, port, b) <=> ~(port = p /\ b \in changed)
  BY DEF About
<1>5. ASSUME port = p, b \notin changed PROVE b \in new <=> b \in level[p]
  <2>1. b \notin Differing(new, level[p])
    BY <1>3, <1>5
  <2> QED
    BY <2>1 DEF Differing
<1> HIDE DEF changed, packet
<1>6. ~(port = p /\ b \in changed) => <<port, b>> \notin unseen
  BY <1>3
<1>7. ~(port = p /\ b \in changed) => (b \in level'[port] <=> b \in level[port])
  BY <1>1, <1>3, <1>5
<1>8. port = p /\ b \in changed => fromDevice' = Append(fromDevice, packet) /\ (b \in new <=> b \in level'[port])
  BY <1>1, <1>3
<1> QED
  BY <1>2, <1>3, <1>4, <1>6, <1>7, <1>8 DEF changed, packet

LEMMA ChangeView ==
  ASSUME ViewInv, NEW p \in DOMAIN level, NEW new \in Levels, Change(p, new)
  PROVE  WireTrue' /\ ToldTrue' /\ ToldAreEnabled'
<1> DEFINE changed == Differing(new, level[p]) \cap mask[p]
           packet == [kind |-> "EVT_DIGI", port |-> p, new |-> new, changed |-> changed]
<1>0. p \in Ports /\ TypeInv /\ fromDevice \in Seq(Packets) /\ UNCHANGED <<table, told>>
  BY DEF ViewInv, TypeInv, DeviceTyped, Change
<1>1. ASSUME NEW port \in Ports, NEW b \in Bits, <<port, b>> \notin unseen'
      PROVE  /\ packet \in Packets
             /\ port = p /\ b \in changed =>
                  fromDevice' = Append(fromDevice, packet) /\ (b \in new <=> b \in level'[port])
             /\ ~(port = p /\ b \in changed) =>
                  /\ <<port, b>> \notin unseen /\ (b \in level'[port] <=> b \in level[port])
                  /\ \/ fromDevice' = fromDevice
                     \/ fromDevice' = Append(fromDevice, packet) /\ ~About(packet, port, b)
  BY <1>0, <1>1, ChangeFacts
<1>2. packet.new = new /\ packet.kind = "EVT_DIGI" /\ packet.port = p /\ packet.changed = changed
  OBVIOUS
<1> HIDE DEF changed, packet
<1>3. WireTrue'
  <2> SUFFICES ASSUME NEW port \in Ports, NEW b \in Bits, <<port, b>> \notin unseen',
                      NEW k \in DOMAIN fromDevice', LastAbout(k, port, b)'
               PROVE  b \in fromDevice'[k].new <=> b \in level'[port]
    BY DEF WireTrue
  <2>1. CASE port = p /\ b \in changed
    <3>1. fromDevice' = Append(fromDevice, packet) /\ (b \in new <=> b \in level'[port]) /\ packet \in Packets
      BY <1>1, <2>1
    <3> DEFINE n == Len(fromDevice) + 1
    <3>2. /\ fromDevice'[n] = packet /\ n \in DOMAIN fromDevice'
          /\ \A l \in DOMAIN fromDevice' : l \in 1 .. n
          /\ n \in Nat
      BY <1>0, <3>1, AppendFacts
    <3> HIDE DEF n
    <3>3. About(fromDevice'[n], port, b)
      BY <1>2, <2>1, <3>2 DEF About
    <3>4. k = n
      BY <3>2, <3>3 DEF LastAbout
    <3> QED
      BY <1>2, <3>1, <3>2, <3>4
  <2>2. CASE ~(port = p /\ b \in changed)
    <3>1. k \in DOMAIN fromDevice /\ LastAbout(k, port, b) /\ fromDevice'[k] = fromDevice[k]
      BY <1>0, <1>1, <2>2, AppendedPacket
    <3> QED
      BY <1>1, <2>2, <3>1 DEF ViewInv, WireTrue
  <2> QED
    BY <2>1, <2>2
<1>4. ToldTrue'
  <2> SUFFICES ASSUME NEW port \in Ports, NEW b \in Bits, <<port, b>> \notin unseen',
                      \A k \in DOMAIN fromDevice' : ~About(fromDevice'[k], port, b),
                      BitEvent(port, b) \in DOMAIN table', table'[BitEvent(port, b)] \in DOMAIN told'
               PROVE  told'[table'[BitEvent(port, b)]] = IF b \in level'[port] THEN 1 ELSE 0
    BY DEF ToldTrue
  <2>1. ~(port = p /\ b \in changed)
    <3> SUFFICES ASSUME port = p, b \in changed PROVE FALSE
      OBVIOUS
    <3>1. fromDevice' = Append(fromDevice, packet) /\ packet \in Packets
      BY <1>1
    <3>2. fromDevice'[Len(fromDevice) + 1] = packet /\ Len(fromDevice) + 1 \in DOMAIN fromDevice'
      BY <1>0, <3>1, AppendFacts
    <3> QED
      BY <1>2, <3>2 DEF About
  <2>2. \A k \in DOMAIN fromDevice : ~About(fromDevice[k], port, b)
    BY <1>0, <1>1, <2>1, AppendedPacket
  <2> QED
    BY <1>0, <1>1, <2>1, <2>2 DEF ViewInv, ToldTrue
<1>5. ToldAreEnabled'
  BY <1>0 DEF ViewInv, ToldAreEnabled
<1> QED
  BY <1>3, <1>4, <1>5

LEMMA ReportView ==
  ASSUME ViewInv, NEW packet \in Reports, Report(packet)
  PROVE  WireTrue' /\ ToldTrue' /\ ToldAreEnabled'
<1>1. /\ fromDevice' = Append(fromDevice, packet) /\ UNCHANGED <<table, told, level, unseen>>
      /\ packet \in Packets /\ fromDevice \in Seq(Packets)
  BY DEF Report, Packets, ViewInv, TypeInv, DeviceTyped
<1>2. \A port \in Ports : \A b : ~About(packet, port, b)
  BY TablesAssumption DEF About, Ports, NUM_DIGPORTS
<1>3. WireTrue'
  <2> SUFFICES ASSUME NEW port \in Ports, NEW b \in Bits, <<port, b>> \notin unseen',
                      NEW k \in DOMAIN fromDevice', LastAbout(k, port, b)'
               PROVE  b \in fromDevice'[k].new <=> b \in level'[port]
    BY DEF WireTrue
  <2>1. k \in DOMAIN fromDevice /\ LastAbout(k, port, b) /\ fromDevice'[k] = fromDevice[k]
    BY <1>1, <1>2, AppendedPacket
  <2> QED
    BY <1>1, <2>1 DEF ViewInv, WireTrue
<1>4. ToldTrue'
  <2> SUFFICES ASSUME NEW port \in Ports, NEW b \in Bits, <<port, b>> \notin unseen',
                      \A k \in DOMAIN fromDevice' : ~About(fromDevice'[k], port, b),
                      BitEvent(port, b) \in DOMAIN table', table'[BitEvent(port, b)] \in DOMAIN told'
               PROVE  told'[table'[BitEvent(port, b)]] = IF b \in level'[port] THEN 1 ELSE 0
    BY DEF ToldTrue
  <2>1. \A k \in DOMAIN fromDevice : ~About(fromDevice[k], port, b)
    BY <1>1, <1>2, AppendedPacket
  <2> QED
    BY <1>1, <2>1 DEF ViewInv, ToldTrue
<1>5. ToldAreEnabled'
  BY <1>1 DEF ViewInv, ToldAreEnabled
<1> QED
  BY <1>3, <1>4, <1>5

(* Whatever a packet is decoded to is about an enabled event; a digital bit  *)
(* only when the packet is about it, with its value.                         *)
DecodedFrom(p, v, e) ==
  /\ e \in DOMAIN table /\ v.id = table[e]
  /\ \A port \in Ports, b \in Bits :
       e = BitEvent(port, b) => About(p, port, b) /\ v.value = IF b \in p.new THEN 1 ELSE 0

LEMMA DecodedEvents ==
  ASSUME NEW p \in Packets, NEW v \in ProcessEvent(p)
  PROVE  \E e \in DOMAIN table : DecodedFrom(p, v, e)
<1>1. p.kind \in {"EVT_DIGI", "EVT_COUNT", "EVT_HEART"} \/ (p.kind = "EVT_ANLG" /\ p.bank \in {0, 1})
  BY TablesAssumption DEF Packets, Changes
<1>2. CASE v \in EventsOfPort(p)
  <2>1. PortEvent(p.port) \in DOMAIN table /\ v.id = table[PortEvent(p.port)]
    BY <1>2 DEF EventsOfPort, Enabled
  <2>2. \A port, b : PortEvent(p.port) # BitEvent(port, b)
    BY EventShapes
  <2> QED
    BY <2>1, <2>2 DEF DecodedFrom
<1>3. CASE p.kind = "EVT_DIGI" /\ v \in EventsOfBits(p)
  <2>1. PICK c \in p.changed \cap EnabledBits(p.port) : v = EventOfBit(p, c)
    BY <1>3 DEF EventsOfBits
  <2>2. /\ v.id = table[BitEvent(p.port, c)] /\ v.value = IF c \in p.new THEN 1 ELSE 0
        /\ BitEvent(p.port, c) \in DOMAIN table
    BY <2>1 DEF EventOfBit, EnabledBits, Enabled
  <2>3. \A port, b : BitEvent(p.port, c) = BitEvent(port, b) => p.port = port /\ c = b
    BY EventShapes
  <2> QED
    BY <1>3, <2>1, <2>2, <2>3 DEF DecodedFrom, About
<1>4. CASE p.kind = "EVT_ANLG" /\ v \in EventsOfAnalog(p)
  <2> DEFINE e == BitEvent(EVT_INDEX_ANALOG_0 + p.bank, p.channel)
  <2>1. e \in DOMAIN table /\ v.id = table[e]
    BY <1>4 DEF EventsOfAnalog, Enabled
  <2>2. EVT_INDEX_ANALOG_0 + p.bank \notin Ports
    BY <1>1, <1>4 DEF EVT_INDEX_ANALOG_0, Ports, NUM_DIGPORTS
  <2>3. \A port \in Ports, b \in Bits : e # BitEvent(port, b)
    BY <2>2, EventShapes
  <2> QED
    BY <2>1, <2>3 DEF DecodedFrom
<1>5. CASE p.kind = "EVT_COUNT" /\ v \in EventsOfCounter(p)
  <2> DEFINE i == IF p.which = 0 THEN EVT_INDEX_COUNTER_ROLLOVER ELSE EVT_INDEX_COUNTER_EVENT
             e == BitEvent(i, p.counter)
  <2>1. e \in DOMAIN table /\ v.id = table[e]
    BY <1>5 DEF EventsOfCounter, Enabled
  <2>2. i \notin Ports
    BY DEF EVT_INDEX_COUNTER_ROLLOVER, EVT_INDEX_COUNTER_EVENT, Ports, NUM_DIGPORTS
  <2>3. \A port \in Ports, b \in Bits : e # BitEvent(port, b)
    BY <2>2, EventShapes
  <2> QED
    BY <2>1, <2>3 DEF DecodedFrom
<1>6. CASE p.kind = "EVT_HEART"
  <2>1. Heartbeat \in DOMAIN table /\ v.id = table[Heartbeat]
    BY <1>6 DEF ProcessEvent, Enabled
  <2>2. \A port, b : Heartbeat # BitEvent(port, b)
    BY EventShapes
  <2> QED
    BY <2>1, <2>2 DEF DecodedFrom
<1> QED
  BY <1>1, <1>2, <1>3, <1>4, <1>5, <1>6 DEF ProcessEvent

(* An enabled bit that a packet is about is told.                            *)
LEMMA BitIsTold ==
  ASSUME NEW p, NEW port \in Ports, NEW b \in Bits, About(p, port, b), BitEvent(port, b) \in DOMAIN table
  PROVE  \E v \in ProcessEvent(p) : v.id = table[BitEvent(port, b)]
<1>1. EventOfBit(p, b) \in EventsOfBits(p)
  BY DEF About, EventsOfBits, EnabledBits, Enabled
<1>2. EventOfBit(p, b).id = table[BitEvent(port, b)]
  BY DEF About, EventOfBit
<1>3. EventsOfBits(p) \subseteq ProcessEvent(p)
  BY DEF About, ProcessEvent, Ports, NUM_DIGPORTS
<1> QED
  BY <1>1, <1>2, <1>3

LEMMA ReceiveView ==
  ASSUME ViewInv, Receive
  PROVE  WireTrue' /\ ToldTrue' /\ ToldAreEnabled'
<1> DEFINE p == Head(fromDevice)
           events == ProcessEvent(p)
           ids == {v.id : v \in events}
<1>1. /\ fromDevice \in Seq(Packets) /\ fromDevice # <<>> /\ fromDevice' = Tail(fromDevice)
      /\ UNCHANGED <<table, level, unseen>>
      /\ \A e \in DOMAIN table : Named(e, table[e])
  BY DEF Receive, ViewInv, TypeInv, DeviceTyped, TablesTyped
<1>2. /\ p \in Packets /\ p = fromDevice[1] /\ 1 \in DOMAIN fromDevice
      /\ \A k \in DOMAIN fromDevice' : k + 1 \in DOMAIN fromDevice /\ fromDevice'[k] = fromDevice[k + 1] /\ k \in Nat \ {0}
      /\ \A k \in DOMAIN fromDevice : k # 1 => k - 1 \in DOMAIN fromDevice' /\ fromDevice'[k - 1] = fromDevice[k] /\ k > 1
      /\ \A k \in DOMAIN fromDevice : k \in Nat
  BY <1>1, TailFacts
<1>3. told' = [i \in DOMAIN told \cup ids |-> IF i \in ids THEN (CHOOSE v \in events : v.id = i).value ELSE told[i]]
  BY DEF Receive
<1>4. \A v \in events : \E e \in DOMAIN table : DecodedFrom(p, v, e)
  BY <1>2, DecodedEvents
<1> HIDE DEF p, events
<1>5. WireTrue'
  <2> SUFFICES ASSUME NEW port \in Ports, NEW b \in Bits, <<port, b>> \notin unseen,
                      NEW k \in DOMAIN fromDevice', LastAbout(k, port, b)'
               PROVE  b \in fromDevice'[k].new <=> b \in level[port]
    BY <1>1 DEF WireTrue
  <2>1. k + 1 \in DOMAIN fromDevice /\ About(fromDevice[k + 1], port, b)
    BY <1>2 DEF LastAbout
  <2>2. \A l \in DOMAIN fromDevice : l > k + 1 => ~About(fromDevice[l], port, b)
    <3> TAKE l \in DOMAIN fromDevice
    <3> HAVE l > k + 1
    <3>1. l - 1 \in DOMAIN fromDevice' /\ fromDevice'[l - 1] = fromDevice[l] /\ l - 1 > k
      BY <1>2
    <3> QED
      BY <3>1 DEF LastAbout
  <2> QED
    BY <1>2, <2>1, <2>2 DEF LastAbout, ViewInv, WireTrue
<1>6. ToldAreEnabled'
  <2> SUFFICES ASSUME NEW i \in DOMAIN told' PROVE \E e \in DOMAIN table : table[e] = i
    BY <1>1 DEF ToldAreEnabled
  <2>1. CASE i \in ids
    BY <1>4, <2>1 DEF DecodedFrom
  <2>2. CASE i \in DOMAIN told
    BY <2>2 DEF ViewInv, ToldAreEnabled
  <2> QED
    BY <1>3, <2>1, <2>2
<1>7. ToldTrue'
  <2> SUFFICES ASSUME NEW port \in Ports, NEW b \in Bits, <<port, b>> \notin unseen,
                      \A k \in DOMAIN fromDevice' : ~About(fromDevice'[k], port, b),
                      BitEvent(port, b) \in DOMAIN table, table[BitEvent(port, b)] \in DOMAIN told'
               PROVE  told'[table[BitEvent(port, b)]] = IF b \in level[port] THEN 1 ELSE 0
    BY <1>1 DEF ToldTrue
  <2> DEFINE e == BitEvent(port, b)  i == table[e]
  <2>1. \A v \in events : v.id = i => About(p, port, b) /\ v.value = IF b \in p.new THEN 1 ELSE 0
    <3> SUFFICES ASSUME NEW v \in events, v.id = i PROVE About(p, port, b) /\ v.value = IF b \in p.new THEN 1 ELSE 0
      OBVIOUS
    <3>1. PICK f \in DOMAIN table : DecodedFrom(p, v, f)
      BY <1>4
    <3>2. f = e
      BY <1>1, <3>1, IdsDiffer DEF DecodedFrom
    <3> QED
      BY <3>1, <3>2 DEF DecodedFrom
  <2>2. CASE About(p, port, b)
    <3>1. i \in ids
      BY <2>2, BitIsTold DEF events
    <3>2. told'[i] = (CHOOSE v \in events : v.id = i).value
      BY <1>3, <3>1
    <3>3. told'[i] = IF b \in p.new THEN 1 ELSE 0
      BY <2>1, <3>1, <3>2
    <3>4. LastAbout(1, port, b)
      BY <1>2, <2>2 DEF LastAbout
    <3> QED
      BY <1>2, <3>3, <3>4 DEF ViewInv, WireTrue
  <2>3. CASE ~About(p, port, b)
    <3>1. i \notin ids
      BY <2>1, <2>3
    <3>2. i \in DOMAIN told /\ told'[i] = told[i]
      BY <1>3, <3>1
    <3>3. \A k \in DOMAIN fromDevice : ~About(fromDevice[k], port, b)
      BY <1>2, <2>3
    <3> QED
      BY <3>2, <3>3 DEF ViewInv, ToldTrue
  <2> QED
    BY <2>2, <2>3
<1> QED
  BY <1>5, <1>6, <1>7

LEMMA ViewStep == ViewInv /\ [Next]_vars => ViewInv'
<1> SUFFICES ASSUME ViewInv, [Next]_vars PROVE ViewInv'
  OBVIOUS
<1>0. TypeInv'
  BY TypeStep DEF ViewInv
<1>1. CASE UNCHANGED <<table, told, fromDevice, level, unseen>>
  BY <1>0, <1>1 DEF ViewInv, WireTrue, ToldTrue, ToldAreEnabled, LastAbout
<1>2. ASSUME NEW t \in Configurers, Forget(t) PROVE ViewInv'
  <2>1. UNCHANGED <<fromDevice, level, unseen>> /\ DOMAIN told' = {}
    BY <1>2 DEF Forget
  <2>2. WireTrue'
    BY <2>1 DEF ViewInv, WireTrue, LastAbout
  <2> QED
    BY <1>0, <2>1, <2>2 DEF ViewInv, ToldTrue, ToldAreEnabled
<1>3. ASSUME NEW t \in Configurers, Reset(t) \/ ChooseMask(t) \/ Write(t) \/ WriteFails(t)
      PROVE  UNCHANGED <<table, told, fromDevice, level, unseen>>
  BY <1>3 DEF Reset, ChooseMask, Write, WriteFails
<1>4. CASE UNCHANGED vars \/ Execute
  BY <1>1, <1>4 DEF vars, Execute
<1> QED
  BY <1>0, <1>1, <1>2, <1>3, <1>4, EnableView, DisableView, ChangeView, ReportView, ReceiveView DEF Next, ViewInv

(* What the application believes of a bit is what the port has, once nothing *)
(* is on its way (ViewFollowsDevice), for any number of threads that         *)
(* configure the events.                                                     *)
THEOREM ViewIsExact == Spec => []ViewFollowsDevice
<1>1. Init => ViewInv
  <2> SUFFICES ASSUME Init PROVE ViewInv
    OBVIOUS
  <2>1. DOMAIN fromDevice = {} /\ DOMAIN told = {} /\ DOMAIN table = {}
    BY DEF Init
  <2> QED
    BY <2>1, TypeInit DEF ViewInv, WireTrue, ToldTrue, ToldAreEnabled
<1>2. ViewInv => ViewFollowsDevice
  <2> SUFFICES ASSUME ViewInv, fromDevice = <<>>,
                      NEW e \in DOMAIN table, Digital(e), e.kind = "bit", table[e] \in DOMAIN told,
                      \A b \in e.bits : <<e.index, b>> \notin unseen
               PROVE  told[table[e]] = IF e.bits \subseteq level[e.index] THEN 1 ELSE 0
    BY DEF ViewFollowsDevice
  <2>1. e \in Maskable
    BY EventShapes DEF ViewInv, TypeInv, TablesTyped, Events
  <2>2. PICK b \in Bits : e = BitEvent(e.index, b)
    BY <2>1, EventShapes
  <2>3. e.bits = {b} /\ e.index \in Ports
    BY <2>1, <2>2, EventShapes DEF Digital, Indices, Ports, NUM_DIGPORTS
  <2>4. DOMAIN fromDevice = {}
    OBVIOUS
  <2>5. told[table[e]] = IF b \in level[e.index] THEN 1 ELSE 0
    BY <2>2, <2>3, <2>4 DEF ViewInv, ToldTrue
  <2> QED
    BY <2>3, <2>5
<1> QED
  BY <1>1, <1>2, ViewStep, PTL DEF Spec
=============================================================================
