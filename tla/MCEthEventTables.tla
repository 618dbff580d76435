------------------------- MODULE MCEthEventTables -------------------------
(* Events that share a port, with ids that tell them apart, next to requests *)
(* out of range and packets nobody asked for.                                *)
EXTENDS EthEventTables, TLC

Ask(type, port, bit, id) == [type |-> type, port |-> port, bit |-> bit, id |-> id]
OnePort == {Ask("digital", 0, -1, 1), Ask("digital", 0, 0, 2), Ask("digital", 0, 7, 3)}
AllKinds == OnePort \cup {Ask("analog", 1, 7, 5), Ask("threshold", 0, 0, 7), Ask("heartbeat", 0, 0, 8)}
  \cup {Ask("digital", 4, 0, 9), Ask("digital", 0, 8, 9), Ask("analog", 2, 0, 9), Ask("analog", 0, 8, 9),
        Ask("rollover", 2, 0, 9), Ask("rollover", 1, 0, 6), Ask("threshold", 1, 0, 9), Ask("message", 0, 0, 9)}
TwoBits == {{}, {0}, {0, 7}}
Others == {[kind |-> "EVT_ANLG", bank |-> 1, channel |-> 7, high |-> 255, prevHigh |-> 0, low |-> 131, rising |-> TRUE],
           [kind |-> "EVT_COUNT", counter |-> 1, which |-> 0, value |-> 9],
           [kind |-> "EVT_COUNT", counter |-> 0, which |-> 1, value |-> 4],
           [kind |-> "EVT_COUNT", counter |-> 2, which |-> 0, value |-> 9],
           [kind |-> "EVT_HEART"],
           [kind |-> "EVT_DIGI", port |-> 4, new |-> {0}, changed |-> {0}]}
=============================================================================
