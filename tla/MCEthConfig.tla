---------------------------- MODULE MCEthConfig ----------------------------
(* Two devices: an old one, locked and without DHCP, and a new one. One of   *)
(* the callers changes settings while the other looks for devices.           *)
EXTENDS EthConfig, TLC

CONSTANTS old, new, admin, viewer

Mac(last) == <<0, 16, 200, 192, 255, last>>
Serial(unit) == <<1, 0, 200, unit>>
Part(host, bytes, leftover) ==
  [ip |-> <<192, 168, 7, host>>, gateway |-> <<192, 168, 7, 1>>, nmb |-> bytes, nmm |-> leftover]
Device(last, firmware, enable, part) ==
  [mac |-> Mac(last), serial |-> Serial(last), firmware |-> firmware, enable |-> enable,
   config |-> part, active |-> part, dhcp |-> 0, by |-> <<>>]
Two == old :> Device(9, 2, 0, Part(9, 3, 0)) @@ new :> Device(5, 3, 1, Part(5, 2, 240))

Query == [name |-> "query", filter |-> <<>>]
Discover(filter) == [name |-> "discover_ip", filter |-> filter]
SetConfig(last, host, mask, dhcp) ==
  [name |-> "set_config", filter |-> <<>>,
   data |-> [mac |-> Mac(last), serial |-> Serial(last), ip |-> <<192, 168, 7, host>>,
             gateway |-> <<192, 168, 7, 1>>, netmask |-> mask, dhcp |-> dhcp]]

Masks == {<<255, 255, 255, 255>>, <<255, 254, 0, 0>>, <<255, 0, 255, 0>>, <<255, 85, 0, 0>>, Zero}
Administer ==
  <<{SetConfig(5, 20, mask, 1) : mask \in Masks} \cup {SetConfig(9, 21, <<255, 255, 255, 0>>, 0)},
    {SetConfig(5, 22, <<255, 255, 255, 192>>, 0)}>>
Look ==
  <<{Query, Discover([mac |-> Mac(5)]), Discover([mac |-> Mac(5), serial |-> Serial(5)]),
     Discover([serial |-> Serial(9)]), Discover(<<>>)}>>
Both == admin :> Administer @@ viewer :> Look
=============================================================================
