-------------------------- MODULE MCEthConnection --------------------------
(* Two callers on one connection: one calls twice, so that its second query  *)
(* meets what its first one left behind, and the other overlaps with both.   *)
EXTENDS EthConnection, TLC

CONSTANTS first, second

Uneven == first :> 2 @@ second :> 1
=============================================================================
