---------------------------- MODULE MCIgmpSnoop ----------------------------
(***************************************************************************)
(* A bridge with two LAN ports and a WAN interface: one group that comes   *)
(* from the WAN and one between the LAN ports.                             *)
(***************************************************************************)
EXTENDS IgmpSnoop, TLC

CONSTANTS kWan, kLan, lan1, lan2, wan

MCDstDev == [k \in Key |-> IF k = kWan THEN lan1 ELSE lan2]
MCFromDev == [k \in Key |-> IF k = kWan THEN wan ELSE Bridge]
============================================================================
