------------------------------ MODULE MCKVLog ------------------------------
(***************************************************************************)
(* KVLog for TLC: the log of device 1, and one peer that writes once.      *)
(***************************************************************************)
EXTENDS KVLog

PeerWritesOnce == [d \in Devices |-> IF d = Self THEN 2 ELSE 1]
=============================================================================
