---------------------------- MODULE MCNetDelivery ----------------------------
(***************************************************************************)
(* NetDelivery for TLC: one delivering goroutine on each device.           *)
(***************************************************************************)
EXTENDS NetDelivery

CONSTANTS s1, r1

OneEach == [p \in Deliverers |-> IF p = s1 THEN Sender ELSE Recipient]
=============================================================================
