---------------------------- MODULE MCKVReplica ----------------------------
(***************************************************************************)
(* KVReplica for TLC.                                                      *)
(***************************************************************************)
EXTENDS KVReplica

\* Device 1 may write twice, so that a device's own writes are ordered; one
\* write of each other device is enough to have two concurrent ones.
WriteQuota == [d \in Devices |-> IF d = 1 THEN 2 ELSE 1]

\* One write of each device: the fewest that make the merge order matter.
OneWriteEach == [d \in Devices |-> 1]
=============================================================================
