------------------------------ MODULE MCKVSync ------------------------------
(***************************************************************************)
(* KVSync for TLC: who lists whom among its connected peers, what the      *)
(* devices write and how often.                                            *)
(***************************************************************************)
EXTENDS KVSync

\* The manifest of device 2 does not list device 1 yet: only 1 runs rounds.
OneDials == {<<1, 2>>}

\* Device 3 hears of device 1's writes only through device 2.
Chain == {<<1, 2>>, <<2, 3>>}

\* Device 1 sets, device 2 deletes, and its clock is behind.
SetAndDelete ==
  [d \in Devices |-> IF d = 1 THEN [key : Keys, op : {"set"}, ts : {2}]
                     ELSE [key : Keys, op : {"delete"}, ts : {1}]]

SetWithinASecond == [d \in Devices |-> [key : Keys, op : {"set"}, ts : {1}]]

OnlyFirstWrites == [d \in Devices |-> IF d = 1 THEN 2 ELSE 0]

FirstWritesTwice == [d \in Devices |-> IF d = 1 THEN 2 ELSE 1]
=============================================================================
