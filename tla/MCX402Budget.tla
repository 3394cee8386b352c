---------------------------- MODULE MCX402Budget ----------------------------
(***************************************************************************)
(* X402Budget for TLC: a cheap and a dear manifest.                        *)
(***************************************************************************)
EXTENDS X402Budget, TLC

CONSTANTS cheap, dear

TwoPrices == cheap :> 1 @@ dear :> 2
AsTheManifest == [m \in Manifests |-> {Price[m]}]
CheapAsksMore == cheap :> {1, 3} @@ dear :> {2}
Caps == [l \in Capped |-> IF l = Daily THEN 3 ELSE 2]
Interchangeable == Permutations(Calls)
=============================================================================
