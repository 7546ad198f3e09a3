---------------------------- MODULE MCBfdSession ----------------------------
(* Instances of BfdSession for TLC.                                        *)
EXTENDS BfdSession, TLC

CONSTANTS n1, n2

Both == {n1, n2}
Pair(x, y) == n1 :> x @@ n2 :> y

FastTx == Pair(2, 2)
MixedTx == Pair(2, 5)
MixedRx == Pair(3, 3)
EvenRx == Pair(2, 2)
Three == Pair(3, 3)

=============================================================================
