------------------------------ MODULE MCFaucet ------------------------------
(***************************************************************************)
(* A small faucet for TLC: two wallets whose names collide.                *)
(***************************************************************************)
EXTENDS Faucet

CONSTANTS w1, w2

(* Both start with the same name; the second's next probe repeats it.      *)
SharedDigest == [w \in {w1, w2} |-> IF w = w1 THEN <<0, 0, 0, 1>> ELSE <<0, 0, 0, 0>>]
TwoWords == <<"x", "y">>
=============================================================================
