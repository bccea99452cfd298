------------------------------- MODULE MCTable -------------------------------
(***************************************************************************)
(* The table and its bounty board together, for TLC: any interleaving of   *)
(* the game's and the board's instructions.                                *)
(***************************************************************************)
EXTENDS PushFlipLiveness, Bounty

TableSpec == BoardSpec /\ WayOut
=============================================================================
