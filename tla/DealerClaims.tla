---------------------------- MODULE DealerClaims ----------------------------
(***************************************************************************)
(* What the dealer service and the app say of each other and the running   *)
(* system does not do.  Each claim is checked by a run of its own.         *)
(***************************************************************************)
EXTENDS MCDealerService

(* dealer/src/auto-commit.ts:61, "The on-chain `round_number` this         *)
(* dealer's current deck was committed for", and use-game-actions.ts:475,  *)
(* the endpoint returns a card if the chain's round_number and             *)
(* draw_counter match: a client in step with the chain is served from the  *)
(* deck of the active round.                                               *)
HitGetsItsCard ==
  round_active /\ committedRoundNumber # NoRound /\ merkle_root = merkleTree
  /\ nextLeafIndex = draw_counter /\ draw_counter < Len(merkle_root) =>
    Serves(round_number, draw_counter)
=============================================================================
