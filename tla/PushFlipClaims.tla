---------------------------- MODULE PushFlipClaims ----------------------------
(***************************************************************************)
(* What the documents and comments of the repository say of the program    *)
(* and the program does not do.  Each claim is checked by a run of its own *)
(* that finds the steps which break it.                                    *)
(***************************************************************************)
EXTENDS MCPushFlip

(* docs/EXECUTION_PLAN.md:1417, "Turn advancement must skip inactive       *)
(* players": when the turn moves on and an active player is left at the    *)
(* table, it comes to one.                                                 *)
TurnSkipsInactive ==
  [][round_active /\ round_active' /\ current_turn_index' # current_turn_index
     /\ (\E p \in Seated : player_state'[p].is_active) =>
       player_state'[turn_order[current_turn_index' + 1]].is_active]_vars
=============================================================================
