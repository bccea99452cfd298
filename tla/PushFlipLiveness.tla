-------------------------- MODULE PushFlipLiveness --------------------------
(***************************************************************************)
(* Does a round end?  No instruction has a timeout: a round moves only     *)
(* when its players, or somebody ending the round, send a transaction.     *)
(* The fairness says which of them eventually do.                          *)
(***************************************************************************)
EXTENDS MCPushFlip

(* A player who still is in the round gives it up.                         *)
GiveUp(p) == player_state[p].is_active /\ ForfeitMidRound(p)

(* Any seated player, the dealer or the authority may end a round, and     *)
(* leave_game is open to a player whose turn never comes.                  *)
WayOut == WF_vars(EndRound) /\ \A p \in Players : WF_vars(GiveUp(p))

-----------------------------------------------------------------------------
(* A started round ends: with every player eventually giving up, whatever  *)
(* second chances, thefts and leaves came first, end_round always becomes  *)
(* possible and is sent.  It is about pots whose fee can be computed: with *)
(* a pot so large that pot * fee does not fit a u64, end_round.rs:176      *)
(* refuses as long as somebody has stayed.                                 *)
RoundEnds == round_active ~> ~round_active
=============================================================================
