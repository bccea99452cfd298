--------------------------- MODULE RoundLifecycle ---------------------------
(***************************************************************************)
(* What the on-chain program promises the services around it: the life of  *)
(* a game's rounds without cards in hands, turns or money.  A session is   *)
(* opened, seats fill and empty between rounds, the dealer commits one     *)
(* deck, the authority starts the round, the deck is drawn in order, and   *)
(* the end of the round forgets the commitment.                            *)
(*                                                                         *)
(* PushFlip implements this module; DealerService is built on it.          *)
(***************************************************************************)
EXTENDS Integers, Sequences

CONSTANTS
  Decks,        \* the shuffles a Merkle root can commit to
  MaxPlayers,   \* MAX_PLAYERS
  MaxRounds     \* bound of the model: rounds started per session

VARIABLES
  session_exists,
  player_count,
  round_active,
  round_number,
  deck_committed,
  merkle_root,
  draw_counter

roundVars == <<session_exists, player_count, round_active, round_number,
               deck_committed, merkle_root, draw_counter>>

Init ==
  /\ session_exists = FALSE
  /\ player_count = 0
  /\ round_active = FALSE
  /\ round_number = 0
  /\ deck_committed = FALSE
  /\ merkle_root = << >>
  /\ draw_counter = 0

ClearSession ==
  /\ player_count' = 0
  /\ round_active' = FALSE
  /\ round_number' = 0
  /\ deck_committed' = FALSE
  /\ merkle_root' = << >>
  /\ draw_counter' = 0

OpenSession ==
  /\ ~session_exists
  /\ session_exists' = TRUE
  /\ ClearSession

CloseSession ==
  /\ session_exists
  /\ ~round_active
  /\ session_exists' = FALSE
  /\ ClearSession

Seat ==
  /\ session_exists
  /\ ~round_active
  /\ player_count < MaxPlayers
  /\ player_count' = player_count + 1
  /\ UNCHANGED <<session_exists, round_active, round_number, deck_committed,
                 merkle_root, draw_counter>>

Unseat ==
  /\ session_exists
  /\ ~round_active
  /\ player_count > 0
  /\ player_count' = player_count - 1
  /\ UNCHANGED <<session_exists, round_active, round_number, deck_committed,
                 merkle_root, draw_counter>>

(* Mutant: a second commit replaces the deck.                              *)
CommitOver(deck) ==
  /\ session_exists
  /\ ~round_active
  /\ deck_committed' = TRUE
  /\ merkle_root' = deck
  /\ draw_counter' = 0
  /\ UNCHANGED <<session_exists, player_count, round_active, round_number>>

Commit(deck) ==
  /\ session_exists
  /\ ~round_active
  /\ ~deck_committed
  /\ deck_committed' = TRUE
  /\ merkle_root' = deck
  /\ draw_counter' = 0
  /\ UNCHANGED <<session_exists, player_count, round_active, round_number>>

Start ==
  /\ session_exists
  /\ ~round_active
  /\ deck_committed
  /\ player_count >= 2
  /\ round_number < MaxRounds
  /\ round_active' = TRUE
  /\ round_number' = round_number + 1
  /\ UNCHANGED <<session_exists, player_count, deck_committed, merkle_root, draw_counter>>

Draw ==
  /\ session_exists
  /\ round_active
  /\ draw_counter < Len(merkle_root)
  /\ draw_counter' = draw_counter + 1
  /\ UNCHANGED <<session_exists, player_count, round_active, round_number,
                 deck_committed, merkle_root>>

End ==
  /\ session_exists
  /\ round_active
  /\ round_active' = FALSE
  /\ deck_committed' = FALSE
  /\ draw_counter' = 0
  /\ UNCHANGED <<session_exists, player_count, round_number, merkle_root>>

Next ==
  \/ OpenSession
  \/ CloseSession
  \/ Seat
  \/ Unseat
  \/ \E deck \in Decks : Commit(deck)
  \/ Start
  \/ Draw
  \/ End

Spec == Init /\ [][Next]_roundVars

-----------------------------------------------------------------------------
(* A committed deck is dealt in order and once: while it stays committed   *)
(* its root is fixed and the counter only moves one card forward, in a     *)
(* round.  commit_deck, start_round, hit and end_round keep this together. *)
DealtInOrder ==
  [][deck_committed /\ deck_committed' =>
       /\ merkle_root' = merkle_root
       /\ draw_counter' \in {draw_counter, draw_counter + 1}
       /\ draw_counter' # draw_counter => round_active /\ round_active']_roundVars
=============================================================================
