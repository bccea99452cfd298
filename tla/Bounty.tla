------------------------------- MODULE Bounty -------------------------------
(***************************************************************************)
(* The bounty board of a game: an optional account next to the             *)
(* GameSession.  The authority creates it and adds bounties, a seated      *)
(* player claims one between rounds against what the last round left in    *)
(* the PlayerState.  No tokens move.  The board's address comes from the   *)
(* game's address only, so a board outlives a closed session and serves    *)
(* the next one with the same id.                                          *)
(***************************************************************************)
EXTENDS PushFlip

CONSTANTS
  MaxBounties,   \* MAX_BOUNTIES (10)
  Rewards        \* the reward_amounts the authority sets

ASSUME BountyAssumption == MaxBounties \in Nat /\ Rewards \subseteq Nat

VARIABLES
  board_exists,  \* the BountyBoard account is open
  bounties       \* bounties[1..bounty_count]

bountyVars == <<board_exists, bounties>>

SEVEN_CARD_WIN == "seven_card_win"
HIGH_SCORE == "high_score"
SURVIVOR == "survivor"
COMEBACK == "comeback"
BountyTypes == {SEVEN_CARD_WIN, HIGH_SCORE, SURVIVOR, COMEBACK}

NoPlayer == "nobody"   \* the zero address

BoardInit == board_exists = FALSE /\ bounties = << >>

InitBountyBoard ==
  /\ session_exists
  /\ ~board_exists
  /\ board_exists' = TRUE
  /\ bounties' = << >>
  /\ UNCHANGED vars

AddBounty(type, reward) ==
  /\ session_exists
  /\ board_exists
  /\ type = HIGH_SCORE => reward # 0
  /\ Len(bounties) < MaxBounties
  /\ bounties' = Append(bounties, [bounty_type |-> type, reward_amount |-> reward,
                                   is_active |-> TRUE, claimed_by |-> NoPlayer])
  /\ UNCHANGED <<vars, board_exists>>

ConditionMet(b, ps) ==
  /\ ps.inactive_reason = STAYED
  /\ b.bounty_type = SEVEN_CARD_WIN => Len(ps.hand) >= 7
  /\ b.bounty_type = HIGH_SCORE => ps.score >= b.reward_amount
  /\ b.bounty_type = COMEBACK => ps.has_used_second_chance

(* Mutants: a claim in the middle of the round; a claim of a claimed one.  *)
ClaimMidRound(p, i) ==
  /\ session_exists
  /\ p \in Seated
  /\ board_exists
  /\ i \in 1..Len(bounties)
  /\ bounties[i].is_active
  /\ p \in accounts
  /\ ConditionMet(bounties[i], player_state[p])
  /\ bounties' = [bounties EXCEPT ![i].is_active = FALSE, ![i].claimed_by = p]
  /\ UNCHANGED <<vars, board_exists>>
ClaimAgain(p, i) ==
  /\ session_exists
  /\ ~round_active
  /\ p \in Seated
  /\ board_exists
  /\ i \in 1..Len(bounties)
  /\ p \in accounts
  /\ ConditionMet(bounties[i], player_state[p])
  /\ bounties' = [bounties EXCEPT ![i].is_active = FALSE, ![i].claimed_by = p]
  /\ UNCHANGED <<vars, board_exists>>

ClaimBounty(p, i) ==
  /\ session_exists
  /\ ~round_active
  /\ p \in Seated
  /\ board_exists
  /\ i \in 1..Len(bounties)
  /\ bounties[i].is_active
  /\ p \in accounts
  /\ ConditionMet(bounties[i], player_state[p])
  /\ bounties' = [bounties EXCEPT ![i].is_active = FALSE, ![i].claimed_by = p]
  /\ UNCHANGED <<vars, board_exists>>

(* Unclaimed bounties do not keep a board open.                            *)
CloseBountyBoard ==
  /\ session_exists
  /\ board_exists
  /\ board_exists' = FALSE
  /\ bounties' = << >>
  /\ UNCHANGED vars

BountyNext ==
  \/ InitBountyBoard
  \/ \E type \in BountyTypes, reward \in Rewards : AddBounty(type, reward)
  \/ \E p \in Players, i \in 1..MaxBounties : ClaimBounty(p, i)
  \/ CloseBountyBoard

(* The game with its board, whichever instruction comes next.              *)
BoardSpec ==
  /\ Init /\ BoardInit
  /\ [][(Next /\ UNCHANGED bountyVars) \/ BountyNext]_<<vars, bountyVars>>

-----------------------------------------------------------------------------
(* A recorded claim is final: while the board is open no later instruction *)
(* of the game or the board gives the bounty to another player, opens it   *)
(* again or moves it to another slot, so the authority can pay from it.    *)
ClaimIsFinal ==
  [][board_exists /\ board_exists' =>
       \A i \in 1..Len(bounties) :
         /\ i <= Len(bounties')
         /\ ~bounties[i].is_active => bounties'[i] = bounties[i]]_<<vars, bountyVars>>

(* A claim is made with the flags of a round that this session has played  *)
(* to its end: at least one round was started, none is running, and the    *)
(* claimer still sits at the table.  Flags that an account kept from a     *)
(* closed session, or that a running round may still take back, never      *)
(* count, although boards and accounts both outlive a session.             *)
ClaimFollowsRound ==
  [][\A i \in 1..Len(bounties) :
       board_exists' /\ bounties[i].is_active /\ ~bounties'[i].is_active =>
         /\ round_number > 0 /\ ~round_active
         /\ bounties'[i].claimed_by \in Seated]_<<vars, bountyVars>>
=============================================================================
