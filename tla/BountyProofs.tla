---------------------------- MODULE BountyProofs ----------------------------
(***************************************************************************)
(* Theorems of Bounty: what the board records is final, and rests on a     *)
(* round this session has played.  Then of Scripts, which drive the game   *)
(* and its board: a smoke test that passes leaves nothing open.            *)
(***************************************************************************)
EXTENDS Scripts, PushFlipPlay

USE DEF ACTIVE, BUST, STAYED

BountyRecord ==
  [bounty_type: BountyTypes, reward_amount: Nat, is_active: BOOLEAN,
   claimed_by: Players \cup {NoPlayer}]

(* A closed board holds nothing.                                           *)
BoardTypeOK ==
  /\ board_exists \in BOOLEAN
  /\ bounties \in Seq(BountyRecord)
  /\ ~board_exists => bounties = << >>

(* Until a session starts a round nobody at its table has stayed: joining  *)
(* takes a fresh account, so an account that outlived an older session     *)
(* has no seat.                                                            *)
NobodyHasStayedYet ==
  /\ round_active => round_number > 0
  /\ round_number = 0 => \A p \in Seated : Ps(p).inactive_reason # STAYED

BoardNext == (Next /\ UNCHANGED bountyVars) \/ BountyNext

-----------------------------------------------------------------------------
(* A board's instruction leaves the game alone.                            *)
LEMMA BoardStepsGame ==
  ASSUME [BoardNext]_<<vars, bountyVars>>
  PROVE  [Next]_vars
<1>1. CASE BountyNext
  BY <1>1 DEF BountyNext, InitBountyBoard, AddBounty, ClaimBounty, CloseBountyBoard
<1> QED BY <1>1 DEF BoardNext

(* The game's theorems hold of the game with its board.                    *)
LEMMA BoardSpecImpliesSpec == BoardSpec => Spec
<1>1. [BoardNext]_<<vars, bountyVars>> => [Next]_vars
  BY BoardStepsGame
<1> QED BY <1>1, PTL DEF BoardSpec, Spec, BoardNext

(* The bounty claim_bounty writes is one, and takes no other's slot.       *)
LEMMA ClaimWrites ==
  ASSUME BoardTypeOK, NEW p \in Players, NEW i \in 1..MaxBounties, ClaimBounty(p, i)
  PROVE  /\ bounties' \in Seq(BountyRecord) /\ Len(bounties') = Len(bounties)
         /\ bounties[i].is_active /\ bounties'[i].claimed_by = p
         /\ \A j \in 1..Len(bounties) : j # i => bounties'[j] = bounties[j]
<1> DEFINE b == [bounties[i] EXCEPT !.is_active = FALSE, !.claimed_by = p]
<1>1. /\ bounties \in Seq(BountyRecord) /\ i \in 1..Len(bounties)
      /\ bounties[i].is_active
      /\ bounties' = [bounties EXCEPT ![i].is_active = FALSE, ![i].claimed_by = p]
  BY DEF BoardTypeOK, ClaimBounty
<1>2. bounties[i] \in BountyRecord
  BY <1>1, ElementOfSeq
<1>3. b \in BountyRecord /\ b.claimed_by = p
  BY <1>2 DEF BountyRecord
<1>4. bounties' = [bounties EXCEPT ![i] = b]
  BY <1>1
<1> HIDE DEF b
<1>5. /\ bounties' \in Seq(BountyRecord) /\ Len(bounties') = Len(bounties)
      /\ \A j \in 1..Len(bounties) : bounties'[j] = IF j = i THEN b ELSE bounties[j]
  <2>1. \A c \in BountyRecord :
          /\ [bounties EXCEPT ![i] = c] \in Seq(BountyRecord)
          /\ Len([bounties EXCEPT ![i] = c]) = Len(bounties)
          /\ \A j \in 1..Len(bounties) :
               [bounties EXCEPT ![i] = c][j] = IF j = i THEN c ELSE bounties[j]
    BY <1>1, ExceptSeq
  <2> QED BY <1>3, <1>4, <2>1
<1> QED BY <1>1, <1>3, <1>5

(* add_bounty writes behind the last bounty.                               *)
LEMMA AddWrites ==
  ASSUME BoardTypeOK, NEW type \in BountyTypes, NEW reward \in Rewards,
         AddBounty(type, reward)
  PROVE  /\ bounties' \in Seq(BountyRecord) /\ Len(bounties') = Len(bounties) + 1
         /\ \A j \in 1..Len(bounties) : bounties'[j] = bounties[j]
<1> DEFINE b == [bounty_type |-> type, reward_amount |-> reward,
                 is_active |-> TRUE, claimed_by |-> NoPlayer]
<1>1. b \in BountyRecord
  BY BountyAssumption DEF BountyRecord
<1>2. bounties \in Seq(BountyRecord) /\ bounties' = Append(bounties, b)
  BY DEF BoardTypeOK, AddBounty
<1> HIDE DEF b
<1> QED BY <1>1, <1>2, AppendProperties

(* The board keeps its type.                                               *)
LEMMA NextBoardType ==
  ASSUME BoardTypeOK, [BoardNext]_<<vars, bountyVars>>
  PROVE  BoardTypeOK'
<1>1. CASE InitBountyBoard
  BY <1>1 DEF InitBountyBoard, BoardTypeOK
<1>2. ASSUME NEW type \in BountyTypes, NEW reward \in Rewards, AddBounty(type, reward)
      PROVE  BoardTypeOK'
  BY <1>2, AddWrites DEF AddBounty, BoardTypeOK
<1>3. ASSUME NEW p \in Players, NEW i \in 1..MaxBounties, ClaimBounty(p, i)
      PROVE  BoardTypeOK'
  BY <1>3, ClaimWrites DEF ClaimBounty, BoardTypeOK
<1>4. CASE CloseBountyBoard
  <2>1. board_exists' \in BOOLEAN
    BY <1>4 DEF CloseBountyBoard
  <2> QED BY <1>4, <2>1 DEF CloseBountyBoard, BoardTypeOK
<1>5. CASE UNCHANGED bountyVars
  BY <1>5 DEF bountyVars, BoardTypeOK
<1> QED BY <1>1, <1>2, <1>3, <1>4, <1>5 DEF BoardNext, BountyNext

(* A board is only written by its own instructions, of their types.        *)
LEMMA BoardIsTyped == BoardSpec => []BoardTypeOK
<1>1. BoardInit => BoardTypeOK
  <2>1. BoardInit => board_exists \in BOOLEAN
    BY DEF BoardInit
  <2> QED BY <2>1 DEF BoardInit, BoardTypeOK
<1>2. BoardTypeOK /\ [BoardNext]_<<vars, bountyVars>> => BoardTypeOK'
  BY NextBoardType
<1> QED BY <1>1, <1>2, PTL DEF BoardSpec, BoardNext

-----------------------------------------------------------------------------
(* A seat that join_round adds belongs to the joiner, and leave_game adds  *)
(* none.                                                                   *)
LEMMA SeatsBetweenRounds ==
  ASSUME TypeOK, NEW p \in Players
  PROVE  /\ \A stake \in Stakes : JoinRound(p, stake) => Seated' \subseteq Seated \cup {p}
         /\ LeaveBetweenRounds(p) => Seated' \subseteq Seated
<1>1. turn_order \in Seq(Players) /\ Len(turn_order) \in Nat
  BY DEF TypeOK, TurnTypeOK
<1>2. ASSUME NEW stake \in Stakes, JoinRound(p, stake)
      PROVE  Seated' \subseteq Seated \cup {p}
  <2>1. turn_order' = Append(turn_order, p)
    BY <1>2 DEF JoinRound
  <2>2. ASSUME NEW i \in 1..Len(turn_order')
        PROVE  turn_order'[i] \in Seated \cup {p}
    <3>1. Len(turn_order') = Len(turn_order) + 1
      BY <1>1, <2>1, AppendProperties
    <3>2. i \in 1..Len(turn_order) \/ i = Len(turn_order) + 1
      BY <1>1, <3>1
    <3> QED BY <1>1, <2>1, <3>2, AppendProperties DEF Seated
  <2> QED BY <2>2 DEF Seated
<1>3. ASSUME LeaveBetweenRounds(p)
      PROVE  Seated' \subseteq Seated
  <2>1. PICK i \in 1..Len(turn_order) : turn_order' = RemoveAt(turn_order, i)
    BY <1>3 DEF LeaveBetweenRounds
  <2>2. ASSUME NEW j \in 1..Len(turn_order')
        PROVE  turn_order'[j] \in Seated
    <3>1. /\ Len(turn_order') = Len(turn_order) - 1
          /\ turn_order'[j] = IF j < i THEN turn_order[j] ELSE turn_order[j + 1]
      BY <1>1, <2>1, RemoveAtType
    <3>2. j \in 1..Len(turn_order) /\ j + 1 \in 1..Len(turn_order)
      BY <1>1, <3>1
    <3> QED BY <3>1, <3>2 DEF Seated
  <2> QED BY <2>2 DEF Seated
<1> QED BY <1>2, <1>3

(* Between rounds a step leaves the account of a seat that was there alone *)
(* or clears it.                                                           *)
LEMMA NextNobodyHasStayed ==
  ASSUME TypeOK, NobodyHasStayedYet, [Next]_vars
  PROVE  NobodyHasStayedYet'
<1> USE DEF sessionVars, creationVars, turnVars, roundVars, playerVars
<1>0. round_number \in Nat /\ player_state \in [Players -> PlayerState]
      /\ turn_order \in Seq(Players) /\ Seated \subseteq Players
  BY ParameterAssumption, ElementOfSeq DEF TypeOK, RoundTypeOK, PlayerTypeOK, TurnTypeOK, Seated
<1>1. CASE (\E fee \in Fees : Initialize(fee)) \/ CloseGame
  BY <1>1 DEF Initialize, CloseGame, ClearSession, NobodyHasStayedYet, Seated
<1>2. CASE StartRound
  BY <1>0, <1>2 DEF StartRound, NobodyHasStayedYet
<1>3. ASSUME NEW p \in Players, NEW stake \in Stakes, JoinRound(p, stake)
      PROVE  NobodyHasStayedYet'
  <2>1. PICK s : player_state' = [player_state EXCEPT ![p] = FreshPlayerState(s)]
    BY <1>3 DEF JoinRound
  <2>2. ~round_active' /\ round_number' = round_number /\ Seated' \subseteq Seated \cup {p}
    BY <1>3, SeatsBetweenRounds DEF JoinRound
  <2>3. Ps(p)'.inactive_reason # STAYED /\ \A q \in Seated : q # p => Ps(q)' = Ps(q)
    BY <1>0, <2>1 DEF Ps, FreshPlayerState
  <2> QED BY <2>2, <2>3 DEF NobodyHasStayedYet, Ps
<1>4. ASSUME NEW p \in Players, LeaveBetweenRounds(p)
      PROVE  NobodyHasStayedYet'
  <2>1. player_state' = [player_state EXCEPT ![p] = FreshPlayerState(0)]
    BY <1>4 DEF LeaveBetweenRounds
  <2>2. ~round_active' /\ round_number' = round_number /\ Seated' \subseteq Seated
    BY <1>4, SeatsBetweenRounds DEF LeaveBetweenRounds
  <2>3. Ps(p)'.inactive_reason # STAYED /\ \A q \in Seated : q # p => Ps(q)' = Ps(q)
    BY <1>0, <2>1 DEF Ps, FreshPlayerState
  <2> QED BY <2>2, <2>3 DEF NobodyHasStayedYet, Ps
<1>5. CASE \/ InitVault
           \/ \E deck \in Decks : CommitDeck(deck)
           \/ UNCHANGED vars
  <2>1. UNCHANGED <<round_active, round_number, turn_order, player_state>>
    BY <1>5, Zenon DEF InitVault, CommitDeck, vars, sessionVars, turnVars, roundVars, playerVars
  <2> QED BY <2>1 DEF NobodyHasStayedYet, Seated, Ps
<1>6. CASE \/ \E p \in Players : ForfeitMidRound(p)
           \/ \E p, t \in Players : Hit(p, t)
           \/ \E p \in Players : Stay(p)
           \/ \E p \in Players : BurnSecondChance(p)
           \/ \E p \in Players : BurnScry(p)
           \/ EndRound
  <2>1. round_active /\ round_number' = round_number
    <3>1. CASE EndRound
      BY <3>1 DEF EndRound, EndRoundWithWinner, EndRoundRollover, EndRoundSweep, CanEndRound,
                  FinishRound
    <3>2. ASSUME NEW p \in Players, NEW t \in Players, Hit(p, t)
          PROVE  round_active /\ round_number' = round_number
      BY <3>2 DEF Hit, HitBust, HitPlain, HitRugPull, HitVampireAttack, DrawsEffect, CanDraw,
                  CountDraw, IsCurrentPlayer
    <3>3. ASSUME NEW p \in Players, ForfeitMidRound(p) \/ Stay(p)
          PROVE  round_active /\ round_number' = round_number
      BY <3>3 DEF ForfeitMidRound, Stay, IsCurrentPlayer
    <3>4. ASSUME NEW p \in Players, BurnSecondChance(p) \/ BurnScry(p)
          PROVE  round_active /\ round_number' = round_number
      BY <3>4 DEF BurnSecondChance, BurnScry, IsCurrentPlayer
    <3> QED BY <1>6, <3>1, <3>2, <3>3, <3>4
  <2>2. round_number' > 0
    BY <2>1 DEF NobodyHasStayedYet
  <2> QED BY <1>0, <2>1, <2>2 DEF NobodyHasStayedYet
<1> QED BY <1>1, <1>2, <1>3, <1>4, <1>5, <1>6 DEF Next, LeaveGame

(* Nobody stays in a session without a round.                              *)
LEMMA NobodyStaysBeforeARound == Spec => []NobodyHasStayedYet
<1>1. Init => NobodyHasStayedYet
  BY DEF Init, NobodyHasStayedYet, Seated
<1>2. TypeOK /\ NobodyHasStayedYet /\ [Next]_vars => NobodyHasStayedYet'
  BY NextNobodyHasStayed
<1> QED BY <1>1, <1>2, TypeCorrect, PTL DEF Spec

-----------------------------------------------------------------------------
(* While a board is open no instruction of the game or the board gives a   *)
(* claimed bounty to another player, opens it again or moves it: the       *)
(* authority can pay from what the board shows.                            *)
THEOREM ClaimsAreFinal == BoardSpec => ClaimIsFinal
<1> DEFINE Move == board_exists /\ board_exists' =>
       \A i \in 1..Len(bounties) :
         /\ i <= Len(bounties')
         /\ ~bounties[i].is_active => bounties'[i] = bounties[i]
<1>1. BoardTypeOK /\ [BoardNext]_<<vars, bountyVars>> => Move
  <2> SUFFICES ASSUME BoardTypeOK, [BoardNext]_<<vars, bountyVars>>,
                      board_exists, board_exists', NEW i \in 1..Len(bounties)
               PROVE  /\ i <= Len(bounties')
                      /\ ~bounties[i].is_active => bounties'[i] = bounties[i]
    OBVIOUS
  <2>0. Len(bounties) \in Nat
    BY DEF BoardTypeOK
  <2>1. CASE UNCHANGED bountyVars
    BY <2>0, <2>1 DEF bountyVars
  <2>2. CASE \E type \in BountyTypes, reward \in Rewards : AddBounty(type, reward)
    BY <2>0, <2>2, AddWrites
  <2>3. CASE \E p \in Players, j \in 1..MaxBounties : ClaimBounty(p, j)
    BY <2>0, <2>3, ClaimWrites
  <2>4. CASE InitBountyBoard \/ CloseBountyBoard
    BY <2>4 DEF InitBountyBoard, CloseBountyBoard
  <2> QED BY <2>1, <2>2, <2>3, <2>4 DEF BoardNext, BountyNext
<1>2. BoardTypeOK /\ [BoardNext]_<<vars, bountyVars>> => [Move]_<<vars, bountyVars>>
  BY <1>1
<1> QED BY <1>2, BoardIsTyped, PTL DEF BoardSpec, BoardNext, ClaimIsFinal

(* A claim rests on a round this session has started and finished, and     *)
(* goes to somebody at its table, although boards and accounts outlive     *)
(* sessions.                                                               *)
THEOREM ClaimsFollowRounds == BoardSpec => ClaimFollowsRound
<1> DEFINE Move == \A i \in 1..Len(bounties) :
       board_exists' /\ bounties[i].is_active /\ ~bounties'[i].is_active =>
         /\ round_number > 0 /\ ~round_active
         /\ bounties'[i].claimed_by \in Seated
<1>1. TypeOK /\ NobodyHasStayedYet /\ BoardTypeOK /\ [BoardNext]_<<vars, bountyVars>> => Move
  <2> SUFFICES ASSUME TypeOK, NobodyHasStayedYet, BoardTypeOK,
                      [BoardNext]_<<vars, bountyVars>>, NEW i \in 1..Len(bounties),
                      board_exists', bounties[i].is_active, ~bounties'[i].is_active
               PROVE  /\ round_number > 0 /\ ~round_active
                      /\ bounties'[i].claimed_by \in Seated
    OBVIOUS
  <2>0. round_number \in Nat
    BY ParameterAssumption DEF TypeOK, RoundTypeOK
  <2>1. ~UNCHANGED bountyVars
    BY DEF bountyVars
  <2>2. ASSUME NEW type \in BountyTypes, NEW reward \in Rewards, AddBounty(type, reward)
        PROVE  FALSE
    BY <2>2, AddWrites
  <2>3. ASSUME NEW p \in Players, NEW j \in 1..MaxBounties, ClaimBounty(p, j)
        PROVE  /\ round_number > 0 /\ ~round_active
               /\ bounties'[i].claimed_by \in Seated
    <3>1. i = j
      BY <2>3, ClaimWrites
    <3>2. p \in Seated /\ ~round_active /\ Ps(p).inactive_reason = STAYED
      BY <2>3 DEF ClaimBounty, ConditionMet, Ps
    <3>3. bounties'[i].claimed_by = p
      BY <2>3, <3>1, ClaimWrites
    <3> QED BY <2>0, <3>2, <3>3 DEF NobodyHasStayedYet
  <2>4. ~InitBountyBoard /\ ~CloseBountyBoard
    BY DEF InitBountyBoard, CloseBountyBoard, BoardTypeOK
  <2> QED BY <2>1, <2>2, <2>3, <2>4 DEF BoardNext, BountyNext
<1>2. TypeOK /\ NobodyHasStayedYet /\ BoardTypeOK /\ [BoardNext]_<<vars, bountyVars>>
        => [Move]_<<vars, bountyVars>>
  BY <1>1
<1> QED
  BY <1>2, BoardIsTyped, BoardSpecImpliesSpec, TypeCorrect, NobodyStaysBeforeARound, PTL
     DEF BoardSpec, BoardNext, ClaimFollowsRound

-----------------------------------------------------------------------------
(* The scripts.  A smoke test is a number of moves of the two players, the *)
(* operator and the dealer, and an end that settles the round and closes   *)
(* what was opened.  No shuffle and no refusal changes that order.         *)

SmokeTests == {"smoke_test", "smoke_test_bounty", "smoke_test_tokens", "smoke_test_burns"}

(* The transactions in front of the end, by signer; only one script has a  *)
(* board.                                                                  *)
PlayerIx == {"join_round", "hit", "stay", "burn_scry", "burn_second_chance", "claim_bounty"}
OperatorIx == {"initialize", "init_vault", "mint_to", "commit_deck", "start_round"}
BoardIx == {"init_bounty_board", "add_bounty"}

Facts == {"active", "bust", "has_room", "new", "on_turn"}
Args == {Anybody, Operator, 1} \cup [type : BountyTypes, reward : {1, Unreachable}]
Txs(ixs, who) ==
  [ix : ixs, by : who, arg : Args, when : SUBSET Facts, again : BOOLEAN, refused : BOOLEAN]
PlainMoves == Txs(PlayerIx, {A, B}) \cup Txs(OperatorIx, {Operator})
BoardMoves == PlainMoves \cup Txs(BoardIx, {Operator})

Moves(name) == IF name = "smoke_test_bounty" THEN BoardMoves ELSE PlainMoves

(* How each script ends.                                                   *)
EndOf(name) ==
  CASE name = "smoke_test" -> Ending(Settle)
    [] name = "smoke_test_bounty" -> BountyEnding
    [] OTHER -> Ending(SettleToOperator)

(* What a script attaches to a transaction leaves its kind.                *)
LEMMA TxKinds ==
  ASSUME NEW ixs, NEW who, NEW tx \in Txs(ixs, who)
  PROVE  /\ \A arg \in Args : With(tx, arg) \in Txs(ixs, who)
         /\ \A facts \in SUBSET Facts : When(tx, facts) \in Txs(ixs, who)
         /\ \A facts \in SUBSET Facts : While(tx, facts) \in Txs(ixs, who)
         /\ Rejected(tx) \in Txs(ixs, who)
BY DEF Txs, With, When, While, Rejected

(* A bare transaction is one of its kind.                                  *)
LEMMA TxKind ==
  ASSUME NEW ixs, NEW who, NEW ix \in ixs, NEW p \in who
  PROVE  Tx(ix, p) \in Txs(ixs, who)
<1>1. Anybody \in Args /\ {} \in SUBSET Facts
  BY DEF Args
<1> QED BY <1>1 DEF Txs, Tx

(* A player's move.                                                        *)
LEMMA PlayerMove ==
  ASSUME NEW ix \in PlayerIx, NEW p \in {A, B}
  PROVE  Tx(ix, p) \in PlainMoves
BY TxKind DEF PlainMoves

(* A move of the operator or the dealer.                                   *)
LEMMA OperatorMove ==
  ASSUME NEW ix \in OperatorIx
  PROVE  Tx(ix, Operator) \in PlainMoves
BY TxKind DEF PlainMoves

(* A move stays a move with a condition, an argument or an expectation.    *)
LEMMA ChangedMove ==
  ASSUME NEW tx \in PlainMoves
  PROVE  /\ \A arg \in Args : With(tx, arg) \in PlainMoves
         /\ \A facts \in SUBSET Facts : When(tx, facts) \in PlainMoves
         /\ \A facts \in SUBSET Facts : While(tx, facts) \in PlainMoves
         /\ Rejected(tx) \in PlainMoves
BY TxKinds DEF PlainMoves

(* Everything in front of the end is a move.                               *)
LEMMA Phases ==
  /\ SmokeTable \o SmokeRound \in Seq(PlainMoves)
  /\ TokensTable \o TokensRound \in Seq(PlainMoves)
  /\ BurnsTable \o BurnsScry \o BurnsBust \o BurnsWrapUp \in Seq(PlainMoves)
  /\ BountyTable \o BountyRound \in Seq(BoardMoves)
<1>0. /\ {"active"} \in SUBSET Facts /\ {"bust"} \in SUBSET Facts
      /\ {"active", "has_room"} \in SUBSET Facts /\ {"active", "on_turn"} \in SUBSET Facts
      /\ {"active", "on_turn", "new"} \in SUBSET Facts
  BY DEF Facts
<1>1. \A S : \A s, t \in Seq(S) : s \o t \in Seq(S)
  BY ConcatProperties
<1>2. Opening \in Seq(PlainMoves) /\ Vault \in Seq(PlainMoves)
  BY OperatorMove DEF Opening, Vault, OperatorIx
<1>3. Seating \in Seq(PlainMoves) /\ Dealing \in Seq(PlainMoves)
  BY OperatorMove, PlayerMove DEF Seating, Dealing, OperatorIx, PlayerIx
<1>4. ASSUME NEW p \in {A, B}
      PROVE  HitThenStay(p) \in Seq(PlainMoves)
  <2>1. Tx("hit", p) \in PlainMoves /\ Tx("stay", p) \in PlainMoves
    BY PlayerMove DEF PlayerIx
  <2>2. When(Tx("stay", p), {"active"}) \in PlainMoves
    BY <1>0, <2>1, ChangedMove
  <2> QED BY <2>1, <2>2 DEF HitThenStay
<1>6. SmokeTable \o SmokeRound \in Seq(PlainMoves)
  <2>1. SmokeTable \in Seq(PlainMoves)
    BY <1>1, <1>2, <1>3 DEF SmokeTable
  <2>3. SmokeRound \in Seq(PlainMoves)
    BY <1>1, <1>4 DEF SmokeRound
  <2> QED BY <1>1, <2>1, <2>3
<1>7. \A p \in {A, B} : Tx("hit", p) \in PlainMoves /\ Tx("stay", p) \in PlainMoves
  BY PlayerMove DEF PlayerIx
<1>8. TokensTable \o TokensRound \in Seq(PlainMoves)
  <2>1. TokensTable \in Seq(PlainMoves)
    BY <1>1, <1>2, <1>3 DEF TokensTable
  <2>2. <<Tx("hit", A), Tx("stay", A), Tx("hit", B), Tx("stay", B)>> \in Seq(PlainMoves)
    BY <1>7
  <2>3. TokensRound \in Seq(PlainMoves)
    BY <1>1, <1>3, <2>2 DEF TokensRound
  <2> QED BY <1>1, <2>1, <2>3
<1>9. BurnsTable \o BurnsScry \o BurnsBust \o BurnsWrapUp \in Seq(PlainMoves)
  <2>1. BurnsTable \in Seq(PlainMoves)
    BY <1>1, <1>2, <1>3 DEF BurnsTable
  <2>2. Tx("burn_scry", A) \in PlainMoves /\ Tx("burn_second_chance", A) \in PlainMoves
    BY PlayerMove DEF PlayerIx
  <2>3. <<Tx("hit", A), Tx("burn_scry", A)>> \in Seq(PlainMoves)
    BY <1>7, <2>2
  <2>4. BurnsScry \in Seq(PlainMoves)
    BY <1>1, <1>3, <2>3 DEF BurnsScry
  <2>5. BurnsBust \in Seq(PlainMoves)
    <3>1. While(Tx("hit", A), {"active", "has_room"}) \in PlainMoves
      BY <1>0, <1>7, ChangedMove
    <3>2. When(Tx("burn_second_chance", A), {"bust"}) \in PlainMoves
      BY <1>0, <2>2, ChangedMove
    <3> QED BY <3>1, <3>2 DEF BurnsBust
  <2>6. BurnsWrapUp \in Seq(PlainMoves)
    <3>1. When(Tx("hit", B), {"active", "on_turn", "new"}) \in PlainMoves
      BY <1>0, <1>7, ChangedMove
    <3>2. \A p \in {A, B} : When(Tx("stay", p), {"active", "on_turn"}) \in PlainMoves
      BY <1>0, <1>7, ChangedMove
    <3> QED BY <3>1, <3>2 DEF BurnsWrapUp
  <2> QED BY <1>1, <2>1, <2>4, <2>5, <2>6
<1>10. BountyTable \o BountyRound \in Seq(BoardMoves)
  <2>1. \A s \in Seq(PlainMoves) : s \in Seq(BoardMoves)
    BY DEF BoardMoves
  <2>2. /\ Tx("init_bounty_board", Operator) \in BoardMoves
        /\ With(Tx("add_bounty", Operator), [type |-> SURVIVOR, reward |-> 1]) \in BoardMoves
        /\ With(Tx("add_bounty", Operator), [type |-> HIGH_SCORE, reward |-> Unreachable])
             \in BoardMoves
    <3>1. \A ix \in BoardIx : Tx(ix, Operator) \in Txs(BoardIx, {Operator})
      BY TxKind
    <3>2. /\ [type |-> SURVIVOR, reward |-> 1] \in Args
          /\ [type |-> HIGH_SCORE, reward |-> Unreachable] \in Args
      BY DEF Args, BountyTypes
    <3> QED BY <3>1, <3>2, TxKinds DEF BoardIx, BoardMoves
  <2>3. BountyTable \in Seq(BoardMoves)
    <3>1. \A s, t, u \in BoardMoves : <<s, t, u>> \in Seq(BoardMoves)
      OBVIOUS
    <3>2. <<Tx("init_bounty_board", Operator),
            With(Tx("add_bounty", Operator), [type |-> SURVIVOR, reward |-> 1]),
            With(Tx("add_bounty", Operator), [type |-> HIGH_SCORE, reward |-> Unreachable])>>
             \in Seq(BoardMoves)
      BY <2>2, <3>1, Zenon
    <3> QED BY <1>1, <1>2, <1>3, <2>1, <3>2 DEF BountyTable
  <2>4. Rejected(With(Tx("claim_bounty", A), 1)) \in PlainMoves
    <3>1. Tx("claim_bounty", A) \in PlainMoves
      BY PlayerMove DEF PlayerIx
    <3>2. 1 \in Args
      BY DEF Args
    <3> QED BY <3>1, <3>2, ChangedMove
  <2>5. BountyRound \in Seq(PlainMoves)
    BY <1>7, <2>4 DEF BountyRound
  <2> QED BY <1>1, <2>1, <2>3, <2>5
<1> QED BY <1>6, <1>8, <1>9, <1>10

(* How many transactions a script sends before it settles the round.       *)
Playing(name) == Len(Steps[name]) - Len(EndOf(name))

(* The elements of two sequences in a row.                                 *)
LEMMA InFront ==
  ASSUME NEW S, NEW T, NEW s \in Seq(S), NEW t \in Seq(T)
  PROVE  /\ Len(s \o t) - Len(t) = Len(s) /\ Len(s) \in Nat
         /\ \A i \in 1..Len(s) : (s \o t)[i] \in S
         /\ \A i \in 1..Len(t) : (s \o t)[Len(s) + i] = t[i]
<1>1. s \in Seq(S \cup T) /\ t \in Seq(S \cup T)
  OBVIOUS
<1> QED BY <1>1, ConcatProperties, ElementOfSeq

(* The ends are of these lengths.                                          *)
LEMMA EndLength ==
  ASSUME NEW name \in SmokeTests
  PROVE  /\ name = "smoke_test_bounty" => Len(EndOf(name)) = 7
         /\ name # "smoke_test_bounty" => Len(EndOf(name)) = 4
         /\ \E T : EndOf(name) \in Seq(T)
<1>1. \A settle : Len(Ending(settle)) = 4 /\ \E T : Ending(settle) \in Seq(T)
  <2>1. \A a, b, c, d : Len(<<a, b, c, d>>) = 4 /\ <<a, b, c, d>> \in Seq({a, b, c, d})
    OBVIOUS
  <2> QED BY <2>1 DEF Ending
<1>2. Len(BountyEnding) = 7 /\ \E T : BountyEnding \in Seq(T)
  <2>1. \A a, b, c, d, e, f, g :
          /\ Len(<<a, b, c, d, e, f, g>>) = 7
          /\ <<a, b, c, d, e, f, g>> \in Seq({a, b, c, d, e, f, g})
    OBVIOUS
  <2> QED BY <2>1 DEF BountyEnding
<1> QED BY <1>1, <1>2 DEF EndOf, SmokeTests

(* A script is its moves and then its end.                                 *)
LEMMA ScriptShape ==
  ASSUME NEW name \in SmokeTests
  PROVE  /\ Playing(name) \in Nat /\ Len(Steps[name]) = Playing(name) + Len(EndOf(name))
         /\ \A i \in 1..Playing(name) : Steps[name][i] \in Moves(name)
         /\ \A i \in 1..Len(EndOf(name)) : Steps[name][Playing(name) + i] = EndOf(name)[i]
<1>1. PICK play \in Seq(Moves(name)) : Steps[name] = play \o EndOf(name)
  <2>1. CASE name = "smoke_test"
    <3>1. Steps[name] = (SmokeTable \o SmokeRound) \o Ending(Settle)
      BY <2>1 DEF Steps
    <3> QED BY <2>1, <3>1, Phases DEF Moves, EndOf
  <2>2. CASE name = "smoke_test_tokens"
    <3>1. Steps[name] = (TokensTable \o TokensRound) \o Ending(SettleToOperator)
      BY <2>2 DEF Steps
    <3> QED BY <2>2, <3>1, Phases DEF Moves, EndOf
  <2>3. CASE name = "smoke_test_burns"
    <3>1. Steps[name] =
            (BurnsTable \o BurnsScry \o BurnsBust \o BurnsWrapUp) \o Ending(SettleToOperator)
      BY <2>3 DEF Steps
    <3> QED BY <2>3, <3>1, Phases DEF Moves, EndOf
  <2>4. CASE name = "smoke_test_bounty"
    <3>1. Steps[name] = (BountyTable \o BountyRound) \o BountyEnding
      BY <2>4 DEF Steps
    <3> QED BY <2>4, <3>1, Phases DEF Moves, EndOf
  <2> QED BY <2>1, <2>2, <2>3, <2>4 DEF SmokeTests
<1>2. Len(EndOf(name)) \in Nat
  BY EndLength
<1> QED BY <1>1, <1>2, EndLength, InFront DEF Playing

(* So its length is known from the number of its moves.                    *)
LEMMA ScriptLength ==
  ASSUME NEW name \in SmokeTests
  PROVE  /\ Playing(name) \in Nat /\ Len(Steps[name]) \in Nat
         /\ name = "smoke_test_bounty" => Len(Steps[name]) = Playing(name) + 7
         /\ name # "smoke_test_bounty" => Len(Steps[name]) = Playing(name) + 4
<1>1. /\ Playing(name) \in Nat /\ Len(Steps[name]) = Playing(name) + Len(EndOf(name))
  BY ScriptShape
<1>2. \A n \in Nat : n + 4 \in Nat /\ n + 7 \in Nat
  OBVIOUS
<1> QED BY <1>1, <1>2, EndLength

(* The types, and a vault that holds the pot, through one transaction.     *)
TxState == TypeOK /\ VaultBacksPot

(* The token program's mint_to touches neither vault nor pot.              *)
LEMMA MintKeeps ==
  ASSUME TxState, MintTo
  PROVE  TxState'
<1>1. Cardinality(Players) \in Nat /\ MintAmount \in Nat
  BY ParameterAssumption, ScriptAssumption, FS_CardinalityType
<1>2. TokenTypeOK'
  <2>1. Cardinality(Players) * MintAmount \in Nat
    BY <1>1
  <2>2. /\ wallet \in [Players -> Nat] /\ supply \in Int
        /\ wallet' = [p \in Players |-> wallet[p] + MintAmount]
        /\ supply' = supply + Cardinality(Players) * MintAmount
    BY DEF TxState, TypeOK, TokenTypeOK, MintTo
  <2>3. supply' \in Int
    BY <2>1, <2>2
  <2>4. wallet' \in [Players -> Nat]
    BY <1>1, <2>2
  <2> QED BY <2>3, <2>4 DEF TxState, TypeOK, TokenTypeOK, MintTo
<1>3. TypeOK'
  BY <1>2, FrameType DEF TxState, TypeOK, MintTo, sessionVars
<1> QED BY <1>3 DEF TxState, VaultBacksPot, MintTo, sessionVars, creationVars, potVars

(* A transaction that the program accepts is one of its instructions, or a *)
(* mint_to.                                                                *)
LEMMA TxKeeps ==
  ASSUME TxState, NEW tx, tx.by \in {A, B} \/ tx.ix \notin PlayerIx \cup {"leave_game"},
         Accepted(tx) \/ UNCHANGED <<vars, bountyVars>>
  PROVE  TxState'
<1>0. A \in Players /\ B \in Players /\ MinStake \in Stakes
  BY ScriptAssumption
<1>1. CASE BoardTx(tx) \/ UNCHANGED <<vars, bountyVars>>
  <2>1. UNCHANGED vars
    BY <1>1 DEF BoardTx, InitBountyBoard, AddBounty, ClaimBounty, CloseBountyBoard
  <2> QED BY <2>1, NextType, NextBacked DEF TxState
<1>2. CASE GameTx(tx)
  <2>1. MintTo \/ Next
    BY <1>0, <1>2 DEF GameTx, Next, PlayerIx, HitOf, Hit
  <2> QED BY <2>1, MintKeeps, NextType, NextBacked DEF TxState
<1> QED BY <1>1, <1>2 DEF Accepted

(* Only join_round opens an account, the signer's.                         *)
LEMMA TxAccounts ==
  ASSUME NEW tx, Accepted(tx) \/ UNCHANGED <<vars, bountyVars>>
  PROVE  /\ accounts' \subseteq accounts \cup {tx.by}
         /\ tx.ix # "join_round" => accounts' \subseteq accounts
<1>1. CASE BoardTx(tx) \/ UNCHANGED <<vars, bountyVars>>
  BY <1>1 DEF BoardTx, InitBountyBoard, AddBounty, ClaimBounty, CloseBountyBoard, vars, playerVars
<1>2. CASE GameTx(tx)
  <2> USE DEF playerVars
  <2>1. CASE tx.ix = "join_round"
    BY <1>2, <2>1 DEF GameTx, JoinRound
  <2>2. CASE tx.ix = "leave_game"
    BY <1>2, <2>2 DEF GameTx, LeaveGame, LeaveBetweenRounds, ForfeitMidRound
  <2>3. CASE tx.ix \in {"initialize", "init_vault", "close_game", "mint_to", "commit_deck"}
    BY <1>2, <2>3 DEF GameTx, Initialize, InitVault, CloseGame, MintTo, CommitDeck
  <2>4. CASE tx.ix = "start_round"
    BY <1>2, <2>4 DEF GameTx, StartRound
  <2>5. CASE tx.ix \in {"hit", "stay", "burn_scry", "burn_second_chance"}
    BY <1>2, <2>5 DEF GameTx, HitOf, HitBust, HitPlain, CountDraw, Stay, BurnScry, BurnSecondChance
  <2>6. CASE tx.ix = "end_round"
    BY <1>2, <2>6 DEF GameTx, EndRound, EndRoundWithWinner, EndRoundRollover, EndRoundSweep,
                      FinishRound
  <2> QED BY <1>2, <2>1, <2>2, <2>3, <2>4, <2>5, <2>6 DEF GameTx
<1> QED BY <1>1, <1>2 DEF Accepted

(* Only init_bounty_board opens a board.                                   *)
LEMMA TxBoard ==
  ASSUME NEW tx, Accepted(tx) \/ UNCHANGED <<vars, bountyVars>>, board_exists',
         tx.ix # "init_bounty_board"
  PROVE  board_exists
BY DEF Accepted, BoardTx, AddBounty, ClaimBounty, CloseBountyBoard, bountyVars

(* Only start_round starts a round.                                        *)
LEMMA TxRound ==
  ASSUME NEW tx, Accepted(tx) \/ UNCHANGED <<vars, bountyVars>>, tx.ix # "start_round"
  PROVE  round_active' => round_active
<1>1. CASE BoardTx(tx) \/ UNCHANGED <<vars, bountyVars>>
  BY <1>1 DEF BoardTx, InitBountyBoard, AddBounty, ClaimBounty, CloseBountyBoard, vars, sessionVars,
              roundVars
<1>2. CASE GameTx(tx)
  <2> USE DEF sessionVars, roundVars
  <2>1. CASE tx.ix = "join_round"
    BY <1>2, <2>1 DEF GameTx, JoinRound
  <2>2. CASE tx.ix = "leave_game"
    BY <1>2, <2>2 DEF GameTx, LeaveGame, LeaveBetweenRounds, ForfeitMidRound
  <2>3. CASE tx.ix \in {"initialize", "init_vault", "close_game", "mint_to", "commit_deck"}
    BY <1>2, <2>3 DEF GameTx, Initialize, InitVault, CloseGame, ClearSession, MintTo, CommitDeck
  <2>4. CASE tx.ix \in {"hit", "stay", "burn_scry", "burn_second_chance"}
    BY <1>2, <2>4 DEF GameTx, HitOf, HitBust, HitPlain, CountDraw, Stay, BurnScry, BurnSecondChance
  <2>5. CASE tx.ix = "end_round"
    BY <1>2, <2>5 DEF GameTx, EndRound, EndRoundWithWinner, EndRoundRollover, EndRoundSweep,
                      FinishRound
  <2> QED BY <1>2, <2>1, <2>2, <2>3, <2>4, <2>5 DEF GameTx
<1> QED BY <1>1, <1>2 DEF Accepted

(* What the transactions that end a script achieve.                        *)
LEMMA EndTxs ==
  ASSUME NEW tx, Accepted(tx)
  PROVE  /\ tx.ix = "end_round" => ~round_active'
         /\ tx.ix = "leave_game" /\ ~round_active => tx.by \notin accounts'
         /\ tx.ix = "close_bounty_board" => ~board_exists'
         /\ tx.ix = "close_game" => ~session_exists'
<1>1. CASE tx.ix = "end_round"
  BY <1>1 DEF Accepted, BoardTx, GameTx, EndRound, EndRoundWithWinner, EndRoundRollover,
              EndRoundSweep, FinishRound
<1>2. CASE tx.ix = "leave_game" /\ ~round_active
  BY <1>2 DEF Accepted, BoardTx, GameTx, LeaveGame, LeaveBetweenRounds, ForfeitMidRound
<1>3. CASE tx.ix = "close_bounty_board"
  BY <1>3 DEF Accepted, BoardTx, GameTx, CloseBountyBoard
<1>4. CASE tx.ix = "close_game"
  BY <1>4 DEF Accepted, BoardTx, GameTx, CloseGame
<1> QED BY <1>1, <1>2, <1>3, <1>4

(* A step of a smoke test: it stops where it is, or goes on because its    *)
(* transaction was accepted, was to be refused or was not called for.      *)
LEMMA StepCases ==
  ASSUME outcome = "running", ScriptNext
  PROVE  /\ script' = script
         /\ Accepted(Current) \/ UNCHANGED <<vars, bountyVars>>
         /\ \/ step' = step /\ outcome' # "passed"
            \/ GoOn /\ (Accepted(Current) \/ Current.refused \/ ~Holds(Current))
<1>1. CASE Succeed
  BY <1>1, Zenon DEF Succeed
<1>2. CASE Refuse
  BY <1>2, Zenon DEF Refuse
<1>3. CASE Skip
  BY <1>3, Zenon DEF Skip
<1>4. CASE Crash
  BY <1>4, Zenon DEF Crash
<1>5. ~Rerun
  BY DEF Rerun
<1> QED BY <1>1, <1>2, <1>3, <1>4, <1>5 DEF ScriptNext

-----------------------------------------------------------------------------
(* The index of the first leave_game behind the moves.                     *)
Farewell(name) == IF name = "smoke_test_bounty" THEN 4 ELSE 2

(* A transaction a script neither skips nor expects to be refused.         *)
IsCertain(tx) == Holds(tx) /\ ~tx.refused

(* So are all that are bare or only have an argument.                      *)
LEMMA TxIsCertain ==
  ASSUME NEW ix, NEW who
  PROVE  /\ Tx(ix, who).ix = ix /\ Tx(ix, who).by = who /\ IsCertain(Tx(ix, who))
         /\ \A arg : /\ With(Tx(ix, who), arg).ix = ix /\ With(Tx(ix, who), arg).by = who
                     /\ IsCertain(With(Tx(ix, who), arg))
                     /\ Rejected(With(Tx(ix, who), arg)).ix = ix
                     /\ Rejected(With(Tx(ix, who), arg)).by = who
BY DEF Tx, With, Rejected, Holds, IsCertain

(* How a script ends, transaction by transaction.                          *)
IsEndTx(name, i, tx) ==
  /\ i = 1 => tx.ix = "end_round"
  /\ 1 < i /\ i < Farewell(name) => tx.ix = "claim_bounty" /\ tx.by \in {A, B}
  /\ i = Farewell(name) => tx.ix = "leave_game" /\ tx.by = B
  /\ i = Farewell(name) + 1 => tx.ix = "leave_game" /\ tx.by = A
  /\ i > Farewell(name) + 1 /\ i < Len(EndOf(name)) => tx.ix = "close_bounty_board"
  /\ i = Len(EndOf(name)) => tx.ix = "close_game"
  /\ i = 1 \/ i >= Farewell(name) => IsCertain(tx)

(* The ends, one by one.                                                   *)
LEMMA EndShape ==
  ASSUME NEW name \in SmokeTests, NEW i \in 1..Len(EndOf(name))
  PROVE  IsEndTx(name, i, EndOf(name)[i])
<1>1. CASE name = "smoke_test_bounty"
  <2>1. EndOf(name) = BountyEnding /\ i \in 1..7 /\ Farewell(name) = 4 /\ Len(EndOf(name)) = 7
    BY <1>1, EndLength DEF EndOf, Farewell
  <2>2. /\ BountyEnding[1] = Settle
        /\ BountyEnding[2] = With(Tx("claim_bounty", A), 1)
        /\ BountyEnding[3] = Rejected(With(Tx("claim_bounty", B), 2))
        /\ BountyEnding[4] = Tx("leave_game", B) /\ BountyEnding[5] = Tx("leave_game", A)
        /\ BountyEnding[6] = Tx("close_bounty_board", Operator)
        /\ BountyEnding[7] = Tx("close_game", Operator)
    BY DEF BountyEnding
  <2>3. CASE i \in {1, 2, 3}
    BY <2>1, <2>2, <2>3, TxIsCertain DEF IsEndTx, Settle
  <2>4. CASE i \in {4, 5}
    BY <2>1, <2>2, <2>4, TxIsCertain DEF IsEndTx
  <2>5. CASE i \in {6, 7}
    BY <2>1, <2>2, <2>5, TxIsCertain DEF IsEndTx
  <2> QED BY <2>1, <2>3, <2>4, <2>5
<1>2. CASE name # "smoke_test_bounty"
  <2>1. PICK settle \in {Settle, SettleToOperator} : EndOf(name) = Ending(settle)
    BY <1>2 DEF EndOf, SmokeTests
  <2>2. i \in 1..4 /\ Farewell(name) = 2 /\ Len(EndOf(name)) = 4
    BY <1>2, EndLength DEF Farewell
  <2>3. /\ Ending(settle)[1] = settle
        /\ Ending(settle)[2] = Tx("leave_game", B) /\ Ending(settle)[3] = Tx("leave_game", A)
        /\ Ending(settle)[4] = Tx("close_game", Operator)
    BY DEF Ending
  <2>4. settle.ix = "end_round" /\ IsCertain(settle)
    BY TxIsCertain DEF Settle, SettleToOperator
  <2>5. CASE i \in {1, 2}
    BY <2>1, <2>2, <2>3, <2>4, <2>5, TxIsCertain DEF IsEndTx
  <2>6. CASE i \in {3, 4}
    BY <2>1, <2>2, <2>3, <2>6, TxIsCertain DEF IsEndTx
  <2> QED BY <2>2, <2>5, <2>6
<1> QED BY <1>1, <1>2

(* How far a script has come, and what it has settled and taken back.      *)
Undone ==
  LET left == Playing(script) + Farewell(script)
  IN  /\ step \in Nat \ {0}
      /\ outcome = "running" => step <= Len(Steps[script])
      /\ outcome = "passed" => step > Len(Steps[script])
      /\ accounts \subseteq {A, B}
      /\ step > Playing(script) + 1 => ~round_active
      /\ step > left => B \notin accounts
      /\ step > left + 1 => A \notin accounts
      /\ board_exists => script = "smoke_test_bounty" /\ step <= left + 2
      /\ step > Len(Steps[script]) => ~session_exists

(* The moves open nothing that the end does not close.                     *)
LEMMA PlayStep ==
  ASSUME script \in SmokeTests, TxState, Undone, outcome = "running", ScriptNext,
         step <= Playing(script)
  PROVE  script' = script /\ TxState' /\ Undone'
<1> DEFINE n == Playing(script)
           l == Len(Steps[script])
           f == Farewell(script)
           tx == Current
<1>1. n \in Nat /\ l \in Nat /\ l >= n + 4 /\ f \in {2, 4}
  <2>1. n \in Nat /\ (l = n + 4 \/ l = n + 7)
    BY ScriptLength
  <2> HIDE DEF n, l
  <2> QED BY <2>1 DEF Farewell
<1>2. step \in 1..n /\ tx \in Moves(script)
  <2>1. step \in 1..n
    BY <1>1 DEF Undone
  <2> QED BY <2>1, ScriptShape DEF Current
<1>3. /\ tx.by \in {A, B} \/ tx.ix \notin PlayerIx \cup {"leave_game"}
      /\ tx.ix = "join_round" => tx.by \in {A, B}
      /\ tx.ix = "init_bounty_board" => script = "smoke_test_bounty"
  BY <1>2 DEF Moves, BoardMoves, PlainMoves, Txs, PlayerIx, OperatorIx, BoardIx
<1>4. /\ script' = script
      /\ Accepted(tx) \/ UNCHANGED <<vars, bountyVars>>
      /\ step' = step \/ step' = step + 1
      /\ outcome' # "passed"
  <2>1. step # l
    <3> HIDE DEF n, l
    <3> QED BY <1>1, <1>2
  <2>2. GoOn => step' = step + 1 /\ outcome' # "passed"
    BY <2>1 DEF GoOn
  <2> QED BY <2>2, StepCases
<1> HIDE DEF tx
<1>5. TxState'
  BY <1>3, <1>4, TxKeeps
<1>6. accounts' \subseteq {A, B}
  BY <1>3, <1>4, TxAccounts DEF Undone
<1>7. board_exists' => script = "smoke_test_bounty"
  BY <1>3, <1>4, TxBoard DEF Undone
<1>8. n' = n /\ l' = l /\ f' = f
  BY <1>4 DEF n, l, f
<1> HIDE DEF n, l, f
<1>9. /\ step' \in Nat \ {0} /\ step' <= n + 1
      /\ step' <= l /\ step' <= n + f
  BY <1>1, <1>2, <1>4
<1>10. ~(step' > n + 1) /\ ~(step' > n + f) /\ ~(step' > n + f + 1) /\ ~(step' > l)
       /\ step' <= n + f + 2
  BY <1>1, <1>9
<1> QED BY <1>4, <1>5, <1>6, <1>7, <1>8, <1>9, <1>10 DEF Undone, n, l, f

(* The end settles the round first, so that leave_game closes an account   *)
(* instead of forfeiting, and goes on only when a transaction was accepted.*)
LEMMA EndStep ==
  ASSUME script \in SmokeTests, TxState, Undone, outcome = "running", ScriptNext,
         step > Playing(script)
  PROVE  script' = script /\ TxState' /\ Undone'
<1> DEFINE n == Playing(script)
           l == Len(Steps[script])
           m == Len(EndOf(script))
           f == Farewell(script)
           k == step - n
           tx == Current
<1>1. /\ n \in Nat /\ l \in Nat /\ f \in {2, 4} /\ m \in Nat /\ l = n + m
      /\ f + 2 <= m
      /\ script = "smoke_test_bounty" => m = f + 3
      /\ script # "smoke_test_bounty" => m = f + 2
  BY ScriptLength, ScriptShape, EndLength DEF Farewell
<1>2. k \in 1..m /\ step = n + k
  <2>1. step \in Nat /\ step > n /\ step <= l
    BY DEF Undone
  <2> HIDE DEF n, l, m
  <2> QED BY <1>1, <2>1
<1>3. IsEndTx(script, k, tx)
  <2>1. tx = EndOf(script)[k]
    BY <1>2, ScriptShape DEF Current
  <2> QED BY <1>2, <2>1, EndShape
<1> HIDE DEF k, m, n, l, f, tx
<1>4. /\ tx.by \in {A, B} \/ tx.ix \notin PlayerIx \cup {"leave_game"}
      /\ tx.ix \notin {"join_round", "init_bounty_board", "start_round"}
  BY <1>1, <1>2, <1>3 DEF IsEndTx, PlayerIx, f, m
<1>5. /\ script' = script
      /\ Accepted(tx) \/ UNCHANGED <<vars, bountyVars>>
      /\ \/ step' = step /\ outcome' # "passed"
         \/ GoOn /\ (Accepted(tx) \/ ~IsCertain(tx))
  BY StepCases DEF tx, IsCertain
<1>6. /\ TxState' /\ accounts' \subseteq accounts
      /\ board_exists' => board_exists
      /\ round_active' => round_active
  BY <1>4, <1>5, TxKeeps, TxAccounts, TxBoard, TxRound
<1>7. n' = n /\ l' = l /\ f' = f
  BY <1>5 DEF n, l, f
<1>8. CASE step' = step /\ outcome' # "passed"
  BY <1>5, <1>6, <1>7, <1>8 DEF Undone, n, l, f
<1>9. CASE GoOn /\ (Accepted(tx) \/ ~IsCertain(tx))
  <2>1. /\ step' = n + k + 1
        /\ k = m => outcome' = "passed"
        /\ k # m => outcome' = "running"
    BY <1>1, <1>2, <1>9 DEF GoOn, l
  <2>2. k > 1 => ~round_active
    BY <1>1, <1>2 DEF Undone, n
  <2>3. /\ k = 1 => ~round_active'
        /\ k = f => B \notin accounts'
        /\ k = f + 1 => A \notin accounts'
        /\ k > f + 1 /\ k < m => ~board_exists'
        /\ k = m => ~session_exists'
    BY <1>1, <1>2, <1>3, <1>9, <2>2, EndTxs DEF IsEndTx, f, m
  <2>4. /\ step' > n + 1 => ~round_active'
        /\ step' > n + f => B \notin accounts'
        /\ step' > n + f + 1 => A \notin accounts'
        /\ board_exists' => script = "smoke_test_bounty" /\ step' <= n + f + 2
        /\ step' > l => ~session_exists'
    <3>1. /\ n + k > n + f => B \notin accounts
          /\ n + k > n + f + 1 => A \notin accounts
          /\ board_exists => script = "smoke_test_bounty"
      BY <1>2 DEF Undone, n, f
    <3>2. step' > n + 1 => ~round_active'
      BY <1>1, <1>2, <1>6, <2>1, <2>2, <2>3
    <3>3. step' > n + f => B \notin accounts'
      BY <1>1, <1>2, <1>6, <2>1, <2>3, <3>1
    <3>4. step' > n + f + 1 => A \notin accounts'
      BY <1>1, <1>2, <1>6, <2>1, <2>3, <3>1
    <3>5. step' > l => ~session_exists'
      BY <1>1, <1>2, <2>1, <2>3
    <3>6. board_exists' => script = "smoke_test_bounty" /\ step' <= n + f + 2
      <4> SUFFICES ASSUME board_exists'
                   PROVE  script = "smoke_test_bounty" /\ step' <= n + f + 2
        OBVIOUS
      <4>1. script = "smoke_test_bounty" /\ m = f + 3
        BY <1>1, <1>6, <3>1
      <4>2. step <= n + f + 2
        BY <1>6 DEF Undone, n, f
      <4> QED BY <1>1, <1>2, <2>1, <2>3, <4>1, <4>2
    <3> QED BY <3>2, <3>3, <3>4, <3>5, <3>6
  <2>5. /\ step' \in Nat \ {0}
        /\ outcome' = "running" => step' <= l
        /\ outcome' = "passed" => step' > l
    BY <1>1, <1>2, <2>1
  <2> QED BY <1>5, <1>6, <1>7, <2>4, <2>5 DEF Undone, n, l, f
<1> QED BY <1>5, <1>6, <1>8, <1>9

(* The invariant of the scripts.                                           *)
SmokeInv ==
  /\ script \in Names
  /\ script # "tools" => script \in SmokeTests /\ TxState /\ Undone

(* Every step keeps it.  The tools come back to a game they left open.     *)
LEMMA SmokeStep ==
  ASSUME SmokeInv, [ScriptNext]_<<vars, bountyVars, scriptVars>>
  PROVE  SmokeInv'
<1>1. CASE script = "tools" /\ ScriptNext
  BY <1>1 DEF SmokeInv, ScriptNext, Succeed, Refuse, Skip, Crash, Rerun
<1>2. CASE script # "tools" /\ ScriptNext
  <2>1. outcome = "running"
    BY <1>2 DEF ScriptNext, Succeed, Refuse, Skip, Crash, Rerun
  <2>2. step \in Nat /\ Playing(script) \in Nat
    BY <1>2, ScriptShape DEF SmokeInv, Undone
  <2> QED BY <1>2, <2>1, <2>2, PlayStep, EndStep DEF SmokeInv
<1>3. CASE UNCHANGED <<vars, bountyVars, scriptVars>>
  <2>1. TxState => TxState'
    BY <1>3, NextType, NextBacked DEF TxState
  <2>2. /\ script' = script /\ step' = step /\ outcome' = outcome
        /\ accounts' = accounts /\ round_active' = round_active
        /\ board_exists' = board_exists /\ session_exists' = session_exists
    BY <1>3 DEF vars, playerVars, sessionVars, roundVars, creationVars, bountyVars, scriptVars
  <2> QED BY <2>1, <2>2 DEF SmokeInv, Undone
<1> QED BY <1>1, <1>2, <1>3

(* Whatever the shuffle, and whichever of its moves are skipped, repeated  *)
(* or refused: a smoke test that prints PASSED has closed the game, its    *)
(* board and both players' accounts, and left the vault empty.             *)
THEOREM PassedIsClean == ScriptSpec => []PassedLeavesNothing
<1>1. ScriptInit => SmokeInv
  <2> SUFFICES ASSUME ScriptInit
               PROVE  SmokeInv
    OBVIOUS
  <2>1. script \in Names /\ (script # "tools" => script \in SmokeTests)
    BY ScriptAssumption DEF ScriptInit, Steps, SmokeTests
  <2>2. TxState
    BY InitType DEF ScriptInit, Init, TxState, VaultBacksPot
  <2>3. ASSUME script \in SmokeTests
        PROVE  Undone
    <3> DEFINE n == Playing(script)
               l == Len(Steps[script])
    <3>1. n \in Nat /\ l \in Nat /\ (l = n + 4 \/ l = n + 7)
      BY <2>3, ScriptLength
    <3>2. 1 <= l /\ ~(1 > l) /\ ~(1 > n + 1)
      <4> HIDE DEF n, l
      <4> QED BY <3>1
    <3> QED BY <3>2 DEF ScriptInit, Init, BoardInit, Undone
  <2> QED BY <2>1, <2>2, <2>3 DEF SmokeInv
<1>2. SmokeInv /\ [ScriptNext]_<<vars, bountyVars, scriptVars>> => SmokeInv'
  BY SmokeStep
<1>3. SmokeInv => PassedLeavesNothing
  <2> SUFFICES ASSUME SmokeInv, outcome = "passed", script # "tools"
               PROVE  ~session_exists /\ accounts = {} /\ ~board_exists /\ vault = 0
    BY DEF PassedLeavesNothing
  <2>1. TxState /\ Undone /\ script \in SmokeTests
    BY DEF SmokeInv
  <2> DEFINE left == Playing(script) + Farewell(script)
  <2>2. step \in Nat /\ step > Len(Steps[script])
    BY <2>1 DEF Undone
  <2>3. /\ left \in Nat
        /\ script = "smoke_test_bounty" => Len(Steps[script]) = left + 3
        /\ script # "smoke_test_bounty" => Len(Steps[script]) = left + 2
    BY <2>1, ScriptLength DEF Farewell
  <2>4. /\ step > left /\ step > left + 1
        /\ script = "smoke_test_bounty" => step > left + 2
    <3> HIDE DEF left
    <3> QED BY <2>2, <2>3
  <2>5. /\ A \notin accounts /\ B \notin accounts /\ accounts \subseteq {A, B}
        /\ ~session_exists
        /\ board_exists => script = "smoke_test_bounty" /\ step <= left + 2
    BY <2>1, <2>2, <2>4 DEF Undone
  <2>6. ~board_exists
    <3> HIDE DEF left
    <3> QED BY <2>2, <2>3, <2>4, <2>5
  <2> QED BY <2>1, <2>5, <2>6 DEF TxState, VaultBacksPot
<1> QED BY <1>1, <1>2, <1>3, PTL DEF ScriptSpec
=============================================================================
