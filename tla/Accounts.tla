------------------------------ MODULE Accounts ------------------------------
(***************************************************************************)
(* The three accounts of the program as bytes: the program stores each     *)
(* field at a fixed offset, the client reads them one after the other.  An *)
(* account is a set of fields: the offset, the width and the value stored. *)
(***************************************************************************)
EXTENDS Wire

CONSTANTS MAX_PLAYERS, MAX_BOUNTIES

(* The offsets of the fields are fixed for four players and ten cards.     *)
ASSUME LayoutAssumption == MAX_PLAYERS = 4 /\ MaxHandSize <= 10 /\ MAX_BOUNTIES \in Nat

(* What a decoder that throws returns.                                     *)
Thrown == << >>

(* The values of consecutive reads of the given widths from offset 0.      *)
ByteReader(account, widths) ==
  LET get(at, width) ==
        LET here == {f \in account : f[1] = at /\ f[2] = width}
        IN  IF here = {} THEN GARBLED ELSE (CHOOSE f \in here : TRUE)[3]
  IN  FoldLeft(LAMBDA r, w : [at |-> r.at + w, values |-> Append(r.values, get(r.at, w))],
               [at |-> 0, values |-> << >>], widths).values

(* A list that repeats n times.                                            *)
Times(n, list) == FlattenSeq([i \in 1..n |-> list])
Slots(n, size, start, Field(_, _)) == UNION {Field(i, start + (i - 1) * size) : i \in 1..n}

-----------------------------------------------------------------------------
(* GameSession.                                                            *)
GameSessionBytes(gs) ==
  {<<0, 1, 1>>, <<1, 1, gs.bump>>, <<2, 8, gs.game_id>>, <<10, 32, gs.authority>>,
   <<42, 32, gs.house>>, <<74, 32, gs.dealer>>, <<106, 32, gs.treasury>>,
   <<138, 32, gs.token_mint>>, <<170, 32, gs.vault>>, <<202, 1, gs.player_count>>,
   <<331, 1, gs.current_turn_index>>, <<332, 1, gs.round_active>>,
   <<333, 8, gs.round_number>>, <<341, 8, gs.pot_amount>>, <<349, 32, gs.merkle_root>>,
   <<381, 1, gs.deck_committed>>, <<382, 1, gs.draw_counter>>,
   <<383, 2, gs.treasury_fee_bps>>, <<385, 1, gs.rollover_count>>,
   <<386, 8, gs.last_action_slot>>, <<394, 1, gs.vault_bump>>}
  \cup Slots(MAX_PLAYERS, 32, 203, LAMBDA i, at : {<<at, 32, gs.turn_order[i]>>})

decodeGameSession(account) ==
  LET r == ByteReader(account,
             <<1, 1, 8, 32, 32, 32, 32, 32, 32, 1>> \o Times(MAX_PLAYERS, <<32>>)
               \o <<1, 1, 8, 8, 32, 1, 1, 2, 1, 8, 1>>)
      n == 10 + MAX_PLAYERS
  IN  IF r[1] # 1 THEN Thrown
      ELSE [bump |-> r[2], game_id |-> r[3], authority |-> r[4], house |-> r[5],
            dealer |-> r[6], treasury |-> r[7], token_mint |-> r[8], vault |-> r[9],
            player_count |-> r[10], turn_order |-> SubSeq(r, 11, n),
            current_turn_index |-> r[n + 1], round_active |-> r[n + 2],
            round_number |-> r[n + 3], pot_amount |-> r[n + 4], merkle_root |-> r[n + 5],
            deck_committed |-> r[n + 6], draw_counter |-> r[n + 7],
            treasury_fee_bps |-> r[n + 8], rollover_count |-> r[n + 9],
            last_action_slot |-> r[n + 10], vault_bump |-> r[n + 11]]

activeTurnOrder(gs) == SubSeq(gs.turn_order, 1, gs.player_count)

-----------------------------------------------------------------------------
(* PlayerState.  The hand has slots of its own: a card that is popped or   *)
(* shifted away leaves its slot as it was, and only hand_size moves.       *)
CardType == <<ALPHA, PROTOCOL, MULTIPLIER>>
TypeByte(type) == CHOOSE i \in 0..2 : CardType[i + 1] = type
(* Cards leaves the suit out; each value gets one.                         *)
CardAt(c) == [value |-> c.value, card_type |-> TypeByte(c.card_type), suit |-> c.value % 4]

push_card(ps, c) ==
  [ps EXCEPT !.slots[ps.hand_size + 1] = CardAt(c), !.hand_size = @ + 1]
pop_card(ps) == [ps EXCEPT !.hand_size = IF @ > 0 THEN @ - 1 ELSE @]
(* The rug pull: the cards after position i move one slot forward.         *)
ShiftFrom(ps, i) ==
  [ps EXCEPT !.slots = [j \in DOMAIN @ |-> IF j \in i..(ps.hand_size - 1) THEN @[j + 1] ELSE @[j]],
             !.hand_size = @ - 1]

PlayerStateBytes(ps) ==
  {<<0, 1, 2>>, <<1, 1, ps.bump>>, <<2, 32, ps.player>>, <<34, 8, ps.game_id>>,
   <<42, 1, ps.hand_size>>, <<73, 1, ps.is_active>>, <<74, 1, ps.inactive_reason>>,
   <<75, 1, ps.bust_card_value>>, <<76, 8, ps.score>>, <<84, 8, ps.staked_amount>>,
   <<92, 1, ps.has_used_second_chance>>, <<93, 1, ps.has_used_scry>>,
   <<94, 8, ps.total_wins>>, <<102, 8, ps.total_games>>}
  \cup Slots(10, 3, 43, LAMBDA i, at :
                LET c == IF i \in DOMAIN ps.slots THEN ps.slots[i]
                         ELSE [value |-> 0, card_type |-> 0, suit |-> 0]
                IN  {<<at, 1, c.value>>, <<at + 1, 1, c.card_type>>, <<at + 2, 1, c.suit>>})

(* The byte of an enum, within its range.                                  *)
checkEnum(value, max) == value \in 0..max

DecodeAllSlots(account) ==                                     \* mutant
  LET r == ByteReader(account, <<1, 1, 32, 8, 1>> \o Times(10, <<1, 1, 1>>)
                                 \o <<1, 1, 1, 8, 8, 1, 1, 8, 8>>)
      drawn == SelectSeq([i \in 1..10 |-> i], LAMBDA i : i <= r[5] + 1)
  IN  [hand |-> [i \in DOMAIN drawn |->
                   [value |-> r[3 * i + 3], card_type |-> CardType[r[3 * i + 4] + 1],
                    suit |-> r[3 * i + 5]]],
       is_active |-> r[36], inactive_reason |-> r[37], bust_card_value |-> r[38],
       score |-> r[39], staked_amount |-> r[40], has_used_second_chance |-> r[41],
       has_used_scry |-> r[42], total_wins |-> r[43], total_games |-> r[44]]

decodePlayerState(account) ==
  LET r == ByteReader(account, <<1, 1, 32, 8, 1>> \o Times(10, <<1, 1, 1>>)
                                 \o <<1, 1, 1, 8, 8, 1, 1, 8, 8>>)
      drawn == 1..r[5]
  IN  IF \/ r[1] # 2 \/ ~checkEnum(r[37], 2)
         \/ \E i \in drawn : ~checkEnum(r[3 * i + 4], 2)
      THEN Thrown
      ELSE [hand |-> [i \in drawn |->
                        [value |-> r[3 * i + 3], card_type |-> CardType[r[3 * i + 4] + 1],
                         suit |-> r[3 * i + 5]]],
            is_active |-> r[36], inactive_reason |-> r[37], bust_card_value |-> r[38],
            score |-> r[39], staked_amount |-> r[40], has_used_second_chance |-> r[41],
            has_used_scry |-> r[42], total_wins |-> r[43], total_games |-> r[44]]

isBust(ps) == ps.inactive_reason = 1
hasStayed(ps) == ps.inactive_reason = 2

-----------------------------------------------------------------------------
(* BountyBoard.                                                            *)
BountyBoardBytes(board) ==
  {<<0, 1, 3>>, <<1, 1, board.bump>>, <<2, 32, board.game_session>>,
   <<34, 1, board.bounty_count>>}
  \cup Slots(MAX_BOUNTIES, 42, 35, LAMBDA i, at :
                {<<at, 1, board.bounties[i].bounty_type>>,
                 <<at + 1, 8, board.bounties[i].reward_amount>>,
                 <<at + 9, 1, board.bounties[i].is_active>>,
                 <<at + 10, 32, board.bounties[i].claimed_by>>})

decodeBountyBoard(account) ==
  LET r == ByteReader(account, <<1, 1, 32, 1>> \o Times(MAX_BOUNTIES, <<1, 8, 1, 32>>))
      listed == 1..r[4]
  IN  IF r[1] # 3 \/ \E i \in listed : ~checkEnum(r[4 * i + 1], 3) THEN Thrown
      ELSE [bump |-> r[2], game_session |-> r[3], bounty_count |-> r[4],
            bounties |-> [i \in listed |->
                            [bounty_type |-> r[4 * i + 1], reward_amount |-> r[4 * i + 2],
                             is_active |-> r[4 * i + 3], claimed_by |-> r[4 * i + 4]]]]
=============================================================================
