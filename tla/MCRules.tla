------------------------------- MODULE MCRules -------------------------------
(***************************************************************************)
(* The pure parts of the system against their references, over bounded     *)
(* inputs: the hands that can be drawn, the instructions that can be sent, *)
(* the logs of a transaction and the shuffles of a deck.  Each state is    *)
(* one input; scene says which kind it is.                                 *)
(***************************************************************************)
EXTENDS MCCards, Accounts, Events, Advisor, DeckTree

(* The discriminators fit in a byte and the fee that is asked for in two.  *)
ASSUME CallAssumption == U8 >= 16 /\ U16 > 300 /\ DEFAULT_AMOUNT_WHOLE \in Nat

(* The advisor's numbers are the deck's, whose alpha cards can all bust.   *)
ASSUME AdvisorAssumption ==
  ALPHA_VALUE_COPIES_IN_DECK = SUITS /\ DECK_SIZE = CanonicalSize /\ VALUES <= 13

CONSTANT MaxLogs  \* the most lines of a transaction

VARIABLES
  scene,    \* "hand", "call", "logs" or "shuffle"
  account,  \* the PlayerState that holds the hand
  call,     \* an instruction somebody wants to send
  logs      \* the lines of a transaction

others == <<account, call, logs, permutation, next>>

FreshState ==
  [bump |-> 7, player |-> 11, game_id |-> 13, hand_size |-> 0,
   slots |-> [i \in 1..MaxHandSize |-> [value |-> 0, card_type |-> 0, suit |-> 0]],
   is_active |-> 1, inactive_reason |-> 0, bust_card_value |-> 0, score |-> 17,
   staked_amount |-> 19, has_used_second_chance |-> 0, has_used_scry |-> 1,
   total_wins |-> 23, total_games |-> 29]

(* A number somebody types, an instruction's other inputs.                 *)
Numbers == {0, 1, 2, 7, U64 \div FLIP_SCALE, U64 \div FLIP_SCALE + 1, U64 - 1, U64, U64 + 1, U64 + 2}
Texts == [form : {"digits"}, n : Numbers] \cup [form : {"blank", "other"}, n : {0}]
Calls == [kind : ToSet(Handlers), text : Texts, byte : {0, 1, U8 - 1}, players : {0, 2},
          fee : {NoFee, 300}]
NoMultipliers == << >>
NoCall == CHOOSE c \in Calls : TRUE

RulesInit ==
  /\ hand = << >> /\ account = FreshState /\ ShuffleInit /\ logs = << >>
  /\ \/ scene \in {"hand", "logs", "shuffle"} /\ call = NoCall
     \/ scene = "call" /\ call \in Calls

DrawCard ==
  /\ scene = "hand" /\ Len(hand) < MaxHandSize
  /\ \E c \in Drawable : hand' = Append(hand, c) /\ account' = push_card(account, c)
  /\ UNCHANGED <<scene, call, logs, permutation, next>>

(* A second chance or a theft, after which a slot keeps an old card.       *)
GiveUpCard ==
  /\ scene = "hand" /\ hand # << >>
  /\ hand' = PopCard(hand) /\ account' = pop_card(account)
  /\ UNCHANGED <<scene, call, logs, permutation, next>>
LoseBestCard ==
  /\ scene = "hand"
  /\ \E i \in 1..MaxHandSize :
       IsHighestAlpha(hand, i) /\ hand' = RemoveAt(hand, i) /\ account' = ShiftFrom(account, i)
  /\ UNCHANGED <<scene, call, logs, permutation, next>>

(* Noise, lines cut short and unknown kinds among the program's own.       *)
Lines ==
  {LogLine(k) : k \in KNOWN_KINDS}
  \cup {[LogLine("stay") EXCEPT !.segments[2].key = ""],
        [LogLine("stay") EXCEPT !.kind = "unknown"],
        [LogLine("stay") EXCEPT !.event = FALSE]}
LogSomething ==
  /\ scene = "logs" /\ Len(logs) < MaxLogs
  /\ \E l \in Lines : logs' = Append(logs, l)
  /\ UNCHANGED <<scene, hand, account, call, permutation, next>>

Shuffle ==
  /\ scene = "shuffle" /\ ShuffleStep
  /\ UNCHANGED <<scene, hand, account, call, logs>>

RulesNext == DrawCard \/ GiveUpCard \/ LoseBestCard \/ LogSomething \/ Shuffle
RulesSpec == RulesInit /\ [][RulesNext]_<<scene, hand, others>>
-----------------------------------------------------------------------------
(* decodePlayerState gives back the hand the rules are applied to and the  *)
(* other fields as the program stored them, whatever the slots beyond      *)
(* hand_size still hold; the other two accounts are read back whole.       *)
SampleSession ==
  [bump |-> 1, game_id |-> 2, authority |-> 3, house |-> 4, dealer |-> 5, treasury |-> 6,
   token_mint |-> 7, vault |-> 8, player_count |-> 2,
   turn_order |-> [i \in 1..MAX_PLAYERS |-> 10 + i], current_turn_index |-> 1,
   round_active |-> 0, round_number |-> 20, pot_amount |-> 21, merkle_root |-> 22,
   deck_committed |-> 23, draw_counter |-> 24, treasury_fee_bps |-> 25, rollover_count |-> 26,
   last_action_slot |-> 27, vault_bump |-> 28]
SampleBoard ==
  [bump |-> 1, game_session |-> 2, bounty_count |-> MAX_BOUNTIES,
   bounties |-> [i \in 1..MAX_BOUNTIES |-> [bounty_type |-> i % 4, reward_amount |-> 30 + i,
                                            is_active |-> i % 2, claimed_by |-> 40 + i]]]

ClientReadsAccounts ==
  LET ps == decodePlayerState(PlayerStateBytes(account)) IN
  /\ [i \in DOMAIN ps.hand |-> [card_type |-> ps.hand[i].card_type, value |-> ps.hand[i].value]] = hand
  /\ ps.is_active = account.is_active /\ ~isBust(ps) /\ ~hasStayed(ps)
  /\ ps.score = account.score /\ ps.staked_amount = account.staked_amount
  /\ ps.has_used_scry = account.has_used_scry /\ ps.total_games = account.total_games
  /\ scene = "hand" /\ hand = << >> =>
       /\ decodeGameSession(GameSessionBytes(SampleSession)) = SampleSession
       /\ Len(activeTurnOrder(SampleSession)) = SampleSession.player_count
       /\ decodeBountyBoard(BountyBoardBytes(SampleBoard)) = SampleBoard

-----------------------------------------------------------------------------
(* What the client sends for a call: the numbers typed go through the      *)
(* parser of their field, and nothing is sent for one that is refused.     *)
Amount(c) == IF c.kind = "join_round" THEN parseStakeInput(c.text) ELSE parseU64(c.text)
IsSent(c) == Amount(c) # Invalid
Arguments(c) ==
  [game_id |-> Amount(c), stake |-> Amount(c), reward |-> Amount(c), bump |-> c.byte,
   vault_bump |-> c.byte, fee |-> c.fee, root |-> 1, a |-> 2, b |-> 3, c |-> 4,
   players |-> c.players, value |-> c.byte, card_type |-> 1, suit |-> 2, leaf_index |-> c.byte,
   bounty_type |-> c.byte, index |-> c.byte]

(* What the handler is meant to read: the number as typed, in base units   *)
(* for a stake, and 200 for a fee nobody gave.                             *)
Meant(c) ==
  LET n == c.text.n IN
  CASE c.kind = "initialize" -> [game_id |-> n, bump |-> c.byte, vault_bump |-> c.byte,
                                 fee |-> IF c.fee = NoFee THEN 200 ELSE c.fee]
    [] c.kind = "commit_deck" -> [root |-> 1, a |-> 2, b |-> 3, c |-> 4]
    [] c.kind = "join_round" -> [bump |-> c.byte, stake |-> n * FLIP_SCALE]
    [] c.kind = "hit" -> [value |-> c.byte, card_type |-> 1, suit |-> 2,
                          proof |-> [i \in 1..7 |-> i], leaf_index |-> c.byte]
    [] c.kind = "init_bounty_board" -> [bump |-> c.byte]
    [] c.kind = "add_bounty" -> [bounty_type |-> c.byte, reward |-> n]
    [] c.kind = "claim_bounty" -> [index |-> c.byte]
    [] OTHER -> << >>

(* A mint of the command line tool: exact, or refused.                     *)
MintIsExact ==
  \A form \in {call.text.form, "absent"}, to \in {1, Invalid} :
    LET amount == [call.text EXCEPT !.form = form]
        minted == amountBaseUnits([to |-> to, amount |-> amount])
    IN  minted # Invalid =>
          /\ to # Invalid /\ minted > 0
          /\ u64Le(minted).value =
               FLIP_SCALE * (IF form = "absent" THEN DEFAULT_AMOUNT_WHOLE ELSE call.text.n)

(* Every instruction the client builds reaches its handler with the        *)
(* accounts in the order it destructures them, the privileges it verifies  *)
(* and the arguments that were meant: no number wraps around on the way    *)
(* into its u64, and no offset is off by a field.                          *)
CallArrives ==
  scene = "call" /\ IsSent(call) =>
    LET ix == Build(call.kind, Arguments(call)) IN
    /\ process_instruction(ix) = call.kind
    /\ Grants(ix.accounts, Demands(call.kind, call.players))
    /\ Reads(call.kind, Tail(ix.data)) = Meant(call)
    /\ MintIsExact

(* Two games whose numbers the parser accepts never share an account: the  *)
(* seeds do not wrap to the same eight bytes.                              *)
GamesKeepApart ==
  \A other \in Texts :
    LET mine == parseU64(call.text) theirs == parseU64(other) IN
    Invalid \notin {mine, theirs} /\ call.text.n # other.n =>
      /\ deriveGamePda(mine) # deriveGamePda(theirs)
      /\ derivePlayerPda(mine, 1) # derivePlayerPda(theirs, 1)
      /\ deriveVaultPda(deriveGamePda(mine)) # deriveVaultPda(deriveGamePda(theirs))
      /\ deriveBountyPda(deriveGamePda(mine)) # deriveBountyPda(deriveGamePda(theirs))

-----------------------------------------------------------------------------
OwnLines == {i \in DOMAIN logs : \E k \in KNOWN_KINDS : logs[i] = LogLine(k)}

(* Every line the program logs fits the logger's 200 bytes at its longest, *)
(* so none is cut short and lost to the client.                            *)
LinesFit == \A i \in OwnLines : LineWidth(logs[i].kind) <= 200

(* Every line the program logs becomes one event, known by its place among *)
(* all the lines of the transaction; no other line does.  The feed finds   *)
(* every field it shows, whatever its flags say, and shows one address at  *)
(* most.                                                                   *)
LogsBecomeEvents ==
  LET events == parseTransactionEvents(3, 5, logs)
  IN  /\ {e.id : e \in ToSet(events)} = {<<3, i>> : i \in OwnLines}
      /\ Len(events) = Cardinality(OwnLines)
      /\ \A e \in ToSet(events), said \in BOOLEAN :
           LET tokens == ToSet(renderEventTokens(e, said)) IN
           /\ \A t \in tokens : t.as \notin {"?", "(raw)"}
           /\ Cardinality({t \in tokens : t.as = "address"}) <= 1

-----------------------------------------------------------------------------
(* Every card the dealer reveals verifies against the root the program     *)
(* reads from its commit, and no other card of the deck verifies in its    *)
(* place.                                                                  *)
DealtCardsVerify ==
  scene = "shuffle" /\ Shuffled =>
    LET deck == applyPermutation(createCanonicalDeck, permutation)
        tree == buildMerkleTree(deck)
        proof == generateProof(permutation, createCanonicalDeck, deck)
        root == Reads("commit_deck", packCommitDeckData(proof)).root
    IN  /\ proof.valid
        /\ \A i \in 0..(Len(deck) - 1) :
             LET reveal == revealNextCard(deck, tree, i) IN
             \A c \in ToSet(createCanonicalDeck) :
               verify_merkle_proof(c, i, reveal.proof, root) <=> c = reveal.card

(* The advisor, told every card dealt so far, counts exactly the cards     *)
(* left in the deck that would bust the hand; alone at the table its panel *)
(* advises to stay just when that is more than three in ten and the score  *)
(* is above the threshold, or nothing is left to draw.                     *)
OddsAreExact ==
  scene = "shuffle" /\ Shuffled =>
    LET deck == applyPermutation(createCanonicalDeck, permutation)
        cards == [i \in DOMAIN deck |-> [card_type |-> CardType[deck[i].card_type + 1],
                                          value |-> deck[i].value]]
    IN  \A k \in 0..Len(cards) : \A m \in 0..(Len(cards) - k) :
          LET mine == SubSeq(cards, 1, k)
              left == {i \in DOMAIN cards : i > k + m}
              busting == {i \in left : IsBust(Append(mine, cards[i]))}
              score == CalculateHandScore(mine)
          IN  ~IsBust(mine) =>
                /\ calculateBustProbability(mine, SubSeq(cards, k + 1, k + m))
                     = [bustingCardsRemaining |-> Cardinality(busting),
                        remainingDeckSize |-> Cardinality(left)]
                /\ m = 0 => (FlipAdvisor(mine, score, FALSE) = "stay" <=>
                               \/ left = {}
                               \/ /\ 10 * Cardinality(busting) > 3 * Cardinality(left)
                                  /\ score > SCORE_STAY_THRESHOLD)
                /\ FlipAdvisor(mine, score, TRUE) = "hit"
=============================================================================
