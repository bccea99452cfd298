# PushFlip in TLA+

PushFlip is a push-your-luck card game on Solana. Players stake $FLIP into a pot, draw cards from a
deck that an off-chain dealer has shuffled and committed to, and stop before they bust; the best
hand takes the pot. This directory holds a TLA+ model of the program and of the services around it,
the TLC configurations that check it on small instances, and proofs for every instance. Paths below
are relative to the repository.

## 1. Inventory

| part | state | operations | modelled in |
|---|---|---|---|
| Session (`program/src/instructions/initialize, init_vault, close_game`, `state/game_session.rs`) | `GameSession`, vault account | create, open the vault, close | `PushFlip`, `RoundLifecycle` |
| Seats (`join_round`, `leave_game`, `state/player_state.rs`) | `turn_order`, one `PlayerState` per wallet, pot | join with a stake, leave between rounds, forfeit in one | `PushFlip` |
| Round play (`start_round`, `hit`, `stay`) | hands, flags, scores, turn, draw counter | start, draw (bust, plain, rug pull, vampire attack), stay | `PushFlip` |
| Burns (`burn_second_chance`, `burn_scry`) | balances, `has_used_*` | return from a bust, peek | `PushFlip` |
| Settlement (`end_round`) | pot, rollover count, treasury | pay the winner, roll over, sweep | `PushFlip` |
| Bounty board (`instructions/bounty/`, `state/bounty.rs`) | up to ten bounties per game | open, add, claim, close | `Bounty` |
| Hand rules (`utils/scoring.rs`, `pop_card`, the rug pull's search) | none | bust, score, choice of card | `Cards`, `MCCards` |
| Deck commitment (`commit_deck`, `zk/`) | `merkle_root`, `deck_committed`, `draw_counter` | verify and commit | guards and effects in `PushFlip`, the Merkle check in `DeckTree` |
| Dealer (`dealer/src/auto-commit, commit-tx, dealer, service`) | deck and cursor in memory, mutex, committed round | poll, shuffle, commit, reset, reveal, restart | `DealerService` |
| Dealer's deck (`dealer/src/deck, merkle, prover`) | none | shuffle, tree, proof, packing | `DeckTree` |
| TypeScript client (`clients/js/src/`) | none | build instructions, derive addresses, decode accounts, parse events | `Wire`, `Accounts`, `Events` |
| App, actions and accounts (`app/src/hooks/use-game-actions, use-game-session, use-player-state, use-token-balance`, `lib/wallet-bridge`, `components/game/game-board`) | query cache, subscriptions, pending action | read, follow, press, simulate, sign, send, confirm | `App`; the hit's race with the dealer in `DealerService` |
| App, event feed (`hooks/use-game-events`, `lib/event-render`) | events by id, the rows | subscribe, look back, merge, render | `EventFeed`, `Events` |
| App, advisor (`lib/advisor`, `components/advisor/`) | none | odds of a bust, recommendation | `Advisor` |
| Faucet and nicknames (`faucet/src/`, `app/src/hooks/use-display-name`) | cooldowns and pending claims in memory, a registry on disk, names in the browser | claim, mint, assign a name, restart | `Faucet` |
| Scripts (`scripts/`) | where a script stands | four smoke tests, `init-game`, `init-vault`, `mint-test-flip` | `Scripts`; the amounts of `mint-test-flip` in `Wire` |
| Circuit, Groth16, Poseidon, Keccak | none | pure field arithmetic | not modelled: 254-bit fields are out of TLC's reach |
| Screens, integration tests, deployment, House AI | none of their own | rendering, driving the system | not modelled |

**How they interact.** A player's wallet, the authority and the dealer each send instructions; an
instruction is one atomic transaction over the accounts of the game. The dealer polls `GameSession`
every five seconds and, when the table waits for a deck, shuffles, proves and sends `commit_deck`.
The authority sends `start_round`. The app reads `GameSession`, asks the dealer's `/reveal` for the
card at `draw_counter` with its Merkle proof, and sends `hit`. Anyone seated, the dealer or the
authority sends `end_round`. Nothing tells the dealer that a card was drawn or a round ended: it
finds out at its next poll. The app learns of the chain through account subscriptions and through
the program's log lines, which the client parses. The faucet mints on request and gives each wallet
a name that the app shows. The scripts play all the roles of one game themselves.

**What is hard.** No instruction has a timeout, so a round that waits for one player waits forever.
Instructions of different players may come in any order that the guards allow: a second chance
after the turn has moved on, a forfeit out of turn, a theft from a hand that is about to be scored.
Accounts outlive games, and boards outlive sessions. In the dealer, ticks of the timer overlap at
every `await`, act on snapshots that are old by then, and a commit may land after the dealer has
given it up; the deck exists in memory only. Between dealer and app, a reveal counts when it is
answered and a draw when it lands. In the browser, reads, notifications and the refetch after an
action write one cache entry in any order, and a transaction may land after its confirmation timed
out. The faucet holds its reservation in memory across an awaited mint.

**What makes each part correct.**

- Session, seats: a running round has seats, a deck and a turn; the seats are different wallets.
- Money: the vault holds the pot, no token is made or lost, the pot goes to the best hand.
- Play: cards come from the deck, hands change only as the turn allows, scores and flags agree, and
  a hand hides no bust but the card just stolen.
- Settlement: when everybody is out the round can be ended unless its fee does not fit a u64, and
  rounds do end.
- Bounties: a claim rests on a round this session has finished and is never taken back.
- Dealer: the deck the chain waits on is the one in memory; one commit at a time; a table that
  waits gets a deck, whatever failed before. Every card dealt verifies, and no other in its place.
- Dealer and app: the chain never deals past the dealer.
- Client: what was typed is what the handler reads, what the program stored is what the client
  shows, every event line becomes one event.
- App: a repeated press is paid for once in a round; an action's end refreshes what is shown; the
  feed has no gap.
- Faucet: one mint per wallet and window as far as the service knows; no reservation is kept for
  good; a name belongs to one wallet everywhere.
- Scripts: for every shuffle, each step a script relies on is accepted and a pass leaves nothing.

## 2. Modules

```
Cards <-- PushFlip <-- MCPushFlip <-- PushFlipLiveness --+
  ^         |  ^  ^        ^                             +-- MCTable
  |         |  |  |        +-- PushFlipClaims            |
  |         |  |  +-- Bounty ----------------------------+
  |         |  |        ^  ^
  |         |  |        |  +-- Scripts <-- MCScripts
  |         |  |        +--------------------------- BountyProofs
  |         |  +-- PushFlipProofs <-- PushFlipPlay <--+ (of BountyProofs)
  |         v (refines)
  |       RoundLifecycle <--(INSTANCE)-- DealerService <-- MCDealerService <-- DealerClaims
  |                                            ^
  +-- CardsProofs ----------+                  +-- DealerProofs
  +-- MCCards ---+          |
  +-- Advisor ---+          v
  Wire <-- DeckTree, Accounts ---+-- MCRules <-- RulesProofs
  Events ------------------------+
App, EventFeed <-- MCBrowser          Faucet <-- MCFaucet
App, EventFeed <-- BrowserProofs      Faucet <-- FaucetProofs
```

**`Cards`** holds the rules over a hand. The code computes them with loops; the module states what
the loops select (`BustsAt`, `IsHighestAlpha`) or accumulate (`CalculateHandScore`), which keeps
recursion out of everything that is proved about. `MCCards` writes the loops down as folds. The suit
of a card is left out: it enters only the Merkle leaf. Positions are 1-based here.

**`PushFlip`** is the program: a variable per field of `GameSession`, `player_state[p]` for the
accounts, `accounts` for those that are open, and the token balances. Each instruction is an
action; an early return, a failing transfer, a `checked_*` overflow and the panic of `push_card` are
guards, because the transaction is then rolled back. `Hit` has four disjuncts. The caller of `hit`
chooses which accounts to pass, so a protocol card may also be drawn without a target. A closed
`PlayerState` is represented by `FreshPlayerState(0)`. `close_game` leaves the players' accounts
open, as the code does.

**`Bounty`** adds the board to the game's variables. `ClaimBounty` reads the claimer's `PlayerState`
as the last round left it. A board stays open when its game closes and serves the next session with
the same id; it can be closed with bounties unclaimed. `BoardSpec` is the game with its board.

**`RoundLifecycle`** is the abstract specification: what the services may assume of the chain.
`PushFlip!ImplementsLifecycle` is the refinement, with `player_count <- Len(turn_order)`; it is
checked by TLC and proved.

**`DealerService`** builds on `RoundLifecycle`. The lifecycle's steps are its environment, except
that `Commit` needs a transaction the dealer sent and `Draw` a card the dealer revealed. Each tick of
the timer is a process: `Claim` up to the first `await`, `Fetch`, the decision (`Recheck`,
`LookAway`, `Shuffle`), `Send`, and `Confirm` or `CommitFails`. `Land`, `Refuse` and `Drop` are the
cluster's: they may happen after the tick has given up. `Crash` empties the memory and keeps what is
on its way. `lost` is a history variable: the decks dropped by a failure or a restart. The client is
one hit at a time (`Ask`, `Reveal`, `HitLands`, `HitFails`); any answer may be lost. A client may ask
with any round number: the app uses the chain's, `GET /round` hands out the dealer's.

**`Scripts`** writes each smoke test down as the list of its transactions over `PushFlip` and
`Bounty`, with the script's own branches (`When`, `While`) and negative tests (`Rejected`), and what each
asserts in `Asserted`. The shuffle is any. A transaction may fail or land unseen (`Crash`); only
the two tools come back to the game they left (`Rerun`).

**`Wire`**, **`Accounts`**, **`Events`** are the client beside what it talks to. `Wire` builds every
instruction (discriminator, data, accounts with their roles) and states what its handler demands and
reads. Numbers are chunks with a width: a value past it wraps around, as `setBigUint64` does.
`Accounts` lays the program's fields out by its offsets and reads them with the client's reader.
`Events` has the program's log lines with their widest values, the client's parser (one pass, as a
fold) and the app's rendering of a row. Text is left as tokens.

**`DeckTree`** is the deck's way from the shuffle to the check in `hit`: Fisher-Yates as one state
per draw of a random index, the tree with its padding leaves, proofs by the bits of the index, and
the circuit's statement (`ShuffleVerify`). A hash is the structure it was made of, so two hashes are
equal when their inputs are. **`Advisor`** has the odds and the advice.

**`App`** is one browser and one followed account. The hooks for `GameSession`, `PlayerState` and the
token balance have the same code and are one `query`; `history` is the chain as far as the wallet's
buttons can tell states apart, and a cached value is a version of it. A moment of it has whose turn it
is, the wallet's seat and what it has used, the cards drawn, the number of the round and how often the
wallet left. The others hit, bust and stay (`OthersPlay`), rounds end and start again and clear the
flags (`EndRound`, `StartRound`), and the wallet may leave through another client (`LeaveElsewhere`).
A hit keeps the turn unless it busts, and is bound to its round by the proof for that round's deck;
the other instructions name no round. An action goes from `Press`
through `Build`, `fetchDealerReveal`, `preSimulateTransaction`, `walletSignTransaction` and `Confirm`;
`GiveUp` is the confirmation's timeout, after which `Land` or `Expire` may still come, in a later
round too. Leaving the
page or reconnecting forgets the pending mark and not the transaction.

**`EventFeed`** is the subscription and the look back. Both read one ledger, in the granularity of a
transaction with its number of events; both are taken to be one node. What the look back has still
to read is a set, of which a batch takes the newest.

**`Faucet`** is the service with its clock, rate limit, authority balance, registry and restarts, the
cluster, and the browser's two copies of a name. The candidates for a wallet's name follow from the
bytes of its hash, which a constant chooses.

Definitions marked *Mutant* just before a definition are that definition with a plausible bug. No
specification uses them; each shows that some property notices the bug.

## 3. Runs

All runs finish in about two and a half minutes or less with two workers. `CHECK_DEADLOCK FALSE` is set everywhere: the
models' bounds stop them, and a table nobody plays at stops too.

| run | distinct states | question | properties |
|---|---|---|---|
| `money` (`PushFlipMoney.cfg`) | 1.1 million | is the pot backed, conserved, payable and paid to the right player? | `RoundIsSeated`, `VaultBacksPot`, `SupplyConserved`, `EndRoundAvailable`, `PotGoesToBestHand`, `ImplementsLifecycle` |
| `cards` (`PushFlipCards.cfg`) | 1.7 million | do hands, scores and flags stay coherent in every order of play? | `TypeOK`, `StatusCoherent`, `StayedScoreStands`, `CardsComeFromDeck`, `HiddenBustIsStolen`, `HandsMoveInTurn`, `ComebackIsPaid` |
| `table` (`Table.cfg`) | 1.2 million | with a bounty board beside the game: is a claim rightful and final, and can the players always leave a stuck round? | `RoundEnds`, `ClaimIsFinal`, `ClaimFollowsRound` |
| `rules` (`Rules.cfg`) | 23 thousand | do the pure parts agree with their references and with each other? | `BustMatchesLoop`, `ScoreMatchesLoop`, `RugPullMatchesLoop`, `ClientReadsAccounts`, `CallArrives`, `GamesKeepApart`, `LinesFit`, `LogsBecomeEvents`, `DealtCardsVerify`, `OddsAreExact` |
| `dealer` (`Dealer.cfg`) | 506 thousand | is the committed deck the one in memory, however ticks overlap? | `TypeOK`, `DeckIsServable`, `OneCommitAtATime`, `CursorNotBehind`, `DealtInOrder` |
| `dealer_recovers` (`DealerRecovers.cfg`) | 529 thousand | does a waiting table get a deck after failures? | `TableGetsDeck` |
| `scripts` (`Scripts.cfg`) | 42 thousand | do the smoke tests and tools run through for every shuffle? | `OnlyPayoutFails`, `PassedLeavesNothing` |
| `faucet` (`Faucet.cfg`) | 227 thousand | are mints spaced, reservations released and names kept apart? | `NamesAreKept`, `MintsAreSpaced`, `ClaimsAreReleased` |
| `browser` (`Browser.cfg`) | 9.2 million | is nothing paid twice, the cache refreshed and no event missed? | `NothingIsPaidTwice`, `ActionsLeaveFreshCache`, `FeedMissesNothing` |
| three `Claim*.cfg` | | does the code do what a document or comment says? | one each, violated (section 5) |

`MCRules` and `MCBrowser` hold several parts that share no state. A variable `scene` says which part
a behaviour plays, so that one run checks them all without multiplying their states. In `MCBrowser`
the scenes are the feed, the whole of `App` over a short history (`cache`), and, for each button, two
presses of it over a long history with another round in it; there the cache is only read, cards are
drawn only for the hit, and the wallet reconnects only in the scenes of joining and staying.

**Bounds.** `money`: two wallets, two sessions of two rounds each, one rollover before the sweep, a
fee of 25 % so that the rake of a small pot is not 0 and rounds, stakes below, at and above the
minimum, and wallets that can pay for a stake and one burn or for none. `MaxU64` is 12500 there: a
pot of five units is the last whose product with the fee fits, and a pot of six is refused as in the
code. Two sessions let a `PlayerState` outlive its game; two rounds let a pot roll over and be swept
or won. The deck is a pair: a bust, a tie at one card each, and a score of 0 all occur. `cards`:
three wallets, so that there is a bystander to every theft, one round of each of four decks, four
slots per hand: a theft from a player who came back, a stolen card that repeats one of the thief's,
a theft that finds no slot and a rug pull all occur. The decks have five or six cards, and a full
hand occurs. The other cards of a deck of 94 and the other rounds repeat these. Token amounts are
units, not lamports; `MaxU64` is small because TLC's integers have 32 bits. `table`: two wallets and
two sessions of two rounds, so that flags and boards outlive a session and a pot rolls over before
it is swept, with one bounty of any type; a wallet pays for a stake or for second chances. `rules`:
hands of up to four cards of seven kinds, reached by drawing, giving up the last card and losing the
best, with `MaxU64 = 300` so that the score saturates; every instruction with numbers around the
limits of its width (a u64 is 4096 here) and around where scaling to base units overflows, bytes at
both ends, with and without optional accounts; every pair of log lines (`MaxLogs` = 2), among them
damaged and foreign ones; every permutation of a deck of seven cards in a tree of eight leaves, so
that a padding leaf and both sides of every level occur. `dealer`: two ticks are enough for any two
awaits to overlap; three decks are one on the chain, one in memory and one in an old transaction;
two cards tell the card drawn from the next; one failure and one restart may meet. `scripts`: every
arrangement of five of six cards (a pair, a third value, a multiplier, both effects that look for a
target), which reaches each branch of the scripts. `faucet`: two wallets whose first names are the
same, two tabs, a cooldown of two in a clock of two, one restart, and a balance that pays for a
first mint and not for everything. `browser`: two actions; four moments of the chain for the cache,
and five to seven for two presses of a button, which is what it takes for a second one to land in
the next round (`Moments`); one card, drawn or busting; a look back of two signatures read one by
one, three transactions and three rows. Symmetry is used in `cards` (wallets) and `dealer` (decks
and ticks), never with liveness.

**Fairness.** `table` assumes that somebody ends a round that can be ended (any seated player may)
and that a player who is still in eventually gives up, the only move the program keeps open to a
player whose turn never comes. It is deliberately the weakest form of cooperation: the run says
that the program always leaves a way out, not that players play well. It speaks of pots whose fee
can be computed: `MaxU64` is large in `Table.cfg`, and a pot that overflows `end_round.rs:176` would
wait until those who stayed forfeit too. `dealer_recovers` assumes that
the timer fires (`WF` on the ticks' steps), that a read tried over and over is answered some time
(`SF` on `Fetch`, as the loop retries every five seconds), that a tick told of a refusal handles it,
and that the cluster executes, refuses or drops a transaction (a blockhash expires). That a commit
succeeds is not assumed; the number of failures is bounded. `faucet` assumes that a handler that can
go on does: the mint's confirmation ends with the transaction or throws when its blockhash has
expired. No other run states fairness; `App` and `EventFeed` are checked for safety only, because a
dropped subscription is not reopened by the code and nothing then has to happen.

## 4. Proofs

All proofs hold for every instance the named assumptions allow. `ParameterAssumption`,
`HandSizeAssumption` and `U64Assumption` say that the wallets are finitely many, decks are sequences
of cards, and numbers are naturals; `DealerAssumption`, `FeedAssumption` and `FaucetAssumption` are
as weak. The pure parts assume a little more of the code's numbers: `SumAssumption`, that a full hand
of the highest cards fits a u64 before it is multiplied; `WidthAssumption` and `CallAssumption`, that
a byte has room for the discriminators and two for the fee that is tried. `DrawableAssumption` says
that the cards tried are cards, `DeckAssumption` that the deck fits in the tree, `ScriptAssumption` that
the scripts' two players are wallets and `MIN_STAKE` is a stake. `LayoutAssumption` has the program's
four seats and that a hand fits the ten slots of its account; `AdvisorAssumption` that the two numbers
the advisor hard-codes are the deck's and that an alpha card's value has a bit in `check_bust`'s mask
(this is where the app has to agree with the program and the dealer: with another deck it would
miscount). No proof depends on a bound of a `.cfg`. Each inductive invariant
below was first checked by TLC where it was not obvious, and is written as a conjunction of named
parts with one step per action.

**The shared lemmas** (`CardsProofs`). What is summed or looped over in the model is a fold, and a
fold is defined by a `CHOOSE` of its recursion. The library's induction theorems cannot be used with
an operator, so `SubsetInduction` and the induction over naturals speak of a *set* of good cases:
with it, such a recursion has a solution (`FoldExists`, `FoldLeftExists`), only one (`FoldAgrees`),
and takes any element first if the operation commutes (`SumTakeOut`, `ProductTakeOut`, `SumMoves`).
The rest of the module is about removing cards from a sequence.

**The table** (`PushFlipProofs`).

- `TypeCorrect`: `Spec => []TypeOK`. `TypeOK` is inductive. The work is in the
  bounds it contains: no hand outgrows its slots (a vampire attack pushes twice), the score fits its
  u64, the pot stays in its u64, the rollover count stays at its cap, the rake is a part of the pot
  (`RakeType`: division and multiplication by the fee), so no balance falls below 0. One lemma per
  instruction; `FrameType` deals with what it leaves alone; `CardsProofs` has the facts about
  removing a card from a sequence.
- `LifecycleImplemented`: `Spec => ImplementsLifecycle`. Initial states map to
  initial states and each instruction to a lifecycle step or a stutter, under `TypeOK`.
- `TableIsSeated`: `Spec => []RoundIsSeated`, relative to `TypeOK`. The two
  delicate cases are `join_round`, which needs that the wallet had no seat, and `leave_game`
  (`LeaverIsGone`): after the shift no seat is the leaver's, so closing its account leaves no seat
  without one.
- `VaultIsExact`: `Spec => []VaultBacksPot`. Inductive as it stands with
  `TypeOK`, because the vault changes only with the pot: this is where the rounding of the rake
  must go to the winner, and where `close_game` needs its guard.
- `NothingIsLost`: `Spec => []SupplyConserved`. The wallets' sum changes by what one wallet gains
  (`HoldingsChange`), and each instruction moves as much between wallets, vault, treasury and supply.

**The round** (`PushFlipPlay`). `AccountStep` lists what one instruction can do to one account:
nothing, clear it, forfeit, bust, play on, stand or come back. The rest follows from the list.

- `StatusIsCoherent`, `StayedScoreIsTrue`: proved together from one invariant, `Coherent`, over all
  wallets' accounts, closed ones included: active means no reason, only a player who stayed holds a
  score, only one who busted a bust value, and the score of a player who stayed is the worth of the
  hand. Each move of the list keeps the four.
- `HandsOnlyMoveInTurn`, `ComebackIsBought`: read off the list, with `TypeOK` and the seats.
- `BestHandTakesPot`: only `end_round` lowers the pot. The winning seat holds the highest stored
  score; under `Coherent` the stored scores are the hands' worth, so it is the best hand that stayed,
  and the rake leaves something of the pot, so the winner is the one wallet that changes.
- `HandsHoldTheDeal`: `Spec => []CardsComeFromDeck`. `HandsWithinDeal` counts, for each card, the copies
  in all hands against the copies dealt. A draw adds one to both, a theft takes from one summand what
  it gives to another, a burn or a discard lowers one.
- `RoundsCanEnd`: once everybody at the table is out, the guards of `end_round` hold: the seats have
  accounts, the vault covers the pot, and there is a winning seat or the pot is swept or rolled over.
  It is `EndRoundAvailable` without `ENABLED`, and leaves out the one guard that may refuse: the
  overflow check of the fee's product. `EndRoundAvailable` says when that is, and the run has pots on
  both sides of the limit: with somebody who stayed the round ends exactly if the product fits, with
  nobody it always does.
- `HiddenBustsAreStolen`: `Spec => []HiddenBustIsStolen`. The invariant behind it, `TheftsOnly`, is
  about the cards a hand counts: all of them, or all but the last for a player who is out by BUST and
  may give it up. A value repeats among these at the last place only, and then a vampire attack lies
  just before it. A draw that busts adds a card that is not counted; any other draw, and the draw of a
  theft, leaves a hand that was checked; a rug pull takes an alpha card and cannot split the pair
  (`PulledHand`); a forfeit counts one card less (`OneLess`); a second chance makes the counted cards
  the hand.

**The bounty board** (`BountyProofs`). A board's instruction leaves the game's variables alone, so
`BoardSpec => Spec` and the table's invariants carry over. `ClaimsAreFinal` needs `BoardTypeOK`: a
closed board holds nothing, and no instruction shortens an open one. `ClaimsFollowRounds` needs
`NobodyHasStayedYet`: until a session has started a round nobody at its table has stayed, although
an account that outlived an older session may carry the flag. It holds because `join_round` opens the
account it seats.

**The scripts** (`BountyProofs`). `PassedIsClean`: each smoke test is a number of moves, of whatever
shape the shuffle gives them, and an end of four or seven transactions (`ScriptShape`). `Undone` says
at each step what the end has settled and closed so far. The moves open accounts for the two players
only, and a board in one script only. The end settles the round first; so `leave_game` closes an
account, where in a round it would forfeit and keep it, and no later transaction starts a round or
opens anything. The script goes on only when these transactions were accepted. The vault is empty
because it holds the pot and a closed game has none (`VaultBacksPot`, through `mint_to` too). The proof
uses none of the assertions in the scripts, which do not all look at what they closed.

**The dealer** (`DealerProofs`), for any number of ticks, decks, failures and restarts. `TypeOK`,
`DeckIsServable`, `OneCommitAtATime` and `CursorNotBehind` follow from one invariant, `IInv`:

- `OneTickAtATime`: the mutex, and the one tick that is under way. This makes the snapshot of a tick
  one snapshot and not one per tick.
- `TicksHoldTheDeck`: a tick that commits holds the deck in memory, one that looks found none.
- `SentIsKnown`: what the cluster may still execute is in memory or given up, and while the deck in
  memory may still land its tick waits for it. Without this a late commit would put a deck on the
  chain that nobody has, unrecorded.
- `SnapshotsAge`: if a tick is about to reset on a snapshot of an ended round, the deck in memory has
  not been committed since. This is what makes acting on an old snapshot harmless.
- `HitsAreBehind`: a hit on its way was answered, so the cursor is past its card.

`DecksAreDealtInOrder` (`Spec => DealtInOrder`) is the abstract chain's promise, kept by the chain
together with services that commit late and reveal ahead.

**The browser** (`BrowserProofs`). `RepeatsPayOnce` rests on `ChainRemembers`: what has landed in
this round, for this seat, shows on the chain and is not taken back before the round or the seat
ends, so the guard that let the first through refuses the second. Neither the pending mark nor the
cache is needed. `EndsRefresh` rests on `AnswersAreFresh`, no
answer older than the last action's end is still awaited, because that end starts the read over, and
on `CacheFollows`, a shown account is older only while notifications are on their way.
`FeedIsComplete` rests on `NoGap`: between the first transaction looked back to and the last
delivered, each is held, still to be read, or was refused. Listing establishes it because the
subscription is open by then (`Listening`), so its cursor lies within what is listed.

**The faucet** (`FaucetProofs`). `MintsKeepTheirDistance`: each request is alone with its wallet
(`RequestsReserve`), the cooldown that was over when it came in stays over while it builds
(`CooldownsEnd`), and what the service knows of is waited for or counts in the cooldown
(`KnownCounts`); the wallet of a new mint has nobody waiting, so every older one counts.
`NamesBelong`: rows are only added, under a name no row has, and the browser keeps what was a row.

**The rules and the client** (`RulesProofs`).

- `BustIsCheckBust`, `RugPullIsSearch`, `ScoreIsCalculated`: the rules the game is modelled with are
  what the program's loops compute, for hands of any length. One lemma per loop says what the first
  `k` rounds have established: the values seen so far (`SeeOneMore`), the earliest of the best cards
  so far (`SearchOneMore`), the sum and the product so far, saturated (`SumRule`, `ProductRule`).
- `AddressesAreApart`: a number the parser lets through is below 2^64, so its eight bytes give it
  back and two numbers give different seeds.
- `CallsArrive`: a reader's offset is a sum of the widths before it (`StartOfNext`); chunks laid out at
  offsets that add up are found there and nowhere else (`ReadBack`); then one lemma per instruction
  for its discriminator, accounts and fields, and `MintRule` for the command line's amounts.
- `DealsAreVerified`: for every deck, every shuffle and every depth of the tree that holds it. Swaps
  keep the permutation one (`ShuffleIsPermutation`), so the circuit's statement has a witness. The
  root is read back like any argument (`RootArrives`). The walk is compared with the tree level by
  level (`WalkEndsOnRoot`): after `k` hashes the node in hand is the tree's node over the leaf
  exactly if the walk began with that leaf's card (`NodeAbove` is one level). At the root this is
  the check of the program. Hashes are free of collisions by construction (section 6).

- `OddsAreCounted`: for a deck of any composition, any number of cards dealt to the hand and to the
  others, and any shuffle. The canonical deck is a concatenation; it holds one alpha card of each value
  and suit (`CanonicalCopies`), and a reordering keeps such counts (`ReorderCount`). A card busts a
  hand that is no bust exactly if it is an alpha of a value the hand holds (`DrawBusts`), so the
  busting cards are a disjoint union over the values held, and the advisor's loop adds up its parts
  (`SumOfParts`, `AdvisorCounts`).
- `AccountsAreRead`: what a run of the reader returns for given widths (`ReaderRuns`), and that an
  account laid out field after field is read back, because the offsets rise and each field is found
  at one place only (`ValuesAreRead`). The offsets of the program are then the sums of the client's
  widths, shown for each of the three accounts. `SessionIsDecoded` and `BoardIsDecoded` hold for a
  session and a board of any values and any number of bounties; the property states them of a sample.
  For a player's account the invariant is `AccountHolds`: the slots up to `hand_size` hold the hand in
  order, whatever the ones beyond still hold, through pushes, pops and the shift of a theft.
- `LogsAreParsed`: for any number of lines. The parser has one event for each line it recognises so
  far (`EventsCounted`), recognises a line of the program and no other (`OwnLineParsed`,
  `OtherLineSkipped`), and finds the fields the line was logged with, because no kind repeats a key
  (`KeysAreApart`, `FieldsParsed`). Then each of the 16 sentences asks only for fields its kind has, of
  the type it expects, whatever its flag says (`SentenceRule`).

**Only model-checked.** The liveness properties `RoundEnds`, `TableGetsDeck` and `ClaimsAreReleased`
are out of the prover's reach, and so are `EndRoundAvailable` and `OnlyPayoutFails`, which say that an
instruction is `ENABLED`; `RoundsCanEnd` is what can be proved of the first. `LinesFit` is about the
lengths of the program's strings, which the provers know nothing of.

## 5. Where code and documents disagree

Each `Claim*.cfg` run checks one sentence of the repository and shows a run of the model that
breaks it.

1. `TurnSkipsInactive`. `docs/EXECUTION_PLAN.md:1417`: "Turn advancement must skip inactive
   players". `advance_turn` (`hit.rs:303-310`, and the same in `stay.rs`) takes the next seat, and a
   mid-round `leave_game` does not move the turn. After a forfeit out of turn the turn comes to rest
   on the player who left; nobody can hit or stay, and only further forfeits end the round. A second
   chance leads there without a forfeit: the first player stays, the last one busts and the turn
   returns to the first, and the player who buys back in never gets it again.
2. `HitGetsItsCard`. The dealer stores the round number it read before `start_round`
   (`auto-commit.ts:197`); its comment says the number moves at `end_round`, but `start_round.rs`
   increments it. The app then asks with the number after the increment, and every request is
   answered `round_mismatch`.
3. `SubscriptionKeepsCacheFresh`. `use-game-session.ts:77`: "The subscription's job from then on is
   to keep the cache fresh." The account is read first and the subscription opened afterwards; a
   change in between reaches neither, and the board shows the older account until something else
   changes. `use-game-events.ts:21-26` names this gap and opens its subscription first.

Also met while modelling, without a run of their own.

In the program:

- `docs/EXECUTION_PLAN.md:1680` says of the second chance "Bust → second chance → player is active
  again, bust card removed", and `burn_second_chance.rs:20` "undo a bust — removes the bust card". A
  stolen card is pushed after the bust check (`hit.rs:264`), so a hand may hold a duplicate that only
  the next draw detects, whatever that draw is; the second chance pops that draw, and the player goes
  on with a hand that is still a bust. `HiddenBustIsStolen` says that this is the one way a bust goes
  unnoticed, and its run reaches it with the third of its decks.
- `docs/EXECUTION_PLAN.md:3532` says that `leave_game` refunds the stake between rounds and that
  `close_game` closes all accounts; neither happens. `:3514` says that at the rollover cap stakes are
  returned proportionally; `end_round` sweeps the pot to the treasury.
- `docs/wiki/operations/dealer-runbook.md:442` gives `end_round` by the authority as the recovery
  when the dealer has lost the deck. It is refused while a seated player is active
  (`end_round.rs:130`).
- `utils/events.rs:38` says the longest `end_round` line has about 172 bytes; it has 188, which still
  fits the logger's 200 (`LinesFit`).

In the dealer:

- `use-game-actions.ts:139`: "we trust the dealer to be in sync since both read the same on-chain
  state". The dealer's cursor moves when it answers, not when the hit lands: one lost hit, and the
  rest of the round cannot be drawn.
- The same-round guard of `auto-commit.ts:184-190` cannot fire, because `committedRoundNumber` is
  null whenever the memory holds no deck.

In the scripts:

- `smoke-test-tokens.ts:448-466` ("For this test we cheat slightly") and `smoke-test-burns.ts:567-574`
  pass the operator's token account as the winner's. `end_round.rs:198-200` asks for the winner's
  own, so with a pot that somebody wins both scripts fail there. This is the one exception in
  `OnlyPayoutFails`.
- The burns test compares the mint's supply before and after, which other minters of the devnet
  token change too.

In the app and the faucet:

- `event-render.ts:181` says of a round without a winner that the pot goes to the house, also when it
  rolls over.
- If the log subscription is refused the look back never starts and `isBackfilling` stays true.
- `canSecondChance` (`game-board.tsx:164`) is not tied to a running round, while the program refuses
  the burn outside one.
- The app's `hit` passes no other player's account, so a vampire attack drawn through the app never
  steals.
- `use-game-actions.ts:376-380` wonders whether stay, hit and burn are as safe to repeat as joining.
  Within a round they are (`NothingIsPaidTwice`). But stay, scry and second chance carry no round
  number: one that was given up in a round may land, and be paid for, in the next. A hit cannot, since
  its proof is for one deck.
- A reconnect of the wallet mounts the action buttons anew and forgets that an action is pending; the
  program's own checks are then what `NothingIsPaidTwice` rests on.
- `faucet/src/index.ts:57-62` counts on about a hundred mints from the minimum balance and leaves out
  the rent of the token accounts it creates.

## 6. Assumptions and what is left out

- Signers and addresses: in `PushFlip` an instruction's signer is implicit, and callers pass the
  accounts of this game; `Wire` has the roles. Tokens donated to the vault directly are left out
  (`VaultBacksPot` would be an inequality).
- Groth16 proofs are sound, hashes have no collisions, and a root stands for one shuffle. Two fresh
  shuffles differ.
- The dealer, the app and the feed read the chain at "confirmed" and no confirmed state is rolled
  back. A notification is not reordered with those of its own subscription.
- `last_action_slot`, compute budgets and, outside the faucet, rent are left out.
- `airdrop` cards draw plainly: the program skips their effect. `check_pushflip` is called by no
  instruction.
- `App`: the fields of the accounts that no button and no guard depends on; the peek's result
  (`use-scry-result.ts`); the connection indicator, which pings HTTP and not the subscriptions. Of the
  others at the table only what the wallet can tell is kept, so they move at will within the rounds
  (`OthersMove`). The game stays open: rounds of a second session under the same id, whose numbers
  start over, are not played there. While no round is active the dealer's answer may be for the last
  deck or the next.
- `EventFeed`: toasts, and `clear`, which the hook offers and nothing calls; the order of rows within one slot of different transactions, which the code
  leaves open too.
- `Faucet`: the word lists (`words.ts`) are data, and an exhausted registry, in which every candidate
  is taken, does not occur with the words and suffixes of the run.
- `Scripts`: retries of reads, waiting times and output, and the scripts' assertions about compute
  units and rent.

## 7. Plan

What remains, most important first.

1. The reveal's client in `DealerService` and the app's `hit` in `App` are two views of one path,
   joined only by the chain's guards; a composition would show the toast a lost answer ends in.
2. Two nodes in `EventFeed`, one behind the other: the look back may then list less than the
   subscription has passed, and `FeedMissesNothing` would have to name how far.
