---------------------------- MODULE DealerService ----------------------------
(***************************************************************************)
(* The dealer service beside the chain: the poll loop that commits a deck  *)
(* for the next round, the in-memory deck it reveals cards from, and a     *)
(* client that asks for a card and sends the hit.                          *)
(*                                                                         *)
(* The chain is RoundLifecycle, which the program implements: here its     *)
(* steps are the environment, except that a deck is only committed by a    *)
(* transaction the dealer sent and a card only drawn by a client the       *)
(* dealer gave its proof.                                                  *)
(*                                                                         *)
(* setInterval starts a tick every 5 seconds whether or not the one before *)
(* is done, so ticks overlap at every await: each is a process that claims *)
(* the mutex, reads the chain, and acts on what it read.                   *)
(***************************************************************************)
EXTENDS Integers, Sequences

CONSTANTS
  Decks,                \* the shuffles; one in use is never drawn again
  MaxPlayers, MaxRounds,
  Ticks,                \* the ticks that may overlap
  MinPlayersToCommit,   \* MIN_PLAYERS_TO_COMMIT (2)
  MaxFailures,          \* bound of the model: failed proofs, drops and confirmations lost
  MaxRestarts           \* bound of the model: crashes of the service

NoDeck == << >>
NoRound == -1

ASSUME DealerAssumption ==
  /\ NoDeck \notin Decks
  /\ \A deck \in Decks : Len(deck) \in Nat
  /\ MaxPlayers \in Nat /\ MaxRounds \in Nat
  /\ MinPlayersToCommit \in Nat
  /\ MaxFailures \in Nat /\ MaxRestarts \in Nat

VARIABLES
  session_exists, player_count, round_active, round_number,
  deck_committed, merkle_root, draw_counter,
  merkleTree,            \* the deck in the Dealer's memory, or NoDeck
  nextLeafIndex,         \* the next card to reveal
  committedRoundNumber,  \* round_number of the snapshot the deck was committed on
  commitInFlight,        \* the mutex
  tick,                  \* where each tick is and what it knows
  sent,                  \* commit transactions the cluster may still execute
  hit,                   \* the client's hit
  lost,                  \* decks dropped because a commit failed or the service died
  failures, restarts     \* count against the bounds

Chain == INSTANCE RoundLifecycle

chainVars == <<session_exists, player_count, round_active, round_number,
               deck_committed, merkle_root, draw_counter>>
deckVars == <<merkleTree, nextLeafIndex, committedRoundNumber, lost>>
loopVars == <<commitInFlight, tick>>
boundVars == <<failures, restarts>>
vars == <<chainVars, deckVars, loopVars, sent, hit, boundVars>>

NoSnapshot == [exists |-> FALSE, roundActive |-> FALSE, deckCommitted |-> FALSE,
               roundNumber |-> 0, activePlayerCount |-> 0]

IdleTick == [pc |-> "idle", gs |-> NoSnapshot, deck |-> NoDeck]
NoHit == [pc |-> "idle", round |-> 0, leaf |-> 0, deck |-> NoDeck]

Init ==
  /\ Chain!Init
  /\ merkleTree = NoDeck
  /\ nextLeafIndex = 0
  /\ committedRoundNumber = NoRound
  /\ commitInFlight = FALSE
  /\ tick = [t \in Ticks |-> IdleTick]
  /\ sent = {}
  /\ hit = NoHit
  /\ lost = {}
  /\ failures = 0
  /\ restarts = 0

Fail ==
  /\ failures < MaxFailures
  /\ failures' = failures + 1
  /\ UNCHANGED restarts

-----------------------------------------------------------------------------
(* The chain's other steps: games, seats, and the rounds of the authority. *)

ChainStep ==
  /\ \/ Chain!OpenSession
     \/ Chain!CloseSession
     \/ Chain!Seat
     \/ Chain!Unseat
     \/ Chain!Start
     \/ Chain!End
  /\ UNCHANGED <<deckVars, loopVars, sent, hit, boundVars>>

(* A commit executes, is refused by commit_deck's guards, or is dropped.   *)
(* The tick that sent it may no longer be waiting for it.                  *)
Notify(deck, outcome) ==
  tick' = [t \in Ticks |->
             IF tick[t].pc = "confirming" /\ tick[t].deck = deck
             THEN [tick[t] EXCEPT !.pc = outcome] ELSE tick[t]]

Land(deck) ==
  /\ deck \in sent
  /\ Chain!Commit(deck)
  /\ sent' = sent \ {deck}
  /\ Notify(deck, "landed")
  /\ UNCHANGED <<deckVars, commitInFlight, hit, boundVars>>

Refuse(deck) ==
  /\ deck \in sent
  /\ ~session_exists \/ round_active \/ deck_committed
  /\ sent' = sent \ {deck}
  /\ Notify(deck, "refused")
  /\ UNCHANGED <<chainVars, deckVars, commitInFlight, hit, boundVars>>

Drop(deck) ==
  /\ deck \in sent
  /\ Fail
  /\ sent' = sent \ {deck}
  /\ Notify(deck, "refused")
  /\ UNCHANGED <<chainVars, deckVars, commitInFlight, hit>>

-----------------------------------------------------------------------------
(* runAutoCommitTick.                                                      *)

At(t, places) == tick[t].pc \in places

Goto(t, place) == tick' = [tick EXCEPT ![t].pc = place]

(* Mutant: an early return that keeps the mutex.                           *)
ReleaseKeepsMutex(t) ==
  /\ tick' = [tick EXCEPT ![t] = IdleTick]
  /\ UNCHANGED commitInFlight

Release(t) ==
  /\ tick' = [tick EXCEPT ![t] = IdleTick]
  /\ commitInFlight' = FALSE

(* Mutant: reset forgets the cursor.                                       *)
ResetKeepsCursor ==
  /\ merkleTree' = NoDeck
  /\ UNCHANGED nextLeafIndex

Reset ==
  /\ merkleTree' = NoDeck
  /\ nextLeafIndex' = 0

(* Mutant: the mutex is set but not tested before the first await.         *)
ClaimWithoutMutex(t) ==
  /\ At(t, {"idle"})
  /\ commitInFlight' = TRUE
  /\ Goto(t, IF merkleTree # NoDeck THEN "recheck" ELSE "look")
  /\ UNCHANGED <<chainVars, deckVars, sent, hit, boundVars>>

Claim(t) ==
  /\ At(t, {"idle"})
  /\ ~commitInFlight
  /\ commitInFlight' = TRUE
  /\ Goto(t, IF merkleTree # NoDeck THEN "recheck" ELSE "look")
  /\ UNCHANGED <<chainVars, deckVars, sent, hit, boundVars>>

(* The account is read at one moment and acted on at a later one.          *)
Fetch(t) ==
  /\ At(t, {"recheck", "look"})
  /\ tick' = [tick EXCEPT
                ![t].pc = IF @ = "recheck" THEN "rechecked" ELSE "looked",
                ![t].gs = [exists |-> session_exists, roundActive |-> round_active,
                           deckCommitted |-> deck_committed, roundNumber |-> round_number,
                           activePlayerCount |-> player_count]]
  /\ UNCHANGED <<chainVars, deckVars, commitInFlight, sent, hit, boundVars>>

FetchFails(t) ==
  /\ At(t, {"recheck", "look"})
  /\ Release(t)
  /\ UNCHANGED <<chainVars, deckVars, sent, hit, boundVars>>

(* Mutant: the recheck asks only for round_active.                         *)
RoundNotActive(gs) == gs.exists /\ ~gs.roundActive

(* Only a round that ended clears both flags; deck_committed alone means   *)
(* that the deck waits for start_round.                                    *)
RoundEnded(gs) == gs.exists /\ ~gs.roundActive /\ ~gs.deckCommitted

Recheck(t) ==
  /\ At(t, {"rechecked"})
  /\ IF RoundEnded(tick[t].gs)
     THEN Reset /\ committedRoundNumber' = NoRound
     ELSE UNCHANGED <<merkleTree, nextLeafIndex, committedRoundNumber>>
  /\ Release(t)
  /\ UNCHANGED <<chainVars, lost, sent, hit, boundVars>>

CommitWanted(gs) ==
  /\ RoundEnded(gs)
  /\ gs.activePlayerCount >= MinPlayersToCommit
  /\ committedRoundNumber # NoRound => gs.roundNumber # committedRoundNumber

LookAway(t) ==
  /\ At(t, {"looked"})
  /\ ~CommitWanted(tick[t].gs)
  /\ Release(t)
  /\ UNCHANGED <<chainVars, deckVars, sent, hit, boundVars>>

(* shuffle sets the tree before it spends half a minute on the proof.      *)
Shuffle(t, deck) ==
  /\ At(t, {"looked"})
  /\ CommitWanted(tick[t].gs)
  /\ deck \notin sent \cup {merkle_root, merkleTree, hit.deck}
  /\ \A s \in Ticks : tick[s].deck # deck
  /\ merkleTree' = deck
  /\ nextLeafIndex' = 0
  /\ tick' = [tick EXCEPT ![t].pc = "proving", ![t].deck = deck]
  /\ lost' = lost \ {deck}
  /\ UNCHANGED <<chainVars, committedRoundNumber, commitInFlight, sent, hit, boundVars>>

Send(t) ==
  /\ At(t, {"proving"})
  /\ sent' = sent \cup {tick[t].deck}
  /\ Goto(t, "confirming")
  /\ UNCHANGED <<chainVars, deckVars, commitInFlight, hit, boundVars>>

Confirm(t) ==
  /\ At(t, {"landed"})
  /\ committedRoundNumber' = tick[t].gs.roundNumber
  /\ Release(t)
  /\ UNCHANGED <<chainVars, merkleTree, nextLeafIndex, lost, sent, hit, boundVars>>

(* The proof, the send or the wait for the confirmation throws.  The       *)
(* transaction may have landed, or land later.                             *)
CommitFails(t) ==
  /\ \/ At(t, {"refused"}) /\ UNCHANGED boundVars
     \/ At(t, {"proving", "confirming", "landed"}) /\ Fail
  /\ Reset
  /\ lost' = lost \cup {tick[t].deck}
  /\ Release(t)
  /\ UNCHANGED <<chainVars, committedRoundNumber, sent, hit>>

(* The service dies and is started again: everything it held is in memory. *)
Crash ==
  /\ restarts < MaxRestarts
  /\ restarts' = restarts + 1
  /\ lost' = lost \cup ({merkleTree} \ {NoDeck})
  /\ Reset
  /\ committedRoundNumber' = NoRound
  /\ commitInFlight' = FALSE
  /\ tick' = [t \in Ticks |-> IdleTick]
  /\ UNCHANGED <<chainVars, sent, hit, failures>>

-----------------------------------------------------------------------------
(* GET /reveal, and the client's hit: one read of the chain, one request,  *)
(* one transaction, none of them retried.                                  *)

(* The app asks with the round_number it read; GET /round tells any other  *)
(* client the dealer's own.                                                *)
Ask(round) ==
  /\ hit.pc = "idle"
  /\ session_exists /\ round_active
  /\ hit' = [NoHit EXCEPT !.pc = "asking", !.round = round, !.leaf = draw_counter]
  /\ UNCHANGED <<chainVars, deckVars, loopVars, sent, boundVars>>

Serves(round, leaf) ==
  /\ merkleTree # NoDeck
  /\ round = committedRoundNumber
  /\ leaf = nextLeafIndex
  /\ leaf < Len(merkleTree)

(* Mutant: the cursor does not advance.                                    *)
RevealAgain == UNCHANGED nextLeafIndex

RevealNext == nextLeafIndex' = nextLeafIndex + 1

(* The card counts as revealed whether or not the answer arrives.          *)
Reveal ==
  /\ hit.pc = "asking"
  /\ Serves(hit.round, hit.leaf)
  /\ RevealNext
  /\ hit' \in {NoHit, [hit EXCEPT !.pc = "hitting", !.deck = merkleTree]}
  /\ UNCHANGED <<chainVars, merkleTree, committedRoundNumber, lost, loopVars, sent, boundVars>>

HitLands ==
  /\ hit.pc = "hitting"
  /\ hit.deck = merkle_root
  /\ hit.leaf = draw_counter
  /\ Chain!Draw
  /\ hit' = NoHit
  /\ UNCHANGED <<deckVars, loopVars, sent, boundVars>>

(* Refused by the dealer, timed out, rejected by the wallet or the chain.  *)
HitFails ==
  /\ hit.pc # "idle"
  /\ hit' = NoHit
  /\ UNCHANGED <<chainVars, deckVars, loopVars, sent, boundVars>>

-----------------------------------------------------------------------------
TickStep(t) ==
  \/ Claim(t)
  \/ Fetch(t)
  \/ Recheck(t)
  \/ LookAway(t)
  \/ \E deck \in Decks : Shuffle(t, deck)
  \/ Send(t)
  \/ Confirm(t)

Next ==
  \/ ChainStep
  \/ \E deck \in Decks : Land(deck) \/ Refuse(deck) \/ Drop(deck)
  \/ \E t \in Ticks : TickStep(t) \/ FetchFails(t) \/ CommitFails(t)
  \/ Crash
  \/ \E round \in 0..MaxRounds : Ask(round)
  \/ Reveal
  \/ HitLands
  \/ HitFails

(* The timer keeps firing and a tick that can go on does; a read of the    *)
(* chain that is tried again and again is answered some time; a commit the *)
(* cluster holds is executed, refused or dropped, and its sender told.     *)
Fairness ==
  /\ WF_vars(\E t \in Ticks : TickStep(t))
  /\ SF_vars(\E t \in Ticks : Fetch(t))
  /\ WF_vars(\E t \in Ticks : At(t, {"refused"}) /\ CommitFails(t))
  /\ WF_vars(\E deck \in Decks : Land(deck) \/ Refuse(deck) \/ Drop(deck))

Spec == Init /\ [][Next]_vars

FairSpec == Spec /\ Fairness

-----------------------------------------------------------------------------
Places == {"idle", "recheck", "look", "rechecked", "looked", "proving", "confirming",
           "landed", "refused"}

(* Type invariant of the service's memory and the transactions under way:  *)
(* the cursor stays inside the deck in memory and goes with it.            *)
TypeOK ==
  /\ merkleTree \in Decks \cup {NoDeck}
  /\ nextLeafIndex \in 0..Len(merkleTree)
  /\ committedRoundNumber \in 0..MaxRounds \cup {NoRound}
  /\ commitInFlight \in BOOLEAN
  /\ \A t \in Ticks : /\ tick[t].pc \in Places
                      /\ tick[t].deck \in Decks \cup {NoDeck}
  /\ sent \subseteq Decks
  /\ lost \subseteq Decks
  /\ hit.pc \in {"idle", "asking", "hitting"}
  /\ failures \in 0..MaxFailures /\ restarts \in 0..MaxRestarts

(* The deck the chain waits on is in the dealer's memory, unless a commit  *)
(* failed under it or the service died: no tick resets or reshuffles a     *)
(* deck between its commit and the end of its round, however old the       *)
(* snapshot it acts on.                                                    *)
DeckIsServable == deck_committed => merkle_root \in {merkleTree} \cup lost

(* Overlapping ticks never shuffle or commit side by side: the proof a     *)
(* tick waits for and the transaction it sends are those of the one deck   *)
(* in memory.                                                              *)
OneCommitAtATime ==
  \A t \in Ticks : tick[t].pc \notin {"idle", "recheck", "look"} =>
    /\ commitInFlight
    /\ tick[t].deck # NoDeck => merkleTree = tick[t].deck
    /\ \A s \in Ticks \ {t} : tick[s].pc = "idle"

(* The chain never deals past the dealer: a card the program drew was      *)
(* revealed from the deck the dealer still holds, so asking again for a    *)
(* card already drawn is refused.                                          *)
CursorNotBehind ==
  deck_committed /\ merkle_root = merkleTree => draw_counter <= nextLeafIndex

(* A deck stays the committed one until its round is over and its cards    *)
(* are drawn one by one, also when a commit the dealer gave up on lands    *)
(* late.                                                                   *)
DealtInOrder == Chain!DealtInOrder

(* A table that waits for a deck gets one: ticks that fail, overlap or     *)
(* find an old deck in memory, failed commits and restarts only delay it.  *)
TableGetsDeck ==
  session_exists /\ player_count >= MinPlayersToCommit /\ ~round_active /\ ~deck_committed
    ~> deck_committed \/ player_count < MinPlayersToCommit \/ ~session_exists
=============================================================================
