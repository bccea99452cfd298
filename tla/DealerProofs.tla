---------------------------- MODULE DealerProofs ----------------------------
(***************************************************************************)
(* Theorems of DealerService, for any number of overlapping ticks, decks,  *)
(* rounds, failures and restarts.                                          *)
(***************************************************************************)
EXTENDS DealerService, TLAPS

USE DEF NoRound

(* What a tick reads of the chain, and what it knows.                      *)
Snapshot ==
  [exists: BOOLEAN, roundActive: BOOLEAN, deckCommitted: BOOLEAN,
   roundNumber: 0..MaxRounds, activePlayerCount: Nat]

Pc(t) == tick[t].pc
Gs(t) == tick[t].gs
Deck(t) == tick[t].deck
Busy(t) == Pc(t) # "idle"

(* The account of the chain.                                               *)
ChainTypeOK ==
  /\ session_exists \in BOOLEAN /\ round_active \in BOOLEAN /\ deck_committed \in BOOLEAN
  /\ player_count \in Nat
  /\ round_number \in 0..MaxRounds
  /\ merkle_root \in Decks \cup {NoDeck}
  /\ draw_counter \in Nat
  /\ deck_committed => merkle_root \in Decks

(* Where the ticks are.                                                    *)
TickTypeOK ==
  tick \in [Ticks -> [pc: Places, gs: Snapshot, deck: Decks \cup {NoDeck}]]

(* The mutex: nobody is under way without it, and only one is with it.     *)
OneTickAtATime ==
  /\ commitInFlight \in BOOLEAN
  /\ \A t \in Ticks : Busy(t) => commitInFlight
  /\ \A s, t \in Ticks : Busy(s) /\ Busy(t) => s = t

(* A tick that commits holds the deck in memory, one that looks found none.*)
TicksHoldTheDeck ==
  \A t \in Ticks :
    /\ Pc(t) \in {"proving", "confirming", "landed", "refused"} =>
         Deck(t) \in Decks /\ merkleTree = Deck(t)
    /\ Pc(t) \in {"idle", "recheck", "look", "rechecked", "looked"} => Deck(t) = NoDeck
    /\ Pc(t) \in {"look", "looked"} => merkleTree = NoDeck

(* What the cluster may still execute is in memory or given up, and while  *)
(* the deck in memory may still land somebody waits for it.                *)
SentIsKnown ==
  /\ sent \subseteq Decks
  /\ sent \subseteq {merkleTree} \cup lost
  /\ merkleTree \in sent => \E t \in Ticks : Pc(t) = "confirming"

(* A snapshot of an ended round stays good enough to reset on: the deck in *)
(* memory has not been committed since.                                    *)
SnapshotsAge ==
  \A t \in Ticks : Pc(t) = "rechecked" /\ RoundEnded(Gs(t)) /\ deck_committed =>
    merkle_root # merkleTree

(* The service's memory, the client's hit and the bounds.                  *)
MemoryTypeOK ==
  /\ merkleTree \in Decks \cup {NoDeck}
  /\ nextLeafIndex \in 0..Len(merkleTree)
  /\ committedRoundNumber \in 0..MaxRounds \cup {NoRound}
  /\ lost \subseteq Decks
  /\ hit \in [pc: {"idle", "asking", "hitting"}, round: 0..MaxRounds, leaf: Nat,
              deck: Decks \cup {NoDeck}]
  /\ failures \in 0..MaxFailures /\ restarts \in 0..MaxRestarts

(* A card the client holds a proof of lies behind the cursor.              *)
HitsAreBehind ==
  /\ hit.pc = "hitting" => hit.deck \in Decks
  /\ hit.pc = "hitting" /\ hit.deck = merkleTree => hit.leaf < nextLeafIndex

(* The inductive invariant.                                                *)
IInv ==
  /\ ChainTypeOK
  /\ TickTypeOK
  /\ MemoryTypeOK
  /\ OneTickAtATime
  /\ TicksHoldTheDeck
  /\ SentIsKnown
  /\ SnapshotsAge
  /\ DeckIsServable
  /\ HitsAreBehind
  /\ CursorNotBehind

-----------------------------------------------------------------------------
(* What a step does to the ticks.                                          *)

Others(t) == \A s \in Ticks \ {t} : tick'[s] = tick[s]

(* A tick that is done has forgotten everything.                           *)
Released(t) == Others(t) /\ ~commitInFlight' /\ Pc(t)' = "idle" /\ Deck(t)' = NoDeck

(* The record of a tick, and its fields.                                   *)
LEMMA TickFields ==
  ASSUME TickTypeOK, NEW t \in Ticks
  PROVE  /\ tick[t] \in [pc: Places, gs: Snapshot, deck: Decks \cup {NoDeck}]
         /\ Pc(t) \in Places /\ Gs(t) \in Snapshot /\ Deck(t) \in Decks \cup {NoDeck}
BY DEF TickTypeOK, Pc, Gs, Deck

(* Every early return, success and failure of a tick ends in its release.  *)
LEMMA ReleaseTick ==
  ASSUME TickTypeOK, NEW t \in Ticks, Release(t)
  PROVE  Released(t) /\ TickTypeOK'
<1>1. tick' = [tick EXCEPT ![t] = IdleTick] /\ commitInFlight' = FALSE
  BY DEF Release
<1>2. /\ IdleTick \in [pc: Places, gs: Snapshot, deck: Decks \cup {NoDeck}]
      /\ IdleTick.pc = "idle" /\ IdleTick.deck = NoDeck
  <2>1. NoSnapshot \in Snapshot
    BY DealerAssumption DEF NoSnapshot, Snapshot
  <2> QED BY <2>1 DEF IdleTick, Places
<1> QED BY <1>1, <1>2 DEF TickTypeOK, Released, Others, Pc, Deck

(* A tick goes on to another place.                                        *)
LEMMA GotoTick ==
  ASSUME TickTypeOK, NEW t \in Ticks, NEW place \in Places, Goto(t, place)
  PROVE  /\ Others(t) /\ Pc(t)' = place /\ Deck(t)' = Deck(t) /\ Gs(t)' = Gs(t)
         /\ TickTypeOK'
<1> DEFINE r == [tick[t] EXCEPT !.pc = place]
<1>1. /\ r \in [pc: Places, gs: Snapshot, deck: Decks \cup {NoDeck}]
      /\ r.pc = place /\ r.deck = Deck(t) /\ r.gs = Gs(t)
  BY TickFields DEF Pc, Deck, Gs
<1>2. tick' = [tick EXCEPT ![t] = r]
  BY DEF Goto
<1> HIDE DEF r
<1> QED BY <1>1, <1>2 DEF TickTypeOK, Others, Pc, Deck, Gs

(* The tick that waits for a deck's transaction, if any, hears of it.      *)
LEMMA NotifyTicks ==
  ASSUME TickTypeOK, NEW deck, NEW outcome \in Places, Notify(deck, outcome)
  PROVE  /\ TickTypeOK'
         /\ \A t \in Ticks :
              /\ Deck(t)' = Deck(t) /\ Gs(t)' = Gs(t)
              /\ Pc(t)' = IF Pc(t) = "confirming" /\ Deck(t) = deck THEN outcome ELSE Pc(t)
<1> DEFINE r(t) == IF tick[t].pc = "confirming" /\ tick[t].deck = deck
                   THEN [tick[t] EXCEPT !.pc = outcome] ELSE tick[t]
<1>1. ASSUME NEW t \in Ticks
      PROVE  /\ r(t) \in [pc: Places, gs: Snapshot, deck: Decks \cup {NoDeck}]
             /\ r(t).deck = Deck(t) /\ r(t).gs = Gs(t)
             /\ r(t).pc = IF Pc(t) = "confirming" /\ Deck(t) = deck THEN outcome ELSE Pc(t)
  BY TickFields DEF Pc, Deck, Gs
<1>2. tick' = [t \in Ticks |-> r(t)]
  BY DEF Notify
<1> HIDE DEF r
<1> QED BY <1>1, <1>2 DEF TickTypeOK, Pc, Deck, Gs

(* What a tick reads of the chain.                                         *)
ReadSnapshot == [exists |-> session_exists, roundActive |-> round_active,
                 deckCommitted |-> deck_committed, roundNumber |-> round_number,
                 activePlayerCount |-> player_count]

(* A read remembers where the tick was.                                    *)
LEMMA FetchTick ==
  ASSUME ChainTypeOK, TickTypeOK, NEW t \in Ticks, Fetch(t)
  PROVE  /\ Others(t) /\ Deck(t)' = Deck(t) /\ Gs(t)' = ReadSnapshot
         /\ Pc(t) \in {"recheck", "look"}
         /\ Pc(t)' = IF Pc(t) = "recheck" THEN "rechecked" ELSE "looked"
         /\ TickTypeOK'
<1> DEFINE r == [tick[t] EXCEPT !.pc = IF Pc(t) = "recheck" THEN "rechecked" ELSE "looked",
                                !.gs = ReadSnapshot]
<1>0. ReadSnapshot \in Snapshot
  BY DEF ReadSnapshot, Snapshot, ChainTypeOK
<1>1. /\ r \in [pc: Places, gs: Snapshot, deck: Decks \cup {NoDeck}]
      /\ r.pc = IF Pc(t) = "recheck" THEN "rechecked" ELSE "looked"
      /\ r.deck = Deck(t) /\ r.gs = ReadSnapshot
  <2>1. (IF Pc(t) = "recheck" THEN "rechecked" ELSE "looked") \in Places
    BY DEF Places
  <2> QED BY <1>0, <2>1, TickFields DEF Pc, Deck, Gs
<1>2. tick' = [tick EXCEPT ![t] = r]
  BY DEF Fetch, ReadSnapshot, Pc
<1>3. Pc(t) \in {"recheck", "look"}
  BY DEF Fetch, At, Pc
<1> HIDE DEF r
<1> QED BY <1>1, <1>2, <1>3 DEF TickTypeOK, Others, Pc, Deck, Gs

(* A shuffle puts its deck in the tick's hands.                            *)
LEMMA ShuffleTick ==
  ASSUME TickTypeOK, NEW t \in Ticks, NEW deck \in Decks, Shuffle(t, deck)
  PROVE  /\ Others(t) /\ Pc(t) = "looked" /\ Pc(t)' = "proving"
         /\ Deck(t)' = deck /\ Gs(t)' = Gs(t) /\ TickTypeOK'
<1> DEFINE r == [tick[t] EXCEPT !.pc = "proving", !.deck = deck]
<1>1. /\ r \in [pc: Places, gs: Snapshot, deck: Decks \cup {NoDeck}]
      /\ r.pc = "proving" /\ r.deck = deck /\ r.gs = Gs(t)
  <2>1. "proving" \in Places
    BY DEF Places
  <2> QED BY <2>1, TickFields DEF Pc, Deck, Gs
<1>2. tick' = [tick EXCEPT ![t] = r] /\ Pc(t) = "looked"
  BY DEF Shuffle, At, Pc
<1> HIDE DEF r
<1> QED BY <1>1, <1>2 DEF TickTypeOK, Others, Pc, Deck, Gs

(* A claim goes looking when the memory holds no deck.                     *)
LEMMA ClaimTick ==
  ASSUME TickTypeOK, NEW t \in Ticks, Claim(t)
  PROVE  /\ Others(t) /\ Deck(t)' = Deck(t) /\ Gs(t)' = Gs(t) /\ TickTypeOK'
         /\ Pc(t) = "idle" /\ ~commitInFlight /\ commitInFlight'
         /\ Pc(t)' = IF merkleTree # NoDeck THEN "recheck" ELSE "look"
<1>1. (IF merkleTree # NoDeck THEN "recheck" ELSE "look") \in Places
  BY DEF Places
<1>2. Goto(t, IF merkleTree # NoDeck THEN "recheck" ELSE "look")
  BY DEF Claim
<1>3. Pc(t) = "idle" /\ ~commitInFlight /\ commitInFlight'
  BY DEF Claim, At, Pc
<1> QED BY <1>1, <1>2, <1>3, GotoTick

(* A restart leaves no tick behind.                                        *)
LEMMA CrashTicks ==
  ASSUME Crash
  PROVE  TickTypeOK' /\ \A t \in Ticks : Pc(t)' = "idle" /\ Deck(t)' = NoDeck
<1>1. /\ IdleTick \in [pc: Places, gs: Snapshot, deck: Decks \cup {NoDeck}]
      /\ IdleTick.pc = "idle" /\ IdleTick.deck = NoDeck
  <2>1. NoSnapshot \in Snapshot
    BY DealerAssumption DEF NoSnapshot, Snapshot
  <2> QED BY <2>1 DEF IdleTick, Places
<1> QED BY <1>1 DEF Crash, TickTypeOK, Pc, Deck

-----------------------------------------------------------------------------
(* What a step does to the chain: one of the lifecycle's steps, or none.   *)
ChainMove ==
  \/ Chain!OpenSession \/ Chain!CloseSession \/ Chain!Seat \/ Chain!Unseat
  \/ Chain!Start \/ Chain!End
  \/ \E deck \in sent : Land(deck) /\ Chain!Commit(deck)
  \/ Chain!Draw
  \/ UNCHANGED chainVars

(* Whatever the service or the client does.                                *)
LEMMA NextMovesChain ==
  ASSUME [Next]_vars
  PROVE  ChainMove
<1>1. CASE ChainStep
  BY <1>1 DEF ChainStep, ChainMove
<1>2. CASE \E deck \in Decks : Land(deck)
  BY <1>2 DEF Land, ChainMove
<1>3. CASE HitLands
  BY <1>3 DEF HitLands, ChainMove
<1>4. CASE \/ \E deck \in Decks : Refuse(deck) \/ Drop(deck)
           \/ \E t \in Ticks : TickStep(t) \/ FetchFails(t) \/ CommitFails(t)
           \/ Crash
           \/ \E round \in 0..MaxRounds : Ask(round)
           \/ Reveal
           \/ HitFails
           \/ UNCHANGED vars
  <2>1. UNCHANGED chainVars
    BY <1>4 DEF Refuse, Drop, TickStep, Claim, Fetch, Recheck, LookAway, Shuffle, Send, Confirm,
                FetchFails, CommitFails, Crash, Ask, Reveal, HitFails, vars
  <2> QED BY <2>1 DEF ChainMove
<1> QED BY <1>1, <1>2, <1>3, <1>4 DEF Next

(* The chain keeps its types, and a committed root is a deck.              *)
LEMMA NextChainType ==
  ASSUME IInv, ChainMove
  PROVE  ChainTypeOK'
<1> USE DealerAssumption DEF IInv, ChainTypeOK
<1>1. CASE Chain!OpenSession \/ Chain!CloseSession
  <2>1. session_exists' \in BOOLEAN /\ round_active' \in BOOLEAN /\ deck_committed' \in BOOLEAN
    BY <1>1 DEF Chain!OpenSession, Chain!CloseSession, Chain!ClearSession
  <2>2. player_count' = 0 /\ round_number' = 0 /\ merkle_root' = << >> /\ draw_counter' = 0
        /\ ~deck_committed'
    BY <1>1 DEF Chain!OpenSession, Chain!CloseSession, Chain!ClearSession
  <2> QED BY <2>1, <2>2 DEF NoDeck
<1>2. CASE Chain!Seat \/ Chain!Unseat
  <2>1. player_count' \in Nat
    BY <1>2 DEF Chain!Seat, Chain!Unseat
  <2>2. UNCHANGED <<session_exists, round_active, round_number, deck_committed,
                    merkle_root, draw_counter>>
    BY <1>2 DEF Chain!Seat, Chain!Unseat
  <2> QED BY <2>1, <2>2
<1>3. CASE Chain!Start
  <2>1. round_active' \in BOOLEAN
    BY <1>3 DEF Chain!Start
  <2>2. round_number' \in 0..MaxRounds
    BY <1>3 DEF Chain!Start
  <2> QED BY <1>3, <2>1, <2>2 DEF Chain!Start
<1>4. CASE Chain!End
  <2>1. round_active' \in BOOLEAN /\ deck_committed' \in BOOLEAN
    BY <1>4 DEF Chain!End
  <2> QED BY <1>4, <2>1 DEF Chain!End
<1>5. ASSUME NEW deck \in sent, Chain!Commit(deck)
      PROVE  ChainTypeOK'
  <2>1. deck_committed' \in BOOLEAN
    BY <1>5 DEF Chain!Commit
  <2>2. deck \in Decks
    BY DEF SentIsKnown
  <2> QED BY <1>5, <2>1, <2>2 DEF Chain!Commit
<1>6. CASE Chain!Draw
  BY <1>6 DEF Chain!Draw
<1>7. CASE UNCHANGED chainVars
  BY <1>7 DEF chainVars
<1> QED BY <1>1, <1>2, <1>3, <1>4, <1>5, <1>6, <1>7 DEF ChainMove

(* Every step leaves the ticks where they can be.                          *)
LEMMA NextTickType ==
  ASSUME IInv, [Next]_vars
  PROVE  TickTypeOK'
<1>0. ChainTypeOK /\ TickTypeOK
  BY DEF IInv
<1>1. CASE \/ ChainStep \/ Reveal \/ HitLands \/ HitFails
           \/ \E round \in 0..MaxRounds : Ask(round)
           \/ UNCHANGED vars
  BY <1>0, <1>1 DEF ChainStep, Reveal, HitLands, HitFails, Ask, vars, loopVars, TickTypeOK
<1>2. ASSUME NEW deck \in Decks, Land(deck) \/ Refuse(deck) \/ Drop(deck)
      PROVE  TickTypeOK'
  <2>1. "landed" \in Places /\ "refused" \in Places
    BY DEF Places
  <2> QED BY <1>0, <1>2, <2>1, NotifyTicks DEF Land, Refuse, Drop
<1>3. ASSUME NEW t \in Ticks, TickStep(t) \/ FetchFails(t) \/ CommitFails(t)
      PROVE  TickTypeOK'
  <2>1. CASE Claim(t)
    BY <1>0, <2>1, ClaimTick
  <2>2. CASE Fetch(t)
    BY <1>0, <2>2, FetchTick
  <2>3. CASE Recheck(t) \/ LookAway(t) \/ Confirm(t) \/ FetchFails(t) \/ CommitFails(t)
    BY <1>0, <2>3, ReleaseTick DEF Recheck, LookAway, Confirm, FetchFails, CommitFails
  <2>4. CASE \E deck \in Decks : Shuffle(t, deck)
    BY <1>0, <2>4, ShuffleTick
  <2>5. CASE Send(t)
    <3>1. "confirming" \in Places
      BY DEF Places
    <3> QED BY <1>0, <2>5, <3>1, GotoTick DEF Send
  <2> QED BY <1>3, <2>1, <2>2, <2>3, <2>4, <2>5 DEF TickStep
<1>4. CASE Crash
  BY <1>4, CrashTicks
<1> QED BY <1>1, <1>2, <1>3, <1>4 DEF Next

-----------------------------------------------------------------------------
(* A step of one tick, as what it does to the ticks, to the mutex and to   *)
(* the memory.                                                             *)
Quiet(t) ==
  /\ UNCHANGED <<merkleTree, nextLeafIndex, lost, sent>>
  /\ Others(t) /\ Pc(t)' # "idle" /\ Deck(t)' = Deck(t)
  /\ \/ /\ Pc(t) = "idle" /\ ~commitInFlight /\ commitInFlight'
        /\ Pc(t)' = IF merkleTree # NoDeck THEN "recheck" ELSE "look"
     \/ /\ Pc(t) \in {"recheck", "look"} /\ commitInFlight' = commitInFlight
        /\ Pc(t)' = (IF Pc(t) = "recheck" THEN "rechecked" ELSE "looked")
        /\ Gs(t)' = ReadSnapshot

Shuffles(t) ==
  \E deck \in Decks :
    /\ deck \notin sent \cup {merkle_root, merkleTree, hit.deck}
    /\ merkleTree' = deck /\ nextLeafIndex' = 0 /\ lost' = lost \ {deck}
    /\ UNCHANGED <<sent, commitInFlight>>
    /\ Others(t) /\ Pc(t) = "looked" /\ Pc(t)' = "proving" /\ Deck(t)' = deck

Sends(t) ==
  /\ Pc(t) = "proving" /\ Pc(t)' = "confirming" /\ Others(t) /\ Deck(t)' = Deck(t)
  /\ sent' = sent \cup {Deck(t)}
  /\ UNCHANGED <<merkleTree, nextLeafIndex, lost, commitInFlight>>

(* Nothing to do, or done.                                                 *)
LetsGo(t) ==
  /\ Released(t) /\ Pc(t) \in {"recheck", "look", "rechecked", "looked", "landed"}
  /\ UNCHANGED <<merkleTree, nextLeafIndex, lost, sent>>

(* The round of the deck in memory has ended.                              *)
Forgets(t) ==
  /\ Released(t) /\ Pc(t) = "rechecked" /\ RoundEnded(Gs(t))
  /\ merkleTree' = NoDeck /\ nextLeafIndex' = 0
  /\ UNCHANGED <<lost, sent>>

GivesUp(t) ==
  /\ Released(t) /\ Pc(t) \in {"proving", "confirming", "landed", "refused"}
  /\ merkleTree' = NoDeck /\ nextLeafIndex' = 0
  /\ lost' = lost \cup {Deck(t)}
  /\ UNCHANGED sent

TickMove(t) ==
  Quiet(t) \/ Shuffles(t) \/ Sends(t) \/ LetsGo(t) \/ Forgets(t) \/ GivesUp(t)

(* Each step of runAutoCommitTick is one of these.                         *)
LEMMA TickMoves ==
  ASSUME ChainTypeOK, TickTypeOK, NEW t \in Ticks, TickStep(t) \/ FetchFails(t) \/ CommitFails(t)
  PROVE  TickMove(t) /\ UNCHANGED chainVars /\ UNCHANGED hit
<1> USE DEF deckVars
<1>1. CASE Claim(t)
  <2>1. Quiet(t)
    BY <1>1, ClaimTick DEF Claim, Quiet
  <2> QED BY <1>1, <2>1 DEF Claim, TickMove
<1>2. CASE Fetch(t)
  <2>1. Quiet(t)
    BY <1>2, FetchTick DEF Fetch, Quiet
  <2> QED BY <1>2, <2>1 DEF Fetch, TickMove
<1>3. CASE Recheck(t)
  <2>1. Released(t) /\ Pc(t) = "rechecked"
    BY <1>3, ReleaseTick DEF Recheck, At, Pc
  <2>2. Forgets(t) \/ LetsGo(t)
    BY <1>3, <2>1 DEF Recheck, Reset, Forgets, LetsGo, Gs
  <2> QED BY <1>3, <2>2 DEF Recheck, TickMove
<1>4. CASE LookAway(t) \/ Confirm(t) \/ FetchFails(t)
  <2>1. LetsGo(t)
    BY <1>4, ReleaseTick DEF LookAway, Confirm, FetchFails, LetsGo, At, Pc
  <2> QED BY <1>4, <2>1 DEF LookAway, Confirm, FetchFails, TickMove
<1>5. CASE \E deck \in Decks : Shuffle(t, deck)
  <2>1. Shuffles(t)
    BY <1>5, ShuffleTick DEF Shuffle, Shuffles
  <2> QED BY <1>5, <2>1 DEF Shuffle, TickMove
<1>6. CASE Send(t)
  <2>1. Sends(t)
    <3>1. "confirming" \in Places
      BY DEF Places
    <3> QED BY <1>6, <3>1, GotoTick DEF Send, Sends, At, Pc, Deck
  <2> QED BY <1>6, <2>1 DEF Send, TickMove
<1>7. CASE CommitFails(t)
  <2>1. GivesUp(t)
    BY <1>7, ReleaseTick DEF CommitFails, Reset, GivesUp, At, Pc, Deck
  <2> QED BY <1>7, <2>1 DEF CommitFails, TickMove
<1> QED BY <1>1, <1>2, <1>3, <1>4, <1>5, <1>6, <1>7 DEF TickStep

(* A commit that landed, was refused or was dropped: the cluster holds it  *)
(* no longer, and its tick hears of it.                                    *)
Told(deck) ==
  /\ deck \in sent /\ sent' = sent \ {deck}
  /\ UNCHANGED <<merkleTree, nextLeafIndex, committedRoundNumber, lost, commitInFlight, hit>>
  /\ \A t \in Ticks :
       /\ Deck(t)' = Deck(t) /\ Gs(t)' = Gs(t)
       /\ Pc(t)' = Pc(t) \/ (Pc(t) = "confirming" /\ Deck(t) = deck
                             /\ Pc(t)' \in {"landed", "refused"})
  /\ \/ UNCHANGED chainVars
     \/ Chain!Commit(deck)

(* The chain goes on, or the client does: the loop stands still.           *)
Elsewhere ==
  /\ UNCHANGED <<merkleTree, lost, sent, commitInFlight>>
  /\ tick' = tick
  /\ deck_committed' => deck_committed /\ merkle_root' = merkle_root
  /\ \/ /\ nextLeafIndex' = nextLeafIndex
        /\ hit' = hit \/ hit'.pc # "hitting"
        /\ \/ deck_committed' => draw_counter' = draw_counter
           \/ /\ hit.pc = "hitting" /\ hit.deck = merkle_root
              /\ hit.leaf = draw_counter /\ draw_counter' = draw_counter + 1
     \/ /\ nextLeafIndex' = nextLeafIndex + 1
        /\ nextLeafIndex < Len(merkleTree) /\ hit.leaf = nextLeafIndex
        /\ merkleTree # NoDeck
        /\ hit' = NoHit \/ (hit'.deck = merkleTree /\ hit'.leaf = hit.leaf)
        /\ UNCHANGED chainVars

(* The service dies: only what it sent survives.                           *)
Dies ==
  /\ merkleTree' = NoDeck /\ nextLeafIndex' = 0 /\ ~commitInFlight'
  /\ lost' = lost \cup ({merkleTree} \ {NoDeck})
  /\ \A t \in Ticks : Pc(t)' = "idle" /\ Deck(t)' = NoDeck
  /\ UNCHANGED <<sent, hit>> /\ UNCHANGED chainVars

(* Whatever becomes of a commit.                                           *)
LEMMA CommitsAreTold ==
  ASSUME TickTypeOK, NEW deck \in Decks, Land(deck) \/ Refuse(deck) \/ Drop(deck)
  PROVE  Told(deck)
<1>1. PICK outcome \in {"landed", "refused"} : Notify(deck, outcome)
  BY DEF Land, Refuse, Drop
<1>2. \A t \in Ticks :
        /\ Deck(t)' = Deck(t) /\ Gs(t)' = Gs(t)
        /\ Pc(t)' = IF Pc(t) = "confirming" /\ Deck(t) = deck THEN outcome ELSE Pc(t)
  BY <1>1, NotifyTicks DEF Places
<1>3. /\ deck \in sent /\ sent' = sent \ {deck}
      /\ UNCHANGED <<merkleTree, nextLeafIndex, committedRoundNumber, lost, commitInFlight, hit>>
      /\ UNCHANGED chainVars \/ Chain!Commit(deck)
  BY DEF Land, Refuse, Drop, deckVars
<1> QED BY <1>1, <1>2, <1>3 DEF Told

(* What the rest of the world does while no tick moves.                    *)
LEMMA WorldMoves ==
  ASSUME MemoryTypeOK,
         \/ ChainStep \/ Reveal \/ HitLands \/ HitFails
         \/ \E round \in 0..MaxRounds : Ask(round)
         \/ UNCHANGED vars
  PROVE  Elsewhere
<1> USE DEF deckVars, loopVars, chainVars
<1>0. NoHit.pc = "idle"
  BY DEF NoHit
<1>1. CASE ChainStep
  <2>1. /\ deck_committed' => deck_committed /\ merkle_root' = merkle_root
        /\ deck_committed' => draw_counter' = draw_counter
    BY <1>1 DEF ChainStep, Chain!OpenSession, Chain!CloseSession, Chain!ClearSession,
                Chain!Seat, Chain!Unseat, Chain!Start, Chain!End
  <2> QED BY <1>1, <2>1 DEF ChainStep, Elsewhere
<1>2. CASE Reveal
  <2>1. /\ nextLeafIndex' = nextLeafIndex + 1
        /\ nextLeafIndex < Len(merkleTree) /\ hit.leaf = nextLeafIndex
        /\ merkleTree # NoDeck
    BY <1>2 DEF Reveal, RevealNext, Serves
  <2>2. hit' = NoHit \/ (hit'.deck = merkleTree /\ hit'.leaf = hit.leaf)
    <3>1. [hit EXCEPT !.pc = "hitting", !.deck = merkleTree].deck = merkleTree
          /\ [hit EXCEPT !.pc = "hitting", !.deck = merkleTree].leaf = hit.leaf
      BY DEF MemoryTypeOK
    <3> QED BY <1>2, <3>1 DEF Reveal
  <2>3. UNCHANGED <<merkleTree, lost, sent, commitInFlight>> /\ tick' = tick
        /\ UNCHANGED chainVars
    BY <1>2 DEF Reveal
  <2> QED BY <2>1, <2>2, <2>3 DEF Elsewhere
<1>3. CASE HitLands
  BY <1>0, <1>3 DEF HitLands, Chain!Draw, Elsewhere
<1>4. CASE HitFails
  BY <1>0, <1>4 DEF HitFails, Elsewhere
<1>5. ASSUME NEW round \in 0..MaxRounds, Ask(round)
      PROVE  Elsewhere
  <2>1. hit'.pc = "asking"
    BY <1>5 DEF Ask, NoHit
  <2> QED BY <1>5, <2>1 DEF Ask, Elsewhere
<1>6. CASE UNCHANGED vars
  BY <1>6 DEF vars, Elsewhere
<1> QED BY <1>1, <1>2, <1>3, <1>4, <1>5, <1>6

(* Every step of the system is one of these.                               *)
ServiceMove ==
  \/ \E t \in Ticks : TickMove(t) /\ UNCHANGED chainVars /\ UNCHANGED hit
  \/ \E deck \in Decks : Told(deck)
  \/ Elsewhere
  \/ Dies

(* Whatever happens, the service sees one of these.                        *)
LEMMA NextMovesService ==
  ASSUME IInv, [Next]_vars
  PROVE  ServiceMove
<1>0. ChainTypeOK /\ TickTypeOK /\ MemoryTypeOK
  BY DEF IInv
<1>1. CASE \E t \in Ticks : TickStep(t) \/ FetchFails(t) \/ CommitFails(t)
  BY <1>0, <1>1, TickMoves DEF ServiceMove
<1>2. CASE \E deck \in Decks : Land(deck) \/ Refuse(deck) \/ Drop(deck)
  BY <1>0, <1>2, CommitsAreTold DEF ServiceMove
<1>3. CASE Crash
  <2>1. Dies
    BY <1>3, CrashTicks DEF Crash, Reset, Dies
  <2> QED BY <2>1 DEF ServiceMove
<1>4. CASE \/ ChainStep \/ Reveal \/ HitLands \/ HitFails
           \/ \E round \in 0..MaxRounds : Ask(round)
           \/ UNCHANGED vars
  BY <1>0, <1>4, WorldMoves DEF ServiceMove
<1> QED BY <1>1, <1>2, <1>3, <1>4 DEF Next

-----------------------------------------------------------------------------
(* The mutex is held from a tick's claim to its release.                   *)
LEMMA NextOneTick ==
  ASSUME IInv, ServiceMove, commitInFlight' \in BOOLEAN
  PROVE  OneTickAtATime'
<1>0. /\ \A t \in Ticks : Busy(t) => commitInFlight
      /\ \A s, t \in Ticks : Busy(s) /\ Busy(t) => s = t
  BY DEF IInv, OneTickAtATime
<1>1. ASSUME NEW t \in Ticks, TickMove(t)
      PROVE  OneTickAtATime'
  <2>1. \A s \in Ticks \ {t} : Pc(s)' = Pc(s)
    BY <1>1 DEF TickMove, Quiet, Shuffles, Sends, LetsGo, Forgets, GivesUp, Released, Others, Pc
  <2>2. \/ Pc(t)' = "idle" /\ ~commitInFlight' /\ Pc(t) # "idle"
        \/ Pc(t)' # "idle" /\ Pc(t) = "idle" /\ ~commitInFlight /\ commitInFlight'
        \/ Pc(t)' # "idle" /\ Pc(t) # "idle" /\ commitInFlight' = commitInFlight
    BY <1>1 DEF TickMove, Quiet, Shuffles, Sends, LetsGo, Forgets, GivesUp, Released
  <2>3. \A s \in Ticks : Busy(s)' => commitInFlight'
    BY <1>0, <2>1, <2>2 DEF Busy
  <2>4. \A r, s \in Ticks : Busy(r)' /\ Busy(s)' => r = s
    BY <1>0, <2>1, <2>2 DEF Busy
  <2> QED BY <2>3, <2>4 DEF OneTickAtATime
<1>2. ASSUME NEW deck \in Decks, Told(deck)
      PROVE  OneTickAtATime'
  <2>1. \A t \in Ticks : Busy(t)' <=> Busy(t)
    BY <1>2 DEF Told, Busy
  <2>2. commitInFlight' = commitInFlight
    BY <1>2 DEF Told
  <2> QED BY <1>0, <2>1, <2>2 DEF OneTickAtATime
<1>3. CASE Elsewhere
  <2>1. \A t \in Ticks : Busy(t)' <=> Busy(t)
    BY <1>3 DEF Elsewhere, Busy, Pc
  <2>2. commitInFlight' = commitInFlight
    BY <1>3 DEF Elsewhere
  <2> QED BY <1>0, <2>1, <2>2 DEF OneTickAtATime
<1>4. CASE Dies
  BY <1>4 DEF Dies, OneTickAtATime, Busy
<1> QED BY <1>1, <1>2, <1>3, <1>4 DEF ServiceMove

(* A deck in memory belongs to the tick that commits it.                   *)
LEMMA NextHolds ==
  ASSUME IInv, ServiceMove
  PROVE  TicksHoldTheDeck'
<1>0. /\ TicksHoldTheDeck
      /\ \A s, t \in Ticks : Pc(s) # "idle" /\ Pc(t) # "idle" => s = t
      /\ \A t \in Ticks : Pc(t) # "idle" => commitInFlight
  BY DEF IInv, OneTickAtATime, Busy
<1>1. ASSUME NEW t \in Ticks, TickMove(t)
      PROVE  TicksHoldTheDeck'
  <2>1. \A s \in Ticks \ {t} : Pc(s)' = "idle" /\ Deck(s)' = NoDeck
    <3>1. \A s \in Ticks \ {t} : Pc(s)' = Pc(s) /\ Deck(s)' = Deck(s)
      BY <1>1 DEF TickMove, Quiet, Shuffles, Sends, LetsGo, Forgets, GivesUp, Released, Others,
                  Pc, Deck
    <3>2. \A s \in Ticks \ {t} : Pc(s) = "idle"
      BY <1>0, <1>1 DEF TickMove, Quiet, Shuffles, Sends, LetsGo, Forgets, GivesUp
    <3> QED BY <1>0, <3>1, <3>2 DEF TicksHoldTheDeck
  <2>2. /\ Pc(t)' \in {"proving", "confirming", "landed", "refused"} =>
             Deck(t)' \in Decks /\ merkleTree' = Deck(t)'
        /\ Pc(t)' \in {"idle", "recheck", "look", "rechecked", "looked"} => Deck(t)' = NoDeck
        /\ Pc(t)' \in {"look", "looked"} => merkleTree' = NoDeck
    <3>1. CASE Quiet(t)
      BY <1>0, <3>1 DEF Quiet, TicksHoldTheDeck
    <3>2. CASE Shuffles(t)
      BY <3>2 DEF Shuffles
    <3>3. CASE Sends(t)
      BY <1>0, <3>3 DEF Sends, TicksHoldTheDeck
    <3>4. CASE LetsGo(t) \/ Forgets(t) \/ GivesUp(t)
      BY <3>4 DEF LetsGo, Forgets, GivesUp, Released
    <3> QED BY <1>1, <3>1, <3>2, <3>3, <3>4 DEF TickMove
  <2> QED BY <2>1, <2>2 DEF TicksHoldTheDeck
<1>2. ASSUME NEW deck \in Decks, Told(deck)
      PROVE  TicksHoldTheDeck'
  BY <1>0, <1>2 DEF Told, TicksHoldTheDeck
<1>3. CASE Elsewhere
  BY <1>0, <1>3 DEF Elsewhere, TicksHoldTheDeck, Pc, Deck
<1>4. CASE Dies
  BY <1>4 DEF Dies, TicksHoldTheDeck
<1> QED BY <1>1, <1>2, <1>3, <1>4 DEF ServiceMove

(* A deck on its way is in memory with a tick that waits, or is given up.  *)
LEMMA NextSentKnown ==
  ASSUME IInv, ServiceMove
  PROVE  SentIsKnown'
<1>0. /\ SentIsKnown /\ TicksHoldTheDeck
      /\ \A s, t \in Ticks : Pc(s) # "idle" /\ Pc(t) # "idle" => s = t
      /\ \A t \in Ticks : Pc(t) # "idle" => commitInFlight
      /\ NoDeck \notin Decks
  BY DealerAssumption DEF IInv, OneTickAtATime, Busy
<1>1. ASSUME NEW t \in Ticks, TickMove(t)
      PROVE  SentIsKnown'
  <2>1. \A s \in Ticks \ {t} : Pc(s)' = Pc(s) /\ Pc(s) = "idle"
    BY <1>0, <1>1 DEF TickMove, Quiet, Shuffles, Sends, LetsGo, Forgets, GivesUp, Released,
                      Others, Pc
  <2>2. CASE Quiet(t) \/ LetsGo(t)
    <3>1. Pc(t) # "confirming" /\ UNCHANGED <<merkleTree, lost, sent>>
      BY <2>2 DEF Quiet, LetsGo
    <3>2. merkleTree \notin sent
      BY <1>0, <2>1, <3>1 DEF SentIsKnown
    <3> QED BY <1>0, <3>1, <3>2 DEF SentIsKnown
  <2>3. CASE Shuffles(t)
    <3>1. merkleTree \notin sent
      BY <1>0, <2>3 DEF Shuffles, TicksHoldTheDeck, SentIsKnown
    <3> QED BY <1>0, <2>3, <3>1 DEF Shuffles, SentIsKnown
  <2>4. CASE Sends(t)
    BY <1>0, <2>4 DEF Sends, SentIsKnown, TicksHoldTheDeck
  <2>5. CASE Forgets(t)
    <3>1. merkleTree \notin sent
      BY <1>0, <2>1, <2>5 DEF Forgets, SentIsKnown
    <3> QED BY <1>0, <2>5, <3>1 DEF Forgets, SentIsKnown
  <2>6. CASE GivesUp(t)
    BY <1>0, <2>6 DEF GivesUp, SentIsKnown, TicksHoldTheDeck
  <2> QED BY <1>1, <2>2, <2>3, <2>4, <2>5, <2>6 DEF TickMove
<1>2. ASSUME NEW deck \in Decks, Told(deck)
      PROVE  SentIsKnown'
  <2>1. UNCHANGED <<merkleTree, lost>> /\ sent' = sent \ {deck}
    BY <1>2 DEF Told
  <2>2. ASSUME merkleTree \in sent'
        PROVE  \E t \in Ticks : Pc(t)' = "confirming"
    <3>1. PICK t \in Ticks : Pc(t) = "confirming"
      BY <1>0, <2>1, <2>2 DEF SentIsKnown
    <3>2. Deck(t) = merkleTree /\ merkleTree # deck
      BY <1>0, <2>1, <2>2, <3>1 DEF TicksHoldTheDeck
    <3> QED BY <1>2, <3>1, <3>2 DEF Told
  <2> QED BY <1>0, <2>1, <2>2 DEF SentIsKnown
<1>3. CASE Elsewhere
  BY <1>0, <1>3 DEF Elsewhere, SentIsKnown, Pc
<1>4. CASE Dies
  BY <1>0, <1>4 DEF Dies, SentIsKnown
<1> QED BY <1>1, <1>2, <1>3, <1>4 DEF ServiceMove

(* While a tick has a snapshot of an ended round in its hands, nothing it  *)
(* could destroy is committed.                                             *)
LEMMA NextSnapshots ==
  ASSUME IInv, ServiceMove
  PROVE  SnapshotsAge'
<1>0. /\ SnapshotsAge /\ SentIsKnown
      /\ \A s, t \in Ticks : Pc(s) # "idle" /\ Pc(t) # "idle" => s = t
      /\ \A t \in Ticks : Pc(t) # "idle" => commitInFlight
  BY DEF IInv, OneTickAtATime, Busy
<1>1. ASSUME NEW t \in Ticks, TickMove(t), UNCHANGED chainVars
      PROVE  SnapshotsAge'
  <2>1. \A s \in Ticks \ {t} : Pc(s)' = "idle"
    BY <1>0, <1>1 DEF TickMove, Quiet, Shuffles, Sends, LetsGo, Forgets, GivesUp, Released,
                      Others, Pc
  <2>2. ASSUME Pc(t)' = "rechecked"
        PROVE  Gs(t)' = ReadSnapshot
    BY <1>1, <2>2 DEF TickMove, Quiet, Shuffles, Sends, LetsGo, Forgets, GivesUp, Released
  <2>3. RoundEnded(ReadSnapshot) => ~deck_committed'
    BY <1>1 DEF RoundEnded, ReadSnapshot, chainVars
  <2> QED BY <2>1, <2>2, <2>3 DEF SnapshotsAge
<1>2. ASSUME NEW deck \in Decks, Told(deck)
      PROVE  SnapshotsAge'
  <2> SUFFICES ASSUME NEW t \in Ticks, Pc(t)' = "rechecked", RoundEnded(Gs(t)'), deck_committed'
               PROVE  merkle_root' # merkleTree'
    BY DEF SnapshotsAge
  <2>1. Pc(t) = "rechecked" /\ Gs(t)' = Gs(t) /\ merkleTree' = merkleTree /\ deck \in sent
    BY <1>2 DEF Told
  <2>2. merkleTree \notin sent
    BY <1>0, <2>1 DEF SentIsKnown
  <2>3. CASE UNCHANGED chainVars
    BY <1>0, <2>1, <2>3 DEF SnapshotsAge, chainVars
  <2>4. CASE Chain!Commit(deck)
    BY <2>1, <2>2, <2>4 DEF Chain!Commit
  <2> QED BY <1>2, <2>3, <2>4 DEF Told
<1>3. CASE Elsewhere
  BY <1>0, <1>3 DEF Elsewhere, SnapshotsAge, Pc, Gs
<1>4. CASE Dies
  BY <1>4 DEF Dies, SnapshotsAge
<1> QED BY <1>1, <1>2, <1>3, <1>4 DEF ServiceMove

(* The committed deck stays in memory or is known to be lost.              *)
LEMMA NextServable ==
  ASSUME IInv, ServiceMove
  PROVE  DeckIsServable'
<1>0. /\ DeckIsServable /\ SentIsKnown /\ TicksHoldTheDeck /\ SnapshotsAge
      /\ deck_committed => merkle_root \in Decks
      /\ NoDeck \notin Decks
  BY DealerAssumption DEF IInv, ChainTypeOK
<1>1. ASSUME NEW t \in Ticks, TickMove(t), UNCHANGED chainVars
      PROVE  DeckIsServable'
  <2>0. deck_committed' = deck_committed /\ merkle_root' = merkle_root
    BY <1>1 DEF chainVars
  <2>1. CASE Quiet(t) \/ LetsGo(t) \/ Sends(t)
    BY <1>0, <2>0, <2>1 DEF Quiet, LetsGo, Sends, DeckIsServable
  <2>2. CASE Shuffles(t)
    <3>1. merkleTree = NoDeck
      BY <1>0, <2>2 DEF Shuffles, TicksHoldTheDeck
    <3> QED BY <1>0, <2>0, <2>2, <3>1 DEF Shuffles, DeckIsServable
  <2>3. CASE Forgets(t)
    BY <1>0, <2>0, <2>3 DEF Forgets, SnapshotsAge, DeckIsServable
  <2>4. CASE GivesUp(t)
    BY <1>0, <2>0, <2>4 DEF GivesUp, TicksHoldTheDeck, DeckIsServable
  <2> QED BY <1>1, <2>1, <2>2, <2>3, <2>4 DEF TickMove
<1>2. ASSUME NEW deck \in Decks, Told(deck)
      PROVE  DeckIsServable'
  <2>1. CASE UNCHANGED chainVars
    BY <1>0, <1>2, <2>1 DEF Told, chainVars, DeckIsServable
  <2>2. CASE Chain!Commit(deck)
    BY <1>0, <1>2, <2>2 DEF Told, Chain!Commit, SentIsKnown, DeckIsServable
  <2> QED BY <1>2, <2>1, <2>2 DEF Told
<1>3. CASE Elsewhere
  BY <1>0, <1>3 DEF Elsewhere, DeckIsServable
<1>4. CASE Dies
  BY <1>0, <1>4 DEF Dies, chainVars, DeckIsServable
<1> QED BY <1>1, <1>2, <1>3, <1>4 DEF ServiceMove

(* Proofs that are out belong to a card before the cursor, or to a deck    *)
(* that is gone.                                                           *)
LEMMA NextHits ==
  ASSUME IInv, ServiceMove
  PROVE  HitsAreBehind'
<1>0. /\ HitsAreBehind /\ NoDeck \notin Decks /\ nextLeafIndex \in Int
      /\ merkleTree \in Decks \cup {NoDeck}
      /\ NoHit.pc # "hitting"
  BY DealerAssumption DEF IInv, MemoryTypeOK, NoHit, NoDeck
<1>1. ASSUME NEW t \in Ticks, TickMove(t), UNCHANGED hit
      PROVE  HitsAreBehind'
  <2>1. CASE Quiet(t) \/ LetsGo(t) \/ Sends(t)
    BY <1>0, <1>1, <2>1 DEF Quiet, LetsGo, Sends, HitsAreBehind
  <2>2. CASE Shuffles(t)
    BY <1>0, <1>1, <2>2 DEF Shuffles, HitsAreBehind
  <2>3. CASE Forgets(t) \/ GivesUp(t)
    BY <1>0, <1>1, <2>3 DEF Forgets, GivesUp, HitsAreBehind
  <2> QED BY <1>1, <2>1, <2>2, <2>3 DEF TickMove
<1>2. ASSUME NEW deck \in Decks, Told(deck)
      PROVE  HitsAreBehind'
  BY <1>0, <1>2 DEF Told, HitsAreBehind
<1>3. CASE Elsewhere
  BY <1>0, <1>3 DEF Elsewhere, HitsAreBehind
<1>4. CASE Dies
  BY <1>0, <1>4 DEF Dies, HitsAreBehind
<1> QED BY <1>1, <1>2, <1>3, <1>4 DEF ServiceMove

(* A hit only draws a card whose proof is out.                             *)
LEMMA NextCursor ==
  ASSUME IInv, ServiceMove
  PROVE  CursorNotBehind'
<1>0. /\ CursorNotBehind /\ HitsAreBehind /\ NoDeck \notin Decks
      /\ nextLeafIndex \in Nat /\ draw_counter \in Nat
      /\ deck_committed => merkle_root \in Decks
  BY DealerAssumption DEF IInv, MemoryTypeOK, ChainTypeOK, NoDeck
<1>1. ASSUME NEW t \in Ticks, TickMove(t), UNCHANGED chainVars
      PROVE  CursorNotBehind'
  <2>0. UNCHANGED <<deck_committed, merkle_root, draw_counter>>
    BY <1>1 DEF chainVars
  <2>1. CASE Quiet(t) \/ LetsGo(t) \/ Sends(t)
    BY <1>0, <2>0, <2>1 DEF Quiet, LetsGo, Sends, CursorNotBehind
  <2>2. CASE Shuffles(t)
    BY <1>0, <2>0, <2>2 DEF Shuffles, CursorNotBehind
  <2>3. CASE Forgets(t) \/ GivesUp(t)
    BY <1>0, <2>0, <2>3 DEF Forgets, GivesUp, CursorNotBehind
  <2> QED BY <1>1, <2>1, <2>2, <2>3 DEF TickMove
<1>2. ASSUME NEW deck \in Decks, Told(deck)
      PROVE  CursorNotBehind'
  <2>1. CASE UNCHANGED chainVars
    BY <1>0, <1>2, <2>1 DEF Told, chainVars, CursorNotBehind
  <2>2. CASE Chain!Commit(deck)
    BY <1>0, <1>2, <2>2 DEF Told, Chain!Commit, CursorNotBehind
  <2> QED BY <1>2, <2>1, <2>2 DEF Told
<1>3. CASE Elsewhere
  <2> SUFFICES ASSUME deck_committed', merkle_root' = merkleTree'
               PROVE  draw_counter' <= nextLeafIndex'
    BY DEF CursorNotBehind
  <2>1. deck_committed /\ merkle_root = merkleTree /\ draw_counter <= nextLeafIndex
    BY <1>0, <1>3 DEF Elsewhere, CursorNotBehind
  <2>2. CASE nextLeafIndex' = nextLeafIndex + 1 /\ UNCHANGED chainVars
    BY <1>0, <2>1, <2>2 DEF chainVars
  <2>3. CASE nextLeafIndex' = nextLeafIndex /\ draw_counter' = draw_counter
    BY <2>1, <2>3
  <2>4. CASE /\ nextLeafIndex' = nextLeafIndex /\ draw_counter' = draw_counter + 1
             /\ hit.pc = "hitting" /\ hit.deck = merkle_root /\ hit.leaf = draw_counter
    <3>1. draw_counter < nextLeafIndex
      BY <1>0, <2>1, <2>4 DEF HitsAreBehind
    <3> QED BY <1>0, <2>4, <3>1
  <2> QED BY <1>3, <2>2, <2>3, <2>4 DEF Elsewhere
<1>4. CASE Dies
  BY <1>0, <1>4 DEF Dies, chainVars, CursorNotBehind
<1> QED BY <1>1, <1>2, <1>3, <1>4 DEF ServiceMove

(* The deck in memory and its cursor.                                      *)
LEMMA NextDeckType ==
  ASSUME IInv, ServiceMove
  PROVE  /\ merkleTree' \in Decks \cup {NoDeck}
         /\ nextLeafIndex' \in 0..Len(merkleTree')
         /\ lost' \subseteq Decks
<1>0. /\ merkleTree \in Decks \cup {NoDeck} /\ lost \subseteq Decks
      /\ nextLeafIndex \in 0..Len(merkleTree)
      /\ Len(NoDeck) = 0 /\ \A deck \in Decks : Len(deck) \in Nat
      /\ TicksHoldTheDeck
  BY DealerAssumption DEF IInv, MemoryTypeOK, NoDeck
<1>1. ASSUME NEW t \in Ticks, TickMove(t)
      PROVE  /\ merkleTree' \in Decks \cup {NoDeck}
             /\ nextLeafIndex' \in 0..Len(merkleTree')
             /\ lost' \subseteq Decks
  <2>1. CASE Quiet(t) \/ LetsGo(t) \/ Sends(t)
    BY <1>0, <2>1 DEF Quiet, LetsGo, Sends
  <2>2. CASE Shuffles(t)
    BY <1>0, <2>2 DEF Shuffles
  <2>3. CASE Forgets(t) \/ GivesUp(t)
    BY <1>0, <2>3 DEF Forgets, GivesUp, TicksHoldTheDeck
  <2> QED BY <1>1, <2>1, <2>2, <2>3 DEF TickMove
<1>2. CASE \E deck \in Decks : Told(deck)
  BY <1>0, <1>2 DEF Told
<1>3. CASE Elsewhere
  <2>1. Len(merkleTree) \in Nat
    BY <1>0
  <2>2. merkleTree' = merkleTree /\ lost' = lost
    BY <1>3 DEF Elsewhere
  <2>3. \/ nextLeafIndex' = nextLeafIndex
        \/ nextLeafIndex' = nextLeafIndex + 1 /\ nextLeafIndex < Len(merkleTree)
    BY <1>3 DEF Elsewhere
  <2> HIDE DEF NoDeck
  <2>4. nextLeafIndex' \in 0..Len(merkleTree)
    BY <1>0, <2>1, <2>3
  <2> QED BY <1>0, <2>2, <2>4
<1>4. CASE Dies
  BY <1>0, <1>4 DEF Dies
<1> QED BY <1>1, <1>2, <1>3, <1>4 DEF ServiceMove

(* The round the deck was committed for is one the chain has had.          *)
LEMMA NextCommittedRound ==
  ASSUME IInv, [Next]_vars
  PROVE  committedRoundNumber' \in 0..MaxRounds \cup {NoRound}
<1>0. committedRoundNumber \in 0..MaxRounds \cup {NoRound} /\ TickTypeOK
  BY DEF IInv, MemoryTypeOK
<1>1. ASSUME NEW t \in Ticks, Confirm(t)
      PROVE  committedRoundNumber' \in 0..MaxRounds
  <2>1. tick[t].gs \in Snapshot
    BY <1>0, TickFields
  <2> QED BY <1>1, <2>1 DEF Confirm, Snapshot
<1>2. CASE \/ Crash
           \/ \E t \in Ticks : Recheck(t)
  BY <1>0, <1>2 DEF Crash, Recheck
<1>3. CASE UNCHANGED committedRoundNumber
  BY <1>0, <1>3
<1>4. CASE \/ ChainStep
           \/ \E deck \in Decks : Land(deck) \/ Refuse(deck) \/ Drop(deck)
           \/ \E t \in Ticks : \/ Claim(t) \/ Fetch(t) \/ LookAway(t) \/ Send(t)
                               \/ \E deck \in Decks : Shuffle(t, deck)
                               \/ FetchFails(t) \/ CommitFails(t)
           \/ \E round \in 0..MaxRounds : Ask(round)
           \/ Reveal \/ HitLands \/ HitFails
           \/ UNCHANGED vars
  <2>1. UNCHANGED committedRoundNumber
    BY <1>4 DEF ChainStep, Land, Refuse, Drop, Claim, Fetch, LookAway, Send, Shuffle, FetchFails,
                CommitFails, Ask, Reveal, HitLands, HitFails, vars, deckVars
  <2> QED BY <1>3, <2>1
<1> QED BY <1>1, <1>2, <1>4 DEF Next, TickStep

(* What the client asked for and holds.                                    *)
HitTypeOK == hit \in [pc: {"idle", "asking", "hitting"}, round: 0..MaxRounds, leaf: Nat,
                      deck: Decks \cup {NoDeck}]

(* The client's hit.                                                       *)
LEMMA NextHitType ==
  ASSUME IInv, [Next]_vars
  PROVE  HitTypeOK'
<1>0. HitTypeOK /\ draw_counter \in Nat /\ merkleTree \in Decks \cup {NoDeck}
  BY DEF IInv, MemoryTypeOK, ChainTypeOK, HitTypeOK
<1>1. NoHit \in [pc: {"idle", "asking", "hitting"}, round: 0..MaxRounds, leaf: Nat,
                 deck: Decks \cup {NoDeck}]
  BY DealerAssumption DEF NoHit
<1>2. ASSUME NEW round \in 0..MaxRounds, Ask(round)
      PROVE  HitTypeOK'
  <2>1. [NoHit EXCEPT !.pc = "asking", !.round = round, !.leaf = draw_counter]
          \in [pc: {"idle", "asking", "hitting"}, round: 0..MaxRounds, leaf: Nat,
               deck: Decks \cup {NoDeck}]
    BY <1>0, <1>1
  <2> QED BY <1>2, <2>1 DEF Ask, HitTypeOK
<1>3. CASE Reveal
  <2>1. [hit EXCEPT !.pc = "hitting", !.deck = merkleTree]
          \in [pc: {"idle", "asking", "hitting"}, round: 0..MaxRounds, leaf: Nat,
               deck: Decks \cup {NoDeck}]
    BY <1>0 DEF HitTypeOK
  <2> QED BY <1>1, <1>3, <2>1 DEF Reveal, HitTypeOK
<1>4. CASE HitLands \/ HitFails
  BY <1>1, <1>4 DEF HitLands, HitFails, HitTypeOK
<1>5. CASE \/ ChainStep
           \/ \E deck \in Decks : Land(deck) \/ Refuse(deck) \/ Drop(deck)
           \/ \E t \in Ticks : TickStep(t) \/ FetchFails(t) \/ CommitFails(t)
           \/ Crash
           \/ UNCHANGED vars
  <2>1. UNCHANGED hit
    BY <1>5 DEF ChainStep, Land, Refuse, Drop, TickStep, Claim, Fetch, Recheck, LookAway, Send,
                Shuffle, Confirm, FetchFails, CommitFails, Crash, vars
  <2> QED BY <1>0, <2>1 DEF HitTypeOK
<1> QED BY <1>2, <1>3, <1>4, <1>5 DEF Next

(* Failures and restarts stay within their bounds.                         *)
LEMMA NextBounds ==
  ASSUME IInv, [Next]_vars
  PROVE  failures' \in 0..MaxFailures /\ restarts' \in 0..MaxRestarts
<1>0. failures \in 0..MaxFailures /\ restarts \in 0..MaxRestarts
      /\ MaxFailures \in Nat /\ MaxRestarts \in Nat
  BY DealerAssumption DEF IInv, MemoryTypeOK
<1>1. Fail \/ Crash \/ UNCHANGED boundVars
  BY DEF Next, ChainStep, Land, Refuse, Drop, TickStep, Claim, Fetch, Recheck, LookAway, Send,
         Shuffle, Confirm, FetchFails, CommitFails, Ask, Reveal, HitLands, HitFails, vars
<1> QED BY <1>0, <1>1 DEF Fail, Crash, boundVars

(* The mutex is a flag.                                                    *)
LEMMA NextMutexType ==
  ASSUME IInv, [Next]_vars
  PROVE  commitInFlight' \in BOOLEAN
<1>0. commitInFlight \in BOOLEAN
  BY DEF IInv, OneTickAtATime
<1>1. commitInFlight' = TRUE \/ commitInFlight' = FALSE \/ commitInFlight' = commitInFlight
  BY DEF Next, ChainStep, Land, Refuse, Drop, TickStep, Claim, Fetch, Recheck, LookAway, Send,
         Shuffle, Confirm, FetchFails, CommitFails, Release, Crash, Ask, Reveal, HitLands,
         HitFails, vars, loopVars
<1> QED BY <1>0, <1>1

-----------------------------------------------------------------------------
(* Nothing is committed, in memory or on its way at the start.             *)
LEMMA InitInv ==
  ASSUME Init
  PROVE  IInv
<1> USE DealerAssumption
<1>1. ChainTypeOK
  <2>1. session_exists \in BOOLEAN /\ round_active \in BOOLEAN /\ deck_committed \in BOOLEAN
    BY DEF Init, Chain!Init
  <2> QED BY <2>1 DEF Init, Chain!Init, ChainTypeOK, NoDeck
<1>2. /\ TickTypeOK
      /\ \A t \in Ticks : Pc(t) = "idle" /\ Deck(t) = NoDeck
  <2>1. /\ IdleTick \in [pc: Places, gs: Snapshot, deck: Decks \cup {NoDeck}]
        /\ IdleTick.pc = "idle" /\ IdleTick.deck = NoDeck
    <3>1. NoSnapshot \in Snapshot
      BY DEF NoSnapshot, Snapshot
    <3> QED BY <3>1 DEF IdleTick, Places
  <2> QED BY <2>1 DEF Init, TickTypeOK, Pc, Deck
<1>3. MemoryTypeOK
  <2>1. NoHit \in [pc: {"idle", "asking", "hitting"}, round: 0..MaxRounds, leaf: Nat,
                   deck: Decks \cup {NoDeck}]
    BY DEF NoHit
  <2> QED BY <2>1 DEF Init, MemoryTypeOK, NoDeck
<1>4. OneTickAtATime
  <2>1. commitInFlight \in BOOLEAN
    BY DEF Init
  <2> QED BY <1>2, <2>1 DEF OneTickAtATime, Busy
<1>5. TicksHoldTheDeck /\ SentIsKnown /\ SnapshotsAge
  BY <1>2 DEF Init, TicksHoldTheDeck, SentIsKnown, SnapshotsAge
<1>6. DeckIsServable /\ CursorNotBehind
  BY DEF Init, Chain!Init, DeckIsServable, CursorNotBehind
<1>7. HitsAreBehind
  BY DEF Init, NoHit, HitsAreBehind
<1> QED BY <1>1, <1>2, <1>3, <1>4, <1>5, <1>6, <1>7 DEF IInv

(* Every step keeps the inductive invariant.                               *)
LEMMA NextInv ==
  ASSUME IInv, [Next]_vars
  PROVE  IInv'
<1>1. ChainMove /\ ServiceMove
  BY NextMovesChain, NextMovesService
<1>2. ChainTypeOK' /\ TickTypeOK'
  BY <1>1, NextChainType, NextTickType
<1>3. MemoryTypeOK'
  BY <1>1, NextDeckType, NextCommittedRound, NextHitType, NextBounds
     DEF MemoryTypeOK, HitTypeOK
<1>4. OneTickAtATime' /\ TicksHoldTheDeck' /\ SentIsKnown' /\ SnapshotsAge'
  BY <1>1, NextMutexType, NextOneTick, NextHolds, NextSentKnown, NextSnapshots
<1>5. DeckIsServable' /\ HitsAreBehind' /\ CursorNotBehind'
  BY <1>1, NextServable, NextHits, NextCursor
<1> QED BY <1>2, <1>3, <1>4, <1>5 DEF IInv

(* The inductive invariant behind the theorems below.                      *)
LEMMA AlwaysInv == Spec => []IInv
<1>1. Init => IInv
  BY InitInv
<1>2. IInv /\ [Next]_vars => IInv'
  BY NextInv
<1> QED BY <1>1, <1>2, PTL DEF Spec

(* The service's memory and the transactions under way keep their types,   *)
(* and the cursor stays inside the deck in memory.                         *)
THEOREM ServiceTyped == Spec => []TypeOK
<1>1. IInv => TypeOK
  BY TickFields DEF IInv, MemoryTypeOK, OneTickAtATime, SentIsKnown, TypeOK, Pc, Deck
<1> QED BY <1>1, AlwaysInv, PTL

(* No tick resets or reshuffles the deck the chain waits on, however old   *)
(* the snapshot it acts on: only a failed commit or a restart loses it.    *)
THEOREM CommittedDeckIsServable == Spec => []DeckIsServable
<1>1. IInv => DeckIsServable
  BY DEF IInv
<1> QED BY <1>1, AlwaysInv, PTL

(* Overlapping ticks never shuffle or commit side by side.                 *)
THEOREM CommitsAreExclusive == Spec => []OneCommitAtATime
<1>1. IInv => OneCommitAtATime
  <2> SUFFICES ASSUME IInv, NEW t \in Ticks, Pc(t) \notin {"idle", "recheck", "look"}
               PROVE  /\ commitInFlight
                      /\ Deck(t) # NoDeck => merkleTree = Deck(t)
                      /\ \A s \in Ticks \ {t} : Pc(s) = "idle"
    BY DEF OneCommitAtATime, Pc, Deck
  <2>1. Pc(t) \in Places
    BY TickFields DEF IInv
  <2> QED BY <2>1 DEF IInv, OneTickAtATime, TicksHoldTheDeck, Busy, Places
<1> QED BY <1>1, AlwaysInv, PTL

(* The chain never deals past the dealer, whatever answers are lost.       *)
THEOREM CursorIsAhead == Spec => []CursorNotBehind
<1>1. IInv => CursorNotBehind
  BY DEF IInv
<1> QED BY <1>1, AlwaysInv, PTL

(* Also under a dealer whose commits may land after it gave them up, a     *)
(* deck stays committed until its round is over and is drawn card by card. *)
THEOREM DecksAreDealtInOrder == Spec => DealtInOrder
<1> DEFINE Move == deck_committed /\ deck_committed' =>
       /\ merkle_root' = merkle_root
       /\ draw_counter' \in {draw_counter, draw_counter + 1}
       /\ draw_counter' # draw_counter => round_active /\ round_active'
<1>1. [Next]_vars => Move
  <2> SUFFICES ASSUME [Next]_vars, deck_committed, deck_committed'
               PROVE  /\ merkle_root' = merkle_root
                      /\ draw_counter' \in {draw_counter, draw_counter + 1}
                      /\ draw_counter' # draw_counter => round_active /\ round_active'
    OBVIOUS
  <2>1. ChainMove
    BY NextMovesChain
  <2> QED
    BY <2>1 DEF ChainMove, Chain!OpenSession, Chain!CloseSession, Chain!ClearSession, Chain!Seat,
                Chain!Unseat, Chain!Start, Chain!End, Chain!Commit, Chain!Draw, chainVars
<1>2. [Next]_vars => [Move]_Chain!roundVars
  BY <1>1
<1> QED BY <1>2, PTL DEF Spec, DealtInOrder, Chain!DealtInOrder
=============================================================================
