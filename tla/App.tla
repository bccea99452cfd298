--------------------------------- MODULE App ---------------------------------
(***************************************************************************)
(* The app in one browser: the accounts it keeps in its query cache, the   *)
(* buttons it derives from them and the actions behind the buttons, from   *)
(* the press to the toast, with the wallet, the RPC node and the chain.    *)
(*                                                                         *)
(* An account is read once and then followed through a subscription; both  *)
(* write the same cache entry.  The three hooks that do this have the same *)
(* code and are taken as one, with the wallet the player's hook depends    *)
(* on.  A transaction may land after the app gave it up.                   *)
(***************************************************************************)
EXTENDS Integers, Sequences, FiniteSets, SequencesExt

CONSTANTS
  MaxMoves,     \* bound on what happens on the chain
  MaxActs,      \* bound on the buttons pressed
  MaxCards      \* bound on the cards drawn

Kinds == {"join", "hit", "stay", "second_chance", "scry"}
NotYet == 0     \* a version that does not exist
NoFetch == -1
Closed == -1
Dropped == -2

VARIABLES
  history,      \* the chain's states, as far as the wallet's buttons tell them apart
  query,        \* the cache entry, its fetch and its subscription
  connected,    \* the wallet is connected
  acts,         \* the actions started, in order
  mounted,      \* the action the mounted components wait for, or 0
  promised      \* the version at the end of the last action on a shown account

appVars == <<history, query, connected, acts, mounted, promised>>

Version == Len(history)
Chain == history[Version]

-----------------------------------------------------------------------------
(* What the program does with the instructions of this wallet.  The rest   *)
(* of the game is the others' moves.  A moment is whose turn it is (none   *)
(* between rounds), the wallet's seat and what it has used, the cards      *)
(* drawn, the rounds started, and how often the wallet left.               *)

MyTurn(c) == c.turn = "me"

(* Mutant: a wallet that joined, recovered or scried may do so again.      *)
AcceptsAgain(c, act) ==
  CASE act.kind = "join" -> c.turn = "none"
    [] act.kind \in {"hit", "stay"} -> MyTurn(c) /\ c.me = "active"
    [] act.kind = "second_chance" -> c.turn # "none"
    [] act.kind = "scry" -> MyTurn(c) /\ c.me = "active"

(* Only a hit names its round, by the proof for that round's deck.         *)
Accepts(c, act) ==
  CASE act.kind = "join" -> c.me = "out" /\ c.turn = "none"
    [] act.kind = "hit" ->
         MyTurn(c) /\ c.me = "active" /\ act.round = c.round /\ act.leaf = c.drawn
    [] act.kind = "stay" -> MyTurn(c) /\ c.me = "active"
    [] act.kind = "second_chance" -> c.turn # "none" /\ c.me = "bust" /\ ~c.second_chance
    [] act.kind = "scry" -> MyTurn(c) /\ c.me = "active" /\ ~c.scry

(* The turn moves on when a draw busts and when a player stays.            *)
Effects(c, kind) ==
  CASE kind = "join" -> {[c EXCEPT !.me = "seated"]}
    [] kind = "hit" ->
         {[c EXCEPT !.drawn = @ + 1],
          [c EXCEPT !.drawn = @ + 1, !.turn = "other", !.me = "bust"]}
    [] kind = "stay" -> {[c EXCEPT !.turn = "other", !.me = "stayed"]}
    [] kind = "second_chance" -> {[c EXCEPT !.me = "active", !.second_chance = TRUE]}
    [] kind = "scry" -> {[c EXCEPT !.scry = TRUE]}

(* Another player hits, busts or stays.                                    *)
OthersPlay(c) ==
  IF c.turn # "other" THEN {}
  ELSE {[c EXCEPT !.turn = t] : t \in {"me", "other"}}
       \cup {[c EXCEPT !.turn = t, !.drawn = @ + 1] :
                t \in IF c.drawn < MaxCards THEN {"me", "other"} ELSE {}}

(* A new round brings every seated wallet back and forgets what it used.   *)
StartRound(c) ==
  IF c.turn # "none" THEN {}
  ELSE IF c.me = "out" THEN {[c EXCEPT !.turn = "other", !.drawn = 0, !.round = @ + 1]}
  ELSE {[turn |-> t, me |-> "active", second_chance |-> FALSE, scry |-> FALSE, drawn |-> 0,
         round |-> c.round + 1, left |-> c.left] : t \in {"me", "other"}}

EndRound(c) ==
  IF c.turn = "none" \/ c.me = "active" THEN {}
  ELSE {[c EXCEPT !.turn = "none", !.drawn = 0]}

(* The wallet leaves through another client: in a round it forfeits, and   *)
(* may be brought back, between rounds its account is closed.              *)
LeaveElsewhere(c) ==
  IF c.me = "out" THEN {}
  ELSE IF c.turn # "none" THEN {[c EXCEPT !.me = "bust", !.left = @ + 1]}
  ELSE {[c EXCEPT !.me = "out", !.second_chance = FALSE, !.scry = FALSE, !.left = @ + 1]}

OthersMove ==
  /\ Version < MaxMoves
  /\ \E c \in OthersPlay(Chain) \cup StartRound(Chain) \cup EndRound(Chain)
              \cup LeaveElsewhere(Chain) :
       history' = Append(history, c)
  /\ UNCHANGED <<query, connected, acts, mounted, promised>>

-----------------------------------------------------------------------------
(* The query cache.  cached is the version of the account it holds, fetch  *)
(* the read under way (0 before the node answers, then the version it read)*)
(* and sub the last version the subscription delivered.                    *)

ReadAccount ==
  /\ query.fetch = NotYet
  /\ query' = [query EXCEPT !.fetch = Version]
  /\ UNCHANGED <<history, connected, acts, mounted, promised>>

StoreAnswer ==
  /\ query.fetch > NotYet
  /\ query' = [query EXCEPT !.cached = query.fetch, !.fetch = NoFetch, !.failed = FALSE]
  /\ UNCHANGED <<history, connected, acts, mounted, promised>>

FetchFails ==
  /\ query.fetch # NoFetch
  /\ query' = [query EXCEPT !.fetch = NoFetch, !.failed = TRUE]
  /\ UNCHANGED <<history, connected, acts, mounted, promised>>

(* The retry button, and a browser that is online again.                   *)
Refetch ==
  /\ query.failed /\ query.fetch = NoFetch /\ connected
  /\ query' = [query EXCEPT !.fetch = NotYet]
  /\ UNCHANGED <<history, connected, acts, mounted, promised>>

(* The first answer gives the address to subscribe to.  What happens       *)
(* before the subscription is open is not delivered.                       *)
Subscribe ==
  /\ query.sub = Closed /\ query.cached # NotYet /\ connected
  /\ query' = [query EXCEPT !.sub = Version]
  /\ UNCHANGED <<history, connected, acts, mounted, promised>>

Notify ==
  /\ query.sub > NotYet /\ query.sub < Version
  /\ query' = [query EXCEPT !.sub = @ + 1, !.cached = query.sub + 1]
  /\ UNCHANGED <<history, connected, acts, mounted, promised>>

(* A dropped subscription is logged and never opened again.                *)
DropSubscription ==
  /\ query.sub > NotYet
  /\ query' = [query EXCEPT !.sub = Dropped]
  /\ UNCHANGED <<history, connected, acts, mounted, promised>>

(* Mutant: a read that is under way counts as the new one.                 *)
invalidateIfIdle ==
  query' = IF connected THEN [query EXCEPT !.fetch = IF @ = NoFetch THEN NotYet ELSE @]
           ELSE [query EXCEPT !.stale = TRUE]

(* Entries nobody shows are marked stale and read again when they are; a   *)
(* read under way is started over, unless it is the entry's first.         *)
invalidateGameAndPlayer ==
  query' = IF ~connected THEN [query EXCEPT !.stale = TRUE]
           ELSE IF query.cached = NotYet /\ query.fetch # NoFetch THEN query
           ELSE [query EXCEPT !.fetch = NotYet]

Disconnect ==
  /\ connected /\ connected' = FALSE
  /\ mounted' = 0
  /\ query' = [query EXCEPT !.sub = Closed]
  /\ promised' = NotYet
  /\ UNCHANGED <<history, acts>>

(* Within 30 seconds the entry counts as fresh and is not read again,      *)
(* after a minute it is gone.                                              *)
Connect ==
  /\ ~connected /\ connected' = TRUE
  /\ \/ /\ ~query.stale /\ query.cached # NotYet
        /\ UNCHANGED query
     \/ \E kept \in {query.cached, NotYet} :
          query' = [query EXCEPT !.cached = kept, !.stale = FALSE, !.fetch = NotYet]
  /\ UNCHANGED <<history, acts, mounted, promised>>

-----------------------------------------------------------------------------
(* The buttons.                                                            *)

Shown == history[query.cached]

(* Clicking is refused while the components wait for an earlier click.     *)
CanPress(kind) ==
  /\ connected /\ mounted = 0 /\ query.cached # NotYet
  /\ CASE kind = "join" -> Shown.me = "out"
       [] kind \in {"hit", "stay"} -> Shown.turn = "me" /\ Shown.me = "active"
       [] kind = "second_chance" -> Shown.me = "bust" /\ ~Shown.second_chance
       [] kind = "scry" -> Shown.turn = "me" /\ Shown.me = "active" /\ ~Shown.scry

Press(kind) ==
  /\ Len(acts) < MaxActs /\ CanPress(kind)
  /\ acts' = Append(acts, [kind |-> kind, pc |-> "building", leaf |-> 0, round |-> 0,
                          left |-> 0, tx |-> "none"])
  /\ mounted' = Len(acts) + 1
  /\ UNCHANGED <<history, query, connected, promised>>

-----------------------------------------------------------------------------
(* The action behind a button.                                             *)

Proceed(i, pc) ==
  /\ acts' = [acts EXCEPT ![i].pc = pc]
  /\ UNCHANGED <<history, query, connected, mounted, promised>>

(* A toast, and a cache that is not trusted any more, however it ended.    *)
Finish(i, pc) ==
  /\ acts' = [acts EXCEPT ![i].pc = pc]
  /\ mounted' = IF mounted = i THEN 0 ELSE mounted
  /\ invalidateGameAndPlayer
  /\ promised' = IF connected /\ query.cached # NotYet THEN Version ELSE promised
  /\ UNCHANGED <<history, connected>>

(* A hit reads the chain itself, not the cache.                            *)
Build(i) ==
  /\ acts[i].pc = "building"
  /\ IF acts[i].kind # "hit" THEN Proceed(i, "simulating")
     ELSE /\ Chain.turn # "none"
          /\ acts' = [acts EXCEPT ![i].pc = "dealing", ![i].leaf = Chain.drawn]
          /\ UNCHANGED <<history, query, connected, mounted, promised>>

(* The dealer answers from the deck it holds then, which between rounds    *)
(* may be the next one's.                                                  *)
fetchDealerReveal(i) ==
  /\ acts[i].pc = "dealing"
  /\ \E ahead \in IF Chain.turn = "none" THEN {0, 1} ELSE {0} :
       acts' = [acts EXCEPT ![i].pc = "simulating", ![i].round = Chain.round + ahead]
  /\ UNCHANGED <<history, query, connected, mounted, promised>>

(* A node that does not answer lets the transaction through.               *)
preSimulateTransaction(i) == acts[i].pc = "simulating" /\ Proceed(i, "signing")

walletSignTransaction(i) ==
  /\ acts[i].pc = "signing"
  /\ acts' = [acts EXCEPT ![i].pc = "sent", ![i].tx = "flying"]
  /\ UNCHANGED <<history, query, connected, mounted, promised>>

(* No round, no blockhash, no card, a program that refuses the simulation, *)
(* a wallet that refuses to sign or signs something else.                  *)
Fail(i) ==
  /\ acts[i].pc \in {"building", "dealing", "simulating", "signing"}
  /\ Finish(i, "failed")

Confirm(i) == acts[i].pc = "sent" /\ acts[i].tx = "landed" /\ Finish(i, "confirmed")

(* 45 seconds, a node that goes away, or a transaction that is refused.    *)
GiveUp(i) == acts[i].pc = "sent" /\ Finish(i, "unknown")

(* The round it landed in and the seat it found are history variables.     *)
Land(i) ==
  /\ acts[i].tx = "flying" /\ Version < MaxMoves
  /\ Accepts(Chain, acts[i])
  /\ \E c \in Effects(Chain, acts[i].kind) : history' = Append(history, c)
  /\ acts' = [acts EXCEPT ![i].tx = "landed", ![i].round = Chain.round, ![i].left = Chain.left]
  /\ UNCHANGED <<query, connected, mounted, promised>>

Expire(i) ==
  /\ acts[i].tx = "flying"
  /\ acts' = [acts EXCEPT ![i].tx = "expired"]
  /\ UNCHANGED <<history, query, connected, mounted, promised>>

-----------------------------------------------------------------------------
Seats == {[turn |-> "none", me |-> "out"], [turn |-> "me", me |-> "active"],
          [turn |-> "other", me |-> "bust"]}

AppInit ==
  /\ \E s \in Seats :
       history = <<[turn |-> s.turn, me |-> s.me, second_chance |-> FALSE, scry |-> FALSE,
                    drawn |-> 0, round |-> 0, left |-> 0]>>
  /\ connected = TRUE /\ acts = << >> /\ mounted = 0
  /\ promised = NotYet
  /\ query = [cached |-> NotYet, fetch |-> NotYet, sub |-> Closed, failed |-> FALSE,
              stale |-> FALSE]

AppNext ==
  \/ OthersMove \/ Connect \/ Disconnect
  \/ ReadAccount \/ StoreAnswer \/ FetchFails \/ Refetch
  \/ Subscribe \/ Notify \/ DropSubscription
  \/ \E kind \in Kinds : Press(kind)
  \/ \E i \in DOMAIN acts :
       \/ Build(i) \/ fetchDealerReveal(i) \/ preSimulateTransaction(i)
       \/ walletSignTransaction(i) \/ Fail(i) \/ Confirm(i) \/ GiveUp(i)
       \/ Land(i) \/ Expire(i)

AppSpec == AppInit /\ [][AppNext]_appVars

-----------------------------------------------------------------------------
AppTypeOK ==
  /\ history \in Seq([turn : {"none", "me", "other"},
                      me : {"out", "seated", "active", "bust", "stayed"},
                      second_chance : BOOLEAN, scry : BOOLEAN, drawn : Nat, round : Nat,
                      left : Nat])
  /\ query \in [cached : 0..Version, fetch : NoFetch..Version, sub : Dropped..Version,
                failed : BOOLEAN, stale : BOOLEAN]
  /\ promised \in 0..Version /\ connected \in BOOLEAN /\ mounted \in 0..Len(acts)
  /\ \A i \in DOMAIN acts :
       acts[i].pc \in {"building", "dealing", "simulating", "signing", "sent", "failed",
                       "confirmed", "unknown"}

(* use-game-actions.ts:376-380, for a player who presses again after a     *)
(* timeout, a lost answer or a reconnect that forgot the pending action,   *)
(* with both transactions on their way: a seat is staked for once, a round *)
(* takes one peek and one second chance, a hand stays once unless it was   *)
(* forfeited and brought back, and no card of a deck is drawn twice.  A    *)
(* transaction given up in one round may still land in the next.           *)
SamePurchase(a, b) ==
  CASE a.kind = "join" -> a.left = b.left
    [] a.kind = "hit" -> a.round = b.round /\ a.leaf = b.leaf
    [] a.kind = "stay" -> a.round = b.round /\ a.left = b.left
    [] a.kind \in {"second_chance", "scry"} -> a.round = b.round
NothingIsPaidTwice ==
  \A i, j \in DOMAIN acts :
    i # j /\ acts[i].tx = "landed" /\ acts[j].tx = "landed" /\ acts[i].kind = acts[j].kind =>
      ~SamePurchase(acts[i], acts[j])

(* use-game-actions.ts:371-376, "The client cache is no longer             *)
(* trustworthy, so we refresh it regardless of outcome": when the reads    *)
(* and the notifications under way are in, an open account is shown at     *)
(* least as it was when the last action ended.                             *)
Settled ==
  /\ query.fetch = NoFetch /\ ~query.failed /\ ~query.stale
  /\ query.sub \in {Closed, Version} /\ connected
ActionsLeaveFreshCache ==
  Settled /\ query.cached # NotYet => query.cached >= promised

(* use-game-session.ts:77, "The subscription's job from then on is to keep *)
(* the cache fresh": with an open subscription and nothing on its way the  *)
(* cache holds what the chain holds.                                       *)
SubscriptionKeepsCacheFresh ==
  Settled /\ query.sub = Version => query.cached = Version
=============================================================================
