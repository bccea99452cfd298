------------------------------ MODULE EventFeed ------------------------------
(***************************************************************************)
(* The event feed: a subscription to the program's logs and one look back  *)
(* at the game's recent transactions, merged into one list by event id.    *)
(*                                                                         *)
(* A transaction's lines are parsed into events in module Events; here a   *)
(* transaction is its slot, its number of events and whether it failed,    *)
(* and an event is its transaction's place on the chain and its line.      *)
(* Both sources are taken to be one node; toasts are left out, and so is   *)
(* clear, which the hook offers and nothing calls.                         *)
(***************************************************************************)
EXTENDS Integers, Sequences, FiniteSets, SequencesExt

CONSTANTS
  SignatureLimit,     \* BACKFILL_SIGNATURE_LIMIT
  TransactionBatch,   \* BACKFILL_TRANSACTION_BATCH
  MaxEvents,          \* MAX_EVENTS
  MaxTxs,             \* bound on the transactions of the game
  MaxMounts           \* bound on the times the page is opened

ASSUME FeedAssumption ==
  /\ SignatureLimit \in Nat \ {0} /\ TransactionBatch \in Nat \ {0}
  /\ MaxEvents \in Nat \ {0}

VARIABLES
  ledger,       \* the game's transactions, in order
  live,         \* the subscription: its state and the last transaction delivered
  backfill,     \* the look back: its state, its first transaction, what is left, what it lost
  held,         \* eventsById
  shown,        \* the rows
  mounts        \* how often the page was opened

feedVars == <<ledger, live, backfill, held, shown, mounts>>

TxEvents(t) == IF ledger[t].ok THEN {[tx |-> t, line |-> l] : l \in 1..ledger[t].lines} ELSE {}

(* byRecency: the newest slot first and, within a slot, the highest line.  *)
Newer(a, b) ==
  \/ ledger[a.tx].slot > ledger[b.tx].slot
  \/ ledger[a.tx].slot = ledger[b.tx].slot /\ a.line > b.line

(* The rows for a set of events; events that compare equal go in any order.*)
Newest(events) ==
  {rows \in SUBSET events :
     /\ Cardinality(rows) <= MaxEvents
     /\ Cardinality(rows) < MaxEvents => rows = events
     /\ \A row \in rows, cut \in events \ rows : ~Newer(cut, row)}

insertEvents(events) ==
  /\ held' = held \cup events
  /\ IF events \subseteq held THEN UNCHANGED shown ELSE shown' \in Newest(held')

-----------------------------------------------------------------------------
Transact ==
  /\ Len(ledger) < MaxTxs
  /\ \E ok \in BOOLEAN, lines \in 1..2, later \in 0..1 :
       ledger' = Append(ledger,
         [ok |-> ok, lines |-> lines,
          slot |-> later + (IF ledger = << >> THEN 0 ELSE Last(ledger).slot)])
  /\ UNCHANGED <<live, backfill, held, shown, mounts>>

OpenSubscription ==
  /\ live.state = "opening"
  /\ live' = [state |-> "open", cursor |-> Len(ledger)]
  /\ UNCHANGED <<ledger, backfill, held, shown, mounts>>

(* Logged, and never opened again.                                         *)
LoseSubscription ==
  /\ \/ live.state = "opening" /\ live' = [live EXCEPT !.state = "refused"]
     \/ live.state = "open" /\ live' = [live EXCEPT !.state = "dropped"]
  /\ UNCHANGED <<ledger, backfill, held, shown, mounts>>

drainSubscription ==
  /\ live.state = "open" /\ live.cursor < Len(ledger)
  /\ live' = [live EXCEPT !.cursor = @ + 1]
  /\ insertEvents(TxEvents(live.cursor + 1))
  /\ UNCHANGED <<ledger, backfill, mounts>>

(* The look back starts when the subscription is open, and only then.      *)
MayListAtOnce == TRUE      \* mutant: side by side
MayList == live.state \in {"open", "dropped"}

(* The newest signatures, with the failed transactions taken out after.    *)
ListSignatures ==
  /\ backfill.state = "waiting" /\ MayList
  /\ LET from == IF Len(ledger) > SignatureLimit THEN Len(ledger) - SignatureLimit + 1 ELSE 1 IN
     backfill' = [backfill EXCEPT !.state = "reading", !.from = from,
                                  !.todo = {t \in from..Len(ledger) : ledger[t].ok}]
  /\ UNCHANGED <<ledger, live, held, shown, mounts>>

ListFails ==
  /\ backfill.state = "waiting" /\ MayList
  /\ backfill' = [backfill EXCEPT !.state = "failed"]
  /\ UNCHANGED <<ledger, live, held, shown, mounts>>

(* The newest of what is left.                                             *)
NextBatch ==
  {t \in backfill.todo : Cardinality({u \in backfill.todo : u > t}) < TransactionBatch}

(* A transaction the node does not give is skipped.                        *)
ReadBatch ==
  /\ backfill.state = "reading" /\ backfill.todo # {}
  /\ \E rejected \in SUBSET NextBatch :
       /\ insertEvents(UNION {TxEvents(t) : t \in NextBatch \ rejected})
       /\ backfill' = [backfill EXCEPT !.todo = @ \ NextBatch, !.lost = @ \cup rejected]
  /\ UNCHANGED <<ledger, live, mounts>>

FinishBackfill ==
  /\ backfill.state = "reading" /\ backfill.todo = {}
  /\ backfill' = [backfill EXCEPT !.state = "done"]
  /\ UNCHANGED <<ledger, live, held, shown, mounts>>

(* A page that is left aborts both sources; the next starts from nothing.  *)
Opening == [state |-> "opening", cursor |-> 0]
Waiting == [state |-> "waiting", from |-> 1, todo |-> {}, lost |-> {}]
Remount ==
  /\ mounts < MaxMounts
  /\ mounts' = mounts + 1
  /\ live' = Opening /\ backfill' = Waiting
  /\ held' = {} /\ shown' = {}
  /\ UNCHANGED ledger

-----------------------------------------------------------------------------
FeedInit ==
  /\ ledger = << >> /\ live = Opening /\ backfill = Waiting
  /\ held = {} /\ shown = {} /\ mounts = 1

FeedNext ==
  \/ Transact \/ OpenSubscription \/ LoseSubscription \/ drainSubscription
  \/ ListSignatures \/ ListFails \/ ReadBatch \/ FinishBackfill \/ Remount

FeedSpec == FeedInit /\ [][FeedNext]_feedVars

-----------------------------------------------------------------------------
(* use-game-events.ts:21-26, "Opening in reverse would leave a silent gap":*)
(* with the subscription alive and drained and no read refused, the feed   *)
(* holds every event of the transactions it looked back to and of all that *)
(* came after, whatever the two sources overlapped, and what it does not   *)
(* show is not newer than what it shows.                                   *)
CaughtUp ==
  /\ live.state = "open" /\ live.cursor = Len(ledger)
  /\ backfill.state = "done" /\ backfill.lost = {}
FeedMissesNothing ==
  CaughtUp =>
    /\ UNION {TxEvents(t) : t \in backfill.from..Len(ledger)} \subseteq held
    /\ Cardinality(shown) = IF Cardinality(held) < MaxEvents THEN Cardinality(held) ELSE MaxEvents
    /\ \A row \in shown, hidden \in held \ shown : ~Newer(hidden, row)
=============================================================================
