------------------------------- MODULE Events -------------------------------
(***************************************************************************)
(* The log lines the program emits, the client's parser and the sentences  *)
(* of the event feed.                                                      *)
(*                                                                         *)
(* A line has the prefix it was logged with, a kind and a list of segments *)
(* key=value; a value is known by its type.                                *)
(***************************************************************************)
EXTENDS Naturals, Sequences, SequencesExt

(* What each instruction logs when it succeeds, in this order.             *)
EventFields ==
  [initialize |-> <<<<"authority", "hex">>, <<"game_id", "u64">>, <<"fee_bps", "u16">>>>,
   init_vault |-> <<<<"game_id", "u64">>, <<"vault", "hex">>>>,
   join_round |-> <<<<"player", "hex">>, <<"game_id", "u64">>, <<"stake", "u64">>,
                    <<"player_count", "u8">>>>,
   commit_deck |-> <<<<"game_id", "u64">>, <<"round", "u64">>, <<"merkle_root", "hex">>>>,
   start_round |-> <<<<"game_id", "u64">>, <<"round", "u64">>, <<"player_count", "u8">>>>,
   hit |-> <<<<"player", "hex">>, <<"game_id", "u64">>, <<"round", "u64">>,
             <<"card_type", "u8">>, <<"value", "u8">>, <<"suit", "u8">>, <<"bust", "bool">>>>,
   stay |-> <<<<"player", "hex">>, <<"game_id", "u64">>, <<"round", "u64">>, <<"score", "u64">>>>,
   end_round |-> <<<<"game_id", "u64">>, <<"round", "u64">>, <<"winner", "hex">>,
                   <<"pot", "u64">>, <<"all_busted", "bool">>>>,
   burn_second_chance |-> <<<<"player", "hex">>, <<"game_id", "u64">>>>,
   burn_scry |-> <<<<"player", "hex">>, <<"game_id", "u64">>, <<"round", "u64">>>>,
   leave_game |-> <<<<"player", "hex">>, <<"game_id", "u64">>, <<"mid_round", "bool">>>>,
   close_game |-> <<<<"game_id", "u64">>>>,
   init_bounty_board |-> <<<<"game_id", "u64">>, <<"board", "hex">>>>,
   add_bounty |-> <<<<"game_id", "u64">>, <<"index", "u8">>, <<"bounty_type", "u8">>,
                    <<"amount", "u64">>>>,
   claim_bounty |-> <<<<"claimer", "hex">>, <<"game_id", "u64">>, <<"index", "u8">>,
                      <<"bounty_type", "u8">>, <<"amount", "u64">>>>,
   close_bounty_board |-> <<<<"game_id", "u64">>>>]

KNOWN_KINDS == DOMAIN EventFields

(* The longest a value of a type is in decimal, hex or as a word; mutant:  *)
(* amounts and ids of 128 bits.                                            *)
WiderNumbers == [u8 |-> 3, u16 |-> 5, u64 |-> 39, bool |-> 5, hex |-> 64]
WidthOf == [u8 |-> 3, u16 |-> 5, u64 |-> 20, bool |-> 5, hex |-> 64]

(* The bytes of a kind's longest line: pushflip:<kind>: and k=v joined     *)
(* with bars.                                                              *)
LineWidth(kind) ==
  LET fields == EventFields[kind]
  IN  Len("pushflip:") + Len(kind) + 1 + (Len(fields) - 1)
        + FoldLeft(LAMBDA n, f : n + Len(f[1]) + 1 + WidthOf[f[2]], 0, fields)

Segment(f) == [key |-> f[1], value |-> f[2]]
LogLine(kind) ==
  [prefix |-> "Program log: ", event |-> TRUE, kind |-> kind,
   segments |-> [i \in DOMAIN EventFields[kind] |-> Segment(EventFields[kind][i])]]

-----------------------------------------------------------------------------
(* The parser.  NoEvent is null; a segment without a key or an equals sign *)
(* has the key "".                                                         *)
NoEvent == << >>

WellFormed(segments) == \A i \in DOMAIN segments : segments[i].key # ""

(* Later segments overwrite earlier ones of the same key.                  *)
parseFields(segments) ==
  [k \in {segments[i].key : i \in DOMAIN segments} |->
     LET last == CHOOSE i \in DOMAIN segments :
                   /\ segments[i].key = k
                   /\ \A j \in DOMAIN segments : segments[j].key = k => j <= i
     IN  segments[last].value]

parseEventLog(line, ctx) ==
  IF /\ line.prefix \in {"Program log: ", ""}
     /\ line.event
     /\ line.kind \in KNOWN_KINDS
     /\ WellFormed(line.segments)
  THEN [id |-> <<ctx.signature, ctx.logIndex>>, kind |-> line.kind,
        fields |-> parseFields(line.segments), signature |-> ctx.signature,
        slot |-> ctx.slot, logIndex |-> ctx.logIndex]
  ELSE NoEvent

(* The events of a transaction; mutant: numbered among themselves.         *)
NumberEvents(signature, slot, lines) ==
  LET ours == SelectSeq(lines, LAMBDA l : parseEventLog(l, [signature |-> 0, slot |-> 0,
                                                            logIndex |-> 0]) # NoEvent)
  IN  [i \in DOMAIN ours |->
         parseEventLog(ours[i], [signature |-> signature, slot |-> slot, logIndex |-> i])]

(* One pass over the lines, in the order of the log.                       *)
parseTransactionEvents(signature, slot, lines) ==
  LET Push(events, i) ==
        LET event == parseEventLog(lines[i], [signature |-> signature, slot |-> slot,
                                              logIndex |-> i])
        IN  IF event = NoEvent THEN events ELSE Append(events, event)
  IN  FoldLeftDomain(Push, << >>, lines)

-----------------------------------------------------------------------------
(* The sentences of the feed, as what they show: the fields in the text    *)
(* and those shown as an address.  "?" and "(raw)" are the fallbacks; said *)
(* is the word a flag was logged with.                                     *)
req(fields, key) == IF key \in DOMAIN fields THEN fields[key] ELSE "?"
readBool(fields, key, said) == req(fields, key) = "bool" /\ said
text(fields, key) == [shows |-> key, as |-> IF key \in DOMAIN fields THEN "text" ELSE "?"]
formatStake(fields, key) ==
  [shows |-> key, as |-> IF req(fields, key) = "u64" THEN "amount" ELSE "(raw)"]
addressToken(fields, key) ==
  [shows |-> key, as |-> IF req(fields, key) = "hex" THEN "address" ELSE "?"]

renderEventTokens(event, said) ==
  LET f == event.fields
      Text(key) == text(f, key)
      Amount(key) == formatStake(f, key)
      Who(key) == addressToken(f, key)
  IN
  CASE event.kind = "initialize" -> <<Text("game_id"), Who("authority"), Text("fee_bps")>>
    [] event.kind = "join_round" -> <<Who("player"), Amount("stake"), Text("player_count")>>
    [] event.kind = "commit_deck" -> <<Text("round")>>
    [] event.kind = "start_round" -> <<Text("round"), Text("player_count")>>
    [] event.kind = "hit" -> <<Who("player"), Text("value"), Text("suit")>>
    [] event.kind = "stay" -> <<Who("player"), Text("score")>>
    [] event.kind = "end_round" ->
         IF readBool(f, "all_busted", said) THEN <<Text("round"), Amount("pot")>>
         ELSE <<Text("round"), Who("winner"), Amount("pot")>>
    [] event.kind \in {"burn_second_chance", "leave_game"} -> <<Who("player")>>
    [] event.kind = "burn_scry" -> <<Who("player"), Text("round")>>
    [] event.kind = "add_bounty" -> <<Text("index"), Text("bounty_type"), Amount("amount")>>
    [] event.kind = "claim_bounty" -> <<Who("claimer"), Text("index"), Amount("amount")>>
    [] event.kind \in {"init_vault", "close_game", "init_bounty_board", "close_bounty_board"} ->
         <<Text("game_id")>>
=============================================================================
