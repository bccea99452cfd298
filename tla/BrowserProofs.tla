---------------------------- MODULE BrowserProofs ----------------------------
(***************************************************************************)
(* Theorems of App and EventFeed, for any number of moves, actions,        *)
(* transactions and reopened pages.                                        *)
(***************************************************************************)
EXTENDS App, EventFeed, FiniteSetTheorems, SequenceTheorems, TLAPS

USE DEF NotYet, NoFetch, Closed, Dropped

Moment ==
  [turn: {"none", "me", "other"}, me: {"out", "seated", "active", "bust", "stayed"},
   second_chance: BOOLEAN, scry: BOOLEAN, drawn: Nat, round: Nat, left: Nat]

Unsigned == {"building", "dealing", "simulating", "signing"}

Action ==
  [kind: Kinds, pc: Unsigned \cup {"sent", "failed", "confirmed", "unknown"},
   leaf: Nat, round: Nat, left: Nat, tx: {"none", "flying", "landed", "expired"}]

HistoryTypeOK == history \in Seq(Moment) /\ Version > 0

(* A transaction exists only once it is signed.                            *)
ActsTypeOK ==
  /\ acts \in Seq(Action)
  /\ \A i \in DOMAIN acts : acts[i].pc \in Unsigned => acts[i].tx = "none"

Entry ==
  [cached: Nat, fetch: Int, sub: Int, failed: BOOLEAN, stale: BOOLEAN]

(* What has landed shows on the chain until its round is over, or its seat *)
(* given up.                                                               *)
Over(act, c) == act.round # c.round \/ c.turn = "none"
Gone(act, c) == act.left # c.left

Remembers(act, c) ==
  /\ act.round <= c.round /\ act.left <= c.left
  /\ act.kind = "join" => Gone(act, c) \/ c.me # "out"
  /\ act.kind = "stay" => Over(act, c) \/ Gone(act, c) \/ c.me = "stayed"
  /\ act.kind = "second_chance" => Over(act, c) \/ c.second_chance
  /\ act.kind = "scry" => Over(act, c) \/ c.scry
  /\ act.kind = "hit" => Over(act, c) \/ act.leaf < c.drawn

ChainRemembers ==
  \A i \in DOMAIN acts : acts[i].tx = "landed" => Remembers(acts[i], Chain)

PaidOnce == HistoryTypeOK /\ ActsTypeOK /\ ChainRemembers /\ NothingIsPaidTwice

QueryTypeOK ==
  /\ HistoryTypeOK
  /\ query \in Entry /\ connected \in BOOLEAN
  /\ promised \in 0..Version

(* Nobody waits for an account that is not shown.                          *)
ShownIsPromised == ~connected => promised = NotYet

(* A read is started over when an action ends, so none that is answered is *)
(* older.                                                                  *)
AnswersAreFresh == query.fetch > NotYet => query.fetch >= promised

(* What is shown may fall behind only while notifications are on their way.*)
CacheFollows ==
  /\ query.fetch = NoFetch /\ ~query.failed /\ ~query.stale
  /\ connected /\ query.cached # NotYet /\ query.sub # Dropped
  => query.cached >= promised \/ (query.sub > NotYet /\ query.cached >= query.sub)

CacheInv == QueryTypeOK /\ ShownIsPromised /\ AnswersAreFresh /\ CacheFollows

-----------------------------------------------------------------------------
(* A step of the chain keeps what the last moment shows of past actions,   *)
(* within a round and for as long as the wallet keeps its seat.            *)
Keeps(c, d) ==
  /\ d \in Moment
  /\ c.round <= d.round /\ c.left <= d.left
  /\ c.left = d.left /\ c.me # "out" => d.me # "out"
  /\ c.round = d.round /\ d.turn # "none" =>
       /\ c.turn # "none"
       /\ c.second_chance => d.second_chance
       /\ c.scry => d.scry
       /\ c.drawn <= d.drawn
       /\ c.left = d.left /\ c.me = "stayed" => d.me = "stayed"

Later(d) == Keeps(Chain, d) /\ history' = Append(history, d)

(* What an action leaves on the chain when it lands, and what it needs.    *)
Marks(act, c, d) ==
  /\ d.round = c.round /\ d.left = c.left
  /\ act.kind = "join" => c.me = "out" /\ d.me # "out"
  /\ act.kind # "join" => c.turn # "none"
  /\ act.kind = "stay" => c.me # "stayed" /\ d.me = "stayed"
  /\ act.kind = "second_chance" => ~c.second_chance /\ d.second_chance
  /\ act.kind = "scry" => ~c.scry /\ d.scry
  /\ act.kind = "hit" => act.leaf = c.drawn /\ act.leaf < d.drawn

(* A moment by its fields.                                                 *)
Is(d, turn, me, second_chance, scry, drawn, round, left) ==
  /\ d \in Moment
  /\ d.turn = turn /\ d.me = me /\ d.second_chance = second_chance /\ d.scry = scry
  /\ d.drawn = drawn /\ d.round = round /\ d.left = left

(* The moves of the others.                                                *)
LEMMA MovesKeep ==
  ASSUME NEW c \in Moment,
         NEW d \in OthersPlay(c) \cup StartRound(c) \cup EndRound(c) \cup LeaveElsewhere(c)
  PROVE  Keeps(c, d)
<1>0. /\ c.drawn \in Nat /\ c.round \in Nat /\ c.left \in Nat
      /\ c.second_chance \in BOOLEAN /\ c.scry \in BOOLEAN
      /\ c.me \in {"out", "seated", "active", "bust", "stayed"}
  BY DEF Moment
<1>1. PICK more, next, gone \in Nat : more = c.drawn + 1 /\ next = c.round + 1 /\ gone = c.left + 1
  BY <1>0
<1>2. CASE d \in OthersPlay(c)
  <2>1. PICK t \in {"me", "other"} :
          d = [c EXCEPT !.turn = t] \/ d = [c EXCEPT !.turn = t, !.drawn = more]
    <3>1. c.turn = "other"
      BY <1>2 DEF OthersPlay
    <3>2. \/ d \in {[c EXCEPT !.turn = t] : t \in {"me", "other"}}
          \/ d \in {[c EXCEPT !.turn = t, !.drawn = @ + 1] :
                     t \in IF c.drawn < MaxCards THEN {"me", "other"} ELSE {}}
      BY <1>2, <3>1, Zenon DEF OthersPlay
    <3>3. CASE d \in {[c EXCEPT !.turn = t] : t \in {"me", "other"}}
      BY <3>3
    <3>4. CASE d \in {[c EXCEPT !.turn = t, !.drawn = @ + 1] :
                        t \in IF c.drawn < MaxCards THEN {"me", "other"} ELSE {}}
      <4>1. PICK t \in IF c.drawn < MaxCards THEN {"me", "other"} ELSE {} :
              d = [c EXCEPT !.turn = t, !.drawn = @ + 1]
        BY <3>4, Zenon
      <4> QED BY <1>1, <4>1
    <3> QED BY <3>2, <3>3, <3>4
  <2>2. c.turn = "other"
    BY <1>2 DEF OthersPlay
  <2>3. CASE d = [c EXCEPT !.turn = t]
    <3>1. Is(d, t, c.me, c.second_chance, c.scry, c.drawn, c.round, c.left)
      BY <2>1, <2>3 DEF Is, Moment
    <3> QED BY <1>0, <2>2, <3>1 DEF Is, Keeps
  <2>4. CASE d = [c EXCEPT !.turn = t, !.drawn = more]
    <3>1. Is(d, t, c.me, c.second_chance, c.scry, more, c.round, c.left)
      BY <1>1, <2>1, <2>4 DEF Is, Moment
    <3> QED BY <1>0, <1>1, <2>2, <3>1 DEF Is, Keeps
  <2> QED BY <2>1, <2>3, <2>4
<1>3. CASE d \in StartRound(c)
  <2>1. CASE c.me = "out"
    <3>1. d = [c EXCEPT !.turn = "other", !.drawn = 0, !.round = next]
      BY <1>1, <1>3, <2>1 DEF StartRound
    <3>2. Is(d, "other", c.me, c.second_chance, c.scry, 0, next, c.left)
      BY <1>1, <3>1 DEF Is, Moment
    <3> QED BY <1>0, <1>1, <2>1, <3>2 DEF Is, Keeps
  <2>2. CASE c.me # "out"
    <3>1. PICK t \in {"me", "other"} :
            d = [turn |-> t, me |-> "active", second_chance |-> FALSE, scry |-> FALSE,
                 drawn |-> 0, round |-> next, left |-> c.left]
      BY <1>1, <1>3, <2>2 DEF StartRound
    <3>2. d \in Moment /\ d.me = "active" /\ d.round = next /\ d.left = c.left
      BY <1>0, <1>1, <3>1 DEF Moment
    <3> QED BY <1>0, <1>1, <3>2 DEF Keeps
  <2> QED BY <2>1, <2>2
<1>4. CASE d \in EndRound(c)
  <2>1. d = [c EXCEPT !.turn = "none", !.drawn = 0]
    BY <1>4 DEF EndRound
  <2>2. Is(d, "none", c.me, c.second_chance, c.scry, 0, c.round, c.left)
    BY <2>1 DEF Is, Moment
  <2> QED BY <1>0, <2>2 DEF Is, Keeps
<1>5. CASE d \in LeaveElsewhere(c)
  <2>1. CASE c.turn # "none"
    <3>1. d = [c EXCEPT !.me = "bust", !.left = gone]
      BY <1>1, <1>5, <2>1 DEF LeaveElsewhere
    <3>2. Is(d, c.turn, "bust", c.second_chance, c.scry, c.drawn, c.round, gone)
      BY <1>1, <3>1 DEF Is, Moment
    <3> QED BY <1>0, <1>1, <2>1, <3>2 DEF Is, Keeps
  <2>2. CASE c.turn = "none"
    <3>1. d = [c EXCEPT !.me = "out", !.second_chance = FALSE, !.scry = FALSE, !.left = gone]
      BY <1>1, <1>5, <2>2 DEF LeaveElsewhere
    <3>2. Is(d, c.turn, "out", FALSE, FALSE, c.drawn, c.round, gone)
      BY <1>1, <3>1 DEF Is, Moment
    <3> QED BY <1>0, <1>1, <2>2, <3>2 DEF Is, Keeps
  <2> QED BY <2>1, <2>2
<1> QED BY <1>2, <1>3, <1>4, <1>5

(* The effects of an accepted action.                                      *)
LEMMA EffectsMark ==
  ASSUME NEW c \in Moment, NEW act \in Action, Accepts(c, act), NEW d \in Effects(c, act.kind)
  PROVE  Keeps(c, d) /\ Marks(act, c, d)
<1>0. /\ c.drawn \in Nat /\ c.round \in Nat /\ c.left \in Nat /\ act.leaf \in Nat
      /\ c.second_chance \in BOOLEAN /\ c.scry \in BOOLEAN
  BY DEF Moment, Action
<1>1. CASE act.kind = "join"
  <2>1. d = [c EXCEPT !.me = "seated"] /\ c.me = "out" /\ c.turn = "none"
    BY <1>1 DEF Effects, Accepts
  <2>2. Is(d, c.turn, "seated", c.second_chance, c.scry, c.drawn, c.round, c.left)
    BY <2>1 DEF Is, Moment
  <2> QED BY <1>0, <1>1, <2>1, <2>2 DEF Keeps, Marks, Is
<1>2. CASE act.kind = "hit"
  <2>1. PICK more \in Nat : more = c.drawn + 1
    BY <1>0
  <2>2. \/ d = [c EXCEPT !.drawn = more]
        \/ d = [c EXCEPT !.drawn = more, !.turn = "other", !.me = "bust"]
    BY <1>2, <2>1 DEF Effects
  <2>3. act.leaf = c.drawn /\ c.me = "active" /\ c.turn = "me"
    BY <1>2 DEF Accepts, MyTurn
  <2>4. CASE d = [c EXCEPT !.drawn = more]
    <3>1. Is(d, c.turn, c.me, c.second_chance, c.scry, more, c.round, c.left)
      BY <2>4 DEF Is, Moment
    <3> QED BY <1>0, <1>2, <2>1, <2>3, <3>1 DEF Keeps, Marks, Is
  <2>5. CASE d = [c EXCEPT !.drawn = more, !.turn = "other", !.me = "bust"]
    <3>1. Is(d, "other", "bust", c.second_chance, c.scry, more, c.round, c.left)
      BY <2>5 DEF Is, Moment
    <3> QED BY <1>0, <1>2, <2>1, <2>3, <3>1 DEF Keeps, Marks, Is
  <2> QED BY <2>2, <2>4, <2>5
<1>3. CASE act.kind = "stay"
  <2>1. d = [c EXCEPT !.turn = "other", !.me = "stayed"] /\ c.me = "active" /\ c.turn = "me"
    BY <1>3 DEF Effects, Accepts, MyTurn
  <2>2. Is(d, "other", "stayed", c.second_chance, c.scry, c.drawn, c.round, c.left)
    BY <2>1 DEF Is, Moment
  <2> QED BY <1>0, <1>3, <2>1, <2>2 DEF Keeps, Marks, Is
<1>4. CASE act.kind = "second_chance"
  <2>1. /\ d = [c EXCEPT !.me = "active", !.second_chance = TRUE]
        /\ c.me = "bust" /\ ~c.second_chance /\ c.turn # "none"
    BY <1>4 DEF Effects, Accepts
  <2>2. Is(d, c.turn, "active", TRUE, c.scry, c.drawn, c.round, c.left)
    BY <2>1 DEF Is, Moment
  <2> QED BY <1>0, <1>4, <2>1, <2>2 DEF Keeps, Marks, Is
<1>5. CASE act.kind = "scry"
  <2>1. /\ d = [c EXCEPT !.scry = TRUE] /\ c.me = "active" /\ ~c.scry /\ c.turn = "me"
    BY <1>5 DEF Effects, Accepts, MyTurn
  <2>2. Is(d, c.turn, c.me, c.second_chance, TRUE, c.drawn, c.round, c.left)
    BY <2>1 DEF Is, Moment
  <2> QED BY <1>0, <1>5, <2>1, <2>2 DEF Keeps, Marks, Is
<1> QED BY <1>1, <1>2, <1>3, <1>4, <1>5 DEF Action, Kinds

(* The chain's state is one of its history, and the last appended.         *)
LEMMA ChainType ==
  ASSUME HistoryTypeOK
  PROVE  Chain \in Moment /\ Version \in Nat /\ (\A d \in Moment :
           history' = Append(history, d) =>
             /\ Chain' = d /\ Version' = Version + 1 /\ HistoryTypeOK')
<1>1. history \in Seq(Moment) /\ Len(history) > 0
  BY DEF HistoryTypeOK, Version
<1>2. Len(history) \in 1..Len(history)
  BY <1>1, LenProperties
<1>3. Chain \in Moment
  BY <1>1, <1>2, ElementOfSeq DEF Chain, Version
<1>4. ASSUME NEW d \in Moment, history' = Append(history, d)
      PROVE  Chain' = d /\ Version' = Version + 1 /\ HistoryTypeOK'
  <2>1. /\ history' \in Seq(Moment) /\ Len(history') = Len(history) + 1
        /\ history'[Len(history) + 1] = d
    BY <1>1, <1>4, AppendProperties
  <2> QED BY <1>1, <2>1, LenProperties DEF Chain, Version, HistoryTypeOK
<1> QED BY <1>1, <1>3, <1>4, LenProperties DEF Version

(* The others' moves keep what the wallet has done.                        *)
LEMMA OthersKeep ==
  ASSUME HistoryTypeOK, OthersMove
  PROVE  (\E d \in Moment : Later(d)) /\ UNCHANGED acts
<1>1. Chain \in Moment
  BY ChainType
<1>2. PICK d \in OthersPlay(Chain) \cup StartRound(Chain) \cup EndRound(Chain)
                \cup LeaveElsewhere(Chain) : history' = Append(history, d)
  BY DEF OthersMove
<1>3. Keeps(Chain, d)
  BY <1>1, <1>2, MovesKeep
<1> QED BY <1>2, <1>3 DEF OthersMove, Later, Keeps

(* An action that lands does so once and leaves its mark.                  *)
LEMMA LandMarks ==
  ASSUME HistoryTypeOK, ActsTypeOK, NEW i \in DOMAIN acts, Land(i)
  PROVE  /\ \E d \in Moment : Later(d) /\ Marks(acts[i], Chain, d)
         /\ acts[i] \in Action /\ acts[i].tx = "flying"
         /\ \E a \in Action :
              /\ acts' = [acts EXCEPT ![i] = a] /\ a.tx = "landed"
              /\ a.kind = acts[i].kind /\ a.leaf = acts[i].leaf /\ a.pc = acts[i].pc
              /\ a.round = Chain.round /\ a.left = Chain.left
<1>1. Chain \in Moment
  BY ChainType
<1>2. acts \in Seq(Action) /\ acts[i] \in Action
  BY ElementOfSeq, LenProperties DEF ActsTypeOK
<1>3. PICK d \in Effects(Chain, acts[i].kind) : history' = Append(history, d)
  BY DEF Land
<1>4. Keeps(Chain, d) /\ Marks(acts[i], Chain, d)
  BY <1>1, <1>2, <1>3, EffectsMark DEF Land
<1>5. Chain.round \in Nat /\ Chain.left \in Nat
  BY <1>1 DEF Moment
<1>6. PICK a : a = [acts[i] EXCEPT !.tx = "landed", !.round = Chain.round, !.left = Chain.left]
  OBVIOUS
<1>7. /\ a \in Action /\ a.kind = acts[i].kind /\ a.leaf = acts[i].leaf /\ a.pc = acts[i].pc
      /\ a.tx = "landed" /\ a.round = Chain.round /\ a.left = Chain.left
  BY <1>2, <1>5, <1>6 DEF Action
<1>8. acts' = [acts EXCEPT ![i] = a]
  BY <1>2, <1>6 DEF Land
<1> QED BY <1>2, <1>3, <1>4, <1>7, <1>8 DEF Land, Later, Keeps

(* What NothingIsPaidTwice tells two actions apart by.                     *)
SameBut(a, b) ==
  b.kind = a.kind /\ b.leaf = a.leaf /\ b.round = a.round /\ b.left = a.left

(* Every other step leaves the chain alone, and no action lands in it.     *)
QuietActs ==
  /\ ActsTypeOK'
  /\ \A j \in DOMAIN acts' : acts'[j].tx = "landed" =>
       /\ j \in DOMAIN acts /\ acts[j].tx = "landed"
       /\ SameBut(acts[j], acts'[j])

(* A step that writes one action without landing it is quiet.              *)
LEMMA OneActChanges ==
  ASSUME ActsTypeOK, NEW i \in DOMAIN acts, NEW a \in Action,
         acts' = [acts EXCEPT ![i] = a],
         a.pc \in Unsigned => a.tx = "none",
         a.tx = "landed" => acts[i].tx = "landed" /\ SameBut(acts[i], a)
  PROVE  QuietActs
<1>1. acts \in Seq(Action) /\ i \in 1..Len(acts)
  BY LenProperties DEF ActsTypeOK
<1>2. acts' \in Seq(Action) /\ DOMAIN acts' = DOMAIN acts
  BY <1>1, ExceptSeq, LenProperties
<1>3. ASSUME NEW j \in DOMAIN acts'
      PROVE  /\ acts'[j].pc \in Unsigned => acts'[j].tx = "none"
             /\ acts'[j].tx = "landed" =>
                  /\ j \in DOMAIN acts /\ acts[j].tx = "landed"
                  /\ SameBut(acts[j], acts'[j])
  <2>1. CASE j = i
    BY <1>1, <1>2, <1>3, <2>1
  <2>2. CASE j # i
    BY <1>1, <1>2, <1>3, <2>2 DEF ActsTypeOK, SameBut
  <2> QED BY <2>1, <2>2
<1> QED BY <1>2, <1>3 DEF QuietActs, ActsTypeOK

(* Each step is one that lands, a move of the others, or a quiet one.      *)
LEMMA ActionSteps ==
  ASSUME HistoryTypeOK, ActsTypeOK, [AppNext]_appVars
  PROVE  \/ UNCHANGED history /\ QuietActs
         \/ OthersMove
         \/ \E i \in DOMAIN acts : Land(i)
<1>0. acts \in Seq(Action)
  BY DEF ActsTypeOK
<1>1. ASSUME UNCHANGED <<history, acts>>
      PROVE  UNCHANGED history /\ QuietActs
  BY <1>1 DEF QuietActs, ActsTypeOK, SameBut
<1>2. ASSUME NEW kind \in Kinds, Press(kind)
      PROVE  UNCHANGED history /\ QuietActs
  <2> DEFINE a == [kind |-> kind, pc |-> "building", leaf |-> 0, round |-> 0, left |-> 0,
               tx |-> "none"]
  <2>1. a \in Action /\ a.tx = "none"
    BY DEF Action, Unsigned
  <2>2. acts' = Append(acts, a) /\ UNCHANGED history
    BY <1>2 DEF Press
  <2>3. /\ acts' \in Seq(Action) /\ Len(acts') = Len(acts) + 1
        /\ acts'[Len(acts) + 1] = a
        /\ \A j \in 1..Len(acts) : acts'[j] = acts[j]
    BY <1>0, <2>1, <2>2, AppendProperties
  <2>4. ASSUME NEW j \in DOMAIN acts', acts'[j].tx # "none"
        PROVE  j \in DOMAIN acts /\ acts'[j] = acts[j]
    BY <1>0, <2>1, <2>3, <2>4, LenProperties
  <2> QED BY <2>2, <2>3, <2>4 DEF QuietActs, ActsTypeOK, SameBut
<1>3. ASSUME NEW i \in DOMAIN acts,
             \/ Build(i) \/ fetchDealerReveal(i) \/ preSimulateTransaction(i)
             \/ walletSignTransaction(i) \/ Fail(i) \/ Confirm(i) \/ GiveUp(i) \/ Expire(i)
      PROVE  UNCHANGED history /\ QuietActs
  <2>1. acts[i] \in Action /\ (acts[i].pc \in Unsigned => acts[i].tx = "none")
    BY <1>0, ElementOfSeq, LenProperties DEF ActsTypeOK
  <2>2. UNCHANGED history
    BY <1>3 DEF Build, fetchDealerReveal, preSimulateTransaction, walletSignTransaction,
                Fail, Confirm, GiveUp, Expire, Proceed, Finish
  <2>3. ASSUME NEW pc \in Unsigned \cup {"sent", "failed", "confirmed", "unknown"},
               acts' = [acts EXCEPT ![i].pc = pc],
               pc \in Unsigned => acts[i].pc \in Unsigned
        PROVE  QuietActs
    <3>1. PICK a : a = [acts[i] EXCEPT !.pc = pc]
      OBVIOUS
    <3>2. a \in Action /\ a.tx = acts[i].tx /\ SameBut(acts[i], a) /\ a.pc = pc
      BY <2>1, <3>1 DEF Action, SameBut
    <3>3. acts' = [acts EXCEPT ![i] = a]
      BY <2>3, <3>1
    <3>4. a.pc \in Unsigned => a.tx = "none"
      BY <2>1, <2>3, <3>2
    <3>5. a.tx = "landed" => acts[i].tx = "landed" /\ SameBut(acts[i], a)
      BY <3>2
    <3>6. a \in Action
      BY <3>2
    <3> QED BY <3>3, <3>4, <3>5, <3>6, OneActChanges, Zenon
  <2>4. CASE Build(i)
    <3>1. CASE acts[i].kind # "hit"
      BY <2>3, <2>4, <3>1 DEF Build, Proceed, Unsigned
    <3>2. CASE acts[i].kind = "hit"
      <4>1. acts' = [acts EXCEPT ![i].pc = "dealing", ![i].leaf = Chain.drawn]
        BY <2>4, <3>2 DEF Build
      <4>2. PICK leaf \in Nat : leaf = Chain.drawn
        BY ChainType DEF Moment
      <4>3. PICK a : a = [acts[i] EXCEPT !.pc = "dealing", !.leaf = leaf]
        OBVIOUS
      <4>4. acts[i].tx = "none"
        BY <2>1, <2>4 DEF Build, Unsigned
      <4>5. a \in Action /\ a.tx = "none"
        BY <2>1, <4>3, <4>4 DEF Action, Unsigned
      <4>6. acts' = [acts EXCEPT ![i] = a]
        BY <1>0, <4>1, <4>2, <4>3
      <4> QED BY <2>2, <4>5, <4>6, OneActChanges
    <3> QED BY <3>1, <3>2
  <2>5. CASE fetchDealerReveal(i)
    <3>1. PICK ahead \in {0, 1} :
            acts' = [acts EXCEPT ![i].pc = "simulating", ![i].round = Chain.round + ahead]
      BY <2>5 DEF fetchDealerReveal
    <3>2. PICK round \in Nat : round = Chain.round + ahead
      BY ChainType DEF Moment
    <3>3. PICK a : a = [acts[i] EXCEPT !.pc = "simulating", !.round = round]
      OBVIOUS
    <3>4. acts[i].tx = "none"
      BY <2>1, <2>5 DEF fetchDealerReveal, Unsigned
    <3>5. a \in Action /\ a.tx = "none"
      BY <2>1, <3>3, <3>4 DEF Action, Unsigned
    <3>6. acts' = [acts EXCEPT ![i] = a]
      BY <1>0, <3>1, <3>2, <3>3
    <3> QED BY <2>2, <3>5, <3>6, OneActChanges
  <2>9. CASE preSimulateTransaction(i)
    BY <2>3, <2>9 DEF preSimulateTransaction, Proceed, Unsigned
  <2>6. CASE Fail(i) \/ Confirm(i) \/ GiveUp(i)
    BY <2>3, <2>6 DEF Fail, Confirm, GiveUp, Finish, Unsigned
  <2>7. CASE walletSignTransaction(i)
    <3>1. PICK a : a = [acts[i] EXCEPT !.pc = "sent", !.tx = "flying"]
      OBVIOUS
    <3>2. a \in Action /\ a.tx = "flying" /\ a.pc = "sent"
      BY <2>1, <3>1 DEF Action
    <3>3. acts' = [acts EXCEPT ![i] = a]
      BY <1>0, <2>7, <3>1 DEF walletSignTransaction
    <3>4. a.pc \notin Unsigned /\ a.tx # "landed"
      BY <3>2 DEF Unsigned
    <3> QED BY <2>2, <3>2, <3>3, <3>4, OneActChanges
  <2>8. CASE Expire(i)
    <3>1. acts' = [acts EXCEPT ![i].tx = "expired"] /\ acts[i].tx = "flying"
      BY <2>8 DEF Expire
    <3>2. PICK a : a = [acts[i] EXCEPT !.tx = "expired"]
      OBVIOUS
    <3>3. a \in Action /\ a.tx = "expired" /\ a.pc = acts[i].pc
      BY <2>1, <3>2 DEF Action
    <3>4. acts' = [acts EXCEPT ![i] = a]
      BY <3>1, <3>2
    <3>5. (a.pc \in Unsigned => a.tx = "none") /\ a.tx # "landed"
      BY <2>1, <3>1, <3>3
    <3> QED BY <2>2, <3>3, <3>4, <3>5, OneActChanges
  <2> QED BY <1>3, <2>2, <2>4, <2>5, <2>6, <2>7, <2>8, <2>9
<1>4. ASSUME \/ Connect \/ Disconnect \/ ReadAccount \/ StoreAnswer \/ FetchFails \/ Refetch
             \/ Subscribe \/ Notify \/ DropSubscription \/ UNCHANGED appVars
      PROVE  UNCHANGED <<history, acts>>
  BY <1>4 DEF Connect, Disconnect, ReadAccount, StoreAnswer, FetchFails, Refetch, Subscribe,
              Notify, DropSubscription, appVars
<1> QED BY <1>1, <1>2, <1>3, <1>4 DEF AppNext

-----------------------------------------------------------------------------
(* What the chain remembers stays remembered through its next moment.      *)
LEMMA MomentsRemember ==
  ASSUME NEW c \in Moment, NEW d \in Moment, Keeps(c, d), NEW act \in Action, Remembers(act, c)
  PROVE  Remembers(act, d)
<1>1. /\ c.round \in Nat /\ c.left \in Nat /\ c.drawn \in Nat
      /\ d.round \in Nat /\ d.left \in Nat /\ d.drawn \in Nat
      /\ act.round \in Nat /\ act.left \in Nat /\ act.leaf \in Nat
  BY DEF Moment, Action
<1>2. act.round <= d.round /\ act.left <= d.left
  BY <1>1 DEF Keeps, Remembers
<1>3. ~Gone(act, d) => ~Gone(act, c) /\ c.left = d.left
  BY <1>1 DEF Keeps, Remembers, Gone
<1>4. ~Over(act, d) => ~Over(act, c) /\ c.round = d.round /\ d.turn # "none"
  BY <1>1 DEF Keeps, Remembers, Over
<1> QED BY <1>1, <1>2, <1>3, <1>4 DEF Keeps, Remembers

(* What has just landed is remembered.                                     *)
LEMMA MarksAreRemembered ==
  ASSUME NEW c \in Moment, NEW d \in Moment, NEW act \in Action, Marks(act, c, d),
         NEW a \in Action, a.kind = act.kind, a.leaf = act.leaf,
         a.round = c.round, a.left = c.left
  PROVE  Remembers(a, d)
BY DEF Marks, Remembers, Moment

(* Nothing lands a second time: the mark of the first is still there.      *)
LEMMA PaidOnceStep ==
  ASSUME PaidOnce, [AppNext]_appVars
  PROVE  PaidOnce'
<1>1. HistoryTypeOK /\ ActsTypeOK /\ ChainRemembers /\ NothingIsPaidTwice
  BY DEF PaidOnce
<1>2. CASE UNCHANGED history /\ QuietActs
  <2>1. HistoryTypeOK' /\ ActsTypeOK'
    BY <1>1, <1>2 DEF HistoryTypeOK, Version, QuietActs
  <2>2. Chain' = Chain
    BY <1>2 DEF Chain, Version
  <2>3. ASSUME NEW j \in DOMAIN acts', acts'[j].tx = "landed"
        PROVE  j \in DOMAIN acts /\ acts[j].tx = "landed" /\ SameBut(acts[j], acts'[j])
    BY <1>2, <2>3 DEF QuietActs
  <2>4. ChainRemembers'
    BY <1>1, <2>2, <2>3 DEF ChainRemembers, SameBut, Remembers, Over, Gone
  <2>5. NothingIsPaidTwice'
    <3> SUFFICES ASSUME NEW i \in DOMAIN acts', NEW j \in DOMAIN acts', i # j,
                        acts'[i].tx = "landed", acts'[j].tx = "landed",
                        acts'[i].kind = acts'[j].kind
                 PROVE  ~SamePurchase(acts'[i], acts'[j])
      BY DEF NothingIsPaidTwice
    <3>1. /\ i \in DOMAIN acts /\ acts[i].tx = "landed" /\ SameBut(acts[i], acts'[i])
          /\ j \in DOMAIN acts /\ acts[j].tx = "landed" /\ SameBut(acts[j], acts'[j])
      BY <2>3
    <3>2. ~SamePurchase(acts[i], acts[j])
      BY <1>1, <3>1 DEF NothingIsPaidTwice, SameBut
    <3> QED BY <3>1, <3>2 DEF SamePurchase, SameBut
  <2> QED BY <2>1, <2>4, <2>5 DEF PaidOnce
<1>3. CASE OthersMove
  <2>1. PICK d \in Moment : Later(d)
    BY <1>1, <1>3, OthersKeep
  <2>2. UNCHANGED acts
    BY <1>1, <1>3, OthersKeep
  <2>3. HistoryTypeOK' /\ Chain' = d
    BY <1>1, <2>1, ChainType DEF Later
  <2>4. ASSUME NEW i \in DOMAIN acts, acts[i].tx = "landed"
        PROVE  Remembers(acts[i], d)
    <3>1. acts[i] \in Action /\ Chain \in Moment
      BY <1>1, ChainType, ElementOfSeq, LenProperties DEF ActsTypeOK
    <3> QED BY <1>1, <2>1, <2>4, <3>1, MomentsRemember DEF ChainRemembers, Later
  <2>5. ChainRemembers'
    BY <2>2, <2>3, <2>4 DEF ChainRemembers
  <2> QED BY <1>1, <2>2, <2>3, <2>5 DEF PaidOnce, ActsTypeOK, NothingIsPaidTwice
<1>4. ASSUME NEW i \in DOMAIN acts, Land(i)
      PROVE  PaidOnce'
  <2>1. acts[i].tx = "flying" /\ acts[i] \in Action
    BY <1>1, <1>4, LandMarks
  <2>2. PICK a \in Action :
          /\ acts' = [acts EXCEPT ![i] = a] /\ a.tx = "landed"
          /\ a.kind = acts[i].kind /\ a.leaf = acts[i].leaf /\ a.pc = acts[i].pc
          /\ a.round = Chain.round /\ a.left = Chain.left
    BY <1>1, <1>4, LandMarks
  <2>3. PICK d \in Moment : Later(d) /\ Marks(acts[i], Chain, d)
    BY <1>1, <1>4, LandMarks
  <2>4. HistoryTypeOK' /\ Chain' = d /\ Chain \in Moment
    BY <1>1, <2>3, ChainType DEF Later
  <2>5. acts \in Seq(Action) /\ i \in 1..Len(acts)
    BY <1>1, LenProperties DEF ActsTypeOK
  <2>6. /\ acts' \in Seq(Action) /\ DOMAIN acts' = DOMAIN acts
        /\ \A j \in DOMAIN acts : acts'[j] = IF j = i THEN a ELSE acts[j]
    BY <2>2, <2>5, ExceptSeq, LenProperties
  <2>7. ActsTypeOK'
    BY <1>1, <2>1, <2>2, <2>6 DEF ActsTypeOK
  <2>8. ASSUME NEW j \in DOMAIN acts, acts[j].tx = "landed"
        PROVE  acts[j] \in Action /\ Remembers(acts[j], Chain) /\ j # i
    BY <1>1, <2>1, <2>5, <2>8, ElementOfSeq, LenProperties DEF ChainRemembers
  <2>9. ChainRemembers'
    <3> SUFFICES ASSUME NEW j \in DOMAIN acts, acts'[j].tx = "landed"
                 PROVE  Remembers(acts'[j], d)
      BY <2>4, <2>6 DEF ChainRemembers
    <3>1. CASE j = i
      BY <2>1, <2>2, <2>3, <2>4, <2>6, <3>1, MarksAreRemembered
    <3>2. CASE j # i
      BY <2>3, <2>4, <2>6, <2>8, <3>2, MomentsRemember DEF Later
    <3> QED BY <3>1, <3>2
  <2>10. ASSUME NEW j \in DOMAIN acts, acts[j].tx = "landed", acts[j].kind = a.kind
         PROVE  ~SamePurchase(acts[j], a) /\ ~SamePurchase(a, acts[j])
    <3>1. acts[j] \in Action /\ Remembers(acts[j], Chain)
      BY <2>8, <2>10
    <3>2. acts[j].leaf \in Nat /\ Chain.drawn \in Nat /\ a.kind \in Kinds
      BY <2>4, <3>1 DEF Action, Moment
    <3>3. /\ a.kind = "join" => Gone(acts[j], Chain)
          /\ a.kind = "stay" => Over(acts[j], Chain) \/ Gone(acts[j], Chain)
          /\ a.kind \in {"second_chance", "scry"} => Over(acts[j], Chain)
          /\ a.kind = "hit" => Over(acts[j], Chain) \/ acts[j].leaf < a.leaf
      BY <2>2, <2>3, <2>10, <3>1, SMTT(30) DEF Marks, Remembers
    <3>4. a.kind # "join" => Chain.turn # "none"
      BY <2>2, <2>3 DEF Marks
    <3>5. CASE a.kind = "join"
      BY <2>2, <2>10, <3>3, <3>5 DEF SamePurchase, Gone
    <3>6. CASE a.kind = "stay"
      BY <2>2, <2>10, <3>3, <3>4, <3>6 DEF SamePurchase, Gone, Over
    <3>7. CASE a.kind \in {"second_chance", "scry"}
      BY <2>2, <2>10, <3>3, <3>4, <3>7 DEF SamePurchase, Over
    <3>8. CASE a.kind = "hit"
      <4>1. a.leaf # acts[j].leaf \/ a.round # acts[j].round
        BY <2>2, <3>1, <3>2, <3>3, <3>4, <3>8 DEF Over, Action
      <4> QED BY <2>10, <3>8, <4>1 DEF SamePurchase
    <3> QED BY <3>2, <3>5, <3>6, <3>7, <3>8 DEF Kinds
  <2>11. NothingIsPaidTwice'
    <3> SUFFICES ASSUME NEW j \in DOMAIN acts, NEW k \in DOMAIN acts, j # k,
                        acts'[j].tx = "landed", acts'[k].tx = "landed",
                        acts'[j].kind = acts'[k].kind
                 PROVE  ~SamePurchase(acts'[j], acts'[k])
      BY <2>6 DEF NothingIsPaidTwice
    <3>1. CASE j = i
      BY <2>6, <2>10, <3>1
    <3>2. CASE k = i
      BY <2>6, <2>10, <3>2
    <3>3. CASE j # i /\ k # i
      BY <1>1, <2>6, <3>3 DEF NothingIsPaidTwice
    <3> QED BY <3>1, <3>2, <3>3
  <2> QED BY <2>4, <2>7, <2>9, <2>11 DEF PaidOnce
<1> QED BY <1>1, <1>2, <1>3, <1>4, ActionSteps

(* Before any action there is nothing to remember.                        *)
LEMMA PaidOnceInit == AppInit => PaidOnce
<1> SUFFICES ASSUME AppInit PROVE PaidOnce
  OBVIOUS
<1>1. PICK s \in Seats :
        history = <<[turn |-> s.turn, me |-> s.me, second_chance |-> FALSE, scry |-> FALSE,
                     drawn |-> 0, round |-> 0, left |-> 0]>>
  BY DEF AppInit
<1>2. history \in Seq(Moment) /\ Len(history) = 1
  BY <1>1 DEF Seats, Moment
<1>3. acts = << >>
  BY DEF AppInit
<1>4. ActsTypeOK /\ ChainRemembers /\ NothingIsPaidTwice
  BY <1>3 DEF ActsTypeOK, ChainRemembers, NothingIsPaidTwice
<1> QED BY <1>2, <1>4 DEF PaidOnce, HistoryTypeOK, Version

(* However often a player presses, reconnects and presses again, through   *)
(* any number of rounds, seats given up and taken again, forfeits and      *)
(* second chances: no two transactions stake for one seat, peek or recover *)
(* twice in one round, stay twice on one hand or draw one card of a deck.  *)
(* The program's guards alone see to that, whatever the cache shows.       *)
THEOREM RepeatsPayOnce == AppSpec => []NothingIsPaidTwice
<1>1. PaidOnce /\ [AppNext]_appVars => PaidOnce'
  BY PaidOnceStep
<1>2. PaidOnce => NothingIsPaidTwice
  BY DEF PaidOnce
<1> QED BY <1>1, <1>2, PaidOnceInit, PTL DEF AppSpec

-----------------------------------------------------------------------------
(* The steps that write several fields of the entry.                       *)
Holds(q, cached, fetch, sub, failed, stale) ==
  /\ q \in Entry
  /\ q.cached = cached /\ q.fetch = fetch /\ q.sub = sub
  /\ q.failed = failed /\ q.stale = stale

(* Each write of the entry sets what it names and keeps the rest.          *)
LEMMA EntryWrites ==
  ASSUME NEW q \in Entry, NEW n \in Nat, NEW f \in Int
  PROVE  /\ Holds([q EXCEPT !.cached = n, !.fetch = f, !.failed = FALSE],
                  n, f, q.sub, FALSE, q.stale)
         /\ Holds([q EXCEPT !.fetch = f, !.failed = TRUE], q.cached, f, q.sub, TRUE, q.stale)
         /\ Holds([q EXCEPT !.sub = f, !.cached = n], n, q.fetch, f, q.failed, q.stale)
         /\ Holds([q EXCEPT !.cached = n, !.stale = FALSE, !.fetch = f],
                  n, f, q.sub, q.failed, FALSE)
         /\ Holds([q EXCEPT !.sub = f], q.cached, q.fetch, f, q.failed, q.stale)
BY DEF Entry, Holds

(* What one step does to the entry, one case per writer of it.             *)
LEMMA CacheInvStep ==
  ASSUME CacheInv, ActsTypeOK, [AppNext]_appVars
  PROVE  CacheInv'
<1>1. /\ HistoryTypeOK /\ query \in Entry /\ connected \in BOOLEAN
      /\ promised \in 0..Version /\ Version \in Nat
  BY ChainType DEF CacheInv, QueryTypeOK
<1>2. ASSUME HistoryTypeOK', Version' \in Nat, Version' >= Version,
             UNCHANGED <<query, connected, promised>>
      PROVE  CacheInv'
  BY <1>1, <1>2
     DEF CacheInv, QueryTypeOK, ShownIsPromised, AnswersAreFresh, CacheFollows
<1>3. CASE OthersMove
  <2>1. PICK d \in Moment : history' = Append(history, d)
    BY <1>1, <1>3, OthersKeep DEF Later
  <2> QED BY <1>1, <1>2, <1>3, <2>1, ChainType DEF OthersMove
<1>4. ASSUME NEW i \in DOMAIN acts, Land(i)
      PROVE  CacheInv'
  <2>1. PICK d \in Moment : history' = Append(history, d)
    BY <1>1, <1>4, LandMarks DEF Later
  <2> QED BY <1>1, <1>2, <1>4, <2>1, ChainType DEF Land
<1>5. ASSUME UNCHANGED history
      PROVE  HistoryTypeOK' /\ Version' = Version
  BY <1>1, <1>5 DEF HistoryTypeOK, Version
<1>6. CASE UNCHANGED <<history, query, connected, promised>>
  BY <1>1, <1>2, <1>5, <1>6
<1>7. CASE ReadAccount
  BY <1>1, <1>5, <1>7
     DEF ReadAccount, Entry, CacheInv, QueryTypeOK, ShownIsPromised, AnswersAreFresh, CacheFollows
<1>8. CASE StoreAnswer
  <2>1. /\ query.fetch > NotYet /\ query.fetch \in Nat
        /\ UNCHANGED <<history, connected, promised>>
    BY <1>1, <1>8 DEF StoreAnswer, Entry
  <2>2. PICK n \in Nat, f \in Int : n = query.fetch /\ f = NoFetch
    BY <2>1
  <2>3. query' = [query EXCEPT !.cached = n, !.fetch = f, !.failed = FALSE]
    BY <1>8, <2>2 DEF StoreAnswer
  <2>4. Holds(query', n, f, query.sub, FALSE, query.stale)
    BY <1>1, <2>3, EntryWrites, Zenon
  <2> QED BY <1>1, <1>5, <2>1, <2>2, <2>4
             DEF Entry, Holds, CacheInv, QueryTypeOK, ShownIsPromised, AnswersAreFresh, CacheFollows
<1>9. CASE FetchFails
  <2>1. UNCHANGED <<history, connected, promised>>
    BY <1>9 DEF FetchFails
  <2>2. PICK f \in Int : f = NoFetch
    OBVIOUS
  <2>3. query' = [query EXCEPT !.fetch = f, !.failed = TRUE]
    BY <1>9, <2>2 DEF FetchFails
  <2>4. Holds(query', query.cached, NoFetch, query.sub, TRUE, query.stale)
    BY <1>1, <2>2, <2>3, EntryWrites, Zenon
  <2> QED BY <1>1, <1>5, <2>1, <2>4
             DEF Entry, Holds, CacheInv, QueryTypeOK, ShownIsPromised, AnswersAreFresh, CacheFollows
<1>10. CASE Refetch
  BY <1>1, <1>5, <1>10
     DEF Refetch, Entry, CacheInv, QueryTypeOK, ShownIsPromised, AnswersAreFresh, CacheFollows
<1>11. CASE Subscribe
  BY <1>1, <1>5, <1>11
     DEF Subscribe, Entry, CacheInv, QueryTypeOK, ShownIsPromised, AnswersAreFresh, CacheFollows
<1>12. CASE Notify
  <2>1. query.sub > NotYet /\ UNCHANGED <<history, connected, promised>>
    BY <1>12 DEF Notify
  <2>2. PICK n \in Nat, f \in Int : n = query.sub + 1 /\ f = query.sub + 1
    BY <1>1, <2>1 DEF Entry
  <2>3. query' = [query EXCEPT !.sub = f, !.cached = n]
    BY <1>12, <2>2 DEF Notify
  <2>4. Holds(query', n, query.fetch, f, query.failed, query.stale)
    BY <1>1, <2>3, EntryWrites, Zenon
  <2> QED BY <1>1, <1>5, <2>1, <2>2, <2>4
             DEF Entry, Holds, CacheInv, QueryTypeOK, ShownIsPromised, AnswersAreFresh, CacheFollows
<1>13. CASE DropSubscription
  BY <1>1, <1>5, <1>13
     DEF DropSubscription, Entry, CacheInv, QueryTypeOK, ShownIsPromised, AnswersAreFresh,
         CacheFollows
<1>14. CASE Disconnect
  <2>1. UNCHANGED history /\ ~connected' /\ promised' = NotYet /\ connected' \in BOOLEAN
    BY <1>14 DEF Disconnect
  <2>2. PICK f \in Int : f = Closed
    OBVIOUS
  <2>3. query' = [query EXCEPT !.sub = f]
    BY <1>14, <2>2 DEF Disconnect
  <2>4. Holds(query', query.cached, query.fetch, f, query.failed, query.stale)
    BY <1>1, <2>3, EntryWrites, Zenon
  <2> QED BY <1>1, <1>5, <2>1, <2>4
             DEF Entry, Holds, CacheInv, QueryTypeOK, ShownIsPromised, AnswersAreFresh, CacheFollows
<1>15. CASE Connect
  <2>1. promised = NotYet /\ UNCHANGED <<history, promised>> /\ connected'
    BY <1>15 DEF Connect, CacheInv, ShownIsPromised
  <2>2. CASE ~query.stale /\ query.cached # NotYet /\ UNCHANGED query
    BY <1>1, <1>5, <2>1, <2>2
       DEF Entry, CacheInv, QueryTypeOK, ShownIsPromised, AnswersAreFresh, CacheFollows
  <2>3. ASSUME NEW kept \in {query.cached, NotYet},
               query' = [query EXCEPT !.cached = kept, !.stale = FALSE, !.fetch = NotYet]
        PROVE  CacheInv'
    <3>1. kept \in Nat /\ connected' \in BOOLEAN
      BY <1>1, <1>15, <2>3 DEF Entry, Connect
    <3>2. PICK n \in Nat, f \in Int : n = kept /\ f = NotYet
      BY <3>1
    <3>3. query' = [query EXCEPT !.cached = n, !.stale = FALSE, !.fetch = f]
      BY <2>3, <3>2
    <3>4. Holds(query', n, f, query.sub, query.failed, FALSE)
      BY <1>1, <3>3, EntryWrites, Zenon
    <3> QED BY <1>1, <1>5, <2>1, <3>1, <3>2, <3>4
               DEF Entry, Holds, CacheInv, QueryTypeOK, ShownIsPromised, AnswersAreFresh, CacheFollows
  <2> QED BY <1>15, <2>2, <2>3 DEF Connect
<1>16. ASSUME UNCHANGED <<history, connected>>, invalidateGameAndPlayer,
              promised' = IF connected /\ query.cached # NotYet THEN Version ELSE promised
       PROVE  CacheInv'
  <2>1. CASE ~connected
    BY <1>1, <1>5, <1>16, <2>1
       DEF invalidateGameAndPlayer, Entry, CacheInv, QueryTypeOK, ShownIsPromised,
           AnswersAreFresh, CacheFollows
  <2>2. CASE connected /\ query.cached = NotYet /\ query.fetch # NoFetch
    BY <1>1, <1>5, <1>16, <2>2
       DEF invalidateGameAndPlayer, Entry, CacheInv, QueryTypeOK, ShownIsPromised,
           AnswersAreFresh, CacheFollows
  <2>3. CASE connected /\ ~(query.cached = NotYet /\ query.fetch # NoFetch)
    BY <1>1, <1>5, <1>16, <2>3
       DEF invalidateGameAndPlayer, Entry, CacheInv, QueryTypeOK, ShownIsPromised,
           AnswersAreFresh, CacheFollows
  <2> QED BY <2>1, <2>2, <2>3
<1>17. ASSUME NEW kind \in Kinds, Press(kind)
       PROVE  CacheInv'
  BY <1>6, <1>17 DEF Press
<1>18. ASSUME NEW i \in DOMAIN acts,
              \/ Build(i) \/ fetchDealerReveal(i) \/ preSimulateTransaction(i)
              \/ walletSignTransaction(i) \/ Expire(i)
       PROVE  CacheInv'
  BY <1>6, <1>18 DEF Build, fetchDealerReveal, preSimulateTransaction, walletSignTransaction,
                     Expire, Proceed
<1>19. ASSUME NEW i \in DOMAIN acts, Fail(i) \/ Confirm(i) \/ GiveUp(i)
       PROVE  CacheInv'
  BY <1>16, <1>19 DEF Fail, Confirm, GiveUp, Finish
<1> QED BY <1>3, <1>4, <1>6, <1>7, <1>8, <1>9, <1>10, <1>11, <1>12, <1>13, <1>14, <1>15,
           <1>17, <1>18, <1>19 DEF AppNext, appVars

(* With the page just opened nothing is shown yet.                         *)
LEMMA CacheInvInit == AppInit => CacheInv
<1> SUFFICES ASSUME AppInit PROVE CacheInv
  OBVIOUS
<1>1. HistoryTypeOK /\ Version \in Nat
  BY PaidOnceInit, ChainType DEF PaidOnce
<1>2. query \in Entry /\ query.fetch = NotYet
  BY DEF AppInit, Entry
<1>3. promised = NotYet /\ connected = TRUE
  BY DEF AppInit
<1> QED BY <1>1, <1>2, <1>3
   DEF CacheInv, QueryTypeOK, ShownIsPromised, AnswersAreFresh, CacheFollows

(* When an action ends, however it ends, what was read before it is not    *)
(* what an open account keeps showing: the read in progress is started     *)
(* over, and notifications only move it forward once they are all in.      *)
THEOREM EndsRefresh == AppSpec => []ActionsLeaveFreshCache
<1>1. PaidOnce /\ CacheInv /\ [AppNext]_appVars => PaidOnce' /\ CacheInv'
  BY PaidOnceStep, CacheInvStep DEF PaidOnce
<1>2. CacheInv => ActionsLeaveFreshCache
  BY ChainType DEF CacheInv, QueryTypeOK, CacheFollows, ActionsLeaveFreshCache, Settled, Entry
<1> QED BY <1>1, <1>2, PaidOnceInit, CacheInvInit, PTL DEF AppSpec

-----------------------------------------------------------------------------
(* The event feed.                                                         *)

Transaction == [ok: BOOLEAN, lines: 1..2, slot: Nat]

Sources == [state: {"opening", "open", "refused", "dropped"}, cursor: Nat]

LookBack ==
  [state: {"waiting", "reading", "failed", "done"}, from: Nat, todo: SUBSET Nat,
   lost: SUBSET Nat]

Possible == [tx: 1..Len(ledger), line: 1..2]

LedgerTypeOK == ledger \in Seq(Transaction)

FeedTypeOK ==
  /\ LedgerTypeOK
  /\ live \in Sources /\ live.cursor <= Len(ledger)
  /\ backfill \in LookBack /\ backfill.from > 0 /\ backfill.todo \subseteq 1..Len(ledger)
  /\ held \subseteq Possible

(* The rows are the newest of what is held.                                *)
RowsAreNewest == shown \in Newest(held)

(* The look back waits for the subscription.                               *)
LooksBack == backfill.state \in {"reading", "done"}
Listening == LooksBack => live.state \in {"open", "dropped"}

(* Between the first transaction looked back to and the last delivered,    *)
(* each is held, still to be read, or was refused.                         *)
NoGap ==
  LooksBack /\ live.state = "open" =>
    \A t \in backfill.from..live.cursor :
      TxEvents(t) \subseteq held \/ t \in backfill.todo \/ t \in backfill.lost

AllRead == backfill.state = "done" => backfill.todo = {}

FeedInv == FeedTypeOK /\ RowsAreNewest /\ Listening /\ NoGap /\ AllRead

-----------------------------------------------------------------------------
(* There are finitely many events.                                         *)
LEMMA PossibleIsFinite ==
  ASSUME NEW n \in Nat
  PROVE  IsFiniteSet([tx: 1..n, line: 1..2])
<1> DEFINE S == (1..n) \X (1..2)
           T == [tx: 1..n, line: 1..2]
           f == [p \in S |-> [tx |-> p[1], line |-> p[2]]]
<1>1. IsFiniteSet(1..n) /\ IsFiniteSet(1..2)
  <2>1. n \in Int /\ 1 \in Int /\ 2 \in Int
    OBVIOUS
  <2>2. \A k \in Int : IsFiniteSet(1..k)
    BY <2>1, FS_Interval
  <2> QED BY <2>1, <2>2
<1>2. IsFiniteSet(S)
  BY <1>1, FS_Product
<1>3. f \in [S -> T]
  OBVIOUS
<1>4. ASSUME NEW e \in T
      PROVE  \E p \in S : f[p] = e
  <2>1. <<e.tx, e.line>> \in S /\ f[<<e.tx, e.line>>] = [tx |-> e.tx, line |-> e.line]
    OBVIOUS
  <2>2. e = [tx |-> e.tx, line |-> e.line]
    OBVIOUS
  <2> QED BY <2>1, <2>2
<1>5. f \in Surjection(S, T)
  BY <1>3, <1>4 DEF Surjection
<1> QED BY <1>2, <1>5, FS_Surjection

(* A transaction's events are possible ones.                               *)
LEMMA EventsArePossible ==
  ASSUME LedgerTypeOK, NEW t \in 1..Len(ledger)
  PROVE  TxEvents(t) \subseteq Possible
<1>1. ledger[t] \in Transaction
  BY ElementOfSeq DEF LedgerTypeOK
<1> QED BY <1>1 DEF TxEvents, Possible, Transaction

(* Merging events keeps the rows the newest of what is held.               *)
LEMMA MergeKeepsRows ==
  ASSUME held \subseteq Possible, RowsAreNewest, UNCHANGED ledger,
         NEW events \in SUBSET Possible, insertEvents(events)
  PROVE  held' = held \cup events /\ held' \subseteq Possible' /\ RowsAreNewest'
<1>1. held' = held \cup events /\ Possible' = Possible
  BY DEF insertEvents, Possible
<1>2. CASE events \subseteq held
  BY <1>1, <1>2 DEF insertEvents, RowsAreNewest, Newest, Newer
<1>3. CASE ~(events \subseteq held)
  <2>1. shown' \in Newest(held')
    BY <1>3 DEF insertEvents
  <2> QED BY <1>1, <2>1 DEF RowsAreNewest, Newest, Newer
<1> QED BY <1>1, <1>2, <1>3

(* A new transaction changes nothing about the older ones.                 *)
LEMMA LedgerGrows ==
  ASSUME FeedTypeOK, Transact
  PROVE  /\ LedgerTypeOK' /\ Len(ledger') = Len(ledger) + 1
         /\ \A t \in 1..Len(ledger) : ledger'[t] = ledger[t]
<1>1. ledger \in Seq(Transaction)
  BY DEF FeedTypeOK, LedgerTypeOK
<1>2. PICK ok \in BOOLEAN, lines \in 1..2, later \in 0..1 :
        ledger' = Append(ledger,
          [ok |-> ok, lines |-> lines,
           slot |-> later + (IF ledger = << >> THEN 0 ELSE Last(ledger).slot)])
  BY DEF Transact
<1>3. (IF ledger = << >> THEN 0 ELSE Last(ledger).slot) \in Nat
  <2>1. CASE ledger = << >>
    BY <2>1
  <2>2. CASE ledger # << >>
    <3>1. Len(ledger) \in 1..Len(ledger)
      BY <1>1, <2>2, EmptySeq, LenProperties
    <3>2. ledger[Len(ledger)] \in Transaction
      BY <1>1, <3>1, ElementOfSeq
    <3> QED BY <2>2, <3>2 DEF Last, Transaction
  <2> QED BY <2>1, <2>2
<1>4. PICK tx \in Transaction : ledger' = Append(ledger, tx)
  <2>1. PICK s \in Nat : s = later + (IF ledger = << >> THEN 0 ELSE Last(ledger).slot)
    BY <1>3
  <2>2. [ok |-> ok, lines |-> lines, slot |-> s] \in Transaction
    BY DEF Transaction
  <2>3. ledger' = Append(ledger, [ok |-> ok, lines |-> lines, slot |-> s])
    BY <1>2, <2>1
  <2> QED BY <2>2, <2>3
<1> QED BY <1>1, <1>4, AppendProperties DEF LedgerTypeOK

(* What a step writes of the look back.                                    *)
At(b, state, from, todo, lost) ==
  b \in LookBack /\ b.state = state /\ b.from = from /\ b.todo = todo /\ b.lost = lost

(* Each write of the look back sets what it names and keeps the rest.      *)
LEMMA LookBackWrites ==
  ASSUME NEW b \in LookBack, NEW state \in {"waiting", "reading", "failed", "done"},
         NEW from \in Nat, NEW todo \in SUBSET Nat, NEW lost \in SUBSET Nat
  PROVE  /\ At([b EXCEPT !.state = state, !.from = from, !.todo = todo],
               state, from, todo, b.lost)
         /\ At([b EXCEPT !.state = state], state, b.from, b.todo, b.lost)
         /\ At([b EXCEPT !.todo = todo, !.lost = lost], b.state, b.from, todo, lost)
BY DEF LookBack, At

(* One case per step of the subscription and the look back.                *)
LEMMA FeedInvStep ==
  ASSUME FeedInv, [FeedNext]_feedVars
  PROVE  FeedInv'
<1>1. /\ LedgerTypeOK /\ Len(ledger) \in Nat
      /\ live \in Sources /\ live.cursor <= Len(ledger) /\ live.cursor \in Nat
      /\ backfill \in LookBack /\ backfill.from \in Nat /\ backfill.from > 0
      /\ backfill.todo \subseteq 1..Len(ledger)
      /\ held \subseteq Possible /\ RowsAreNewest /\ Listening /\ NoGap /\ AllRead
  BY LenProperties DEF FeedInv, FeedTypeOK, LedgerTypeOK, Sources, LookBack
<1>2. ASSUME UNCHANGED ledger
      PROVE  LedgerTypeOK' /\ Possible' = Possible /\ \A t : TxEvents(t)' = TxEvents(t)
  BY <1>1, <1>2 DEF LedgerTypeOK, Possible, TxEvents
<1>3. ASSUME UNCHANGED <<ledger, held, shown>>
      PROVE  RowsAreNewest' /\ held' \subseteq Possible'
  BY <1>1, <1>2, <1>3 DEF RowsAreNewest, Newest, Newer
<1>4. CASE UNCHANGED <<ledger, live, backfill, held, shown>>
  BY <1>1, <1>2, <1>3, <1>4
     DEF FeedInv, FeedTypeOK, Listening, LooksBack, NoGap, AllRead
<1>5. CASE Transact
  <2>1. /\ LedgerTypeOK' /\ Len(ledger') = Len(ledger) + 1
        /\ \A t \in 1..Len(ledger) : ledger'[t] = ledger[t]
    BY <1>5, LedgerGrows DEF FeedInv
  <2>2. UNCHANGED <<live, backfill, held, shown>>
    BY <1>5 DEF Transact
  <2>3. Possible \subseteq Possible'
    BY <1>1, <2>1 DEF Possible
  <2>4. \A e \in held : e.tx \in 1..Len(ledger)
    BY <1>1 DEF Possible
  <2>5. \A a, b \in held : Newer(a, b)' <=> Newer(a, b)
    BY <2>1, <2>4 DEF Newer
  <2>6. RowsAreNewest'
    BY <1>1, <2>2, <2>5 DEF RowsAreNewest, Newest
  <2>7. \A t \in 1..Len(ledger) : TxEvents(t)' = TxEvents(t)
    BY <2>1 DEF TxEvents
  <2>8. NoGap'
    BY <1>1, <2>2, <2>7 DEF NoGap, LooksBack
  <2> QED BY <1>1, <2>1, <2>2, <2>3, <2>6, <2>8
             DEF FeedInv, FeedTypeOK, Listening, LooksBack, AllRead
<1>6. CASE OpenSubscription
  <2>1. /\ ~LooksBack /\ live' \in Sources /\ live'.cursor = Len(ledger)
        /\ UNCHANGED <<ledger, backfill, held, shown>>
    BY <1>1, <1>6 DEF OpenSubscription, Listening, Sources
  <2> QED BY <1>1, <1>2, <1>3, <2>1
             DEF FeedInv, FeedTypeOK, Listening, LooksBack, NoGap, AllRead
<1>7. CASE LoseSubscription
  <2>1. /\ live' \in Sources /\ live'.cursor = live.cursor /\ live'.state # "open"
        /\ live.state = "open" => live'.state = "dropped"
        /\ live.state \in {"opening", "open"}
        /\ UNCHANGED <<ledger, backfill, held, shown>>
    BY <1>1, <1>7 DEF LoseSubscription, Sources
  <2> QED BY <1>1, <1>2, <1>3, <2>1
             DEF FeedInv, FeedTypeOK, Listening, LooksBack, NoGap, AllRead
<1>8. CASE drainSubscription
  <2>1. PICK n \in Nat : n = live.cursor + 1
    BY <1>1
  <2>2. /\ live.state = "open" /\ n \in 1..Len(ledger)
        /\ live' = [live EXCEPT !.cursor = n]
        /\ insertEvents(TxEvents(n)) /\ UNCHANGED <<ledger, backfill>>
    BY <1>1, <1>8, <2>1 DEF drainSubscription
  <2>3. live' \in Sources /\ live'.state = "open" /\ live'.cursor = n
    BY <1>1, <2>2 DEF Sources
  <2>4. TxEvents(n) \in SUBSET Possible
    BY <1>1, <2>2, EventsArePossible
  <2>5. held' = held \cup TxEvents(n) /\ held' \subseteq Possible' /\ RowsAreNewest'
    BY <1>1, <2>2, <2>4, MergeKeepsRows
  <2>6. NoGap'
    BY <1>1, <1>2, <2>1, <2>2, <2>3, <2>5 DEF NoGap, LooksBack
  <2> QED BY <1>1, <1>2, <2>2, <2>3, <2>5, <2>6
             DEF FeedInv, FeedTypeOK, Listening, LooksBack, AllRead
<1>9. CASE ListSignatures
  <2> DEFINE from == IF Len(ledger) > SignatureLimit THEN Len(ledger) - SignatureLimit + 1 ELSE 1
             todo == {t \in from..Len(ledger) : ledger[t].ok}
  <2>1. backfill' = [backfill EXCEPT !.state = "reading", !.from = from, !.todo = todo]
    BY <1>9, Zenon DEF ListSignatures
  <2>2. from \in Nat /\ from > 0
    BY <1>1, FeedAssumption
  <2>3. todo \in SUBSET Nat /\ todo \subseteq 1..Len(ledger)
    BY <1>1, <2>2
  <2>4. live.state \in {"open", "dropped"} /\ UNCHANGED <<ledger, live, held, shown>>
    BY <1>9 DEF ListSignatures, MayList
  <2>5. \A t \in from..live.cursor : ledger[t].ok => t \in todo
    BY <1>1, <2>2
  <2> HIDE DEF from, todo
  <2>6. \A t \in from..live.cursor : TxEvents(t) = {} \/ t \in todo
    <3>1. \A t : ~ledger[t].ok => TxEvents(t) = {}
      BY DEF TxEvents
    <3> QED BY <2>5, <3>1, Zenon
  <2>7. At(backfill', "reading", from, todo, backfill.lost)
    BY <1>1, <2>1, <2>2, <2>3, LookBackWrites, Zenon
  <2>8. NoGap'
    BY <1>2, <2>4, <2>6, <2>7 DEF NoGap, At
  <2> QED BY <1>1, <1>2, <1>3, <2>2, <2>3, <2>4, <2>7, <2>8, SMTT(30)
             DEF FeedInv, FeedTypeOK, Listening, LooksBack, AllRead, At
<1>10. CASE ListFails
  <2>1. backfill' = [backfill EXCEPT !.state = "failed"] /\ UNCHANGED <<ledger, live, held, shown>>
    BY <1>10, SMTT(30) DEF ListFails
  <2>2. At(backfill', "failed", backfill.from, backfill.todo, backfill.lost)
    BY <1>1, <2>1, LookBackWrites DEF LookBack
  <2> QED BY <1>1, <1>2, <1>3, <2>1, <2>2
             DEF FeedInv, FeedTypeOK, Listening, LooksBack, NoGap, AllRead, At
<1>11. CASE ReadBatch
  <2>1. PICK rejected \in SUBSET NextBatch :
          /\ insertEvents(UNION {TxEvents(t) : t \in NextBatch \ rejected})
          /\ backfill' = [backfill EXCEPT !.todo = @ \ NextBatch, !.lost = @ \cup rejected]
    BY <1>11 DEF ReadBatch
  <2>2. backfill.state = "reading" /\ UNCHANGED <<ledger, live>>
    BY <1>11 DEF ReadBatch
  <2>3. NextBatch \subseteq backfill.todo /\ backfill.lost \in SUBSET Nat
    BY <1>1 DEF NextBatch, LookBack
  <2>4. PICK todo, lost : todo = backfill.todo \ NextBatch /\ lost = backfill.lost \cup rejected
    BY Zenon
  <2>5. todo \in SUBSET Nat /\ lost \in SUBSET Nat /\ todo \subseteq 1..Len(ledger)
    BY <1>1, <2>1, <2>3, <2>4
  <2>6. backfill' = [backfill EXCEPT !.todo = todo, !.lost = lost]
    BY <2>1, <2>4, SMTT(30)
  <2>7. At(backfill', "reading", backfill.from, todo, lost)
    BY <1>1, <2>2, <2>5, <2>6, LookBackWrites
  <2>8. UNION {TxEvents(t) : t \in NextBatch \ rejected} \in SUBSET Possible
    BY <1>1, <2>3, EventsArePossible
  <2>9. /\ held' = held \cup UNION {TxEvents(t) : t \in NextBatch \ rejected}
        /\ held' \subseteq Possible' /\ RowsAreNewest'
    BY <1>1, <2>1, <2>2, <2>8, MergeKeepsRows
  <2>10. NoGap'
    <3>1. ASSUME live.state = "open", NEW t \in backfill.from..live.cursor
          PROVE  TxEvents(t) \subseteq held' \/ t \in todo \/ t \in lost
      BY <1>1, <2>2, <2>4, <2>9, <3>1 DEF NoGap, LooksBack
    <3> QED BY <1>2, <2>2, <2>7, <3>1 DEF NoGap, At
  <2> QED BY <1>1, <1>2, <2>2, <2>5, <2>7, <2>9, <2>10, SMTT(30)
             DEF FeedInv, FeedTypeOK, Listening, LooksBack, AllRead, At
<1>12. CASE FinishBackfill
  <2>1. /\ backfill' = [backfill EXCEPT !.state = "done"] /\ backfill.todo = {}
        /\ backfill.state = "reading" /\ UNCHANGED <<ledger, live, held, shown>>
    BY <1>12, SMTT(30) DEF FinishBackfill
  <2>2. At(backfill', "done", backfill.from, backfill.todo, backfill.lost)
    BY <1>1, <2>1, LookBackWrites DEF LookBack
  <2> QED BY <1>1, <1>2, <1>3, <2>1, <2>2
             DEF FeedInv, FeedTypeOK, Listening, LooksBack, NoGap, AllRead, At
<1>13. CASE Remount
  <2>1. /\ live' = Opening /\ backfill' = Waiting /\ held' = {} /\ shown' = {}
        /\ UNCHANGED ledger
    BY <1>13 DEF Remount
  <2>2. RowsAreNewest'
    BY <2>1, FS_EmptySet, FeedAssumption DEF RowsAreNewest, Newest
  <2> QED BY <1>1, <1>2, <2>1, <2>2
             DEF FeedInv, FeedTypeOK, Listening, LooksBack, NoGap, AllRead, Opening, Waiting,
                 Sources, LookBack
<1> QED BY <1>4, <1>5, <1>6, <1>7, <1>8, <1>9, <1>10, <1>11, <1>12, <1>13
        DEF FeedNext, feedVars

(* A page that is just opened holds nothing.                               *)
LEMMA FeedInvInit == FeedInit => FeedInv
<1> SUFFICES ASSUME FeedInit PROVE FeedInv
  OBVIOUS
<1>1. /\ ledger = << >> /\ live = Opening /\ backfill = Waiting /\ held = {} /\ shown = {}
  BY DEF FeedInit
<1>2. LedgerTypeOK /\ Len(ledger) = 0
  BY <1>1 DEF LedgerTypeOK
<1>3. RowsAreNewest
  BY <1>1, FS_EmptySet, FeedAssumption DEF RowsAreNewest, Newest
<1> QED BY <1>1, <1>2, <1>3
        DEF FeedInv, FeedTypeOK, Listening, LooksBack, NoGap, AllRead, Opening, Waiting,
            Sources, LookBack

(* The subscription opens before the look back starts, so the two overlap: *)
(* a feed that has caught up and lost nothing holds every event since the  *)
(* first transaction looked back to, and shows the newest, for any history,*)
(* any limit and any batch size.                                           *)
THEOREM FeedIsComplete == FeedSpec => []FeedMissesNothing
<1>1. FeedInv /\ [FeedNext]_feedVars => FeedInv'
  BY FeedInvStep
<1>2. FeedInv => FeedMissesNothing
  <2> SUFFICES ASSUME FeedInv, CaughtUp
               PROVE  /\ UNION {TxEvents(t) : t \in backfill.from..Len(ledger)} \subseteq held
                      /\ Cardinality(shown) =
                           IF Cardinality(held) < MaxEvents THEN Cardinality(held) ELSE MaxEvents
                      /\ \A row \in shown, hidden \in held \ shown : ~Newer(hidden, row)
    BY DEF FeedMissesNothing
  <2>1. UNION {TxEvents(t) : t \in backfill.from..Len(ledger)} \subseteq held
    BY DEF FeedInv, NoGap, AllRead, CaughtUp, LooksBack
  <2>2. shown \in SUBSET held /\ Cardinality(shown) <= MaxEvents
        /\ (Cardinality(shown) < MaxEvents => shown = held)
        /\ \A row \in shown, hidden \in held \ shown : ~Newer(hidden, row)
    BY DEF FeedInv, RowsAreNewest, Newest
  <2>3. IsFiniteSet(Possible) /\ held \in SUBSET Possible
    BY PossibleIsFinite, LenProperties DEF FeedInv, FeedTypeOK, LedgerTypeOK, Possible
  <2>4. IsFiniteSet(held) /\ Cardinality(held) \in Nat
    BY <2>3, FS_Subset, FS_CardinalityType
  <2>5. IsFiniteSet(shown) /\ Cardinality(shown) \in Nat /\ Cardinality(shown) <= Cardinality(held)
    BY <2>2, <2>4, FS_Subset, FS_CardinalityType
  <2>6. Cardinality(shown) =
          IF Cardinality(held) < MaxEvents THEN Cardinality(held) ELSE MaxEvents
    BY <2>2, <2>4, <2>5, FeedAssumption
  <2> QED BY <2>1, <2>2, <2>6
<1> QED BY <1>1, <1>2, FeedInvInit, PTL DEF FeedSpec
=============================================================================
