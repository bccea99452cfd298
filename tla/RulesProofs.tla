---------------------------- MODULE RulesProofs ----------------------------
(***************************************************************************)
(* The rules of a hand against the program's loops, for every hand of the  *)
(* deck's cards, every hand size and every u64; the client's numbers,      *)
(* addresses and instructions against what the program reads of them, and  *)
(* the accounts the program stores against what the client reads, for      *)
(* every width of the integers; the dealer's commitment against the        *)
(* program's check of a card, and the advisor's odds against the cards     *)
(* left, for every deck and every shuffle; and the lines of a transaction  *)
(* against the rows of the feed.                                           *)
(*                                                                         *)
(* A loop is a fold.  What it has computed after each step exists (the     *)
(* lemmas ...Runs), and induction over the steps compares it with the      *)
(* rule.  An offset is a sum of widths, and what was laid out is read back.*)
(***************************************************************************)
EXTENDS MCRules, CardsProofs

(* The cards a hand holds are the deck's, and no more than it has slots    *)
(* for: draws, thefts and second chances keep it so.                       *)
HandTypeOK == hand \in Hand

(* No step draws past the last slot or a card the deck does not have.      *)
LEMMA HandIsTyped == RulesSpec => []HandTypeOK
<1>1. RulesInit => HandTypeOK
  BY HandSizeAssumption DEF RulesInit, HandTypeOK, Hand
<1>2. ASSUME HandTypeOK, [RulesNext]_<<scene, hand, others>>
      PROVE  HandTypeOK'
  <2>1. CASE DrawCard
    <3>1. PICK c \in Drawable : hand' = Append(hand, c)
      BY <2>1 DEF DrawCard
    <3>2. Len(hand) < MaxHandSize
      BY <2>1 DEF DrawCard
    <3> QED BY <1>2, <3>1, <3>2, DrawableAssumption, AppendType DEF HandTypeOK
  <2>2. CASE GiveUpCard
    <3>1. hand # << >> /\ hand' = Front(hand)
      BY <2>2 DEF GiveUpCard, PopCard
    <3> QED BY <1>2, <3>1, FrontHand DEF HandTypeOK
  <2>3. CASE LoseBestCard
    <3>1. PICK i \in 1..MaxHandSize : IsHighestAlpha(hand, i) /\ hand' = RemoveAt(hand, i)
      BY <2>3 DEF LoseBestCard
    <3>2. i \in 1..Len(hand)
      BY <3>1 DEF IsHighestAlpha
    <3> QED BY <1>2, <3>1, <3>2, RemoveAtHand DEF HandTypeOK
  <2>4. CASE UNCHANGED hand
    BY <1>2, <2>4 DEF HandTypeOK
  <2>5. RulesNext => DrawCard \/ GiveUpCard \/ LoseBestCard \/ UNCHANGED hand
    BY DEF RulesNext, LogSomething, Shuffle
  <2> QED BY <1>2, <2>1, <2>2, <2>3, <2>4, <2>5
<1> QED BY <1>1, <1>2, PTL DEF RulesSpec

-----------------------------------------------------------------------------
(* The loop of check_bust.                                                 *)

Unseen == [seen |-> {}, bust |-> 0]
See(acc, c) ==
  IF acc.bust # 0 \/ c.card_type # ALPHA \/ c.value \notin 1..13 THEN acc
  ELSE IF c.value \in acc.seen THEN [acc EXCEPT !.bust = c.value]
  ELSE [acc EXCEPT !.seen = @ \cup {c.value}]

(* The loop as what it has seen after each card.                           *)
LEMMA CheckBustRuns ==
  ASSUME NEW h \in Seq(Card)
  PROVE  \E run : /\ run[0] = Unseen
                  /\ \A k \in 1..Len(h) : run[k] = See(run[k - 1], h[k])
                  /\ CheckBust(h) = run[Len(h)].bust
<1> DEFINE Seen == [seen : SUBSET (1..13), bust : 0..13]
           g == [p \in Card \X Seen |-> See(p[2], p[1])]
           Solves(f) == f = [S \in SUBSET (DOMAIN h) |->
                               IF S = {} THEN Unseen ELSE See(f[S \ {Max(S)}], h[Max(S)])]
           iter == CHOOSE f : Solves(f)
           run == [k \in 0..Len(h) |-> iter[1..k]]
<1>1. CheckBust(h) = iter[DOMAIN h].bust
  BY DEF CheckBust, FoldLeft, MapThenFoldSet, See, Unseen
<1>2. Unseen \in Seen /\ \A c \in Card, acc \in Seen : See(acc, c) \in Seen
  BY DEF Unseen, See, Card
<1>3. g \in [Card \X Seen -> Seen]
  BY <1>2
<1>4. \A c \in Card, acc \in Seen : g[<<c, acc>>] = See(acc, c)
  OBVIOUS
<1> HIDE DEF g, Seen
<1>5. PICK it \in [SUBSET (DOMAIN h) -> Seen] : IsFoldLeft(it, g, Unseen, h)
  BY <1>2, <1>3, FoldLeftExists
<1>6. Solves(it)
  <2>1. ASSUME NEW S \in SUBSET (DOMAIN h), S # {}
        PROVE  it[S] = See(it[S \ {Max(S)}], h[Max(S)])
    <3>1. Len(h) \in Nat /\ DOMAIN h = 1..Len(h)
      OBVIOUS
    <3>2. Max(S) \in DOMAIN h
      BY <2>1, <3>1, MaxOfPositions
    <3>3. h[Max(S)] \in Card /\ it[S \ {Max(S)}] \in Seen
      BY <3>2
    <3> QED BY <1>4, <1>5, <2>1, <3>3 DEF IsFoldLeft
  <2>2. it[{}] = Unseen
    BY <1>5 DEF IsFoldLeft
  <2> QED BY <2>1, <2>2
<1>7. Solves(iter)
  BY <1>6
<1> HIDE DEF iter
<1>8. run[0] = Unseen
  BY <1>7
<1>9. ASSUME NEW k \in 1..Len(h) PROVE run[k] = See(run[k - 1], h[k])
  <2>1. 1..k \in SUBSET (DOMAIN h) /\ 1..k # {} /\ k \in 0..Len(h) /\ k - 1 \in 0..Len(h)
    OBVIOUS
  <2>2. Max(1..k) = k /\ (1..k) \ {Max(1..k)} = 1..(k - 1)
    BY MaxOfFirst
  <2> QED BY <1>7, <2>1, <2>2
<1>10. DOMAIN h = 1..Len(h) /\ run[Len(h)] = iter[1..Len(h)]
  OBVIOUS
<1> HIDE DEF run
<1> QED BY <1>1, <1>8, <1>9, <1>10

(* What the loop knows after k cards: the values shown so far, or the card *)
(* that busts the hand.                                                    *)
SeenAfter(h, k, acc) ==
  /\ acc \in [seen : SUBSET (1..13), bust : 0..13]
  /\ acc.bust = 0 => /\ \A i \in 1..k : ~RepeatsAt(h, i)
                     /\ acc.seen = {h[j].value : j \in {i \in 1..k : IsCountedAlpha(h[i])}}
  /\ acc.bust # 0 => \E i \in 1..k : BustsAt(h, i) /\ h[i].value = acc.bust

(* One round of check_bust's loop keeps what the rounds before established. *)
LEMMA SeeOneMore ==
  ASSUME NEW h \in Seq(Card), NEW k \in 1..Len(h), NEW acc, SeenAfter(h, k - 1, acc)
  PROVE  SeenAfter(h, k, See(acc, h[k]))
<1> DEFINE c == h[k]
           new == See(acc, c)
           Shown(n) == {h[j].value : j \in {i \in 1..n : IsCountedAlpha(h[i])}}
<1>0. /\ acc \in [seen : SUBSET (1..13), bust : 0..13]
      /\ c \in Card /\ k \in Nat /\ 1..k = (1..(k - 1)) \cup {k}
      /\ \A i \in 1..(k - 1) : i \in 1..k
  BY DEF SeenAfter
<1>1. CASE acc.bust # 0
  <2>1. new = acc
    BY <1>1 DEF See
  <2> QED BY <1>0, <1>1, <2>1 DEF SeenAfter
<1>2. CASE acc.bust = 0 /\ ~IsCountedAlpha(c)
  <2>1. new = acc
    BY <1>2 DEF See, IsCountedAlpha
  <2>2. Shown(k) = Shown(k - 1)
    BY <1>0, <1>2
  <2>3. ~RepeatsAt(h, k)
    BY <1>2 DEF RepeatsAt
  <2> QED BY <1>0, <1>2, <2>1, <2>2, <2>3 DEF SeenAfter
<1>3. CASE acc.bust = 0 /\ IsCountedAlpha(c) /\ c.value \in acc.seen
  <2>1. new = [acc EXCEPT !.bust = c.value] /\ c.value \in 1..13
    BY <1>3 DEF See, IsCountedAlpha
  <2>2. RepeatsAt(h, k)
    BY <1>3 DEF RepeatsAt, SeenAfter
  <2>3. BustsAt(h, k)
    BY <1>3, <2>2 DEF BustsAt, SeenAfter
  <2>0. [acc EXCEPT !.bust = c.value] = [seen |-> acc.seen, bust |-> c.value]
    BY <1>0
  <2>4. new.bust = c.value /\ new \in [seen : SUBSET (1..13), bust : 0..13] /\ new.bust # 0
    <3> HIDE DEF new, c
    <3> QED BY <1>0, <2>0, <2>1
  <2>5. \E i \in 1..k : BustsAt(h, i) /\ h[i].value = new.bust
    BY <1>0, <2>3, <2>4
  <2> HIDE DEF new
  <2> QED BY <2>4, <2>5 DEF SeenAfter, new
<1>4. CASE acc.bust = 0 /\ IsCountedAlpha(c) /\ c.value \notin acc.seen
  <2>1. new = [acc EXCEPT !.seen = acc.seen \cup {c.value}] /\ c.value \in 1..13
    BY <1>4 DEF See, IsCountedAlpha
  <2>2. ~RepeatsAt(h, k)
    BY <1>4 DEF RepeatsAt, SeenAfter
  <2>3. Shown(k) = Shown(k - 1) \cup {c.value}
    BY <1>0, <1>4
  <2>4. /\ new \in [seen : SUBSET (1..13), bust : 0..13]
        /\ new.bust = 0 /\ new.seen = acc.seen \cup {c.value}
    <3>1. [acc EXCEPT !.seen = acc.seen \cup {c.value}]
            = [seen |-> acc.seen \cup {c.value}, bust |-> 0]
      <4>1. acc \in [seen : SUBSET (1..13), bust : 0..13] /\ acc.bust = 0
        BY <1>0, <1>4
      <4>2. \A s : [acc EXCEPT !.seen = s] = [seen |-> s, bust |-> acc.bust]
        BY <4>1
      <4> QED BY <4>1, <4>2
    <3>2. acc.seen \cup {c.value} \in SUBSET (1..13)
      BY <1>0, <2>1
    <3> HIDE DEF new, c
    <3> QED BY <2>1, <3>1, <3>2
  <2>5. \A i \in 1..k : ~RepeatsAt(h, i)
    BY <1>0, <1>4, <2>2 DEF SeenAfter
  <2>6. acc.seen = Shown(k - 1)
    BY <1>4 DEF SeenAfter
  <2> HIDE DEF new
  <2> QED BY <2>3, <2>4, <2>5, <2>6 DEF SeenAfter, new
<1>5. acc.bust = 0 \/ acc.bust # 0
  OBVIOUS
<1> QED BY <1>1, <1>2, <1>3, <1>4, <1>5

(* The rule and the loop agree on every hand.                              *)
LEMMA BustRule ==
  ASSUME NEW h \in Seq(Card)
  PROVE  /\ IsBust(h) <=> CheckBust(h) # 0
         /\ \A i \in 1..Len(h) : BustsAt(h, i) => CheckBust(h) = h[i].value
<1>1. PICK run : /\ run[0] = Unseen
                 /\ \A k \in 1..Len(h) : run[k] = See(run[k - 1], h[k])
                 /\ CheckBust(h) = run[Len(h)].bust
  BY CheckBustRuns
<1> DEFINE Good == {k \in Nat : k <= Len(h) => SeenAfter(h, k, run[k])}
<1>2. 0 \in Good
  BY <1>1 DEF SeenAfter, Unseen
<1>3. ASSUME NEW k \in Nat, k \in Good PROVE k + 1 \in Good
  <2>1. SUFFICES ASSUME k + 1 <= Len(h) PROVE SeenAfter(h, k + 1, run[k + 1])
    OBVIOUS
  <2> DEFINE m == k + 1
  <2>2. m \in 1..Len(h) /\ m - 1 = k
    BY <2>1
  <2>3. SeenAfter(h, m - 1, run[k]) /\ run[m] = See(run[k], h[m])
    BY <1>1, <1>3, <2>2
  <2> HIDE DEF m
  <2>4. SeenAfter(h, m, See(run[k], h[m]))
    BY <2>2, <2>3, SeeOneMore
  <2> QED BY <2>3, <2>4 DEF m
<1> HIDE DEF Good
<1>4. Len(h) \in Good
  BY <1>2, <1>3, NatSetInduction
<1>5. SeenAfter(h, Len(h), run[Len(h)])
  BY <1>4 DEF Good
<1> DEFINE bust == run[Len(h)].bust
<1>6. /\ bust = 0 => \A i \in 1..Len(h) : ~RepeatsAt(h, i)
      /\ bust # 0 => \E i \in 1..Len(h) : BustsAt(h, i) /\ h[i].value = bust
  BY <1>5 DEF SeenAfter
<1>7. \A i, j \in 1..Len(h) : BustsAt(h, i) /\ BustsAt(h, j) => i = j
  <2>1. \A i, j \in 1..Len(h) : BustsAt(h, i) /\ BustsAt(h, j) => ~(i < j)
    BY DEF BustsAt
  <2> QED BY <2>1
<1> HIDE DEF bust
<1>8. IsBust(h) <=> bust # 0
  BY <1>6 DEF IsBust, BustsAt
<1>9. \A i \in 1..Len(h) : BustsAt(h, i) => bust = h[i].value
  BY <1>6, <1>7 DEF BustsAt
<1> QED BY <1>1, <1>8, <1>9 DEF bust

(* check_bust is the bust rule: hit finds a bust exactly when an alpha     *)
(* value repeats, and stores the value of the first card that repeats one. *)
THEOREM BustIsCheckBust == RulesSpec => []BustMatchesLoop
<1>1. HandTypeOK => BustMatchesLoop
  BY BustRule DEF HandTypeOK, Hand, BustMatchesLoop
<1> QED BY <1>1, HandIsTyped, PTL

-----------------------------------------------------------------------------
(* The search of the rug pull.                                             *)

NoBest == [best_val |-> 0, best_idx |-> 0]
Better(h, acc, i) ==
  IF h[i].card_type = ALPHA /\ h[i].value > acc.best_val
  THEN [best_val |-> h[i].value, best_idx |-> i] ELSE acc

(* The search as the best card so far at each position.                    *)
LEMMA BestAlphaRuns ==
  ASSUME NEW h \in Seq(Card)
  PROVE  \E run : /\ run[0] = NoBest
                  /\ \A k \in 1..Len(h) : run[k] = Better(h, run[k - 1], k)
                  /\ BestAlpha(h) = run[Len(h)].best_idx
<1> DEFINE D == 1..Len(h)
           at == [i \in D |-> i]
           Best == [best_val : 0..13, best_idx : 0..Len(h)]
           g == [p \in D \X Best |-> Better(h, p[2], p[1])]
           Solves(f) == f = [S \in SUBSET (DOMAIN at) |->
                               IF S = {} THEN NoBest ELSE Better(h, f[S \ {Max(S)}], at[Max(S)])]
           iter == CHOOSE f : Solves(f)
           run == [k \in 0..Len(h) |-> iter[1..k]]
<1>1. BestAlpha(h) = iter[DOMAIN at].best_idx
  BY DEF BestAlpha, FoldLeft, MapThenFoldSet, Better, NoBest
<1>2. DOMAIN at = D /\ at \in Seq(D) /\ \A i \in D : at[i] = i
  OBVIOUS
<1>3. NoBest \in Best /\ \A i \in D, acc \in Best : Better(h, acc, i) \in Best
  <2>1. NoBest \in Best
    BY DEF NoBest
  <2>2. ASSUME NEW i \in D, NEW acc \in Best PROVE Better(h, acc, i) \in Best
    <3>1. h[i] \in Card
      OBVIOUS
    <3>2. h[i].value \in 0..13 /\ i \in 0..Len(h)
      BY <3>1 DEF Card
    <3> QED BY <3>2 DEF Better
  <2> QED BY <2>1, <2>2
<1>4. g \in [D \X Best -> Best]
  BY <1>3
<1>5. \A i \in D, acc \in Best : g[<<i, acc>>] = Better(h, acc, i)
  OBVIOUS
<1> HIDE DEF at, g, Best, D
<1>6. PICK it \in [SUBSET (DOMAIN at) -> Best] : IsFoldLeft(it, g, NoBest, at)
  <2>1. at \in Seq(D)
    BY <1>2
  <2>2. NoBest \in Best
    BY <1>3
  <2> QED BY <1>4, <2>1, <2>2, FoldLeftExists
<1>7. Solves(it)
  <2>1. ASSUME NEW S \in SUBSET (DOMAIN at), S # {}
        PROVE  it[S] = Better(h, it[S \ {Max(S)}], at[Max(S)])
    <3>1. Len(h) \in Nat /\ DOMAIN at = 1..Len(h)
      BY <1>2 DEF D
    <3>2. Max(S) \in DOMAIN at
      BY <2>1, <3>1, MaxOfPositions
    <3>3. at[Max(S)] \in D /\ it[S \ {Max(S)}] \in Best
      BY <1>2, <3>2
    <3> QED BY <1>5, <1>6, <2>1, <3>3 DEF IsFoldLeft
  <2>2. it[{}] = NoBest
    BY <1>6 DEF IsFoldLeft
  <2> QED BY <2>1, <2>2
<1>8. Solves(iter)
  BY <1>7
<1> HIDE DEF iter
<1>9. run[0] = NoBest
  BY <1>8
<1>10. ASSUME NEW k \in 1..Len(h) PROVE run[k] = Better(h, run[k - 1], k)
  <2>1. 1..k \in SUBSET (DOMAIN at) /\ 1..k # {} /\ k \in 0..Len(h) /\ k - 1 \in 0..Len(h)
    BY <1>2 DEF D
  <2>2. Max(1..k) = k /\ (1..k) \ {Max(1..k)} = 1..(k - 1)
    BY MaxOfFirst
  <2>3. at[k] = k
    BY <1>2 DEF D
  <2> QED BY <1>8, <2>1, <2>2, <2>3
<1>11. DOMAIN at = 1..Len(h) /\ run[Len(h)] = iter[1..Len(h)]
  BY <1>2 DEF D
<1> HIDE DEF run
<1> QED BY <1>1, <1>9, <1>10, <1>11

(* The best of the first k cards, or none of them.                         *)
BestAfter(h, k, acc) ==
  /\ acc \in [best_val : 0..13, best_idx : 0..k]
  /\ acc.best_idx = 0 => acc.best_val = 0
  /\ acc.best_idx # 0 => /\ h[acc.best_idx].card_type = ALPHA
                         /\ h[acc.best_idx].value = acc.best_val /\ acc.best_val > 0
  /\ \A j \in 1..k : h[j].card_type = ALPHA =>
       /\ h[j].value <= acc.best_val
       /\ j < acc.best_idx => h[j].value < acc.best_val

(* One round of the search for the best card, likewise.                    *)
LEMMA SearchOneMore ==
  ASSUME NEW h, NEW k \in Nat, k > 0, \A j \in 1..k : h[j] \in Card,
         NEW acc, BestAfter(h, k - 1, acc)
  PROVE  BestAfter(h, k, Better(h, acc, k))
<1> DEFINE v == acc.best_val
           i == acc.best_idx
<1>1. acc \in [best_val : 0..13, best_idx : 0..(k - 1)]
  BY DEF BestAfter
<1>2. v \in 0..13 /\ i \in 0..(k - 1) /\ acc = [best_val |-> v, best_idx |-> i]
  BY <1>1
<1>3. \A j \in 1..k : h[j].value \in 0..13
  BY DEF Card
<1>4. /\ i = 0 => v = 0
      /\ i # 0 => h[i].card_type = ALPHA /\ h[i].value = v /\ v > 0
      /\ \A j \in 1..(k - 1) : h[j].card_type = ALPHA =>
           h[j].value <= v /\ (j < i => h[j].value < v)
  BY DEF BestAfter
<1>5. \A j \in 1..k : j \in 1..(k - 1) \/ j = k
  OBVIOUS
<1> HIDE DEF v, i
<1>6. CASE h[k].card_type = ALPHA /\ h[k].value > v
  <2> DEFINE new == [best_val |-> h[k].value, best_idx |-> k]
  <2>1. Better(h, acc, k) = new
    BY <1>6 DEF Better, v
  <2>2. h[k].value \in 0..13 /\ k \in 0..k
    BY <1>3, <1>5
  <2>3. /\ new \in [best_val : 0..13, best_idx : 0..k]
        /\ new.best_val = h[k].value /\ new.best_idx = k
    BY <2>2
  <2>4. h[k].value > 0
    BY <1>2, <1>6, <2>2
  <2>5. \A j \in 1..(k - 1) : h[j].card_type = ALPHA => h[j].value < h[k].value
    <3> TAKE j \in 1..(k - 1)
    <3>1. h[j].value \in Int /\ v \in Int /\ h[k].value \in Int
      BY <1>2, <1>3, <1>5
    <3>2. h[j].card_type = ALPHA => h[j].value <= v
      BY <1>4
    <3>3. \A a, b, c \in Int : a <= b /\ b < c => a < c
      OBVIOUS
    <3> QED BY <1>6, <3>1, <3>2, <3>3, Zenon
  <2>6. \A j \in 1..k : h[j].card_type = ALPHA =>
           h[j].value <= h[k].value /\ (j < k => h[j].value < h[k].value)
    <3> TAKE j \in 1..k
    <3>1. h[j].value \in Int /\ h[k].value \in Int
      BY <1>3, <1>5
    <3>2. CASE j = k
      BY <3>1, <3>2
    <3>3. CASE j \in 1..(k - 1)
      <4>1. \A a, b \in Int : a < b => a <= b
        OBVIOUS
      <4> QED BY <2>5, <3>1, <3>3, <4>1, Zenon
    <3> QED BY <1>5, <3>2, <3>3, Zenon
  <2> HIDE DEF new
  <2> QED BY <1>5, <1>6, <2>1, <2>3, <2>4, <2>6 DEF BestAfter
<1>7. CASE ~(h[k].card_type = ALPHA /\ h[k].value > v)
  <2>1. Better(h, acc, k) = acc
    BY <1>7 DEF Better, v
  <2>2. acc \in [best_val : 0..13, best_idx : 0..k]
    BY <1>2, <1>5
  <2>3. h[k].card_type = ALPHA => h[k].value <= v
    BY <1>2, <1>3, <1>5, <1>7
  <2>4. ~(k < i)
    BY <1>2, <1>5
  <2>5. \A j \in 1..k : h[j].card_type = ALPHA =>
           h[j].value <= v /\ (j < i => h[j].value < v)
    BY <1>4, <1>5, <2>3, <2>4, Zenon
  <2> QED BY <1>4, <2>1, <2>2, <2>5 DEF BestAfter, v, i
<1> QED BY <1>6, <1>7

(* The rule and the search select the same card of every hand.             *)
LEMMA RugPullRule ==
  ASSUME NEW h \in Seq(Card), NEW i \in Nat \ {0}
  PROVE  IsHighestAlpha(h, i) <=> BestAlpha(h) = i
<1>1. PICK run : /\ run[0] = NoBest
                 /\ \A k \in 1..Len(h) : run[k] = Better(h, run[k - 1], k)
                 /\ BestAlpha(h) = run[Len(h)].best_idx
  BY BestAlphaRuns
<1> DEFINE Good == {k \in Nat : k <= Len(h) => BestAfter(h, k, run[k])}
<1>2. 0 \in Good
  BY <1>1 DEF BestAfter, NoBest
<1>3. ASSUME NEW k \in Nat, k \in Good PROVE k + 1 \in Good
  <2>1. SUFFICES ASSUME k + 1 <= Len(h) PROVE BestAfter(h, k + 1, run[k + 1])
    OBVIOUS
  <2> DEFINE m == k + 1
  <2>2. m \in 1..Len(h) /\ m - 1 = k
    BY <2>1
  <2>3. BestAfter(h, m - 1, run[k]) /\ run[m] = Better(h, run[k], m)
    BY <1>1, <1>3, <2>2
  <2> HIDE DEF m
  <2>4. BestAfter(h, m, Better(h, run[k], m))
    <3>1. m \in Nat /\ m > 0 /\ \A j \in 1..m : h[j] \in Card
      BY <2>2
    <3> QED BY <2>3, <3>1, SearchOneMore
  <2> QED BY <2>3, <2>4 DEF m
<1> HIDE DEF Good
<1>4. Len(h) \in Good
  BY <1>2, <1>3, NatSetInduction
<1> DEFINE b == run[Len(h)].best_idx
           v == run[Len(h)].best_val
<1>5. BestAfter(h, Len(h), run[Len(h)])
  BY <1>4 DEF Good
<1>6. b \in 0..Len(h) /\ v \in 0..13 /\ \A j \in 1..Len(h) : h[j].value \in 0..13
  <2>1. run[Len(h)] \in [best_val : 0..13, best_idx : 0..Len(h)]
    BY <1>5 DEF BestAfter
  <2>2. \A j \in 1..Len(h) : h[j] \in Card
    OBVIOUS
  <2> QED BY <2>1, <2>2 DEF Card
<1>7. /\ b = 0 => v = 0
      /\ b # 0 => h[b].card_type = ALPHA /\ h[b].value = v /\ v > 0
      /\ \A j \in 1..Len(h) : h[j].card_type = ALPHA =>
           h[j].value <= v /\ (j < b => h[j].value < v)
  BY <1>5 DEF BestAfter
<1>8. \A j : j \in PositionsOf(h, ALPHA) <=> j \in 1..Len(h) /\ h[j].card_type = ALPHA
  BY DEF PositionsOf
<1> HIDE DEF b, v
<1>9. b = i => IsHighestAlpha(h, i)
  BY <1>6, <1>7, <1>8 DEF IsHighestAlpha
<1>10. ASSUME IsHighestAlpha(h, i) PROVE b = i
  <2>1. /\ i \in 1..Len(h) /\ h[i].card_type = ALPHA /\ h[i].value > 0
        /\ \A j \in PositionsOf(h, ALPHA) :
             h[j].value <= h[i].value /\ (j < i => h[j].value < h[i].value)
    BY <1>10 DEF IsHighestAlpha
  <2> DEFINE w == h[i].value
  <2>2. w \in Int /\ v \in Int /\ w <= v
    BY <1>6, <1>7, <2>1, SMTT(30)
  <2>3. b # 0
    BY <1>7, <2>1, <2>2
  <2>4. b \in 1..Len(h) /\ h[b].card_type = ALPHA /\ h[b].value = v
    BY <1>6, <1>7, <2>3
  <2>5. v <= w /\ (b < i => v < w)
    BY <1>8, <2>1, <2>4, Zenon
  <2>6. i < b => w < v
    BY <1>7, <2>1, Zenon
  <2> HIDE DEF w
  <2>7. ~(b < i) /\ ~(i < b)
    BY <2>2, <2>5, <2>6
  <2> QED BY <2>1, <2>4, <2>7
<1> QED BY <1>1, <1>9, <1>10 DEF b

(* The rug pull's loop ends on the card the rule names: the first of the   *)
(* highest alpha cards, and none when no alpha card beats 0.               *)
THEOREM RugPullIsSearch == RulesSpec => []RugPullMatchesLoop
<1>1. HandTypeOK => RugPullMatchesLoop
  BY RugPullRule, HandSizeAssumption DEF HandTypeOK, Hand, RugPullMatchesLoop
<1> QED BY <1>1, HandIsTyped, PTL

-----------------------------------------------------------------------------
(* The two loops of calculate_hand_score.                                  *)

Add(acc, c) == IF c.card_type = ALPHA THEN acc + c.value ELSE acc
Multiply(acc, c) == IF c.card_type = MULTIPLIER THEN acc * c.value ELSE acc

SumLoop(h) ==
  FoldLeft(LAMBDA acc, c : IF c.card_type = ALPHA THEN acc + c.value ELSE acc, 0, h)
ProductLoop(h) ==
  FoldLeft(LAMBDA acc, c : IF c.card_type = MULTIPLIER THEN acc * c.value ELSE acc, 1, h)

(* The sum of the alpha values after each card.                            *)
LEMMA SumRuns ==
  ASSUME NEW h \in Seq(Card)
  PROVE  \E run \in [0..Len(h) -> Nat] :
           /\ run[0] = 0
           /\ \A k \in 1..Len(h) : run[k] = Add(run[k - 1], h[k])
           /\ SumLoop(h) = run[Len(h)]
<1> DEFINE g == [p \in Card \X Nat |-> Add(p[2], p[1])]
           Solves(f) == f = [S \in SUBSET (DOMAIN h) |->
                               IF S = {} THEN 0 ELSE Add(f[S \ {Max(S)}], h[Max(S)])]
           iter == CHOOSE f : Solves(f)
           run == [k \in 0..Len(h) |-> iter[1..k]]
<1>1. SumLoop(h) = iter[DOMAIN h]
  BY DEF SumLoop, FoldLeft, MapThenFoldSet, Add
<1>2. \A c \in Card, acc \in Nat : Add(acc, c) \in Nat
  BY DEF Add, Card
<1>3. g \in [Card \X Nat -> Nat]
  BY <1>2
<1>4. \A c \in Card, acc \in Nat : g[<<c, acc>>] = Add(acc, c)
  OBVIOUS
<1> HIDE DEF g
<1>5. PICK it \in [SUBSET (DOMAIN h) -> Nat] : IsFoldLeft(it, g, 0, h)
  <2>1. 0 \in Nat
    OBVIOUS
  <2> QED BY <1>3, <2>1, FoldLeftExists
<1>6. Solves(it)
  <2>1. ASSUME NEW S \in SUBSET (DOMAIN h), S # {}
        PROVE  it[S] = Add(it[S \ {Max(S)}], h[Max(S)])
    <3>1. Len(h) \in Nat /\ DOMAIN h = 1..Len(h)
      OBVIOUS
    <3>2. Max(S) \in DOMAIN h
      BY <2>1, <3>1, MaxOfPositions
    <3>3. h[Max(S)] \in Card /\ it[S \ {Max(S)}] \in Nat
      BY <3>2
    <3> QED BY <1>4, <1>5, <2>1, <3>3 DEF IsFoldLeft
  <2>2. it[{}] = 0
    BY <1>5 DEF IsFoldLeft
  <2> QED BY <2>1, <2>2
<1>7. Solves(iter)
  BY <1>6
<1> HIDE DEF iter
<1>8. run[0] = 0
  BY <1>7
<1>9. ASSUME NEW k \in 1..Len(h) PROVE run[k] = Add(run[k - 1], h[k])
  <2>1. 1..k \in SUBSET (DOMAIN h) /\ 1..k # {} /\ k \in 0..Len(h) /\ k - 1 \in 0..Len(h)
    OBVIOUS
  <2>2. Max(1..k) = k /\ (1..k) \ {Max(1..k)} = 1..(k - 1)
    BY MaxOfFirst
  <2> QED BY <1>7, <2>1, <2>2
<1>10. DOMAIN h = 1..Len(h) /\ run[Len(h)] = iter[1..Len(h)]
  OBVIOUS
<1> HIDE DEF run
<1> DEFINE Good == {k \in Nat : k <= Len(h) => run[k] \in Nat}
<1>11. ASSUME NEW k \in Nat, k \in Good PROVE k + 1 \in Good
  <2>1. SUFFICES ASSUME k + 1 <= Len(h) PROVE run[k + 1] \in Nat
    OBVIOUS
  <2>2. run[k] \in Nat /\ h[k + 1] \in Card
    BY <1>11, <2>1
  <2>3. run[k + 1] = Add(run[k], h[k + 1])
    BY <1>9, <2>1
  <2> QED BY <1>2, <2>2, <2>3
<1>12. 0 \in Good
  BY <1>8
<1> HIDE DEF Good
<1>13. Nat \subseteq Good
  BY <1>11, <1>12, NatSetInduction
<1>14. run \in [0..Len(h) -> Nat]
  <2>1. \A k \in 0..Len(h) : run[k] \in Nat
    BY <1>13 DEF Good
  <2> QED BY <2>1 DEF run
<1> QED BY <1>1, <1>8, <1>9, <1>10, <1>14

(* The product of the multipliers after each card.                         *)
LEMMA ProductRuns ==
  ASSUME NEW h \in Seq(Card)
  PROVE  \E run \in [0..Len(h) -> Nat] :
           /\ run[0] = 1
           /\ \A k \in 1..Len(h) : run[k] = Multiply(run[k - 1], h[k])
           /\ ProductLoop(h) = run[Len(h)]
<1> DEFINE g == [p \in Card \X Nat |-> Multiply(p[2], p[1])]
           Solves(f) == f = [S \in SUBSET (DOMAIN h) |->
                               IF S = {} THEN 1 ELSE Multiply(f[S \ {Max(S)}], h[Max(S)])]
           iter == CHOOSE f : Solves(f)
           run == [k \in 0..Len(h) |-> iter[1..k]]
<1>1. ProductLoop(h) = iter[DOMAIN h]
  BY DEF ProductLoop, FoldLeft, MapThenFoldSet, Multiply
<1>2. \A c \in Card, acc \in Nat : Multiply(acc, c) \in Nat
  BY DEF Multiply, Card
<1>3. g \in [Card \X Nat -> Nat]
  BY <1>2
<1>4. \A c \in Card, acc \in Nat : g[<<c, acc>>] = Multiply(acc, c)
  OBVIOUS
<1> HIDE DEF g
<1>5. PICK it \in [SUBSET (DOMAIN h) -> Nat] : IsFoldLeft(it, g, 1, h)
  <2>1. 1 \in Nat
    OBVIOUS
  <2> QED BY <1>3, <2>1, FoldLeftExists
<1>6. Solves(it)
  <2>1. ASSUME NEW S \in SUBSET (DOMAIN h), S # {}
        PROVE  it[S] = Multiply(it[S \ {Max(S)}], h[Max(S)])
    <3>1. Len(h) \in Nat /\ DOMAIN h = 1..Len(h)
      OBVIOUS
    <3>2. Max(S) \in DOMAIN h
      BY <2>1, <3>1, MaxOfPositions
    <3>3. h[Max(S)] \in Card /\ it[S \ {Max(S)}] \in Nat
      BY <3>2
    <3> QED BY <1>4, <1>5, <2>1, <3>3 DEF IsFoldLeft
  <2>2. it[{}] = 1
    BY <1>5 DEF IsFoldLeft
  <2> QED BY <2>1, <2>2
<1>7. Solves(iter)
  BY <1>6
<1> HIDE DEF iter
<1>8. run[0] = 1
  BY <1>7
<1>9. ASSUME NEW k \in 1..Len(h) PROVE run[k] = Multiply(run[k - 1], h[k])
  <2>1. 1..k \in SUBSET (DOMAIN h) /\ 1..k # {} /\ k \in 0..Len(h) /\ k - 1 \in 0..Len(h)
    OBVIOUS
  <2>2. Max(1..k) = k /\ (1..k) \ {Max(1..k)} = 1..(k - 1)
    BY MaxOfFirst
  <2> QED BY <1>7, <2>1, <2>2
<1>10. DOMAIN h = 1..Len(h) /\ run[Len(h)] = iter[1..Len(h)]
  OBVIOUS
<1> HIDE DEF run
<1> DEFINE Good == {k \in Nat : k <= Len(h) => run[k] \in Nat}
<1>11. ASSUME NEW k \in Nat, k \in Good PROVE k + 1 \in Good
  <2>1. SUFFICES ASSUME k + 1 <= Len(h) PROVE run[k + 1] \in Nat
    OBVIOUS
  <2>2. run[k] \in Nat /\ h[k + 1] \in Card
    BY <1>11, <2>1
  <2>3. run[k + 1] = Multiply(run[k], h[k + 1])
    BY <1>9, <2>1
  <2> QED BY <1>2, <2>2, <2>3
<1>12. 0 \in Good
  BY <1>8
<1> HIDE DEF Good
<1>13. Nat \subseteq Good
  BY <1>11, <1>12, NatSetInduction
<1>14. run \in [0..Len(h) -> Nat]
  <2>1. \A k \in 0..Len(h) : run[k] \in Nat
    BY <1>13 DEF Good
  <2> QED BY <2>1 DEF run
<1> QED BY <1>1, <1>8, <1>9, <1>10, <1>14

(* The sum of the rule is the one the loop accumulates, and a card adds 13 *)
(* to it at most.                                                          *)
LEMMA SumRule ==
  ASSUME NEW h \in Seq(Card)
  PROVE  AlphaSum(h) = SumLoop(h) /\ SumLoop(h) \in Nat /\ SumLoop(h) <= 13 * Len(h)
<1> DEFINE f == [i \in DOMAIN h |-> h[i].value]
           P == PositionsOf(h, ALPHA)
           first(k) == P \cap (1..k)
<1>1. AlphaSum(h) = SumOver(f, P)
  <2> DEFINE Solves(k) == k = [s \in SUBSET P |-> IF s = {} THEN 0
                                                   ELSE f[AnyOf(s)] + k[s \ {AnyOf(s)}]]
             SolvesToo(k) == k = [s \in SUBSET P |->
                                    IF s = {} THEN 0
                                    ELSE h[AnyOf(s)].value + k[s \ {AnyOf(s)}]]
  <2>1. SumOver(f, P) = (CHOOSE k : Solves(k))[P]
    BY DEF SumOver, MapThenSumSet, MapThenFoldSet, AnyOf
  <2>2. AlphaSum(h) = (CHOOSE k : SolvesToo(k))[P]
    BY DEF AlphaSum, MapThenSumSet, MapThenFoldSet, AnyOf
  <2>3. \A k : Solves(k) <=> SolvesToo(k)
    <3>1. ASSUME NEW s \in SUBSET P, s # {}
          PROVE  f[AnyOf(s)] = h[AnyOf(s)].value
      BY <3>1 DEF AnyOf, PositionsOf
    <3> QED BY <3>1
  <2> HIDE DEF Solves, SolvesToo
  <2>4. (CHOOSE k : Solves(k)) = (CHOOSE k : SolvesToo(k))
    BY <2>3
  <2> QED BY <2>1, <2>2, <2>4
<1>2. PICK run \in [0..Len(h) -> Nat] :
        /\ run[0] = 0
        /\ \A k \in 1..Len(h) : run[k] = Add(run[k - 1], h[k])
        /\ SumLoop(h) = run[Len(h)]
  BY SumRuns
<1>3. \A i \in 1..Len(h) : h[i] \in Card /\ h[i].value \in 0..13 /\ f[i] = h[i].value
  <2>1. \A i \in 1..Len(h) : h[i] \in Card /\ f[i] = h[i].value
    OBVIOUS
  <2> QED BY <2>1 DEF Card
<1>4. \A i : i \in P <=> i \in 1..Len(h) /\ h[i].card_type = ALPHA
  BY DEF PositionsOf
<1>5. Len(h) \in Nat
  OBVIOUS
<1> HIDE DEF f, P
<1> DEFINE Good == {k \in Nat : k <= Len(h) =>
                                  run[k] = SumOver(f, first(k)) /\ run[k] <= 13 * k}
<1>6. 0 \in Good
  <2>1. first(0) = {}
    OBVIOUS
  <2>2. SumOver(f, {}) = 0
    BY SumTakeOut, FS_EmptySet
  <2> QED BY <1>2, <2>1, <2>2
<1>7. ASSUME NEW k \in Nat, k \in Good PROVE k + 1 \in Good
  <2>1. SUFFICES ASSUME k + 1 <= Len(h)
                 PROVE  run[k + 1] = SumOver(f, first(k + 1)) /\ run[k + 1] <= 13 * (k + 1)
    OBVIOUS
  <2> DEFINE m == k + 1
  <2>2. /\ m \in 1..Len(h) /\ m - 1 = k /\ m \notin 1..k
        /\ 1..m = (1..k) \cup {m} /\ k \in 0..Len(h)
    BY <1>5, <2>1
  <2>3. /\ run[m] = Add(run[k], h[m]) /\ run[k] \in Nat /\ h[m].value \in 0..13
        /\ run[k] = SumOver(f, first(k)) /\ run[k] <= 13 * k
    <3>1. m \in 1..Len(h) /\ run[m] = Add(run[m - 1], h[m]) /\ run[k] \in Nat
      BY <1>2, <2>2
    <3>2. h[m].value \in 0..13
      BY <1>3, <2>2
    <3>3. run[k] = SumOver(f, first(k)) /\ run[k] <= 13 * k
      BY <1>5, <1>7, <2>1
    <3> QED BY <2>2, <3>1, <3>2, <3>3
  <2>4. CASE h[m].card_type = ALPHA
    <3>1. first(m) = first(k) \cup {m} /\ m \notin first(k) /\ first(m) \ {m} = first(k)
      BY <1>4, <2>2, <2>4
    <3>2. IsFiniteSet(first(m)) /\ \A x \in first(m) : f[x] \in Int
      <4>1. IsFiniteSet(1..m) /\ first(m) \in SUBSET (1..m)
        BY <2>2, FS_Interval
      <4>2. \A x \in first(m) : f[x] \in Int
        BY <1>3, <1>4
      <4> HIDE DEF first
      <4> QED BY <4>1, <4>2, FS_Subset
    <3>3. SumOver(f, first(m)) = f[m] + SumOver(f, first(k))
      <4> HIDE DEF first
      <4>1. \A x \in first(m) : SumOver(f, first(m)) = f[x] + SumOver(f, first(m) \ {x})
        BY <3>2, SumTakeOut
      <4>2. m \in first(m)
        BY <3>1
      <4> QED BY <3>1, <4>1, <4>2, Zenon
    <3>4. run[m] = run[k] + h[m].value
      BY <2>3, <2>4 DEF Add
    <3>5. f[m] = h[m].value
      BY <1>3, <2>2
    <3>6. \A a \in Nat, b \in 0..13 : a + b = b + a /\ (a <= 13 * k => a + b <= 13 * (k + 1))
      OBVIOUS
    <3> HIDE DEF m, first
    <3>7. run[m] = SumOver(f, first(m)) /\ run[m] <= 13 * (k + 1)
      BY <2>3, <3>3, <3>4, <3>5, <3>6, Zenon
    <3> QED BY <3>7 DEF m
  <2>5. CASE h[m].card_type # ALPHA
    <3>1. first(m) = first(k)
      BY <1>4, <2>2, <2>5
    <3>2. run[m] = run[k]
      BY <2>3, <2>5 DEF Add
    <3> HIDE DEF first
    <3> QED BY <2>2, <2>3, <3>1, <3>2
  <2> QED BY <2>4, <2>5
<1> HIDE DEF Good
<1>8. Len(h) \in Good
  BY <1>5, <1>6, <1>7, NatSetInduction
<1>9. first(Len(h)) = P
  BY <1>4
<1>10. Len(h) \in 0..Len(h)
  BY <1>5
<1> HIDE DEF first
<1> QED BY <1>1, <1>2, <1>5, <1>8, <1>9, <1>10 DEF Good

(* The product of the rule is the one the loop accumulates.                *)
LEMMA ProductRule ==
  ASSUME NEW h \in Seq(Card)
  PROVE  /\ MultiplierProduct(h) = ProductLoop(h) /\ ProductLoop(h) \in Nat
         /\ PositionsOf(h, MULTIPLIER) = {} => ProductLoop(h) = 1
<1> DEFINE f == [i \in DOMAIN h |-> h[i].value]
           P == PositionsOf(h, MULTIPLIER)
           first(k) == P \cap (1..k)
<1>1. PICK run \in [0..Len(h) -> Nat] :
        /\ run[0] = 1
        /\ \A k \in 1..Len(h) : run[k] = Multiply(run[k - 1], h[k])
        /\ ProductLoop(h) = run[Len(h)]
  BY ProductRuns
<1>2. \A i \in 1..Len(h) : h[i] \in Card /\ h[i].value \in 0..13 /\ f[i] = h[i].value
  <2>1. \A i \in 1..Len(h) : h[i] \in Card /\ f[i] = h[i].value
    OBVIOUS
  <2> QED BY <2>1 DEF Card
<1>3. \A i : i \in P <=> i \in 1..Len(h) /\ h[i].card_type = MULTIPLIER
  BY DEF PositionsOf
<1>4. Len(h) \in Nat
  OBVIOUS
<1>5. MultiplierProduct(h) = ProductOver(f, P)
  BY DEF MultiplierProduct, ProductOver
<1> HIDE DEF f, P
<1>6. IsFiniteSet(P) /\ \A x \in P : f[x] \in Int
  <2>1. IsFiniteSet(1..Len(h)) /\ P \in SUBSET (1..Len(h))
    BY <1>3, <1>4, FS_Interval
  <2>2. \A x \in P : f[x] \in Int
    BY <1>2, <1>3
  <2> QED BY <2>1, <2>2, FS_Subset
<1>0. PICK it \in [SUBSET P -> Int] : AreProducts(it, f, P)
  BY <1>6, ProductTakeOut
<1>7. /\ it[{}] = 1
      /\ it[P] = ProductOver(f, P)
      /\ \A s \in SUBSET P : \A x \in s : it[s] = f[x] * it[s \ {x}]
  BY <1>0 DEF AreProducts
<1> DEFINE Good == {k \in Nat : k <= Len(h) => run[k] = it[first(k)]}
<1>8. 0 \in Good
  <2>1. first(0) = {}
    OBVIOUS
  <2> QED BY <1>1, <1>7, <2>1
<1>9. ASSUME NEW k \in Nat, k \in Good PROVE k + 1 \in Good
  <2>1. SUFFICES ASSUME k + 1 <= Len(h) PROVE run[k + 1] = it[first(k + 1)]
    OBVIOUS
  <2> DEFINE m == k + 1
  <2>2. /\ m \in 1..Len(h) /\ m - 1 = k /\ m \notin 1..k
        /\ 1..m = (1..k) \cup {m} /\ k \in 0..Len(h)
    BY <1>4, <2>1
  <2>3. /\ run[m] = Multiply(run[k], h[m]) /\ run[k] \in Nat /\ h[m].value \in 0..13
        /\ run[k] = it[first(k)]
    BY <1>1, <1>2, <1>9, <2>2
  <2>4. CASE h[m].card_type = MULTIPLIER
    <3>1. m \in first(m) /\ first(m) \ {m} = first(k) /\ first(m) \in SUBSET P
      BY <1>3, <2>2, <2>4
    <3>2. it[first(m)] = f[m] * it[first(k)]
      <4> HIDE DEF first
      <4> QED BY <1>7, <3>1
    <3>3. run[m] = run[k] * h[m].value /\ f[m] = h[m].value
      BY <1>2, <2>2, <2>3, <2>4 DEF Multiply
    <3>4. \A a, b \in Int : a * b = b * a
      OBVIOUS
    <3>0. run[k] \in Int /\ h[m].value \in Int
      BY <2>3, SMTT(30)
    <3>5. run[k] * h[m].value = h[m].value * run[k]
      BY <3>0, <3>4, Zenon
    <3> HIDE DEF m, first
    <3>6. run[m] = it[first(m)]
      BY <2>3, <3>2, <3>3, <3>5
    <3> QED BY <3>6 DEF m
  <2>5. CASE h[m].card_type # MULTIPLIER
    <3>1. first(m) = first(k)
      BY <1>3, <2>2, <2>5
    <3>2. run[m] = run[k]
      BY <2>3, <2>5 DEF Multiply
    <3> HIDE DEF first
    <3> QED BY <2>3, <3>1, <3>2
  <2> QED BY <2>4, <2>5
<1> HIDE DEF Good
<1>10. Len(h) \in Good
  BY <1>4, <1>8, <1>9, NatSetInduction
<1>11. first(Len(h)) = P /\ Len(h) \in 0..Len(h)
  BY <1>3, <1>4
<1> HIDE DEF first
<1>12. ProductLoop(h) = it[P] /\ ProductLoop(h) \in Nat
  BY <1>1, <1>4, <1>10, <1>11 DEF Good
<1> QED BY <1>5, <1>7, <1>12 DEF P

(* The rule and the loop return the same score for every hand.             *)
LEMMA ScoreRule ==
  ASSUME NEW h \in Hand
  PROVE  CalculateHandScore(h) = ScoreLoop(h)
<1> DEFINE sum == SumLoop(h)
           product == ProductLoop(h)
<1>1. h \in Seq(Card) /\ Len(h) \in Nat /\ Len(h) <= MaxHandSize
  BY DEF Hand
<1>2. /\ AlphaSum(h) = sum /\ sum \in Nat /\ sum <= 13 * Len(h)
      /\ MultiplierProduct(h) = product /\ product \in Nat
      /\ PositionsOf(h, MULTIPLIER) = {} => product = 1
  BY <1>1, SumRule, ProductRule
<1>3. ScoreLoop(h) = IF ~\E i \in DOMAIN h : h[i].card_type = MULTIPLIER THEN sum
                     ELSE IF sum * product > MaxU64 THEN MaxU64
                     ELSE sum * product
  BY DEF ScoreLoop, SumLoop, ProductLoop
<1>4. CalculateHandScore(h) = Saturate(sum * product)
  BY <1>2 DEF CalculateHandScore
<1> HIDE DEF sum, product
<1>5. sum <= MaxU64
  BY <1>1, <1>2, HandSizeAssumption, SumAssumption, U64Assumption
<1>6. CASE ~\E i \in DOMAIN h : h[i].card_type = MULTIPLIER
  <2>1. product = 1
    BY <1>2, <1>6 DEF PositionsOf
  <2>2. sum * product = sum
    BY <1>2, <2>1
  <2> QED BY <1>2, <1>3, <1>4, <1>5, <1>6, <2>2, U64Assumption DEF Saturate
<1>7. CASE \E i \in DOMAIN h : h[i].card_type = MULTIPLIER
  <2> DEFINE n == sum * product
  <2>1. n \in Nat
    BY <1>2
  <2>2. ScoreLoop(h) = IF n > MaxU64 THEN MaxU64 ELSE n
    BY <1>3, <1>7
  <2>3. CalculateHandScore(h) = Saturate(n)
    BY <1>4
  <2> HIDE DEF n
  <2> QED BY <2>1, <2>2, <2>3, U64Assumption DEF Saturate
<1> QED BY <1>6, <1>7

(* The score rule is calculate_hand_score, saturation included.            *)
THEOREM ScoreIsCalculated == RulesSpec => []ScoreMatchesLoop
<1>1. HandTypeOK => ScoreMatchesLoop
  BY ScoreRule DEF HandTypeOK, ScoreMatchesLoop
<1> QED BY <1>1, HandIsTyped, PTL

-----------------------------------------------------------------------------
(* The numbers people type.                                                *)

(* A number the parser lets through is the number typed, and the eight     *)
(* bytes made of it give it back.                                          *)
LEMMA ParsedFits ==
  ASSUME NEW input, input.n \in Nat, parseU64(input) # Invalid
  PROVE  parseU64(input) = input.n /\ u64Le(parseU64(input)).value = input.n
<1>1. parseU64(input) = input.n /\ input.n < U64
  BY DEF parseU64, Invalid
<1>2. input.n % U64 = input.n
  BY <1>1, WidthAssumption
<1> QED BY <1>1, <1>2 DEF u64Le, Chunk

(* What is typed is a natural number, with or without being one in digits. *)
LEMMA TypedNumbers == \A input \in Texts : input.n \in Nat
<1>1. U64 \in Nat \ {0} /\ FLIP_SCALE \in Nat \ {0}
  BY WidthAssumption
<1>2. U64 \div FLIP_SCALE \in Nat
  BY <1>1
<1> QED BY <1>1, <1>2 DEF Texts, Numbers

CallTypeOK == call \in Calls

(* The instruction somebody wants to send stays the one that was chosen.   *)
LEMMA CallIsTyped == RulesSpec => []CallTypeOK
<1>1. NoCall \in Calls
  <2> DEFINE c == [kind |-> "initialize", text |-> [form |-> "blank", n |-> 0], byte |-> 0,
                   players |-> 0, fee |-> NoFee]
  <2>1. c \in Calls
    <3>1. "initialize" \in ToSet(Handlers)
      BY DEF ToSet, Handlers
    <3> QED BY <3>1 DEF Calls, Texts
  <2> QED BY <2>1 DEF NoCall
<1>2. RulesInit => CallTypeOK
  BY <1>1 DEF RulesInit, CallTypeOK
<1>3. CallTypeOK /\ [RulesNext]_<<scene, hand, others>> => CallTypeOK'
  BY DEF CallTypeOK, RulesNext, DrawCard, GiveUpCard, LoseBestCard, LogSomething, Shuffle, others
<1> QED BY <1>2, <1>3, PTL DEF RulesSpec

(* Two games with different numbers never derive a common address, for     *)
(* their session, a player, the vault or the bounty board.                 *)
THEOREM AddressesAreApart == RulesSpec => []GamesKeepApart
<1>1. ASSUME CallTypeOK PROVE GamesKeepApart
  <2>1. SUFFICES ASSUME NEW other \in Texts,
                        parseU64(call.text) # Invalid, parseU64(other) # Invalid,
                        call.text.n # other.n
                 PROVE  LET mine == parseU64(call.text)
                            theirs == parseU64(other)
                        IN  /\ deriveGamePda(mine) # deriveGamePda(theirs)
                            /\ derivePlayerPda(mine, 1) # derivePlayerPda(theirs, 1)
                            /\ deriveVaultPda(deriveGamePda(mine))
                                 # deriveVaultPda(deriveGamePda(theirs))
                            /\ deriveBountyPda(deriveGamePda(mine))
                                 # deriveBountyPda(deriveGamePda(theirs))
    BY DEF GamesKeepApart
  <2> DEFINE mine == u64Le(parseU64(call.text))
             theirs == u64Le(parseU64(other))
  <2>2. call.text \in Texts
    BY <1>1 DEF CallTypeOK, Calls
  <2>3. mine.value = call.text.n /\ theirs.value = other.n
    BY <2>1, <2>2, TypedNumbers, ParsedFits
  <2>4. mine # theirs
    BY <2>1, <2>3
  <2> HIDE DEF mine, theirs
  <2>5. <<"game", mine>> # <<"game", theirs>>
    BY <2>4
  <2> QED BY <2>4, <2>5
          DEF deriveGamePda, derivePlayerPda, deriveVaultPda, deriveBountyPda, mine, theirs
<1> QED BY <1>1, CallIsTyped, PTL

-----------------------------------------------------------------------------
(* Bytes.                                                                  *)

(* A chunk starts where the one before it ends.                            *)
LEMMA StartOfNext ==
  ASSUME NEW bytes, NEW n \in Nat, \A j \in 1..n : bytes[j].width \in Nat
  PROVE  /\ StartOf(bytes, 1) = 0
         /\ \A i \in 1..n : /\ StartOf(bytes, i) \in Int
                           /\ StartOf(bytes, i + 1) = StartOf(bytes, i) + bytes[i].width
<1> DEFINE f == [j \in 1..n |-> bytes[j].width]
<1>1. ASSUME NEW k \in 0..n PROVE StartOf(bytes, k + 1) = SumOver(f, 1..k)
  <2> DEFINE S == 1..((k + 1) - 1)
             Solves(t) == t = [s \in SUBSET S |-> IF s = {} THEN 0
                                                   ELSE f[AnyOf(s)] + t[s \ {AnyOf(s)}]]
             SolvesToo(t) == t = [s \in SUBSET S |->
                                    IF s = {} THEN 0
                                    ELSE bytes[AnyOf(s)].width + t[s \ {AnyOf(s)}]]
  <2>1. SumOver(f, S) = (CHOOSE t : Solves(t))[S]
    BY DEF SumOver, MapThenSumSet, MapThenFoldSet, AnyOf
  <2>2. S = 1..k
    OBVIOUS
  <2>3. S \subseteq 1..n
    BY <2>2
  <2>4. StartOf(bytes, k + 1) = (CHOOSE t : SolvesToo(t))[S]
    BY DEF StartOf, MapThenSumSet, MapThenFoldSet, AnyOf
  <2>5. \A t : Solves(t) <=> SolvesToo(t)
    <3>1. ASSUME NEW s \in SUBSET S, s # {}
          PROVE  f[AnyOf(s)] = bytes[AnyOf(s)].width
      <4>1. AnyOf(s) \in s
        BY <3>1 DEF AnyOf
      <4> HIDE DEF S
      <4>2. AnyOf(s) \in 1..n
        BY <2>3, <4>1
      <4> QED BY <4>2
    <3> QED BY <3>1
  <2> HIDE DEF Solves, SolvesToo, S
  <2>6. (CHOOSE t : Solves(t)) = (CHOOSE t : SolvesToo(t))
    BY <2>5
  <2> QED BY <2>1, <2>2, <2>4, <2>6
<1> HIDE DEF f
<1>2. SumOver(f, 1..0) = 0
  <2>1. 1..0 = {}
    OBVIOUS
  <2> QED BY <2>1, SumTakeOut, FS_EmptySet
<1>3. ASSUME NEW i \in 1..n
      PROVE  /\ SumOver(f, 1..(i - 1)) \in Int
             /\ SumOver(f, 1..i) = SumOver(f, 1..(i - 1)) + bytes[i].width
  <2> DEFINE S == 1..i
             T == 1..(i - 1)
  <2>1. IsFiniteSet(S) /\ IsFiniteSet(T)
    BY FS_Interval
  <2>2. (\A j \in S : f[j] \in Int) /\ f[i] = bytes[i].width
    BY DEF f
  <2>3. i \in S /\ S \ {i} = T /\ T \subseteq S
    OBVIOUS
  <2> HIDE DEF S, T
  <2>4. \A x \in S : SumOver(f, S) = f[x] + SumOver(f, S \ {x})
    BY <2>1, <2>2, SumTakeOut
  <2>5. \A j \in T : f[j] \in Int
    BY <2>2, <2>3
  <2>6. SumOver(f, T) \in Int /\ f[i] \in Int
    BY <2>1, <2>2, <2>3, <2>5, SumTakeOut
  <2>7. \A a, b \in Int : a + b = b + a
    OBVIOUS
  <2>8. SumOver(f, S) = SumOver(f, T) + f[i]
    BY <2>3, <2>4, <2>6, <2>7, Zenon
  <2> QED BY <2>2, <2>6, <2>8 DEF S, T
<1>4. ASSUME NEW i \in 1..n
      PROVE  /\ StartOf(bytes, i) \in Int
             /\ StartOf(bytes, i + 1) = StartOf(bytes, i) + bytes[i].width
  <2>1. i - 1 \in 0..n /\ i \in 0..n /\ (i - 1) + 1 = i
    OBVIOUS
  <2>2. StartOf(bytes, i) = SumOver(f, 1..(i - 1)) /\ StartOf(bytes, i + 1) = SumOver(f, 1..i)
    BY <1>1, <2>1
  <2> QED BY <1>3, <2>2
<1>5. StartOf(bytes, 1) = 0
  <2>1. 0 \in 0..n /\ 0 + 1 = 1
    OBVIOUS
  <2> QED BY <1>1, <1>2, <2>1
<1> QED BY <1>4, <1>5

(* n chunks whose offsets add up their widths.                             *)
LaidOut(bytes, n, at) ==
  /\ DOMAIN bytes = 1..n /\ at[1] = 0
  /\ \A i \in 1..n : bytes[i].width \in Nat \ {0} /\ at[i + 1] = at[i] + bytes[i].width

(* What was written at an offset is what is read there.                    *)
LEMMA ReadBack ==
  ASSUME NEW bytes, NEW n \in Nat, NEW at, LaidOut(bytes, n, at)
  PROVE  /\ StartOf(bytes, n + 1) = at[n + 1]
         /\ \A i \in 1..n : ReadAt(bytes, at[i], bytes[i].width) = bytes[i].value
<1> USE DEF LaidOut
<1> DEFINE start(i) == StartOf(bytes, i)
<1>1. \A i \in 1..n : bytes[i].width \in Nat
  OBVIOUS
<1>2. start(1) = 0 /\ \A i \in 1..n : start(i) \in Int /\ start(i + 1) = start(i) + bytes[i].width
  BY <1>1, StartOfNext
<1> HIDE DEF start
<1> DEFINE Good == {k \in Nat : k <= n => /\ start(k + 1) = at[k + 1] /\ start(k + 1) \in Int
                                          /\ \A i \in 1..k : start(i) < start(k + 1)}
<1>3. 0 \in Good
  BY <1>2
<1>4. ASSUME NEW k \in Nat, k \in Good PROVE k + 1 \in Good
  <2> DEFINE m == k + 1
  <2>1. SUFFICES ASSUME m <= n
                 PROVE  /\ start(m + 1) = at[m + 1] /\ start(m + 1) \in Int
                        /\ \A i \in 1..m : start(i) < start(m + 1)
    OBVIOUS
  <2>2. m \in 1..n /\ \A i \in 1..m : i \in 1..k \/ i = m
    BY <2>1
  <2>3. start(m) = at[m] /\ start(m) \in Int /\ \A i \in 1..k : start(i) < start(m)
    BY <1>4, <2>1
  <2>4. /\ start(m + 1) = start(m) + bytes[m].width /\ bytes[m].width \in Nat \ {0}
        /\ at[m + 1] = at[m] + bytes[m].width
    BY <1>2, <2>2
  <2>5. \A i \in 1..k : start(i) \in Int
    BY <1>2, <2>1
  <2> HIDE DEF m
  <2>6. start(m + 1) \in Int /\ start(m) < start(m + 1) /\ start(m + 1) = at[m + 1]
    BY <2>3, <2>4
  <2>7. \A i \in 1..k : start(i) < start(m + 1)
    BY <2>3, <2>5, <2>6
  <2> QED BY <2>2, <2>6, <2>7
<1> HIDE DEF Good
<1>5. Nat \subseteq Good
  BY <1>3, <1>4, NatSetInduction
<1>6. \A k \in 0..n : start(k + 1) = at[k + 1] /\ \A i \in 1..k : start(i) < start(k + 1)
  BY <1>5 DEF Good
<1>7. ASSUME NEW i \in 1..n
      PROVE  start(i) = at[i] /\ \A j \in 1..n : start(j) = start(i) => j = i
  <2>1. \A j \in 1..n : j - 1 \in 0..n /\ (j - 1) + 1 = j
    OBVIOUS
  <2>2. \A j \in 1..n : start(j) = at[j] /\ \A k \in 1..(j - 1) : start(k) < start(j)
    BY <1>6, <2>1
  <2>3. \A j, k \in 1..n : j < k => j \in 1..(k - 1)
    OBVIOUS
  <2>4. \A j, k \in 1..n : j < k => start(j) # start(k)
    BY <1>2, <2>2, <2>3
  <2> QED BY <2>2, <2>4
<1>8. ASSUME NEW i \in 1..n PROVE ReadAt(bytes, at[i], bytes[i].width) = bytes[i].value
  <2> DEFINE here == {j \in DOMAIN bytes :
                        StartOf(bytes, j) = at[i] /\ bytes[j].width = bytes[i].width}
  <2>1. here = {i}
    BY <1>7 DEF start
  <2>2. ReadAt(bytes, at[i], bytes[i].width)
          = IF here = {} THEN GARBLED ELSE bytes[CHOOSE j \in here : TRUE].value
    BY DEF ReadAt
  <2> HIDE DEF here
  <2> QED BY <2>1, <2>2
<1>9. start(n + 1) = at[n + 1]
  BY <1>6
<1> QED BY <1>8, <1>9 DEF start

-----------------------------------------------------------------------------
(* Instructions.                                                           *)

(* Numbers that fit are written as they are.                               *)
LEMMA WrittenAsIs ==
  /\ \A v \in Nat : v < U8 => Byte(v) = Chunk(1, v)
  /\ \A v \in Nat : v < U16 => u16Le(v) = Chunk(2, v)
  /\ \A v \in Nat : v < U64 => u64Le(v) = Chunk(8, v)
<1>1. \A m \in Nat \ {0} : \A v \in Nat : v < m => v % m = v
  OBVIOUS
<1> QED BY <1>1, WidthAssumption DEF Byte, u16Le, u64Le

(* The dispatcher finds the handler by the first byte.                     *)
LEMMA Dispatched ==
  ASSUME NEW ix, NEW i \in 0..15, ix.data[1] = Byte(i)
  PROVE  process_instruction(ix) = Handlers[i + 1]
<1>0. i \in Nat /\ i < U8
  BY WidthAssumption, CallAssumption
<1>1. ix.data[1] = Chunk(1, i)
  BY <1>0, WrittenAsIs
<1>2. ix.data[1].value = i
  BY <1>1 DEF Chunk
<1> QED BY <1>2 DEF process_instruction

(* A handler that demands just what it is given is granted it.             *)
LEMMA GrantsSame ==
  ASSUME NEW metas, Len(metas) \in Nat
  PROVE  Grants(metas, metas)
BY DEF Grants

(* What a call is made of, once its number is accepted.                    *)
LEMMA CallParts ==
  ASSUME NEW c \in Calls, IsSent(c)
  PROVE  /\ c.kind \in ToSet(Handlers) /\ c.text.n \in Nat
         /\ Amount(c) \in Nat /\ Amount(c) < U64
         /\ Amount(c) = IF c.kind = "join_round" THEN c.text.n * FLIP_SCALE ELSE c.text.n
         /\ c.byte \in Nat /\ c.byte < U8
         /\ c.players \in Nat /\ (c.fee = NoFee \/ (c.fee \in Nat /\ c.fee < U16))
<1>1. /\ c.kind \in ToSet(Handlers) /\ c.text \in Texts /\ c.byte \in {0, 1, U8 - 1}
      /\ c.players \in {0, 2} /\ c.fee \in {NoFee, 300}
  BY DEF Calls
<1>2. c.text.n \in Nat
  BY <1>1, TypedNumbers
<1>3. U8 \in Nat \ {0} /\ U16 \in Nat /\ U64 \in Nat \ {0} /\ FLIP_SCALE \in Nat \ {0}
  BY WidthAssumption
<1>4. CASE c.kind = "join_round"
  <2> DEFINE whole == parseU64(c.text)
  <2>1. Amount(c) = parseStakeInput(c.text)
    BY <1>4 DEF Amount
  <2>2. whole # Invalid
    BY <2>1 DEF IsSent, parseStakeInput
  <2>3. whole = c.text.n
    BY <1>2, <2>2, ParsedFits
  <2> HIDE DEF whole
  <2>4. Amount(c) = whole * FLIP_SCALE /\ ~(whole * FLIP_SCALE >= U64)
    BY <2>1, <2>2 DEF IsSent, parseStakeInput, whole
  <2> DEFINE n == whole * FLIP_SCALE
  <2>5. n \in Nat
    BY <1>2, <1>3, <2>3
  <2> HIDE DEF n
  <2>6. n < U64
    BY <1>3, <2>4, <2>5 DEF n
  <2> QED BY <1>1, <1>2, <1>3, <1>4, <2>3, <2>4, <2>5, <2>6, CallAssumption DEF n
<1>5. CASE c.kind # "join_round"
  <2>1. Amount(c) = parseU64(c.text) /\ parseU64(c.text) # Invalid
    BY <1>5 DEF Amount, IsSent
  <2>2. Amount(c) = c.text.n /\ c.text.n < U64
    BY <1>2, <2>1, ParsedFits DEF parseU64, Invalid
  <2> QED BY <1>1, <1>2, <1>3, <1>5, <2>2, CallAssumption
<1> QED BY <1>4, <1>5

Arrives(c) ==
  LET ix == Build(c.kind, Arguments(c)) IN
  /\ process_instruction(ix) = c.kind
  /\ Grants(ix.accounts, Demands(c.kind, c.players))
  /\ Reads(c.kind, Tail(ix.data)) = Meant(c)

(* A call arrives when the dispatcher knows its first byte, the handler    *)
(* demands the accounts in the order they come, and reads what was meant.  *)
LEMMA CallDelivered ==
  ASSUME NEW c, NEW i \in 0..15, NEW data, NEW metas,
         Build(c.kind, Arguments(c)) = buildIx(data, metas),
         data[1] = Byte(i), c.kind = Handlers[i + 1],
         Demands(c.kind, c.players) = metas, Len(metas) \in Nat,
         Reads(c.kind, Tail(data)) = Meant(c)
  PROVE  Arrives(c)
<1> DEFINE ix == buildIx(data, metas)
<1>1. ix.data = data /\ ix.accounts = metas
  BY DEF buildIx
<1> HIDE DEF ix
<1>2. process_instruction(ix) = Handlers[i + 1]
  BY <1>1, Dispatched
<1>3. Grants(metas, metas)
  BY GrantsSame
<1> QED BY <1>1, <1>2, <1>3 DEF Arrives, ix

(* Three things and one more.                                              *)
LEMMA ThreeAndOne ==
  ASSUME NEW a, NEW b, NEW c, NEW d
  PROVE  <<a, b, c>> \o <<d>> = <<a, b, c, d>>
<1> DEFINE s == <<a, b, c>>
           t == <<d>>
           r == s \o t
<1>1. r = [i \in 1..4 |-> IF i <= 3 THEN s[i] ELSE t[i - 3]]
  OBVIOUS
<1>2. r[1] = a /\ r[2] = b /\ r[3] = c /\ r[4] = d
  BY <1>1
<1>3. r = [i \in 1..4 |-> r[i]]
  BY <1>1
<1> HIDE DEF s, t, r
<1>4. r = <<r[1], r[2], r[3], r[4]>>
  BY <1>3
<1> QED BY <1>2, <1>4 DEF r, s, t

(* The instructions that are nothing but their first byte.                 *)
LEMMA BareCallsArrive ==
  ASSUME NEW c, c.players \in Nat,
         c.kind \in {"start_round", "stay", "end_round", "close_game", "leave_game",
                    "burn_second_chance", "burn_scry", "init_vault", "close_bounty_board"}
  PROVE  Arrives(c)
<1> DEFINE a == Arguments(c)
<1>1. a.players = c.players
  BY DEF Arguments
<1> HIDE DEF a
<1>2. \A b : Reads(c.kind, b) = Meant(c)
  <2>1. Meant(c) = << >>
    BY DEF Meant
  <2>2. \A b : Reads(c.kind, b) = << >>
    BY DEF Reads
  <2> QED BY <2>1, <2>2
<1>3. CASE c.kind = "start_round"
  <2> DEFINE metas == Demands(c.kind, c.players)
  <2>1. Build(c.kind, a) = buildIx(<<Byte(3)>>, metas) /\ Len(metas) \in Nat
    BY <1>1, <1>3 DEF Build, Demands, getStartRoundInstruction, Each
  <2>2. c.kind = Handlers[3 + 1] /\ <<Byte(3)>>[1] = Byte(3)
    BY <1>3 DEF Handlers
  <2> HIDE DEF metas
  <2> QED BY <1>2, <2>1, <2>2, CallDelivered DEF a, metas
<1>4. CASE c.kind = "stay"
  <2> DEFINE metas == Demands(c.kind, c.players)
  <2>1. Build(c.kind, a) = buildIx(<<Byte(5)>>, metas) /\ Len(metas) \in Nat
    BY <1>1, <1>4 DEF Build, Demands, getStayInstruction, PlayerDemands
  <2>2. c.kind = Handlers[5 + 1] /\ <<Byte(5)>>[1] = Byte(5)
    BY <1>4 DEF Handlers
  <2> HIDE DEF metas
  <2> QED BY <1>2, <2>1, <2>2, CallDelivered DEF a, metas
<1>5. CASE c.kind = "end_round"
  <2> DEFINE metas == Demands(c.kind, c.players)
  <2>1. Build(c.kind, a) = buildIx(<<Byte(6)>>, metas) /\ Len(metas) \in Nat
    BY <1>1, <1>5 DEF Build, Demands, getEndRoundInstruction, Each
  <2>2. c.kind = Handlers[6 + 1] /\ <<Byte(6)>>[1] = Byte(6)
    BY <1>5 DEF Handlers
  <2> HIDE DEF metas
  <2> QED BY <1>2, <2>1, <2>2, CallDelivered DEF a, metas
<1>6. CASE c.kind = "close_game"
  <2> DEFINE metas == Demands(c.kind, c.players)
  <2>1. Build(c.kind, a) = buildIx(<<Byte(7)>>, metas) /\ Len(metas) \in Nat
    BY <1>1, <1>6 DEF Build, Demands, getCloseGameInstruction
  <2>2. c.kind = Handlers[7 + 1] /\ <<Byte(7)>>[1] = Byte(7)
    BY <1>6 DEF Handlers
  <2> HIDE DEF metas
  <2> QED BY <1>2, <2>1, <2>2, CallDelivered DEF a, metas
<1>7. CASE c.kind = "leave_game"
  <2> DEFINE metas == Demands(c.kind, c.players)
  <2>0. metas = <<W("game_session"), W("player_state"), RS("player"), W("recipient")>>
    <3>1. metas = PlayerDemands \o <<W("recipient")>>
      BY <1>7 DEF Demands
    <3> QED BY <3>1, ThreeAndOne DEF PlayerDemands
  <2>1. Build(c.kind, a) = buildIx(<<Byte(8)>>, metas) /\ Len(metas) \in Nat
    <3>1. Build(c.kind, a) = getLeaveGameInstruction(a)
      BY <1>7 DEF Build
    <3> HIDE DEF metas
    <3> QED BY <2>0, <3>1 DEF getLeaveGameInstruction
  <2>2. c.kind = Handlers[8 + 1] /\ <<Byte(8)>>[1] = Byte(8)
    BY <1>7 DEF Handlers
  <2> HIDE DEF metas
  <2> QED BY <1>2, <2>1, <2>2, CallDelivered DEF a, metas
<1>8. CASE c.kind = "burn_second_chance"
  <2> DEFINE metas == Demands(c.kind, c.players)
  <2>1. Build(c.kind, a) = buildIx(<<Byte(9)>>, metas) /\ Len(metas) \in Nat
    BY <1>1, <1>8 DEF Build, Demands, getBurnSecondChanceInstruction, BurnAccounts, BurnDemands
  <2>2. c.kind = Handlers[9 + 1] /\ <<Byte(9)>>[1] = Byte(9)
    BY <1>8 DEF Handlers
  <2> HIDE DEF metas
  <2> QED BY <1>2, <2>1, <2>2, CallDelivered DEF a, metas
<1>9. CASE c.kind = "burn_scry"
  <2> DEFINE metas == Demands(c.kind, c.players)
  <2>1. Build(c.kind, a) = buildIx(<<Byte(10)>>, metas) /\ Len(metas) \in Nat
    BY <1>1, <1>9 DEF Build, Demands, getBurnScryInstruction, BurnAccounts, BurnDemands
  <2>2. c.kind = Handlers[10 + 1] /\ <<Byte(10)>>[1] = Byte(10)
    BY <1>9 DEF Handlers
  <2> HIDE DEF metas
  <2> QED BY <1>2, <2>1, <2>2, CallDelivered DEF a, metas
<1>10. CASE c.kind = "init_vault"
  <2> DEFINE metas == Demands(c.kind, c.players)
  <2>1. Build(c.kind, a) = buildIx(<<Byte(11)>>, metas) /\ Len(metas) \in Nat
    BY <1>1, <1>10 DEF Build, Demands, getInitVaultInstruction
  <2>2. c.kind = Handlers[11 + 1] /\ <<Byte(11)>>[1] = Byte(11)
    BY <1>10 DEF Handlers
  <2> HIDE DEF metas
  <2> QED BY <1>2, <2>1, <2>2, CallDelivered DEF a, metas
<1>11. CASE c.kind = "close_bounty_board"
  <2> DEFINE metas == Demands(c.kind, c.players)
  <2>1. Build(c.kind, a) = buildIx(<<Byte(15)>>, metas) /\ Len(metas) \in Nat
    BY <1>1, <1>11 DEF Build, Demands, getCloseBountyBoardInstruction
  <2>2. c.kind = Handlers[15 + 1] /\ <<Byte(15)>>[1] = Byte(15)
    BY <1>11 DEF Handlers
  <2> HIDE DEF metas
  <2> QED BY <1>2, <2>1, <2>2, CallDelivered DEF a, metas
<1> QED BY <1>3, <1>4, <1>5, <1>6, <1>7, <1>8, <1>9, <1>10, <1>11

(* The instructions that carry fields of a fixed width.                    *)
LEMMA JoinArrives ==
  ASSUME NEW c \in Calls, IsSent(c), c.kind = "join_round"
  PROVE  Arrives(c)
<1> DEFINE n == Amount(c)
           data == <<Byte(2), Byte(c.byte), u64Le(n)>>
           d == <<Chunk(1, c.byte), Chunk(8, n)>>
           at == <<0, 1, 9>>
           metas == Demands(c.kind, c.players)
<1>1. n = c.text.n * FLIP_SCALE /\ Byte(c.byte) = Chunk(1, c.byte) /\ u64Le(n) = Chunk(8, n)
  BY CallParts, WrittenAsIs
<1> HIDE DEF n
<1>2. Tail(data) = d
  BY <1>1
<1>3. ReadAt(d, 0, 1) = c.byte /\ ReadAt(d, 1, 8) = n
  <2>1. /\ DOMAIN d = 1..2 /\ d[1].width = 1 /\ d[2].width = 8
        /\ d[1].value = c.byte /\ d[2].value = n
    BY DEF Chunk
  <2>2. at[1] = 0 /\ at[2] = 1 /\ at[3] = 9
    OBVIOUS
  <2> HIDE DEF d, at
  <2>3. LaidOut(d, 2, at)
    BY <2>1, <2>2 DEF LaidOut
  <2>4. \A i \in 1..2 : ReadAt(d, at[i], d[i].width) = d[i].value
    BY <2>3, ReadBack
  <2> QED BY <2>1, <2>2, <2>4
<1>4. Reads(c.kind, d) = Meant(c)
  <2>1. Reads(c.kind, d) = [bump |-> ReadAt(d, 0, 1), stake |-> ReadAt(d, 1, 8)]
    BY DEF Reads
  <2>2. Meant(c) = [bump |-> c.byte, stake |-> n]
    BY <1>1 DEF Meant
  <2> QED BY <1>3, <2>1, <2>2
<1>5. Build(c.kind, Arguments(c)) = buildIx(data, metas) /\ Len(metas) \in Nat
  BY DEF Build, Arguments, Demands, getJoinRoundInstruction, n
<1>6. c.kind = Handlers[2 + 1] /\ data[1] = Byte(2)
  BY DEF Handlers
<1> HIDE DEF data, d
<1>7. Reads(c.kind, Tail(data)) = Meant(c)
  BY <1>2, <1>4
<1>8. Demands(c.kind, c.players) = metas
  OBVIOUS
<1> HIDE DEF metas
<1> QED BY <1>5, <1>6, <1>7, <1>8, CallDelivered

(* The root and the three parts of the proof.                              *)
LEMMA CommitArrives ==
  ASSUME NEW c \in Calls, c.kind = "commit_deck"
  PROVE  Arrives(c)
<1> DEFINE d == <<Chunk(32, 1), Chunk(64, 2), Chunk(128, 3), Chunk(64, 4)>>
           data == <<Byte(1), Chunk(32, 1), Chunk(64, 2), Chunk(128, 3), Chunk(64, 4)>>
           at == <<0, 32, 96, 224, 288>>
           metas == Demands(c.kind, c.players)
<1>1. Tail(data) = d
  OBVIOUS
<1>2. /\ ReadAt(d, 0, 32) = 1 /\ ReadAt(d, 32, 64) = 2
      /\ ReadAt(d, 96, 128) = 3 /\ ReadAt(d, 224, 64) = 4
  <2>1. /\ DOMAIN d = 1..4 /\ d[1].width = 32 /\ d[2].width = 64 /\ d[3].width = 128
        /\ d[4].width = 64
        /\ d[1].value = 1 /\ d[2].value = 2 /\ d[3].value = 3 /\ d[4].value = 4
    BY DEF Chunk
  <2>2. at[1] = 0 /\ at[2] = 32 /\ at[3] = 96 /\ at[4] = 224 /\ at[5] = 288
    OBVIOUS
  <2> HIDE DEF d, at
  <2>3. LaidOut(d, 4, at)
    BY <2>1, <2>2 DEF LaidOut
  <2>4. \A i \in 1..4 : ReadAt(d, at[i], d[i].width) = d[i].value
    BY <2>3, ReadBack
  <2> QED BY <2>1, <2>2, <2>4
<1>3. Reads(c.kind, d) = Meant(c)
  <2>1. Reads(c.kind, d) = [root |-> ReadAt(d, 0, 32), a |-> ReadAt(d, 32, 64),
                            b |-> ReadAt(d, 96, 128), c |-> ReadAt(d, 224, 64)]
    BY DEF Reads
  <2>2. Meant(c) = [root |-> 1, a |-> 2, b |-> 3, c |-> 4]
    BY DEF Meant
  <2> QED BY <1>2, <2>1, <2>2
<1>4. Build(c.kind, Arguments(c)) = buildIx(data, metas) /\ Len(metas) \in Nat
  BY DEF Build, Arguments, Demands, getCommitDeckInstruction
<1>5. c.kind = Handlers[1 + 1] /\ data[1] = Byte(1)
  BY DEF Handlers
<1> HIDE DEF data, d
<1>6. Reads(c.kind, Tail(data)) = Meant(c)
  BY <1>1, <1>3
<1>7. Demands(c.kind, c.players) = metas
  OBVIOUS
<1> HIDE DEF metas
<1> QED BY <1>4, <1>5, <1>6, <1>7, CallDelivered

(* The kind of a bounty and its reward.                                    *)
LEMMA AddBountyArrives ==
  ASSUME NEW c \in Calls, IsSent(c), c.kind = "add_bounty"
  PROVE  Arrives(c)
<1> DEFINE n == Amount(c)
           data == <<Byte(13), Byte(c.byte), u64Le(n)>>
           d == <<Chunk(1, c.byte), Chunk(8, n)>>
           at == <<0, 1, 9>>
           metas == Demands(c.kind, c.players)
<1>1. n = c.text.n /\ Byte(c.byte) = Chunk(1, c.byte) /\ u64Le(n) = Chunk(8, n)
  BY CallParts, WrittenAsIs
<1> HIDE DEF n
<1>2. Tail(data) = d
  BY <1>1
<1>3. ReadAt(d, 0, 1) = c.byte /\ ReadAt(d, 1, 8) = n
  <2>1. /\ DOMAIN d = 1..2 /\ d[1].width = 1 /\ d[2].width = 8
        /\ d[1].value = c.byte /\ d[2].value = n
    BY DEF Chunk
  <2>2. at[1] = 0 /\ at[2] = 1 /\ at[3] = 9
    OBVIOUS
  <2> HIDE DEF d, at
  <2>3. LaidOut(d, 2, at)
    BY <2>1, <2>2 DEF LaidOut
  <2>4. \A i \in 1..2 : ReadAt(d, at[i], d[i].width) = d[i].value
    BY <2>3, ReadBack
  <2> QED BY <2>1, <2>2, <2>4
<1>4. Reads(c.kind, d) = Meant(c)
  <2>1. Reads(c.kind, d) = [bounty_type |-> ReadAt(d, 0, 1), reward |-> ReadAt(d, 1, 8)]
    BY DEF Reads
  <2>2. Meant(c) = [bounty_type |-> c.byte, reward |-> n]
    BY <1>1 DEF Meant
  <2> QED BY <1>3, <2>1, <2>2
<1>5. Build(c.kind, Arguments(c)) = buildIx(data, metas) /\ Len(metas) \in Nat
  BY DEF Build, Arguments, Demands, getAddBountyInstruction, n
<1>6. c.kind = Handlers[13 + 1] /\ data[1] = Byte(13)
  BY DEF Handlers
<1> HIDE DEF data, d
<1>7. Reads(c.kind, Tail(data)) = Meant(c)
  BY <1>2, <1>4
<1>8. Demands(c.kind, c.players) = metas
  OBVIOUS
<1> HIDE DEF metas
<1> QED BY <1>5, <1>6, <1>7, <1>8, CallDelivered

(* The two instructions with one byte of data.                             *)
LEMMA OneByteArrives ==
  ASSUME NEW c \in Calls, IsSent(c), c.kind \in {"init_bounty_board", "claim_bounty"}
  PROVE  Arrives(c)
<1> DEFINE first == IF c.kind = "init_bounty_board" THEN 12 ELSE 14
           data == <<Byte(first), Byte(c.byte)>>
           d == <<Chunk(1, c.byte)>>
           at == <<0, 1>>
           metas == Demands(c.kind, c.players)
<1>1. Byte(c.byte) = Chunk(1, c.byte)
  BY CallParts, WrittenAsIs
<1>2. Tail(data) = d
  BY <1>1
<1>3. ReadAt(d, 0, 1) = c.byte
  <2>1. DOMAIN d = 1..1 /\ d[1].width = 1 /\ d[1].value = c.byte
    BY DEF Chunk
  <2>2. at[1] = 0 /\ at[2] = 1
    OBVIOUS
  <2> HIDE DEF d, at
  <2>3. LaidOut(d, 1, at)
    BY <2>1, <2>2 DEF LaidOut
  <2>4. \A i \in 1..1 : ReadAt(d, at[i], d[i].width) = d[i].value
    BY <2>3, ReadBack
  <2> QED BY <2>1, <2>2, <2>4
<1>4. Reads(c.kind, d) = Meant(c)
  <2>1. CASE c.kind = "init_bounty_board"
    <3>1. Reads(c.kind, d) = [bump |-> ReadAt(d, 0, 1)]
      BY <2>1 DEF Reads
    <3>2. Meant(c) = [bump |-> c.byte]
      BY <2>1 DEF Meant
    <3> QED BY <1>3, <3>1, <3>2
  <2>2. CASE c.kind = "claim_bounty"
    <3>1. Reads(c.kind, d) = [index |-> ReadAt(d, 0, 1)]
      BY <2>2 DEF Reads
    <3>2. Meant(c) = [index |-> c.byte]
      BY <2>2 DEF Meant
    <3> QED BY <1>3, <3>1, <3>2
  <2> QED BY <2>1, <2>2
<1>5. Build(c.kind, Arguments(c)) = buildIx(data, metas) /\ Len(metas) \in Nat
  BY DEF Build, Arguments, Demands, getInitBountyBoardInstruction, getClaimBountyInstruction
<1>6. first \in 0..15 /\ c.kind = Handlers[first + 1] /\ data[1] = Byte(first)
  BY DEF Handlers
<1> HIDE DEF data, d, first
<1>7. Reads(c.kind, Tail(data)) = Meant(c)
  BY <1>2, <1>4
<1>8. Demands(c.kind, c.players) = metas
  OBVIOUS
<1> HIDE DEF metas
<1> QED BY <1>5, <1>6, <1>7, <1>8, CallDelivered

(* Three bytes, the seven hashes of the proof and the index of the leaf.   *)
LEMMA HitArrives ==
  ASSUME NEW c \in Calls, IsSent(c), c.kind = "hit"
  PROVE  Arrives(c)
<1> DEFINE fields == <<Byte(4), Byte(c.byte), Byte(1), Byte(2)>>
           hashes == [i \in 1..7 |-> Chunk(32, i)]
           data == fields \o hashes \o <<Byte(c.byte)>>
           d == Tail(data)
           at == [i \in 1..12 |-> IF i <= 3 THEN i - 1
                                  ELSE IF i <= 11 THEN 3 + 32 * (i - 4) ELSE 228]
           metas == Demands(c.kind, c.players)
<1>1. Byte(c.byte) = Chunk(1, c.byte) /\ Byte(1) = Chunk(1, 1) /\ Byte(2) = Chunk(1, 2)
  <2>1. 1 \in Nat /\ 2 \in Nat /\ 1 < U8 /\ 2 < U8
    BY WidthAssumption, CallAssumption
  <2> QED BY <2>1, CallParts, WrittenAsIs
<1>2. /\ ReadAt(d, 0, 1) = c.byte /\ ReadAt(d, 1, 1) = 1 /\ ReadAt(d, 2, 1) = 2
      /\ \A i \in 1..7 : ReadAt(d, 3 + 32 * (i - 1), 32) = i
      /\ ReadAt(d, 227, 1) = c.byte
  <2>1. d = [i \in 1..11 |-> IF i <= 3 THEN fields[i + 1]
                             ELSE IF i <= 10 THEN hashes[i - 3] ELSE Byte(c.byte)]
    OBVIOUS
  <2>2. /\ DOMAIN d = 1..11
        /\ d[1] = Chunk(1, c.byte) /\ d[2] = Chunk(1, 1) /\ d[3] = Chunk(1, 2)
        /\ \A i \in 4..10 : d[i] = Chunk(32, i - 3)
        /\ d[11] = Chunk(1, c.byte)
    BY <1>1, <2>1
  <2> HIDE DEF d
  <2>3. /\ d[1].width = 1 /\ d[2].width = 1 /\ d[3].width = 1 /\ d[11].width = 1
        /\ \A i \in 4..10 : d[i].width = 32 /\ d[i].value = i - 3
        /\ d[1].value = c.byte /\ d[2].value = 1 /\ d[3].value = 2 /\ d[11].value = c.byte
    BY <2>2 DEF Chunk
  <2>4. /\ at[1] = 0 /\ at[2] = 1 /\ at[3] = 2 /\ at[4] = 3 /\ at[11] = 227 /\ at[12] = 228
        /\ \A i \in 4..10 : at[i] = 3 + 32 * (i - 4) /\ at[i + 1] = at[i] + 32
    OBVIOUS
  <2> HIDE DEF at
  <2>5. LaidOut(d, 11, at)
    <3>1. \A i \in 1..11 : i = 1 \/ i = 2 \/ i = 3 \/ i \in 4..10 \/ i = 11
      OBVIOUS
    <3> QED BY <2>2, <2>3, <2>4, <3>1 DEF LaidOut
  <2>6. \A i \in 1..11 : ReadAt(d, at[i], d[i].width) = d[i].value
    BY <2>5, ReadBack
  <2>7. ASSUME NEW i \in 1..7 PROVE ReadAt(d, 3 + 32 * (i - 1), 32) = i
    <3>1. /\ i + 3 \in 4..10 /\ i + 3 \in 1..11 /\ (i + 3) - 3 = i
          /\ 3 + 32 * ((i + 3) - 4) = 3 + 32 * (i - 1)
      OBVIOUS
    <3> QED BY <2>3, <2>4, <2>6, <3>1
  <2> QED BY <2>3, <2>4, <2>6, <2>7
<1>3. Reads(c.kind, d) = Meant(c)
  <2> HIDE DEF d
  <2>1. Reads(c.kind, d)
          = [value |-> ReadAt(d, 0, 1), card_type |-> ReadAt(d, 1, 1), suit |-> ReadAt(d, 2, 1),
             proof |-> [i \in 1..7 |-> ReadAt(d, 3 + 32 * (i - 1), 32)],
             leaf_index |-> ReadAt(d, 227, 1)]
    BY DEF Reads
  <2>2. Meant(c) = [value |-> c.byte, card_type |-> 1, suit |-> 2,
                    proof |-> [i \in 1..7 |-> i], leaf_index |-> c.byte]
    BY DEF Meant
  <2>3. [i \in 1..7 |-> ReadAt(d, 3 + 32 * (i - 1), 32)] = [i \in 1..7 |-> i]
    BY <1>2
  <2> QED BY <1>2, <2>1, <2>2, <2>3
<1>4. Build(c.kind, Arguments(c)) = buildIx(data, metas) /\ Len(metas) \in Nat
  <2>1. Build(c.kind, Arguments(c)) = getHitInstruction(Arguments(c))
    BY DEF Build
  <2>2. /\ Arguments(c).value = c.byte /\ Arguments(c).card_type = 1 /\ Arguments(c).suit = 2
        /\ Arguments(c).leaf_index = c.byte /\ Arguments(c).players = c.players
    BY DEF Arguments
  <2>3. metas = PlayerDemands \o Each(W, c.players)
    BY DEF Demands
  <2>4. Len(metas) \in Nat
    BY <2>3, CallParts DEF PlayerDemands, Each
  <2> HIDE DEF metas
  <2> QED BY <2>1, <2>2, <2>3, <2>4 DEF getHitInstruction, PlayerDemands
<1>5. c.kind = Handlers[4 + 1] /\ data[1] = Byte(4)
  BY DEF Handlers
<1>6. Demands(c.kind, c.players) = metas
  OBVIOUS
<1> HIDE DEF data, metas
<1> QED BY <1>3, <1>4, <1>5, <1>6, CallDelivered

(* The fee may be left out: the program then takes 200 for it.             *)
LEMMA InitializeArrives ==
  ASSUME NEW c \in Calls, IsSent(c), c.kind = "initialize"
  PROVE  Arrives(c)
<1> DEFINE n == Amount(c)
           given == c.fee # NoFee
           fields == <<Byte(0), u64Le(n), Byte(c.byte), Byte(c.byte)>>
           data == fields \o IF given THEN <<u16Le(c.fee)>> ELSE << >>
           d == Tail(data)
           at == <<0, 8, 9, 10, 12>>
           metas == Demands(c.kind, c.players)
<1>1. /\ n = c.text.n /\ Byte(c.byte) = Chunk(1, c.byte) /\ u64Le(n) = Chunk(8, n)
      /\ given => u16Le(c.fee) = Chunk(2, c.fee)
  BY CallParts, WrittenAsIs
<1> HIDE DEF n
<1>2. /\ DOMAIN d = 1..(IF given THEN 4 ELSE 3)
      /\ d[1] = Chunk(8, n) /\ d[2] = Chunk(1, c.byte) /\ d[3] = Chunk(1, c.byte)
      /\ Len(d) = (IF given THEN 4 ELSE 3)
      /\ given => d[4] = Chunk(2, c.fee)
  <2>1. CASE given
    <3>1. d = [i \in 1..4 |-> IF i <= 3 THEN fields[i + 1] ELSE u16Le(c.fee)]
      BY <2>1
    <3> QED BY <1>1, <2>1, <3>1
  <2>2. CASE ~given
    <3>1. d = [i \in 1..3 |-> fields[i + 1]]
      BY <2>2
    <3> QED BY <1>1, <2>2, <3>1
  <2> QED BY <2>1, <2>2
<1>3. at[1] = 0 /\ at[2] = 8 /\ at[3] = 9 /\ at[4] = 10 /\ at[5] = 12
  OBVIOUS
<1>4. /\ ReadAt(d, 0, 8) = n /\ ReadAt(d, 8, 1) = c.byte /\ ReadAt(d, 9, 1) = c.byte
      /\ (IF Size(d) >= 12 THEN ReadAt(d, 10, 2) ELSE 200) = (IF given THEN c.fee ELSE 200)
  <2> HIDE DEF d, at
  <2>1. /\ d[1].width = 8 /\ d[2].width = 1 /\ d[3].width = 1
        /\ d[1].value = n /\ d[2].value = c.byte /\ d[3].value = c.byte
        /\ given => d[4].width = 2 /\ d[4].value = c.fee
    BY <1>2 DEF Chunk
  <2>2. CASE given
    <3>1. LaidOut(d, 4, at)
      BY <1>2, <1>3, <2>1, <2>2 DEF LaidOut
    <3>2. /\ \A i \in 1..4 : ReadAt(d, at[i], d[i].width) = d[i].value
          /\ StartOf(d, 4 + 1) = at[4 + 1]
      BY <3>1, ReadBack
    <3>3. Size(d) = 12
      BY <1>2, <1>3, <2>2, <3>2 DEF Size
    <3> QED BY <1>3, <2>1, <2>2, <3>2, <3>3
  <2>3. CASE ~given
    <3>1. LaidOut(d, 3, at)
      BY <1>2, <1>3, <2>1, <2>3 DEF LaidOut
    <3>2. /\ \A i \in 1..3 : ReadAt(d, at[i], d[i].width) = d[i].value
          /\ StartOf(d, 3 + 1) = at[3 + 1]
      BY <3>1, ReadBack
    <3>3. Size(d) = 10
      BY <1>2, <1>3, <2>3, <3>2 DEF Size
    <3> QED BY <1>3, <2>1, <2>3, <3>2, <3>3
  <2> QED BY <2>2, <2>3
<1>5. Reads(c.kind, d) = Meant(c)
  <2> HIDE DEF d
  <2>1. Reads(c.kind, d)
          = [game_id |-> ReadAt(d, 0, 8), bump |-> ReadAt(d, 8, 1), vault_bump |-> ReadAt(d, 9, 1),
             fee |-> IF Size(d) >= 12 THEN ReadAt(d, 10, 2) ELSE 200]
    BY DEF Reads
  <2>2. Meant(c) = [game_id |-> n, bump |-> c.byte, vault_bump |-> c.byte,
                    fee |-> IF given THEN c.fee ELSE 200]
    BY <1>1 DEF Meant
  <2> QED BY <1>4, <2>1, <2>2
<1>6. Build(c.kind, Arguments(c)) = buildIx(data, metas) /\ Len(metas) \in Nat
  <2>1. Build(c.kind, Arguments(c)) = getInitializeInstruction(Arguments(c))
    BY DEF Build
  <2>2. /\ Arguments(c).game_id = n /\ Arguments(c).bump = c.byte
        /\ Arguments(c).vault_bump = c.byte /\ Arguments(c).fee = c.fee
    BY DEF Arguments, n
  <2>3. metas = <<WS("authority"), W("game_session"), R("house"), R("dealer"), R("treasury"),
                  R("token_mint"), R("system_program")>>
    BY DEF Demands
  <2>4. Len(metas) \in Nat
    BY <2>3
  <2> HIDE DEF metas
  <2> QED BY <2>1, <2>2, <2>3, <2>4 DEF getInitializeInstruction
<1>7. c.kind = Handlers[0 + 1] /\ data[1] = Byte(0)
  BY DEF Handlers
<1>8. Demands(c.kind, c.players) = metas
  OBVIOUS
<1> HIDE DEF data, metas
<1> QED BY <1>5, <1>6, <1>7, <1>8, CallDelivered

(* A mint is the whole number that was typed in base units, or refused.    *)
LEMMA MintRule ==
  ASSUME CallTypeOK
  PROVE  MintIsExact
<1>1. SUFFICES ASSUME NEW form, NEW to \in {1, Invalid},
                      amountBaseUnits([to |-> to, amount |-> [call.text EXCEPT !.form = form]])
                        # Invalid
               PROVE  LET minted == amountBaseUnits([to |-> to,
                                                     amount |-> [call.text EXCEPT !.form = form]])
                      IN  /\ to # Invalid /\ minted > 0
                          /\ u64Le(minted).value =
                               FLIP_SCALE * (IF form = "absent" THEN DEFAULT_AMOUNT_WHOLE
                                             ELSE call.text.n)
  BY DEF MintIsExact
<1> DEFINE amount == [call.text EXCEPT !.form = form]
           args == [to |-> to, amount |-> amount]
           typed == IF form = "absent" THEN DEFAULT_AMOUNT_WHOLE ELSE call.text.n
           whole == parseCliArgs(args)
           minted == amountBaseUnits(args)
<1>2. call.text \in Texts
  BY DEF CallTypeOK, Calls
<1>3. call.text.n \in Nat
  BY <1>2, TypedNumbers
<1>4. call.text = [form |-> call.text.form, n |-> call.text.n]
  BY <1>2 DEF Texts
<1>5. amount.form = form /\ amount.n = call.text.n
  BY <1>4
<1>6. typed \in Nat
  BY <1>3, CallAssumption
<1>7. args.to = to /\ args.amount = amount
  OBVIOUS
<1> HIDE DEF amount, args
<1>8. whole # Invalid /\ ~(whole * FLIP_SCALE >= U64) /\ minted = whole * FLIP_SCALE
  BY <1>1 DEF amountBaseUnits, args, amount
<1>9. whole = typed /\ to # Invalid /\ whole # 0
  <2>1. CASE form = "absent"
    BY <1>5, <1>7, <1>8, <2>1 DEF parseCliArgs
  <2>2. CASE form # "absent"
    <3>1. whole = parseU64(amount) /\ to # Invalid /\ whole # 0
      BY <1>5, <1>7, <1>8, <2>2 DEF parseCliArgs
    <3>2. parseU64(amount) = amount.n
      BY <1>3, <1>5, <1>8, <3>1, ParsedFits
    <3> QED BY <1>5, <2>2, <3>1, <3>2
  <2> QED BY <2>1, <2>2
<1> HIDE DEF typed, whole
<1>10. minted \in Nat /\ minted > 0 /\ minted < U64 /\ minted = FLIP_SCALE * typed
  <2>1. FLIP_SCALE \in Nat \ {0} /\ U64 \in Nat
    BY WidthAssumption
  <2>2. \A x, y \in Nat \ {0} : x * y = y * x /\ x * y \in Nat \ {0}
    OBVIOUS
  <2>3. whole * FLIP_SCALE \in Nat \ {0} /\ whole * FLIP_SCALE = FLIP_SCALE * whole
    BY <1>6, <1>9, <2>1, <2>2
  <2> HIDE DEF minted
  <2>4. minted \in Nat \ {0} /\ ~(minted >= U64) /\ minted = FLIP_SCALE * typed
    BY <1>8, <1>9, <2>3
  <2> QED BY <2>1, <2>4
<1>11. u64Le(minted) = Chunk(8, minted)
  BY <1>10, WrittenAsIs
<1>12. u64Le(minted).value = minted
  BY <1>11 DEF Chunk
<1> QED BY <1>9, <1>10, <1>12 DEF minted, typed, args, amount

(* Every instruction arrives at its handler with the accounts, privileges  *)
(* and arguments that were meant, whatever is typed and however wide the   *)
(* integers are; and a mint is exact or refused.                           *)
THEOREM CallsArrive == RulesSpec => []CallArrives
<1>1. ASSUME CallTypeOK PROVE CallArrives
  <2>1. SUFFICES ASSUME IsSent(call) PROVE Arrives(call) /\ MintIsExact
    BY DEF CallArrives, Arrives
  <2>2. call \in Calls
    BY <1>1 DEF CallTypeOK
  <2>3. call.kind \in ToSet(Handlers) /\ call.players \in Nat
    BY <2>1, <2>2, CallParts
  <2>4. call.kind \in {"initialize", "commit_deck", "join_round", "start_round", "hit", "stay",
                       "end_round", "close_game", "leave_game", "burn_second_chance",
                       "burn_scry", "init_vault", "init_bounty_board", "add_bounty",
                       "claim_bounty", "close_bounty_board"}
    BY <2>3 DEF ToSet, Handlers
  <2>5. Arrives(call)
    BY <2>1, <2>2, <2>3, <2>4, BareCallsArrive, InitializeArrives, CommitArrives, JoinArrives,
       HitArrives, AddBountyArrives, OneByteArrives
  <2> QED BY <1>1, <2>5, MintRule
<1> QED BY <1>1, CallIsTyped, PTL

-----------------------------------------------------------------------------
(* The tree over the deck and the walk up it.                              *)

(* The function a recursion that counts up defines.                        *)
CountsUp(f, n, b, g) == f[0] = b /\ \A k \in 1..n : f[k] = g[<<k, f[k - 1]>>]

(* A recursion that counts up has a solution.                              *)
LEMMA Recursion ==
  ASSUME NEW n \in Nat, NEW B, NEW b \in B, NEW g \in [(1..n) \X B -> B]
  PROVE  \E f \in [0..n -> B] : CountsUp(f, n, b, g)
<1> DEFINE Runs(f, m) == /\ f \in [0..m -> B] /\ f[0] = b
                         /\ \A k \in 1..m : f[k] = g[<<k, f[k - 1]>>]
           Good == {m \in Nat : m <= n => \E f : Runs(f, m)}
<1>1. 0 \in Good
  <2>1. Runs([k \in 0..0 |-> b], 0)
    OBVIOUS
  <2> QED BY <2>1
<1>2. ASSUME NEW m \in Nat, m \in Good PROVE m + 1 \in Good
  <2>1. SUFFICES ASSUME m + 1 <= n PROVE \E f : Runs(f, m + 1)
    OBVIOUS
  <2>2. PICK f : Runs(f, m)
    BY <1>2, <2>1
  <2> DEFINE new == g[<<m + 1, f[m]>>]
             h == [k \in 0..(m + 1) |-> IF k = m + 1 THEN new ELSE f[k]]
  <2>3. f[m] \in B /\ m + 1 \in 1..n
    BY <2>1, <2>2
  <2>4. new \in B
    BY <2>3
  <2> HIDE DEF new
  <2>5. h \in [0..(m + 1) -> B] /\ h[0] = b
    BY <2>2, <2>4
  <2>6. ASSUME NEW k \in 1..(m + 1) PROVE h[k] = g[<<k, h[k - 1]>>]
    <3>1. k - 1 \in 0..m /\ h[k - 1] = f[k - 1]
      OBVIOUS
    <3>2. CASE k = m + 1
      <4>1. h[k] = new /\ h[k - 1] = f[m]
        BY <3>1, <3>2
      <4> QED BY <3>2, <4>1 DEF new
    <3>3. CASE k # m + 1
      <4>1. k \in 1..m /\ h[k] = f[k]
        BY <3>3
      <4> QED BY <2>2, <3>1, <4>1
    <3> QED BY <3>2, <3>3
  <2> QED BY <2>5, <2>6
<1> HIDE DEF Good
<1>3. n \in Good
  BY <1>1, <1>2, NatSetInduction
<1> QED BY <1>3 DEF Good, CountsUp

(* The tree has twice as many nodes on each level as on the one above.     *)
LEMMA PowersDouble ==
  /\ PowersOfTwo \in [0..TREE_DEPTH -> Nat \ {0}] /\ PowersOfTwo[0] = 1
  /\ \A d \in 1..TREE_DEPTH : PowersOfTwo[d] = 2 * PowersOfTwo[d - 1]
<1> DEFINE B == Nat \ {0}
           g == [p \in (1..TREE_DEPTH) \X B |-> 2 * p[2]]
           Solves(f) == f = [d \in 0..TREE_DEPTH |-> IF d = 0 THEN 1 ELSE 2 * f[d - 1]]
<1>1. TREE_DEPTH \in Nat /\ 1 \in B
  BY DeckAssumption
<1>2. /\ g \in [(1..TREE_DEPTH) \X B -> B]
      /\ \A k \in 1..TREE_DEPTH, x \in B : g[<<k, x>>] = 2 * x
  OBVIOUS
<1> HIDE DEF g, B
<1>3. PICK f \in [0..TREE_DEPTH -> B] : CountsUp(f, TREE_DEPTH, 1, g)
  BY <1>1, <1>2, Recursion
<1>4. Solves(f)
  <2>1. ASSUME NEW d \in 1..TREE_DEPTH PROVE f[d] = 2 * f[d - 1]
    <3>1. f[d - 1] \in B
      BY <1>1
    <3> QED BY <1>2, <1>3, <3>1 DEF CountsUp
  <2>2. ASSUME NEW d \in 0..TREE_DEPTH PROVE f[d] = IF d = 0 THEN 1 ELSE 2 * f[d - 1]
    <3>1. d = 0 \/ d \in 1..TREE_DEPTH
      BY <1>1
    <3> QED BY <1>3, <2>1, <3>1 DEF CountsUp
  <2>3. f = [d \in 0..TREE_DEPTH |-> f[d]]
    OBVIOUS
  <2> QED BY <2>2, <2>3
<1>5. PowersOfTwo = CHOOSE h : Solves(h)
  BY DEF PowersOfTwo
<1>6. Solves(PowersOfTwo)
  BY <1>4, <1>5
<1>7. ASSUME NEW d \in 1..TREE_DEPTH PROVE PowersOfTwo[d] = 2 * PowersOfTwo[d - 1]
  BY <1>1, <1>6
<1>8. DOMAIN PowersOfTwo = 0..TREE_DEPTH /\ PowersOfTwo[0] = 1
  BY <1>1, <1>6
<1> DEFINE Good == {m \in Nat : m <= TREE_DEPTH => PowersOfTwo[m] \in Nat \ {0}}
<1>9. 0 \in Good
  BY <1>8
<1>10. ASSUME NEW m \in Nat, m \in Good PROVE m + 1 \in Good
  <2>1. SUFFICES ASSUME m + 1 <= TREE_DEPTH PROVE PowersOfTwo[m + 1] \in Nat \ {0}
    OBVIOUS
  <2>2. m + 1 \in 1..TREE_DEPTH /\ (m + 1) - 1 = m /\ PowersOfTwo[m] \in Nat \ {0}
    BY <1>1, <1>10, <2>1
  <2>3. PowersOfTwo[m + 1] = 2 * PowersOfTwo[m]
    BY <1>7, <2>2
  <2> QED BY <2>2, <2>3
<1> HIDE DEF Good
<1>11. Nat \subseteq Good
  BY <1>9, <1>10, NatSetInduction
<1>12. \A d \in 0..TREE_DEPTH : PowersOfTwo[d] \in Nat \ {0}
  BY <1>1, <1>11 DEF Good
<1>13. PowersOfTwo = [d \in 0..TREE_DEPTH |-> PowersOfTwo[d]]
  BY <1>6
<1> QED BY <1>7, <1>8, <1>12, <1>13

(* A leaf's index is halved on the way up.                                 *)
LEMMA IndicesHalve ==
  ASSUME NEW i \in Nat
  PROVE  /\ IndicesUp(i)[0] = i
         /\ \A k \in 0..TREE_DEPTH : IndicesUp(i)[k] \in Nat
         /\ \A k \in 1..TREE_DEPTH : IndicesUp(i)[k] = IndicesUp(i)[k - 1] \div 2
<1> DEFINE g == [p \in (1..TREE_DEPTH) \X Nat |-> p[2] \div 2]
           Solves(f) == f = [d \in 0..TREE_DEPTH |-> IF d = 0 THEN i ELSE f[d - 1] \div 2]
           idx == CHOOSE f : Solves(f)
<1>1. TREE_DEPTH \in Nat
  BY DeckAssumption
<1>2. /\ g \in [(1..TREE_DEPTH) \X Nat -> Nat]
      /\ \A k \in 1..TREE_DEPTH, x \in Nat : g[<<k, x>>] = x \div 2
  OBVIOUS
<1> HIDE DEF g
<1>3. PICK f \in [0..TREE_DEPTH -> Nat] : CountsUp(f, TREE_DEPTH, i, g)
  BY <1>1, <1>2, Recursion
<1>4. Solves(f)
  <2>1. ASSUME NEW d \in 1..TREE_DEPTH PROVE f[d] = f[d - 1] \div 2
    <3>1. f[d - 1] \in Nat
      BY <1>1
    <3> QED BY <1>2, <1>3, <3>1 DEF CountsUp
  <2>2. ASSUME NEW d \in 0..TREE_DEPTH PROVE f[d] = IF d = 0 THEN i ELSE f[d - 1] \div 2
    <3>1. d = 0 \/ d \in 1..TREE_DEPTH
      BY <1>1
    <3> QED BY <1>3, <2>1, <3>1 DEF CountsUp
  <2>3. f = [d \in 0..TREE_DEPTH |-> f[d]]
    OBVIOUS
  <2> QED BY <2>2, <2>3
<1>5. IndicesUp(i) = idx
  BY DEF IndicesUp
<1>6. Solves(idx)
  BY <1>4
<1> HIDE DEF idx
<1>7. idx[0] = i /\ \A k \in 1..TREE_DEPTH : idx[k] = idx[k - 1] \div 2
  BY <1>1, <1>6
<1> DEFINE Good == {m \in Nat : m <= TREE_DEPTH => idx[m] \in Nat}
<1>8. 0 \in Good
  BY <1>7
<1>9. ASSUME NEW m \in Nat, m \in Good PROVE m + 1 \in Good
  <2>1. SUFFICES ASSUME m + 1 <= TREE_DEPTH PROVE idx[m + 1] \in Nat
    OBVIOUS
  <2>2. m + 1 \in 1..TREE_DEPTH /\ (m + 1) - 1 = m /\ idx[m] \in Nat
    BY <1>1, <1>9, <2>1
  <2>3. idx[m + 1] = idx[m] \div 2
    BY <1>7, <2>2
  <2> QED BY <2>2, <2>3
<1> HIDE DEF Good
<1>10. Nat \subseteq Good
  BY <1>8, <1>9, NatSetInduction
<1>11. \A k \in 0..TREE_DEPTH : idx[k] \in Nat
  BY <1>1, <1>10 DEF Good
<1> QED BY <1>5, <1>7, <1>11

LeavesOf(deck) ==
  [i \in 1..NUM_LEAVES |-> hashCardLeaf(IF i \in DOMAIN deck THEN deck[i] ELSE Padding, i - 1)]
Above(level) == [i \in 1..(Len(level) \div 2) |-> hashPair(level[2 * i - 1], level[2 * i])]

(* The levels are built one upon the other.                                *)
LEMMA LevelsBuilt ==
  ASSUME NEW deck
  PROVE  /\ buildMerkleTree(deck)[0] = LeavesOf(deck)
         /\ \A d \in 1..TREE_DEPTH : buildMerkleTree(deck)[d] = Above(buildMerkleTree(deck)[d - 1])
<1> DEFINE Builds(f, m) ==
             f = [d \in 0..m |-> IF d = 0 THEN LeavesOf(deck) ELSE Above(f[d - 1])]
           Good == {m \in Nat : \E f : Builds(f, m)}
           tree == CHOOSE f : Builds(f, TREE_DEPTH)
<1>1. 0 \in Good
  <2>1. Builds([d \in 0..0 |-> LeavesOf(deck)], 0)
    OBVIOUS
  <2> QED BY <2>1
<1>2. ASSUME NEW m \in Nat, m \in Good PROVE m + 1 \in Good
  <2>1. PICK f : Builds(f, m)
    BY <1>2
  <2> DEFINE new == Above(f[m])
             h == [d \in 0..(m + 1) |-> IF d = m + 1 THEN new ELSE f[d]]
  <2>2. \A d \in 0..m : f[d] = IF d = 0 THEN LeavesOf(deck) ELSE Above(f[d - 1])
    BY <2>1
  <2> HIDE DEF Builds
  <2>3. ASSUME NEW d \in 0..(m + 1)
        PROVE  h[d] = IF d = 0 THEN LeavesOf(deck) ELSE Above(h[d - 1])
    <3>1. CASE d = m + 1
      <4>1. h[d] = new /\ d # 0 /\ h[d - 1] = f[m]
        BY <3>1
      <4> QED BY <4>1
    <3>2. CASE d # m + 1
      <4>1. d \in 0..m /\ h[d] = f[d] /\ (d # 0 => h[d - 1] = f[d - 1])
        BY <3>2
      <4> QED BY <2>2, <4>1
    <3> QED BY <3>1, <3>2
  <2>4. h = [d \in 0..(m + 1) |-> h[d]]
    OBVIOUS
  <2> HIDE DEF h
  <2>5. Builds(h, m + 1)
    BY <2>3, <2>4 DEF Builds
  <2> QED BY <2>5
<1> HIDE DEF Good
<1>3. TREE_DEPTH \in Nat /\ TREE_DEPTH \in Good
  BY <1>1, <1>2, NatSetInduction, DeckAssumption
<1>4. Builds(tree, TREE_DEPTH)
  BY <1>3 DEF Good
<1>5. buildMerkleTree(deck) = tree
  BY DEF buildMerkleTree, LeavesOf, Above
<1> HIDE DEF tree
<1>6. tree[0] = LeavesOf(deck) /\ \A d \in 1..TREE_DEPTH : tree[d] = Above(tree[d - 1])
  BY <1>3, <1>4
<1> QED BY <1>5, <1>6

(* Each level is half as long as the one below, down to the root.          *)
LEMMA LevelLengths ==
  ASSUME NEW deck
  PROVE  \A d \in 0..TREE_DEPTH :
           /\ DOMAIN buildMerkleTree(deck)[d] = 1..PowersOfTwo[TREE_DEPTH - d]
           /\ Len(buildMerkleTree(deck)[d]) = PowersOfTwo[TREE_DEPTH - d]
<1> DEFINE tree == buildMerkleTree(deck)
           Right(d) == /\ DOMAIN tree[d] = 1..PowersOfTwo[TREE_DEPTH - d]
                       /\ Len(tree[d]) = PowersOfTwo[TREE_DEPTH - d]
           Good == {d \in Nat : d <= TREE_DEPTH => Right(d)}
<1>0. TREE_DEPTH \in Nat
  BY DeckAssumption
<1>1. tree[0] = LeavesOf(deck) /\ \A d \in 1..TREE_DEPTH : tree[d] = Above(tree[d - 1])
  BY LevelsBuilt
<1> HIDE DEF tree
<1>2. 0 \in Good
  <2>1. NUM_LEAVES \in Nat /\ NUM_LEAVES = PowersOfTwo[TREE_DEPTH - 0]
    BY <1>0, PowersDouble DEF NUM_LEAVES
  <2>2. DOMAIN LeavesOf(deck) = 1..NUM_LEAVES /\ Len(LeavesOf(deck)) = NUM_LEAVES
    BY <2>1 DEF LeavesOf
  <2> QED BY <1>1, <2>1, <2>2
<1>3. ASSUME NEW d \in Nat, d \in Good PROVE d + 1 \in Good
  <2>1. SUFFICES ASSUME d + 1 <= TREE_DEPTH PROVE Right(d + 1)
    OBVIOUS
  <2> DEFINE n == PowersOfTwo[TREE_DEPTH - (d + 1)]
  <2>2. /\ TREE_DEPTH - d \in 1..TREE_DEPTH /\ (TREE_DEPTH - d) - 1 = TREE_DEPTH - (d + 1)
        /\ TREE_DEPTH - (d + 1) \in 0..TREE_DEPTH
        /\ d + 1 \in 1..TREE_DEPTH /\ (d + 1) - 1 = d
    BY <1>0, <2>1
  <2>3. n \in Nat /\ PowersOfTwo[TREE_DEPTH - d] = 2 * n
    BY <2>2, PowersDouble
  <2>4. Len(tree[d]) = 2 * n
    BY <1>0, <1>3, <2>1, <2>3
  <2>5. tree[d + 1] = Above(tree[d])
    BY <1>1, <2>2
  <2> HIDE DEF n
  <2>6. Len(tree[d]) \div 2 = n
    BY <2>3, <2>4
  <2>7. DOMAIN Above(tree[d]) = 1..n /\ Len(Above(tree[d])) = n
    <3>1. Above(tree[d]) = [i \in 1..n |-> hashPair(tree[d][2 * i - 1], tree[d][2 * i])]
      BY <2>6 DEF Above
    <3> QED BY <2>3, <3>1
  <2> QED BY <2>5, <2>7 DEF n
<1> HIDE DEF Good
<1>4. Nat \subseteq Good
  BY <1>2, <1>3, NatSetInduction
<1> QED BY <1>0, <1>4 DEF Good, tree

(* A node and its sibling, the left one first.                             *)
Joined(j, x, sibling) == IF j % 2 = 0 THEN hashPair(x, sibling) ELSE hashPair(sibling, x)

(* A node with its sibling makes the node above, and nothing else does.    *)
GoesUp(tree, k, j, x) ==
  /\ j \div 2 \in Nat /\ j \div 2 < PowersOfTwo[TREE_DEPTH - (k + 1)]
  /\ Joined(j, x, tree[k][SiblingOf(j) + 1]) = tree[k + 1][(j \div 2) + 1] <=> x = tree[k][j + 1]

(* On every level below the root the walk goes up by one node.             *)
LEMMA NodeAbove ==
  ASSUME NEW deck, NEW k \in 0..(TREE_DEPTH - 1), NEW j \in Nat, j < PowersOfTwo[TREE_DEPTH - k],
         NEW x
  PROVE  GoesUp(buildMerkleTree(deck), k, j, x)
<1> DEFINE tree == buildMerkleTree(deck)
           n == PowersOfTwo[TREE_DEPTH - (k + 1)]
           up == j \div 2
<1>0. TREE_DEPTH \in Nat /\ k \in Nat
  BY DeckAssumption
<1>1. /\ TREE_DEPTH - k \in 1..TREE_DEPTH /\ (TREE_DEPTH - k) - 1 = TREE_DEPTH - (k + 1)
      /\ TREE_DEPTH - (k + 1) \in 0..TREE_DEPTH
      /\ k + 1 \in 1..TREE_DEPTH /\ (k + 1) - 1 = k /\ k \in 0..TREE_DEPTH
  BY <1>0
<1>2. n \in Nat /\ PowersOfTwo[TREE_DEPTH - k] = 2 * n
  BY <1>1, PowersDouble
<1>3. Len(tree[k]) = 2 * n
  BY <1>1, <1>2, LevelLengths
<1>4. tree[k + 1] = Above(tree[k])
  BY <1>1, LevelsBuilt
<1> HIDE DEF tree, n
<1>5. up \in Nat /\ up < n /\ (j = 2 * up \/ j = 2 * up + 1) /\ (j % 2 = 0 <=> j = 2 * up)
  BY <1>2 DEF n
<1> HIDE DEF up
<1>6. Len(tree[k]) \div 2 = n /\ up + 1 \in 1..n
  BY <1>2, <1>3, <1>5
<1>7. tree[k + 1][up + 1] = <<tree[k][2 * (up + 1) - 1], tree[k][2 * (up + 1)]>>
  BY <1>4, <1>6 DEF Above, hashPair
<1>8. 2 * (up + 1) - 1 = 2 * up + 1 /\ 2 * (up + 1) = 2 * up + 2
  BY <1>5
<1>9. CASE j = 2 * up
  <2>1. j % 2 = 0 /\ SiblingOf(j) + 1 = 2 * up + 2 /\ j + 1 = 2 * up + 1
    BY <1>5, <1>9 DEF SiblingOf
  <2>2. (Joined(j, x, tree[k][SiblingOf(j) + 1]) = tree[k + 1][up + 1]) <=> x = tree[k][j + 1]
    BY <1>7, <1>8, <2>1 DEF hashPair, Joined
  <2> QED BY <1>5, <2>1, <2>2 DEF tree, up, n, GoesUp
<1>10. CASE j = 2 * up + 1
  <2>1. j % 2 # 0 /\ SiblingOf(j) + 1 = 2 * up + 1 /\ j + 1 = 2 * up + 2
    BY <1>5, <1>10 DEF SiblingOf
  <2>2. (Joined(j, x, tree[k][SiblingOf(j) + 1]) = tree[k + 1][up + 1]) <=> x = tree[k][j + 1]
    BY <1>7, <1>8, <2>1 DEF hashPair, Joined
  <2> QED BY <1>5, <2>1, <2>2 DEF tree, up, n, GoesUp
<1> QED BY <1>5, <1>9, <1>10

WalkStep(node, sibling) ==
  [current |-> IF node.index % 2 = 0 THEN hashPair(node.current, sibling)
               ELSE hashPair(sibling, node.current),
   index |-> node.index \div 2]

(* The last position of a set that has it.                                 *)
LEMMA MaxIsLast ==
  ASSUME NEW m \in Nat, NEW S \in SUBSET (1..(m + 1)), m + 1 \in S
  PROVE  Max(S) = m + 1
<1>1. m + 1 \in Nat /\ S # {}
  OBVIOUS
<1>2. Max(S) \in S /\ \A x \in S : x <= Max(S)
  BY <1>1, MaxOfPositions
<1>3. Max(S) \in 1..(m + 1) /\ m + 1 <= Max(S)
  BY <1>2
<1> QED BY <1>3

(* The walk from the leaf as the node it has reached at each level.        *)
IsWalk(run, c, i, proof, n) ==
  /\ run[0] = [current |-> hashCardLeaf(c, i), index |-> i]
  /\ \A k \in 1..n : run[k] = WalkStep(run[k - 1], proof[k])

(* verify_merkle_proof takes that walk and compares its end with the root. *)
LEMMA WalkRuns ==
  ASSUME NEW c, NEW i, NEW root, NEW proof, NEW n \in Nat, DOMAIN proof = 1..n
  PROVE  \E run : /\ IsWalk(run, c, i, proof, n)
                  /\ verify_merkle_proof(c, i, proof, root) <=> run[n].current = root
<1> DEFINE leaf == [current |-> hashCardLeaf(c, i), index |-> i]
           Value(f, S) == IF S = {} THEN leaf ELSE WalkStep(f[S \ {Max(S)}], proof[Max(S)])
           Solves(f, m) == f = [S \in SUBSET (1..m) |-> Value(f, S)]
           Good == {m \in Nat : \E f : Solves(f, m)}
           iter == CHOOSE f : f = [S \in SUBSET (DOMAIN proof) |-> Value(f, S)]
           run == [k \in 0..n |-> iter[1..k]]
<1>1. verify_merkle_proof(c, i, proof, root) <=> iter[DOMAIN proof].current = root
  BY DEF verify_merkle_proof, FoldLeft, MapThenFoldSet, WalkStep
<1>2. 0 \in Good
  <2> DEFINE f == [S \in SUBSET (1..0) |-> leaf]
  <2>1. \A S \in SUBSET (1..0) : S = {}
    OBVIOUS
  <2>2. Solves(f, 0)
    BY <2>1
  <2> QED BY <2>2
<1>3. ASSUME NEW m \in Nat, m \in Good PROVE m + 1 \in Good
  <2>1. PICK f : Solves(f, m)
    BY <1>3
  <2> DEFINE h == [S \in SUBSET (1..(m + 1)) |->
                     IF m + 1 \in S THEN WalkStep(f[S \ {m + 1}], proof[m + 1]) ELSE f[S]]
  <2>2. \A S \in SUBSET (1..m) : f[S] = Value(f, S)
    BY <2>1
  <2>3. ASSUME NEW S \in SUBSET (1..(m + 1)) PROVE h[S] = Value(h, S)
    <3>1. CASE m + 1 \in S
      <4>2. Max(S) = m + 1
        BY <3>1, MaxIsLast
      <4>3. S \ {m + 1} \in SUBSET (1..(m + 1)) /\ m + 1 \notin S \ {m + 1} /\ S # {}
        BY <3>1
      <4>4. h[S] = WalkStep(f[S \ {m + 1}], proof[m + 1]) /\ h[S \ {m + 1}] = f[S \ {m + 1}]
        BY <3>1, <4>3
      <4> HIDE DEF h
      <4> QED BY <4>2, <4>3, <4>4
    <3>2. CASE m + 1 \notin S
      <4>1. S \in SUBSET (1..m) /\ h[S] = f[S]
        BY <3>2
      <4>2. CASE S = {}
        BY <2>2, <4>1, <4>2
      <4>3. CASE S # {}
        <5>1. S \ {Max(S)} \in SUBSET (1..(m + 1)) /\ m + 1 \notin S \ {Max(S)}
          BY <3>2
        <5>2. h[S \ {Max(S)}] = f[S \ {Max(S)}]
          BY <5>1
        <5> HIDE DEF h
        <5> QED BY <2>2, <4>1, <4>3, <5>2
      <4> QED BY <4>2, <4>3
    <3> QED BY <3>1, <3>2
  <2>4. h = [S \in SUBSET (1..(m + 1)) |-> h[S]]
    OBVIOUS
  <2> HIDE DEF h, Value
  <2>5. Solves(h, m + 1)
    BY <2>3, <2>4
  <2> QED BY <2>5
<1> HIDE DEF Good
<1>4. n \in Good
  BY <1>2, <1>3, NatSetInduction
<1>5. PICK f : Solves(f, n)
  BY <1>4 DEF Good
<1>6. iter = [S \in SUBSET (DOMAIN proof) |-> Value(iter, S)]
  BY <1>5
<1> HIDE DEF iter
<1>7. run[0] = leaf
  BY <1>6
<1>8. ASSUME NEW k \in 1..n PROVE run[k] = WalkStep(run[k - 1], proof[k])
  <2>1. 1..k \in SUBSET (DOMAIN proof) /\ 1..k # {} /\ k \in 0..n /\ k - 1 \in 0..n
    <3>1. k \in Nat /\ k <= n /\ k \in 1..k
      OBVIOUS
    <3> QED BY <3>1
  <2>2. Max(1..k) = k /\ (1..k) \ {Max(1..k)} = 1..(k - 1)
    BY MaxOfFirst
  <2> QED BY <1>6, <2>1, <2>2
<1>9. run[n] = iter[DOMAIN proof]
  OBVIOUS
<1> HIDE DEF run
<1> QED BY <1>1, <1>7, <1>8, <1>9 DEF IsWalk

(* The walk with the dealer's proof of leaf i ends on the root exactly when *)
(* it starts from that leaf.                                               *)
LEMMA WalkEndsOnRoot ==
  ASSUME NEW deck, NEW c, NEW i \in Nat, i < NUM_LEAVES
  PROVE  LET tree == buildMerkleTree(deck) IN
         verify_merkle_proof(c, i, getMerkleProof(tree, i), RootOf(tree))
           <=> hashCardLeaf(c, i) = tree[0][i + 1]
<1> DEFINE tree == buildMerkleTree(deck)
           proof == getMerkleProof(tree, i)
           idx == IndicesUp(i)
           root == RootOf(tree)
<1>0. TREE_DEPTH \in Nat
  BY DeckAssumption
<1>1. DOMAIN proof = 1..TREE_DEPTH
      /\ \A k \in 1..TREE_DEPTH : proof[k] = tree[k - 1][SiblingOf(idx[k - 1]) + 1]
  BY DEF getMerkleProof
<1>2. /\ idx[0] = i /\ \A k \in 0..TREE_DEPTH : idx[k] \in Nat
      /\ \A k \in 1..TREE_DEPTH : idx[k] = idx[k - 1] \div 2
  BY IndicesHalve
<1> HIDE DEF proof, idx
<1>3. PICK run : /\ IsWalk(run, c, i, proof, TREE_DEPTH)
                 /\ verify_merkle_proof(c, i, proof, root) <=> run[TREE_DEPTH].current = root
  <2> HIDE DEF root
  <2>1. DOMAIN proof = 1..TREE_DEPTH
    BY <1>1
  <2> QED BY <1>0, <2>1, WalkRuns
<1>4. /\ run[0] = [current |-> hashCardLeaf(c, i), index |-> i]
      /\ \A k \in 1..TREE_DEPTH : run[k] = WalkStep(run[k - 1], proof[k])
  BY <1>3 DEF IsWalk
<1> DEFINE Holds(k) == /\ run[k].index = idx[k]
                       /\ idx[k] \in Nat /\ idx[k] < PowersOfTwo[TREE_DEPTH - k]
                       /\ run[k].current = tree[k][idx[k] + 1]
                            <=> hashCardLeaf(c, i) = tree[0][i + 1]
           Good == {k \in Nat : k <= TREE_DEPTH => Holds(k)}
<1>5. 0 \in Good
  <2>1. TREE_DEPTH - 0 = TREE_DEPTH
    BY <1>0
  <2> QED BY <1>2, <1>4, <2>1 DEF NUM_LEAVES
<1>6. ASSUME NEW k \in Nat, k \in Good PROVE k + 1 \in Good
  <2>1. SUFFICES ASSUME k + 1 <= TREE_DEPTH PROVE Holds(k + 1)
    OBVIOUS
  <2> DEFINE j == idx[k]
             x == run[k].current
             sibling == tree[k][SiblingOf(j) + 1]
             up == j \div 2
  <2>2. k \in 0..(TREE_DEPTH - 1) /\ k + 1 \in 1..TREE_DEPTH /\ (k + 1) - 1 = k
    BY <1>0, <2>1
  <2>3. Holds(k)
    BY <1>0, <1>6, <2>1
  <2>4. /\ up \in Nat /\ up < PowersOfTwo[TREE_DEPTH - (k + 1)]
        /\ Joined(j, x, sibling) = tree[k + 1][up + 1] <=> x = tree[k][j + 1]
    <3>1. j \in Nat /\ j < PowersOfTwo[TREE_DEPTH - k]
      BY <2>3
    <3> HIDE DEF j, x
    <3>2. GoesUp(tree, k, j, x)
      BY <2>2, <3>1, NodeAbove
    <3> QED BY <3>2 DEF GoesUp
  <2>5. idx[k + 1] = up /\ run[k + 1] = WalkStep(run[k], sibling)
    BY <1>1, <1>2, <1>4, <2>2
  <2>6. /\ run[k + 1].index = up
        /\ run[k + 1].current = Joined(j, x, sibling)
    BY <2>3, <2>5 DEF WalkStep, Joined
  <2> HIDE DEF j, sibling, up
  <2> QED BY <2>3, <2>4, <2>5, <2>6 DEF j
<1> HIDE DEF Good
<1>7. Nat \subseteq Good
  BY <1>5, <1>6, NatSetInduction
<1>8. Holds(TREE_DEPTH)
  BY <1>0, <1>7 DEF Good
<1>9. idx[TREE_DEPTH] = 0
  <2>1. TREE_DEPTH - TREE_DEPTH = 0
    BY <1>0
  <2> QED BY <1>8, <2>1, PowersDouble
<1> QED BY <1>3, <1>8, <1>9 DEF RootOf, proof

(* What FlattenSeq has put together after each part.                       *)
LEMMA FlattenRuns ==
  ASSUME NEW S, NEW parts \in Seq(Seq(S))
  PROVE  \E run \in [0..Len(parts) -> Seq(S)] :
           /\ run[0] = << >> /\ FlattenSeq(parts) = run[Len(parts)]
           /\ \A i \in 1..Len(parts) : run[i] = run[i - 1] \o parts[i]
<1> DEFINE n == Len(parts)
           B == Seq(S)
           g == [p \in (1..n) \X B |-> p[2] \o parts[p[1]]]
           Solves(f) == f = [i \in 1..n |-> IF i = 1 THEN parts[i] ELSE f[i - 1] \o parts[i]]
           flat == CHOOSE f : Solves(f)
<1>1. n \in Nat /\ << >> \in B /\ \A i \in 1..n : parts[i] \in B
  OBVIOUS
<1>2. \A x, y \in B : x \o y \in B
  OBVIOUS
<1>3. g \in [(1..n) \X B -> B] /\ \A i \in 1..n, x \in B : g[<<i, x>>] = x \o parts[i]
  <2>1. \A p \in (1..n) \X B : p = <<p[1], p[2]>> /\ p[1] \in 1..n /\ p[2] \in B
    OBVIOUS
  <2>2. \A p \in (1..n) \X B : p[2] \o parts[p[1]] \in B
    BY <1>1, <1>2, <2>1
  <2> HIDE DEF B, n
  <2> QED BY <2>2
<1>4. \A x \in B : << >> \o x = x
  BY ConcatEmptySeq
<1>5. n = 0 => FlattenSeq(parts) = << >>
  <2>1. n = 0 => parts = << >>
    OBVIOUS
  <2> QED BY <2>1 DEF FlattenSeq
<1>6. n # 0 => FlattenSeq(parts) = flat[n]
  BY DEF FlattenSeq
<1> HIDE DEF g, B, n
<1>7. PICK run \in [0..n -> B] : CountsUp(run, n, << >>, g)
  BY <1>1, <1>3, Recursion
<1>8. ASSUME NEW i \in 1..n PROVE run[i] = run[i - 1] \o parts[i]
  <2>1. i - 1 \in 0..n /\ run[i] = g[<<i, run[i - 1]>>]
    BY <1>1, <1>7 DEF CountsUp
  <2> QED BY <1>3, <2>1
<1> DEFINE h == [i \in 1..n |-> run[i]]
<1>9. Solves(h)
  <2>1. ASSUME NEW i \in 1..n PROVE h[i] = IF i = 1 THEN parts[i] ELSE h[i - 1] \o parts[i]
    <3>1. h[i] = run[i] /\ run[i] = run[i - 1] \o parts[i] /\ parts[i] \in B
      BY <1>1, <1>8
    <3>2. CASE i = 1
      <4>1. run[i - 1] = << >>
        BY <1>7, <3>2 DEF CountsUp
      <4> QED BY <1>4, <3>1, <3>2, <4>1
    <3>3. CASE i # 1
      <4>1. i - 1 \in 1..n /\ h[i - 1] = run[i - 1]
        BY <1>1, <3>3
      <4> QED BY <3>1, <3>3, <4>1
    <3> QED BY <3>2, <3>3
  <2>2. h = [i \in 1..n |-> h[i]]
    OBVIOUS
  <2> HIDE DEF h
  <2> QED BY <2>1, <2>2, Zenon
<1>10. Solves(flat)
  BY <1>9, Zenon
<1> HIDE DEF flat
<1> DEFINE Good == {m \in Nat : m + 1 <= n => flat[m + 1] = run[m + 1]}
<1>11. 0 \in Good
  <2>1. SUFFICES ASSUME 1 <= n PROVE flat[1] = run[1]
    OBVIOUS
  <2>2. 1 \in 1..n /\ 1 - 1 = 0
    BY <1>1, <2>1
  <2>3. flat[1] = parts[1] /\ run[1] = run[0] \o parts[1] /\ run[0] = << >>
    BY <1>7, <1>8, <1>10, <2>2 DEF CountsUp
  <2> QED BY <1>1, <1>4, <2>2, <2>3
<1>12. ASSUME NEW m \in Nat, m \in Good PROVE m + 1 \in Good
  <2>1. SUFFICES ASSUME (m + 1) + 1 <= n PROVE flat[(m + 1) + 1] = run[(m + 1) + 1]
    OBVIOUS
  <2> DEFINE i == (m + 1) + 1
  <2>2. i \in 1..n /\ i # 1 /\ i - 1 = m + 1 /\ m + 1 <= n
    BY <1>1, <2>1
  <2>3. flat[m + 1] = run[m + 1]
    BY <1>12, <2>2
  <2> HIDE DEF i
  <2>4. flat[i] = flat[i - 1] \o parts[i]
    BY <1>10, <2>2
  <2> QED BY <1>8, <2>2, <2>3, <2>4 DEF i
<1> HIDE DEF Good
<1>13. Nat \subseteq Good
  BY <1>11, <1>12, NatSetInduction
<1>14. n # 0 => flat[n] = run[n]
  <2>1. n # 0 => n - 1 \in Nat /\ (n - 1) + 1 = n /\ n <= n
    BY <1>1
  <2> QED BY <1>13, <2>1 DEF Good
<1>15. FlattenSeq(parts) = run[n] /\ run[0] = << >>
  BY <1>5, <1>6, <1>7, <1>14 DEF CountsUp
<1> QED BY <1>7, <1>8, <1>15 DEF B, n

(* Sequences of a set's members flatten to one.                            *)
LEMMA FlattenType ==
  ASSUME NEW S, NEW parts \in Seq(Seq(S))
  PROVE  FlattenSeq(parts) \in Seq(S)
<1>1. PICK run \in [0..Len(parts) -> Seq(S)] : FlattenSeq(parts) = run[Len(parts)]
  BY FlattenRuns
<1>2. Len(parts) \in 0..Len(parts)
  OBVIOUS
<1> QED BY <1>1, <1>2

CanonicalCards ==
  {c \in [value : Nat, card_type : 0..2, suit : Nat] : c.card_type = 0 => c.value \in 1..VALUES}

(* The canonical deck is a sequence of cards.                              *)
LEMMA CanonicalType ==
  /\ createCanonicalDeck \in Seq(CanonicalCards)
  /\ CanonicalSize \in Nat /\ DOMAIN createCanonicalDeck = 1..CanonicalSize
<1> DEFINE C == CanonicalCards
           alphas == [s \in 1..SUITS |-> [v \in 1..VALUES |-> DeckCard(0, v, s - 1)]]
           effects == [e \in 1..3 |-> [i \in 1..EFFECTS |-> DeckCard(1, e - 1, 0)]]
           multipliers == [m \in DOMAIN MULTIPLIERS |->
                             [i \in 1..COPIES |-> DeckCard(2, MULTIPLIERS[m], 0)]]
<1>0. /\ SUITS \in Nat /\ VALUES \in Nat /\ EFFECTS \in Nat /\ COPIES \in Nat
      /\ MULTIPLIERS \in Seq(Nat)
  BY DeckAssumption
<1>1. \A t \in 0..2, v \in Nat, s \in Nat : (t = 0 => v \in 1..VALUES) => DeckCard(t, v, s) \in C
  BY DEF DeckCard, CanonicalCards
<1> HIDE DEF C
<1>2. alphas \in Seq(Seq(C))
  <2>1. ASSUME NEW s \in 1..SUITS PROVE [v \in 1..VALUES |-> DeckCard(0, v, s - 1)] \in Seq(C)
    BY <1>0, <1>1
  <2> QED BY <1>0, <2>1
<1>3. effects \in Seq(Seq(C))
  <2>1. ASSUME NEW e \in 1..3 PROVE [i \in 1..EFFECTS |-> DeckCard(1, e - 1, 0)] \in Seq(C)
    BY <1>0, <1>1
  <2> QED BY <2>1
<1>4. multipliers \in Seq(Seq(C))
  <2>1. ASSUME NEW m \in DOMAIN MULTIPLIERS
        PROVE  [i \in 1..COPIES |-> DeckCard(2, MULTIPLIERS[m], 0)] \in Seq(C)
    BY <1>0, <1>1
  <2> DEFINE n == Len(MULTIPLIERS)
  <2>2. DOMAIN MULTIPLIERS = 1..n /\ n \in Nat
    BY <1>0
  <2>3. \A m \in 1..n : multipliers[m] \in Seq(C)
    BY <2>1, <2>2
  <2>4. multipliers = [m \in 1..n |-> multipliers[m]]
    BY <2>2
  <2> HIDE DEF n, multipliers
  <2> QED BY <2>2, <2>3, <2>4
<1> HIDE DEF alphas, effects, multipliers
<1>5. /\ FlattenSeq(alphas) \in Seq(C) /\ FlattenSeq(effects) \in Seq(C)
      /\ FlattenSeq(multipliers) \in Seq(C)
  BY <1>2, <1>3, <1>4, FlattenType
<1>6. createCanonicalDeck = FlattenSeq(alphas) \o FlattenSeq(effects) \o FlattenSeq(multipliers)
  BY DEF createCanonicalDeck, alphas, effects, multipliers
<1>7. createCanonicalDeck \in Seq(C)
  BY <1>5, <1>6
<1> QED BY <1>7 DEF CanonicalSize, C

(* Swaps keep every card of the deck, each in one place.                   *)
ShuffleKeepsCards ==
  /\ permutation \in [1..CanonicalSize -> 1..CanonicalSize]
  /\ \A x \in 1..CanonicalSize : \E i \in 1..CanonicalSize : permutation[i] = x
  /\ next \in 0..CanonicalSize

(* No step of the shuffle loses a card.                                    *)
LEMMA ShuffleIsPermutation == RulesSpec => []ShuffleKeepsCards
<1>0. CanonicalSize \in Nat
  BY CanonicalType
<1>1. RulesInit => ShuffleKeepsCards
  BY <1>0 DEF RulesInit, ShuffleInit, ShuffleKeepsCards
<1>2. ASSUME ShuffleKeepsCards, [RulesNext]_<<scene, hand, others>>
      PROVE  ShuffleKeepsCards'
  <2>1. CASE ShuffleStep
    <3>1. PICK j \in 1..next :
            permutation' = [permutation EXCEPT ![next] = permutation[j], ![j] = permutation[next]]
      BY <2>1 DEF ShuffleStep
    <3>2. /\ j \in 1..CanonicalSize /\ next \in 1..CanonicalSize /\ next' = next - 1
          /\ next' \in 0..CanonicalSize
      BY <1>0, <1>2, <2>1 DEF ShuffleStep, ShuffleKeepsCards
    <3>3. permutation \in [1..CanonicalSize -> 1..CanonicalSize]
      BY <1>2 DEF ShuffleKeepsCards
    <3>4. \A i \in 1..CanonicalSize :
            permutation'[i] = IF i = j THEN permutation[next]
                              ELSE IF i = next THEN permutation[j] ELSE permutation[i]
      BY <3>1, <3>2, <3>3
    <3>5. permutation' \in [1..CanonicalSize -> 1..CanonicalSize]
      BY <3>1, <3>2, <3>3
    <3>6. ASSUME NEW x \in 1..CanonicalSize
          PROVE  \E i \in 1..CanonicalSize : permutation'[i] = x
      <4>1. PICK i \in 1..CanonicalSize : permutation[i] = x
        BY <1>2 DEF ShuffleKeepsCards
      <4>2. CASE i = next
        BY <3>2, <3>4, <4>1, <4>2
      <4>3. CASE i = j
        BY <3>2, <3>4, <4>1, <4>3
      <4>4. CASE i # next /\ i # j
        BY <3>4, <4>1, <4>4
      <4> QED BY <4>2, <4>3, <4>4
    <3>7. CanonicalSize' = CanonicalSize
      BY DEF CanonicalSize, createCanonicalDeck, DeckCard
    <3> QED BY <3>2, <3>5, <3>6, <3>7 DEF ShuffleKeepsCards
  <2>2. CASE UNCHANGED <<permutation, next>>
    <3>1. CanonicalSize' = CanonicalSize
      BY DEF CanonicalSize, createCanonicalDeck, DeckCard
    <3> QED BY <1>2, <2>2, <3>1 DEF ShuffleKeepsCards
  <2>3. RulesNext => ShuffleStep \/ UNCHANGED <<permutation, next>>
    BY DEF RulesNext, DrawCard, GiveUpCard, LoseBestCard, LogSomething, Shuffle
  <2> QED BY <1>2, <2>1, <2>2, <2>3 DEF others
<1> QED BY <1>1, <1>2, PTL DEF RulesSpec

(* The root the program reads is the one the dealer computed.              *)
LEMMA RootArrives ==
  ASSUME NEW serialized
  PROVE  Reads("commit_deck", packCommitDeckData(serialized)).root = serialized.publicInputs[1]
<1> DEFINE d == packCommitDeckData(serialized)
           at == <<0, 32, 96, 224, 288>>
<1>1. /\ DOMAIN d = 1..4 /\ d[1].width = 32 /\ d[2].width = 64 /\ d[3].width = 128
      /\ d[4].width = 64 /\ d[1].value = serialized.publicInputs[1]
  BY DEF packCommitDeckData, Chunk
<1>2. at[1] = 0 /\ at[2] = 32 /\ at[3] = 96 /\ at[4] = 224 /\ at[5] = 288
  OBVIOUS
<1> HIDE DEF d, at
<1>3. LaidOut(d, 4, at)
  BY <1>1, <1>2 DEF LaidOut
<1>4. \A i \in 1..4 : ReadAt(d, at[i], d[i].width) = d[i].value
  BY <1>3, ReadBack
<1>5. ReadAt(d, 0, 32) = serialized.publicInputs[1]
  BY <1>1, <1>2, <1>4
<1>6. Reads("commit_deck", d).root = ReadAt(d, 0, 32)
  BY DEF Reads
<1> QED BY <1>5, <1>6 DEF d

(* Whatever the shuffle and whatever the size of the deck and of its tree, *)
(* the dealer can prove its commitment, every card it reveals verifies     *)
(* against the root the program has read, and no other card of the deck    *)
(* verifies in its place.                                                  *)
THEOREM DealsAreVerified == RulesSpec => []DealtCardsVerify
<1>1. ASSUME ShuffleKeepsCards, scene = "shuffle", Shuffled PROVE DealtCardsVerify
  <2> DEFINE canonical == createCanonicalDeck
             N == CanonicalSize
             deck == applyPermutation(canonical, permutation)
             tree == buildMerkleTree(deck)
             proof == generateProof(permutation, canonical, deck)
             root == Reads("commit_deck", packCommitDeckData(proof)).root
  <2>1. /\ canonical \in Seq(CanonicalCards) /\ N \in Nat /\ DOMAIN canonical = 1..N
        /\ N <= NUM_LEAVES /\ NUM_LEAVES \in Nat
    <3>1. NUM_LEAVES \in Nat
      BY DeckAssumption, PowersDouble DEF NUM_LEAVES
    <3> QED BY <3>1, CanonicalType, DeckAssumption
  <2>2. /\ permutation \in [1..N -> 1..N]
        /\ \A x \in 1..N : \E i \in 1..N : permutation[i] = x
    BY <1>1 DEF ShuffleKeepsCards
  <2> HIDE DEF canonical, N
  <2>3. /\ DOMAIN deck = 1..N /\ Len(deck) = N
        /\ \A i \in 1..N : deck[i] = canonical[permutation[i]] /\ deck[i] \in CanonicalCards
    BY <2>1, <2>2 DEF applyPermutation
  <2>4. proof.valid
    <3>1. {permutation[i] : i \in DOMAIN permutation} = DOMAIN canonical
      BY <2>1, <2>2
    <3> QED BY <3>1 DEF generateProof, ShuffleVerify
  <2>5. root = RootOf(tree)
    <3>1. proof.publicInputs[1] = RootOf(tree)
      BY DEF generateProof
    <3> HIDE DEF proof, tree
    <3> QED BY <3>1, RootArrives
  <2> HIDE DEF deck, proof, root
  <2>6. ASSUME NEW i \in 0..(Len(deck) - 1), NEW c \in ToSet(canonical)
        PROVE  verify_merkle_proof(c, i, getMerkleProof(tree, i), root) <=> c = deck[i + 1]
    <3>1. i \in Nat /\ i + 1 \in 1..N /\ i < NUM_LEAVES /\ i + 1 \in 1..NUM_LEAVES
      BY <2>1, <2>3
    <3>2. verify_merkle_proof(c, i, getMerkleProof(tree, i), RootOf(tree))
            <=> hashCardLeaf(c, i) = tree[0][i + 1]
      BY <3>1, WalkEndsOnRoot
    <3>3. tree[0] = LeavesOf(deck)
      BY LevelsBuilt
    <3>4. tree[0][i + 1] = hashCardLeaf(deck[i + 1], i)
      <4>1. (i + 1) - 1 = i /\ i + 1 \in DOMAIN deck
        BY <2>3, <3>1
      <4> HIDE DEF tree
      <4> QED BY <3>1, <3>3, <4>1 DEF LeavesOf
    <3>5. c \in CanonicalCards /\ deck[i + 1] \in CanonicalCards
      BY <2>1, <2>3, <3>1 DEF ToSet
    <3>6. (hashCardLeaf(c, i) = hashCardLeaf(deck[i + 1], i)) <=> c = deck[i + 1]
      BY <3>5 DEF hashCardLeaf, CanonicalCards
    <3> HIDE DEF tree
    <3> QED BY <2>5, <3>2, <3>4, <3>6
  <2> QED BY <2>4, <2>6 DEF DealtCardsVerify, revealNextCard, canonical, deck, proof, root
<1>2. ShuffleKeepsCards => DealtCardsVerify
  <2>1. CASE scene = "shuffle" /\ Shuffled
    BY <1>1, <2>1
  <2>2. CASE ~(scene = "shuffle" /\ Shuffled)
    BY <2>2 DEF DealtCardsVerify
  <2> QED BY <2>1, <2>2
<1> QED BY <1>2, ShuffleIsPermutation, PTL
-----------------------------------------------------------------------------
(* Counting the cards of a kind in a sequence.                             *)

CountIn(s, A) == Cardinality({i \in DOMAIN s : s[i] \in A})

(* The cards of a kind in two sequences are counted together.              *)
LEMMA CountConcat ==
  ASSUME NEW S, NEW s \in Seq(S), NEW t \in Seq(S), NEW A
  PROVE  CountIn(s \o t, A) = CountIn(s, A) + CountIn(t, A) /\ CountIn(s, A) \in Nat
<1> DEFINE r == s \o t
           m == Len(s)
           n == Len(t)
           P == {i \in DOMAIN s : s[i] \in A}
           Q == {j \in DOMAIN t : t[j] \in A}
           Whole == {i \in DOMAIN r : r[i] \in A}
           shift == [j \in Q |-> j + m]
           T == {j + m : j \in Q}
<1>1. /\ m \in Nat /\ n \in Nat /\ DOMAIN s = 1..m /\ DOMAIN t = 1..n /\ DOMAIN r = 1..(m + n)
      /\ \A i \in 1..m : r[i] = s[i]
      /\ \A j \in 1..n : r[j + m] = t[j]
  OBVIOUS
<1> HIDE DEF r, m, n
<1>2. IsFiniteSet(P) /\ IsFiniteSet(Q)
  <2>1. P \subseteq 1..m /\ Q \subseteq 1..n
    BY <1>1
  <2> HIDE DEF P, Q
  <2>2. IsFiniteSet(1..m) /\ IsFiniteSet(1..n)
    BY <1>1, FS_Interval
  <2> QED BY <2>1, <2>2, FS_Subset
<1>3. Q \subseteq 1..n /\ P \subseteq 1..m
  BY <1>1
<1>4. Whole = P \cup T
  <2>1. \A i \in Whole : i \in P \cup T
    <3> TAKE i \in Whole
    <3>1. CASE i \in 1..m
      BY <1>1, <3>1
    <3>2. CASE i \notin 1..m
      <4>1. i - m \in 1..n /\ (i - m) + m = i
        BY <1>1, <3>2
      <4>2. t[i - m] = r[i] /\ r[i] \in A
        BY <1>1, <4>1
      <4>3. i - m \in Q
        BY <1>1, <4>1, <4>2
      <4> QED BY <4>1, <4>3
    <3> QED BY <3>1, <3>2
  <2>2. \A i \in P : i \in Whole
    BY <1>1
  <2>3. \A j \in Q : j + m \in Whole
    <3> TAKE j \in Q
    <3>1. j \in 1..n /\ j + m \in 1..(m + n) /\ r[j + m] = t[j]
      BY <1>1, <1>3
    <3> QED BY <1>1, <3>1
  <2> QED BY <2>1, <2>2, <2>3
<1>5. P \cap T = {}
  BY <1>1, <1>3
<1>6. shift \in Bijection(Q, T)
  <2>1. \A a, b \in Q : a + m = b + m => a = b
    BY <1>1, <1>3
  <2> HIDE DEF Q
  <2> QED BY <2>1 DEF Bijection, Injection, Surjection, IsInjective
<1>7. IsFiniteSet(T) /\ Cardinality(T) = Cardinality(Q)
  <2>1. ExistsBijection(Q, T)
    BY <1>6 DEF ExistsBijection
  <2> HIDE DEF Q, T
  <2> QED BY <1>2, <2>1, FS_Bijection
<1>8. CountIn(r, A) = Cardinality(Whole) /\ CountIn(s, A) = Cardinality(P)
      /\ CountIn(t, A) = Cardinality(Q)
  BY DEF CountIn
<1> HIDE DEF P, Q, Whole, T
<1>9. Cardinality(P) \in Nat /\ Cardinality(Q) \in Nat
  BY <1>2, FS_CardinalityType
<1>10. Cardinality(Whole) = Cardinality(P) + Cardinality(Q) - Cardinality(P \cap T)
  BY <1>2, <1>4, <1>7, FS_Union
<1>11. Cardinality(P \cap T) = 0
  BY <1>5, FS_EmptySet
<1> QED BY <1>8, <1>9, <1>10, <1>11 DEF r

(* Parts that each have as many have that many times their number.         *)
LEMMA FlattenCount ==
  ASSUME NEW S, NEW parts \in Seq(Seq(S)), NEW A, NEW c \in Nat,
         \A i \in 1..Len(parts) : CountIn(parts[i], A) = c
  PROVE  CountIn(FlattenSeq(parts), A) = Len(parts) * c
<1>1. PICK run \in [0..Len(parts) -> Seq(S)] :
        /\ run[0] = << >> /\ FlattenSeq(parts) = run[Len(parts)]
        /\ \A i \in 1..Len(parts) : run[i] = run[i - 1] \o parts[i]
  BY FlattenRuns
<1> DEFINE Good == {k \in Nat : k <= Len(parts) => CountIn(run[k], A) = k * c}
<1>2. 0 \in Good
  <2>1. {i \in DOMAIN run[0] : run[0][i] \in A} = {}
    BY <1>1
  <2>2. CountIn(run[0], A) = 0
    BY <2>1, FS_EmptySet DEF CountIn
  <2> QED BY <2>2
<1>3. ASSUME NEW k \in Nat, k \in Good PROVE k + 1 \in Good
  <2>1. SUFFICES ASSUME k + 1 <= Len(parts) PROVE CountIn(run[k + 1], A) = (k + 1) * c
    OBVIOUS
  <2>2. k + 1 \in 1..Len(parts) /\ (k + 1) - 1 = k /\ k <= Len(parts) /\ k \in 0..Len(parts)
    BY <2>1
  <2>3. run[k + 1] = run[k] \o parts[k + 1]
    BY <1>1, <2>2
  <2>7. run[k] \in Seq(S) /\ parts[k + 1] \in Seq(S)
    BY <2>2, ElementOfSeq
  <2>4. CountIn(run[k + 1], A) = CountIn(run[k], A) + CountIn(parts[k + 1], A)
    BY <2>3, <2>7, CountConcat
  <2>5. CountIn(run[k], A) = k * c /\ CountIn(parts[k + 1], A) = c
    BY <1>3, <2>2
  <2>6. (k + 1) * c = k * c + c
    OBVIOUS
  <2> QED BY <2>4, <2>5, <2>6
<1> HIDE DEF Good
<1>4. Nat \subseteq Good
  BY <1>2, <1>3, NatSetInduction, Zenon
<1>6. Len(parts) \in Nat
  OBVIOUS
<1>5. CountIn(run[Len(parts)], A) = Len(parts) * c
  BY <1>4, <1>6 DEF Good
<1> QED BY <1>1, <1>5

(* t is s in the order p, which takes every place once.                    *)
Reorders(p, n, s, t) ==
  /\ p \in [1..n -> 1..n] /\ \A x \in 1..n : \E i \in 1..n : p[i] = x
  /\ DOMAIN s = 1..n /\ DOMAIN t = 1..n
  /\ \A i \in 1..n : t[i] = s[p[i]]

(* Another order has as many.                                              *)
LEMMA ReorderCount ==
  ASSUME NEW n \in Nat, NEW p, NEW s, NEW t, Reorders(p, n, s, t), NEW A
  PROVE  CountIn(t, A) = CountIn(s, A)
<1> USE DEF Reorders
<1> DEFINE P == {i \in 1..n : s[p[i]] \in A}
           Q == {j \in 1..n : s[j] \in A}
           f == [i \in P |-> p[i]]
<1>1. IsFiniteSet(1..n)
  BY FS_Interval
<1>2. \A i, j \in 1..n : p[i] = p[j] => i = j
  <2>1. p \in Surjection(1..n, 1..n)
    BY DEF Surjection
  <2>2. p \in Injection(1..n, 1..n)
    BY <1>1, <2>1, FS_SurjSameCardinalityImpliesInj
  <2> QED BY <2>2 DEF Injection, IsInjective
<1>3. f \in Bijection(P, Q)
  <2>1. f \in [P -> Q]
    OBVIOUS
  <2>2. \A i, j \in P : f[i] = f[j] => i = j
    BY <1>2
  <2>3. \A x \in Q : \E i \in P : f[i] = x
    OBVIOUS
  <2> HIDE DEF f, P, Q
  <2> QED BY <2>1, <2>2, <2>3 DEF Bijection, Injection, Surjection, IsInjective
<1>4. IsFiniteSet(P)
  <2>1. P \subseteq 1..n
    OBVIOUS
  <2> HIDE DEF P
  <2> QED BY <1>1, <2>1, FS_Subset
<1>5. Cardinality(P) = Cardinality(Q)
  <2>1. ExistsBijection(P, Q)
    BY <1>3 DEF ExistsBijection
  <2> HIDE DEF P, Q
  <2> QED BY <1>4, <2>1, FS_Bijection
<1>6. CountIn(t, A) = Cardinality(P)
  <2>1. {i \in DOMAIN t : t[i] \in A} = P
    OBVIOUS
  <2> HIDE DEF P
  <2> QED BY <2>1 DEF CountIn
<1>7. CountIn(s, A) = Cardinality(Q)
  <2>1. {i \in DOMAIN s : s[i] \in A} = Q
    OBVIOUS
  <2> HIDE DEF Q
  <2> QED BY <2>1 DEF CountIn
<1> QED BY <1>5, <1>6, <1>7

(* The sizes of sets that do not meet add up to the size of their union.   *)
LEMMA SumOfParts ==
  ASSUME NEW S, IsFiniteSet(S), NEW f, NEW part,
         \A x \in S : IsFiniteSet(part[x]) /\ f[x] = Cardinality(part[x]),
         \A x, y \in S : x # y => part[x] \cap part[y] = {}
  PROVE  SumOver(f, S) = Cardinality(UNION {part[x] : x \in S})
<1> DEFINE Union(T) == UNION {part[x] : x \in T}
           Good == {T \in SUBSET S : /\ IsFiniteSet(Union(T))
                                     /\ SumOver(f, T) = Cardinality(Union(T))}
<1>0. \A x \in S : f[x] \in Int
  BY FS_CardinalityType
<1>1. ASSUME NEW T \in SUBSET S, \A U \in SUBSET T : U # T => U \in Good
      PROVE  T \in Good
  <2>1. IsFiniteSet(T) /\ \A x \in T : f[x] \in Int
    BY <1>0, FS_Subset
  <2>2. CASE T = {}
    <3>1. Union(T) = {}
      BY <2>2
    <3>2. SumOver(f, T) = 0
      BY <2>1, <2>2, SumTakeOut
    <3> QED BY <3>1, <3>2, FS_EmptySet
  <2>3. CASE T # {}
    <3>1. PICK x \in T : TRUE
      BY <2>3
    <3> DEFINE U == T \ {x}
    <3>2. U \in Good
      BY <1>1
    <3>3. IsFiniteSet(Union(U)) /\ SumOver(f, U) = Cardinality(Union(U))
      BY <3>2
    <3>4. SumOver(f, T) = f[x] + SumOver(f, U)
      BY <2>1, SumTakeOut
    <3>5. Union(T) = part[x] \cup Union(U) /\ part[x] \cap Union(U) = {}
      OBVIOUS
    <3>6. IsFiniteSet(part[x]) /\ f[x] = Cardinality(part[x])
      OBVIOUS
    <3> HIDE DEF U, Union
    <3>7. /\ IsFiniteSet(Union(T))
          /\ Cardinality(Union(T))
               = Cardinality(part[x]) + Cardinality(Union(U)) - Cardinality(part[x] \cap Union(U))
      BY <3>3, <3>5, <3>6, FS_Union
    <3>8. Cardinality(part[x]) \in Nat /\ Cardinality(Union(U)) \in Nat
      BY <3>3, <3>6, FS_CardinalityType
    <3>9. Cardinality(part[x] \cap Union(U)) = 0
      BY <3>5, FS_EmptySet
    <3> QED BY <3>3, <3>4, <3>6, <3>7, <3>8, <3>9 DEF Good
  <2> QED BY <2>2, <2>3
<1> HIDE DEF Good
<1>2. SUBSET S \subseteq Good
  BY <1>1, SubsetInduction, Zenon
<1>3. SumOver(f, S) = Cardinality(Union(S))
  BY <1>2 DEF Good
<1> QED BY <1>3
-----------------------------------------------------------------------------
(* The advisor.                                                            *)

AlphasOf(v) == {c \in CanonicalCards : c.card_type = 0 /\ c.value = v}

(* The canonical deck has one alpha card of each value in every suit.      *)
LEMMA CanonicalCopies ==
  ASSUME NEW v \in 1..VALUES
  PROVE  CountIn(createCanonicalDeck, AlphasOf(v)) = SUITS
<1> DEFINE C == CanonicalCards
           A == AlphasOf(v)
           suit(s) == [w \in 1..VALUES |-> DeckCard(0, w, s - 1)]
           effect(e) == [i \in 1..EFFECTS |-> DeckCard(1, e - 1, 0)]
           multiplier(m) == [i \in 1..COPIES |-> DeckCard(2, MULTIPLIERS[m], 0)]
           alphas == [s \in 1..SUITS |-> suit(s)]
           effects == [e \in 1..3 |-> effect(e)]
           multipliers == [m \in DOMAIN MULTIPLIERS |-> multiplier(m)]
<1>0. /\ SUITS \in Nat /\ VALUES \in Nat /\ EFFECTS \in Nat /\ COPIES \in Nat
      /\ MULTIPLIERS \in Seq(Nat)
  BY DeckAssumption
<1>1. \A t \in 0..2, w \in Nat, s \in Nat :
        /\ (t = 0 => w \in 1..VALUES) => DeckCard(t, w, s) \in C
        /\ DeckCard(t, w, s) \in A <=> t = 0 /\ w = v
  BY DEF DeckCard, CanonicalCards, AlphasOf
<1> HIDE DEF C, A
<1>2. \A s : DOMAIN s = {} => CountIn(s, A) = 0
  <2>1. \A s : DOMAIN s = {} => {i \in DOMAIN s : s[i] \in A} = {}
    OBVIOUS
  <2> QED BY <2>1, FS_EmptySet DEF CountIn
<1>3. ASSUME NEW s \in 1..SUITS PROVE suit(s) \in Seq(C) /\ CountIn(suit(s), A) = 1
  <2>1. s - 1 \in Nat /\ \A w \in 1..VALUES : w \in Nat
    BY <1>0
  <2>2. \A w \in 1..VALUES : suit(s)[w] \in C /\ (suit(s)[w] \in A <=> w = v)
    BY <1>1, <2>1
  <2>3. {w \in DOMAIN suit(s) : suit(s)[w] \in A} = {v}
    BY <2>2
  <2>4. Cardinality({v}) = 1
    BY FS_Singleton
  <2>5. CountIn(suit(s), A) = 1
    <3> HIDE DEF suit
    <3> QED BY <2>3, <2>4 DEF CountIn
  <2>6. suit(s) \in Seq(C)
    BY <1>0, <2>2
  <2> QED BY <2>5, <2>6
<1>4. ASSUME NEW e \in 1..3 PROVE effect(e) \in Seq(C) /\ CountIn(effect(e), A) = 0
  <2>1. \A i \in 1..EFFECTS : effect(e)[i] \in C /\ effect(e)[i] \notin A
    BY <1>1
  <2>2. {i \in DOMAIN effect(e) : effect(e)[i] \in A} = {}
    BY <2>1
  <2>3. CountIn(effect(e), A) = 0
    <3> HIDE DEF effect
    <3> QED BY <2>2, FS_EmptySet DEF CountIn
  <2>4. effect(e) \in Seq(C)
    BY <1>0, <2>1
  <2> QED BY <2>3, <2>4
<1>5. ASSUME NEW m \in DOMAIN MULTIPLIERS
      PROVE  multiplier(m) \in Seq(C) /\ CountIn(multiplier(m), A) = 0
  <2>0. MULTIPLIERS[m] \in Nat
    BY <1>0
  <2>1. \A i \in 1..COPIES : multiplier(m)[i] \in C /\ multiplier(m)[i] \notin A
    BY <1>1, <2>0
  <2>2. {i \in DOMAIN multiplier(m) : multiplier(m)[i] \in A} = {}
    BY <2>1
  <2>3. CountIn(multiplier(m), A) = 0
    <3> HIDE DEF multiplier
    <3> QED BY <2>2, FS_EmptySet DEF CountIn
  <2>4. multiplier(m) \in Seq(C)
    BY <1>0, <2>1
  <2> QED BY <2>3, <2>4
<1> HIDE DEF suit, effect, multiplier
<1>6. /\ alphas \in Seq(Seq(C)) /\ Len(alphas) = SUITS
      /\ \A i \in 1..Len(alphas) : CountIn(alphas[i], A) = 1
  BY <1>0, <1>3
<1>7. /\ effects \in Seq(Seq(C)) /\ Len(effects) = 3
      /\ \A i \in 1..Len(effects) : CountIn(effects[i], A) = 0
  BY <1>4
<1>8. /\ multipliers \in Seq(Seq(C)) /\ Len(multipliers) \in Nat
      /\ \A i \in 1..Len(multipliers) : CountIn(multipliers[i], A) = 0
  <2> DEFINE n == Len(MULTIPLIERS)
  <2>1. DOMAIN MULTIPLIERS = 1..n /\ n \in Nat
    BY <1>0
  <2>2. multipliers = [m \in 1..n |-> multiplier(m)]
    BY <2>1
  <2>3. \A m \in 1..n : multiplier(m) \in Seq(C) /\ CountIn(multiplier(m), A) = 0
    BY <1>5, <2>1
  <2> HIDE DEF n, multipliers
  <2> QED BY <2>1, <2>2, <2>3
<1> HIDE DEF alphas, effects, multipliers
<1>9. /\ FlattenSeq(alphas) \in Seq(C) /\ FlattenSeq(effects) \in Seq(C)
      /\ FlattenSeq(multipliers) \in Seq(C)
  BY <1>6, <1>7, <1>8, FlattenType
<1>10. CountIn(FlattenSeq(alphas), A) = SUITS * 1
  BY <1>6, FlattenCount
<1>11. CountIn(FlattenSeq(effects), A) = 3 * 0
  BY <1>7, FlattenCount
<1>12. CountIn(FlattenSeq(multipliers), A) = Len(multipliers) * 0
  BY <1>8, FlattenCount
<1>13. createCanonicalDeck = (FlattenSeq(alphas) \o FlattenSeq(effects)) \o FlattenSeq(multipliers)
  BY DEF createCanonicalDeck, alphas, effects, multipliers, suit, effect, multiplier
<1> DEFINE both == FlattenSeq(alphas) \o FlattenSeq(effects)
<1>14. both \in Seq(C)
  BY <1>9
<1>15. CountIn(both, A) = CountIn(FlattenSeq(alphas), A) + CountIn(FlattenSeq(effects), A)
  BY <1>9, CountConcat
<1> HIDE DEF both
<1>16. CountIn(both \o FlattenSeq(multipliers), A)
         = CountIn(both, A) + CountIn(FlattenSeq(multipliers), A)
  BY <1>9, <1>14, CountConcat
<1> QED BY <1>0, <1>8, <1>10, <1>11, <1>12, <1>13, <1>15, <1>16 DEF both, A

(* A card busts a hand that is not bust yet just when the hand shows it.   *)
LEMMA DrawBusts ==
  ASSUME NEW S, NEW h \in Seq(S), NEW c \in S, ~IsBust(h)
  PROVE  IsBust(Append(h, c)) <=>
           /\ IsCountedAlpha(c)
           /\ \E j \in 1..Len(h) : IsCountedAlpha(h[j]) /\ h[j].value = c.value
<1> DEFINE n == Len(h)
           r == Append(h, c)
<1>1. /\ n \in Nat /\ Len(r) = n + 1 /\ r[n + 1] = c
      /\ \A i \in 1..n : r[i] = h[i]
  BY AppendProperties
<1> HIDE DEF r, n
<1>2. \A i \in 1..(n + 1) : i \in 1..n \/ i = n + 1
  BY <1>1
<1>3. \A i \in 1..n : ~RepeatsAt(r, i)
  <2> TAKE i \in 1..n
  <2>1. ~RepeatsAt(h, i)
    BY DEF IsBust, n
  <2>2. r[i] = h[i] /\ \A j \in 1..(i - 1) : r[j] = h[j]
    BY <1>1
  <2> QED BY <2>1, <2>2 DEF RepeatsAt
<1>4. n + 1 \in 1..(n + 1) /\ (n + 1) - 1 = n
  BY <1>1
<1>5. IsBust(r) <=> RepeatsAt(r, n + 1)
  BY <1>1, <1>2, <1>3, <1>4 DEF IsBust
<1>6. RepeatsAt(r, n + 1) <=>
        /\ IsCountedAlpha(c)
        /\ \E j \in 1..n : IsCountedAlpha(h[j]) /\ h[j].value = c.value
  BY <1>1, <1>4 DEF RepeatsAt
<1> QED BY <1>5, <1>6 DEF r, n

(* The advisor's sum over the values in the hand.                          *)
LEMMA AdvisorSum ==
  ASSUME NEW mine, NEW theirs, NEW left,
         \A v \in PlayerAlphaValues(mine) :
           left[v] = IF Copies(mine \o theirs, v) >= ALPHA_VALUE_COPIES_IN_DECK THEN 0
                     ELSE ALPHA_VALUE_COPIES_IN_DECK - Copies(mine \o theirs, v)
  PROVE  calculateBustProbability(mine, theirs)
           = [bustingCardsRemaining |-> SumOver(left, PlayerAlphaValues(mine)),
              remainingDeckSize |-> DECK_SIZE - Len(mine \o theirs)]
<1> DEFINE S == PlayerAlphaValues(mine)
           f(v) == IF Copies(mine \o theirs, v) >= ALPHA_VALUE_COPIES_IN_DECK THEN 0
                   ELSE ALPHA_VALUE_COPIES_IN_DECK - Copies(mine \o theirs, v)
           Solves(t) == t = [s \in SUBSET S |-> IF s = {} THEN 0
                                                 ELSE left[AnyOf(s)] + t[s \ {AnyOf(s)}]]
           SolvesToo(t) == t = [s \in SUBSET S |-> IF s = {} THEN 0
                                                    ELSE f(AnyOf(s)) + t[s \ {AnyOf(s)}]]
<1>1. SumOver(left, S) = (CHOOSE t : Solves(t))[S]
  BY DEF SumOver, MapThenSumSet, MapThenFoldSet, AnyOf
<1>2. calculateBustProbability(mine, theirs)
        = [bustingCardsRemaining |-> (CHOOSE t : SolvesToo(t))[S],
           remainingDeckSize |-> DECK_SIZE - Len(mine \o theirs)]
  BY DEF calculateBustProbability, MapThenSumSet, MapThenFoldSet, AnyOf
<1> HIDE DEF f, S
<1>3. \A t : Solves(t) <=> SolvesToo(t)
  <2>1. ASSUME NEW s \in SUBSET S, s # {}
        PROVE  left[AnyOf(s)] = f(AnyOf(s))
    <3>1. AnyOf(s) \in s
      BY <2>1 DEF AnyOf
    <3>2. AnyOf(s) \in S
      BY <3>1
    <3> QED BY <3>2 DEF f, S
  <2> QED BY <2>1
<1> HIDE DEF Solves, SolvesToo
<1>4. (CHOOSE t : Solves(t)) = (CHOOSE t : SolvesToo(t))
  BY <1>3
<1> QED BY <1>1, <1>2, <1>4 DEF S

(* A card the deck deals, as the browser types it: an alpha shows one of  *)
(* the deck's values.                                                      *)
DealtCards ==
  {c \in [card_type : {ALPHA, PROTOCOL, MULTIPLIER}, value : Nat] :
     c.card_type = ALPHA => c.value \in 1..VALUES}

ShowsAlpha(c, v) == c.card_type = ALPHA /\ c.value = v

(* With as many copies of each value in the deck as the advisor takes      *)
(* there to be, what it counts is what is left.                            *)
LEMMA AdvisorCounts ==
  ASSUME NEW cards \in Seq(DealtCards), Len(cards) = DECK_SIZE, VALUES \in Nat,
         ALPHA_VALUE_COPIES_IN_DECK \in Nat,
         \A v \in 1..VALUES : Cardinality({i \in 1..Len(cards) : ShowsAlpha(cards[i], v)})
                                = ALPHA_VALUE_COPIES_IN_DECK,
         NEW k \in 0..Len(cards), NEW m \in 0..(Len(cards) - k), ~IsBust(SubSeq(cards, 1, k))
  PROVE  LET mine == SubSeq(cards, 1, k)
             left == {i \in DOMAIN cards : i > k + m}
             busting == {i \in left : IsBust(Append(mine, cards[i]))}
         IN  /\ calculateBustProbability(mine, SubSeq(cards, k + 1, k + m))
                  = [bustingCardsRemaining |-> Cardinality(busting),
                     remainingDeckSize |-> Cardinality(left)]
             /\ Cardinality(left) \in Nat /\ (Cardinality(left) = 0 <=> left = {})
             /\ left = {} => Cardinality(busting) = 0
<1> DEFINE n == Len(cards)
           mine == SubSeq(cards, 1, k)
           theirs == SubSeq(cards, k + 1, k + m)
           known == mine \o theirs
           left == {i \in DOMAIN cards : i > k + m}
           busting == {i \in left : IsBust(Append(mine, cards[i]))}
           S == PlayerAlphaValues(mine)
           part == [v \in S |-> {i \in left : ShowsAlpha(cards[i], v)}]
           f == [v \in S |-> Cardinality(part[v])]
           N == ALPHA_VALUE_COPIES_IN_DECK
<1>1. /\ n \in Nat /\ k \in Nat /\ m \in Nat /\ k <= n /\ k + m \in Nat /\ k + m <= n
      /\ DOMAIN cards = 1..n
      /\ \A i \in 1..n : cards[i] \in DealtCards
  OBVIOUS
<1>2. /\ mine \in Seq(DealtCards) /\ Len(mine) = k
      /\ \A i \in 1..k : mine[i] = cards[i]
  BY <1>1, PrefixOf
<1>3. /\ known \in Seq(DealtCards) /\ Len(known) = k + m /\ DOMAIN known = 1..(k + m)
      /\ \A i \in 1..(k + m) : known[i] = cards[i]
  <2>1. known = SubSeq(cards, 1, k + m)
    <3>1. 1 \in 1..(Len(cards) + 1) /\ k \in (1 - 1)..Len(cards) /\ k + m \in k..Len(cards)
      BY <1>1
    <3> QED BY <3>1, ConcatAdjacentSubSeq
  <2> HIDE DEF known
  <2>2. /\ known \in Seq(DealtCards) /\ Len(known) = k + m
        /\ \A i \in 1..(k + m) : known[i] = cards[i]
    BY <1>1, <2>1, PrefixOf
  <2> QED BY <2>2
<1> HIDE DEF mine, known, n
<1>4. left = (k + m + 1)..n
  BY <1>1
<1>5. /\ IsFiniteSet(left) /\ Cardinality(left) = n - (k + m) /\ Cardinality(left) \in Nat
      /\ Cardinality(left) = 0 <=> left = {}
  <2>1. k + m + 1 \in Int /\ n \in Int
    BY <1>1
  <2>2. /\ IsFiniteSet((k + m + 1)..n)
        /\ Cardinality((k + m + 1)..n) = IF k + m + 1 > n THEN 0 ELSE n - (k + m + 1) + 1
    BY <2>1, FS_Interval
  <2>3. Cardinality((k + m + 1)..n) = n - (k + m)
    BY <1>1, <2>2
  <2> HIDE DEF left
  <2>4. IsFiniteSet(left) /\ Cardinality(left) = n - (k + m)
    BY <1>4, <2>2, <2>3
  <2>5. Cardinality(left) = 0 <=> left = {}
    BY <2>4, FS_EmptySet
  <2> QED BY <1>1, <2>4, <2>5
<1>6. \A v \in S : v \in 1..VALUES /\ v \in 1..13
                   /\ \E j \in 1..k : ShowsAlpha(mine[j], v)
  <2> TAKE v \in S
  <2>1. PICK j \in DOMAIN mine : mine[j].card_type = ALPHA /\ mine[j].value = v
    BY DEF PlayerAlphaValues, ToSet
  <2>2. j \in 1..k /\ mine[j] \in DealtCards
    BY <1>2, <2>1
  <2>3. v \in 1..VALUES /\ ShowsAlpha(mine[j], v)
    BY <2>1, <2>2 DEF DealtCards, ShowsAlpha
  <2>4. VALUES <= 13 /\ VALUES \in Nat
    BY AdvisorAssumption
  <2>5. v \in 1..13
    BY <2>3, <2>4
  <2> QED BY <2>2, <2>3, <2>5
<1>7. \A j \in 1..k : mine[j].card_type = ALPHA => mine[j].value \in S
  <2> TAKE j \in 1..k
  <2>1. j \in DOMAIN mine
    BY <1>2
  <2> QED BY <2>1 DEF PlayerAlphaValues, ToSet
<1> HIDE DEF S, left
<1>8. ASSUME NEW v \in S
      PROVE  /\ IsFiniteSet(part[v]) /\ f[v] = Cardinality(part[v])
             /\ f[v] = IF Copies(known, v) >= N THEN 0 ELSE N - Copies(known, v)
  <2> DEFINE all == {i \in 1..n : ShowsAlpha(cards[i], v)}
             seen == {i \in 1..(k + m) : ShowsAlpha(cards[i], v)}
             rest == {i \in left : ShowsAlpha(cards[i], v)}
  <2>1. Cardinality(all) = N
    BY <1>6 DEF n
  <2>2. Copies(known, v) = Cardinality(seen)
    <3>1. {i \in DOMAIN known : known[i].card_type = ALPHA /\ known[i].value = v} = seen
      BY <1>3 DEF ShowsAlpha
    <3> HIDE DEF seen
    <3> QED BY <3>1 DEF Copies
  <2>3. all = seen \cup rest /\ seen \cap rest = {} /\ seen \subseteq 1..(k + m)
        /\ rest \subseteq left
    BY <1>1, <1>4
  <2>4. part[v] = rest /\ f[v] = Cardinality(rest)
    OBVIOUS
  <2> HIDE DEF all, seen, rest, part, f
  <2>5. IsFiniteSet(seen) /\ IsFiniteSet(rest)
    <3>1. IsFiniteSet(1..(k + m))
      BY <1>1, FS_Interval
    <3> QED BY <1>5, <2>3, <3>1, FS_Subset
  <2>6. Cardinality(all) = Cardinality(seen) + Cardinality(rest) - Cardinality(seen \cap rest)
    BY <2>3, <2>5, FS_Union
  <2>7. Cardinality(seen) \in Nat /\ Cardinality(rest) \in Nat
    BY <2>5, FS_CardinalityType
  <2>8. Cardinality(seen \cap rest) = 0
    BY <2>3, FS_EmptySet
  <2>9. Cardinality(seen) + Cardinality(rest) = N
    BY <2>1, <2>6, <2>7, <2>8
  <2> QED BY <2>2, <2>4, <2>5, <2>7, <2>9
<1>9. IsFiniteSet(S)
  <2>1. S \subseteq 1..13
    BY <1>6
  <2>2. IsFiniteSet(1..13)
    <3>1. 1 \in Int /\ 13 \in Int
      OBVIOUS
    <3> QED BY <3>1, FS_Interval
  <2> QED BY <2>1, <2>2, FS_Subset
<1>10. busting = UNION {part[v] : v \in S}
  <2>1. ASSUME NEW i \in left
        PROVE  IsBust(Append(mine, cards[i])) <=> \E v \in S : ShowsAlpha(cards[i], v)
    <3>1. cards[i] \in DealtCards
      BY <1>1, <2>1 DEF left
    <3>2. IsBust(Append(mine, cards[i])) <=>
            /\ IsCountedAlpha(cards[i])
            /\ \E j \in 1..k : IsCountedAlpha(mine[j]) /\ mine[j].value = cards[i].value
      <4>1. ~IsBust(mine) /\ mine \in Seq(DealtCards) /\ Len(mine) = k
        BY <1>1, <1>2 DEF mine
      <4> DEFINE c == cards[i]
      <4> HIDE DEF mine, c
      <4>2. IsBust(Append(mine, c)) <=>
              /\ IsCountedAlpha(c)
              /\ \E j \in 1..Len(mine) : IsCountedAlpha(mine[j]) /\ mine[j].value = c.value
        BY <3>1, <4>1, DrawBusts DEF c
      <4> QED BY <4>1, <4>2 DEF c
    <3>3. ASSUME IsBust(Append(mine, cards[i])) PROVE \E v \in S : ShowsAlpha(cards[i], v)
      BY <1>7, <3>2, <3>3 DEF IsCountedAlpha, ShowsAlpha
    <3>4. ASSUME NEW v \in S, ShowsAlpha(cards[i], v) PROVE IsBust(Append(mine, cards[i]))
      <4>1. v \in 1..13 /\ \E j \in 1..k : ShowsAlpha(mine[j], v)
        BY <1>6
      <4> QED BY <3>2, <3>4, <4>1 DEF IsCountedAlpha, ShowsAlpha
    <3> QED BY <3>3, <3>4
  <2>2. \A v \in S : part[v] = {i \in left : ShowsAlpha(cards[i], v)}
    OBVIOUS
  <2> HIDE DEF part
  <2>3. \A i \in busting : i \in UNION {part[v] : v \in S}
    BY <2>1, <2>2
  <2>4. \A v \in S : \A i \in part[v] : i \in busting
    BY <2>1, <2>2
  <2> HIDE DEF busting
  <2> QED BY <2>3, <2>4
<1>11. \A v, w \in S : v # w => part[v] \cap part[w] = {}
  BY DEF ShowsAlpha
<1> HIDE DEF part, f, busting
<1>12. SumOver(f, S) = Cardinality(busting)
  <2>1. \A v \in S : IsFiniteSet(part[v]) /\ f[v] = Cardinality(part[v])
    BY <1>8
  <2> QED BY <1>9, <1>10, <1>11, <2>1, SumOfParts
<1>13. calculateBustProbability(mine, theirs)
         = [bustingCardsRemaining |-> SumOver(f, S),
            remainingDeckSize |-> DECK_SIZE - Len(known)]
  <2>1. \A v \in PlayerAlphaValues(mine) :
          f[v] = IF Copies(mine \o theirs, v) >= ALPHA_VALUE_COPIES_IN_DECK THEN 0
                 ELSE ALPHA_VALUE_COPIES_IN_DECK - Copies(mine \o theirs, v)
    BY <1>8 DEF S, known
  <2> HIDE DEF theirs
  <2> QED BY <2>1, AdvisorSum DEF S, known
<1>14. DECK_SIZE - Len(known) = Cardinality(left)
  BY <1>3, <1>5 DEF n
<1>15. left = {} => Cardinality(busting) = 0
  <2>1. left = {} => busting = {}
    BY DEF busting
  <2> QED BY <2>1, FS_EmptySet
<1> QED BY <1>5, <1>12, <1>13, <1>14, <1>15 DEF mine, busting, left

(* Whatever the shuffle, the deck and what is dealt of it, the advisor's   *)
(* odds are the cards left that would bust the hand, of all cards left,    *)
(* and the panel advises to stay just when they and the score say so.      *)
THEOREM OddsAreCounted == RulesSpec => []OddsAreExact
<1>1. ASSUME ShuffleKeepsCards, scene = "shuffle", Shuffled PROVE OddsAreExact
  <2> DEFINE canonical == createCanonicalDeck
             N == CanonicalSize
             deck == applyPermutation(canonical, permutation)
             card(i) == [card_type |-> CardType[deck[i].card_type + 1], value |-> deck[i].value]
             cards == [i \in DOMAIN deck |-> card(i)]
  <2>1. /\ canonical \in Seq(CanonicalCards) /\ N \in Nat /\ DOMAIN canonical = 1..N
        /\ SUITS \in Nat /\ VALUES \in Nat
    BY CanonicalType, DeckAssumption
  <2>2. /\ permutation \in [1..N -> 1..N]
        /\ \A x \in 1..N : \E i \in 1..N : permutation[i] = x
    BY <1>1 DEF ShuffleKeepsCards
  <2>3. \A v \in 1..VALUES : CountIn(canonical, AlphasOf(v)) = SUITS
    BY CanonicalCopies
  <2> HIDE DEF canonical, N
  <2>4. /\ DOMAIN deck = 1..N /\ deck = [i \in 1..N |-> canonical[permutation[i]]]
        /\ \A i \in 1..N : deck[i] \in CanonicalCards
    BY <2>1, <2>2 DEF applyPermutation
  <2>5. \A v \in 1..VALUES : CountIn(deck, AlphasOf(v)) = SUITS
    <3> TAKE v \in 1..VALUES
    <3> DEFINE A == AlphasOf(v)
    <3> HIDE DEF A
    <3> HIDE DEF deck
    <3>1. Reorders(permutation, N, canonical, deck)
      BY <2>1, <2>2, <2>4 DEF Reorders
    <3>2. CountIn(deck, A) = CountIn(canonical, A)
      BY <2>1, <3>1, ReorderCount
    <3> QED BY <2>3, <3>2 DEF A
  <2> HIDE DEF deck
  <2>6. ASSUME NEW i \in 1..N
        PROVE  /\ card(i) \in DealtCards
               /\ \A v \in 1..VALUES : ShowsAlpha(card(i), v) <=> deck[i] \in AlphasOf(v)
    <3>1. deck[i] \in CanonicalCards
      BY <2>4
    <3>2. /\ CardType[1] = ALPHA /\ CardType[2] = PROTOCOL /\ CardType[3] = MULTIPLIER
          /\ ALPHA # PROTOCOL /\ ALPHA # MULTIPLIER
      BY DEF CardType, ALPHA, PROTOCOL, MULTIPLIER
    <3>3. deck[i].card_type = 0 \/ deck[i].card_type = 1 \/ deck[i].card_type = 2
      BY <3>1 DEF CanonicalCards
    <3>4. /\ deck[i].value \in Nat
          /\ deck[i].card_type = 0 => deck[i].value \in 1..VALUES
      BY <3>1 DEF CanonicalCards
    <3>5. card(i).card_type = CardType[deck[i].card_type + 1] /\ card(i).value = deck[i].value
      OBVIOUS
    <3>6. /\ CardType[deck[i].card_type + 1] \in {ALPHA, PROTOCOL, MULTIPLIER}
          /\ CardType[deck[i].card_type + 1] = ALPHA <=> deck[i].card_type = 0
      BY <3>2, <3>3
    <3>7. card(i) \in DealtCards
      BY <3>4, <3>5, <3>6 DEF DealtCards
    <3>8. \A v : deck[i] \in AlphasOf(v) <=> deck[i].card_type = 0 /\ deck[i].value = v
      BY <3>1 DEF AlphasOf
    <3> HIDE DEF card
    <3> QED BY <3>5, <3>6, <3>7, <3>8 DEF ShowsAlpha
  <2>7. cards \in Seq(DealtCards) /\ Len(cards) = N /\ \A i \in 1..N : cards[i] = card(i)
    <3> HIDE DEF card
    <3> QED BY <2>1, <2>4, <2>6
  <2>8. ASSUME NEW v \in 1..VALUES
        PROVE  Cardinality({i \in 1..Len(cards) : ShowsAlpha(cards[i], v)}) = SUITS
    <3> HIDE DEF cards, card
    <3>1. {i \in 1..Len(cards) : ShowsAlpha(cards[i], v)}
            = {i \in DOMAIN deck : deck[i] \in AlphasOf(v)}
      BY <2>4, <2>6, <2>7
    <3> QED BY <2>5, <3>1 DEF CountIn
  <2> HIDE DEF cards
  <2>9. ASSUME NEW k \in 0..Len(cards), NEW m \in 0..(Len(cards) - k)
        PROVE  LET mine == SubSeq(cards, 1, k)
                   left == {i \in DOMAIN cards : i > k + m}
                   busting == {i \in left : IsBust(Append(mine, cards[i]))}
                   score == CalculateHandScore(mine)
               IN  ~IsBust(mine) =>
                     /\ calculateBustProbability(mine, SubSeq(cards, k + 1, k + m))
                          = [bustingCardsRemaining |-> Cardinality(busting),
                             remainingDeckSize |-> Cardinality(left)]
                     /\ m = 0 => (FlipAdvisor(mine, score, FALSE) = "stay" <=>
                                    \/ left = {}
                                    \/ /\ 10 * Cardinality(busting) > 3 * Cardinality(left)
                                       /\ score > SCORE_STAY_THRESHOLD)
                     /\ FlipAdvisor(mine, score, TRUE) = "hit"
    <3> DEFINE mine == SubSeq(cards, 1, k)
               left == {i \in DOMAIN cards : i > k + m}
               busting == {i \in left : IsBust(Append(mine, cards[i]))}
               score == CalculateHandScore(mine)
               odds == [bustingCardsRemaining |-> Cardinality(busting),
                        remainingDeckSize |-> Cardinality(left)]
    <3>1. SUFFICES ASSUME ~IsBust(mine)
                   PROVE  /\ calculateBustProbability(mine, SubSeq(cards, k + 1, k + m)) = odds
                          /\ m = 0 => (FlipAdvisor(mine, score, FALSE) = "stay" <=>
                                         \/ left = {}
                                         \/ /\ 10 * Cardinality(busting) > 3 * Cardinality(left)
                                            /\ score > SCORE_STAY_THRESHOLD)
                          /\ FlipAdvisor(mine, score, TRUE) = "hit"
      OBVIOUS
    <3>2. /\ calculateBustProbability(mine, SubSeq(cards, k + 1, k + m)) = odds
          /\ Cardinality(left) \in Nat /\ (Cardinality(left) = 0 <=> left = {})
          /\ left = {} => Cardinality(busting) = 0
      BY <2>1, <2>7, <2>8, <3>1, AdvisorAssumption, AdvisorCounts DEF N
    <3>3. SubSeq(cards, k + 1, k) = << >>
      <4>1. Len(cards) \in Nat /\ k \in Nat /\ k + 1 > k
        BY <2>1, <2>7
      <4> QED BY <2>7, <4>1, SubSeqEmpty
    <3>4. m = 0 => calculateBustProbability(mine, << >>) = odds
      <4>1. m = 0 => k + m = k
        BY <2>1, <2>7
      <4> HIDE DEF mine, odds
      <4> QED BY <3>2, <3>3, <4>1
    <3>5. odds.bustingCardsRemaining = Cardinality(busting) /\ odds.remainingDeckSize = Cardinality(left)
      OBVIOUS
    <3> HIDE DEF mine, left, busting, score, odds
    <3>6. FlipAdvisor(mine, score, TRUE) = "hit"
      BY DEF FlipAdvisor
    <3>7. ASSUME m = 0
          PROVE  FlipAdvisor(mine, score, FALSE) = "stay" <=>
                   \/ left = {}
                   \/ /\ 10 * Cardinality(busting) > 3 * Cardinality(left)
                      /\ score > SCORE_STAY_THRESHOLD
      <4>1. FlipAdvisor(mine, score, FALSE) = getRecommendation(odds, score)
        BY <3>4, <3>7 DEF FlipAdvisor
      <4>2. odds.remainingDeckSize <= 0 <=> left = {}
        BY <3>2, <3>5
      <4> QED BY <3>5, <4>1, <4>2 DEF getRecommendation
    <3> QED BY <3>2, <3>6, <3>7
  <2> QED BY <2>9 DEF OddsAreExact, cards, deck, canonical
<1>2. ShuffleKeepsCards => OddsAreExact
  <2>1. CASE scene = "shuffle" /\ Shuffled
    BY <1>1, <2>1
  <2>2. CASE ~(scene = "shuffle" /\ Shuffled)
    BY <2>2 DEF OddsAreExact
  <2> QED BY <2>1, <2>2
<1> QED BY <1>2, ShuffleIsPermutation, PTL

-----------------------------------------------------------------------------
(* What the reader finds at an offset, and one read.                       *)
FieldAt(bytes, at, width) ==
  LET here == {f \in bytes : f[1] = at /\ f[2] = width}
  IN  IF here = {} THEN GARBLED ELSE (CHOOSE f \in here : TRUE)[3]
ReadStep(bytes, r, w) ==
  [at |-> r.at + w, values |-> Append(r.values, FieldAt(bytes, r.at, w))]
NothingRead == [at |-> 0, values |-> << >>]

(* The reader after each width.                                            *)
LEMMA ReaderRuns ==
  ASSUME NEW bytes, NEW widths \in Seq(Nat)
  PROVE  \E run : /\ run[0] = NothingRead
                  /\ \A k \in 1..Len(widths) : run[k] = ReadStep(bytes, run[k - 1], widths[k])
                  /\ ByteReader(bytes, widths) = run[Len(widths)].values
<1> DEFINE V == {FieldAt(bytes, p[1], p[2]) : p \in Nat \X Nat}
           B == [at : Nat, values : Seq(V)]
           g == [p \in Nat \X B |-> ReadStep(bytes, p[2], p[1])]
           Solves(f) == f = [S \in SUBSET (DOMAIN widths) |->
                               IF S = {} THEN NothingRead
                               ELSE ReadStep(bytes, f[S \ {Max(S)}], widths[Max(S)])]
           iter == CHOOSE f : Solves(f)
           run == [k \in 0..Len(widths) |-> iter[1..k]]
<1>1. ByteReader(bytes, widths) = iter[DOMAIN widths].values
  BY DEF ByteReader, FoldLeft, MapThenFoldSet, ReadStep, FieldAt, NothingRead
<1>2. \A r \in B, w \in Nat : ReadStep(bytes, r, w) \in B
  <2> TAKE r \in B, w \in Nat
  <2>1. r.at \in Nat /\ r.at + w \in Nat /\ r.values \in Seq(V)
    OBVIOUS
  <2>2. <<r.at, w>> \in Nat \X Nat /\ <<r.at, w>>[1] = r.at /\ <<r.at, w>>[2] = w
    BY <2>1
  <2>3. FieldAt(bytes, r.at, w) \in V
    BY <2>2
  <2> HIDE DEF V
  <2> QED BY <2>1, <2>3, AppendProperties DEF ReadStep
<1>3. NothingRead \in B
  <2> HIDE DEF V
  <2> QED BY DEF NothingRead
<1> HIDE DEF B
<1>4. /\ g \in [Nat \X B -> B]
      /\ \A r \in B, w \in Nat : g[<<w, r>>] = ReadStep(bytes, r, w)
  BY <1>2
<1> HIDE DEF g
<1>5. PICK it \in [SUBSET (DOMAIN widths) -> B] : IsFoldLeft(it, g, NothingRead, widths)
  BY <1>3, <1>4, FoldLeftExists
<1>6. Solves(it)
  <2>1. ASSUME NEW S \in SUBSET (DOMAIN widths), S # {}
        PROVE  it[S] = ReadStep(bytes, it[S \ {Max(S)}], widths[Max(S)])
    <3>1. Len(widths) \in Nat /\ DOMAIN widths = 1..Len(widths)
      OBVIOUS
    <3>2. Max(S) \in DOMAIN widths
      BY <2>1, <3>1, MaxOfPositions
    <3>3. widths[Max(S)] \in Nat /\ it[S \ {Max(S)}] \in B
      BY <3>2
    <3> QED BY <1>4, <1>5, <2>1, <3>3 DEF IsFoldLeft
  <2>2. it[{}] = NothingRead
    BY <1>5 DEF IsFoldLeft
  <2> QED BY <2>1, <2>2
<1>7. Solves(iter)
  BY <1>6
<1> HIDE DEF iter
<1>8. run[0] = NothingRead
  BY <1>7
<1>9. ASSUME NEW k \in 1..Len(widths) PROVE run[k] = ReadStep(bytes, run[k - 1], widths[k])
  <2>1. /\ 1..k \in SUBSET (DOMAIN widths) /\ 1..k # {}
        /\ k \in 0..Len(widths) /\ k - 1 \in 0..Len(widths)
    <3>1. k \in Nat /\ Len(widths) \in Nat /\ 1 <= k /\ k <= Len(widths) /\ DOMAIN widths = 1..Len(widths)
      OBVIOUS
    <3>2. /\ k \in 1..k /\ \A i \in 1..k : i \in 1..Len(widths)
          /\ k \in 0..Len(widths) /\ k - 1 \in 0..Len(widths)
      BY <3>1
    <3>3. 1..k \subseteq 1..Len(widths) /\ 1..k # {}
      BY <3>2, Zenon
    <3> QED BY <3>1, <3>2, <3>3
  <2>2. Max(1..k) = k /\ (1..k) \ {Max(1..k)} = 1..(k - 1)
    BY MaxOfFirst
  <2> QED BY <1>7, <2>1, <2>2
<1>10. DOMAIN widths = 1..Len(widths) /\ run[Len(widths)] = iter[1..Len(widths)]
  OBVIOUS
<1> HIDE DEF run
<1> QED BY <1>1, <1>8, <1>9, <1>10

(* The bytes hold the values v one after the other: the i-th takes as many *)
(* as the i-th width says, from where the one before it ends.              *)
StoredAs(bytes, widths, at, v) ==
  LET n == Len(widths) IN
  /\ widths \in Seq(Nat \ {0})
  /\ at[1] = 0 /\ \A i \in 1..n : at[i + 1] = at[i] + widths[i]
  /\ \A i \in 1..n : <<at[i], widths[i], v[i]>> \in bytes
  /\ \A f \in bytes : \E i \in 1..n : f = <<at[i], widths[i], v[i]>>

(* Then the reader returns the values.                                     *)
LEMMA ValuesAreRead ==
  ASSUME NEW bytes, NEW widths, NEW at, NEW v, StoredAs(bytes, widths, at, v)
  PROVE  LET r == ByteReader(bytes, widths) IN
         /\ Len(r) = Len(widths) /\ DOMAIN r = 1..Len(widths)
         /\ r = [i \in 1..Len(widths) |-> r[i]]
         /\ \A i \in 1..Len(widths) : r[i] = v[i]
<1> DEFINE n == Len(widths)
<1>1. /\ widths \in Seq(Nat) /\ n \in Nat /\ \A i \in 1..n : widths[i] \in Nat \ {0}
      /\ at[1] = 0 /\ \A i \in 1..n : at[i + 1] = at[i] + widths[i]
      /\ \A i \in 1..n : <<at[i], widths[i], v[i]>> \in bytes
      /\ \A f \in bytes : \E i \in 1..n : f = <<at[i], widths[i], v[i]>>
  BY DEF StoredAs
<1>2. PICK run : /\ run[0] = NothingRead
                 /\ \A k \in 1..n : run[k] = ReadStep(bytes, run[k - 1], widths[k])
                 /\ ByteReader(bytes, widths) = run[n].values
  BY <1>1, ReaderRuns
<1> HIDE DEF n
<1> DEFINE Rising == {m \in Nat : m < n + 1 =>
                        /\ at[m + 1] \in Nat
                        /\ \A j \in 1..m : at[j] \in Nat /\ at[j] < at[m + 1]}
<1>3. 0 \in Rising
  BY <1>1
<1>4. ASSUME NEW m \in Nat, m \in Rising PROVE m + 1 \in Rising
  <2>1. SUFFICES ASSUME m + 1 < n + 1
                 PROVE  /\ at[(m + 1) + 1] \in Nat
                        /\ \A j \in 1..(m + 1) : at[j] \in Nat /\ at[j] < at[(m + 1) + 1]
    OBVIOUS
  <2>2. /\ m + 1 \in 1..n /\ at[m + 1] \in Nat
        /\ \A j \in 1..m : at[j] \in Nat /\ at[j] < at[m + 1]
    <3>1. m < n + 1 /\ m + 1 \in 1..n
      BY <1>1, <2>1
    <3> QED BY <1>4, <3>1
  <2>3. /\ at[(m + 1) + 1] = at[m + 1] + widths[m + 1]
        /\ widths[m + 1] \in Nat /\ widths[m + 1] > 0
    BY <1>1, <2>2
  <2>4. at[(m + 1) + 1] \in Nat /\ at[m + 1] < at[(m + 1) + 1]
    BY <2>2, <2>3
  <2>5. ASSUME NEW j \in 1..(m + 1) PROVE at[j] \in Nat /\ at[j] < at[(m + 1) + 1]
    <3>1. CASE j = m + 1
      BY <2>2, <2>4, <3>1
    <3>2. CASE j # m + 1
      <4>1. j \in 1..m
        BY <3>2
      <4> QED BY <2>2, <2>4, <4>1
    <3> QED BY <3>1, <3>2
  <2> QED BY <2>4, <2>5
<1> HIDE DEF Rising
<1>5. Nat \subseteq Rising
  BY <1>3, <1>4, NatSetInduction
<1>6. \A i \in 1..n : at[i] \in Nat /\ at[i + 1] \in Nat
  <2> TAKE i \in 1..n
  <2>1. i \in Nat /\ i < n + 1 /\ i \in 1..i
    BY <1>1
  <2> QED BY <1>5, <2>1 DEF Rising
<1>7. \A i, j \in 1..n : at[i] = at[j] => i = j
  <2>1. ASSUME NEW i \in 1..n, NEW j \in 1..n, i < j PROVE at[i] # at[j]
    <3>1. j - 1 \in Nat /\ j - 1 < n + 1 /\ (j - 1) + 1 = j /\ i \in 1..(j - 1)
      BY <1>1, <2>1
    <3>2. at[i] \in Nat /\ at[j] \in Nat /\ at[i] < at[j]
      BY <1>5, <1>6, <3>1 DEF Rising
    <3> QED BY <3>2
  <2>2. \A i, j \in 1..n : i = j \/ i < j \/ j < i
    BY <1>1
  <2> QED BY <2>1, <2>2
<1>8. ASSUME NEW i \in 1..n PROVE FieldAt(bytes, at[i], widths[i]) = v[i]
  <2> DEFINE field == <<at[i], widths[i], v[i]>>
             here == {f \in bytes : f[1] = at[i] /\ f[2] = widths[i]}
  <2>1. \A f \in here : f = field
    <3> TAKE f \in here
    <3>1. f \in bytes /\ f[1] = at[i]
      OBVIOUS
    <3>2. PICK j \in 1..n : f = <<at[j], widths[j], v[j]>>
      BY <1>1, <3>1
    <3>3. f[1] = at[j]
      BY <3>2
    <3>4. j = i
      BY <1>7, <3>1, <3>3
    <3> QED BY <3>2, <3>4
  <2>2. field \in here
    BY <1>1
  <2> HIDE DEF here
  <2>3. here # {} /\ (CHOOSE f \in here : TRUE) = field
    BY <2>1, <2>2
  <2>4. FieldAt(bytes, at[i], widths[i])
          = IF here = {} THEN GARBLED ELSE (CHOOSE f \in here : TRUE)[3]
    BY DEF FieldAt, here
  <2>5. field[3] = v[i]
    OBVIOUS
  <2> HIDE DEF field
  <2> QED BY <2>3, <2>4, <2>5
<1> DEFINE Values == {v[i] : i \in 1..n}
           Good == {k \in Nat : k <= n => /\ run[k].at = at[k + 1]
                                          /\ run[k].values \in Seq(Values) /\ Len(run[k].values) = k
                                          /\ \A i \in 1..k : run[k].values[i] = v[i]}
<1>9. 0 \in Good
  <2>1. run[0].at = 0 /\ run[0].values = << >>
    BY <1>2 DEF NothingRead
  <2> HIDE DEF Values
  <2>2. << >> \in Seq(Values) /\ Len(<< >>) = 0
    OBVIOUS
  <2>3. run[0].at = at[0 + 1] /\ run[0].values \in Seq(Values) /\ Len(run[0].values) = 0
    BY <1>1, <2>1, <2>2
  <2>4. \A i \in 1..0 : run[0].values[i] = v[i]
    OBVIOUS
  <2>5. 0 \in Nat
    OBVIOUS
  <2> QED BY <2>3, <2>4, <2>5, Zenon
<1>10. ASSUME NEW k \in Nat, k \in Good PROVE k + 1 \in Good
  <2> DEFINE m == k + 1
  <2>1. SUFFICES ASSUME m <= n
                 PROVE  /\ run[m].at = at[m + 1]
                        /\ run[m].values \in Seq(Values) /\ Len(run[m].values) = m
                        /\ \A i \in 1..m : run[m].values[i] = v[i]
    OBVIOUS
  <2>2. m \in 1..n /\ m - 1 = k /\ k <= n
    BY <1>1, <2>1
  <2>3. /\ run[k].at = at[m] /\ run[k].values \in Seq(Values) /\ Len(run[k].values) = k
        /\ \A i \in 1..k : run[k].values[i] = v[i]
    BY <1>10, <2>2
  <2>4. v[m] \in Values
    BY <2>2
  <2> HIDE DEF Values
  <2>5. run[m] = ReadStep(bytes, run[k], widths[m])
    BY <1>2, <2>2
  <2>6. run[m].at = at[m] + widths[m] /\ run[m].values = Append(run[k].values, v[m])
    BY <1>8, <2>2, <2>3, <2>5 DEF ReadStep
  <2>7. /\ Append(run[k].values, v[m]) \in Seq(Values)
        /\ Len(Append(run[k].values, v[m])) = k + 1
        /\ \A i \in 1..k : Append(run[k].values, v[m])[i] = run[k].values[i]
        /\ Append(run[k].values, v[m])[k + 1] = v[m]
    BY <2>3, <2>4, AppendProperties
  <2>8. run[m].at = at[m + 1]
    BY <1>1, <2>2, <2>6
  <2>9. \A i \in 1..m : i \in 1..k \/ i = k + 1
    OBVIOUS
  <2> QED BY <2>3, <2>6, <2>7, <2>8, <2>9
<1> HIDE DEF Good
<1>11. n \in Good
  BY <1>1, <1>9, <1>10, NatSetInduction
<1>12. /\ run[n].values \in Seq(Values) /\ Len(run[n].values) = n
       /\ \A i \in 1..n : run[n].values[i] = v[i]
  BY <1>1, <1>11 DEF Good
<1> HIDE DEF Values
<1> QED BY <1>2, <1>12 DEF n

(* r is m places of s and then n of t.                                     *)
Joins(r, s, m, t, n) ==
  /\ Len(r) = m + n
  /\ \A i \in 1..m : r[i] = s[i]
  /\ \A i \in (m + 1)..(m + n) : r[i] = t[i - m]

(* r is m places of a list, n times over.                                  *)
Repeats(r, n, list, m) ==
  /\ Len(r) = n * m
  /\ \A q \in 1..(n * m) : \E i \in 1..n, j \in 1..m : q = (i - 1) * m + j /\ r[q] = list[j]

(* A concatenation holds the places of the first list, then the second's.  *)
LEMMA Places ==
  ASSUME NEW S, NEW s \in Seq(S), NEW t \in Seq(S)
  PROVE  s \o t \in Seq(S) /\ Joins(s \o t, s, Len(s), t, Len(t))
<1>1. /\ Len(s) \in Nat /\ Len(t) \in Nat
      /\ s \o t \in Seq(S) /\ Len(s \o t) = Len(s) + Len(t)
      /\ \A i \in 1..(Len(s) + Len(t)) :
           (s \o t)[i] = IF i <= Len(s) THEN s[i] ELSE t[i - Len(s)]
  BY ConcatProperties
<1> QED BY <1>1 DEF Joins

(* A list that repeats has its places one repetition after the other.      *)
LEMMA TimesRule ==
  ASSUME NEW S, NEW list \in Seq(S), NEW n \in Nat
  PROVE  Times(n, list) \in Seq(S) /\ Repeats(Times(n, list), n, list, Len(list))
<1> DEFINE m == Len(list)
           parts == [i \in 1..n |-> list]
<1>1. m \in Nat /\ parts \in Seq(Seq(S)) /\ Len(parts) = n /\ \A i \in 1..n : parts[i] = list
  OBVIOUS
<1>2. Times(n, list) = FlattenSeq(parts)
  BY DEF Times
<1> HIDE DEF parts, m
<1>3. PICK run \in [0..n -> Seq(S)] :
        /\ run[0] = << >> /\ FlattenSeq(parts) = run[n]
        /\ \A i \in 1..n : run[i] = run[i - 1] \o parts[i]
  <2>1. PICK run \in [0..Len(parts) -> Seq(S)] :
          /\ run[0] = << >> /\ FlattenSeq(parts) = run[Len(parts)]
          /\ \A i \in 1..Len(parts) : run[i] = run[i - 1] \o parts[i]
    BY <1>1, FlattenRuns
  <2>2. Len(parts) = n
    BY <1>1
  <2> QED BY <2>1, <2>2
<1> DEFINE Laid(k) == Repeats(run[k], k, list, m)
           Good == {k \in Nat : k <= n => Laid(k)}
<1> HIDE DEF Laid
<1>4. 0 \in Good
  <2>1. 0 * m = 0 /\ Len(run[0]) = 0
    BY <1>1, <1>3
  <2>2. \A q \in 1..(0 * m) : FALSE
    BY <2>1
  <2>3. Laid(0)
    BY <2>1, <2>2 DEF Laid, Repeats
  <2> QED BY <2>3
<1>5. ASSUME NEW k \in Nat, k \in Good PROVE k + 1 \in Good
  <2>1. SUFFICES ASSUME k + 1 <= n PROVE Laid(k + 1)
    OBVIOUS
  <2>2. k + 1 \in 1..n /\ (k + 1) - 1 = k /\ k \in 0..n /\ k <= n
    BY <2>1
  <2>3. Laid(k)
    BY <1>5, <2>2
  <2>4. run[k + 1] = run[k] \o list /\ run[k] \in Seq(S) /\ list \in Seq(S)
    BY <1>1, <1>3, <2>2
  <2> DEFINE len == k * m
  <2>5. len \in Nat /\ (k + 1) * m = len + m /\ Len(run[k]) = len
    BY <1>1, <2>3 DEF Laid, Repeats
  <2> HIDE DEF len
  <2>6. /\ Len(run[k] \o list) = len + m
        /\ \A q \in 1..len : (run[k] \o list)[q] = run[k][q]
        /\ \A q \in (len + 1)..(len + m) : (run[k] \o list)[q] = list[q - len]
    <3>1. Joins(run[k] \o list, run[k], Len(run[k]), list, Len(list))
      BY <2>4, Places
    <3> QED BY <2>5, <3>1 DEF m, Joins
  <2>7. \A q \in 1..len : \E i \in 1..k, j \in 1..m :
          q = (i - 1) * m + j /\ run[k][q] = list[j]
    BY <2>3 DEF Laid, Repeats, len
  <2>8. ASSUME NEW q \in 1..(len + m)
        PROVE  \E i \in 1..(k + 1), j \in 1..m : q = (i - 1) * m + j /\ run[k + 1][q] = list[j]
    <3>1. CASE q \in 1..len
      <4>1. PICK i \in 1..k, j \in 1..m : q = (i - 1) * m + j /\ run[k][q] = list[j]
        BY <2>7, <3>1
      <4>2. i \in 1..(k + 1)
        BY <2>2
      <4>3. run[k + 1][q] = list[j]
        BY <2>4, <2>6, <3>1, <4>1
      <4> QED BY <4>1, <4>2, <4>3
    <3>2. CASE q \notin 1..len
      <4>1. q \in (len + 1)..(len + m) /\ q - len \in 1..m /\ q = len + (q - len)
        BY <1>1, <2>5, <3>2
      <4>2. k + 1 \in 1..(k + 1) /\ len = ((k + 1) - 1) * m
        BY DEF len
      <4>3. run[k + 1][q] = list[q - len]
        BY <2>4, <2>6, <4>1
      <4> QED BY <4>1, <4>2, <4>3
    <3> QED BY <3>1, <3>2
  <2>9. Len(run[k + 1]) = (k + 1) * m
    BY <2>4, <2>5, <2>6
  <2> QED BY <2>5, <2>8, <2>9 DEF Laid, Repeats
<1> HIDE DEF Good
<1>6. n \in Good
  BY <1>4, <1>5, NatSetInduction
<1>7. Laid(n) /\ run[n] \in Seq(S)
  BY <1>3, <1>6 DEF Good
<1> QED BY <1>2, <1>3, <1>7 DEF m, Laid

(* What PlayerState's fields are, in the order they are read.              *)
EmptySlot == [value |-> 0, card_type |-> 0, suit |-> 0]
SlotOf(ps, i) == IF i \in DOMAIN ps.slots THEN ps.slots[i] ELSE EmptySlot
PlayerWidths ==
  <<1, 1, 32, 8, 1>> \o Times(10, <<1, 1, 1>>) \o <<1, 1, 1, 8, 8, 1, 1, 8, 8>>
PlayerAt ==
  [i \in 1..45 |-> IF i <= 3 THEN i - 1 ELSE IF i = 4 THEN 34 ELSE IF i <= 39 THEN 37 + i
                   ELSE IF i = 40 THEN 84 ELSE IF i <= 43 THEN 51 + i
                   ELSE IF i = 44 THEN 102 ELSE 110]
PlayerValues(ps) ==
  [i \in 1..44 |->
     IF i <= 5 THEN <<2, ps.bump, ps.player, ps.game_id, ps.hand_size>>[i]
     ELSE IF i > 35
     THEN <<ps.is_active, ps.inactive_reason, ps.bust_card_value, ps.score, ps.staked_amount,
            ps.has_used_second_chance, ps.has_used_scry, ps.total_wins, ps.total_games>>[i - 35]
     ELSE LET c == SlotOf(ps, (i \div 3) - 1) IN
          IF i % 3 = 0 THEN c.value ELSE IF i % 3 = 1 THEN c.card_type ELSE c.suit]

(* Their widths.                                                           *)
LEMMA PlayerWidthsAre ==
  /\ PlayerWidths \in Seq(Nat \ {0}) /\ Len(PlayerWidths) = 44
  /\ \A i \in 1..44 : PlayerWidths[i] = IF i = 3 THEN 32
                                        ELSE IF i = 4 \/ i = 39 \/ i = 40 \/ i >= 43 THEN 8 ELSE 1
<1> DEFINE P == Nat \ {0}
           head == <<1, 1, 32, 8, 1>>
           slots == Times(10, <<1, 1, 1>>)
           tail == <<1, 1, 1, 8, 8, 1, 1, 8, 8>>
<1>1. /\ head \in Seq(P) /\ Len(head) = 5
      /\ head[1] = 1 /\ head[2] = 1 /\ head[3] = 32 /\ head[4] = 8 /\ head[5] = 1
  OBVIOUS
<1>2. /\ tail \in Seq(P) /\ Len(tail) = 9
      /\ tail[1] = 1 /\ tail[2] = 1 /\ tail[3] = 1 /\ tail[4] = 8 /\ tail[5] = 8
      /\ tail[6] = 1 /\ tail[7] = 1 /\ tail[8] = 8 /\ tail[9] = 8
  OBVIOUS
<1>3. slots \in Seq(P) /\ Len(slots) = 30 /\ \A q \in 1..30 : slots[q] = 1
  <2> DEFINE list == <<1, 1, 1>>
  <2>1. list \in Seq(P) /\ Len(list) = 3 /\ \A j \in 1..3 : list[j] = 1
    OBVIOUS
  <2> HIDE DEF list, P
  <2>2. Times(10, list) \in Seq(P) /\ Repeats(Times(10, list), 10, list, Len(list))
    BY <2>1, TimesRule
  <2>3. /\ Times(10, list) \in Seq(P) /\ Len(Times(10, list)) = 30
        /\ \A q \in 1..30 : Times(10, list)[q] = 1
    <3> DEFINE t == Times(10, list)
    <3> HIDE DEF t
    <3>1. t \in Seq(P) /\ Repeats(t, 10, list, 3)
      BY <2>1, <2>2 DEF t
    <3>2. Len(t) = 30 /\ \A q \in 1..30 : \E j \in 1..3 : t[q] = list[j]
      BY <3>1 DEF Repeats
    <3> QED BY <2>1, <3>1, <3>2 DEF t
  <2> QED BY <2>3 DEF list
<1> HIDE DEF head, slots, tail, P
<1> DEFINE front == head \o slots
<1>4. front \in Seq(P) /\ Joins(front, head, 5, slots, 30)
  BY <1>1, <1>3, Places
<1> HIDE DEF front
<1> DEFINE whole == front \o tail
<1>5. whole \in Seq(P) /\ Joins(whole, front, 35, tail, 9)
  <2>1. Len(front) = 35
    BY <1>4 DEF Joins
  <2> QED BY <1>2, <1>4, <2>1, Places
<1>6. PlayerWidths = whole
  BY DEF PlayerWidths, whole, front, head, slots, tail
<1> HIDE DEF whole
<1>7. /\ \A i \in 1..35 : whole[i] = front[i]
      /\ \A i \in 36..44 : whole[i] = tail[i - 35]
      /\ \A i \in 1..5 : front[i] = head[i]
      /\ \A i \in 6..35 : front[i] = slots[i - 5]
  <2>1. 5 + 1 = 6 /\ 5 + 30 = 35 /\ 35 + 1 = 36 /\ 35 + 9 = 44
    OBVIOUS
  <2> QED BY <1>4, <1>5, <2>1 DEF Joins
<1>8. ASSUME NEW i \in 1..44
      PROVE  whole[i] = IF i = 3 THEN 32
                        ELSE IF i = 4 \/ i = 39 \/ i = 40 \/ i >= 43 THEN 8 ELSE 1
  <2>1. CASE i \in 1..5
    <3>1. whole[i] = head[i]
      <4>1. i \in 1..35
        BY <2>1
      <4> QED BY <1>7, <2>1, <4>1
    <3>2. i = 1 \/ i = 2 \/ i = 3 \/ i = 4 \/ i = 5
      BY <2>1
    <3> QED BY <1>1, <3>1, <3>2
  <2>2. CASE i \in 6..35
    <3>1. whole[i] = slots[i - 5] /\ i - 5 \in 1..30
      <4>1. i \in 1..35 /\ i - 5 \in 1..30
        BY <2>2
      <4> QED BY <1>7, <2>2, <4>1
    <3>2. whole[i] = 1
      BY <1>3, <3>1
    <3>3. i # 3 /\ ~(i = 4 \/ i = 39 \/ i = 40 \/ i >= 43)
      BY <2>2
    <3> QED BY <3>2, <3>3
  <2>3. CASE i \in 36..44
    <3>1. whole[i] = tail[i - 35]
      BY <1>7, <2>3
    <3>2. \/ i - 35 = 1 \/ i - 35 = 2 \/ i - 35 = 3 \/ i - 35 = 4 \/ i - 35 = 5
          \/ i - 35 = 6 \/ i - 35 = 7 \/ i - 35 = 8 \/ i - 35 = 9
      BY <2>3
    <3> QED BY <1>2, <3>1, <3>2
  <2> QED BY <2>1, <2>2, <2>3
<1> QED BY <1>5, <1>6, <1>8 DEF P, Joins

(* Where each slot of the hand is.                                         *)
SlotFields(ps, i) ==
  {<<43 + (i - 1) * 3, 1, SlotOf(ps, i).value>>,
   <<43 + (i - 1) * 3 + 1, 1, SlotOf(ps, i).card_type>>,
   <<43 + (i - 1) * 3 + 2, 1, SlotOf(ps, i).suit>>}

(* PlayerState is stored the way the client reads it.                      *)
LEMMA PlayerIsStored ==
  ASSUME NEW ps
  PROVE  StoredAs(PlayerStateBytes(ps), PlayerWidths, PlayerAt, PlayerValues(ps))
<1> DEFINE w == PlayerWidths
           at == PlayerAt
           v == PlayerValues(ps)
           entry(i) == <<at[i], w[i], v[i]>>
           slots == UNION {SlotFields(ps, i) : i \in 1..10}
           fixed == {<<0, 1, 2>>, <<1, 1, ps.bump>>, <<2, 32, ps.player>>,
                     <<34, 8, ps.game_id>>, <<42, 1, ps.hand_size>>, <<73, 1, ps.is_active>>,
                     <<74, 1, ps.inactive_reason>>, <<75, 1, ps.bust_card_value>>,
                     <<76, 8, ps.score>>, <<84, 8, ps.staked_amount>>,
                     <<92, 1, ps.has_used_second_chance>>, <<93, 1, ps.has_used_scry>>,
                     <<94, 8, ps.total_wins>>, <<102, 8, ps.total_games>>}
<1>1. PlayerStateBytes(ps) = fixed \cup slots
  BY DEF PlayerStateBytes, Slots, SlotFields, SlotOf, EmptySlot
<1>2. /\ w \in Seq(Nat \ {0}) /\ Len(w) = 44
  BY PlayerWidthsAre
<1>0. \A i \in 1..44 : w[i] = IF i = 3 THEN 32
                             ELSE IF i = 4 \/ i = 39 \/ i = 40 \/ i >= 43 THEN 8 ELSE 1
  BY PlayerWidthsAre
<1> HIDE DEF w
<1>3. at[1] = 0 /\ \A i \in 1..44 : at[i + 1] = at[i] + w[i]
  <2>1. \A i \in 1..45 :
          at[i] = IF i <= 3 THEN i - 1 ELSE IF i = 4 THEN 34 ELSE IF i <= 39 THEN 37 + i
                  ELSE IF i = 40 THEN 84 ELSE IF i <= 43 THEN 51 + i
                  ELSE IF i = 44 THEN 102 ELSE 110
    BY DEF PlayerAt
  <2> HIDE DEF at
  <2>2. ASSUME NEW i \in 1..44 PROVE at[i + 1] = at[i] + w[i]
    <3>1. i + 1 \in 1..45 /\ i \in 1..45
      OBVIOUS
    <3>2. CASE i <= 4
      <4>1. i = 1 \/ i = 2 \/ i = 3 \/ i = 4
        BY <3>2
      <4> QED BY <1>0, <2>1, <3>1, <4>1
    <3>3. CASE i \in 5..38
      <4>1. w[i] = 1
        BY <1>0, <3>3
      <4> QED BY <2>1, <3>1, <3>3, <4>1
    <3>4. CASE i > 38
      <4>1. i = 39 \/ i = 40 \/ i = 41 \/ i = 42 \/ i = 43 \/ i = 44
        BY <3>4
      <4> QED BY <1>0, <2>1, <3>1, <4>1
    <3> QED BY <3>2, <3>3, <3>4
  <2> QED BY <2>1, <2>2
<1>4. /\ entry(1) = <<0, 1, 2>> /\ entry(2) = <<1, 1, ps.bump>>
      /\ entry(3) = <<2, 32, ps.player>> /\ entry(4) = <<34, 8, ps.game_id>>
      /\ entry(5) = <<42, 1, ps.hand_size>>
  BY <1>0 DEF PlayerAt, PlayerValues
<1>5. /\ entry(36) = <<73, 1, ps.is_active>> /\ entry(37) = <<74, 1, ps.inactive_reason>>
      /\ entry(38) = <<75, 1, ps.bust_card_value>> /\ entry(39) = <<76, 8, ps.score>>
      /\ entry(40) = <<84, 8, ps.staked_amount>>
  BY <1>0 DEF PlayerAt, PlayerValues
<1>6. /\ entry(41) = <<92, 1, ps.has_used_second_chance>>
      /\ entry(42) = <<93, 1, ps.has_used_scry>>
      /\ entry(43) = <<94, 8, ps.total_wins>> /\ entry(44) = <<102, 8, ps.total_games>>
  BY <1>0 DEF PlayerAt, PlayerValues
<1>7. ASSUME NEW i \in 1..10
      PROVE  SlotFields(ps, i) = {entry(3 * i + 3), entry(3 * i + 4), entry(3 * i + 5)}
  <2> DEFINE k == 3 * i + 3
             c == SlotOf(ps, i)
  <2>1. /\ k \in 6..33 /\ k \div 3 - 1 = i /\ k % 3 = 0
        /\ (k + 1) \div 3 - 1 = i /\ (k + 1) % 3 = 1
        /\ (k + 2) \div 3 - 1 = i /\ (k + 2) % 3 = 2
        /\ k + 1 \in 6..35 /\ k + 2 \in 6..35
        /\ 37 + k = 43 + (i - 1) * 3
    OBVIOUS
  <2> HIDE DEF k
  <2>2. w[k] = 1 /\ w[k + 1] = 1 /\ w[k + 2] = 1
    <3>1. \A j \in 6..35 : w[j] = 1
      <4>1. \A j \in 6..35 : j \in 1..44 /\ j # 3 /\ ~(j = 4 \/ j = 39 \/ j = 40 \/ j >= 43)
        OBVIOUS
      <4> QED BY <1>0, <4>1
    <3>2. k \in 6..35
      BY <2>1
    <3> QED BY <2>1, <3>1, <3>2
  <2>3. at[k] = 37 + k /\ at[k + 1] = 37 + k + 1 /\ at[k + 2] = 37 + k + 2
    BY <2>1 DEF PlayerAt
  <2>4. v[k] = c.value /\ v[k + 1] = c.card_type /\ v[k + 2] = c.suit
    BY <2>1 DEF PlayerValues
  <2> HIDE DEF at, v, c
  <2>5. SlotFields(ps, i) = {entry(k), entry(k + 1), entry(k + 2)}
    BY <2>1, <2>2, <2>3, <2>4 DEF SlotFields, c
  <2>6. k + 1 = 3 * i + 4 /\ k + 2 = 3 * i + 5
    BY DEF k
  <2> QED BY <2>5, <2>6 DEF k
<1> HIDE DEF at, v
<1>8. \A i \in 1..44 : entry(i) \in fixed \cup slots
  <2> TAKE i \in 1..44
  <2>1. CASE i <= 5
    <3>1. i = 1 \/ i = 2 \/ i = 3 \/ i = 4 \/ i = 5
      BY <2>1
    <3> QED BY <1>4, <3>1
  <2>2. CASE i \in 6..35
    <3> DEFINE s == i \div 3 - 1
    <3>1. s \in 1..10 /\ (i = 3 * s + 3 \/ i = 3 * s + 4 \/ i = 3 * s + 5)
      BY <2>2
    <3> HIDE DEF s, entry, fixed
    <3>2. entry(i) \in SlotFields(ps, s)
      BY <1>7, <3>1
    <3> QED BY <3>1, <3>2
  <2>3. CASE i > 35
    <3>1. \/ i = 36 \/ i = 37 \/ i = 38 \/ i = 39 \/ i = 40
          \/ i = 41 \/ i = 42 \/ i = 43 \/ i = 44
      BY <2>3
    <3> QED BY <1>5, <1>6, <3>1
  <2> QED BY <2>1, <2>2, <2>3
<1>9. ASSUME NEW f \in fixed \cup slots PROVE \E i \in 1..44 : f = entry(i)
  <2>1. CASE f \in slots
    <3>1. PICK i \in 1..10 : f \in SlotFields(ps, i)
      BY <2>1
    <3>2. 3 * i + 3 \in 1..44 /\ 3 * i + 4 \in 1..44 /\ 3 * i + 5 \in 1..44
      OBVIOUS
    <3> HIDE DEF entry
    <3>3. f = entry(3 * i + 3) \/ f = entry(3 * i + 4) \/ f = entry(3 * i + 5)
      BY <1>7, <3>1
    <3> QED BY <3>2, <3>3
  <2>2. CASE f \in fixed
    <3>1. \/ f = entry(1) \/ f = entry(2) \/ f = entry(3) \/ f = entry(4) \/ f = entry(5)
          \/ f = entry(36) \/ f = entry(37) \/ f = entry(38) \/ f = entry(39) \/ f = entry(40)
          \/ f = entry(41) \/ f = entry(42) \/ f = entry(43) \/ f = entry(44)
      BY <1>4, <1>5, <1>6, <2>2
    <3> HIDE DEF entry, fixed
    <3> QED BY <3>1
  <2> QED BY <2>1, <2>2
<1> HIDE DEF fixed, slots
<1>10. \A i \in 1..44 : <<at[i], w[i], v[i]>> \in PlayerStateBytes(ps)
  BY <1>1, <1>8
<1>11. \A f \in PlayerStateBytes(ps) : \E i \in 1..44 : f = <<at[i], w[i], v[i]>>
  BY <1>1, <1>9
<1> HIDE DEF at, v, entry
<1>12. StoredAs(PlayerStateBytes(ps), w, at, v)
  BY <1>2, <1>3, <1>10, <1>11 DEF StoredAs
<1> QED BY <1>12 DEF w, at, v

(* The hand the client sees in a PlayerState.                              *)
ShownHand(ps) ==
  [i \in 1..ps.hand_size |->
     [value |-> SlotOf(ps, i).value, card_type |-> CardType[SlotOf(ps, i).card_type + 1],
      suit |-> SlotOf(ps, i).suit]]

(* decodePlayerState gives back every field, and the slots in use.         *)
LEMMA PlayerIsDecoded ==
  ASSUME NEW ps, ps.hand_size \in 0..10, ps.inactive_reason \in 0..2,
         \A i \in 1..ps.hand_size : SlotOf(ps, i).card_type \in 0..2
  PROVE  decodePlayerState(PlayerStateBytes(ps)) =
           [hand |-> ShownHand(ps),
            is_active |-> ps.is_active, inactive_reason |-> ps.inactive_reason,
            bust_card_value |-> ps.bust_card_value, score |-> ps.score,
            staked_amount |-> ps.staked_amount,
            has_used_second_chance |-> ps.has_used_second_chance,
            has_used_scry |-> ps.has_used_scry, total_wins |-> ps.total_wins,
            total_games |-> ps.total_games]
<1> DEFINE r == ByteReader(PlayerStateBytes(ps), PlayerWidths)
           v == PlayerValues(ps)
           n == ps.hand_size
           read == [hand |-> [i \in 1..n |->
                      [value |-> r[3 * i + 3], card_type |-> CardType[r[3 * i + 4] + 1],
                       suit |-> r[3 * i + 5]]],
                    is_active |-> r[36], inactive_reason |-> r[37], bust_card_value |-> r[38],
                    score |-> r[39], staked_amount |-> r[40], has_used_second_chance |-> r[41],
                    has_used_scry |-> r[42], total_wins |-> r[43], total_games |-> r[44]]
<1>1. \A i \in 1..44 : r[i] = v[i]
  <2>1. Len(PlayerWidths) = 44
    BY PlayerWidthsAre
  <2> HIDE DEF v
  <2>2. \A i \in 1..Len(PlayerWidths) : r[i] = v[i]
    BY PlayerIsStored, ValuesAreRead DEF v
  <2> QED BY <2>1, <2>2
<1>2. r[5] = n => decodePlayerState(PlayerStateBytes(ps)) =
        IF \/ r[1] # 2 \/ ~checkEnum(r[37], 2)
           \/ \E i \in 1..n : ~checkEnum(r[3 * i + 4], 2)
        THEN Thrown ELSE read
  BY DEF decodePlayerState, PlayerWidths
<1> HIDE DEF r
<1>3. r[1] = 2 /\ r[5] = n
  BY <1>1 DEF PlayerValues
<1>4. /\ r[36] = ps.is_active /\ r[37] = ps.inactive_reason /\ r[38] = ps.bust_card_value
      /\ r[39] = ps.score /\ r[40] = ps.staked_amount /\ r[41] = ps.has_used_second_chance
      /\ r[42] = ps.has_used_scry /\ r[43] = ps.total_wins /\ r[44] = ps.total_games
  BY <1>1 DEF PlayerValues
<1>5. ASSUME NEW i \in 1..n
      PROVE  /\ r[3 * i + 3] = SlotOf(ps, i).value /\ r[3 * i + 4] = SlotOf(ps, i).card_type
             /\ r[3 * i + 5] = SlotOf(ps, i).suit
  <2> DEFINE k == 3 * i + 3
             c == SlotOf(ps, i)
  <2>1. /\ k \in 6..33 /\ k \div 3 - 1 = i /\ k % 3 = 0
        /\ (k + 1) \div 3 - 1 = i /\ (k + 1) % 3 = 1
        /\ (k + 2) \div 3 - 1 = i /\ (k + 2) % 3 = 2
        /\ k + 1 \in 6..35 /\ k + 2 \in 6..35
    OBVIOUS
  <2>2. k + 1 = 3 * i + 4 /\ k + 2 = 3 * i + 5
    OBVIOUS
  <2> HIDE DEF k
  <2>3. v[k] = c.value /\ v[k + 1] = c.card_type /\ v[k + 2] = c.suit
    BY <2>1 DEF PlayerValues
  <2> HIDE DEF v, c
  <2>4. r[k] = c.value /\ r[k + 1] = c.card_type /\ r[k + 2] = c.suit
    <3>1. k \in 1..44 /\ k + 1 \in 1..44 /\ k + 2 \in 1..44
      BY <2>1
    <3> QED BY <1>1, <2>3, <3>1
  <2> QED BY <2>2, <2>4 DEF k, c
<1>6. ~(\/ r[1] # 2 \/ ~checkEnum(r[37], 2) \/ \E i \in 1..n : ~checkEnum(r[3 * i + 4], 2))
  BY <1>3, <1>4, <1>5 DEF checkEnum
<1>7. read.hand = ShownHand(ps)
  BY <1>5 DEF ShownHand
<1> QED BY <1>2, <1>3, <1>4, <1>6, <1>7

(* What GameSession's fields are, in the order they are read.              *)
SessionWidths ==
  <<1, 1, 8, 32, 32, 32, 32, 32, 32, 1>> \o Times(MAX_PLAYERS, <<32>>)
    \o <<1, 1, 8, 8, 32, 1, 1, 2, 1, 8, 1>>
SessionAt ==
  <<0, 1, 2, 10, 42, 74, 106, 138, 170, 202, 203, 235, 267, 299, 331, 332, 333, 341,
    349, 381, 382, 383, 385, 386, 394, 395>>
SessionValues(gs) ==
  <<1, gs.bump, gs.game_id, gs.authority, gs.house, gs.dealer, gs.treasury,
    gs.token_mint, gs.vault, gs.player_count, gs.turn_order[1], gs.turn_order[2],
    gs.turn_order[3], gs.turn_order[4], gs.current_turn_index, gs.round_active,
    gs.round_number, gs.pot_amount, gs.merkle_root, gs.deck_committed, gs.draw_counter,
    gs.treasury_fee_bps, gs.rollover_count, gs.last_action_slot, gs.vault_bump>>

(* Their widths.                                                           *)
LEMMA SessionWidthsAre ==
  /\ SessionWidths \in Seq(Nat \ {0}) /\ Len(SessionWidths) = 25
  /\ SessionWidths[1] = 1 /\ SessionWidths[2] = 1 /\ SessionWidths[3] = 8
  /\ SessionWidths[4] = 32 /\ SessionWidths[5] = 32 /\ SessionWidths[6] = 32
  /\ SessionWidths[7] = 32 /\ SessionWidths[8] = 32 /\ SessionWidths[9] = 32
  /\ SessionWidths[10] = 1 /\ SessionWidths[11] = 32 /\ SessionWidths[12] = 32
  /\ SessionWidths[13] = 32 /\ SessionWidths[14] = 32 /\ SessionWidths[15] = 1
  /\ SessionWidths[16] = 1 /\ SessionWidths[17] = 8 /\ SessionWidths[18] = 8
  /\ SessionWidths[19] = 32 /\ SessionWidths[20] = 1 /\ SessionWidths[21] = 1
  /\ SessionWidths[22] = 2 /\ SessionWidths[23] = 1 /\ SessionWidths[24] = 8
  /\ SessionWidths[25] = 1
<1> DEFINE P == Nat \ {0}
           head == <<1, 1, 8, 32, 32, 32, 32, 32, 32, 1>>
           order == Times(MAX_PLAYERS, <<32>>)
           tail == <<1, 1, 8, 8, 32, 1, 1, 2, 1, 8, 1>>
<1>1. /\ head \in Seq(P) /\ Len(head) = 10
      /\ head[1] = 1 /\ head[2] = 1 /\ head[3] = 8 /\ head[4] = 32 /\ head[5] = 32
      /\ head[6] = 32 /\ head[7] = 32 /\ head[8] = 32 /\ head[9] = 32 /\ head[10] = 1
  OBVIOUS
<1>2. /\ tail \in Seq(P) /\ Len(tail) = 11
      /\ tail[1] = 1 /\ tail[2] = 1 /\ tail[3] = 8 /\ tail[4] = 8 /\ tail[5] = 32
      /\ tail[6] = 1 /\ tail[7] = 1 /\ tail[8] = 2 /\ tail[9] = 1 /\ tail[10] = 8
      /\ tail[11] = 1
  OBVIOUS
<1>3. order \in Seq(P) /\ Len(order) = 4 /\ \A q \in 1..4 : order[q] = 32
  <2> DEFINE list == <<32>>
  <2>1. list \in Seq(P) /\ Len(list) = 1 /\ \A j \in 1..1 : list[j] = 32
    OBVIOUS
  <2>2. MAX_PLAYERS = 4
    BY LayoutAssumption
  <2> HIDE DEF list, P
  <2>3. Times(4, list) \in Seq(P) /\ Repeats(Times(4, list), 4, list, Len(list))
    BY <2>1, TimesRule
  <2> DEFINE t == Times(4, list)
  <2> HIDE DEF t
  <2>4. t \in Seq(P) /\ Repeats(t, 4, list, 1)
    BY <2>1, <2>3 DEF t
  <2>5. Len(t) = 4 /\ \A q \in 1..4 : \E j \in 1..1 : t[q] = list[j]
    BY <2>4 DEF Repeats
  <2>6. t \in Seq(P) /\ Len(t) = 4 /\ \A q \in 1..4 : t[q] = 32
    BY <2>1, <2>4, <2>5
  <2> QED BY <2>2, <2>6 DEF t, list
<1> HIDE DEF head, order, tail, P
<1> DEFINE front == head \o order
<1>4. front \in Seq(P) /\ Joins(front, head, 10, order, 4)
  BY <1>1, <1>3, Places
<1> HIDE DEF front
<1> DEFINE whole == front \o tail
<1>5. whole \in Seq(P) /\ Joins(whole, front, 14, tail, 11)
  <2>1. Len(front) = 14
    BY <1>4 DEF Joins
  <2> QED BY <1>2, <1>4, <2>1, Places
<1>6. SessionWidths = whole
  BY DEF SessionWidths, whole, front, head, order, tail
<1> HIDE DEF whole
<1>7. /\ \A i \in 1..14 : whole[i] = front[i]
      /\ \A i \in 15..25 : whole[i] = tail[i - 14]
      /\ \A i \in 1..10 : front[i] = head[i]
      /\ \A i \in 11..14 : front[i] = order[i - 10]
  <2>1. 10 + 1 = 11 /\ 10 + 4 = 14 /\ 14 + 1 = 15 /\ 14 + 11 = 25
    OBVIOUS
  <2> QED BY <1>4, <1>5, <2>1 DEF Joins
<1>8. \A i \in 1..10 : whole[i] = head[i]
  BY <1>7
<1>9. \A i \in 11..14 : whole[i] = 32
  <2> TAKE i \in 11..14
  <2>1. i \in 1..14 /\ i - 10 \in 1..4
    OBVIOUS
  <2>2. whole[i] = front[i] /\ front[i] = order[i - 10]
    BY <1>7, <2>1
  <2> QED BY <1>3, <2>1, <2>2
<1>10. /\ whole[15] = tail[1] /\ whole[16] = tail[2] /\ whole[17] = tail[3]
       /\ whole[18] = tail[4] /\ whole[19] = tail[5] /\ whole[20] = tail[6]
       /\ whole[21] = tail[7] /\ whole[22] = tail[8] /\ whole[23] = tail[9]
       /\ whole[24] = tail[10] /\ whole[25] = tail[11]
  BY <1>7
<1>11. Len(whole) = 25
  BY <1>5 DEF Joins
<1>12. whole \in Seq(Nat \ {0})
  BY <1>5 DEF P
<1> QED BY <1>1, <1>2, <1>6, <1>8, <1>9, <1>10, <1>11, <1>12

(* GameSession is stored the way the client reads it.                      *)
LEMMA SessionIsStored ==
  ASSUME NEW gs
  PROVE  StoredAs(GameSessionBytes(gs), SessionWidths, SessionAt, SessionValues(gs))
<1> DEFINE w == SessionWidths
           at == SessionAt
           v == SessionValues(gs)
           entry(i) == <<at[i], w[i], v[i]>>
           bytes == GameSessionBytes(gs)
           seat(i) == <<203 + (i - 1) * 32, 32, gs.turn_order[i]>>
           seats == UNION {{seat(i)} : i \in 1..MAX_PLAYERS}
           fixed ==
             {<<0, 1, 1>>, <<1, 1, gs.bump>>, <<2, 8, gs.game_id>>,
              <<10, 32, gs.authority>>, <<42, 32, gs.house>>, <<74, 32, gs.dealer>>,
              <<106, 32, gs.treasury>>, <<138, 32, gs.token_mint>>,
              <<170, 32, gs.vault>>, <<202, 1, gs.player_count>>,
              <<331, 1, gs.current_turn_index>>, <<332, 1, gs.round_active>>,
              <<333, 8, gs.round_number>>, <<341, 8, gs.pot_amount>>,
              <<349, 32, gs.merkle_root>>, <<381, 1, gs.deck_committed>>,
              <<382, 1, gs.draw_counter>>, <<383, 2, gs.treasury_fee_bps>>,
              <<385, 1, gs.rollover_count>>, <<386, 8, gs.last_action_slot>>,
              <<394, 1, gs.vault_bump>>}
<1>1. w \in Seq(Nat \ {0}) /\ Len(w) = 25
  BY SessionWidthsAre
<1>2. /\ w[1] = 1 /\ w[2] = 1 /\ w[3] = 8 /\ w[4] = 32 /\ w[5] = 32 /\ w[6] = 32 /\ w[7] = 32 /\ w[8] = 32
      /\ w[9] = 32 /\ w[10] = 1 /\ w[11] = 32 /\ w[12] = 32 /\ w[13] = 32 /\ w[14] = 32 /\ w[15] = 1 /\ w[16] = 1
      /\ w[17] = 8 /\ w[18] = 8 /\ w[19] = 32 /\ w[20] = 1 /\ w[21] = 1 /\ w[22] = 2 /\ w[23] = 1 /\ w[24] = 8 /\ w[25] = 1
  BY SessionWidthsAre
<1>3. /\ at[1] = 0 /\ at[2] = 1 /\ at[3] = 2 /\ at[4] = 10 /\ at[5] = 42 /\ at[6] = 74 /\ at[7] = 106
      /\ at[8] = 138 /\ at[9] = 170 /\ at[10] = 202 /\ at[11] = 203 /\ at[12] = 235 /\ at[13] = 267 /\ at[14] = 299
      /\ at[15] = 331 /\ at[16] = 332 /\ at[17] = 333 /\ at[18] = 341 /\ at[19] = 349 /\ at[20] = 381
      /\ at[21] = 382 /\ at[22] = 383 /\ at[23] = 385 /\ at[24] = 386 /\ at[25] = 394 /\ at[26] = 395
  BY DEF SessionAt
<1>4. /\ v[1] = 1 /\ v[2] = gs.bump /\ v[3] = gs.game_id
      /\ v[4] = gs.authority /\ v[5] = gs.house /\ v[6] = gs.dealer
      /\ v[7] = gs.treasury /\ v[8] = gs.token_mint /\ v[9] = gs.vault
      /\ v[10] = gs.player_count /\ v[11] = gs.turn_order[1]
      /\ v[12] = gs.turn_order[2] /\ v[13] = gs.turn_order[3]
      /\ v[14] = gs.turn_order[4] /\ v[15] = gs.current_turn_index
      /\ v[16] = gs.round_active /\ v[17] = gs.round_number
      /\ v[18] = gs.pot_amount /\ v[19] = gs.merkle_root
      /\ v[20] = gs.deck_committed /\ v[21] = gs.draw_counter
      /\ v[22] = gs.treasury_fee_bps /\ v[23] = gs.rollover_count
      /\ v[24] = gs.last_action_slot /\ v[25] = gs.vault_bump
  BY DEF SessionValues
<1> HIDE DEF w, at, v
<1>5. /\ entry(1) = <<0, 1, 1>>
      /\ entry(2) = <<1, 1, gs.bump>>
      /\ entry(3) = <<2, 8, gs.game_id>>
      /\ entry(4) = <<10, 32, gs.authority>>
      /\ entry(5) = <<42, 32, gs.house>>
      /\ entry(6) = <<74, 32, gs.dealer>>
      /\ entry(7) = <<106, 32, gs.treasury>>
      /\ entry(8) = <<138, 32, gs.token_mint>>
      /\ entry(9) = <<170, 32, gs.vault>>
      /\ entry(10) = <<202, 1, gs.player_count>>
  BY <1>2, <1>3, <1>4
<1>6. /\ entry(11) = <<203, 32, gs.turn_order[1]>>
      /\ entry(12) = <<235, 32, gs.turn_order[2]>>
      /\ entry(13) = <<267, 32, gs.turn_order[3]>>
      /\ entry(14) = <<299, 32, gs.turn_order[4]>>
  BY <1>2, <1>3, <1>4
<1>7. /\ entry(15) = <<331, 1, gs.current_turn_index>>
      /\ entry(16) = <<332, 1, gs.round_active>>
      /\ entry(17) = <<333, 8, gs.round_number>>
      /\ entry(18) = <<341, 8, gs.pot_amount>>
      /\ entry(19) = <<349, 32, gs.merkle_root>>
      /\ entry(20) = <<381, 1, gs.deck_committed>>
      /\ entry(21) = <<382, 1, gs.draw_counter>>
      /\ entry(22) = <<383, 2, gs.treasury_fee_bps>>
      /\ entry(23) = <<385, 1, gs.rollover_count>>
      /\ entry(24) = <<386, 8, gs.last_action_slot>>
      /\ entry(25) = <<394, 1, gs.vault_bump>>
  BY <1>2, <1>3, <1>4
<1> HIDE DEF entry
<1>8. \A i \in 1..25 : \/ i = 1 \/ i = 2 \/ i = 3 \/ i = 4 \/ i = 5 \/ i = 6 \/ i = 7 \/ i = 8 \/ i = 9
        \/ i = 10 \/ i = 11 \/ i = 12 \/ i = 13 \/ i = 14 \/ i = 15 \/ i = 16 \/ i = 17
        \/ i = 18 \/ i = 19 \/ i = 20 \/ i = 21 \/ i = 22 \/ i = 23 \/ i = 24 \/ i = 25
  OBVIOUS
<1>9. seats = {entry(11), entry(12), entry(13), entry(14)}
  <2>1. 1..MAX_PLAYERS = {1, 2, 3, 4}
    BY LayoutAssumption
  <2>2. seat(1) = entry(11) /\ seat(2) = entry(12) /\ seat(3) = entry(13) /\ seat(4) = entry(14)
    BY <1>6
  <2> HIDE DEF seat
  <2> QED BY <2>1, <2>2
<1>10. bytes = fixed \cup seats
  BY DEF GameSessionBytes, Slots
<1>11. fixed = {entry(1), entry(2), entry(3), entry(4), entry(5), entry(6),
                 entry(7), entry(8), entry(9), entry(10), entry(15), entry(16),
                 entry(17), entry(18), entry(19), entry(20), entry(21),
                 entry(22), entry(23), entry(24), entry(25)}
  BY <1>5, <1>7
<1> HIDE DEF fixed, seats, bytes
<1>12. \A i \in 1..25 : entry(i) \in bytes
  BY <1>8, <1>9, <1>10, <1>11
<1>13. \A f \in bytes : \E i \in 1..25 : f = entry(i)
  BY <1>9, <1>10, <1>11
<1>14. \A i \in 1..25 : at[i + 1] = at[i] + w[i]
  BY <1>2, <1>3, <1>8
<1> QED BY <1>1, <1>3, <1>12, <1>13, <1>14 DEF StoredAs, w, at, v, entry, bytes

(* A session with any values in its fields and a seat for each player.     *)
SessionsOf(V) ==
  [bump : V, game_id : V, authority : V, house : V, dealer : V, treasury : V, token_mint : V,
   vault : V, player_count : V, turn_order : [1..MAX_PLAYERS -> V], current_turn_index : V,
   round_active : V, round_number : V, pot_amount : V, merkle_root : V, deck_committed : V,
   draw_counter : V, treasury_fee_bps : V, rollover_count : V, last_action_slot : V,
   vault_bump : V]

(* decodeGameSession gives back the session.                               *)
LEMMA SessionIsDecoded ==
  ASSUME NEW V, NEW gs \in SessionsOf(V)
  PROVE  decodeGameSession(GameSessionBytes(gs)) = gs
<1> DEFINE r == ByteReader(GameSessionBytes(gs), SessionWidths)
           v == SessionValues(gs)
           n == 10 + MAX_PLAYERS
           read == [bump |-> r[2], game_id |-> r[3], authority |-> r[4], house |-> r[5],
                    dealer |-> r[6], treasury |-> r[7], token_mint |-> r[8], vault |-> r[9],
                    player_count |-> r[10], turn_order |-> SubSeq(r, 11, n),
                    current_turn_index |-> r[n + 1], round_active |-> r[n + 2],
                    round_number |-> r[n + 3], pot_amount |-> r[n + 4],
                    merkle_root |-> r[n + 5], deck_committed |-> r[n + 6],
                    draw_counter |-> r[n + 7], treasury_fee_bps |-> r[n + 8],
                    rollover_count |-> r[n + 9], last_action_slot |-> r[n + 10],
                    vault_bump |-> r[n + 11]]
<1>1. r = [i \in 1..25 |-> r[i]] /\ \A i \in 1..25 : r[i] = v[i]
  <2>1. Len(SessionWidths) = 25
    BY SessionWidthsAre
  <2> HIDE DEF v
  <2>2. /\ r = [i \in 1..Len(SessionWidths) |-> r[i]]
        /\ \A i \in 1..Len(SessionWidths) : r[i] = v[i]
    BY SessionIsStored, ValuesAreRead DEF v
  <2> HIDE DEF r
  <2> QED BY <2>1, <2>2
<1>2. decodeGameSession(GameSessionBytes(gs)) = IF r[1] # 1 THEN Thrown ELSE read
  BY DEF decodeGameSession, SessionWidths
<1> HIDE DEF r
<1>3. n = 14
  BY LayoutAssumption
<1>4. SubSeq(r, 11, n) = gs.turn_order
  <2>1. gs.turn_order \in [1..4 -> V]
    BY LayoutAssumption DEF SessionsOf
  <2>2. r[11] = gs.turn_order[1] /\ r[12] = gs.turn_order[2]
        /\ r[13] = gs.turn_order[3] /\ r[14] = gs.turn_order[4]
    BY <1>1 DEF SessionValues
  <2> DEFINE Values == {r[i] : i \in 1..25}
             t == SubSeq(r, 11, 14)
  <2>3. r \in Seq(Values) /\ Len(r) = 25
    BY <1>1
  <2> HIDE DEF Values
  <2>4. /\ DOMAIN t = 1..4 /\ t = [i \in 1..4 |-> t[i]]
        /\ t[1] = r[11] /\ t[2] = r[12] /\ t[3] = r[13] /\ t[4] = r[14]
    BY <2>3
  <2> HIDE DEF t
  <2>5. \A i \in 1..4 : i = 1 \/ i = 2 \/ i = 3 \/ i = 4
    OBVIOUS
  <2>6. \A i \in 1..4 : t[i] = gs.turn_order[i]
    BY <2>2, <2>4, <2>5
  <2>7. t = gs.turn_order
    BY <2>1, <2>4, <2>6
  <2> QED BY <1>3, <2>7 DEF t
<1>5. /\ r[1] = 1 /\ r[2] = gs.bump /\ r[3] = gs.game_id /\ r[4] = gs.authority
      /\ r[5] = gs.house /\ r[6] = gs.dealer /\ r[7] = gs.treasury /\ r[8] = gs.token_mint
      /\ r[9] = gs.vault /\ r[10] = gs.player_count
  BY <1>1 DEF SessionValues
<1>6. /\ r[15] = gs.current_turn_index /\ r[16] = gs.round_active /\ r[17] = gs.round_number
      /\ r[18] = gs.pot_amount /\ r[19] = gs.merkle_root /\ r[20] = gs.deck_committed
      /\ r[21] = gs.draw_counter /\ r[22] = gs.treasury_fee_bps /\ r[23] = gs.rollover_count
      /\ r[24] = gs.last_action_slot /\ r[25] = gs.vault_bump
  BY <1>1 DEF SessionValues
<1> HIDE DEF n
<1>7. /\ n + 1 = 15 /\ n + 2 = 16 /\ n + 3 = 17 /\ n + 4 = 18 /\ n + 5 = 19 /\ n + 6 = 20
      /\ n + 7 = 21 /\ n + 8 = 22 /\ n + 9 = 23 /\ n + 10 = 24 /\ n + 11 = 25
  BY <1>3
<1>8. read = gs
  BY <1>4, <1>5, <1>6, <1>7 DEF SessionsOf
<1> QED BY <1>2, <1>5, <1>8

(* What BountyBoard's fields are, in the order they are read.              *)
BoardWidths == <<1, 1, 32, 1>> \o Times(MAX_BOUNTIES, <<1, 8, 1, 32>>)
BoardAt ==
  [q \in Nat |-> IF q <= 3 THEN q - 1 ELSE IF q = 4 THEN 34
                 ELSE LET i == (q - 1) \div 4
                          offset == IF q = 4 * i + 1 THEN 0 ELSE IF q = 4 * i + 2 THEN 1
                                    ELSE IF q = 4 * i + 3 THEN 9 ELSE 10
                      IN  35 + (i - 1) * 42 + offset]
BoardValues(b) ==
  [q \in 1..(4 + 4 * MAX_BOUNTIES) |->
     IF q <= 4 THEN <<3, b.bump, b.game_session, b.bounty_count>>[q]
     ELSE LET e == b.bounties[(q - 1) \div 4] IN
          IF q % 4 = 1 THEN e.bounty_type ELSE IF q % 4 = 2 THEN e.reward_amount
          ELSE IF q % 4 = 3 THEN e.is_active ELSE e.claimed_by]

(* The i-th bounty has the four places after the header and the i - 1      *)
(* bounties before it.                                                     *)
LEMMA BoardPlaces ==
  /\ MAX_BOUNTIES \in Nat
  /\ \A q \in 1..(4 + 4 * MAX_BOUNTIES) :
       \/ q = 1 \/ q = 2 \/ q = 3 \/ q = 4
       \/ \E i \in 1..MAX_BOUNTIES :
            q = 4 * i + 1 \/ q = 4 * i + 2 \/ q = 4 * i + 3 \/ q = 4 * i + 4
  /\ \A i \in 1..MAX_BOUNTIES :
       /\ 4 * i + 1 \in 5..(4 + 4 * MAX_BOUNTIES) /\ 4 * i + 2 \in 5..(4 + 4 * MAX_BOUNTIES)
       /\ 4 * i + 3 \in 5..(4 + 4 * MAX_BOUNTIES) /\ 4 * i + 4 \in 5..(4 + 4 * MAX_BOUNTIES)
<1>1. MAX_BOUNTIES \in Nat
  BY LayoutAssumption
<1>2. ASSUME NEW q \in 1..(4 + 4 * MAX_BOUNTIES)
      PROVE  \/ q = 1 \/ q = 2 \/ q = 3 \/ q = 4
             \/ \E i \in 1..MAX_BOUNTIES :
                  q = 4 * i + 1 \/ q = 4 * i + 2 \/ q = 4 * i + 3 \/ q = 4 * i + 4
  <2>1. CASE q <= 4
    BY <2>1
  <2>2. CASE q > 4
    <3> DEFINE i == (q - 1) \div 4
    <3>1. /\ i \in 1..MAX_BOUNTIES
          /\ q = 4 * i + 1 \/ q = 4 * i + 2 \/ q = 4 * i + 3 \/ q = 4 * i + 4
      BY <1>1, <2>2
    <3> HIDE DEF i
    <3> QED BY <3>1
  <2> QED BY <2>1, <2>2
<1> QED BY <1>1, <1>2

(* The widths of a board: the header's four, then four for each bounty.    *)
LEMMA BoardWidthsAre ==
  /\ BoardWidths \in Seq(Nat \ {0}) /\ Len(BoardWidths) = 4 + 4 * MAX_BOUNTIES
  /\ BoardWidths[1] = 1 /\ BoardWidths[2] = 1 /\ BoardWidths[3] = 32 /\ BoardWidths[4] = 1
  /\ \A i \in 1..MAX_BOUNTIES :
       /\ BoardWidths[4 * i + 1] = 1 /\ BoardWidths[4 * i + 2] = 8
       /\ BoardWidths[4 * i + 3] = 1 /\ BoardWidths[4 * i + 4] = 32
<1> DEFINE P == Nat \ {0}
           N == MAX_BOUNTIES
           head == <<1, 1, 32, 1>>
           list == <<1, 8, 1, 32>>
           rows == Times(N, list)
           whole == head \o rows
<1>1. /\ head \in Seq(P) /\ Len(head) = 4
      /\ head[1] = 1 /\ head[2] = 1 /\ head[3] = 32 /\ head[4] = 1
  OBVIOUS
<1>2. /\ list \in Seq(P) /\ Len(list) = 4
      /\ list[1] = 1 /\ list[2] = 8 /\ list[3] = 1 /\ list[4] = 32
  OBVIOUS
<1>3. N \in Nat
  BY LayoutAssumption
<1>4. BoardWidths = whole
  BY DEF BoardWidths
<1> HIDE DEF P, N, head, list
<1>5. rows \in Seq(P) /\ Repeats(rows, N, list, 4)
  BY <1>2, <1>3, TimesRule
<1> HIDE DEF rows
<1>6. /\ Len(rows) = N * 4
      /\ \A q \in 1..(N * 4) : \E i \in 1..N, j \in 1..4 : q = (i - 1) * 4 + j /\ rows[q] = list[j]
  BY <1>5 DEF Repeats
<1>7. whole \in Seq(P) /\ Joins(whole, head, 4, rows, N * 4)
  BY <1>1, <1>5, <1>6, Places
<1> HIDE DEF whole
<1>8. /\ Len(whole) = 4 + N * 4 /\ \A i \in 1..4 : whole[i] = head[i]
      /\ \A i \in (4 + 1)..(4 + N * 4) : whole[i] = rows[i - 4]
  BY <1>7 DEF Joins
<1>9. ASSUME NEW i \in 1..N, NEW j \in 1..4 PROVE whole[4 * i + j] = list[j]
  <2> DEFINE q == 4 * i + j - 4
  <2>1. q \in 1..(N * 4) /\ q = (i - 1) * 4 + j /\ q + 4 = 4 * i + j
        /\ q + 4 \in (4 + 1)..(4 + N * 4) /\ (q + 4) - 4 = q
    BY <1>3
  <2> HIDE DEF q
  <2>2. PICK k \in 1..N, l \in 1..4 : q = (k - 1) * 4 + l /\ rows[q] = list[l]
    BY <1>6, <2>1
  <2>3. l = j
    BY <1>3, <2>1, <2>2
  <2>4. whole[q + 4] = rows[q]
    BY <1>8, <2>1
  <2> QED BY <2>1, <2>2, <2>3, <2>4
<1>10. ASSUME NEW i \in 1..N
       PROVE  /\ whole[4 * i + 1] = 1 /\ whole[4 * i + 2] = 8
              /\ whole[4 * i + 3] = 1 /\ whole[4 * i + 4] = 32
  <2>1. 1 \in 1..4 /\ 2 \in 1..4 /\ 3 \in 1..4 /\ 4 \in 1..4
    OBVIOUS
  <2> QED BY <1>2, <1>9, <2>1
<1>11. Len(whole) = 4 + 4 * N
  BY <1>3, <1>8
<1>12. whole[1] = 1 /\ whole[2] = 1 /\ whole[3] = 32 /\ whole[4] = 1
  BY <1>1, <1>8
<1> QED BY <1>4, <1>7, <1>10, <1>11, <1>12 DEF N, P

(* BountyBoard is stored the way the client reads it.                      *)
BountyFields(b, i) ==
  {<<35 + (i - 1) * 42, 1, b.bounties[i].bounty_type>>,
   <<35 + (i - 1) * 42 + 1, 8, b.bounties[i].reward_amount>>,
   <<35 + (i - 1) * 42 + 9, 1, b.bounties[i].is_active>>,
   <<35 + (i - 1) * 42 + 10, 32, b.bounties[i].claimed_by>>}

(* The four values of the i-th bounty, where the board lists them.         *)
LEMMA BountyValues ==
  ASSUME NEW b, NEW i \in 1..MAX_BOUNTIES
  PROVE  LET v == BoardValues(b) IN
         /\ v[4 * i + 1] = b.bounties[i].bounty_type
         /\ v[4 * i + 2] = b.bounties[i].reward_amount
         /\ v[4 * i + 3] = b.bounties[i].is_active
         /\ v[4 * i + 4] = b.bounties[i].claimed_by
<1> DEFINE v == BoardValues(b)
           k == 4 * i
           n == 4 + 4 * MAX_BOUNTIES
           e == b.bounties[i]
<1>1. /\ k + 1 \in 5..n /\ k + 2 \in 5..n /\ k + 3 \in 5..n /\ k + 4 \in 5..n
  BY BoardPlaces
<1>2. /\ ((k + 1) - 1) \div 4 = i /\ ((k + 2) - 1) \div 4 = i
      /\ ((k + 3) - 1) \div 4 = i /\ ((k + 4) - 1) \div 4 = i
      /\ (k + 1) % 4 = 1 /\ (k + 2) % 4 = 2 /\ (k + 3) % 4 = 3 /\ (k + 4) % 4 = 0
  OBVIOUS
<1>3. n \in Nat
  BY BoardPlaces
<1>4. \A q \in 5..n :
        v[q] = LET d == b.bounties[(q - 1) \div 4] IN
               IF q % 4 = 1 THEN d.bounty_type ELSE IF q % 4 = 2 THEN d.reward_amount
               ELSE IF q % 4 = 3 THEN d.is_active ELSE d.claimed_by
  <2> TAKE q \in 5..n
  <2>1. q \in 1..n /\ ~(q <= 4)
    BY <1>3
  <2> QED BY <2>1 DEF BoardValues
<1> HIDE DEF v, k, n
<1>5. /\ v[k + 1] = e.bounty_type /\ v[k + 2] = e.reward_amount
      /\ v[k + 3] = e.is_active /\ v[k + 4] = e.claimed_by
  BY <1>1, <1>2, <1>4
<1> QED BY <1>5 DEF v, k

(* A stored board holds its values one after the other.                    *)
LEMMA BoardIsStored ==
  ASSUME NEW b
  PROVE  StoredAs(BountyBoardBytes(b), BoardWidths, BoardAt, BoardValues(b))
<1> DEFINE w == BoardWidths
           at == BoardAt
           v == BoardValues(b)
           N == MAX_BOUNTIES
           entry(q) == <<at[q], w[q], v[q]>>
           bytes == BountyBoardBytes(b)
           rows == UNION {BountyFields(b, i) : i \in 1..N}
           fixed == {<<0, 1, 3>>, <<1, 1, b.bump>>, <<2, 32, b.game_session>>,
                     <<34, 1, b.bounty_count>>}
<1>1. bytes = fixed \cup rows
  BY DEF BountyBoardBytes, Slots, BountyFields
<1>2. w \in Seq(Nat \ {0}) /\ Len(w) = 4 + 4 * N
  BY BoardWidthsAre
<1>3. /\ w[1] = 1 /\ w[2] = 1 /\ w[3] = 32 /\ w[4] = 1
      /\ \A i \in 1..N : w[4 * i + 1] = 1 /\ w[4 * i + 2] = 8
                         /\ w[4 * i + 3] = 1 /\ w[4 * i + 4] = 32
  BY BoardWidthsAre
<1>4. N \in Nat
  BY BoardPlaces
<1>5. /\ at[1] = 0 /\ at[2] = 1 /\ at[3] = 2 /\ at[4] = 34 /\ at[5] = 35
      /\ \A i \in 1..N :
           /\ at[4 * i + 1] = 35 + (i - 1) * 42 /\ at[4 * i + 2] = 35 + (i - 1) * 42 + 1
           /\ at[4 * i + 3] = 35 + (i - 1) * 42 + 9 /\ at[4 * i + 4] = 35 + (i - 1) * 42 + 10
           /\ at[4 * i + 5] = 35 + (i - 1) * 42 + 42
  <2>2. at[1] = 0 /\ at[2] = 1 /\ at[3] = 2 /\ at[4] = 34
    BY DEF BoardAt
  <2> HIDE DEF at
  <2>3. at[5] = 35
    BY DEF at, BoardAt
  <2>4. ASSUME NEW i \in 1..N
        PROVE  /\ at[4 * i + 1] = 35 + (i - 1) * 42 /\ at[4 * i + 2] = 35 + (i - 1) * 42 + 1
               /\ at[4 * i + 3] = 35 + (i - 1) * 42 + 9
               /\ at[4 * i + 4] = 35 + (i - 1) * 42 + 10
               /\ at[4 * i + 5] = 35 + (i - 1) * 42 + 42
    <3>1. /\ i \in Nat /\ i > 0
          /\ \A j \in 0..3 : (4 * i + j) \div 4 = i
      BY <1>4
    <3>2. ASSUME NEW k \in Nat, k = 4 * i
          PROVE  /\ at[k + 1] = 35 + (i - 1) * 42 /\ at[k + 2] = 35 + (i - 1) * 42 + 1
                 /\ at[k + 3] = 35 + (i - 1) * 42 + 9 /\ at[k + 4] = 35 + (i - 1) * 42 + 10
                 /\ at[k + 5] = 35 + (i - 1) * 42 + 42
      <4>1. at[k + 1] = 35 + (i - 1) * 42
        BY <3>1, <3>2 DEF at, BoardAt
      <4>2. at[k + 2] = 35 + (i - 1) * 42 + 1
        <5>1. (k + 2) - 1 = 4 * i + 1 /\ ((k + 2) - 1) \div 4 = i
          BY <3>1, <3>2
        <5>2. /\ k + 2 \in Nat /\ ~(k + 2 <= 3) /\ k + 2 # 4
              /\ k + 2 # 4 * i + 1 /\ k + 2 = 4 * i + 2
          BY <3>1, <3>2
        <5> QED BY <5>1, <5>2 DEF at, BoardAt
      <4>3. at[k + 3] = 35 + (i - 1) * 42 + 9
        <5>1. (k + 3) - 1 = 4 * i + 2 /\ ((k + 3) - 1) \div 4 = i
          BY <3>1, <3>2
        <5>2. /\ k + 3 \in Nat /\ ~(k + 3 <= 3) /\ k + 3 # 4
              /\ k + 3 # 4 * i + 1 /\ k + 3 # 4 * i + 2 /\ k + 3 = 4 * i + 3
          BY <3>1, <3>2
        <5> QED BY <5>1, <5>2 DEF at, BoardAt
      <4>4. at[k + 4] = 35 + (i - 1) * 42 + 10
        <5>1. (k + 4) - 1 = 4 * i + 3 /\ ((k + 4) - 1) \div 4 = i
          BY <3>1, <3>2
        <5>2. /\ k + 4 \in Nat /\ ~(k + 4 <= 3) /\ k + 4 # 4
              /\ k + 4 # 4 * i + 1 /\ k + 4 # 4 * i + 2 /\ k + 4 # 4 * i + 3 /\ k + 4 = 4 * i + 4
          BY <3>1, <3>2
        <5> QED BY <5>1, <5>2 DEF at, BoardAt
      <4>5. at[k + 5] = 35 + (i - 1) * 42 + 42
        BY <3>1, <3>2 DEF at, BoardAt
      <4> QED BY <4>1, <4>2, <4>3, <4>4, <4>5
    <3>3. 4 * i \in Nat
      BY <3>1
    <3> QED BY <3>2, <3>3
  <2> QED BY <2>2, <2>3, <2>4
<1>6. \A i \in 1..N :
        /\ v[4 * i + 1] = b.bounties[i].bounty_type
        /\ v[4 * i + 2] = b.bounties[i].reward_amount
        /\ v[4 * i + 3] = b.bounties[i].is_active
        /\ v[4 * i + 4] = b.bounties[i].claimed_by
  BY BountyValues
<1>7. /\ v[1] = 3 /\ v[2] = b.bump /\ v[3] = b.game_session /\ v[4] = b.bounty_count
  <2>1. 1 \in 1..(4 + 4 * N) /\ 2 \in 1..(4 + 4 * N) /\ 3 \in 1..(4 + 4 * N)
        /\ 4 \in 1..(4 + 4 * N)
    BY <1>4
  <2> QED BY <2>1 DEF BoardValues
<1>8. /\ \A q \in 1..(4 + 4 * N) :
           \/ q = 1 \/ q = 2 \/ q = 3 \/ q = 4
           \/ \E i \in 1..N : q = 4 * i + 1 \/ q = 4 * i + 2 \/ q = 4 * i + 3 \/ q = 4 * i + 4
      /\ \A i \in 1..N : /\ 4 * i + 1 \in 1..(4 + 4 * N) /\ 4 * i + 2 \in 1..(4 + 4 * N)
                         /\ 4 * i + 3 \in 1..(4 + 4 * N) /\ 4 * i + 4 \in 1..(4 + 4 * N)
  BY <1>4, BoardPlaces
<1> HIDE DEF w, at, v, N
<1>9. fixed = {entry(1), entry(2), entry(3), entry(4)}
  BY <1>3, <1>5, <1>7
<1>10. ASSUME NEW i \in 1..N
       PROVE  BountyFields(b, i)
                = {entry(4 * i + 1), entry(4 * i + 2), entry(4 * i + 3), entry(4 * i + 4)}
  BY <1>3, <1>5, <1>6 DEF BountyFields
<1>11. ASSUME NEW q \in 1..(4 + 4 * N) PROVE at[q + 1] = at[q] + w[q]
  <2>1. CASE q = 1 \/ q = 2 \/ q = 3 \/ q = 4
    BY <1>3, <1>5, <2>1
  <2>2. ASSUME NEW i \in 1..N,
               q = 4 * i + 1 \/ q = 4 * i + 2 \/ q = 4 * i + 3 \/ q = 4 * i + 4
        PROVE  at[q + 1] = at[q] + w[q]
    <3>1. /\ (4 * i + 1) + 1 = 4 * i + 2 /\ (4 * i + 2) + 1 = 4 * i + 3
          /\ (4 * i + 3) + 1 = 4 * i + 4 /\ (4 * i + 4) + 1 = 4 * i + 5
      OBVIOUS
    <3> DEFINE s == 35 + (i - 1) * 42
    <3>2. s \in Int
      BY <1>4
    <3>3. /\ at[4 * i + 1] = s /\ at[4 * i + 2] = s + 1 /\ at[4 * i + 3] = s + 9
          /\ at[4 * i + 4] = s + 10 /\ at[4 * i + 5] = s + 42
      BY <1>5
    <3> HIDE DEF s
    <3> QED BY <1>3, <2>2, <3>1, <3>2, <3>3
  <2> QED BY <1>8, <2>1, <2>2
<1> HIDE DEF entry, fixed
<1>12. \A q \in 1..(4 + 4 * N) : entry(q) \in bytes
  <2> TAKE q \in 1..(4 + 4 * N)
  <2>1. CASE q = 1 \/ q = 2 \/ q = 3 \/ q = 4
    <3> HIDE DEF rows, bytes
    <3> QED BY <1>1, <1>9, <2>1
  <2>2. ASSUME NEW i \in 1..N,
               q = 4 * i + 1 \/ q = 4 * i + 2 \/ q = 4 * i + 3 \/ q = 4 * i + 4
        PROVE  entry(q) \in bytes
    <3>1. entry(q) \in BountyFields(b, i)
      BY <1>10, <2>2
    <3> HIDE DEF bytes
    <3> QED BY <1>1, <3>1
  <2> QED BY <1>8, <2>1, <2>2
<1>13. ASSUME NEW f \in bytes PROVE \E q \in 1..(4 + 4 * N) : f = entry(q)
  <2>1. CASE f \in fixed
    <3>1. 1 \in 1..(4 + 4 * N) /\ 2 \in 1..(4 + 4 * N) /\ 3 \in 1..(4 + 4 * N)
          /\ 4 \in 1..(4 + 4 * N)
      BY <1>4 DEF N
    <3> QED BY <1>9, <2>1, <3>1
  <2>2. CASE f \in rows
    <3>1. PICK i \in 1..N : f \in BountyFields(b, i)
      BY <2>2
    <3>2. \/ f = entry(4 * i + 1) \/ f = entry(4 * i + 2)
          \/ f = entry(4 * i + 3) \/ f = entry(4 * i + 4)
      BY <1>10, <3>1
    <3> QED BY <1>8, <3>2
  <2> HIDE DEF bytes, rows
  <2> QED BY <1>1, <2>1, <2>2
<1> HIDE DEF bytes
<1>14. Len(w) = 4 + 4 * N /\ at[1] = 0
  BY <1>2, <1>5
<1> QED BY <1>2, <1>11, <1>12, <1>13, <1>14 DEF StoredAs, w, at, v, entry, bytes

(* A board with any values in its bounties, of which some are listed.      *)
BoardsOf(V) ==
  [bump : V, game_session : V, bounty_count : 0..MAX_BOUNTIES,
   bounties : [1..MAX_BOUNTIES ->
                 [bounty_type : 0..3, reward_amount : V, is_active : V, claimed_by : V]]]

(* decodeBountyBoard gives back the board with the bounties listed.        *)
LEMMA BoardIsDecoded ==
  ASSUME NEW V, NEW b \in BoardsOf(V)
  PROVE  decodeBountyBoard(BountyBoardBytes(b))
           = [b EXCEPT !.bounties = [i \in 1..b.bounty_count |-> b.bounties[i]]]
<1> DEFINE r == ByteReader(BountyBoardBytes(b), BoardWidths)
           v == BoardValues(b)
           n == b.bounty_count
           N == MAX_BOUNTIES
           read == [bump |-> r[2], game_session |-> r[3], bounty_count |-> r[4],
                    bounties |-> [i \in 1..r[4] |->
                      [bounty_type |-> r[4 * i + 1], reward_amount |-> r[4 * i + 2],
                       is_active |-> r[4 * i + 3], claimed_by |-> r[4 * i + 4]]]]
<1>1. N \in Nat /\ n \in 0..N
  BY BoardPlaces DEF BoardsOf
<1>2. \A q \in 1..(4 + 4 * N) : r[q] = v[q]
  <2>1. Len(BoardWidths) = 4 + 4 * N
    BY BoardWidthsAre
  <2> HIDE DEF v, N
  <2>2. \A q \in 1..Len(BoardWidths) : r[q] = v[q]
    BY BoardIsStored, ValuesAreRead DEF v
  <2> QED BY <2>1, <2>2
<1>3. decodeBountyBoard(BountyBoardBytes(b)) =
        IF r[1] # 3 \/ \E i \in 1..r[4] : ~checkEnum(r[4 * i + 1], 3) THEN Thrown ELSE read
  BY DEF decodeBountyBoard, BoardWidths
<1> HIDE DEF r
<1>4. r[1] = 3 /\ r[2] = b.bump /\ r[3] = b.game_session /\ r[4] = n
  <2>1. 1 \in 1..(4 + 4 * N) /\ 2 \in 1..(4 + 4 * N) /\ 3 \in 1..(4 + 4 * N)
        /\ 4 \in 1..(4 + 4 * N)
    BY <1>1
  <2>2. v[1] = 3 /\ v[2] = b.bump /\ v[3] = b.game_session /\ v[4] = n
    BY <2>1 DEF BoardValues
  <2> HIDE DEF v
  <2> QED BY <1>2, <2>1, <2>2
<1>5. ASSUME NEW i \in 1..n
      PROVE  /\ r[4 * i + 1] = b.bounties[i].bounty_type
             /\ r[4 * i + 2] = b.bounties[i].reward_amount
             /\ r[4 * i + 3] = b.bounties[i].is_active
             /\ r[4 * i + 4] = b.bounties[i].claimed_by
  <2>1. i \in 1..N
    BY <1>1
  <2>2. /\ 4 * i + 1 \in 1..(4 + 4 * N) /\ 4 * i + 2 \in 1..(4 + 4 * N)
        /\ 4 * i + 3 \in 1..(4 + 4 * N) /\ 4 * i + 4 \in 1..(4 + 4 * N)
    BY <1>1, <2>1
  <2>3. /\ v[4 * i + 1] = b.bounties[i].bounty_type
        /\ v[4 * i + 2] = b.bounties[i].reward_amount
        /\ v[4 * i + 3] = b.bounties[i].is_active
        /\ v[4 * i + 4] = b.bounties[i].claimed_by
    BY <2>1, BountyValues
  <2> HIDE DEF v
  <2> QED BY <1>2, <2>2, <2>3
<1>6. ASSUME NEW i \in 1..n
      PROVE  /\ b.bounties[i].bounty_type \in 0..3
             /\ [bounty_type |-> r[4 * i + 1], reward_amount |-> r[4 * i + 2],
                 is_active |-> r[4 * i + 3], claimed_by |-> r[4 * i + 4]] = b.bounties[i]
  <2>1. i \in 1..N
    BY <1>1
  <2>2. b.bounties[i] \in [bounty_type : 0..3, reward_amount : V, is_active : V, claimed_by : V]
    BY <2>1 DEF BoardsOf
  <2> QED BY <1>5, <2>2
<1>7. ~(r[1] # 3 \/ \E i \in 1..r[4] : ~checkEnum(r[4 * i + 1], 3))
  BY <1>4, <1>5, <1>6 DEF checkEnum
<1>8. read.bounties = [i \in 1..n |-> b.bounties[i]]
  BY <1>4, <1>6
<1> DEFINE listed == [i \in 1..n |-> b.bounties[i]]
<1>9. read = [bump |-> b.bump, game_session |-> b.game_session, bounty_count |-> n,
              bounties |-> listed]
  BY <1>4, <1>8
<1> HIDE DEF read, N, n, listed
<1>10. [b EXCEPT !.bounties = listed]
         = [bump |-> b.bump, game_session |-> b.game_session, bounty_count |-> n,
            bounties |-> listed]
  BY DEF BoardsOf, n
<1> QED BY <1>3, <1>7, <1>9, <1>10 DEF n, listed

(* The hand is in the account's first slots and counted by hand_size; what *)
(* is in the other slots is some card.                                     *)
PlayerStates ==
  [bump : Nat, player : Nat, game_id : Nat, hand_size : 0..MaxHandSize,
   slots : [1..MaxHandSize -> [value : Nat, card_type : 0..2, suit : Nat]],
   is_active : Nat, inactive_reason : 0..2, bust_card_value : Nat, score : Nat,
   staked_amount : Nat, has_used_second_chance : Nat, has_used_scry : Nat, total_wins : Nat,
   total_games : Nat]
AccountHolds ==
  /\ account \in PlayerStates /\ account.inactive_reason = 0
  /\ account.hand_size = Len(hand)
  /\ \A i \in 1..Len(hand) : account.slots[i] = CardAt(hand[i])

(* An account that holds the hand has a slot for each of its cards.        *)
LEMMA AccountParts ==
  ASSUME HandTypeOK, AccountHolds
  PROVE  /\ hand \in Seq(Card) /\ Len(hand) \in Nat /\ Len(hand) <= MaxHandSize
         /\ MaxHandSize \in Nat
         /\ account \in PlayerStates /\ account.inactive_reason = 0
         /\ account.hand_size = Len(hand)
         /\ account.slots \in [1..MaxHandSize -> [value : Nat, card_type : 0..2, suit : Nat]]
         /\ \A i \in 1..Len(hand) : account.slots[i] = CardAt(hand[i])
<1>1. hand \in Seq(Card) /\ Len(hand) <= MaxHandSize /\ MaxHandSize \in Nat
  BY HandSizeAssumption DEF HandTypeOK, Hand
<1>2. Len(hand) \in Nat
  BY <1>1
<1>3. /\ account \in PlayerStates /\ account.inactive_reason = 0
      /\ account.hand_size = Len(hand)
      /\ \A i \in 1..Len(hand) : account.slots[i] = CardAt(hand[i])
  BY DEF AccountHolds
<1>4. account.slots \in [1..MaxHandSize -> [value : Nat, card_type : 0..2, suit : Nat]]
  BY ONLY <1>3 DEF PlayerStates
<1> QED BY <1>1, <1>2, <1>3, <1>4

(* The byte of a card's type gives back the type.                          *)
LEMMA TypeByteRule ==
  ASSUME NEW type \in {ALPHA, PROTOCOL, MULTIPLIER}
  PROVE  TypeByte(type) \in 0..2 /\ CardType[TypeByte(type) + 1] = type
<1>1. CardType[0 + 1] = ALPHA /\ CardType[1 + 1] = PROTOCOL /\ CardType[2 + 1] = MULTIPLIER
  BY DEF CardType
<1>2. \E i \in 0..2 : CardType[i + 1] = type
  <2>1. 0 \in 0..2 /\ 1 \in 0..2 /\ 2 \in 0..2
    OBVIOUS
  <2> QED BY <1>1, <2>1
<1> QED BY <1>2 DEF TypeByte

(* A stored card's bytes.                                                  *)
LEMMA CardAtType ==
  ASSUME NEW c \in Card
  PROVE  CardAt(c) \in [value : Nat, card_type : 0..2, suit : Nat]
<1>1. c.card_type \in {ALPHA, PROTOCOL, MULTIPLIER} /\ c.value \in Nat /\ c.value % 4 \in Nat
  BY DEF Card
<1>2. TypeByte(c.card_type) \in 0..2
  BY <1>1, TypeByteRule
<1> QED BY <1>1, <1>2 DEF CardAt

(* No step lets the account and the hand disagree.                         *)
LEMMA AccountAgrees == RulesSpec => []AccountHolds
<1> DEFINE Slot == [value : Nat, card_type : 0..2, suit : Nat]
<1>1. RulesInit => AccountHolds
  <2>1. MaxHandSize \in Nat
    BY HandSizeAssumption
  <2>2. FreshState \in PlayerStates /\ FreshState.inactive_reason = 0 /\ FreshState.hand_size = 0
    BY <2>1 DEF FreshState, PlayerStates
  <2> HIDE DEF FreshState
  <2> QED BY <2>2 DEF RulesInit, AccountHolds
<1>2. ASSUME HandTypeOK, AccountHolds, [RulesNext]_<<scene, hand, others>>
      PROVE  AccountHolds'
  <2> DEFINE n == Len(hand)
             slots == account.slots
  <2>1. /\ hand \in Seq(Card) /\ n \in Nat /\ n <= MaxHandSize /\ MaxHandSize \in Nat
        /\ account \in PlayerStates /\ account.inactive_reason = 0 /\ account.hand_size = n
        /\ slots \in [1..MaxHandSize -> Slot]
        /\ \A i \in 1..n : slots[i] = CardAt(hand[i])
    BY <1>2, AccountParts
  <2>2. CASE DrawCard
    <3>1. PICK c \in Drawable : hand' = Append(hand, c) /\ account' = push_card(account, c)
      BY <2>2 DEF DrawCard
    <3>2. n < MaxHandSize /\ c \in Card /\ CardAt(c) \in Slot
      BY <2>2, DrawableAssumption, CardAtType DEF DrawCard
    <3>3. /\ Len(hand') = n + 1 /\ hand'[n + 1] = c
          /\ \A i \in 1..n : hand'[i] = hand[i]
      BY <2>1, <3>1, <3>2, AppendProperties
    <3> DEFINE new == [slots EXCEPT ![n + 1] = CardAt(c)]
    <3>4. account' = [account EXCEPT !.slots = new, !.hand_size = n + 1]
      BY <2>1, <3>1 DEF push_card, PlayerStates
    <3>5. /\ n + 1 \in 1..MaxHandSize /\ n + 1 \in 0..MaxHandSize
          /\ new \in [1..MaxHandSize -> Slot] /\ new[n + 1] = CardAt(c)
          /\ \A i \in 1..n : new[i] = slots[i]
      <4>1. /\ n + 1 \in 1..MaxHandSize /\ n + 1 \in 0..MaxHandSize
            /\ \A i \in 1..n : i \in 1..MaxHandSize /\ i # n + 1
        BY <2>1, <3>2
      <4>2. slots \in [1..MaxHandSize -> Slot] /\ CardAt(c) \in Slot
        BY <2>1, <3>2
      <4> HIDE DEF Slot, slots, n
      <4> QED BY <4>1, <4>2
    <3> HIDE DEF new, Slot
    <3>6. /\ account' \in PlayerStates /\ account'.inactive_reason = 0
          /\ account'.hand_size = n + 1 /\ account'.slots = new
      BY <2>1, <3>4, <3>5 DEF PlayerStates, Slot
    <3>7. \A i \in 1..(n + 1) : new[i] = CardAt(hand'[i])
      <4> TAKE i \in 1..(n + 1)
      <4>1. CASE i = n + 1
        BY <3>3, <3>5, <4>1
      <4>2. CASE i # n + 1
        <5>1. i \in 1..n
          BY <2>1, <4>2
        <5> QED BY <2>1, <3>3, <3>5, <5>1
      <4> QED BY <4>1, <4>2
    <3> QED BY <3>3, <3>6, <3>7 DEF AccountHolds
  <2>3. CASE GiveUpCard
    <3>1. hand # << >> /\ hand' = Front(hand) /\ account' = pop_card(account)
      BY <2>3 DEF GiveUpCard, PopCard
    <3>2. n > 0 /\ n - 1 \in 0..MaxHandSize
      BY <2>1, <3>1
    <3>3. Len(hand') = n - 1 /\ \A i \in 1..(n - 1) : hand'[i] = hand[i]
      <4>1. n - 1 \in Nat /\ n - 1 <= Len(hand) /\ Front(hand) = SubSeq(hand, 1, n - 1)
        BY <2>1, <3>2 DEF Front
      <4> HIDE DEF n
      <4> QED BY <2>1, <3>1, <4>1, PrefixOf
    <3>4. account' = [account EXCEPT !.hand_size = n - 1]
      BY <2>1, <3>1, <3>2 DEF pop_card, PlayerStates
    <3>5. /\ account' \in PlayerStates /\ account'.inactive_reason = 0
          /\ account'.hand_size = n - 1 /\ account'.slots = slots
      BY <2>1, <3>2, <3>4 DEF PlayerStates
    <3>6. \A i \in 1..(n - 1) : i \in 1..n
      BY <2>1
    <3> QED BY <2>1, <3>3, <3>5, <3>6 DEF AccountHolds
  <2>4. CASE LoseBestCard
    <3>1. PICK i \in 1..MaxHandSize : /\ IsHighestAlpha(hand, i) /\ hand' = RemoveAt(hand, i)
                                      /\ account' = ShiftFrom(account, i)
      BY <2>4 DEF LoseBestCard
    <3>2. i \in 1..n /\ n - 1 \in 0..MaxHandSize /\ n > 0
      BY <2>1, <3>1 DEF IsHighestAlpha
    <3>3. /\ Len(hand') = n - 1
          /\ \A j \in 1..(n - 1) : hand'[j] = IF j < i THEN hand[j] ELSE hand[j + 1]
      <4>1. hand \in Seq(Card) /\ i \in 1..Len(hand)
        BY <2>1, <3>2
      <4>2. /\ Len(RemoveAt(hand, i)) = Len(hand) - 1
            /\ \A j \in 1..(Len(hand) - 1) :
                 RemoveAt(hand, i)[j] = IF j < i THEN hand[j] ELSE hand[j + 1]
        BY <4>1, RemoveAtType
      <4> QED BY <3>1, <4>2
    <3> DEFINE new == [j \in DOMAIN slots |-> IF j \in i..(n - 1) THEN slots[j + 1] ELSE slots[j]]
    <3>4. account' = [account EXCEPT !.slots = new, !.hand_size = n - 1]
      BY <2>1, <3>1 DEF ShiftFrom, PlayerStates
    <3>5. /\ new \in [1..MaxHandSize -> Slot]
          /\ \A j \in 1..(n - 1) : new[j] = IF j < i THEN slots[j] ELSE slots[j + 1]
      <4>1. \A j \in 1..(n - 1) : j \in 1..MaxHandSize /\ (j \in i..(n - 1) <=> ~(j < i))
        BY <2>1, <3>2
      <4>2. \A j \in i..(n - 1) : j + 1 \in 1..MaxHandSize
        BY <2>1, <3>2
      <4>3. DOMAIN slots = 1..MaxHandSize /\ \A j \in 1..MaxHandSize : slots[j] \in Slot
        BY <2>1
      <4> HIDE DEF Slot, slots, n
      <4> QED BY <4>1, <4>2, <4>3
    <3> HIDE DEF new, Slot
    <3>6. /\ account' \in PlayerStates /\ account'.inactive_reason = 0
          /\ account'.hand_size = n - 1 /\ account'.slots = new
      BY <2>1, <3>2, <3>4, <3>5 DEF PlayerStates, Slot
    <3>7. \A j \in 1..(n - 1) : new[j] = CardAt(hand'[j])
      <4> TAKE j \in 1..(n - 1)
      <4>1. j \in 1..n /\ j + 1 \in 1..n
        BY <2>1
      <4> QED BY <2>1, <3>3, <3>5, <4>1
    <3> QED BY <3>3, <3>6, <3>7 DEF AccountHolds
  <2>5. CASE UNCHANGED <<hand, account>>
    BY <1>2, <2>5 DEF AccountHolds
  <2>6. RulesNext => DrawCard \/ GiveUpCard \/ LoseBestCard \/ UNCHANGED <<hand, account>>
    BY DEF RulesNext, LogSomething, Shuffle
  <2>7. UNCHANGED <<scene, hand, others>> => UNCHANGED <<hand, account>>
    BY DEF others
  <2> QED BY <1>2, <2>2, <2>3, <2>4, <2>5, <2>6, <2>7
<1> QED BY <1>1, <1>2, HandIsTyped, PTL DEF RulesSpec

(* The samples are a session and a board with every bounty listed.         *)
LEMMA SampleSessionIsRead ==
  /\ decodeGameSession(GameSessionBytes(SampleSession)) = SampleSession
  /\ Len(activeTurnOrder(SampleSession)) = SampleSession.player_count
<1>1. SampleSession \in SessionsOf(Nat)
  <2>1. \A i \in 1..MAX_PLAYERS : 10 + i \in Nat
    BY LayoutAssumption
  <2>2. [i \in 1..MAX_PLAYERS |-> 10 + i] \in [1..MAX_PLAYERS -> Nat]
    BY <2>1
  <2> QED BY <2>2 DEF SampleSession, SessionsOf
<1>2. Len(activeTurnOrder(SampleSession)) = SampleSession.player_count
  <2> DEFINE t == [i \in 1..MAX_PLAYERS |-> 10 + i]
  <2>1. t \in Seq(Nat) /\ Len(t) = 4
    BY LayoutAssumption
  <2>2. SampleSession.player_count = 2 /\ SampleSession.turn_order = t
    BY DEF SampleSession
  <2> HIDE DEF t
  <2>3. Len(SubSeq(t, 1, 2)) = 2
    BY <2>1
  <2> QED BY <2>2, <2>3 DEF activeTurnOrder
<1> HIDE DEF SampleSession
<1> QED BY <1>1, <1>2, SessionIsDecoded

(* The sample board is read back whole, every bounty of it listed.         *)
LEMMA SampleBoardIsRead == decodeBountyBoard(BountyBoardBytes(SampleBoard)) = SampleBoard
<1> DEFINE N == MAX_BOUNTIES
           bounty(i) == [bounty_type |-> i % 4, reward_amount |-> 30 + i, is_active |-> i % 2,
                         claimed_by |-> 40 + i]
           Bounty == [bounty_type : 0..3, reward_amount : Nat, is_active : Nat, claimed_by : Nat]
           all == [i \in 1..N |-> bounty(i)]
<1>1. N \in Nat
  BY LayoutAssumption
<1>2. SampleBoard = [bump |-> 1, game_session |-> 2, bounty_count |-> N, bounties |-> all]
  BY DEF SampleBoard
<1>3. all \in [1..N -> Bounty]
  <2>1. ASSUME NEW i \in 1..N PROVE bounty(i) \in Bounty
    <3>1. i % 4 \in 0..3 /\ i % 2 \in Nat /\ 30 + i \in Nat /\ 40 + i \in Nat
      BY <1>1
    <3> QED BY <3>1
  <2> HIDE DEF bounty, Bounty
  <2> QED BY <2>1
<1> HIDE DEF N, all
<1>4. SampleBoard \in BoardsOf(Nat)
  BY <1>1, <1>2, <1>3 DEF BoardsOf, N
<1>5. /\ SampleBoard.bounty_count = N /\ SampleBoard.bounties = all
      /\ all = [i \in 1..N |-> all[i]]
  BY <1>2, <1>3
<1>6. [SampleBoard EXCEPT !.bounties = all] = SampleBoard
  BY <1>2
<1>7. decodeBountyBoard(BountyBoardBytes(SampleBoard))
        = [SampleBoard EXCEPT !.bounties =
             [i \in 1..SampleBoard.bounty_count |-> SampleBoard.bounties[i]]]
  BY <1>4, BoardIsDecoded
<1> QED BY <1>5, <1>6, <1>7

(* Whatever was drawn, given up and stolen, the client reads the hand and  *)
(* the fields the program stored, and the other accounts whole.            *)
THEOREM AccountsAreRead == RulesSpec => []ClientReadsAccounts
<1>1. ASSUME HandTypeOK, AccountHolds PROVE ClientReadsAccounts
  <2> DEFINE ps == decodePlayerState(PlayerStateBytes(account))
             n == Len(hand)
  <2>1. /\ hand \in Seq(Card) /\ n \in Nat /\ n <= MaxHandSize /\ MaxHandSize <= 10
        /\ MaxHandSize \in Nat
        /\ account \in PlayerStates /\ account.inactive_reason = 0 /\ account.hand_size = n
        /\ account.slots \in [1..MaxHandSize -> [value : Nat, card_type : 0..2, suit : Nat]]
        /\ \A i \in 1..n : account.slots[i] = CardAt(hand[i])
    BY <1>1, AccountParts, LayoutAssumption
  <2>2. \A i \in 1..n : /\ SlotOf(account, i) = CardAt(hand[i])
                        /\ CardAt(hand[i]) \in [value : Nat, card_type : 0..2, suit : Nat]
    <3> TAKE i \in 1..n
    <3>1. i \in DOMAIN account.slots /\ hand[i] \in Card
      BY <2>1, HandSizeAssumption
    <3> QED BY <2>1, <3>1, CardAtType DEF SlotOf
  <2>3. ps = [hand |-> ShownHand(account),
              is_active |-> account.is_active, inactive_reason |-> account.inactive_reason,
              bust_card_value |-> account.bust_card_value, score |-> account.score,
              staked_amount |-> account.staked_amount,
              has_used_second_chance |-> account.has_used_second_chance,
              has_used_scry |-> account.has_used_scry, total_wins |-> account.total_wins,
              total_games |-> account.total_games]
    <3>1. account.hand_size \in 0..10 /\ account.inactive_reason \in 0..2
      <4>1. /\ account.hand_size = n /\ account.inactive_reason = 0
            /\ n \in Nat /\ n <= MaxHandSize /\ MaxHandSize <= 10 /\ MaxHandSize \in Nat
        BY <2>1
      <4> HIDE DEF n
      <4>2. n \in 0..10
        BY <4>1
      <4> QED BY <4>1, <4>2
    <3>2. \A i \in 1..account.hand_size : SlotOf(account, i).card_type \in 0..2
      BY <2>1, <2>2
    <3> QED BY <3>1, <3>2, PlayerIsDecoded
  <2> HIDE DEF ps, n
  <2>4. /\ ps.hand = ShownHand(account) /\ ps.is_active = account.is_active
        /\ ps.inactive_reason = 0 /\ ps.score = account.score
        /\ ps.staked_amount = account.staked_amount
        /\ ps.has_used_scry = account.has_used_scry /\ ps.total_games = account.total_games
    BY <2>1, <2>3
  <2>5. [i \in DOMAIN ps.hand |->
           [card_type |-> ps.hand[i].card_type, value |-> ps.hand[i].value]] = hand
    <3>1. /\ DOMAIN ps.hand = 1..n
          /\ \A i \in 1..n : /\ ps.hand[i].value = SlotOf(account, i).value
                             /\ ps.hand[i].card_type
                                  = CardType[SlotOf(account, i).card_type + 1]
      BY <2>1, <2>4 DEF ShownHand
    <3>2. ASSUME NEW i \in 1..n
          PROVE  [card_type |-> ps.hand[i].card_type, value |-> ps.hand[i].value] = hand[i]
      <4>1. /\ hand[i] \in Card
            /\ hand[i] = [card_type |-> hand[i].card_type, value |-> hand[i].value]
        <5>1. hand[i] \in Card
          BY <2>1 DEF n
        <5> QED BY <5>1 DEF Card
      <4>2. /\ SlotOf(account, i).value = hand[i].value
            /\ SlotOf(account, i).card_type = TypeByte(hand[i].card_type)
        BY <2>2 DEF CardAt
      <4>3. hand[i].card_type \in {ALPHA, PROTOCOL, MULTIPLIER}
        BY <4>1 DEF Card
      <4>4. CardType[TypeByte(hand[i].card_type) + 1] = hand[i].card_type
        BY <4>3, TypeByteRule
      <4> QED BY <3>1, <4>1, <4>2, <4>4
    <3>3. hand = [i \in 1..n |-> hand[i]]
      BY <2>1 DEF n
    <3> QED BY <3>1, <3>2, <3>3
  <2>6. ~isBust(ps) /\ ~hasStayed(ps)
    BY <2>4 DEF isBust, hasStayed
  <2> HIDE DEF SampleSession, SampleBoard
  <2> QED BY <2>4, <2>5, <2>6, SampleSessionIsRead, SampleBoardIsRead
          DEF ClientReadsAccounts, ps
<1> QED BY <1>1, HandIsTyped, AccountAgrees, PTL

-----------------------------------------------------------------------------
(* What the i-th line becomes, and the parser's step at it.                *)
EventAt(signature, slot, lines, i) ==
  parseEventLog(lines[i], [signature |-> signature, slot |-> slot, logIndex |-> i])
PushEvent(signature, slot, lines, events, i) ==
  IF EventAt(signature, slot, lines, i) = NoEvent THEN events
  ELSE Append(events, EventAt(signature, slot, lines, i))

(* What the parser has found after each of the first n lines.              *)
IsParse(run, signature, slot, lines, n) ==
  /\ run[0] = << >>
  /\ \A k \in 1..n : run[k] = PushEvent(signature, slot, lines, run[k - 1], k)
  /\ \A k \in 0..n : run[k] \in Seq({EventAt(signature, slot, lines, i) : i \in 1..n})

(* The parser's pass over the lines of a transaction.                      *)
LEMMA ParserRuns ==
  ASSUME NEW signature, NEW slot, NEW L, NEW lines \in Seq(L)
  PROVE  \E run : /\ IsParse(run, signature, slot, lines, Len(lines))
                  /\ parseTransactionEvents(signature, slot, lines) = run[Len(lines)]
<1> DEFINE n == Len(lines)
           at == [i \in DOMAIN lines |-> i]
           E == {EventAt(signature, slot, lines, i) : i \in 1..n}
           B == Seq(E)
           Step(events, i) == PushEvent(signature, slot, lines, events, i)
           g == [p \in (1..n) \X B |-> Step(p[2], p[1])]
           Solves(f) == f = [S \in SUBSET (DOMAIN at) |->
                               IF S = {} THEN << >> ELSE Step(f[S \ {Max(S)}], at[Max(S)])]
           iter == CHOOSE f : Solves(f)
           run == [k \in 0..n |-> iter[1..k]]
<1>1. parseTransactionEvents(signature, slot, lines) = iter[DOMAIN at]
  BY DEF parseTransactionEvents, FoldLeftDomain, FoldLeft, MapThenFoldSet, PushEvent, EventAt
<1>0. /\ n \in Nat /\ DOMAIN lines = 1..n /\ DOMAIN at = 1..n
      /\ at \in Seq(1..n) /\ Len(at) = n /\ \A i \in 1..n : at[i] = i
  OBVIOUS
<1>2. \A r \in B, i \in 1..n : Step(r, i) \in B
  <2> TAKE r \in B, i \in 1..n
  <2>1. EventAt(signature, slot, lines, i) \in E
    OBVIOUS
  <2> HIDE DEF E
  <2> QED BY <2>1, AppendProperties DEF PushEvent
<1>3. << >> \in B
  <2> HIDE DEF E
  <2> QED OBVIOUS
<1> HIDE DEF B, at, n, Step
<1>4. /\ g \in [(1..n) \X B -> B]
      /\ \A r \in B, i \in 1..n : g[<<i, r>>] = Step(r, i)
  BY <1>2
<1> HIDE DEF g
<1>5. PICK it \in [SUBSET (DOMAIN at) -> B] : IsFoldLeft(it, g, << >>, at)
  <2> DEFINE none == << >>
             P == 1..n
  <2>1. none \in B /\ at \in Seq(P) /\ g \in [P \X B -> B]
    BY <1>0, <1>3, <1>4
  <2> HIDE DEF none, P
  <2>2. \E it \in [SUBSET (DOMAIN at) -> B] : IsFoldLeft(it, g, none, at)
    BY <2>1, FoldLeftExists
  <2> QED BY <2>2 DEF none
<1>6. Solves(it)
  <2>1. ASSUME NEW S \in SUBSET (DOMAIN at), S # {}
        PROVE  it[S] = Step(it[S \ {Max(S)}], at[Max(S)])
    <3>1. Max(S) \in DOMAIN at
      BY <1>0, <2>1, MaxOfPositions
    <3>2. at[Max(S)] \in 1..n /\ it[S \ {Max(S)}] \in B
      BY <1>0, <3>1
    <3> QED BY <1>4, <1>5, <2>1, <3>2 DEF IsFoldLeft
  <2>2. it[{}] = << >>
    BY <1>5 DEF IsFoldLeft
  <2> QED BY <2>1, <2>2
<1>7. Solves(iter)
  BY <1>6
<1> HIDE DEF iter
<1>8. run[0] = << >>
  BY <1>0, <1>7
<1>9. ASSUME NEW k \in 1..n PROVE run[k] = Step(run[k - 1], k)
  <2>1. /\ 1..k \in SUBSET (DOMAIN at) /\ 1..k # {}
        /\ k \in 0..n /\ k - 1 \in 0..n
    <3>1. k \in Nat /\ n \in Nat /\ 1 <= k /\ k <= n /\ DOMAIN at = 1..n
      BY <1>0
    <3> HIDE DEF E, run, Solves
    <3>2. k \in 1..k /\ (\A i \in 1..k : i \in 1..n) /\ k \in 0..n /\ k - 1 \in 0..n
      BY <3>1
    <3>3. 1..k \subseteq 1..n /\ 1..k # {}
      BY <3>2, Zenon
    <3> QED BY <3>1, <3>2, <3>3
  <2>2. Max(1..k) = k /\ (1..k) \ {Max(1..k)} = 1..(k - 1)
    BY <1>0, MaxOfFirst
  <2>3. at[k] = k
    BY <1>0
  <2> QED BY <1>7, <2>1, <2>2, <2>3
<1>10. run[n] = iter[DOMAIN at]
  BY <1>0
<1> HIDE DEF run
<1>11. \A k \in 0..n : run[k] \in B
  <2> DEFINE Good == {k \in Nat : k <= n => run[k] \in B}
  <2>1. 0 \in Good
    BY <1>3, <1>8
  <2>2. ASSUME NEW k \in Nat, k \in Good PROVE k + 1 \in Good
    <3>1. SUFFICES ASSUME k + 1 <= n PROVE run[k + 1] \in B
      OBVIOUS
    <3>2. k + 1 \in 1..n /\ (k + 1) - 1 = k /\ k <= n
      BY <1>0, <3>1
    <3>3. run[k] \in B /\ run[k + 1] = Step(run[k], k + 1)
      BY <1>9, <2>2, <3>2
    <3> QED BY <1>2, <3>2, <3>3
  <2> HIDE DEF Good
  <2>3. Nat \subseteq Good
    BY <2>1, <2>2, NatSetInduction
  <2> QED BY <1>0, <2>3 DEF Good
<1>12. IsParse(run, signature, slot, lines, n)
  BY <1>8, <1>9, <1>11 DEF IsParse, B, Step
<1> QED BY <1>1, <1>10, <1>12 DEF n

(* The events are those of the lines that become one, one for each.        *)
OneForEach(events, signature, slot, lines) ==
  LET real == {i \in DOMAIN lines : EventAt(signature, slot, lines, i) # NoEvent}
  IN  /\ ToSet(events) = {EventAt(signature, slot, lines, i) : i \in real}
      /\ Len(events) = Cardinality(real)

(* The parser loses no event and adds none.                                *)
LEMMA EventsCounted ==
  ASSUME NEW signature, NEW slot, NEW L, NEW lines \in Seq(L)
  PROVE  OneForEach(parseTransactionEvents(signature, slot, lines), signature, slot, lines)
<1> DEFINE n == Len(lines)
           Ev(i) == EventAt(signature, slot, lines, i)
           E == {Ev(i) : i \in 1..n}
           real == {i \in DOMAIN lines : Ev(i) # NoEvent}
           first(k) == {i \in 1..k : Ev(i) # NoEvent}
<1>0. n \in Nat /\ DOMAIN lines = 1..n /\ real = first(n)
  OBVIOUS
<1>1. PICK run : /\ IsParse(run, signature, slot, lines, n)
                 /\ parseTransactionEvents(signature, slot, lines) = run[n]
  BY ParserRuns
<1>2. /\ run[0] = << >>
      /\ \A k \in 1..n : run[k] = IF Ev(k) = NoEvent THEN run[k - 1] ELSE Append(run[k - 1], Ev(k))
      /\ \A k \in 0..n : run[k] \in Seq(E)
  BY <1>1 DEF IsParse, PushEvent
<1> HIDE DEF Ev, n
<1> DEFINE Good == {k \in Nat : k <= n => /\ ToSet(run[k]) = {Ev(i) : i \in first(k)}
                                          /\ IsFiniteSet(first(k))
                                          /\ Len(run[k]) = Cardinality(first(k))}
<1>3. 0 \in Good
  <2>1. first(0) = {} /\ ToSet(<< >>) = {}
    BY DEF ToSet
  <2>2. Cardinality({}) = 0 /\ IsFiniteSet({}) /\ Len(<< >>) = 0
    BY FS_EmptySet
  <2> QED BY <1>2, <2>1, <2>2
<1>4. ASSUME NEW k \in Nat, k \in Good PROVE k + 1 \in Good
  <2>1. SUFFICES ASSUME k + 1 <= n
                 PROVE  /\ ToSet(run[k + 1]) = {Ev(i) : i \in first(k + 1)}
                        /\ IsFiniteSet(first(k + 1))
                        /\ Len(run[k + 1]) = Cardinality(first(k + 1))
    OBVIOUS
  <2>2. k + 1 \in 1..n /\ (k + 1) - 1 = k /\ k <= n /\ k \in 0..n
    BY <1>0, <2>1
  <2>3. /\ ToSet(run[k]) = {Ev(i) : i \in first(k)} /\ IsFiniteSet(first(k))
        /\ Len(run[k]) = Cardinality(first(k)) /\ run[k] \in Seq(E)
    BY <1>2, <1>4, <2>2
  <2>4. run[k + 1] = IF Ev(k + 1) = NoEvent THEN run[k] ELSE Append(run[k], Ev(k + 1))
    BY <1>2, <2>2
  <2>5. \A i : i \in 1..(k + 1) <=> i \in 1..k \/ i = k + 1
    OBVIOUS
  <2>6. CASE Ev(k + 1) = NoEvent
    <3>1. first(k + 1) = first(k)
      BY <2>5, <2>6
    <3> HIDE DEF first
    <3> QED BY <2>3, <2>4, <2>6, <3>1
  <2>7. CASE Ev(k + 1) # NoEvent
    <3>1. first(k + 1) = first(k) \cup {k + 1} /\ k + 1 \notin first(k)
      <4>1. k + 1 \notin 1..k
        OBVIOUS
      <4> QED BY <2>5, <2>7, <4>1
    <3>2. Ev(k + 1) \in E
      BY <2>2
    <3> HIDE DEF first, E
    <3>3. IsFiniteSet(first(k + 1)) /\ Cardinality(first(k + 1)) = Cardinality(first(k)) + 1
      BY <2>3, <3>1, FS_AddElement
    <3>4. /\ Len(Append(run[k], Ev(k + 1))) = Len(run[k]) + 1
          /\ \A i \in 1..Len(run[k]) : Append(run[k], Ev(k + 1))[i] = run[k][i]
          /\ Append(run[k], Ev(k + 1))[Len(run[k]) + 1] = Ev(k + 1)
          /\ Append(run[k], Ev(k + 1)) \in Seq(E)
      BY <2>3, <3>2, AppendProperties
    <3>5. ToSet(Append(run[k], Ev(k + 1))) = ToSet(run[k]) \cup {Ev(k + 1)}
      <4> DEFINE r == run[k]
                 a == Append(run[k], Ev(k + 1))
      <4>1. /\ Len(r) \in Nat /\ DOMAIN r = 1..Len(r) /\ DOMAIN a = 1..(Len(r) + 1)
        BY <2>3, <3>4
      <4>2. \A i : i \in DOMAIN a <=> i \in DOMAIN r \/ i = Len(r) + 1
        BY <4>1
      <4>3. \A i \in DOMAIN r : a[i] = r[i]
        BY <3>4, <4>1
      <4>4. a[Len(r) + 1] = Ev(k + 1)
        BY <3>4
      <4> HIDE DEF a, r
      <4>5. ToSet(a) = ToSet(r) \cup {Ev(k + 1)}
        BY <4>2, <4>3, <4>4 DEF ToSet
      <4> QED BY <4>5 DEF a, r
    <3>6. {Ev(i) : i \in first(k + 1)} = {Ev(i) : i \in first(k)} \cup {Ev(k + 1)}
      BY <3>1
    <3> QED BY <2>3, <2>4, <2>7, <3>3, <3>4, <3>5, <3>6
  <2> QED BY <2>6, <2>7
<1> HIDE DEF Good, first
<1>5. Nat \subseteq Good
  BY <1>3, <1>4, NatSetInduction
<1>6. /\ ToSet(run[n]) = {Ev(i) : i \in first(n)}
      /\ Len(run[n]) = Cardinality(first(n))
  <2>1. n \in Good /\ n \in Nat /\ n <= n
    BY <1>0, <1>5
  <2>2. n \in {k \in Nat : k <= n => /\ ToSet(run[k]) = {Ev(i) : i \in first(k)}
                                    /\ IsFiniteSet(first(k))
                                    /\ Len(run[k]) = Cardinality(first(k))}
    BY ONLY <2>1 DEF Good
  <2>3. n <= n => /\ ToSet(run[n]) = {Ev(i) : i \in first(n)}
                  /\ IsFiniteSet(first(n))
                  /\ Len(run[n]) = Cardinality(first(n))
    BY ONLY <2>2, Zenon
  <2> QED BY <2>1, <2>3
<1>7. /\ ToSet(run[n]) = {Ev(i) : i \in real} /\ Len(run[n]) = Cardinality(real)
  BY <1>0, <1>6
<1> QED BY <1>1, <1>7 DEF n, Ev, OneForEach

-----------------------------------------------------------------------------
(* A kind's keys are not empty and not repeated.                           *)
KeysApart(fields) ==
  /\ \A i \in DOMAIN fields : i \in Nat /\ fields[i][1] # ""
  /\ \A i, j \in DOMAIN fields : fields[i][1] = fields[j][1] => i = j

(* The fields of an event of a kind: each key of its line, with its value. *)
HasFields(f, fields) ==
  \A i \in DOMAIN fields : fields[i][1] \in DOMAIN f /\ f[fields[i][1]] = fields[i][2]

(* What a sentence of the feed shows.                                      *)
ShownWell(tokens) ==
  /\ \A t \in ToSet(tokens) : t.as \notin {"?", "(raw)"}
  /\ Cardinality({t \in ToSet(tokens) : t.as = "address"}) <= 1

(* Whatever word its flag was logged with.                                 *)
SaidWell(e) == \A said \in BOOLEAN : ShownWell(renderEventTokens(e, said))

(* A sentence with nothing unknown in it and one address is shown well.    *)
LEMMA OneAddress ==
  ASSUME NEW tokens,
         \A i \in DOMAIN tokens : tokens[i].as \notin {"?", "(raw)"},
         \A i, j \in DOMAIN tokens : tokens[i].as = "address" /\ tokens[j].as = "address" => i = j
  PROVE  ShownWell(tokens)
<1> DEFINE S == {t \in ToSet(tokens) : t.as = "address"}
<1>1. \A t \in ToSet(tokens) : t.as \notin {"?", "(raw)"}
  BY DEF ToSet
<1>2. Cardinality(S) <= 1
  <2>1. CASE S = {}
    BY <2>1, FS_EmptySet
  <2>2. CASE S # {}
    <3>1. PICK i \in DOMAIN tokens : tokens[i] \in S
      BY <2>2 DEF ToSet
    <3>2. S = {tokens[i]}
      BY <3>1 DEF ToSet
    <3> HIDE DEF S
    <3>3. Cardinality({tokens[i]}) = 1
      BY FS_Singleton
    <3> QED BY <3>2, <3>3
  <2> QED BY <2>1, <2>2
<1> QED BY <1>1, <1>2 DEF ShownWell

(* The three ways the feed shows a field, when the event has it.           *)
LEMMA TokenRule ==
  ASSUME NEW f, NEW key, key \in DOMAIN f
  PROVE  /\ text(f, key).as = "text"
         /\ f[key] = "u64" => formatStake(f, key).as = "amount"
         /\ f[key] = "hex" => addressToken(f, key).as = "address"
BY DEF text, formatStake, addressToken, req

(* The kinds the parser knows.                                             *)
LEMMA KindsAre ==
  KNOWN_KINDS = {"initialize", "init_vault", "join_round", "commit_deck",
                 "start_round", "hit", "stay", "end_round",
                 "burn_second_chance", "burn_scry", "leave_game", "close_game",
                 "init_bounty_board", "add_bounty", "claim_bounty", "close_bounty_board"}
BY DEF KNOWN_KINDS, EventFields

(* No kind repeats a key.                                                  *)
LEMMA KeysAreApart == \A k \in KNOWN_KINDS : KeysApart(EventFields[k])
<1> TAKE k \in KNOWN_KINDS
<1>1. CASE k = "initialize"
  <2> DEFINE F == EventFields["initialize"]
  <2>1. DOMAIN F = 1..3
    BY DEF EventFields
  <2>2. F[1][1] = "authority" /\ F[2][1] = "game_id" /\ F[3][1] = "fee_bps"
    BY DEF EventFields
  <2>3. \A i \in DOMAIN F : i \in Nat /\ (i = 1 \/ i = 2 \/ i = 3)
    BY <2>1
  <2> HIDE DEF F
  <2>4. KeysApart(F)
    BY <2>2, <2>3 DEF KeysApart
  <2> QED BY <1>1, <2>4 DEF F
<1>2. CASE k = "init_vault"
  <2> DEFINE F == EventFields["init_vault"]
  <2>1. DOMAIN F = 1..2
    BY DEF EventFields
  <2>2. F[1][1] = "game_id" /\ F[2][1] = "vault"
    BY DEF EventFields
  <2>3. \A i \in DOMAIN F : i \in Nat /\ (i = 1 \/ i = 2)
    BY <2>1
  <2> HIDE DEF F
  <2>4. KeysApart(F)
    BY <2>2, <2>3 DEF KeysApart
  <2> QED BY <1>2, <2>4 DEF F
<1>3. CASE k = "join_round"
  <2> DEFINE F == EventFields["join_round"]
  <2>1. DOMAIN F = 1..4
    BY DEF EventFields
  <2>2. /\ F[1][1] = "player" /\ F[2][1] = "game_id" /\ F[3][1] = "stake"
        /\ F[4][1] = "player_count"
    BY DEF EventFields
  <2>3. \A i \in DOMAIN F : i \in Nat /\ (i = 1 \/ i = 2 \/ i = 3 \/ i = 4)
    BY <2>1
  <2> HIDE DEF F
  <2>4. KeysApart(F)
    BY <2>2, <2>3 DEF KeysApart
  <2> QED BY <1>3, <2>4 DEF F
<1>4. CASE k = "commit_deck"
  <2> DEFINE F == EventFields["commit_deck"]
  <2>1. DOMAIN F = 1..3
    BY DEF EventFields
  <2>2. F[1][1] = "game_id" /\ F[2][1] = "round" /\ F[3][1] = "merkle_root"
    BY DEF EventFields
  <2>3. \A i \in DOMAIN F : i \in Nat /\ (i = 1 \/ i = 2 \/ i = 3)
    BY <2>1
  <2> HIDE DEF F
  <2>4. KeysApart(F)
    BY <2>2, <2>3 DEF KeysApart
  <2> QED BY <1>4, <2>4 DEF F
<1>5. CASE k = "start_round"
  <2> DEFINE F == EventFields["start_round"]
  <2>1. DOMAIN F = 1..3
    BY DEF EventFields
  <2>2. F[1][1] = "game_id" /\ F[2][1] = "round" /\ F[3][1] = "player_count"
    BY DEF EventFields
  <2>3. \A i \in DOMAIN F : i \in Nat /\ (i = 1 \/ i = 2 \/ i = 3)
    BY <2>1
  <2> HIDE DEF F
  <2>4. KeysApart(F)
    BY <2>2, <2>3 DEF KeysApart
  <2> QED BY <1>5, <2>4 DEF F
<1>6. CASE k = "hit"
  <2> DEFINE F == EventFields["hit"]
  <2>1. DOMAIN F = 1..7
    BY DEF EventFields
  <2>2. /\ F[1][1] = "player" /\ F[2][1] = "game_id" /\ F[3][1] = "round" /\ F[4][1] = "card_type"
        /\ F[5][1] = "value" /\ F[6][1] = "suit" /\ F[7][1] = "bust"
    BY DEF EventFields
  <2>3. \A i \in DOMAIN F : i \in Nat /\ (i = 1 \/ i = 2 \/ i = 3 \/ i = 4 \/ i = 5 \/ i = 6 \/ i = 7)
    BY <2>1
  <2> HIDE DEF F
  <2>4. KeysApart(F)
    BY <2>2, <2>3 DEF KeysApart
  <2> QED BY <1>6, <2>4 DEF F
<1>7. CASE k = "stay"
  <2> DEFINE F == EventFields["stay"]
  <2>1. DOMAIN F = 1..4
    BY DEF EventFields
  <2>2. /\ F[1][1] = "player" /\ F[2][1] = "game_id" /\ F[3][1] = "round" /\ F[4][1] = "score"
    BY DEF EventFields
  <2>3. \A i \in DOMAIN F : i \in Nat /\ (i = 1 \/ i = 2 \/ i = 3 \/ i = 4)
    BY <2>1
  <2> HIDE DEF F
  <2>4. KeysApart(F)
    BY <2>2, <2>3 DEF KeysApart
  <2> QED BY <1>7, <2>4 DEF F
<1>8. CASE k = "end_round"
  <2> DEFINE F == EventFields["end_round"]
  <2>1. DOMAIN F = 1..5
    BY DEF EventFields
  <2>2. /\ F[1][1] = "game_id" /\ F[2][1] = "round" /\ F[3][1] = "winner" /\ F[4][1] = "pot"
        /\ F[5][1] = "all_busted"
    BY DEF EventFields
  <2>3. \A i \in DOMAIN F : i \in Nat /\ (i = 1 \/ i = 2 \/ i = 3 \/ i = 4 \/ i = 5)
    BY <2>1
  <2> HIDE DEF F
  <2>4. KeysApart(F)
    BY <2>2, <2>3 DEF KeysApart
  <2> QED BY <1>8, <2>4 DEF F
<1>9. CASE k = "burn_second_chance"
  <2> DEFINE F == EventFields["burn_second_chance"]
  <2>1. DOMAIN F = 1..2
    BY DEF EventFields
  <2>2. F[1][1] = "player" /\ F[2][1] = "game_id"
    BY DEF EventFields
  <2>3. \A i \in DOMAIN F : i \in Nat /\ (i = 1 \/ i = 2)
    BY <2>1
  <2> HIDE DEF F
  <2>4. KeysApart(F)
    BY <2>2, <2>3 DEF KeysApart
  <2> QED BY <1>9, <2>4 DEF F
<1>10. CASE k = "burn_scry"
  <2> DEFINE F == EventFields["burn_scry"]
  <2>1. DOMAIN F = 1..3
    BY DEF EventFields
  <2>2. F[1][1] = "player" /\ F[2][1] = "game_id" /\ F[3][1] = "round"
    BY DEF EventFields
  <2>3. \A i \in DOMAIN F : i \in Nat /\ (i = 1 \/ i = 2 \/ i = 3)
    BY <2>1
  <2> HIDE DEF F
  <2>4. KeysApart(F)
    BY <2>2, <2>3 DEF KeysApart
  <2> QED BY <1>10, <2>4 DEF F
<1>11. CASE k = "leave_game"
  <2> DEFINE F == EventFields["leave_game"]
  <2>1. DOMAIN F = 1..3
    BY DEF EventFields
  <2>2. F[1][1] = "player" /\ F[2][1] = "game_id" /\ F[3][1] = "mid_round"
    BY DEF EventFields
  <2>3. \A i \in DOMAIN F : i \in Nat /\ (i = 1 \/ i = 2 \/ i = 3)
    BY <2>1
  <2> HIDE DEF F
  <2>4. KeysApart(F)
    BY <2>2, <2>3 DEF KeysApart
  <2> QED BY <1>11, <2>4 DEF F
<1>12. CASE k = "close_game"
  <2> DEFINE F == EventFields["close_game"]
  <2>1. DOMAIN F = 1..1
    BY DEF EventFields
  <2>2. F[1][1] = "game_id"
    BY DEF EventFields
  <2>3. \A i \in DOMAIN F : i \in Nat /\ (i = 1)
    BY <2>1
  <2> HIDE DEF F
  <2>4. KeysApart(F)
    BY <2>2, <2>3 DEF KeysApart
  <2> QED BY <1>12, <2>4 DEF F
<1>13. CASE k = "init_bounty_board"
  <2> DEFINE F == EventFields["init_bounty_board"]
  <2>1. DOMAIN F = 1..2
    BY DEF EventFields
  <2>2. F[1][1] = "game_id" /\ F[2][1] = "board"
    BY DEF EventFields
  <2>3. \A i \in DOMAIN F : i \in Nat /\ (i = 1 \/ i = 2)
    BY <2>1
  <2> HIDE DEF F
  <2>4. KeysApart(F)
    BY <2>2, <2>3 DEF KeysApart
  <2> QED BY <1>13, <2>4 DEF F
<1>14. CASE k = "add_bounty"
  <2> DEFINE F == EventFields["add_bounty"]
  <2>1. DOMAIN F = 1..4
    BY DEF EventFields
  <2>2. /\ F[1][1] = "game_id" /\ F[2][1] = "index" /\ F[3][1] = "bounty_type"
        /\ F[4][1] = "amount"
    BY DEF EventFields
  <2>3. \A i \in DOMAIN F : i \in Nat /\ (i = 1 \/ i = 2 \/ i = 3 \/ i = 4)
    BY <2>1
  <2> HIDE DEF F
  <2>4. KeysApart(F)
    BY <2>2, <2>3 DEF KeysApart
  <2> QED BY <1>14, <2>4 DEF F
<1>15. CASE k = "claim_bounty"
  <2> DEFINE F == EventFields["claim_bounty"]
  <2>1. DOMAIN F = 1..5
    BY DEF EventFields
  <2>2. /\ F[1][1] = "claimer" /\ F[2][1] = "game_id" /\ F[3][1] = "index"
        /\ F[4][1] = "bounty_type" /\ F[5][1] = "amount"
    BY DEF EventFields
  <2>3. \A i \in DOMAIN F : i \in Nat /\ (i = 1 \/ i = 2 \/ i = 3 \/ i = 4 \/ i = 5)
    BY <2>1
  <2> HIDE DEF F
  <2>4. KeysApart(F)
    BY <2>2, <2>3 DEF KeysApart
  <2> QED BY <1>15, <2>4 DEF F
<1>16. CASE k = "close_bounty_board"
  <2> DEFINE F == EventFields["close_bounty_board"]
  <2>1. DOMAIN F = 1..1
    BY DEF EventFields
  <2>2. F[1][1] = "game_id"
    BY DEF EventFields
  <2>3. \A i \in DOMAIN F : i \in Nat /\ (i = 1)
    BY <2>1
  <2> HIDE DEF F
  <2>4. KeysApart(F)
    BY <2>2, <2>3 DEF KeysApart
  <2> QED BY <1>16, <2>4 DEF F
<1> QED BY KindsAre, <1>1, <1>2, <1>3, <1>4, <1>5, <1>6, <1>7, <1>8, <1>9, <1>10, <1>11, <1>12, <1>13, <1>14, <1>15, <1>16

(* The parser finds in a line the fields it was logged with.               *)
LEMMA FieldsParsed ==
  ASSUME NEW k \in KNOWN_KINDS
  PROVE  /\ WellFormed(LogLine(k).segments)
         /\ HasFields(parseFields(LogLine(k).segments), EventFields[k])
<1> DEFINE fields == EventFields[k]
           segments == LogLine(k).segments
           f == parseFields(segments)
<1>1. /\ DOMAIN segments = DOMAIN fields
      /\ \A i \in DOMAIN fields : segments[i].key = fields[i][1] /\ segments[i].value = fields[i][2]
  BY DEF LogLine, Segment
<1>2. /\ \A i \in DOMAIN fields : fields[i][1] # ""
      /\ \A i, j \in DOMAIN fields : fields[i][1] = fields[j][1] => i = j
      /\ \A i \in DOMAIN fields : i \in Nat
  <2>1. KeysApart(fields)
    BY KeysAreApart
  <2> HIDE DEF fields
  <2> QED BY <2>1 DEF KeysApart
<1> HIDE DEF segments, fields
<1>3. WellFormed(segments)
  <2>1. \A i \in DOMAIN segments : segments[i].key # ""
    <3> TAKE i \in DOMAIN segments
    <3>1. i \in DOMAIN fields /\ segments[i].key = fields[i][1]
      BY <1>1
    <3> QED BY <1>2, <3>1
  <2> QED BY <2>1 DEF WellFormed
<1>4. ASSUME NEW i \in DOMAIN fields PROVE fields[i][1] \in DOMAIN f
  <2>1. DOMAIN f = {segments[j].key : j \in DOMAIN segments}
    BY DEF parseFields
  <2>2. i \in DOMAIN segments /\ segments[i].key = fields[i][1]
    BY <1>1
  <2> HIDE DEF f
  <2> QED BY <2>1, <2>2
<1>5. ASSUME NEW i \in DOMAIN fields PROVE f[fields[i][1]] = fields[i][2]
  <2> DEFINE k0 == fields[i][1]
             Latest(j) == /\ segments[j].key = k0
                        /\ \A j2 \in DOMAIN segments : segments[j2].key = k0 => j2 <= j
  <2>1. k0 \in {segments[j].key : j \in DOMAIN segments}
    BY <1>1
  <2>2. f[k0] = segments[CHOOSE j \in DOMAIN segments : Latest(j)].value
    BY <2>1 DEF parseFields
  <2>3. \A j \in DOMAIN segments : Latest(j) <=> j = i
    <3>1. \A j \in DOMAIN segments : segments[j].key = k0 <=> j = i
      BY <1>1, <1>2
    <3>2. i \in DOMAIN segments /\ i \in Nat
      BY <1>1, <1>2
    <3> HIDE DEF k0
    <3> QED BY <3>1, <3>2
  <2> HIDE DEF Latest, f
  <2>4. i \in DOMAIN segments
    BY <1>1
  <2>5. (CHOOSE j \in DOMAIN segments : Latest(j)) = i
    BY <2>3, <2>4
  <2> QED BY <1>1, <2>2, <2>5
<1> QED BY <1>3, <1>4, <1>5 DEF HasFields, segments, fields

(* The sentence of every kind shows what its line held.                    *)
LEMMA SentenceRule ==
  ASSUME NEW e, NEW k \in KNOWN_KINDS, e.kind = k, HasFields(e.fields, EventFields[k]),
         NEW said \in BOOLEAN
  PROVE  ShownWell(renderEventTokens(e, said))
<1> DEFINE f == e.fields
           F == EventFields[k]
           t == renderEventTokens(e, said)
<1>1. CASE k = "initialize"
  <2>1. HasFields(f, F)
    OBVIOUS
  <2>2. t = <<text(f, "game_id"), addressToken(f, "authority"), text(f, "fee_bps")>>
    BY <1>1 DEF renderEventTokens
  <2>3. DOMAIN F = 1..3 /\ F[2] = <<"game_id", "u64">> /\ F[1] = <<"authority", "hex">> /\ F[3] = <<"fee_bps", "u16">>
    BY <1>1 DEF EventFields
  <2>4. /\ "game_id" \in DOMAIN f
        /\ "authority" \in DOMAIN f /\ f["authority"] = "hex"
        /\ "fee_bps" \in DOMAIN f
    BY <2>1, <2>3 DEF HasFields
  <2> QED BY <2>2, <2>4, TokenRule, OneAddress
<1>2. CASE k = "init_vault"
  <2>1. HasFields(f, F)
    OBVIOUS
  <2>2. t = <<text(f, "game_id")>>
    BY <1>2 DEF renderEventTokens
  <2>3. DOMAIN F = 1..2 /\ F[1] = <<"game_id", "u64">>
    BY <1>2 DEF EventFields
  <2>4. "game_id" \in DOMAIN f
    BY <2>1, <2>3 DEF HasFields
  <2> QED BY <2>2, <2>4, TokenRule, OneAddress
<1>3. CASE k = "join_round"
  <2>1. HasFields(f, F)
    OBVIOUS
  <2>2. t = <<addressToken(f, "player"), formatStake(f, "stake"), text(f, "player_count")>>
    BY <1>3 DEF renderEventTokens
  <2>3. DOMAIN F = 1..4 /\ F[1] = <<"player", "hex">> /\ F[3] = <<"stake", "u64">> /\ F[4] = <<"player_count", "u8">>
    BY <1>3 DEF EventFields
  <2>4. /\ "player" \in DOMAIN f /\ f["player"] = "hex"
        /\ "stake" \in DOMAIN f /\ f["stake"] = "u64"
        /\ "player_count" \in DOMAIN f
    BY <2>1, <2>3 DEF HasFields
  <2> QED BY <2>2, <2>4, TokenRule, OneAddress
<1>4. CASE k = "commit_deck"
  <2>1. HasFields(f, F)
    OBVIOUS
  <2>2. t = <<text(f, "round")>>
    BY <1>4 DEF renderEventTokens
  <2>3. DOMAIN F = 1..3 /\ F[2] = <<"round", "u64">>
    BY <1>4 DEF EventFields
  <2>4. "round" \in DOMAIN f
    BY <2>1, <2>3 DEF HasFields
  <2> QED BY <2>2, <2>4, TokenRule, OneAddress
<1>5. CASE k = "start_round"
  <2>1. HasFields(f, F)
    OBVIOUS
  <2>2. t = <<text(f, "round"), text(f, "player_count")>>
    BY <1>5 DEF renderEventTokens
  <2>3. DOMAIN F = 1..3 /\ F[2] = <<"round", "u64">> /\ F[3] = <<"player_count", "u8">>
    BY <1>5 DEF EventFields
  <2>4. /\ "round" \in DOMAIN f
        /\ "player_count" \in DOMAIN f
    BY <2>1, <2>3 DEF HasFields
  <2> QED BY <2>2, <2>4, TokenRule, OneAddress
<1>6. CASE k = "hit"
  <2>1. HasFields(f, F)
    OBVIOUS
  <2>2. t = <<addressToken(f, "player"), text(f, "value"), text(f, "suit")>>
    BY <1>6 DEF renderEventTokens
  <2>3. DOMAIN F = 1..7 /\ F[1] = <<"player", "hex">> /\ F[5] = <<"value", "u8">> /\ F[6] = <<"suit", "u8">>
    BY <1>6 DEF EventFields
  <2>4. /\ "player" \in DOMAIN f /\ f["player"] = "hex"
        /\ "value" \in DOMAIN f
        /\ "suit" \in DOMAIN f
    BY <2>1, <2>3 DEF HasFields
  <2> QED BY <2>2, <2>4, TokenRule, OneAddress
<1>7. CASE k = "stay"
  <2>1. HasFields(f, F)
    OBVIOUS
  <2>2. t = <<addressToken(f, "player"), text(f, "score")>>
    BY <1>7 DEF renderEventTokens
  <2>3. DOMAIN F = 1..4 /\ F[1] = <<"player", "hex">> /\ F[4] = <<"score", "u64">>
    BY <1>7 DEF EventFields
  <2>4. /\ "player" \in DOMAIN f /\ f["player"] = "hex"
        /\ "score" \in DOMAIN f
    BY <2>1, <2>3 DEF HasFields
  <2> QED BY <2>2, <2>4, TokenRule, OneAddress
<1>8. CASE k = "end_round"
  <2>1. HasFields(f, F)
    OBVIOUS
  <2>2. \/ t = <<text(f, "round"), addressToken(f, "winner"), formatStake(f, "pot")>>
        \/ t = <<text(f, "round"), formatStake(f, "pot")>>
    BY <1>8 DEF renderEventTokens
  <2>3. DOMAIN F = 1..5 /\ F[2] = <<"round", "u64">> /\ F[3] = <<"winner", "hex">> /\ F[4] = <<"pot", "u64">>
    BY <1>8 DEF EventFields
  <2>4. /\ "round" \in DOMAIN f
        /\ "winner" \in DOMAIN f /\ f["winner"] = "hex"
        /\ "pot" \in DOMAIN f /\ f["pot"] = "u64"
    BY <2>1, <2>3 DEF HasFields
  <2> QED BY <2>2, <2>4, TokenRule, OneAddress
<1>9. CASE k = "burn_second_chance"
  <2>1. HasFields(f, F)
    OBVIOUS
  <2>2. t = <<addressToken(f, "player")>>
    BY <1>9 DEF renderEventTokens
  <2>3. DOMAIN F = 1..2 /\ F[1] = <<"player", "hex">>
    BY <1>9 DEF EventFields
  <2>4. "player" \in DOMAIN f /\ f["player"] = "hex"
    BY <2>1, <2>3 DEF HasFields
  <2> QED BY <2>2, <2>4, TokenRule, OneAddress
<1>10. CASE k = "burn_scry"
  <2>1. HasFields(f, F)
    OBVIOUS
  <2>2. t = <<addressToken(f, "player"), text(f, "round")>>
    BY <1>10 DEF renderEventTokens
  <2>3. DOMAIN F = 1..3 /\ F[1] = <<"player", "hex">> /\ F[3] = <<"round", "u64">>
    BY <1>10 DEF EventFields
  <2>4. /\ "player" \in DOMAIN f /\ f["player"] = "hex"
        /\ "round" \in DOMAIN f
    BY <2>1, <2>3 DEF HasFields
  <2> QED BY <2>2, <2>4, TokenRule, OneAddress
<1>11. CASE k = "leave_game"
  <2>1. HasFields(f, F)
    OBVIOUS
  <2>2. t = <<addressToken(f, "player")>>
    BY <1>11 DEF renderEventTokens
  <2>3. DOMAIN F = 1..3 /\ F[1] = <<"player", "hex">>
    BY <1>11 DEF EventFields
  <2>4. "player" \in DOMAIN f /\ f["player"] = "hex"
    BY <2>1, <2>3 DEF HasFields
  <2> QED BY <2>2, <2>4, TokenRule, OneAddress
<1>12. CASE k = "close_game"
  <2>1. HasFields(f, F)
    OBVIOUS
  <2>2. t = <<text(f, "game_id")>>
    BY <1>12 DEF renderEventTokens
  <2>3. DOMAIN F = 1..1 /\ F[1] = <<"game_id", "u64">>
    BY <1>12 DEF EventFields
  <2>4. "game_id" \in DOMAIN f
    BY <2>1, <2>3 DEF HasFields
  <2> QED BY <2>2, <2>4, TokenRule, OneAddress
<1>13. CASE k = "init_bounty_board"
  <2>1. HasFields(f, F)
    OBVIOUS
  <2>2. t = <<text(f, "game_id")>>
    BY <1>13 DEF renderEventTokens
  <2>3. DOMAIN F = 1..2 /\ F[1] = <<"game_id", "u64">>
    BY <1>13 DEF EventFields
  <2>4. "game_id" \in DOMAIN f
    BY <2>1, <2>3 DEF HasFields
  <2> QED BY <2>2, <2>4, TokenRule, OneAddress
<1>14. CASE k = "add_bounty"
  <2>1. HasFields(f, F)
    OBVIOUS
  <2>2. t = <<text(f, "index"), text(f, "bounty_type"), formatStake(f, "amount")>>
    BY <1>14 DEF renderEventTokens
  <2>3. DOMAIN F = 1..4 /\ F[2] = <<"index", "u8">> /\ F[3] = <<"bounty_type", "u8">> /\ F[4] = <<"amount", "u64">>
    BY <1>14 DEF EventFields
  <2>4. /\ "index" \in DOMAIN f
        /\ "bounty_type" \in DOMAIN f
        /\ "amount" \in DOMAIN f /\ f["amount"] = "u64"
    BY <2>1, <2>3 DEF HasFields
  <2> QED BY <2>2, <2>4, TokenRule, OneAddress
<1>15. CASE k = "claim_bounty"
  <2>1. HasFields(f, F)
    OBVIOUS
  <2>2. t = <<addressToken(f, "claimer"), text(f, "index"), formatStake(f, "amount")>>
    BY <1>15 DEF renderEventTokens
  <2>3. DOMAIN F = 1..5 /\ F[1] = <<"claimer", "hex">> /\ F[3] = <<"index", "u8">> /\ F[5] = <<"amount", "u64">>
    BY <1>15 DEF EventFields
  <2>4. /\ "claimer" \in DOMAIN f /\ f["claimer"] = "hex"
        /\ "index" \in DOMAIN f
        /\ "amount" \in DOMAIN f /\ f["amount"] = "u64"
    BY <2>1, <2>3 DEF HasFields
  <2> QED BY <2>2, <2>4, TokenRule, OneAddress
<1>16. CASE k = "close_bounty_board"
  <2>1. HasFields(f, F)
    OBVIOUS
  <2>2. t = <<text(f, "game_id")>>
    BY <1>16 DEF renderEventTokens
  <2>3. DOMAIN F = 1..1 /\ F[1] = <<"game_id", "u64">>
    BY <1>16 DEF EventFields
  <2>4. "game_id" \in DOMAIN f
    BY <2>1, <2>3 DEF HasFields
  <2> QED BY <2>2, <2>4, TokenRule, OneAddress
<1> QED BY KindsAre, <1>1, <1>2, <1>3, <1>4, <1>5, <1>6, <1>7, <1>8, <1>9, <1>10, <1>11, <1>12, <1>13, <1>14, <1>15, <1>16

-----------------------------------------------------------------------------
(* The event a line of a kind becomes.                                     *)
KindEvent(k, signature, slot, i) ==
  [id |-> <<signature, i>>, kind |-> k, fields |-> parseFields(LogLine(k).segments),
   signature |-> signature, slot |-> slot, logIndex |-> i]

(* A line of the program becomes the event of its kind.                    *)
LEMMA OwnLineParsed ==
  ASSUME NEW k \in KNOWN_KINDS, NEW signature, NEW slot, NEW lines, NEW i,
         lines[i] = LogLine(k)
  PROVE  /\ EventAt(signature, slot, lines, i) = KindEvent(k, signature, slot, i)
         /\ EventAt(signature, slot, lines, i) # NoEvent
<1> DEFINE ctx == [signature |-> signature, slot |-> slot, logIndex |-> i]
<1>1. /\ LogLine(k).prefix = "Program log: " /\ LogLine(k).event = TRUE /\ LogLine(k).kind = k
      /\ WellFormed(LogLine(k).segments)
  BY FieldsParsed DEF LogLine
<1>2. ctx.signature = signature /\ ctx.slot = slot /\ ctx.logIndex = i
  OBVIOUS
<1> HIDE DEF ctx
<1>3. parseEventLog(LogLine(k), ctx) = KindEvent(k, signature, slot, i)
  BY <1>1, <1>2 DEF parseEventLog, KindEvent
<1>4. KindEvent(k, signature, slot, i) # NoEvent
  <2>1. "kind" \in DOMAIN KindEvent(k, signature, slot, i)
    BY DEF KindEvent
  <2>2. DOMAIN NoEvent = {}
    BY DEF NoEvent
  <2> QED BY <2>1, <2>2
<1> QED BY <1>3, <1>4 DEF EventAt, ctx

(* The other lines become nothing, and are nobody's.                       *)
LEMMA OtherLineSkipped ==
  ASSUME NEW l \in Lines, \A k \in KNOWN_KINDS : l # LogLine(k), NEW ctx
  PROVE  parseEventLog(l, ctx) = NoEvent
<1> DEFINE base == LogLine("stay")
<1>1. /\ base.event = TRUE /\ base.kind = "stay"
      /\ base = [prefix |-> base.prefix, event |-> base.event, kind |-> base.kind,
                 segments |-> base.segments]
      /\ 2 \in DOMAIN base.segments /\ base.segments[2].key = "game_id"
  <2>1. /\ base.event = TRUE /\ base.kind = "stay"
        /\ base = [prefix |-> base.prefix, event |-> base.event, kind |-> base.kind,
                   segments |-> base.segments]
    BY DEF LogLine
  <2>2. /\ DOMAIN base.segments = DOMAIN EventFields["stay"]
        /\ \A i \in DOMAIN EventFields["stay"] :
             base.segments[i] = [key |-> EventFields["stay"][i][1],
                                 value |-> EventFields["stay"][i][2]]
    BY DEF LogLine, Segment
  <2>3. 2 \in DOMAIN EventFields["stay"] /\ EventFields["stay"][2][1] = "game_id"
    BY DEF EventFields
  <2> HIDE DEF base
  <2> DEFINE F == EventFields["stay"]
             s == base.segments
  <2> HIDE DEF F, s
  <2>4. 2 \in DOMAIN s /\ s[2].key = "game_id"
    <3>1. 2 \in DOMAIN s /\ s[2] = [key |-> F[2][1], value |-> F[2][2]]
      BY <2>2, <2>3 DEF F, s
    <3> QED BY <2>3, <3>1 DEF F
  <2> QED BY <2>1, <2>4 DEF s
<1>2. \/ l = [base EXCEPT !.segments[2].key = ""]
      \/ l = [base EXCEPT !.kind = "unknown"]
      \/ l = [base EXCEPT !.event = FALSE]
  BY DEF Lines
<1>3. CASE l = [base EXCEPT !.segments[2].key = ""]
  <2>1. 2 \in DOMAIN l.segments /\ l.segments[2].key = ""
    <3> DEFINE s == base.segments
    <3>1. 2 \in DOMAIN s /\ s[2] = [key |-> s[2].key, value |-> s[2].value]
      <4>1. \A i \in DOMAIN s : s[i] = [key |-> s[i].key, value |-> s[i].value]
        BY DEF LogLine, Segment
      <4> HIDE DEF s
      <4> QED BY <1>1, <4>1 DEF s
    <3>2. l.segments = [s EXCEPT ![2] = [s[2] EXCEPT !.key = ""]]
      BY <1>1, <1>3
    <3> HIDE DEF s, base
    <3> QED BY <3>1, <3>2
  <2>2. ~WellFormed(l.segments)
    BY <2>1 DEF WellFormed
  <2> QED BY <2>2 DEF parseEventLog
<1>4. CASE l = [base EXCEPT !.kind = "unknown"]
  <2> HIDE DEF base
  <2>1. l.kind = "unknown"
    BY <1>1, <1>4
  <2> QED BY <2>1, KindsAre DEF parseEventLog
<1>5. CASE l = [base EXCEPT !.event = FALSE]
  <2> HIDE DEF base
  <2>1. l.event = FALSE
    BY <1>1, <1>5
  <2> QED BY <2>1 DEF parseEventLog
<1> QED BY <1>2, <1>3, <1>4, <1>5

(* A transaction holds lines of the program and others.                    *)
LogsTypeOK == logs \in Seq(Lines)

(* Only lines are ever logged.                                             *)
LEMMA LogsAreTyped == RulesSpec => []LogsTypeOK
<1>1. RulesInit => LogsTypeOK
  BY DEF RulesInit, LogsTypeOK
<1>2. LogsTypeOK /\ [RulesNext]_<<scene, hand, others>> => LogsTypeOK'
  <2>1. ASSUME LogsTypeOK, LogSomething PROVE LogsTypeOK'
    <3>1. PICK l \in Lines : logs' = Append(logs, l)
      BY <2>1 DEF LogSomething
    <3> QED BY <2>1, <3>1, AppendProperties DEF LogsTypeOK
  <2>2. RulesNext => LogSomething \/ UNCHANGED logs
    BY DEF RulesNext, DrawCard, GiveUpCard, LoseBestCard, LogSomething, Shuffle, others
  <2>3. LogsTypeOK /\ UNCHANGED logs => LogsTypeOK'
    BY DEF LogsTypeOK
  <2> QED BY <2>1, <2>2, <2>3 DEF others
<1> QED BY <1>1, <1>2, PTL DEF RulesSpec

(* Whatever else a transaction logs, each line of the program becomes one  *)
(* event under its own number, and the feed shows it whole.                *)
THEOREM LogsAreParsed == RulesSpec => []LogsBecomeEvents
<1>1. ASSUME LogsTypeOK PROVE LogsBecomeEvents
  <2> DEFINE Ev(i) == EventAt(3, 5, logs, i)
             real == {i \in DOMAIN logs : Ev(i) # NoEvent}
             events == parseTransactionEvents(3, 5, logs)
  <2>1. ToSet(events) = {Ev(i) : i \in real} /\ Len(events) = Cardinality(real)
    <3>1. logs \in Seq(Lines)
      BY <1>1 DEF LogsTypeOK
    <3>2. OneForEach(events, 3, 5, logs)
      BY <3>1, EventsCounted
    <3> HIDE DEF events
    <3> QED BY <3>2 DEF OneForEach
  <2> HIDE DEF Ev, events
  <2>2. ASSUME NEW i \in DOMAIN logs, NEW k \in KNOWN_KINDS, logs[i] = LogLine(k)
        PROVE  /\ Ev(i) # NoEvent /\ Ev(i).id = <<3, i>>
               /\ SaidWell(Ev(i))
    <3>1. Ev(i) = KindEvent(k, 3, 5, i) /\ Ev(i) # NoEvent
      BY <2>2, OwnLineParsed DEF Ev
    <3>2. /\ Ev(i).id = <<3, i>> /\ Ev(i).kind = k
          /\ Ev(i).fields = parseFields(LogLine(k).segments)
      BY <3>1 DEF KindEvent
    <3> DEFINE e == Ev(i)
    <3> HIDE DEF e
    <3>3. e.kind = k /\ HasFields(e.fields, EventFields[k])
      BY <3>2, FieldsParsed DEF e
    <3>4. SaidWell(e)
      BY <3>3, SentenceRule DEF SaidWell
    <3> QED BY <3>1, <3>2, <3>4 DEF e
  <2>3. ASSUME NEW i \in DOMAIN logs, \A k \in KNOWN_KINDS : logs[i] # LogLine(k)
        PROVE  Ev(i) = NoEvent
    <3>1. logs[i] \in Lines
      BY <1>1 DEF LogsTypeOK
    <3> QED BY <2>3, <3>1, OtherLineSkipped DEF Ev, EventAt
  <2>4. real = OwnLines
    BY <2>2, <2>3 DEF OwnLines
  <2>5. \A i \in OwnLines : Ev(i).id = <<3, i>> /\ SaidWell(Ev(i))
    BY <2>2 DEF OwnLines
  <2> HIDE DEF real
  <2>6. {e.id : e \in ToSet(events)} = {<<3, i>> : i \in OwnLines}
    <3> DEFINE ids == {Ev(i).id : i \in OwnLines}
    <3>1. {e.id : e \in ToSet(events)} = ids
      BY <2>1, <2>4
    <3>2. ids = {<<3, i>> : i \in OwnLines}
      BY <2>5
    <3> QED BY <3>1, <3>2
  <2>7. \A e \in ToSet(events) : SaidWell(e)
    BY <2>1, <2>4, <2>5
  <2>8. Len(events) = Cardinality(OwnLines)
    BY <2>1, <2>4
  <2> QED BY <2>6, <2>7, <2>8 DEF LogsBecomeEvents, SaidWell, ShownWell, events
<1> QED BY <1>1, LogsAreTyped, PTL
=============================================================================
