---------------------------- MODULE FaucetProofs ----------------------------
(***************************************************************************)
(* Theorems of Faucet, for any wallets, tabs, word lists, clocks and       *)
(* number of restarts.                                                     *)
(***************************************************************************)
EXTENDS Faucet, SequenceTheorems, WellFoundedInduction, TLAPS

Mint ==
  [wallet: Wallets, state: {"sent", "landed", "expired"}, at: Nat, known: BOOLEAN]

Post == [pc: {"idle", "building", "sent"}, wallet: Wallets \cup {Nobody}, tx: Nat]

Working(r) == request[r].pc # "idle"

ServiceTypeOK ==
  /\ clock \in Nat
  /\ mints \in Seq(Mint)
  /\ request \in [Tabs -> Post]
  /\ \A w \in DOMAIN lastClaim : lastClaim[w] \in Nat

(* A request holds its wallet's reservation, and is alone with it.         *)
RequestsReserve ==
  /\ \A r \in Tabs : Working(r) =>
       request[r].wallet \in Wallets /\ request[r].wallet \in pendingClaims
  /\ \A r, s \in Tabs :
       Working(r) /\ Working(s) /\ request[r].wallet = request[s].wallet => r = s

(* The cooldown that was over when the request came in is still over.      *)
CooldownsEnd == \A r \in Tabs : request[r].pc = "building" => ~InCooldown(request[r].wallet)

(* A request waits for a transaction to its own wallet.                    *)
WaitsForOwn ==
  \A r \in Tabs : request[r].pc = "sent" =>
    /\ request[r].tx \in DOMAIN mints
    /\ mints[request[r].tx].wallet = request[r].wallet

(* What the service knows of is waited for or counts in the cooldown.      *)
Recorded(i) ==
  /\ mints[i].state = "landed"
  /\ mints[i].wallet \in DOMAIN lastClaim /\ mints[i].at <= lastClaim[mints[i].wallet]
KnownCounts ==
  \A i \in DOMAIN mints :
    /\ mints[i].at <= clock
    /\ mints[i].known => Recorded(i) \/ \E r \in Tabs : request[r].pc = "sent" /\ request[r].tx = i

(* A service that is down has forgotten its maps.                          *)
DownIsEmpty ==
  ~up => /\ lastClaim = EmptyMap /\ pendingClaims = {}
         /\ \A r \in Tabs : ~Working(r)

MintInv ==
  /\ ServiceTypeOK /\ RequestsReserve /\ CooldownsEnd /\ WaitsForOwn /\ KnownCounts /\ DownIsEmpty

-----------------------------------------------------------------------------
(* One tab's request changes.                                              *)
LEMMA RequestWrites ==
  ASSUME request \in [Tabs -> Post], NEW r \in Tabs, NEW q \in Post,
         request' = [request EXCEPT ![r] = q]
  PROVE  /\ request' \in [Tabs -> Post] /\ request'[r] = q
         /\ \A s \in Tabs : s # r => request'[s] = request[s]
OBVIOUS

(* One transaction changes.                                                *)
LEMMA MintWrites ==
  ASSUME mints \in Seq(Mint), NEW i \in DOMAIN mints, NEW m \in Mint,
         mints' = [mints EXCEPT ![i] = m]
  PROVE  /\ mints' \in Seq(Mint) /\ DOMAIN mints' = DOMAIN mints /\ Len(mints') = Len(mints)
         /\ mints'[i] = m /\ \A j \in DOMAIN mints : j # i => mints'[j] = mints[j]
BY ExceptSeq, LenProperties

(* What a step writes of a request or a transaction.                       *)
LEMMA Builds ==
  ASSUME NEW q \in Post, NEW w \in Wallets
  PROVE  LET b == [q EXCEPT !.pc = "building", !.wallet = w]
         IN  b \in Post /\ b.pc = "building" /\ b.wallet = w
BY DEF Post

(* A request that sends its mint notes the transaction.                    *)
LEMMA Sends ==
  ASSUME NEW q \in Post, NEW n \in Nat
  PROVE  LET b == [q EXCEPT !.pc = "sent", !.tx = n]
         IN  b \in Post /\ b.pc = "sent" /\ b.tx = n /\ b.wallet = q.wallet
BY DEF Post

(* A mint that lands notes when.                                           *)
LEMMA Lands ==
  ASSUME NEW m \in Mint, NEW n \in Nat
  PROVE  LET b == [m EXCEPT !.state = "landed", !.at = n]
         IN  b \in Mint /\ b.at = n /\ b.wallet = m.wallet /\ b.known = m.known
BY DEF Mint

(* Giving up a reservation leaves the other requests what they had.        *)
LEMMA ReleaseKeeps ==
  ASSUME MintInv, NEW r \in Tabs, Working(r), NEW success \in BOOLEAN,
         releaseClaim(request[r].wallet, success), Answered(r), UNCHANGED clock
  PROVE  /\ request' \in [Tabs -> Post] /\ ~Working(r)'
         /\ \A s \in Tabs : s # r => request'[s] = request[s]
         /\ RequestsReserve' /\ CooldownsEnd'
         /\ \A w \in DOMAIN lastClaim' : lastClaim'[w] \in Nat
         /\ \A w \in DOMAIN lastClaim : w \in DOMAIN lastClaim' /\
              lastClaim'[w] \in {lastClaim[w], clock}
<1> DEFINE w == request[r].wallet
<1>1. /\ clock \in Nat /\ request \in [Tabs -> Post] /\ RequestsReserve /\ CooldownsEnd
      /\ \A v \in DOMAIN lastClaim : lastClaim[v] \in Nat
  BY DEF MintInv, ServiceTypeOK
<1>2. Idle \in Post /\ Idle.pc = "idle"
  BY DEF Idle, Post
<1>3. /\ request' \in [Tabs -> Post] /\ request'[r] = Idle
      /\ \A s \in Tabs : s # r => request'[s] = request[s]
  BY <1>1, <1>2, RequestWrites DEF Answered
<1>4. /\ pendingClaims' = pendingClaims \ {w}
      /\ lastClaim' = IF success THEN With(lastClaim, w, clock) ELSE lastClaim
  BY DEF releaseClaim
<1>5. /\ \A v \in DOMAIN lastClaim' : lastClaim'[v] \in Nat
      /\ \A v \in DOMAIN lastClaim : v \in DOMAIN lastClaim' /\ lastClaim'[v] \in {lastClaim[v], clock}
      /\ \A v : v # w => /\ v \in DOMAIN lastClaim' <=> v \in DOMAIN lastClaim
                         /\ v \in DOMAIN lastClaim => lastClaim'[v] = lastClaim[v]
  BY <1>1, <1>4 DEF With
<1>6. ASSUME NEW s \in Tabs, Working(s)'
      PROVE  s # r /\ request'[s] = request[s] /\ request[s].wallet # w
  BY <1>1, <1>2, <1>3, <1>6 DEF Working, RequestsReserve
<1>7. RequestsReserve'
  BY <1>1, <1>4, <1>6 DEF RequestsReserve, Working
<1>8. CooldownsEnd'
  BY <1>1, <1>5, <1>6 DEF CooldownsEnd, InCooldown, Working
<1> QED BY <1>2, <1>3, <1>5, <1>7, <1>8 DEF Working

-----------------------------------------------------------------------------
(* The cluster executes a transaction or drops it.                         *)
LEMMA OutcomeKeeps ==
  ASSUME MintInv, NEW i \in DOMAIN mints, NEW m \in Mint, mints[i].state = "sent",
         mints' = [mints EXCEPT ![i] = m],
         m.wallet = mints[i].wallet, m.known = mints[i].known, m.at <= clock,
         UNCHANGED <<clock, up, lastClaim, pendingClaims, request>>
  PROVE  MintInv'
<1>1. /\ mints \in Seq(Mint) /\ WaitsForOwn /\ KnownCounts
      /\ mints' \in Seq(Mint) /\ DOMAIN mints' = DOMAIN mints
      /\ mints'[i] = m /\ \A j \in DOMAIN mints : j # i => mints'[j] = mints[j]
  BY MintWrites DEF MintInv, ServiceTypeOK
<1>2. ServiceTypeOK' /\ RequestsReserve' /\ CooldownsEnd' /\ DownIsEmpty'
  BY <1>1 DEF MintInv, ServiceTypeOK, RequestsReserve, CooldownsEnd, DownIsEmpty, Working,
              InCooldown
<1>3. WaitsForOwn'
  BY <1>1 DEF WaitsForOwn
<1>4. KnownCounts'
  <2> SUFFICES ASSUME NEW j \in DOMAIN mints
               PROVE  /\ mints'[j].at <= clock
                      /\ mints'[j].known =>
                           \/ Recorded(j)'
                           \/ \E r \in Tabs : request[r].pc = "sent" /\ request[r].tx = j
    BY <1>1 DEF KnownCounts
  <2>1. CASE j = i
    BY <1>1, <2>1 DEF KnownCounts, Recorded
  <2>2. CASE j # i
    BY <1>1, <2>2 DEF KnownCounts, Recorded
  <2> QED BY <2>1, <2>2
<1> QED BY <1>2, <1>3, <1>4 DEF MintInv

(* One case per step of a request, a transaction, the clock and the        *)
(* process.                                                                *)
LEMMA MintInvStep ==
  ASSUME MintInv, [Next]_vars
  PROVE  MintInv'
<1>1. /\ clock \in Nat /\ mints \in Seq(Mint) /\ request \in [Tabs -> Post]
      /\ \A w \in DOMAIN lastClaim : lastClaim[w] \in Nat
      /\ RequestsReserve /\ CooldownsEnd /\ WaitsForOwn /\ KnownCounts /\ DownIsEmpty
      /\ DOMAIN mints = 1..Len(mints) /\ Len(mints) \in Nat
  BY LenProperties DEF MintInv, ServiceTypeOK
<1>2. ASSUME NEW i \in DOMAIN mints
      PROVE  mints[i] \in Mint /\ mints[i].at \in Nat
  <2>1. mints[i] \in Mint
    BY <1>1, ElementOfSeq
  <2> QED BY <2>1 DEF Mint
<1>3. CASE UNCHANGED <<clock, up, lastClaim, pendingClaims, mints, request>>
  BY <1>3 DEF MintInv, ServiceTypeOK, RequestsReserve, CooldownsEnd, WaitsForOwn, KnownCounts,
              DownIsEmpty, Working, InCooldown, Recorded
<1>4. ASSUME NEW i \in DOMAIN mints, Land(i)
      PROVE  MintInv'
  <2>1. /\ mints' = [mints EXCEPT ![i].state = "landed", ![i].at = clock]
        /\ mints[i].state = "sent"
        /\ UNCHANGED <<clock, up, lastClaim, pendingClaims, request>>
    BY <1>4 DEF Land, service
  <2>2. PICK m : m = [mints[i] EXCEPT !.state = "landed", !.at = clock]
    OBVIOUS
  <2>3. /\ m \in Mint /\ m.at = clock
        /\ m.wallet = mints[i].wallet /\ m.known = mints[i].known
    BY <1>1, <1>2, <2>2, Lands
  <2>4. mints' = [mints EXCEPT ![i] = m]
    BY <2>1, <2>2
  <2>5. m.at <= clock
    BY <1>1, <2>3
  <2> QED BY <2>1, <2>3, <2>4, <2>5, OutcomeKeeps
<1>5. ASSUME NEW i \in DOMAIN mints, Expire(i)
      PROVE  MintInv'
  <2>1. /\ mints' = [mints EXCEPT ![i].state = "expired"] /\ mints[i].state = "sent"
        /\ UNCHANGED <<clock, up, lastClaim, pendingClaims, request>>
    BY <1>5 DEF Expire, service
  <2>2. PICK m : m = [mints[i] EXCEPT !.state = "expired"]
    OBVIOUS
  <2>3. /\ m \in Mint /\ m.at = mints[i].at /\ m.wallet = mints[i].wallet
        /\ m.known = mints[i].known
    BY <1>2, <2>2 DEF Mint
  <2>4. mints' = [mints EXCEPT ![i] = m] /\ m.at <= clock
    BY <1>1, <2>1, <2>2, <2>3 DEF KnownCounts
  <2> QED BY <2>1, <2>3, <2>4, OutcomeKeeps
<1>6. ASSUME NEW r \in Tabs, NEW w \in Wallets \cup {Nobody}, requestFaucet(r, w)
      PROVE  MintInv'
  <2>1. /\ ~Working(r) /\ up /\ w \in Wallets /\ w \notin pendingClaims /\ ~InCooldown(w)
        /\ pendingClaims' = pendingClaims \cup {w}
        /\ request' = [request EXCEPT ![r].pc = "building", ![r].wallet = w]
        /\ UNCHANGED <<clock, up, lastClaim, mints>>
    BY <1>6 DEF requestFaucet, MayClaim, Working, chain
  <2>2. PICK q : q = [request[r] EXCEPT !.pc = "building", !.wallet = w]
    OBVIOUS
  <2>3. request[r] \in Post /\ q \in Post /\ q.pc = "building" /\ q.wallet = w
    BY <1>1, <2>1, <2>2, Builds
  <2>4. request' = [request EXCEPT ![r] = q]
    BY <2>1, <2>2
  <2>5. /\ request' \in [Tabs -> Post] /\ request'[r] = q
        /\ \A s \in Tabs : s # r => request'[s] = request[s]
    BY <1>1, <2>3, <2>4, RequestWrites
  <2>6. ServiceTypeOK' /\ DownIsEmpty'
    BY <1>1, <2>1, <2>5 DEF ServiceTypeOK, DownIsEmpty
  <2>7. RequestsReserve'
    BY <1>1, <2>1, <2>3, <2>5 DEF RequestsReserve, Working
  <2>8. CooldownsEnd'
    BY <1>1, <2>1, <2>3, <2>5 DEF CooldownsEnd, InCooldown
  <2>9. WaitsForOwn'
    BY <1>1, <2>1, <2>3, <2>5 DEF WaitsForOwn
  <2>10. KnownCounts'
    BY <1>1, <2>1, <2>5 DEF KnownCounts, Recorded, Working
  <2> QED BY <2>6, <2>7, <2>8, <2>9, <2>10 DEF MintInv
<1>7. ASSUME NEW r \in Tabs, mintToRecipient(r)
      PROVE  MintInv'
  <2>1. PICK m : m = [wallet |-> request[r].wallet, state |-> "sent", at |-> 0, known |-> TRUE]
    OBVIOUS
  <2>2. PICK n \in Nat : n = Len(mints) + 1
    BY <1>1
  <2>3. /\ request[r].pc = "building" /\ mints' = Append(mints, m)
        /\ request' = [request EXCEPT ![r].pc = "sent", ![r].tx = n]
        /\ UNCHANGED <<clock, up, lastClaim, pendingClaims>>
    BY <1>7, <2>1, <2>2 DEF mintToRecipient, service
  <2>4. request[r].wallet \in Wallets
    BY <1>1, <2>3 DEF RequestsReserve, Working
  <2>5. m \in Mint /\ m.wallet = request[r].wallet /\ m.at = 0
    BY <2>1, <2>4 DEF Mint
  <2>6. /\ mints' \in Seq(Mint) /\ Len(mints') = n /\ mints'[n] = m
        /\ \A j \in DOMAIN mints : mints'[j] = mints[j]
        /\ DOMAIN mints' = DOMAIN mints \cup {n}
    BY <1>1, <2>2, <2>3, <2>5, AppendProperties, LenProperties
  <2>7. PICK q : q = [request[r] EXCEPT !.pc = "sent", !.tx = n]
    OBVIOUS
  <2>8. /\ request[r] \in Post /\ q \in Post /\ q.pc = "sent" /\ q.tx = n
        /\ q.wallet = request[r].wallet
    BY <1>1, <2>4, <2>7, Sends
  <2>9. request' = [request EXCEPT ![r] = q]
    BY <2>3, <2>7
  <2>10. /\ request' \in [Tabs -> Post] /\ request'[r] = q
         /\ \A s \in Tabs : s # r => request'[s] = request[s]
    BY <1>1, <2>8, <2>9, RequestWrites
  <2>11. ServiceTypeOK'
    BY <1>1, <2>3, <2>6, <2>10 DEF ServiceTypeOK
  <2>12. RequestsReserve' /\ CooldownsEnd' /\ DownIsEmpty'
    BY <1>1, <2>3, <2>8, <2>10 DEF RequestsReserve, CooldownsEnd, DownIsEmpty, Working, InCooldown
  <2>13. WaitsForOwn'
    BY <1>1, <2>5, <2>6, <2>8, <2>10 DEF WaitsForOwn
  <2>14. KnownCounts'
    <3> SUFFICES ASSUME NEW j \in DOMAIN mints'
                 PROVE  /\ mints'[j].at <= clock
                        /\ mints'[j].known =>
                             \/ Recorded(j)'
                             \/ \E s \in Tabs : request'[s].pc = "sent" /\ request'[s].tx = j
      BY <2>3 DEF KnownCounts
    <3>1. CASE j = n
      BY <1>1, <2>5, <2>6, <2>8, <2>10, <3>1
    <3>2. CASE j \in DOMAIN mints
      <4>1. mints'[j] = mints[j] /\ (Recorded(j) => Recorded(j)')
        BY <2>3, <2>6, <3>2 DEF Recorded
      <4>2. ASSUME NEW s \in Tabs, request[s].pc = "sent", request[s].tx = j
            PROVE  request'[s] = request[s]
        BY <2>3, <2>10, <4>2
      <4> QED BY <1>1, <3>2, <4>1, <4>2 DEF KnownCounts
    <3> QED BY <2>6, <3>1, <3>2
  <2> QED BY <2>11, <2>12, <2>13, <2>14 DEF MintInv
<1>8. ASSUME NEW r \in Tabs, MintConfirmed(r)
      PROVE  MintInv'
  <2> DEFINE i == request[r].tx
             w == request[r].wallet
  <2>1. /\ request[r].pc = "sent" /\ Working(r) /\ mints[i].state = "landed"
        /\ releaseClaim(w, TRUE) /\ Answered(r) /\ UNCHANGED <<clock, up, mints>>
    BY <1>8 DEF MintConfirmed, Working, chain
  <2>2. /\ request' \in [Tabs -> Post] /\ ~Working(r)'
        /\ \A s \in Tabs : s # r => request'[s] = request[s]
        /\ RequestsReserve' /\ CooldownsEnd'
        /\ \A v \in DOMAIN lastClaim' : lastClaim'[v] \in Nat
        /\ \A v \in DOMAIN lastClaim :
             v \in DOMAIN lastClaim' /\ lastClaim'[v] \in {lastClaim[v], clock}
    BY <2>1, ReleaseKeeps
  <2>3. w \in DOMAIN lastClaim' /\ lastClaim'[w] = clock
    BY <2>1 DEF releaseClaim, With
  <2>4. i \in DOMAIN mints /\ mints[i].wallet = w
    BY <1>1, <2>1 DEF WaitsForOwn
  <2>5. ServiceTypeOK' /\ WaitsForOwn' /\ DownIsEmpty'
    BY <1>1, <2>1, <2>2 DEF ServiceTypeOK, WaitsForOwn, DownIsEmpty, Working
  <2>6. ASSUME NEW j \in DOMAIN mints, Recorded(j)
        PROVE  Recorded(j)'
    BY <1>1, <1>2, <2>1, <2>2, <2>6 DEF Recorded, KnownCounts
  <2>7. ASSUME NEW j \in DOMAIN mints, NEW s \in Tabs, request[s].pc = "sent",
               request[s].tx = j
        PROVE  Recorded(j)' \/ (request'[s].pc = "sent" /\ request'[s].tx = j)
    <3>1. CASE s = r
      BY <1>1, <1>2, <2>1, <2>3, <2>4, <2>7, <3>1 DEF Recorded, KnownCounts
    <3>2. CASE s # r
      BY <2>2, <2>7, <3>2
    <3> QED BY <3>1, <3>2
  <2>8. KnownCounts'
    BY <1>1, <2>1, <2>6, <2>7 DEF KnownCounts
  <2> QED BY <2>2, <2>5, <2>8 DEF MintInv
<1>9. ASSUME NEW r \in Tabs, MintFailed(r)
      PROVE  MintInv'
  <2> DEFINE i == request[r].tx
             w == request[r].wallet
  <2>1. /\ Working(r) /\ releaseClaim(w, FALSE) /\ Answered(r) /\ UNCHANGED <<clock, up>>
    BY <1>9 DEF MintFailed, Working
  <2>2. /\ request' \in [Tabs -> Post] /\ ~Working(r)'
        /\ \A s \in Tabs : s # r => request'[s] = request[s]
        /\ RequestsReserve' /\ CooldownsEnd'
        /\ UNCHANGED lastClaim
    BY <2>1, ReleaseKeeps DEF releaseClaim
  <2>3. CASE request[r].pc = "building" /\ UNCHANGED mints
    <3>1. ServiceTypeOK' /\ WaitsForOwn' /\ DownIsEmpty'
      BY <1>1, <2>1, <2>2, <2>3 DEF ServiceTypeOK, WaitsForOwn, DownIsEmpty, Working
    <3>2. KnownCounts'
      BY <1>1, <2>1, <2>2, <2>3 DEF KnownCounts, Recorded
    <3> QED BY <2>2, <3>1, <3>2 DEF MintInv
  <2>4. CASE request[r].pc = "sent" /\ mints' = Forget(i)
    <3>1. i \in DOMAIN mints /\ mints[i] \in Mint
      BY <1>1, <1>2, <2>4 DEF WaitsForOwn
    <3>2. PICK m : m = [mints[i] EXCEPT !.known = FALSE]
      OBVIOUS
    <3>3. /\ m \in Mint /\ ~m.known /\ m.at = mints[i].at /\ m.wallet = mints[i].wallet
      BY <3>1, <3>2 DEF Mint
    <3>4. mints' = [mints EXCEPT ![i] = m]
      BY <2>4, <3>2 DEF Forget
    <3>5. /\ mints' \in Seq(Mint) /\ DOMAIN mints' = DOMAIN mints
          /\ mints'[i] = m /\ \A j \in DOMAIN mints : j # i => mints'[j] = mints[j]
      BY <1>1, <3>1, <3>3, <3>4, MintWrites
    <3>6. ServiceTypeOK' /\ WaitsForOwn' /\ DownIsEmpty'
      BY <1>1, <2>1, <2>2, <3>3, <3>5, SMTT(30) DEF ServiceTypeOK, WaitsForOwn, DownIsEmpty, Working
    <3>7. KnownCounts'
      <4> SUFFICES ASSUME NEW j \in DOMAIN mints
                   PROVE  /\ mints'[j].at <= clock
                          /\ mints'[j].known =>
                               \/ Recorded(j)'
                               \/ \E s \in Tabs : request'[s].pc = "sent" /\ request'[s].tx = j
        BY <2>1, <3>5 DEF KnownCounts
      <4>1. CASE j = i
        BY <1>1, <3>1, <3>3, <3>5, <4>1 DEF KnownCounts
      <4>2. CASE j # i
        BY <1>1, <2>2, <3>5, <4>2 DEF KnownCounts, Recorded
      <4> QED BY <4>1, <4>2
    <3> QED BY <2>2, <3>6, <3>7 DEF MintInv
  <2> QED BY <1>9, <2>3, <2>4 DEF MintFailed
<1>10. CASE Boot
  BY <1>1, <1>10 DEF Boot, chain, names, MintInv, ServiceTypeOK, RequestsReserve, CooldownsEnd,
                     WaitsForOwn, KnownCounts, DownIsEmpty, Working, InCooldown, Recorded, EmptyMap
<1>11. CASE Crash
  <2>1. /\ request' = [r \in Tabs |-> Idle] /\ lastClaim' = EmptyMap /\ pendingClaims' = {}
        /\ mints' = [i \in DOMAIN mints |-> [mints[i] EXCEPT !.known = FALSE]]
        /\ UNCHANGED clock
    BY <1>11 DEF Crash
  <2>2. ASSUME NEW i \in DOMAIN mints
        PROVE  mints'[i] \in Mint /\ ~mints'[i].known /\ mints'[i].at = mints[i].at
    BY <1>2, <2>1 DEF Mint
  <2>3. mints' \in Seq(Mint) /\ DOMAIN mints' = DOMAIN mints
    BY <1>1, <2>1, <2>2
  <2>4. request' \in [Tabs -> Post] /\ \A r \in Tabs : request'[r].pc = "idle"
    BY <2>1 DEF Idle, Post
  <2>5. ServiceTypeOK' /\ KnownCounts'
    BY <1>1, <2>1, <2>2, <2>3, <2>4 DEF ServiceTypeOK, KnownCounts, EmptyMap
  <2> QED BY <2>1, <2>4, <2>5
             DEF MintInv, RequestsReserve, CooldownsEnd, WaitsForOwn, DownIsEmpty, Working
<1>12. CASE Tick
  <2>1. clock' = clock + 1 /\ UNCHANGED <<up, lastClaim, pendingClaims, mints, request>>
    BY <1>12 DEF Tick, service, chain
  <2>2. CooldownsEnd'
    BY <1>1, <2>1, FaucetAssumption DEF CooldownsEnd, InCooldown
  <2>3. KnownCounts'
    BY <1>1, <1>2, <2>1 DEF KnownCounts, Recorded
  <2> QED BY <1>1, <2>1, <2>2, <2>3
             DEF MintInv, ServiceTypeOK, RequestsReserve, WaitsForOwn, DownIsEmpty, Working
<1>13. ASSUME ReloadPage \/ (\E w \in Wallets : FetchNickname(w)) \/ UNCHANGED vars
       PROVE  MintInv'
  BY <1>3, <1>13 DEF ReloadPage, FetchNickname, vars, service, chain
<1> QED BY <1>4, <1>5, <1>6, <1>7, <1>8, <1>9, <1>10, <1>11, <1>12, <1>13 DEF Next

(* The service starts with nothing.                                        *)
LEMMA MintInvInit == Init => MintInv
BY DEF Init, MintInv, ServiceTypeOK, RequestsReserve, CooldownsEnd, WaitsForOwn, KnownCounts,
       DownIsEmpty, Working, Idle, Post, EmptyMap

(* A wallet is sent a second mint only after the cooldown of every earlier *)
(* one the service knows of: two tabs, a slow confirmation and a clock     *)
(* that moves on between check and mint make no difference.                *)
THEOREM MintsKeepTheirDistance == Spec => MintsAreSpaced
<1>1. MintInv /\ [Next]_vars => MintInv'
  BY MintInvStep
<1>2. ASSUME MintInv, [Next]_vars, NEW w \in Wallets, Len(mints') > Len(mints),
             Last(mints').wallet = w, NEW i \in DOMAIN mints, mints[i].wallet = w, mints[i].known
      PROVE  mints[i].state = "landed" /\ clock - mints[i].at >= Cooldown
  <2>1. /\ clock \in Nat /\ mints \in Seq(Mint) /\ Len(mints) \in Nat
        /\ DOMAIN mints = 1..Len(mints)
        /\ \A v \in DOMAIN lastClaim : lastClaim[v] \in Nat
    BY <1>2, LenProperties DEF MintInv, ServiceTypeOK
  <2>2. PICK r \in Tabs : mintToRecipient(r)
    <3>1. ASSUME NEW j \in DOMAIN mints, NEW m, mints' = [mints EXCEPT ![j] = m]
          PROVE  FALSE
      BY <1>2, <2>1, <3>1, LenProperties
    <3>2. ASSUME NEW j \in DOMAIN mints, Land(j) \/ Expire(j)
          PROVE  FALSE
      BY <3>1, <3>2 DEF Land, Expire
    <3>3. ~Crash
      BY <1>2, <2>1, LenProperties DEF Crash
    <3>4. ASSUME NEW r \in Tabs, MintFailed(r)
          PROVE  FALSE
      BY <1>2, <2>1, <3>1, <3>4 DEF MintFailed, Forget, MintInv, WaitsForOwn
    <3>5. mints' # mints
      BY <1>2, <2>1
    <3> QED BY <1>2, <3>2, <3>3, <3>4, <3>5
            DEF Next, vars, chain, Boot, Tick, ReloadPage, FetchNickname, requestFaucet,
                MintConfirmed
  <2>3. PICK m : m = [wallet |-> request[r].wallet, state |-> "sent", at |-> 0, known |-> TRUE]
    OBVIOUS
  <2>4. request[r].pc = "building" /\ mints' = Append(mints, m)
    BY <2>2, <2>3 DEF mintToRecipient
  <2>5. request[r].wallet = w
    <3>1. request[r].wallet \in Wallets
      BY <1>2, <2>4 DEF MintInv, RequestsReserve, Working
    <3>2. m \in Mint
      BY <2>3, <3>1 DEF Mint
    <3>3. Len(mints') = Len(mints) + 1 /\ mints'[Len(mints) + 1] = m
      BY <2>1, <2>4, <3>2, AppendProperties
    <3> QED BY <1>2, <2>3, <3>3 DEF Last
  <2>6. Recorded(i)
    <3>1. ASSUME NEW s \in Tabs, request[s].pc = "sent", request[s].tx = i
          PROVE  FALSE
      BY <1>2, <2>4, <2>5, <3>1 DEF MintInv, WaitsForOwn, RequestsReserve, Working
    <3> QED BY <1>2, <3>1 DEF MintInv, KnownCounts
  <2>7. ~InCooldown(w)
    BY <1>2, <2>4, <2>5 DEF MintInv, CooldownsEnd
  <2>8. mints[i].at \in Nat
    <3>1. mints[i] \in Mint
      BY <2>1, ElementOfSeq
    <3> QED BY <3>1 DEF Mint
  <2> QED BY <1>2, <2>1, <2>6, <2>7, <2>8, FaucetAssumption, SMTT(30) DEF Recorded, InCooldown
<1>3. MintInv /\ [Next]_vars =>
        [\A w \in Wallets :
           Len(mints') > Len(mints) /\ Last(mints').wallet = w =>
             \A i \in DOMAIN mints :
               mints[i].wallet = w /\ mints[i].known =>
                 mints[i].state = "landed" /\ clock - mints[i].at >= Cooldown]_vars
  BY <1>2
<1> QED BY <1>1, <1>3, MintInvInit, PTL DEF Spec, MintsAreSpaced

-----------------------------------------------------------------------------
(* Names.                                                                  *)

(* A set of numbers that is not empty has a least one.                     *)
LEMMA LeastExists ==
  ASSUME NEW S \in SUBSET Nat, S # {}
  PROVE  Min(S) \in S
<1>1. \E x \in S : \A y \in S : ~(<<y, x>> \in OpToRel(<, Nat))
  BY NatLessThanWellFounded, WFMin
<1>2. PICK x \in S : \A y \in S : ~(y < x)
  BY <1>1 DEF OpToRel
<1>3. \A y \in S : x <= y
  BY <1>2
<1> QED BY <1>2, <1>3 DEF Min

(* The name a wallet is given is its own, or nobody's.                     *)
LEMMA AssignedNameIsFree ==
  ASSUME NEW w, CanAssign(w), w \notin DOMAIN nicknames
  PROVE  ~Taken(AssignedName(w))
<1> DEFINE C == Candidates(w)
           I == {i \in 1..Len(C) : ~Taken(C[i])}
<1>1. DOMAIN C = 1..Len(C) /\ Len(C) \in Nat
  <2> DEFINE bare == [i \in 1..BareLimit |-> probeCandidate(w, i - 1)]
             more == [i \in 1..(SuffixMax - 1) |-> [probeCandidate(w, 0) EXCEPT !.suffix = i + 1]]
             S == {bare[i] : i \in 1..BareLimit} \cup {more[i] : i \in 1..(SuffixMax - 1)}
  <2>1. bare \in Seq(S) /\ more \in Seq(S)
    <3>1. BareLimit \in Nat /\ SuffixMax - 1 \in Nat
      BY FaucetAssumption
    <3>2. bare \in [1..BareLimit -> S] /\ more \in [1..(SuffixMax - 1) -> S]
      OBVIOUS
    <3>3. Seq(S) = UNION {[1..n -> S] : n \in Nat}
      BY SeqDef
    <3> HIDE DEF bare, more, S
    <3> QED BY <3>1, <3>2, <3>3
  <2>2. C \in Seq(S)
    BY <2>1, ConcatProperties DEF Candidates
  <2> QED BY <2>2, LenProperties
<1>2. I # {} /\ I \in SUBSET Nat
  BY <1>1 DEF CanAssign
<1>3. Min(I) \in I
  BY <1>2, LeastExists
<1>4. AssignedName(w) = C[Min(I)]
  BY <1>2 DEF AssignedName, SelectInSeq
<1> QED BY <1>3, <1>4

(* Rows are only added, and under a name that no other row has.            *)
LEMMA RegistryGrows ==
  ASSUME NamesAreKept, NEW w, assignNickname(w)
  PROVE  /\ assertSchemaInvariants'
         /\ \A v \in DOMAIN nicknames : v \in DOMAIN nicknames' /\ nicknames'[v] = nicknames[v]
<1>1. CASE ~CanAssign(w)
  BY <1>1 DEF assignNickname, assertSchemaInvariants, NamesAreKept
<1>2. CASE CanAssign(w) /\ w \in DOMAIN nicknames
  <2>1. nicknames' = With(nicknames, w, nicknames[w])
    BY <1>2 DEF assignNickname, AssignedName
  <2> QED BY <1>2, <2>1 DEF With, assertSchemaInvariants, NamesAreKept
<1>3. CASE CanAssign(w) /\ w \notin DOMAIN nicknames
  <2>1. nicknames' = With(nicknames, w, AssignedName(w))
    BY <1>3 DEF assignNickname
  <2>2. \A v \in DOMAIN nicknames : nicknames[v] # AssignedName(w)
    BY <1>3, AssignedNameIsFree DEF Taken
  <2> QED BY <1>3, <2>1, <2>2 DEF With, assertSchemaInvariants, NamesAreKept
<1> QED BY <1>1, <1>2, <1>3

(* What the browser keeps was a row when it was answered, and rows stay.   *)
LEMMA NamesStep ==
  ASSUME NamesAreKept, [Next]_vars
  PROVE  NamesAreKept'
<1>1. ASSUME UNCHANGED names
      PROVE  NamesAreKept'
  BY <1>1 DEF names, NamesAreKept, assertSchemaInvariants
<1>2. ASSUME NEW w, FetchNickname(w)
      PROVE  NamesAreKept'
  <2>1. /\ assertSchemaInvariants'
        /\ \A v \in DOMAIN nicknames : v \in DOMAIN nicknames' /\ nicknames'[v] = nicknames[v]
    BY <1>2, RegistryGrows DEF FetchNickname
  <2>2. CASE UNCHANGED <<cached, stored>>
    BY <2>1, <2>2 DEF NamesAreKept
  <2>3. CASE /\ w \in DOMAIN nicknames'
             /\ cached' = With(cached, w, nicknames'[w])
             /\ stored' \in {stored, With(stored, w, nicknames'[w])}
    BY <2>1, <2>3 DEF NamesAreKept, With
  <2> QED BY <1>2, <2>2, <2>3 DEF FetchNickname
<1>3. ASSUME NEW r \in Tabs, MintConfirmed(r)
      PROVE  NamesAreKept'
  <2>1. /\ assertSchemaInvariants'
        /\ \A v \in DOMAIN nicknames : v \in DOMAIN nicknames' /\ nicknames'[v] = nicknames[v]
    BY <1>3, RegistryGrows DEF MintConfirmed
  <2> QED BY <1>3, <2>1 DEF MintConfirmed, NamesAreKept
<1>4. CASE ReloadPage
  BY <1>4 DEF ReloadPage, NamesAreKept, assertSchemaInvariants
<1> QED BY <1>1, <1>2, <1>3, <1>4
        DEF Next, vars, Boot, Crash, Tick, Land, Expire, requestFaucet, mintToRecipient, MintFailed

(* A name belongs to one wallet, and what a browser shows or has stored    *)
(* for a wallet is the name of its row, for any hashes and word lists, and *)
(* through restarts, reloads and lost answers.                             *)
THEOREM NamesBelong == Spec => []NamesAreKept
<1>1. Init => NamesAreKept
  BY DEF Init, EmptyMap, NamesAreKept, assertSchemaInvariants
<1> QED BY <1>1, NamesStep, PTL DEF Spec
=============================================================================
