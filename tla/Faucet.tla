-------------------------------- MODULE Faucet --------------------------------
(***************************************************************************)
(* The faucet: a service that mints test tokens to a wallet, at most once  *)
(* per cooldown, and keeps a registry of one nickname per wallet; with it  *)
(* the chain it sends its transactions to and the browser that asks it.    *)
(* The rate limit lives in memory and is forgotten by a restart; the       *)
(* registry is a file and the browser's names are kept in localStorage.    *)
(***************************************************************************)
EXTENDS Integers, Sequences, FiniteSets, SequencesExt

CONSTANTS
  Wallets,
  Tabs,             \* browser tabs, each with one POST at a time
  Cooldown,         \* CONFIG.cooldownMs in ticks of the clock
  Amount,           \* CONFIG.faucetAmountWhole
  FLIP_SCALE, U64,
  ADJECTIVES, NOUNS,
  Digest,           \* Digest[w]: the bytes of the hash of w's seed, in order
  BareLimit,        \* limits.bareLimit
  SuffixMax,        \* limits.suffixMax
  MIN_SOL_LAMPORTS,
  Funds,            \* the lamports the service may be given
  TxFee, AtaRent,   \* what a transaction and a new token account cost
  MaxClock, MaxMints, MaxRestarts,   \* bounds
  Nobody            \* a recipient that is no address

ASSUME FaucetAssumption ==
  /\ \A w \in Wallets : Digest[w] \in Seq(0..(Len(NOUNS) - 1))
  /\ Cooldown \in Nat \ {0} /\ Amount \in Nat \ {0} /\ Nobody \notin Wallets
  /\ BareLimit \in Nat \ {0} /\ SuffixMax \in Nat \ {0}

VARIABLES
  clock,
  up,             \* the process serves
  restarts,
  lastClaim,      \* [the wallets that got a mint -> when it was confirmed]
  pendingClaims,  \* the wallets that are being minted to
  nicknames,      \* the registry: [the wallets that have a row -> their name]
  lamports,       \* the authority's balance
  atas,           \* the wallets that have a token account
  mints,          \* the transactions sent, in order
  request,        \* [Tabs -> the POST the service is working on]
  cached,         \* React Query's display names: [wallets -> name]
  stored          \* localStorage's display names

service == <<up, restarts, lastClaim, pendingClaims>>
chain == <<lamports, atas, mints>>
names == <<nicknames, cached, stored>>
vars == <<clock, service, chain, names, request>>

EmptyMap == [w \in {} |-> 0]
With(f, w, x) == [v \in DOMAIN f \cup {w} |-> IF v = w THEN x ELSE f[v]]
Idle == [pc |-> "idle", wallet |-> Nobody, tx |-> 0]

-----------------------------------------------------------------------------
(* The registry.                                                           *)

probeCandidate(w, i) ==
  [adjective |-> ADJECTIVES[Digest[w][2 * i + 1] + 1],
   noun |-> NOUNS[Digest[w][2 * i + 2] + 1], suffix |-> 0]

(* The bare names of the wallet, then its first one with a number.         *)
Candidates(w) ==
  [i \in 1..BareLimit |-> probeCandidate(w, i - 1)]
    \o [i \in 1..(SuffixMax - 1) |-> [probeCandidate(w, 0) EXCEPT !.suffix = i + 1]]

Taken(name) == \E v \in DOMAIN nicknames : nicknames[v] = name

(* The name a wallet gets: its row, or else the first candidate that the   *)
(* UNIQUE constraint lets in.  None when all of them are taken.            *)
CanAssign(w) ==
  w \in DOMAIN nicknames \/ \E i \in DOMAIN Candidates(w) : ~Taken(Candidates(w)[i])
AssignedName(w) ==
  IF w \in DOMAIN nicknames THEN nicknames[w]
  ELSE Candidates(w)[SelectInSeq(Candidates(w), LAMBDA name : ~Taken(name))]
(* Mutant: the insert replaces the row that holds the name.                *)
assignNicknameOver(w) ==
  LET name == probeCandidate(w, 0)
  IN nicknames' = With([v \in {u \in DOMAIN nicknames : nicknames[u] # name} |-> nicknames[v]],
                       w, name)
assignNickname(w) ==
  nicknames' = IF CanAssign(w) THEN With(nicknames, w, AssignedName(w)) ELSE nicknames

(* What index.ts refuses to serve with.                                    *)
assertSchemaInvariants == \A v, w \in DOMAIN nicknames : nicknames[v] = nicknames[w] => v = w

-----------------------------------------------------------------------------
(* The rate limit.                                                         *)

InCooldown(w) == w \in DOMAIN lastClaim /\ clock - lastClaim[w] < Cooldown
(* Mutant: the check of the claims that are being minted is missing.       *)
MayClaimTwice(w) == ~InCooldown(w)
MayClaim(w) == w \notin pendingClaims /\ ~InCooldown(w)

(* Mutant: a failed mint keeps its reservation.                            *)
releaseOnSuccess(w, success) ==
  /\ pendingClaims' = IF success THEN pendingClaims \ {w} ELSE pendingClaims
  /\ lastClaim' = IF success THEN With(lastClaim, w, clock) ELSE lastClaim
releaseClaim(w, success) ==
  /\ pendingClaims' = pendingClaims \ {w}
  /\ lastClaim' = IF success THEN With(lastClaim, w, clock) ELSE lastClaim

-----------------------------------------------------------------------------
(* The transaction that creates the token account if there is none and     *)
(* mints to it.                                                            *)

amountBaseUnits == Amount * FLIP_SCALE
Cost(w) == TxFee + (IF w \in atas THEN 0 ELSE AtaRent)
Forget(i) == [mints EXCEPT ![i].known = FALSE]

Land(i) ==
  /\ mints[i].state = "sent" /\ lamports >= Cost(mints[i].wallet)
  /\ mints' = [mints EXCEPT ![i].state = "landed", ![i].at = clock]
  /\ lamports' = lamports - Cost(mints[i].wallet)
  /\ atas' = atas \cup {mints[i].wallet}
  /\ UNCHANGED <<clock, service, names, request>>

Expire(i) ==
  /\ mints[i].state = "sent"
  /\ mints' = [mints EXCEPT ![i].state = "expired"]
  /\ UNCHANGED <<clock, service, names, lamports, atas, request>>

-----------------------------------------------------------------------------
(* POST /faucet.  One that is refused changes nothing: the service is      *)
(* down, the recipient is no address or the wallet is rate limited.        *)

Answered(r) == request' = [request EXCEPT ![r] = Idle]

requestFaucet(r, recipient) ==
  /\ request[r].pc = "idle" /\ up /\ recipient # Nobody
  /\ MayClaim(recipient)
  /\ request' = [request EXCEPT ![r].pc = "building", ![r].wallet = recipient]
  /\ pendingClaims' = pendingClaims \cup {recipient}
  /\ UNCHANGED <<clock, up, restarts, lastClaim, chain, names>>

mintToRecipient(r) ==
  /\ request[r].pc = "building" /\ Len(mints) < MaxMints /\ amountBaseUnits < U64
  /\ mints' = Append(mints, [wallet |-> request[r].wallet, state |-> "sent", at |-> 0,
                             known |-> TRUE])
  /\ request' = [request EXCEPT ![r].pc = "sent", ![r].tx = Len(mints) + 1]
  /\ UNCHANGED <<clock, service, lamports, atas, names>>

MintConfirmed(r) ==
  /\ request[r].pc = "sent" /\ mints[request[r].tx].state = "landed"
  /\ releaseClaim(request[r].wallet, TRUE)
  /\ assignNickname(request[r].wallet)
  /\ Answered(r)
  /\ UNCHANGED <<clock, up, restarts, chain, cached, stored>>

(* An amount past u64, no blockhash, a preflight that fails, or a          *)
(* confirmation that is lost while the transaction is on its way or landed.*)
MintFailed(r) ==
  /\ \/ request[r].pc = "building" /\ UNCHANGED mints
     \/ request[r].pc = "sent" /\ mints' = Forget(request[r].tx)
  /\ releaseClaim(request[r].wallet, FALSE)
  /\ Answered(r)
  /\ UNCHANGED <<clock, up, restarts, lamports, atas, names>>

-----------------------------------------------------------------------------
(* GET /nickname/:address and the browser's two copies of what it said.    *)

ShowsFallback(w) == w \notin DOMAIN cached

(* A tab that has no name asks.  It keeps the answer, and mirrors it to    *)
(* localStorage, unless it stopped waiting or the storage refuses.         *)
FetchNickname(w) ==
  /\ up /\ ShowsFallback(w)
  /\ assignNickname(w)
  /\ \/ UNCHANGED <<cached, stored>>
     \/ /\ w \in DOMAIN nicknames'
        /\ cached' = With(cached, w, nicknames'[w])
        /\ stored' \in {stored, With(stored, w, nicknames'[w])}
  /\ UNCHANGED <<clock, service, chain, request>>

ReloadPage ==
  /\ cached # stored /\ cached' = stored
  /\ UNCHANGED <<clock, service, chain, nicknames, stored, request>>

-----------------------------------------------------------------------------
(* The process.                                                            *)

Boot ==
  /\ ~up /\ assertSchemaInvariants /\ lamports >= MIN_SOL_LAMPORTS
  /\ up' = TRUE /\ lastClaim' = EmptyMap /\ pendingClaims' = {}
  /\ UNCHANGED <<clock, restarts, chain, names, request>>

(* The answers under way are lost with the maps.                           *)
Crash ==
  /\ up /\ restarts < MaxRestarts
  /\ up' = FALSE /\ restarts' = restarts + 1
  /\ lastClaim' = EmptyMap /\ pendingClaims' = {}
  /\ request' = [r \in Tabs |-> Idle]
  /\ mints' = [i \in DOMAIN mints |-> [mints[i] EXCEPT !.known = FALSE]]
  /\ UNCHANGED <<clock, lamports, atas, names>>

Tick == clock < MaxClock /\ clock' = clock + 1 /\ UNCHANGED <<service, chain, names, request>>

Init ==
  /\ clock = 0 /\ up = FALSE /\ restarts = 0
  /\ lastClaim = EmptyMap /\ pendingClaims = {}
  /\ nicknames = EmptyMap /\ cached = EmptyMap /\ stored = EmptyMap
  /\ lamports \in Funds /\ atas = {} /\ mints = << >>
  /\ request = [r \in Tabs |-> Idle]

Next ==
  \/ Boot \/ Crash \/ Tick \/ ReloadPage
  \/ \E i \in DOMAIN mints : Land(i) \/ Expire(i)
  \/ \E w \in Wallets : FetchNickname(w)
  \/ \E r \in Tabs :
       \/ \E w \in Wallets \cup {Nobody} : requestFaucet(r, w)
       \/ mintToRecipient(r) \/ MintConfirmed(r) \/ MintFailed(r)

Spec == Init /\ [][Next]_vars

(* An awaited RPC call is answered or fails some time: a transaction has a *)
(* block height after which the confirmation throws.                       *)
FairSpec ==
  Spec /\ \A r \in Tabs : WF_vars(mintToRecipient(r) \/ MintConfirmed(r) \/ MintFailed(r))

-----------------------------------------------------------------------------
Names == {Candidates(w)[i] : w \in Wallets, i \in 1..(BareLimit + SuffixMax - 1)}

TypeOK ==
  /\ clock \in 0..MaxClock /\ restarts \in 0..MaxRestarts /\ up \in BOOLEAN
  /\ DOMAIN lastClaim \subseteq Wallets /\ pendingClaims \subseteq Wallets
  /\ \A f \in {nicknames, cached, stored} :
       DOMAIN f \subseteq Wallets /\ \A w \in DOMAIN f : f[w] \in Names
  /\ lamports \in Nat /\ atas \subseteq Wallets
  /\ mints \in Seq([wallet : Wallets, state : {"sent", "landed", "expired"},
                    at : 0..MaxClock, known : BOOLEAN])
  /\ \A r \in Tabs :
       request[r].pc \in {"building", "sent"} =>
         request[r].wallet \in pendingClaims /\ (request[r].pc = "sent" => request[r].tx \in DOMAIN mints)

(* rate-limit.ts:8-12: a wallet is sent a second mint only when the        *)
(* service knows of no other to it that is under way or younger than the   *)
(* cooldown.  It forgets one by a restart and by a confirmation that fails *)
(* while the transaction lands.                                            *)
MintsAreSpaced ==
  [][\A w \in Wallets :
       Len(mints') > Len(mints) /\ Last(mints').wallet = w =>
         \A i \in DOMAIN mints :
           mints[i].wallet = w /\ mints[i].known =>
             mints[i].state = "landed" /\ clock - mints[i].at >= Cooldown]_vars

(* server.ts:167-169: every reservation is given up, on each way out of    *)
(* the handler, and the wallet may ask again.                              *)
ClaimsAreReleased == \A w \in Wallets : w \in pendingClaims ~> w \notin pendingClaims

(* assign.ts:154-181 and use-display-name.ts: through collisions, lost     *)
(* answers, restarts and reloads a name belongs to one wallet, and what    *)
(* the browser shows or keeps for a wallet is its row in the registry.     *)
NamesAreKept ==
  /\ assertSchemaInvariants
  /\ \A w \in DOMAIN cached : w \in DOMAIN nicknames /\ cached[w] = nicknames[w]
  /\ \A w \in DOMAIN stored : w \in DOMAIN nicknames /\ stored[w] = nicknames[w]
=============================================================================
