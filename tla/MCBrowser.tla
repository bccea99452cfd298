------------------------------ MODULE MCBrowser ------------------------------
(***************************************************************************)
(* What one browser does, for TLC.  Each behaviour plays one scene: the    *)
(* event feed, which shares no state with the rest; the whole of App over  *)
(* a short history; or two presses of one button over a long one, with     *)
(* another round in it, where the cache is only read (and the wallet only  *)
(* reconnected where few buttons are in play) and cards are drawn only for *)
(* the hit.                                                                *)
(***************************************************************************)
EXTENDS App, EventFeed

VARIABLE scene

(* The moments a scene lasts; a second chance in each of two rounds takes  *)
(* seven.                                                                  *)
Moments ==
  [cache |-> 4, join |-> 5, stay |-> 5, hit |-> 6, scry |-> 6, second_chance |-> 7]

BrowserInit ==
  /\ scene \in DOMAIN Moments \cup {"feed"} /\ AppInit /\ FeedInit
  /\ scene \in {"feed", "cache"} => Chain.me = "out"

Acting ==
  \E i \in DOMAIN acts :
    \/ Build(i) \/ fetchDealerReveal(i) \/ preSimulateTransaction(i)
    \/ walletSignTransaction(i) \/ Fail(i) \/ Confirm(i) \/ GiveUp(i)
    \/ Land(i) \/ Expire(i)

PressTwice ==
  /\ \/ OthersMove \/ Press(scene) \/ Acting \/ ReadAccount \/ StoreAnswer
     \/ scene \in {"join", "stay"} /\ (Connect \/ Disconnect)
  /\ scene # "hit" => Chain'.drawn = 0

BrowserNext ==
  /\ UNCHANGED scene
  /\ \/ scene \in Kinds /\ PressTwice /\ Version' <= Moments[scene] /\ UNCHANGED feedVars
     \/ scene = "cache" /\ AppNext /\ Version' <= Moments[scene] /\ UNCHANGED feedVars
     \/ scene = "feed" /\ FeedNext /\ UNCHANGED appVars

BrowserSpec == BrowserInit /\ [][BrowserNext]_<<scene, appVars, feedVars>>
=============================================================================
