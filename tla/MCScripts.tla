------------------------------ MODULE MCScripts ------------------------------
(***************************************************************************)
(* The scripts on small shuffles, for TLC.                                 *)
(***************************************************************************)
EXTENDS Scripts

(* Every order of a pair, a third value, a multiplier and both effects     *)
(* that look for a target.                                                 *)
ScriptCards ==
  <<[card_type |-> ALPHA, value |-> 2], [card_type |-> ALPHA, value |-> 2],
    [card_type |-> ALPHA, value |-> 3], [card_type |-> MULTIPLIER, value |-> 2],
    [card_type |-> PROTOCOL, value |-> RUG_PULL],
    [card_type |-> PROTOCOL, value |-> VAMPIRE_ATTACK]>>
Shuffles == {[i \in 1..5 |-> ScriptCards[f[i]]] : f \in {g \in [1..5 -> 1..6] : IsInjective(g)}}
=============================================================================
