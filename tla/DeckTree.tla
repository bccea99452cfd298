------------------------------ MODULE DeckTree ------------------------------
(***************************************************************************)
(* How the dealer shuffles, commits to and reveals a deck, and how the     *)
(* program and the circuit check it.  Poseidon is taken as free of         *)
(* collisions: a hash is the tuple of what is hashed.  A Groth16 proof is  *)
(* what it proves: the public inputs for which the circuit has a witness.  *)
(***************************************************************************)
EXTENDS Wire

CONSTANTS
  SUITS,        \* 4, and the alpha cards run from 1 to
  VALUES,       \* 13 in each
  EFFECTS,      \* how many of each protocol effect (10)
  MULTIPLIERS,  \* the multipliers, <<2, 3, 5>>, with
  COPIES,       \* 4 of each
  TREE_DEPTH    \* 7

VARIABLES
  permutation,  \* the array being shuffled: where each card comes from
  next          \* the position the shuffle swaps next, counting down to 1

PowersOfTwo[d \in 0..TREE_DEPTH] == IF d = 0 THEN 1 ELSE 2 * PowersOfTwo[d - 1]
NUM_LEAVES == PowersOfTwo[TREE_DEPTH]

DeckCard(type, value, suit) == [value |-> value, card_type |-> type, suit |-> suit]
createCanonicalDeck ==
  FlattenSeq([s \in 1..SUITS |-> [v \in 1..VALUES |-> DeckCard(0, v, s - 1)]])
  \o FlattenSeq([e \in 1..3 |-> [i \in 1..EFFECTS |-> DeckCard(1, e - 1, 0)]])
  \o FlattenSeq([m \in DOMAIN MULTIPLIERS |->
                   [i \in 1..COPIES |-> DeckCard(2, MULTIPLIERS[m], 0)]])
CanonicalSize == Len(createCanonicalDeck)

ASSUME DeckAssumption ==
  /\ {SUITS, VALUES, EFFECTS, COPIES, TREE_DEPTH} \subseteq Nat
  /\ MULTIPLIERS \in Seq(Nat)
  /\ CanonicalSize <= NUM_LEAVES

(* fisherYatesShuffle: one step is one swap with a random earlier or equal *)
(* position.                                                               *)
ShuffleInit == permutation = [i \in 1..CanonicalSize |-> i] /\ next = CanonicalSize
ShuffleStep ==
  /\ next > 1
  /\ \E j \in 1..next :
       permutation' = [permutation EXCEPT ![next] = permutation[j], ![j] = permutation[next]]
  /\ next' = next - 1
Shuffled == next = 1

applyPermutation(canonical, perm) == [i \in DOMAIN perm |-> canonical[perm[i]]]

-----------------------------------------------------------------------------
hashCardLeaf(c, index) == <<c.value, c.card_type, c.suit, index>>
hashPair(left, right) == <<left, right>>
Padding == DeckCard(0, 0, 0)

(* The levels of the tree, leaves first; leaf i is at position i + 1.      *)
buildMerkleTree(deck) ==
  LET leaves == [i \in 1..NUM_LEAVES |->
                   hashCardLeaf(IF i \in DOMAIN deck THEN deck[i] ELSE Padding, i - 1)]
      levels[d \in 0..TREE_DEPTH] ==
        IF d = 0 THEN leaves
        ELSE [i \in 1..(Len(levels[d - 1]) \div 2) |->
                hashPair(levels[d - 1][2 * i - 1], levels[d - 1][2 * i])]
  IN  levels
RootOf(tree) == tree[TREE_DEPTH][1]

SiblingOf(index) == IF index % 2 = 0 THEN index + 1 ELSE index - 1
IndicesUp(leafIndex) ==
  LET idx[level \in 0..TREE_DEPTH] == IF level = 0 THEN leafIndex ELSE idx[level - 1] \div 2
  IN  idx
ProofOnOneSide(tree, leafIndex) ==                             \* mutant
  [level \in 1..TREE_DEPTH |-> tree[level - 1][IndicesUp(leafIndex)[level - 1] + 1]]
getMerkleProof(tree, leafIndex) ==
  [level \in 1..TREE_DEPTH |-> tree[level - 1][SiblingOf(IndicesUp(leafIndex)[level - 1]) + 1]]

(* The dealer's cursor, which reveals a card with its proof.               *)
revealNextCard(deck, tree, nextLeafIndex) ==
  [card |-> deck[nextLeafIndex + 1], leafIndex |-> nextLeafIndex,
   proof |-> getMerkleProof(tree, nextLeafIndex)]

(* The program's walk from the leaf up to the root.                        *)
verify_merkle_proof(card, leaf_index, proof, root) ==
  FoldLeft(LAMBDA node, sibling :
             [current |-> IF node.index % 2 = 0 THEN hashPair(node.current, sibling)
                          ELSE hashPair(sibling, node.current),
              index |-> node.index \div 2],
           [current |-> hashCardLeaf(card, leaf_index), index |-> leaf_index],
           proof).current = root

-----------------------------------------------------------------------------
(* The canonical deck's hash is a chain over its cards' leaves.            *)
computeCanonicalHash(deck) ==
  FoldLeft(LAMBDA running, i : hashPair(running, hashCardLeaf(deck[i], i - 1)),
           hashCardLeaf(deck[1], 0), [i \in 1..(Len(deck) - 1) |-> i + 1])

(* The circuit: a bijection of the canonical deck with this root.          *)
ShuffleVerify(merkle_root, canonical_hash, perm, canonical) ==
  /\ canonical_hash = computeCanonicalHash(canonical)
  /\ {perm[i] : i \in DOMAIN perm} = DOMAIN canonical
  /\ merkle_root = RootOf(buildMerkleTree(applyPermutation(canonical, perm)))

(* A proof exists only for a true statement.  The points are known by the  *)
(* part they are: A is negated, B has its coordinates swapped.             *)
generateProof(perm, canonical, shuffled) ==
  LET root == RootOf(buildMerkleTree(shuffled))
      hash == computeCanonicalHash(canonical)
  IN  [proofA |-> "-A", proofB |-> "B swapped", proofC |-> "C", publicInputs |-> <<root, hash>>,
       valid |-> ShuffleVerify(root, hash, perm, canonical)]

packCommitDeckData(serialized) ==
  <<Chunk(32, serialized.publicInputs[1]), Chunk(64, serialized.proofA),
    Chunk(128, serialized.proofB), Chunk(64, serialized.proofC)>>
=============================================================================
