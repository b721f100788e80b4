------------------------------- MODULE Client -------------------------------
(***************************************************************************)
(* The client library (clients/ts/src), with which the prepare route       *)
(* builds the tree of an edited campaign and the scripts of the repository *)
(* build theirs: a second implementation of the tree of module Merkle.     *)
(***************************************************************************)
EXTENDS Merkle, FiniteSetsExt

(* Each field at its place in the seventy bytes. *)
EncodeLeaf(leaf) ==
    LET place == [leaf_index |-> 1, beneficiary |-> 2, amount |-> 3, release_type |-> 4,
                  start_time |-> 5, cliff_time |-> 6, end_time |-> 7, milestone_idx |-> 8]
    IN  [at \in 1 .. 8 |-> leaf[CHOOSE field \in DOMAIN place : place[field] = at]]

(* The prefixes are those of the program. *)
HashOfLeaf(leaf)        == <<"leaf", EncodeLeaf(leaf)>>
HashOfNode(left, right) == <<"node", left, right>>

(* What the constructor takes: leaves numbered in their order. *)
Constructible(leaves) ==
    /\ leaves # <<>>
    /\ \A i \in DOMAIN leaves : leaves[i].leaf_index = i - 1
    /\ MaxProofLen(Len(leaves)) <= MaxTreeDepth

(* Mutant: an odd layer is filled with its first node. *)
WorkingFirst(layer) == IF Len(layer) % 2 = 1 THEN Append(layer, layer[1]) ELSE layer

Working(layer) == IF Len(layer) % 2 = 1 THEN Append(layer, layer[Len(layer)]) ELSE layer

TreeLayers(leaves) ==
    LET Above(layer) == [i \in 1 .. Len(Working(layer)) \div 2 |->
                            HashOfNode(Working(layer)[2 * i - 1], Working(layer)[2 * i])]
        tree[k \in 0 .. Len(leaves)] ==
            IF k = 0 THEN <<[i \in DOMAIN leaves |-> HashOfLeaf(leaves[i])]>>
            ELSE LET current == tree[k - 1][Len(tree[k - 1])]
                 IN  IF Len(current) > 1 THEN Append(tree[k - 1], Above(current))
                     ELSE tree[k - 1]
    IN  tree[Len(leaves)]

(* The siblings from the layer of the leaves up; idx is halved as it goes. *)
ProofAt(layers, index) ==
    LET idx[layer \in 1 .. Len(layers)] ==
            IF layer = 1 THEN index ELSE idx[layer - 1] \div 2
        siblingIdx(layer) ==
            IF idx[layer] % 2 = 1 THEN idx[layer] - 1
            ELSE Min({idx[layer] + 1, Len(layers[layer]) - 1})
    IN  [layer \in 1 .. Len(layers) - 1 |-> layers[layer][siblingIdx(layer) + 1]]

(* verifyProof: a hash, a proof and an index that the caller gives. *)
VerifyProof(hashLeaf, proof, index, root) ==
    LET step[k \in 0 .. Len(proof)] ==
            IF k = 0 THEN [hash |-> hashLeaf, idx |-> index]
            ELSE LET before == step[k - 1]
                 IN  [hash |-> IF before.idx % 2 = 0 THEN HashOfNode(before.hash, proof[k])
                               ELSE HashOfNode(proof[k], before.hash),
                      idx  |-> before.idx \div 2]
    IN  step[Len(proof)].hash = root

(* VestingMerkleTree.verify: the same loop from the tree's own leaf. *)
VerifiesAt(layers, index, proof) ==
    VerifyProof(layers[1][index + 1], proof, index, layers[Len(layers)][1])

TotalSupply(leaves) ==
    LET sum[i \in 0 .. Len(leaves)] == IF i = 0 THEN 0 ELSE sum[i - 1] + leaves[i].amount
    IN  sum[Len(leaves)]

ComputeMinCliffTime(leaves) == Min({leaves[i].cliff_time : i \in DOMAIN leaves})

Numbered(recipients) ==
    [i \in DOMAIN recipients |->
        LET r == recipients[i]
        IN  [leaf_index |-> i - 1, beneficiary |-> r.beneficiary, amount |-> r.amount,
             release_type |-> r.release_type, start_time |-> r.start_time,
             cliff_time |-> r.cliff_time, end_time |-> r.end_time,
             milestone_idx |-> r.milestone_idx]]

PrepareCampaign(recipients) ==
    LET leaves == Numbered(recipients)
        layers == TreeLayers(leaves)
    IN  [root           |-> layers[Len(layers)][1],
         leaf_count     |-> Len(leaves),
         total_supply   |-> TotalSupply(leaves),
         min_cliff_time |-> ComputeMinCliffTime(leaves),
         leaves         |-> leaves,
         proofs         |-> [i \in DOMAIN leaves |-> ProofAt(layers, i - 1)]]

(* prepareRootRotation: the supply of the campaign stays what it is. *)
PrepareRootRotation(recipients) ==
    LET leaves == Numbered(recipients)
        layers == TreeLayers(leaves)
    IN  [root           |-> layers[Len(layers)][1],
         leaf_count     |-> Len(leaves),
         min_cliff_time |-> ComputeMinCliffTime(leaves),
         leaves         |-> leaves,
         proofs         |-> [i \in DOMAIN leaves |-> ProofAt(layers, i - 1)]]
-----------------------------------------------------------------------------
(* The library's tree is that of module Merkle; its two verifiers accept   *)
(* each of its proofs at its leaf and, handed another leaf's index or      *)
(* another leaf, refuse it.                                                *)
Agrees(recipients) ==
    LET leaves   == Numbered(recipients)
        layers   == TreeLayers(leaves)
        prepared == PrepareCampaign(recipients)
    IN  /\ Constructible(leaves)
        /\ layers = Layers(leaves) /\ prepared.root = Root(Layers(leaves))
        /\ \A i \in DOMAIN leaves : prepared.proofs[i] = Proof(Layers(leaves), i - 1)
        /\ \A i, j, k \in DOMAIN leaves :
             /\ VerifyProof(HashOfLeaf(leaves[i]), prepared.proofs[j], k - 1, prepared.root)
                  <=> i = j /\ j = k
             /\ VerifiesAt(layers, k - 1, prepared.proofs[j]) <=> j = k
        /\ LET rotation == PrepareRootRotation(recipients)
           IN  \A field \in DOMAIN rotation : rotation[field] = prepared[field]
=============================================================================
