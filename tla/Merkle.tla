------------------------------- MODULE Merkle -------------------------------
(***************************************************************************)
(* The Merkle tree of a campaign: how the web application builds it and    *)
(* its proofs (lib/merkle/builder.ts; the client library's own version is  *)
(* module Client), how the program verifies a proof                        *)
(* (math/merkle.rs) and how the server does (lib/merkle/verify.ts).        *)
(*                                                                         *)
(* keccak256 is taken to be injective, and the prefixes of leaves and      *)
(* nodes to keep them apart: a hash is the tuple of what was hashed.       *)
(***************************************************************************)
EXTENDS VestingMath, Sequences

CONSTANT MaxTreeDepth   \* 20 in the code

ASSUME DepthAssumption == MaxTreeDepth \in 0 .. 32

(* encodeLeaf: the fields one after the other, in the order of the         *)
(* program's VestingLeaf.                                                  *)
Encoded(leaf) ==
    <<leaf.leaf_index, leaf.beneficiary, leaf.amount, leaf.release_type,
      leaf.start_time, leaf.cliff_time, leaf.end_time, leaf.milestone_idx>>

(* Mutant: the index is left out of what is hashed. *)
LeafHashOfRow(leaf) == <<"leaf", Tail(Encoded(leaf))>>

LeafHash(leaf)        == <<"leaf", Encoded(leaf)>>
NodeHash(left, right) == <<"node", left, right>>
-----------------------------------------------------------------------------
(* -------------------------------- builder ------------------------------ *)
(* Pairs are hashed; the last node of an odd layer is paired with itself.  *)
NextLayer(layer) ==
    [i \in 1 .. (Len(layer) + 1) \div 2 |->
        NodeHash(layer[2 * i - 1], layer[IF 2 * i > Len(layer) THEN Len(layer) ELSE 2 * i])]

(* What the constructor takes. *)
FitsTree(leaves) == leaves # <<>> /\ MaxProofLen(Len(leaves)) <= MaxTreeDepth

(* Layer on layer, until there is one node. *)
Layers(leaves) ==
    LET upTo[k \in 1 .. Len(leaves)] ==
            IF k = 1 THEN <<[i \in DOMAIN leaves |-> LeafHash(leaves[i])]>>
            ELSE LET layers == upTo[k - 1]
                     top    == layers[Len(layers)]
                 IN  IF Len(top) = 1 THEN layers ELSE Append(layers, NextLayer(top))
    IN  upTo[Len(leaves)]

Root(layers)   == layers[Len(layers)][1]

(* The siblings on the way up, of the node at place index (from 0) first.  *)
Sibling(layer, index) ==
    LET beside == IF index % 2 = 0 THEN index + 1 ELSE index - 1
    IN  layer[1 + IF beside < Len(layer) THEN beside ELSE Len(layer) - 1]

Proof(layers, index) ==
    [k \in 1 .. Len(layers) - 1 |-> Sibling(layers[k], Shifted(index, k - 1))]

(* buildCreateStreamIndexPayload: a stream's root is the hash of its leaf. *)
StreamPayload(row) ==
    LET leaf == [field \in DOMAIN row \cup {"leaf_index"} |->
                    IF field = "leaf_index" THEN 0 ELSE row[field]]
    IN  [root |-> LeafHash(leaf), leaf_count |-> 1, total_supply |-> leaf.amount,
         min_cliff_time |-> leaf.cliff_time, leaves |-> <<leaf>>, proofs |-> <<<<>>>>]
-----------------------------------------------------------------------------
(* ------------------------------- verifiers ----------------------------- *)
(* verify_merkle_proof, which the server repeats: the bits of the leaf's   *)
(* own index say on which side the sibling is.                             *)
Climb(hash, sibling, bit) ==
    IF bit = 0 THEN NodeHash(hash, sibling) ELSE NodeHash(sibling, hash)

Verifies(leaf, path, rootHash) ==
    LET at[k \in 0 .. Len(path)] ==
            IF k = 0 THEN [hash |-> LeafHash(leaf), index |-> leaf.leaf_index]
            ELSE LET below == at[k - 1]
                 IN  [hash  |-> Climb(below.hash, path[k], below.index % 2),
                      index |-> below.index \div 2]
    IN  at[Len(path)].hash = rootHash

(* claim also bounds the length of the proof by leaf_count. *)
ChainAccepts(leaf, path, rootHash, leaf_count) ==
    /\ Len(path) <= MaxProofLen(leaf_count)
    /\ Verifies(leaf, path, rootHash)

(* POST /api/campaigns and POST root-versions, of each leaf. *)
ServerAccepts(leaf, path, rootHash, leaf_count) ==
    IF leaf_count = 1 THEN LeafHash(leaf) = rootHash
    ELSE path # <<>> /\ Verifies(leaf, path, rootHash)
-----------------------------------------------------------------------------
(* What can be put together from the tree and a leaf. *)
Hashes(layers)      == UNION {{layers[k][i] : i \in DOMAIN layers[k]} : k \in DOMAIN layers}
Claimable(leaves)   == {[leaves[i] EXCEPT !.leaf_index = k] :
                            i \in DOMAIN leaves, k \in 0 .. 2 * Len(leaves)}
Proofs(hashes, len) == UNION {[1 .. k -> hashes] : k \in 0 .. len}

(* The proofs that the builder makes are the ones that the program and the *)
(* server accept, and the only ones: not the node that was doubled to fill *)
(* a layer, not an index whose low bits lead along the same path, and not  *)
(* a leaf of the same contents under another index.  This is what Campaign *)
(* and Service take a root for: the set of its leaves.                     *)
Exact(leaves) ==
    LET n        == Len(leaves)
        layers   == Layers(leaves)
        rootHash == Root(layers)
    IN  \A leaf \in Claimable(leaves) :
            LET at == {i \in 1 .. n : leaves[i] = leaf}
            IN  \A path \in Proofs(Hashes(layers) \cup {LeafHash(leaf)},
                                    MaxProofLen(n)) :
                    LET exact == \E i \in at : path = Proof(layers, i - 1)
                    IN  /\ ChainAccepts(leaf, path, rootHash, n) <=> exact
                        /\ ServerAccepts(leaf, path, rootHash, n)
                             <=> exact \/ (n = 1 /\ at # {})
=============================================================================
