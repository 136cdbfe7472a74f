----------------------------- MODULE AuditProof -----------------------------
(***************************************************************************)
(* How the farmer answers an AUDIT (onAudit, farmer.go:728-912).  It hashes *)
(* the challenge with the shard, finds the result among the leaves of the  *)
(* stored audit tree, and folds the leaves pairwise, level by level, until *)
(* two elements are left: that list is the proof.  A pair that contains    *)
(* the challenged leaf is nested instead of hashed, so that the proof      *)
(* holds the answer and the sibling of every node above it.                *)
(*                                                                         *)
(* Leaves are named by their positions, from 0; a digest by the leaves it  *)
(* hashes, from left to right.                                             *)
(***************************************************************************)
EXTENDS Naturals, Sequences

CONSTANT Lengths     \* lengths of the audit trees in the database

VARIABLES
  stage,     \* "received", "folding", "answered", "refused" or "panicked"
  length,    \* len(sItem.Trees)
  target,    \* auditResCmpPos, the position of the challenged leaf
  proof,     \* position -> element of the list being folded
  size,      \* len(proof)
  pos        \* position of the element that holds the challenged leaf

vars == <<stage, length, target, proof, size, pos>>

\* An element of the list is a hex string ...
Digest(leaves) == [nested |-> FALSE, leaves |-> leaves, siblings |-> <<>>]

\* ... or a nested list: from inside out, the siblings met so far, each with
\* the side it stands on.
Nest(element, side, digest) ==
  [nested   |-> TRUE,
   leaves   |-> IF side = "left" THEN digest.leaves \o element.leaves
                                 ELSE element.leaves \o digest.leaves,
   siblings |-> Append(element.siblings, [side |-> side, of |-> digest.leaves])]

\* Mistake: the two digests are hashed in the wrong order.
HashPairSwapped(m0, m1) == Digest(m1.leaves \o m0.leaves)

\* crypto.Ripemd160Sha256 of two digests, one after the other.
HashPair(m0, m1) == Digest(m0.leaves \o m1.leaves)

\* Mistake: the answer is always put to the left.
FoldUnsided(i) ==
  IF i = pos          THEN Nest(proof[i], "right", proof[i + 1])
  ELSE IF i + 1 = pos THEN Nest(proof[i + 1], "right", proof[i])
  ELSE HashPair(proof[i], proof[i + 1])

\* What an iteration of the outer loop makes of positions i and i + 1.
Fold(i) ==
  IF i = pos          THEN Nest(proof[i], "right", proof[i + 1])
  ELSE IF i + 1 = pos THEN Nest(proof[i + 1], "left", proof[i])
  ELSE HashPair(proof[i], proof[i + 1])

Init ==
  /\ stage = "received"
  /\ length \in Lengths
  /\ target = 0
  /\ proof = <<>> /\ size = 0
  /\ pos = 0

\* A message without challenges, no shard, no contract, no trees, a shard that
\* cannot be read, a challenge that is not hexadecimal, a result that is not
\* among the leaves: all are answered with an error, and nothing else happens.
Refuses ==
  /\ stage = "received"
  /\ stage' = "refused"
  /\ UNCHANGED <<length, target, proof, size, pos>>

\* The result is the leaf at position p.
Matches(p) ==
  /\ stage = "received"
  /\ length # 0 /\ p < length
  /\ stage' = "folding"
  /\ target' = p /\ pos' = p
  /\ proof' = [i \in 0..(length - 1) |-> Digest(<<i>>)]
  /\ size' = length
  /\ UNCHANGED length

\* proof[i + 1] of the last element of an odd list, and the type assertion
\* proof[i].(string) of a nested list, end the handler.
IndexOutOfRange == size % 2 = 1
NotAString == \E i \in 0..(size - 1) : proof[i].nested /\ i \div 2 # pos \div 2
Stumbles == IndexOutOfRange \/ NotAString

Panics ==
  /\ stage = "folding" /\ size # 2 /\ Stumbles
  /\ stage' = "panicked"
  /\ UNCHANGED <<length, target, proof, size, pos>>

\* Mistake: the position is not halved with the list.
HalvesListOnly ==
  /\ stage = "folding" /\ size # 2 /\ ~ Stumbles
  /\ size' = size \div 2
  /\ proof' = [j \in 0..(size' - 1) |-> Fold(2 * j)]
  /\ UNCHANGED <<stage, length, target, pos>>

\* One iteration of the outer loop.
Halves ==
  /\ stage = "folding" /\ size # 2 /\ ~ Stumbles
  /\ size' = size \div 2
  /\ proof' = [j \in 0..(size' - 1) |-> Fold(2 * j)]
  /\ pos' = pos \div 2
  /\ UNCHANGED <<stage, length, target>>

Answers ==
  /\ stage = "folding" /\ size = 2
  /\ stage' = "answered"
  /\ UNCHANGED <<length, target, proof, size, pos>>

Next ==
  \/ Refuses
  \/ \E p \in 0..(length - 1) : Matches(p)
  \/ Panics
  \/ Halves
  \/ Answers

Spec == Init /\ [][Next]_vars
FairSpec == Spec /\ WF_vars(Next)
-----------------------------------------------------------------------------
(* What the answer must be. *)

\* The leaves below node i of the level whose nodes have width leaves each.
Block(i, width) == [l \in 1..width |-> i * width + l - 1]

\* The other child of the parent of node i.
Sibling(i) == IF i % 2 = 0 THEN i + 1 ELSE i - 1

Element == [nested : BOOLEAN, leaves : Seq(Nat),
            siblings : Seq([side : {"left", "right"}, of : Seq(Nat)])]

\* Every variable has its type.
TypeOK ==
  /\ stage \in {"received", "folding", "answered", "refused", "panicked"}
  /\ length \in Lengths
  /\ size \in 0..length
  /\ proof \in [0..(size - 1) -> Element]
  /\ target \in Nat
  /\ pos \in Nat
  /\ stage = "folding" => pos < size

\* After every iteration the list is a whole level of the Merkle tree over the
\* leaves: each element stands for its own block, in order, and only the one
\* at pos is open, with the challenged leaf below it (farmer.go:874-905).
LevelIsWhole ==
  stage \in {"folding", "answered"} =>
    LET width == length \div size IN
    /\ \A i \in 0..(size - 1) : proof[i].leaves = Block(i, width)
    /\ \A i \in 0..(size - 1) : proof[i].nested => i = pos
    /\ pos = target \div width

\* From inside out, the siblings of the nodes above the challenged leaf, each on
\* its side, up to a level whose nodes have width leaves each: the first sibling
\* is a leaf, and each one has twice as many leaves as the one before.
IsPath(siblings, width) ==
  /\ \A k \in 1..Len(siblings) :
       LET w == Len(siblings[k].of)
           node == target \div w
       IN  /\ w = IF k = 1 THEN 1 ELSE 2 * Len(siblings[k - 1].of)
           /\ siblings[k] = [side |-> IF node % 2 = 0 THEN "right" ELSE "left",
                             of   |-> Block(Sibling(node), w)]
  /\ width = IF siblings = <<>> THEN 1 ELSE 2 * Len(siblings[Len(siblings)].of)

\* The proof the farmer answers is the Merkle path of the challenged leaf: the
\* answer, the sibling of every node above it from the leaf up, each on its
\* side, and as second element the other half of the tree.  No level is
\* missing and no other leaf is disclosed (farmer.go:874-911).
ProofIsMerklePath ==
  stage = "answered" =>
    LET half == length \div 2 IN
    /\ length = 2 * half
    /\ IsPath(proof[pos].siblings, half)
    /\ proof[1 - pos] = Digest(Block(1 - pos, half))

\* Neither the index nor the type assertion of the loop ever fails on a tree
\* of two leaves or more that OFFER and CONSIGN let into the database
\* (farmer.go:884-897).
LongTreesDoNotPanic == length # 1 => stage # "panicked"

\* The loop ends, with two elements (farmer.go:884): every AUDIT about such a
\* tree is answered.
AuditEnds == length # 1 ~> stage \in {"answered", "refused"}

\* "check if audit_count is power of 2" (offer, farmer.go:378): a tree of a
\* length that this check accepts can be audited.
AcceptedCountIsAuditable == stage # "panicked"
=============================================================================
