------------------------- MODULE AuditProofTheorems -------------------------
(***************************************************************************)
(* The loop of onAudit, for audit trees of any length.                     *)
(***************************************************************************)
EXTENDS AuditProof, SequenceTheorems, TLAPS

\* The powers of two, told without powers, which the provers do not know: the
\* numbers that are in every set that has 1 and is closed under doubling.
PowersOfTwo ==
  {n \in Nat : \A S \in SUBSET Nat : 1 \in S /\ (\A k \in S : 2 * k \in S) => n \in S}

Longer == PowersOfTwo \ {1}

\* The trees in the database have no leaves, or a power of two of them: OFFER
\* checks it of the audit count, CONSIGN and MIRROR compare it with the trees.
LengthsArePowers == Lengths \subseteq PowersOfTwo \cup {0}

\* The invariant: what is being folded is a list of such a length, and the
\* only nested element is the one at pos.
FoldInv ==
  length # 1 =>
    /\ stage # "panicked"
    /\ stage = "folding" =>
         /\ size \in Longer
         /\ pos \in 0..(size - 1)
         /\ \A i \in 0..(size - 1) : proof[i].nested => i = pos

\* Double a power of two and it is one; halve one other than 1 and it is one.
LEMMA Doubling ==
  /\ PowersOfTwo \subseteq Nat \ {0}
  /\ \A n \in Longer : \E k \in PowersOfTwo : n = 2 * k
<1>1. \A k \in PowersOfTwo : 2 * k \in PowersOfTwo
  BY DEF PowersOfTwo
<1>2. 1 \in PowersOfTwo
  BY DEF PowersOfTwo
<1>3. PowersOfTwo \subseteq Nat \ {0}
  <2> DEFINE S == Nat \ {0}
  <2>1. S \in SUBSET Nat /\ 1 \in S /\ \A k \in S : 2 * k \in S
    OBVIOUS
  <2> QED BY <2>1 DEF PowersOfTwo
<1>4. ASSUME NEW n \in Longer PROVE \E k \in PowersOfTwo : n = 2 * k
  <2> DEFINE S == {m \in PowersOfTwo : m = 1 \/ \E k \in PowersOfTwo : m = 2 * k}
  <2>1. S \in SUBSET Nat /\ 1 \in S /\ \A k \in S : 2 * k \in S
    BY <1>1, <1>2, <1>3
  <2>2. n \in S
    <3> HIDE DEF S
    <3> QED BY <2>1 DEF PowersOfTwo, Longer
  <2> QED BY <2>2 DEF Longer
<1> QED BY <1>3, <1>4

\* Half of such a length is one again, and its positions come in pairs.
LEMMA Halving ==
  ASSUME NEW n \in Longer, n # 2
  PROVE  /\ n % 2 = 0
         /\ n \div 2 \in Longer
         /\ n = 2 * (n \div 2)
<1>1. PICK k \in PowersOfTwo : n = 2 * k
  BY Doubling
<1>2. k \in Nat
  BY Doubling
<1>3. n % 2 = 0 /\ n \div 2 = k
  BY <1>1, <1>2
<1> QED BY <1>1, <1>3 DEF Longer

LEMMA LengthTypes ==
  ASSUME LengthsArePowers
  PROVE  /\ Lengths \subseteq Nat /\ Longer \subseteq Nat \ {0, 1}
         /\ Lengths \ {0, 1} \subseteq Longer
BY Doubling DEF LengthsArePowers, Longer

\* A pair without pos is hashed, a pair with pos is nested.
LEMMA FoldNests ==
  ASSUME NEW j \in Nat, pos \in Nat, Fold(2 * j).nested
  PROVE  j = pos \div 2
<1>1. 2 * j = pos \/ 2 * j + 1 = pos
  BY DEF Fold, HashPair, Digest
<1> QED BY <1>1

\* Every step keeps the invariant.
LEMMA FoldStep ==
  ASSUME LengthsArePowers, length \in Lengths, FoldInv, [Next]_vars
  PROVE  FoldInv' /\ length' \in Lengths
<1>1. CASE Refuses
  BY <1>1 DEF Refuses, FoldInv
<1>2. ASSUME NEW p \in 0..(length - 1), Matches(p) PROVE FoldInv' /\ length' \in Lengths
  <2>1. length \in Nat /\ (length \notin {0, 1} => length \in Longer)
    BY LengthTypes
  <2> QED BY <1>2, <2>1 DEF Matches, FoldInv, Digest
<1>3. CASE Panics
  <2>1. SUFFICES ASSUME length # 1 PROVE FALSE
    BY <1>3 DEF Panics, FoldInv
  <2>2. /\ size \in Longer /\ size # 2
        /\ \A i \in 0..(size - 1) : proof[i].nested => i = pos
    BY <1>3, <2>1 DEF Panics, FoldInv
  <2> QED BY <1>3, <2>2, Halving DEF Panics, Stumbles, IndexOutOfRange, NotAString
<1>4. CASE Halves
  <2>1. SUFFICES ASSUME length # 1 PROVE FoldInv'
    BY <1>4 DEF Halves, FoldInv
  <2>2. size \in Longer /\ size # 2 /\ pos \in 0..(size - 1)
    BY <1>4, <2>1 DEF Halves, FoldInv
  <2>3. size' \in Longer /\ size = 2 * size' /\ size' \in Nat /\ pos \in Nat
    BY <1>4, <2>2, Halving, LengthTypes DEF Halves
  <2>4. pos' = pos \div 2 /\ pos' \in 0..(size' - 1)
    BY <1>4, <2>2, <2>3 DEF Halves
  <2>5. \A i \in 0..(size' - 1) : proof'[i].nested => i = pos'
    BY <1>4, <2>3, <2>4, FoldNests DEF Halves
  <2> QED BY <1>4, <2>3, <2>4, <2>5 DEF FoldInv, Halves
<1>5. CASE Answers
  BY <1>5 DEF Answers, FoldInv
<1>6. CASE UNCHANGED vars
  BY <1>6 DEF vars, FoldInv
<1> QED BY <1>1, <1>2, <1>3, <1>4, <1>5, <1>6 DEF Next

\* Whatever the length of a tree, as long as it is a power of two and not 1,
\* no AUDIT ends in an index out of range or a failed type assertion.
THEOREM NoPanic ==
  ASSUME LengthsArePowers
  PROVE  Spec => []LongTreesDoNotPanic
<1> DEFINE Inv == length \in Lengths /\ FoldInv
<1>1. Init => Inv
  BY DEF Init, FoldInv
<1>2. Inv /\ [Next]_vars => Inv'
  BY FoldStep
<1>3. Inv => LongTreesDoNotPanic
  BY DEF FoldInv, LongTreesDoNotPanic
<1> QED BY <1>1, <1>2, <1>3, PTL DEF Spec
-----------------------------------------------------------------------------
LEMMA DivisionIsUnique ==
  ASSUME NEW q \in Nat, NEW r \in Nat, NEW d \in Nat, r < d
  PROVE  (q * d + r) \div d = q
OBVIOUS

\* The node above node t \div w, on a level of nodes twice as wide.
LEMMA NodeAbove ==
  ASSUME NEW t \in Nat, NEW w \in Nat \ {0}
  PROVE  t \div (2 * w) = (t \div w) \div 2
<1> DEFINE q == t \div w
           r == t % w
           a == q \div 2
           b == q % 2
<1>1. q \in Nat /\ r \in Nat /\ r < w /\ t = q * w + r
  OBVIOUS
<1>2. a \in Nat /\ b \in {0, 1} /\ q = 2 * a + b
  BY <1>1
<1> HIDE DEF q, r, a, b
<1>3. t = a * (2 * w) + (b * w + r) /\ b * w + r \in Nat /\ b * w + r < 2 * w
  BY <1>1, <1>2
<1>4. t \div (2 * w) = a
  BY <1>2, <1>3, DivisionIsUnique
<1> QED BY <1>4 DEF q, a

\* Two neighbouring blocks make one of twice their width.
LEMMA BlocksJoin ==
  ASSUME NEW j \in Nat, NEW w \in Nat \ {0}
  PROVE  Block(2 * j, w) \o Block(2 * j + 1, w) = Block(j, 2 * w)
<1> DEFINE left == Block(2 * j, w)
           right == Block(2 * j + 1, w)
           both == Block(j, 2 * w)
<1>1. /\ (2 * j) * w = 2 * (j * w) /\ (2 * j + 1) * w = 2 * (j * w) + w
      /\ j * (2 * w) = 2 * (j * w) /\ j * w \in Nat
  OBVIOUS
<1>2. /\ left \in Seq(Nat) /\ Len(left) = w
      /\ \A l \in 1..w : left[l] = 2 * (j * w) + l - 1
  BY <1>1 DEF Block
<1>3. /\ right \in Seq(Nat) /\ Len(right) = w
      /\ \A l \in 1..w : right[l] = 2 * (j * w) + w + l - 1
  BY <1>1 DEF Block
<1>4. /\ both \in Seq(Nat) /\ Len(both) = 2 * w
      /\ \A l \in 1..(2 * w) : both[l] = 2 * (j * w) + l - 1
  BY <1>1 DEF Block
<1> HIDE DEF left, right, both
<1>5. left \o right \in Seq(Nat) /\ Len(left \o right) = 2 * w
  BY <1>2, <1>3
<1>6. ASSUME NEW l \in 1..(2 * w) PROVE (left \o right)[l] = both[l]
  <2>0. l <= w \/ l > w
    OBVIOUS
  <2>1. CASE l <= w
    BY <1>2, <1>3, <1>4, <2>1
  <2>2. CASE l > w
    <3>1. l - w \in 1..w /\ (left \o right)[l] = right[l - w]
      BY <1>2, <1>3, <2>2
    <3>2. right[l - w] = 2 * (j * w) + w + (l - w) - 1
      BY <1>3, <3>1
    <3>3. 2 * (j * w) + w + (l - w) - 1 = 2 * (j * w) + l - 1
      BY <1>1, <3>1
    <3> QED BY <1>4, <3>1, <3>2, <3>3
  <2> QED BY <2>0, <2>1, <2>2, Zenon
<1>7. left \o right = both
  <2>1. Len(left \o right) = Len(both) /\ \A l \in 1..Len(left \o right) : (left \o right)[l] = both[l]
    BY <1>4, <1>5, <1>6
  <2> QED BY <1>4, <1>5, <2>1, SeqEqual
<1> QED BY <1>7 DEF left, right, both

\* The level of the Merkle tree that the list is: its elements are the digests
\* of their own blocks of width leaves, but for the one above the target, which
\* is open and has the path up to this level.
LevelOf(width) ==
  /\ length = width * size
  /\ proof \in [0..(size - 1) -> Element]
  /\ \A i \in 0..(size - 1) : proof[i].leaves = Block(i, width)
  /\ \A i \in 0..(size - 1) : i # pos => proof[i] = Digest(Block(i, width))
  /\ pos = target \div width
  /\ IsPath(proof[pos].siblings, width)

LevelInv ==
  /\ length \in Lengths /\ target \in Nat
  /\ stage \in {"received", "folding", "answered", "refused", "panicked"}
  /\ stage = "received" => proof = <<>> /\ size = 0 /\ pos = 0
  /\ stage \in {"folding", "answered"} =>
       /\ size \in Nat \ {0} /\ pos \in 0..(size - 1)
       /\ \E width \in Nat \ {0} : LevelOf(width)
  /\ stage = "folding" => size = 1 \/ size \in Longer
  /\ stage = "answered" => size = 2

\* What a pair becomes stands for the block of the pair, and is an element.
LEMMA FoldJoins ==
  ASSUME NEW width \in Nat \ {0}, size \in Nat, proof \in [0..(size - 1) -> Element],
         \A i \in 0..(size - 1) : proof[i].leaves = Block(i, width),
         NEW j \in Nat, 2 * j + 1 < size
  PROVE  Fold(2 * j) \in Element /\ Fold(2 * j).leaves = Block(j, 2 * width)
<1> DEFINE left == proof[2 * j]
           right == proof[2 * j + 1]
           joined == left.leaves \o right.leaves
           folded == Fold(2 * j)
<1>1. 2 * j \in 0..(size - 1) /\ 2 * j + 1 \in 0..(size - 1)
  OBVIOUS
<1>2. left \in Element /\ right \in Element
  BY <1>1
<1>3. joined = Block(j, 2 * width)
  BY <1>1, BlocksJoin
<1>4. joined \in Seq(Nat)
  BY <1>2, ConcatProperties DEF Element
<1> HIDE DEF left, right
<1>5. \/ Fold(2 * j) = Nest(left, "right", right)
      \/ Fold(2 * j) = Nest(right, "left", left)
      \/ Fold(2 * j) = HashPair(left, right)
  BY DEF Fold, left, right
<1>6. ASSUME NEW s \in Seq([side : {"left", "right"}, of : Seq(Nat)]),
             NEW side \in {"left", "right"}, NEW of \in Seq(Nat)
      PROVE  Append(s, [side |-> side, of |-> of])
               \in Seq([side : {"left", "right"}, of : Seq(Nat)])
  OBVIOUS
<1>10. ASSUME NEW n \in BOOLEAN, NEW l \in Seq(Nat),
              NEW s \in Seq([side : {"left", "right"}, of : Seq(Nat)])
       PROVE  [nested |-> n, leaves |-> l, siblings |-> s] \in Element
  BY DEF Element
<1>7. CASE Fold(2 * j) = Nest(left, "right", right)
  <2>1. folded = [nested |-> TRUE, leaves |-> joined,
                       siblings |-> Append(left.siblings, [side |-> "right", of |-> right.leaves])]
    BY <1>7 DEF Nest
  <2>2. Append(left.siblings, [side |-> "right", of |-> right.leaves])
          \in Seq([side : {"left", "right"}, of : Seq(Nat)])
    BY <1>2, <1>6 DEF Element
  <2>3. folded \in Element /\ folded.leaves = joined
    <3> HIDE DEF folded, joined
    <3> QED BY <1>4, <1>10, <2>1, <2>2
  <2> QED BY <1>3, <2>3
<1>8. CASE Fold(2 * j) = Nest(right, "left", left)
  <2>1. folded = [nested |-> TRUE, leaves |-> joined,
                       siblings |-> Append(right.siblings, [side |-> "left", of |-> left.leaves])]
    BY <1>8 DEF Nest
  <2>2. Append(right.siblings, [side |-> "left", of |-> left.leaves])
          \in Seq([side : {"left", "right"}, of : Seq(Nat)])
    BY <1>2, <1>6 DEF Element
  <2>3. folded \in Element /\ folded.leaves = joined
    <3> HIDE DEF folded, joined
    <3> QED BY <1>4, <1>10, <2>1, <2>2
  <2> QED BY <1>3, <2>3
<1>9. CASE Fold(2 * j) = HashPair(left, right)
  <2>1. folded = [nested |-> FALSE, leaves |-> joined, siblings |-> <<>>]
    BY <1>9 DEF HashPair, Digest
  <2>2. <<>> \in Seq([side : {"left", "right"}, of : Seq(Nat)])
    OBVIOUS
  <2>3. folded \in Element /\ folded.leaves = joined
    <3> HIDE DEF folded, joined
    <3> QED BY <1>4, <1>10, <2>1, <2>2
  <2> QED BY <1>3, <2>3
<1> QED BY <1>5, <1>7, <1>8, <1>9

\* A block has as many leaves as it is wide.
LEMMA BlockLength ==
  ASSUME NEW i \in Nat, NEW width \in Nat
  PROVE  Block(i, width) \in Seq(Nat) /\ Len(Block(i, width)) = width
<1>1. \A l \in 1..width : i * width + l - 1 \in Nat
  <2>1. i * width \in Nat
    OBVIOUS
  <2> QED BY <2>1
<1> QED BY <1>1 DEF Block

\* A pair on the side of the target is hashed to the digest of its block.
LEMMA FoldHashes ==
  ASSUME NEW width \in Nat \ {0}, size \in Nat, pos \in Nat,
         \A i \in 0..(size - 1) : i # pos => proof[i] = Digest(Block(i, width)),
         NEW j \in Nat, 2 * j + 1 < size, j # pos \div 2
  PROVE  Fold(2 * j) = Digest(Block(j, 2 * width))
<1>1. /\ 2 * j \in 0..(size - 1) /\ 2 * j + 1 \in 0..(size - 1)
      /\ 2 * j # pos /\ 2 * j + 1 # pos
  OBVIOUS
<1>2. Fold(2 * j) = HashPair(Digest(Block(2 * j, width)), Digest(Block(2 * j + 1, width)))
  BY <1>1 DEF Fold
<1> QED BY <1>2, BlocksJoin DEF HashPair, Digest

SiblingType == [side : {"left", "right"}, of : Seq(Nat)]

\* The path grows by the sibling of the node the level has above the target.
LEMMA PathGrows ==
  ASSUME target \in Nat, NEW width \in Nat \ {0}, NEW path \in Seq(SiblingType),
         IsPath(path, width), NEW node, node = target \div width, NEW side,
         side = (IF node % 2 = 0 THEN "right" ELSE "left")
  PROVE  IsPath(Append(path, [side |-> side, of |-> Block(Sibling(node), width)]), 2 * width)
<1> DEFINE e == [side |-> side, of |-> Block(Sibling(node), width)]
           grown == Append(path, e)
<1>1. node \in Nat /\ Sibling(node) \in Nat
  BY DEF Sibling
<1>2. e \in SiblingType /\ Len(e.of) = width
  BY <1>1, BlockLength DEF SiblingType
<1>3. /\ Len(grown) = Len(path) + 1 /\ grown[Len(path) + 1] = e /\ grown # <<>>
      /\ \A k \in 1..Len(path) : grown[k] = path[k]
      /\ Len(path) \in Nat
  <2> HIDE DEF e
  <2> QED BY <1>2
<1>4. Len(path) = 0 <=> path = <<>>
  OBVIOUS
<1> HIDE DEF e, grown
<1>5. ASSUME NEW k \in 1..Len(path)
      PROVE  LET w == Len(grown[k].of)
                 n == target \div w
             IN  /\ w = IF k = 1 THEN 1 ELSE 2 * Len(grown[k - 1].of)
                 /\ grown[k] = [side |-> IF n % 2 = 0 THEN "right" ELSE "left",
                                of   |-> Block(Sibling(n), w)]
  <2>1. grown[k] = path[k] /\ (k # 1 => grown[k - 1] = path[k - 1])
    BY <1>3
  <2> QED BY <2>1 DEF IsPath
<1>6. width = IF Len(path) + 1 = 1 THEN 1 ELSE 2 * Len(grown[Len(path)].of)
  BY <1>3, <1>4 DEF IsPath
<1>7. e = [side |-> IF node % 2 = 0 THEN "right" ELSE "left", of |-> Block(Sibling(node), width)]
  BY DEF e
<1>8. IsPath(grown, 2 * width)
  <2>1. ASSUME NEW k \in 1..Len(grown)
        PROVE  LET w == Len(grown[k].of)
                   n == target \div w
               IN  /\ w = IF k = 1 THEN 1 ELSE 2 * Len(grown[k - 1].of)
                   /\ grown[k] = [side |-> IF n % 2 = 0 THEN "right" ELSE "left",
                                  of   |-> Block(Sibling(n), w)]
    <3>1. CASE k \in 1..Len(path)
      BY <1>5, <3>1
    <3>2. CASE k = Len(path) + 1
      <4>1. grown[k] = e /\ k - 1 = Len(path)
        BY <1>3, <3>2
      <4> QED BY <1>2, <1>6, <1>7, <3>2, <4>1
    <3>3. k \in 1..Len(path) \/ k = Len(path) + 1
      BY <1>3
    <3> QED BY <3>1, <3>2, <3>3
  <2>2. grown[Len(grown)] = e /\ grown # <<>>
    BY <1>3
  <2> QED BY <1>2, <2>1, <2>2 DEF IsPath
<1> QED BY <1>8 DEF grown, e

LEMMA OddNode ==
  ASSUME NEW j \in Nat, NEW i, i = 2 * j + 1
  PROVE  i % 2 # 0 /\ Sibling(i) = 2 * j /\ 2 * j # i
BY DEF Sibling

\* The pair with the target is nested, which makes its path one longer.
LEMMA FoldOpens ==
  ASSUME NEW width \in Nat \ {0}, size \in Nat, target \in Nat,
         proof \in [0..(size - 1) -> Element], pos = target \div width,
         \A i \in 0..(size - 1) : i # pos => proof[i] = Digest(Block(i, width)),
         IsPath(proof[pos].siblings, width),
         NEW j \in Nat, 2 * j + 1 < size, j = pos \div 2
  PROVE  IsPath(Fold(2 * j).siblings, 2 * width)
<1> DEFINE path == proof[pos].siblings
<1>1. pos \in Nat /\ 2 * j \in 0..(size - 1) /\ 2 * j + 1 \in 0..(size - 1)
  OBVIOUS
<1>2. path \in Seq(SiblingType)
  <2>1. pos \in 0..(size - 1)
    BY <1>1
  <2> QED BY <2>1 DEF Element, SiblingType
<1>3. CASE 2 * j = pos
  <2>1. pos % 2 = 0 /\ Sibling(pos) = pos + 1
    BY <1>1, <1>3 DEF Sibling
  <2>2. Fold(2 * j) = Nest(proof[pos], "right", Digest(Block(pos + 1, width)))
    <3>1. proof[pos + 1] = Digest(Block(pos + 1, width))
      BY <1>1, <1>3
    <3>2. Fold(pos) = Nest(proof[pos], "right", proof[pos + 1])
      BY DEF Fold
    <3> QED BY <1>3, <3>1, <3>2
  <2>3. Fold(2 * j).siblings = Append(path, [side |-> "right", of |-> Block(pos + 1, width)])
    BY <2>2 DEF Nest, Digest
  <2> QED BY <1>2, <2>1, <2>3, PathGrows
<1>4. CASE 2 * j + 1 = pos
  <2>1. pos % 2 # 0 /\ Sibling(pos) = 2 * j /\ 2 * j # pos
    BY <1>4, OddNode
  <2>2. Fold(2 * j) = Nest(proof[pos], "left", Digest(Block(2 * j, width)))
    BY <1>1, <1>4, <2>1 DEF Fold
  <2>3. Fold(2 * j).siblings = Append(path, [side |-> "left", of |-> Block(2 * j, width)])
    BY <2>2 DEF Nest, Digest
  <2> QED BY <1>2, <2>1, <2>3, PathGrows
<1>5. 2 * j = pos \/ 2 * j + 1 = pos
  BY <1>1
<1> QED BY <1>3, <1>4, <1>5

\* The leaves that Matches starts from are the lowest level.
LEMMA LeavesAreLevel ==
  ASSUME LengthsArePowers, LevelInv, NEW p \in 0..(length - 1), Matches(p)
  PROVE  LevelInv'
<1>1. length \in Nat /\ length # 0
  BY LengthTypes DEF LevelInv, Matches
<1>2. /\ size' = length /\ pos' = p /\ target' = p /\ length' = length /\ stage' = "folding"
      /\ proof' = [i \in 0..(length - 1) |-> Digest(<<i>>)]
  BY DEF Matches
<1>3. ASSUME NEW i \in 0..(length - 1)
      PROVE  /\ Digest(<<i>>) \in Element
             /\ Digest(<<i>>) = Digest(Block(i, 1)) /\ Digest(<<i>>).leaves = Block(i, 1)
  <2>1. <<i>> \in Seq(Nat) /\ Block(i, 1) = <<i>>
    BY <1>1 DEF Block
  <2>2. <<>> \in Seq([side : {"left", "right"}, of : Seq(Nat)])
    OBVIOUS
  <2> QED BY <2>1, <2>2 DEF Digest, Element
<1>4. LevelOf(1)'
  <2>1. IsPath(<<>>, 1)'
    BY DEF IsPath
  <2>2. proof'[p].siblings = <<>>
    BY <1>2 DEF Digest
  <2>3. \A i \in 0..(size' - 1) : proof'[i] = Digest(Block(i, 1)) /\ proof'[i].leaves = Block(i, 1)
    BY <1>1, <1>2, <1>3
  <2>4. proof' \in [0..(size' - 1) -> Element]
    BY <1>1, <1>2, <1>3
  <2> QED BY <1>1, <1>2, <2>1, <2>2, <2>3, <2>4 DEF LevelOf
<1>5. size' = 1 \/ size' \in Longer
  BY <1>1, <1>2, LengthTypes DEF LevelInv
<1> QED BY <1>1, <1>2, <1>4, <1>5 DEF LevelInv

LEMMA PairIsInside ==
  ASSUME NEW n \in Nat, NEW j \in 0..(n - 1)
  PROVE  j \in Nat /\ 2 * j + 1 < 2 * n
OBVIOUS

\* An iteration makes the next level of it.
LEMMA HalvesLevel ==
  ASSUME LengthsArePowers, LevelInv, Halves
  PROVE  LevelInv'
<1>1. /\ length \in Lengths /\ target \in Nat /\ stage = "folding" /\ size \in Nat /\ size # 2
      /\ pos \in 0..(size - 1) /\ pos \in Nat /\ size % 2 # 1
  BY DEF LevelInv, Halves, Stumbles, IndexOutOfRange
<1>2. size \in Longer
  BY <1>1 DEF LevelInv
<1>3. /\ UNCHANGED <<stage, length, target>>
      /\ size' = size \div 2 /\ pos' = pos \div 2
      /\ proof' = [j \in 0..(size' - 1) |-> Fold(2 * j)]
  BY DEF Halves
<1>4. size' \in Longer /\ size = 2 * size' /\ size' \in Nat \ {0}
  BY <1>1, <1>2, <1>3, Halving, LengthTypes
<1>5. PICK width \in Nat \ {0} : LevelOf(width)
  BY <1>1 DEF LevelInv
<1>6. length = (2 * width) * size'
  BY <1>4, <1>5 DEF LevelOf
<1>7. ASSUME NEW j \in 0..(size' - 1)
      PROVE  /\ Fold(2 * j) \in Element /\ Fold(2 * j).leaves = Block(j, 2 * width)
             /\ j # pos' => Fold(2 * j) = Digest(Block(j, 2 * width))
             /\ j = pos' => IsPath(Fold(2 * j).siblings, 2 * width)
  <2>1. j \in Nat /\ 2 * j + 1 < size
    BY <1>4, PairIsInside
  <2>2. Fold(2 * j) \in Element /\ Fold(2 * j).leaves = Block(j, 2 * width)
    BY <1>1, <1>5, <2>1, FoldJoins DEF LevelOf
  <2>3. j # pos' => Fold(2 * j) = Digest(Block(j, 2 * width))
    BY <1>1, <1>3, <1>5, <2>1, FoldHashes DEF LevelOf
  <2>4. j = pos' => IsPath(Fold(2 * j).siblings, 2 * width)
    BY <1>1, <1>3, <1>5, <2>1, FoldOpens DEF LevelOf
  <2> QED BY <2>2, <2>3, <2>4
<1>8. pos' = target \div (2 * width)
  BY <1>1, <1>3, <1>5, NodeAbove DEF LevelOf
<1>9. pos' \in 0..(size' - 1)
  BY <1>1, <1>3, <1>4
<1>10. LevelOf(2 * width)'
  <2>1. proof'[pos'] = Fold(2 * pos') /\ IsPath(proof'[pos'].siblings, 2 * width)
    BY <1>3, <1>7, <1>9
  <2>2. IsPath(proof[pos].siblings, 2 * width)'
    <3>1. target' = target
      BY <1>3
    <3>2. IsPath(proof'[pos'].siblings, 2 * width)
      BY <2>1
    <3> QED BY <3>1, <3>2, Zenon DEF IsPath
  <2>3. \A j \in 0..(size' - 1) : proof'[j] = Fold(2 * j)
    BY <1>3
  <2>4. /\ proof' \in [0..(size' - 1) -> Element]
        /\ \A j \in 0..(size' - 1) : proof'[j].leaves = Block(j, 2 * width)
        /\ \A j \in 0..(size' - 1) : j # pos' => proof'[j] = Digest(Block(j, 2 * width))
    BY <1>3, <1>7, <2>3
  <2>5. length' = (2 * width) * size' /\ pos' = target' \div (2 * width)
    BY <1>3, <1>6, <1>8
  <2> QED BY <2>2, <2>4, <2>5 DEF LevelOf
<1> QED BY <1>1, <1>3, <1>4, <1>9, <1>10 DEF LevelInv

LEMMA LevelStep == LengthsArePowers /\ LevelInv /\ [Next]_vars => LevelInv'
<1> SUFFICES ASSUME LengthsArePowers, LevelInv, [Next]_vars PROVE LevelInv'
  OBVIOUS
<1>1. CASE Refuses
  BY <1>1 DEF Refuses, LevelInv
<1>2. CASE Panics
  BY <1>2 DEF Panics, LevelInv
<1>3. CASE Answers
  BY <1>3 DEF Answers, LevelInv, LevelOf, IsPath
<1>4. CASE UNCHANGED vars
  BY <1>4 DEF vars, LevelInv, LevelOf, IsPath
<1> QED BY <1>1, <1>2, <1>3, <1>4, LeavesAreLevel, HalvesLevel DEF Next

LEMMA LevelInvariance ==
  ASSUME LengthsArePowers
  PROVE  Spec => []LevelInv
<1>1. Init => LevelInv
  BY DEF Init, LevelInv
<1>2. LevelInv /\ [Next]_vars => LevelInv'
  BY LevelStep
<1> QED BY <1>1, <1>2, PTL DEF Spec

\* For a tree of any length, however many levels it has: after each iteration
\* the list is a whole level of the Merkle tree.
THEOREM LevelsAreWhole ==
  ASSUME LengthsArePowers
  PROVE  Spec => []LevelIsWhole
<1>1. ASSUME LevelInv PROVE LevelIsWhole
  <2> SUFFICES ASSUME stage \in {"folding", "answered"}
               PROVE  LET width == length \div size IN
                        /\ \A i \in 0..(size - 1) : proof[i].leaves = Block(i, width)
                        /\ \A i \in 0..(size - 1) : proof[i].nested => i = pos
                        /\ pos = target \div width
    BY DEF LevelIsWhole
  <2>1. PICK width \in Nat \ {0} : LevelOf(width)
    BY <1>1 DEF LevelInv
  <2>2. size \in Nat \ {0} /\ length = width * size + 0
    BY <1>1, <2>1 DEF LevelInv, LevelOf
  <2>3. length \div size = width
    BY <2>2, DivisionIsUnique
  <2> QED BY <2>1, <2>3 DEF LevelOf, Digest
<1> QED BY <1>1, LevelInvariance, PTL

\* For a tree of any length, an AUDIT that is answered is answered with the
\* Merkle path of the challenged leaf: nothing is missing, nothing else is told.
THEOREM AnswersMerklePath ==
  ASSUME LengthsArePowers
  PROVE  Spec => []ProofIsMerklePath
<1>1. ASSUME LevelInv, stage = "answered"
      PROVE  LET half == length \div 2 IN
             /\ length = 2 * half
             /\ IsPath(proof[pos].siblings, half)
             /\ proof[1 - pos] = Digest(Block(1 - pos, half))
  <2>1. size = 2 /\ pos \in 0..1
    BY <1>1 DEF LevelInv
  <2>2. PICK width \in Nat \ {0} : LevelOf(width)
    BY <1>1 DEF LevelInv
  <2>3. length = 2 * width /\ length \div 2 = width
    BY <2>1, <2>2 DEF LevelOf
  <2>4. 1 - pos \in 0..(size - 1) /\ 1 - pos # pos
    BY <2>1
  <2>5. IsPath(proof[pos].siblings, width) /\ proof[1 - pos] = Digest(Block(1 - pos, width))
    BY <2>2, <2>4 DEF LevelOf
  <2> QED BY <2>3, <2>5
<1>2. LevelInv => ProofIsMerklePath
  BY <1>1 DEF ProofIsMerklePath
<1> QED BY <1>2, LevelInvariance, PTL

\* Every variable keeps its type, for trees of any length: what is folded is
\* never longer than the tree, and the position stays inside of it.
THEOREM AuditTypeCorrect ==
  ASSUME LengthsArePowers
  PROVE  Spec => []TypeOK
<1> USE DEF TypeOK
<1>1. Init => TypeOK
  <2> SUFFICES ASSUME Init PROVE TypeOK
    OBVIOUS
  <2>1. length \in Nat /\ 0..(0 - 1) = {}
    BY LengthTypes DEF Init
  <2>2. <<>> \in [{} -> Element]
    OBVIOUS
  <2> QED BY <2>1, <2>2 DEF Init
<1>2. ASSUME TypeOK, LevelInv, LevelInv', [Next]_vars PROVE TypeOK'
  <2>0. length \in Nat
    BY <1>2, LengthTypes DEF LevelInv
  <2>1. CASE Refuses
    BY <1>2, <2>1 DEF Refuses
  <2>2. ASSUME NEW p \in 0..(length - 1), Matches(p) PROVE TypeOK'
    <3>1. size' = length /\ length' = length /\ stage' = "folding"
      BY <2>2 DEF Matches
    <3>2. PICK width \in Nat \ {0} : LevelOf(width)'
      BY <1>2, <3>1 DEF LevelInv
    <3> QED BY <1>2, <2>0, <2>2, <3>1, <3>2 DEF LevelInv, LevelOf, Matches
  <2>3. CASE Halves
    <3>1. UNCHANGED <<stage, length, target>> /\ stage = "folding" /\ size' = size \div 2
      BY <2>3 DEF Halves
    <3>2. PICK width \in Nat \ {0} : LevelOf(width)'
      BY <1>2, <3>1 DEF LevelInv
    <3>3. size' \in 0..length'
      BY <1>2, <2>0, <3>1
    <3> QED BY <1>2, <2>0, <3>1, <3>2, <3>3 DEF LevelInv, LevelOf
  <2>4. CASE Panics
    BY <1>2, <2>4 DEF Panics
  <2>5. CASE Answers
    BY <1>2, <2>5 DEF Answers
  <2>6. CASE UNCHANGED vars
    BY <1>2, <2>6 DEF vars
  <2> QED BY <1>2, <2>1, <2>2, <2>3, <2>4, <2>5, <2>6 DEF Next
<1>3. TypeOK /\ LevelInv /\ LevelInv' /\ [Next]_vars => TypeOK'
  BY <1>2
<1> QED BY <1>1, <1>3, LevelInvariance, PTL DEF Spec
=============================================================================
