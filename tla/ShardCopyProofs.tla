--------------------------- MODULE ShardCopyProofs ---------------------------
(***************************************************************************)
(* What can be relied on by whoever relies on ShardCopy.                   *)
(***************************************************************************)
EXTENDS ShardCopy, TLAPS

\* The copy is as the last undisturbed download left it, whatever the number of
\* downloads and whoever fails or starts meanwhile.
THEOREM ClaimsHold == CopySpec => []CopyIsClaimedOnce
<1>1. CopyInit => CopyIsClaimedOnce
  BY DEF CopyInit, CopyIsClaimedOnce
<1>2. ASSUME CopyIsClaimedOnce, [CopyNext]_copyVars PROVE CopyIsClaimedOnce'
  <2> USE <1>2 DEF CopyIsClaimedOnce
  <2>1. ASSUME NEW d \in Downloads, Creates(d) PROVE CopyIsClaimedOnce'
    BY <2>1 DEF Creates
  <2>2. ASSUME NEW d \in Downloads, GetsThrough(d) PROVE CopyIsClaimedOnce'
    <3>1. \A e \in intact' \cup through' : e \in intact \cup through
      BY <2>2 DEF GetsThrough
    <3> QED BY <2>2, <3>1 DEF GetsThrough
  <2>3. ASSUME NEW d \in Downloads, Removes(d) PROVE CopyIsClaimedOnce'
    BY <2>3 DEF Removes
  <2>4. CASE BecomesWhole
    BY <2>4 DEF BecomesWhole
  <2>5. CASE Suffers
    <3>1. \A e \in intact' \cup through' : e \in intact \cup through
      BY <2>5 DEF Suffers
    <3>2. through' # {} => through # {}
      BY <2>5 DEF Suffers
    <3> QED BY <2>5, <3>1, <3>2 DEF Suffers
  <2>6. CASE Signs \/ Attaches
    BY <2>6 DEF Signs, Attaches
  <2>7. CASE UNCHANGED copyVars
    BY <2>7 DEF copyVars
  <2> QED BY <2>1, <2>2, <2>3, <2>4, <2>5, <2>6, <2>7 DEF CopyNext
<1> QED BY <1>1, <1>2, PTL DEF CopySpec
=============================================================================
