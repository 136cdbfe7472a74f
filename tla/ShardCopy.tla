------------------------------ MODULE ShardCopy ------------------------------
(***************************************************************************)
(* What a mirror promises about its copy of a shard, whatever MIRRORs,     *)
(* restarts and failures there are, at the mirror and at the source.  A    *)
(* download that creates the file empties it under all the others; from    *)
(* then on the copy grows, and only a download that fails may take it away *)
(* again, and with it what others counted on.  A download that nothing has *)
(* come between is through only when the copy is whole.  The record goes   *)
(* from no contract to a signed one and on to one with trees.              *)
(***************************************************************************)
CONSTANT Downloads

VARIABLES
  copy,      \* "absent", "partial" or "whole"
  record,    \* "none", "signed" or "mirrored"
  writing,   \* the downloads that have the file open
  intact,    \* those of them that nothing has come between
  through    \* those that nothing came between until they were through

copyVars == <<copy, record, writing, intact, through>>

CopyInit ==
  /\ copy = "absent" /\ record = "none"
  /\ writing = {} /\ intact = {} /\ through = {}

Creates(d) ==
  /\ d \notin writing
  /\ copy' = "partial"
  /\ writing' = writing \cup {d}
  /\ intact' \in SUBSET {d}
  /\ through' = {}
  /\ UNCHANGED record

BecomesWhole ==
  /\ writing # {} /\ copy = "partial"
  /\ copy' = "whole"
  /\ UNCHANGED <<record, writing, intact, through>>

GetsThrough(d) ==
  /\ d \in intact /\ copy = "whole"
  /\ writing' = writing \ {d} /\ intact' = intact \ {d}
  /\ through' = through \cup {d}
  /\ UNCHANGED <<copy, record>>

\* Some downloads are disturbed, some others end; a MIRROR comes anew.
Suffers ==
  /\ writing' \in SUBSET writing
  /\ intact' \in SUBSET (intact \cap writing')
  /\ through' \in SUBSET through
  /\ UNCHANGED <<copy, record>>

\* A download that fails may remove what there is of the file, as DownloadShard
\* means to when it cannot create it (utils.go:201).
Removes(d) ==
  /\ copy' = "absent"
  /\ writing' = writing \ {d}
  /\ intact' = {} /\ through' = {}
  /\ UNCHANGED record

Signs ==
  /\ record = "none"
  /\ record' = "signed"
  /\ UNCHANGED <<copy, writing, intact, through>>

Attaches ==
  /\ record # "none"
  /\ record' = "mirrored"
  /\ UNCHANGED <<copy, writing, intact, through>>

CopyNext ==
  \/ \E d \in Downloads : Creates(d) \/ GetsThrough(d) \/ Removes(d)
  \/ BecomesWhole \/ Suffers \/ Signs \/ Attaches

CopySpec == CopyInit /\ [][CopyNext]_copyVars
-----------------------------------------------------------------------------
\* A download that got through undisturbed has left the copy whole, and at most
\* one at a time can say so or may yet: the last to have created the file.
CopyIsClaimedOnce ==
  /\ through # {} => copy = "whole"
  /\ \A d, e \in intact \cup through : d = e
=============================================================================
