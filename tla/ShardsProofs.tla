---------------------------- MODULE ShardsProofs ----------------------------
(***************************************************************************)
(* Concurrent writers of a shard file, and the channel that counts the     *)
(* uploads, for any number of writers and chunks.                          *)
(***************************************************************************)
EXTENDS Shards, FiniteSetTheorems, TLAPS

\* What a run of writers leaves: each file has everything that one of its
\* creators has copied so far - the one that truncated it last.
SomeCreatorIsIntact ==
  \A h \in Hashes :
    Created(h) # {} => \E w \in Created(h) : 1..offset[w] \subseteq files[h]

\* The part of the types that this needs, and that a writer is through only
\* when it has copied its body.
WriterTypes ==
  /\ files \in [Hashes -> {None} \cup SUBSET Whole]
  /\ pc \in [Writers -> Stages]
  /\ shard \in [Writers -> Hashes \cup {None}]
  /\ body \in [Writers -> 0..Chunks]
  /\ offset \in [Writers -> 0..Chunks]
  /\ found \in [Posts -> BOOLEAN]
  /\ \A w \in Writers : pc[w] # "idle" => shard[w] \in Hashes
  /\ \A w \in Writers : pc[w] \in {"idle", "admitted", "answered"} => offset[w] = 0
  /\ \A w \in Writers :
       pc[w] \in {"writing", "failed", "broken", "reporting", "stored", "past"}
         => files[shard[w]] # None
  /\ \A w \in Writers : pc[w] \in {"reporting", "stored", "past"} => offset[w] = body[w]

FilesInv == WriterTypes /\ SomeCreatorIsIntact

\* os.IsExist is never true of what os.Stat returns, so a POST that fails leaves
\* the file.
LEMMA BrokenFileStays ==
  ASSUME NEW w, PostFails(w)
  PROVE  UNCHANGED files
<1>1. ~IsExist(Stat(shard[w]))
  BY DEF IsExist, Stat
<1> QED BY <1>1 DEF PostFails

\* Initially nobody has created a file.
LEMMA FilesInit == Init => FilesInv
BY ShardsAssumption DEF Init, FilesInv, WriterTypes, SomeCreatorIsIntact, Created, Stages, Whole

\* The types are kept.
LEMMA TypesStep == FilesInv /\ [Next]_vars => WriterTypes'
<1> SUFFICES ASSUME FilesInv, [Next]_vars PROVE WriterTypes'
  OBVIOUS
<1> USE ShardsAssumption
<1> USE DEF FilesInv, WriterTypes, Goto, report, Writers
<1>0. {"idle", "refused", "admitted", "answered", "writing", "failed", "broken",
       "reporting", "stored", "past", "lost"} \subseteq Stages
  BY DEF Stages
<1>1. ASSUME NEW w \in Posts, NEW h \in Hashes, NEW tokenSaved \in BOOLEAN,
             PostArrives(w, h, tokenSaved)
      PROVE  WriterTypes'
  <2>1. IsStored(h) \in BOOLEAN
    BY DEF IsStored
  <2> QED BY <1>0, <1>1, <2>1 DEF PostArrives
<1>2. ASSUME NEW w \in Posts, PostStep(w) \/ PostFails(w) PROVE WriterTypes'
  <2>1. CASE PostStep(w)
    <3>1. /\ UNCHANGED <<files, shard, body, offset, found>>
          /\ \/ pc[w] = "writing" /\ offset[w] = body[w] /\ pc' = [pc EXCEPT ![w] = "reporting"]
             \/ pc[w] = "reporting" /\ pc' = [pc EXCEPT ![w] = "stored"]
      BY <2>1 DEF PostStep, PostCompletes, PostReports
    <3> QED BY <1>0, <3>1
  <2>2. CASE PostFails(w)
    <3>1. /\ pc[w] = "writing" /\ pc' = [pc EXCEPT ![w] = "failed"]
          /\ UNCHANGED <<files, shard, body, offset, found>>
      BY <2>2, BrokenFileStays DEF PostFails
    <3> QED BY <1>0, <3>1
  <2> QED BY <1>2, <2>1, <2>2
<1>3. ASSUME NEW w \in Pulls, NEW h \in Hashes, NEW n \in 0..Chunks, PullAnswered(w, h, n)
      PROVE  WriterTypes'
  BY <1>0, <1>3 DEF PullAnswered
<1>4. ASSUME NEW w \in Pulls, PullCompletes(w) \/ PullFails(w) PROVE WriterTypes'
  BY <1>0, <1>4 DEF PullCompletes, PullFails
<1>5. ASSUME NEW w \in Writers, Creates(w) PROVE WriterTypes'
  BY <1>0, <1>5 DEF Creates
<1>6. ASSUME NEW w \in Writers, Writes(w) PROVE WriterTypes'
  <2>1. offset[w] + 1 \in 1..Chunks /\ offset[w] + 1 \in 0..Chunks
    BY <1>6 DEF Writes
  <2>2. files[shard[w]] \cup {offset[w] + 1} \in SUBSET Whole
    BY <1>6, <2>1 DEF Writes, Whole
  <2>3. \A s \in SUBSET Whole : s # None
    OBVIOUS
  <2> QED BY <1>6, <2>1, <2>2, <2>3 DEF Writes
<1>7. CASE UiReceives
  BY <1>7 DEF UiReceives
<1>8. CASE Restart
  BY <1>0, <1>8 DEF Restart
<1>9. CASE UNCHANGED vars
  BY <1>9 DEF vars
<1> QED BY <1>1, <1>2, <1>3, <1>4, <1>5, <1>6, <1>7, <1>8, <1>9 DEF Next

\* A step that only moves the stages of those who have created a file, among
\* themselves, leaves the intact creator intact.
LEMMA StagesOnly ==
  ASSUME FilesInv, UNCHANGED <<files, offset>>,
         \A h \in Hashes : Created(h)' = Created(h)
  PROVE  SomeCreatorIsIntact'
BY DEF FilesInv, SomeCreatorIsIntact

\* A creator stays intact: who truncates the file becomes the intact one, and
\* a chunk that is written is never taken away again.
LEMMA IntactStep == FilesInv /\ [Next]_vars => SomeCreatorIsIntact'
<1> SUFFICES ASSUME FilesInv, [Next]_vars PROVE SomeCreatorIsIntact'
  OBVIOUS
<1> USE DEF FilesInv, WriterTypes, Goto, report
<1>0. Posts \subseteq Writers /\ Pulls \subseteq Writers
  BY DEF Writers
<1>1. ASSUME NEW w \in Posts, NEW h \in Hashes, NEW tokenSaved \in BOOLEAN,
             PostArrives(w, h, tokenSaved)
      PROVE  SomeCreatorIsIntact'
  BY <1>0, <1>1, StagesOnly DEF PostArrives, Created
<1>2. ASSUME NEW w \in Posts, PostStep(w) \/ PostFails(w) PROVE SomeCreatorIsIntact'
  <2>1. CASE PostStep(w)
    BY <1>0, StagesOnly, <2>1 DEF PostStep, PostCompletes, PostReports, Created
  <2>2. CASE PostFails(w)
    <3>1. /\ pc[w] = "writing" /\ pc' = [pc EXCEPT ![w] = "failed"]
          /\ UNCHANGED <<files, shard, body, offset, found>>
      BY <2>2, BrokenFileStays DEF PostFails
    <3> QED BY <1>0, StagesOnly, <3>1 DEF Created
  <2> QED BY <1>2, <2>1, <2>2
<1>3. ASSUME NEW w \in Pulls, NEW h \in Hashes, NEW n \in 0..Chunks, PullAnswered(w, h, n)
      PROVE  SomeCreatorIsIntact'
  BY <1>0, <1>3, StagesOnly DEF PullAnswered, Created
<1>4. ASSUME NEW w \in Pulls, PullCompletes(w) \/ PullFails(w) PROVE SomeCreatorIsIntact'
  BY <1>0, <1>4, StagesOnly DEF PullCompletes, PullFails, Created
<1>5. ASSUME NEW w \in Writers, Creates(w) PROVE SomeCreatorIsIntact'
  <2>1. CASE pc'[w] = "refused"
    <3>1. UNCHANGED <<files, offset>> /\ \A h \in Hashes : Created(h)' = Created(h)
      BY <1>5, <2>1 DEF Creates, Created
    <3> QED BY <3>1, StagesOnly
  <2>2. CASE pc'[w] = "writing"
    <3>1. /\ shard[w] \in Hashes /\ offset[w] = 0
          /\ files' = [files EXCEPT ![shard[w]] = {}]
          /\ UNCHANGED <<shard, offset>>
      BY <1>5, <2>2 DEF Creates
    <3>2. w \in Created(shard[w])' /\ 1..offset'[w] \subseteq files'[shard[w]]
      BY <2>2, <3>1 DEF Created
    <3>3. ASSUME NEW h \in Hashes, h # shard[w], Created(h)' # {}
          PROVE  \E v \in Created(h)' : 1..offset'[v] \subseteq files'[h]
      <4>1. Created(h)' = Created(h)
        BY <1>5, <3>1, <3>3 DEF Creates, Created
      <4> QED BY <3>1, <3>3, <4>1 DEF SomeCreatorIsIntact
    <3> QED BY <3>1, <3>2, <3>3 DEF SomeCreatorIsIntact
  <2> QED BY <1>5, <2>1, <2>2 DEF Creates
<1>6. ASSUME NEW w \in Writers, Writes(w) PROVE SomeCreatorIsIntact'
  <2>1. \A h \in Hashes : Created(h)' = Created(h)
    BY <1>6 DEF Writes, Created
  <2>2. shard[w] \in Hashes /\ offset[w] \in Nat /\ files[shard[w]] # None
    BY <1>6 DEF Writes
  <2>3. /\ \A h \in Hashes : h # shard[w] => files'[h] = files[h]
        /\ files'[shard[w]] = files[shard[w]] \cup {offset[w] + 1}
    BY <1>6, <2>2 DEF Writes
  <2>4. /\ \A v \in Writers : v # w => offset'[v] = offset[v]
        /\ offset'[w] = offset[w] + 1
    BY <1>6 DEF Writes
  <2>5. ASSUME NEW h \in Hashes, NEW v \in Created(h), 1..offset[v] \subseteq files[h]
        PROVE  1..offset'[v] \subseteq files'[h]
    <3>1. v \in Writers /\ shard[v] = h
      BY DEF Created
    <3>2. CASE v = w
      <4>1. 1..offset'[w] = 1..offset[w] \cup {offset[w] + 1}
        BY <2>2, <2>4
      <4> QED BY <2>3, <2>5, <3>1, <3>2, <4>1
    <3>3. CASE v # w
      BY <2>3, <2>4, <2>5, <3>1, <3>3
    <3> QED BY <3>2, <3>3
  <2> QED BY <2>1, <2>5 DEF SomeCreatorIsIntact
<1>7. CASE UiReceives
  BY <1>7, StagesOnly DEF UiReceives, Created
<1>8. CASE Restart
  <2>1. \A h \in Hashes : Created(h)' = Created(h)
    BY <1>8 DEF Restart, Created, Stages
  <2> QED BY <1>8, <2>1, StagesOnly DEF Restart
<1>9. CASE UNCHANGED vars
  BY <1>9, StagesOnly DEF vars, Created
<1> QED BY <1>1, <1>2, <1>3, <1>4, <1>5, <1>6, <1>7, <1>8, <1>9 DEF Next

\* Whatever the number of POSTs and downloads, and however they truncate and
\* write in between: when all of them get through, the shard is whole.
THEOREM ConcurrentWriters == Spec => []WholeIfAllGetThrough
<1>1. FilesInv => WholeIfAllGetThrough
  <2> SUFFICES ASSUME FilesInv, NEW h \in Hashes, Created(h) # {},
                      \A w \in Created(h) : Through(w)
               PROVE  files[h] = Whole
    BY DEF WholeIfAllGetThrough
  <2>1. PICK w \in Created(h) : 1..offset[w] \subseteq files[h]
    BY DEF FilesInv, SomeCreatorIsIntact
  <2>2. w \in Writers /\ shard[w] = h /\ offset[w] = Chunks
    BY <2>1 DEF Created, Through, FilesInv, WriterTypes
  <2>3. Whole \subseteq files[h]
    BY <2>1, <2>2 DEF Whole
  <2>4. files[h] \in SUBSET Whole
    BY <2>1, <2>2 DEF FilesInv, WriterTypes, Created
  <2> QED BY <2>3, <2>4
<1>2. FilesInv /\ [Next]_vars => FilesInv'
  BY TypesStep, IntactStep DEF FilesInv
<1> QED BY <1>1, <1>2, FilesInit, PTL DEF Spec
-----------------------------------------------------------------------------
\* The uploads that the terminal is to count.
Stored == {w \in Posts : pc[w] = "stored"}

ReportTypes ==
  /\ pc \in [Writers -> Stages]
  /\ chanSize \in Seq(Posts \cup {"contracts"}) /\ Len(chanSize) <= Capacity
  /\ received \in Nat

CountInv == ReportTypes /\ UploadsAreCounted

LEMMA CountInit == Init => CountInv
<1> SUFFICES ASSUME Init PROVE CountInv
  OBVIOUS
<1>1. ReportTypes
  BY ShardsAssumption DEF Init, ReportTypes, Stages
<1>2. Stored = {}
  BY DEF Init, Stored, Writers
<1>3. UploadsAreCounted
  BY <1>2, FS_EmptySet DEF Init, UploadsAreCounted, Stored
<1> QED BY <1>1, <1>3 DEF CountInv

\* A step that stores no upload and leaves the channel alone.
LEMMA NothingCounted ==
  ASSUME CountInv, pc' \in [Writers -> Stages], UNCHANGED report, Stored' = Stored
  PROVE  CountInv'
BY DEF CountInv, ReportTypes, UploadsAreCounted, Stored, report

LEMMA CountStep == CountInv /\ [Next]_vars => CountInv'
<1> SUFFICES ASSUME CountInv, [Next]_vars PROVE CountInv'
  OBVIOUS
<1>0. /\ Posts \subseteq Writers /\ Posts \cap Pulls = {}
      /\ {"idle", "refused", "admitted", "answered", "writing", "failed", "broken",
          "reporting", "stored", "past", "lost"} \subseteq Stages
      /\ pc \in [Writers -> Stages]
  BY ShardsAssumption DEF Writers, Stages, CountInv, ReportTypes
<1>1. ASSUME NEW w \in Posts, NEW h \in Hashes, NEW tokenSaved \in BOOLEAN,
             PostArrives(w, h, tokenSaved)
      PROVE  CountInv'
  BY <1>0, <1>1, NothingCounted DEF PostArrives, Goto, Stored
<1>2. ASSUME NEW w \in Posts, PostCompletes(w) \/ PostFails(w) PROVE CountInv'
  BY <1>0, <1>2, NothingCounted DEF PostCompletes, PostFails, Goto, Stored
<1>3. ASSUME NEW w \in Posts, PostReports(w) PROVE CountInv'
  <2>1. IsFiniteSet(Stored) /\ w \notin Stored
    BY <1>3, ShardsAssumption, FS_Subset DEF PostReports, Stored
  <2>2. Stored' = Stored \cup {w}
    BY <1>0, <1>3 DEF PostReports, Goto, Stored
  <2>3. Cardinality(Stored') = Cardinality(Stored) + 1
    BY <2>1, <2>2, FS_AddElement
  <2>4. chanSize \in Seq(Posts \cup {"contracts"})
    BY DEF CountInv, ReportTypes
  <2>5. /\ chanSize' \in Seq(Posts \cup {"contracts"})
        /\ Len(chanSize') = Len(chanSize) + 1
    BY <1>3, <2>4 DEF PostReports
  <2>6. ReportTypes'
    BY <1>0, <1>3, <2>4, <2>5, ShardsAssumption DEF PostReports, Goto, CountInv, ReportTypes
  <2>7. Cardinality(Stored) \in Nat
    BY <2>1, FS_CardinalityType
  <2>8. received' + Len(chanSize') = 1 + Cardinality(Stored')
    BY <1>3, <2>3, <2>4, <2>5, <2>7
       DEF PostReports, CountInv, ReportTypes, UploadsAreCounted, Stored
  <2> QED BY <2>6, <2>8 DEF CountInv, UploadsAreCounted, Stored
<1>4. ASSUME NEW w \in Pulls,
             \/ \E h \in Hashes, n \in 0..Chunks : PullAnswered(w, h, n)
             \/ PullCompletes(w) \/ PullFails(w)
      PROVE  CountInv'
  BY <1>0, <1>4, NothingCounted
     DEF PullAnswered, PullCompletes, PullFails, Goto, Stored, Writers
<1>5. ASSUME NEW w \in Writers, Creates(w) \/ Writes(w) PROVE CountInv'
  BY <1>0, <1>5, NothingCounted DEF Creates, Writes, Goto, Stored
<1>6. CASE UiReceives
  <2>1. chanSize \in Seq(Posts \cup {"contracts"}) /\ chanSize # <<>>
    BY <1>6 DEF UiReceives, CountInv, ReportTypes
  <2>2. /\ chanSize' \in Seq(Posts \cup {"contracts"})
        /\ Len(chanSize') = Len(chanSize) - 1 /\ Len(chanSize) \in Nat
    BY <1>6, <2>1 DEF UiReceives
  <2>3. Stored' = Stored
    BY <1>6 DEF UiReceives, Stored
  <2>4. ReportTypes'
    BY <1>6, <2>2, ShardsAssumption DEF UiReceives, CountInv, ReportTypes
  <2>5. received' + Len(chanSize') = received + Len(chanSize)
    BY <1>6, <2>2 DEF UiReceives, CountInv, ReportTypes
  <2> QED BY <2>3, <2>4, <2>5 DEF CountInv, UploadsAreCounted, Stored
<1>7. CASE Restart
  <2>1. Stored' = {}
    BY <1>0, <1>7 DEF Restart, Stored
  <2>2. Cardinality(Stored') = 0
    BY <2>1, FS_EmptySet
  <2>3. ReportTypes'
    BY <1>0, <1>7, ShardsAssumption DEF Restart, ReportTypes
  <2>4. received' + Len(chanSize') = 1
    BY <1>7 DEF Restart
  <2> QED BY <2>2, <2>3, <2>4 DEF CountInv, UploadsAreCounted, Stored
<1>8. CASE UNCHANGED vars
  BY <1>0, <1>8, NothingCounted DEF vars, Stored
<1> QED BY <1>1, <1>2, <1>3, <1>4, <1>5, <1>6, <1>7, <1>8 DEF Next, PostStep

\* Every variable keeps its type: in particular no write is past the end of the
\* shard, and the channel never holds more than it has room for.
THEOREM ShardsTypeCorrect == Spec => []TypeOK
<1>1. FilesInv /\ CountInv => TypeOK
  BY DEF FilesInv, WriterTypes, CountInv, ReportTypes, TypeOK
<1>2. FilesInv /\ [Next]_vars => FilesInv'
  BY TypesStep, IntactStep DEF FilesInv
<1> QED BY <1>1, <1>2, FilesInit, CountInit, CountStep, PTL DEF Spec

\* However many uploads wait at the full channel, and however often the process
\* restarts: the terminal counts each that was answered, once.
THEOREM UploadsCounted == Spec => []UploadsAreCounted
<1>1. CountInv => UploadsAreCounted
  BY DEF CountInv
<1> QED BY <1>1, CountInit, CountStep, PTL DEF Spec
=============================================================================
