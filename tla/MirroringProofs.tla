--------------------------- MODULE MirroringProofs ---------------------------
(***************************************************************************)
(* Downloads between two farmers, for any number of MIRRORs and chunks.    *)
(***************************************************************************)
EXTENDS Mirroring, TLAPS

\* A MIRROR that is not downloading has nothing in flight.
IdleIsReset ==
  \A m \in Mirrors :
    /\ pull[m] \in {"idle", "done"} => stream[m] = "none" /\ sent[m] = 0 /\ taken[m] = 0
    /\ pull[m] = "answered" => taken[m] = 0
    /\ pc[m] \in {"retrieved", "missed", "asking"} => pull[m] \in {"idle", "done"}

\* Nobody reads or writes a file that is not there.
FilesAreThere ==
  /\ upload => source # None
  /\ \A m \in Mirrors : stream[m] = "open" => source # None
  /\ \A m \in Mirrors : pull[m] = "writing" => copy # None

\* The body of an undisturbed download is the whole shard.
BodyIsWhole(m) ==
  \/ stream[m] = "open" /\ source = Chunks
  \/ stream[m] = "eof" /\ sent[m] = Chunks

\* What has come in of it since the file was created is in the file.
CleanDownload ==
  \A m \in Mirrors :
    clean[m] =>
      /\ pull[m] \in {"answered", "writing"} => BodyIsWhole(m)
      /\ pull[m] = "writing" => 1..taken[m] \subseteq copy
      /\ pull[m] = "done" => copy = Whole

MirrorInv == TypeOK /\ IdleIsReset /\ FilesAreThere /\ CleanDownload

LEMMA MirrorInit == Init => MirrorInv
<1> SUFFICES ASSUME Init PROVE MirrorInv
  OBVIOUS
<1>1. TypeOK
  <2>1. 0 \in 0..Chunks
    BY MirroringAssumption
  <2>2. clean \in [Mirrors -> BOOLEAN] /\ token \in [Mirrors -> BOOLEAN]
    BY Zenon DEF Init
  <2> QED BY <2>1, <2>2 DEF Init, TypeOK
<1>2. IdleIsReset /\ FilesAreThere
  BY DEF Init, IdleIsReset, FilesAreThere
<1>3. \A m \in Mirrors : ~clean[m]
  BY DEF Init
<1> QED BY <1>1, <1>2, <1>3 DEF MirrorInv, CleanDownload

\* The source's own steps: the mirror's files and goroutines stay as they are.
LEMMA SourceStep ==
  ASSUME MirrorInv,
         PostCreates \/ PostWrites \/ PostFails \/ SourceRestarts
  PROVE  MirrorInv'
<1> USE MirroringAssumption
<1> USE DEF MirrorInv, TypeOK, IdleIsReset, FilesAreThere, CleanDownload, BodyIsWhole,
            request, served, pulled
<1>1. CASE PostCreates
  BY <1>1 DEF PostCreates
<1>2. CASE PostWrites
  <2>1. CASE source < Chunks
    <3>1. source' = source + 1 /\ source' \in 0..Chunks
      BY <1>2, <2>1 DEF PostWrites
    <3> QED BY <1>2, <2>1, <3>1 DEF PostWrites
  <2>2. CASE ~(source < Chunks)
    BY <1>2, <2>2 DEF PostWrites
  <2> QED BY <2>1, <2>2
<1>3. CASE PostFails
  BY <1>3 DEF PostFails
<1>4. CASE SourceRestarts
  BY <1>4 DEF SourceRestarts
<1> QED BY <1>1, <1>2, <1>3, <1>4

\* A GET from its answer to the end of its body.
LEMMA GetStep ==
  ASSUME MirrorInv, NEW m \in Mirrors, GetAnswered(m) \/ GetSends(m) \/ GetFails(m)
  PROVE  MirrorInv'
<1> USE MirroringAssumption
<1> USE DEF MirrorInv, TypeOK, IdleIsReset, FilesAreThere, CleanDownload, BodyIsWhole,
            posted, request, served, pulled
<1>1. CASE GetAnswered(m)
  <2>1. TypeOK' /\ IdleIsReset' /\ FilesAreThere'
    BY <1>1 DEF GetAnswered, Goto
  <2>2. ASSUME NEW o \in Mirrors, o # m
        PROVE  /\ clean'[o] = clean[o]
               /\ pull'[o] = pull[o] /\ stream'[o] = stream[o]
               /\ sent'[o] = sent[o] /\ taken'[o] = taken[o]
    <3>1. clean'[o] = clean[o]
      BY <1>1, <2>2, Zenon DEF GetAnswered
    <3> QED BY <1>1, <2>2, <3>1 DEF GetAnswered
  <2>3. clean'[m] => pull'[m] = "answered" /\ stream'[m] = "open" /\ source' = Chunks
    BY <1>1 DEF GetAnswered
  <2>4. source' = source /\ copy' = copy
    BY <1>1 DEF GetAnswered
  <2> QED BY <2>1, <2>2, <2>3, <2>4
<1>2. CASE GetSends(m)
  <2>1. source \in 0..Chunks /\ sent[m] \in 0..Chunks
    BY <1>2 DEF GetSends
  <2>2. CASE sent[m] < source
    <3>1. sent[m] + 1 \in 0..Chunks
      BY <2>1, <2>2
    <3> QED BY <1>2, <2>2, <3>1 DEF GetSends
  <2>3. CASE ~(sent[m] < source)
    <3>1. clean[m] => sent[m] = Chunks \/ pull[m] \notin {"answered", "writing"}
      BY <1>2, <2>1, <2>3 DEF GetSends
    <3> QED BY <1>2, <2>3, <3>1 DEF GetSends
  <2> QED BY <2>2, <2>3
<1>3. CASE GetFails(m)
  BY <1>3 DEF GetFails
<1> QED BY <1>1, <1>2, <1>3

\* The goroutine at the mirror.
LEMMA PullStep ==
  ASSUME MirrorInv, NEW m \in Mirrors, Pull(m)
  PROVE  MirrorInv'
<1> USE MirroringAssumption
<1> USE DEF MirrorInv, TypeOK, IdleIsReset, FilesAreThere, CleanDownload, BodyIsWhole,
            posted, request, served, pulled
<1>1. CASE PullCreates(m)
  <2>1. TypeOK' /\ IdleIsReset' /\ FilesAreThere'
    BY <1>1 DEF PullCreates
  <2>2. ASSUME NEW o \in Mirrors, o # m, clean'[o]
        PROVE  clean[o] /\ pull'[o] = pull[o] /\ pull[o] \notin {"writing", "done"}
    BY <1>1, <2>2 DEF PullCreates
  <2>3. clean'[m] => clean[m] /\ pull'[m] = "writing" /\ taken'[m] = 0
    BY <1>1 DEF PullCreates
  <2>4. UNCHANGED <<source, stream, sent>> /\ 1..0 \subseteq copy'
    BY <1>1 DEF PullCreates
  <2> QED BY <1>1, <2>1, <2>2, <2>3, <2>4 DEF PullCreates
<1>2. CASE PullTakes(m)
  <2>1. taken[m] + 1 \in 1..Chunks /\ taken[m] + 1 \in 0..Chunks
    BY <1>2 DEF PullTakes
  <2>2. copy' \in SUBSET Whole /\ copy \subseteq copy'
    BY <1>2, <2>1 DEF PullTakes, Whole
  <2>3. 1..taken[m] \subseteq copy => 1..(taken[m] + 1) \subseteq copy'
    BY <1>2, <2>1 DEF PullTakes
  <2>4. TypeOK' /\ IdleIsReset' /\ FilesAreThere'
    BY <1>2, <2>1, <2>2 DEF PullTakes
  <2>5. CleanDownload'
    <3> SUFFICES ASSUME NEW o \in Mirrors, clean'[o]
                 PROVE  /\ pull'[o] \in {"answered", "writing"} => BodyIsWhole(o)'
                        /\ pull'[o] = "writing" => 1..taken'[o] \subseteq copy'
                        /\ pull'[o] = "done" => copy' = Whole
      OBVIOUS
    <3>1. clean[o] /\ pull'[o] = pull[o] /\ BodyIsWhole(o)' = BodyIsWhole(o)
      BY <1>2 DEF PullTakes
    <3>2. pull[o] = "writing" => 1..taken'[o] \subseteq copy'
      BY <1>2, <2>2, <2>3, <3>1 DEF PullTakes
    <3> QED BY <2>2, <3>1, <3>2
  <2> QED BY <2>4, <2>5
<1>3. CASE PullEnds(m)
  <2>1. clean[m] => copy = Whole
    BY <1>3 DEF PullEnds, Whole
  <2> QED BY <1>3, <2>1 DEF PullEnds, Closes
<1>4. CASE PullFails(m)
  BY <1>4 DEF PullFails, Closes
<1> QED BY <1>1, <1>2, <1>3, <1>4 DEF Pull

\* What the handlers, the renters and the clock do leaves downloads alone, but
\* for a restart, after which only those that are done count.
LEMMA HandlerStep ==
  ASSUME MirrorInv, NEW m \in Mirrors,
         \/ \E saved \in BOOLEAN : OnRetrieve(m, saved)
         \/ GetUnanswered(m) \/ Handler(m)
  PROVE  MirrorInv'
<1> USE MirroringAssumption
<1> USE DEF MirrorInv, TypeOK, IdleIsReset, FilesAreThere, CleanDownload, BodyIsWhole,
            posted, served, pulled, Goto
<1>1. ASSUME NEW saved \in BOOLEAN, OnRetrieve(m, saved) PROVE MirrorInv'
  BY <1>1 DEF OnRetrieve, Free
<1>2. CASE GetUnanswered(m)
  BY <1>2 DEF GetUnanswered
<1>3. CASE MirrorArrives(m)
  BY <1>3 DEF MirrorArrives
<1>4. CASE MirrorChecks(m)
  BY <1>4 DEF MirrorChecks
<1>5. ASSUME NEW saved \in BOOLEAN, MirrorSaves(m, saved) PROVE MirrorInv'
  BY <1>5 DEF MirrorSaves
<1> QED BY <1>1, <1>2, <1>3, <1>4, <1>5 DEF Handler

LEMMA OtherStep ==
  ASSUME MirrorInv,
         ContractSaved \/ CacheExpires \/ MirrorRestarts \/ BecomesCalm \/ UNCHANGED vars
  PROVE  MirrorInv'
<1> USE MirroringAssumption
<1> USE DEF MirrorInv, TypeOK, IdleIsReset, FilesAreThere, CleanDownload, BodyIsWhole,
            posted, request, served, pulled
<1>1. CASE ContractSaved
  BY <1>1 DEF ContractSaved
<1>2. CASE CacheExpires
  BY <1>2 DEF CacheExpires
<1>3. CASE MirrorRestarts
  <2>1. TypeOK' /\ FilesAreThere'
    <3>1. clean' \in [Mirrors -> BOOLEAN]
      BY <1>3, Zenon DEF MirrorRestarts
    <3>2. pc' \in [Mirrors -> {"idle", "retrieved", "missed", "asking", "saving"}]
      BY <1>3 DEF MirrorRestarts
    <3>3. pull' \in [Mirrors -> {"idle", "answered", "writing", "done"}]
      BY <1>3 DEF MirrorRestarts
    <3>4. stream' \in [Mirrors -> {"none", "open", "eof", "cut"}]
      BY <1>3 DEF MirrorRestarts
    <3>5. sent' \in [Mirrors -> 0..Chunks] /\ taken' \in [Mirrors -> 0..Chunks]
      BY <1>3 DEF MirrorRestarts
    <3> QED BY <1>3, <3>1, <3>2, <3>3, <3>4, <3>5 DEF MirrorRestarts
  <2>2. IdleIsReset'
    BY <1>3 DEF MirrorRestarts
  <2>3. \A m \in Mirrors : clean'[m] => clean[m] /\ pull'[m] = "done" /\ pull[m] = "done"
    BY <1>3 DEF MirrorRestarts
  <2>4. copy' = copy
    BY <1>3 DEF MirrorRestarts
  <2> QED BY <2>1, <2>2, <2>3, <2>4
<1>4. CASE BecomesCalm
  BY <1>4 DEF BecomesCalm
<1>5. CASE UNCHANGED vars
  BY <1>5 DEF vars
<1> QED BY <1>1, <1>2, <1>3, <1>4, <1>5

LEMMA MirrorInvariance == Spec => []MirrorInv
<1>1. MirrorInv /\ [Next]_vars => MirrorInv'
  BY SourceStep, GetStep, PullStep, HandlerStep, OtherStep DEF Next, Get
<1> QED BY <1>1, MirrorInit, PTL DEF Spec

\* Every variable keeps its type.
THEOREM MirroringTypeCorrect == Spec => []TypeOK
<1>1. MirrorInv => TypeOK
  BY DEF MirrorInv
<1> QED BY <1>1, MirrorInvariance, PTL

\* However many MIRRORs overlap, fail and are repeated: a download that nothing
\* disturbed, and that was the last to create the file, leaves it whole.
THEOREM CleanDownloads == Spec => []CleanPullIsWhole
<1>1. MirrorInv => CleanPullIsWhole
  BY DEF MirrorInv, CleanDownload, CleanPullIsWhole
<1> QED BY <1>1, MirrorInvariance, PTL
-----------------------------------------------------------------------------
\* A MIRROR asks for the shard only with a contract.
AsksWithContract ==
  \A m \in Mirrors : pc[m] \in {"asking", "saving"} => contract # "none"

LEMMA ContractStep ==
  ASSUME MirrorInv, AsksWithContract, [Next]_vars
  PROVE  AsksWithContract'
<1> USE DEF MirrorInv, TypeOK, AsksWithContract, posted, request, served, pulled, Goto, Closes
<1>1. ASSUME NEW m \in Mirrors, NEW saved \in BOOLEAN, OnRetrieve(m, saved)
      PROVE  AsksWithContract'
  BY <1>1 DEF OnRetrieve
<1>2. ASSUME NEW m \in Mirrors, Get(m) \/ GetUnanswered(m) \/ GetFails(m)
      PROVE  AsksWithContract'
  BY <1>2 DEF Get, GetAnswered, GetUnanswered, GetSends, GetFails
<1>3. ASSUME NEW m \in Mirrors, Handler(m) PROVE AsksWithContract'
  BY <1>3 DEF Handler, MirrorArrives, MirrorChecks, MirrorSaves
<1>4. ASSUME NEW m \in Mirrors, Pull(m) PROVE AsksWithContract'
  BY <1>4 DEF Pull, PullCreates, PullTakes, PullEnds, PullFails
<1>5. CASE PostCreates \/ PostWrites \/ PostFails \/ SourceRestarts
  BY <1>5 DEF PostCreates, PostWrites, PostFails, SourceRestarts
<1>6. CASE ContractSaved \/ CacheExpires \/ MirrorRestarts \/ BecomesCalm \/ UNCHANGED vars
  BY <1>6 DEF ContractSaved, CacheExpires, MirrorRestarts, BecomesCalm, vars
<1> QED BY <1>1, <1>2, <1>3, <1>4, <1>5, <1>6 DEF Next

LEMMA AsksInvariance == Spec => [](MirrorInv /\ AsksWithContract)
<1>1. Init => AsksWithContract
  BY DEF Init, AsksWithContract
<1>2. MirrorInv /\ AsksWithContract /\ [Next]_vars => AsksWithContract'
  BY ContractStep
<1> QED BY <1>1, <1>2, MirrorInvariance, PTL DEF Spec
-----------------------------------------------------------------------------
CopyVars == <<CopyState, contract, Writing, Intact, Through>>

LEMMA CopyStarts == Init => Copy!CopyInit
BY DEF Init, Copy!CopyInit, CopyState, Writing, Intact, Through

\* What leaves the copy and the record alone and begins no writing is a failure
\* to the abstract copy, or nothing.
LEMMA Suffering ==
  ASSUME UNCHANGED <<copy, contract>>, Writing' \subseteq Writing,
         \A m \in Writing' : clean'[m] => clean[m],
         \A m \in Mirrors : pull'[m] = "done" /\ clean'[m] => pull[m] = "done" /\ clean[m]
  PROVE  Copy!Suffers
<1>1. CopyState' = CopyState
  BY DEF CopyState, Whole
<1>2. Intact' \subseteq Intact /\ Intact' \subseteq Writing'
  BY DEF Intact
<1>3. Through' \subseteq Through
  BY DEF Through
<1> QED BY <1>1, <1>2, <1>3 DEF Copy!Suffers

LEMMA SourceSuffers ==
  ASSUME TypeOK, PostCreates \/ PostWrites \/ PostFails \/ SourceRestarts
  PROVE  Copy!Suffers
<1>1. UNCHANGED <<copy, contract, pull>> /\ \A m \in Mirrors : clean'[m] => clean[m]
  BY DEF PostCreates, PostWrites, PostFails, SourceRestarts, pulled
<1> QED BY <1>1, Suffering DEF Writing

LEMMA GetSuffers ==
  ASSUME TypeOK, IdleIsReset, NEW m \in Mirrors,
         GetAnswered(m) \/ GetUnanswered(m) \/ GetSends(m) \/ GetFails(m)
  PROVE  Copy!Suffers
<1> USE DEF TypeOK, pulled, request, Goto
<1>1. UNCHANGED <<copy, contract>>
  BY DEF GetAnswered, GetUnanswered, GetSends, GetFails
<1>2. CASE GetAnswered(m)
  <2>1. \A o \in Mirrors : o # m => pull'[o] = pull[o] /\ clean'[o] = clean[o]
    BY <1>2, Zenon DEF GetAnswered
  <2>2. pull'[m] = "answered"
    BY <1>2 DEF GetAnswered
  <2> QED BY <1>1, <2>1, <2>2, Suffering DEF Writing
<1>3. CASE GetUnanswered(m) \/ GetSends(m) \/ GetFails(m)
  <2>1. UNCHANGED pull /\ \A o \in Mirrors : clean'[o] => clean[o]
    BY <1>3 DEF GetUnanswered, GetSends, GetFails
  <2> QED BY <1>1, <2>1, Suffering DEF Writing
<1> QED BY <1>2, <1>3

LEMMA HandlerSuffers ==
  ASSUME TypeOK, NEW m \in Mirrors,
         \/ \E saved \in BOOLEAN : OnRetrieve(m, saved)
         \/ MirrorArrives(m) \/ MirrorChecks(m)
  PROVE  Copy!Suffers
<1>1. UNCHANGED <<copy, contract, pull, clean>>
  BY DEF OnRetrieve, MirrorArrives, MirrorChecks, pulled
<1> QED BY <1>1, Suffering DEF Writing

LEMMA RestartSuffers ==
  ASSUME TypeOK, MirrorRestarts \/ UNCHANGED vars
  PROVE  Copy!Suffers
<1>1. CASE MirrorRestarts
  <2>1. /\ UNCHANGED <<copy, contract>>
        /\ \A m \in Mirrors : pull'[m] \in {"done", "idle"}
        /\ \A m \in Mirrors : pull'[m] = "done" /\ clean'[m] => pull[m] = "done" /\ clean[m]
    BY <1>1 DEF MirrorRestarts
  <2> QED BY <2>1, Suffering DEF Writing
<1>2. CASE UNCHANGED vars
  BY <1>2, Suffering DEF vars, pulled, Writing
<1> QED BY <1>1, <1>2

\* The goroutine of a download creates the copy, makes it whole, gets through
\* or fails.
LEMMA PullCopies ==
  ASSUME MirrorInv, NEW m \in Mirrors, Pull(m)
  PROVE  Copy!CopyNext \/ UNCHANGED CopyVars
<1> USE DEF MirrorInv, TypeOK
<1>1. CASE PullCreates(m)
  <2>1. CopyState' = "partial"
    <3>1. copy' = {} /\ 1 \in Whole
      BY <1>1, MirroringAssumption DEF PullCreates, Whole
    <3>2. {} # None
      BY MirroringAssumption
    <3> QED BY <3>1, <3>2 DEF CopyState, Whole
  <2>2. m \notin Writing /\ Writing' = Writing \cup {m}
    BY <1>1 DEF PullCreates, Writing
  <2>3. \A o \in Mirrors : clean'[o] => o = m \/ pull[o] \notin {"writing", "done"}
    BY <1>1 DEF PullCreates
  <2>4. Intact' \subseteq {m}
    BY <1>1, <2>3 DEF PullCreates, Writing, Intact
  <2>5. Through' = {}
    BY <1>1, <2>3 DEF PullCreates, Through
  <2>6. Copy!Creates(m)
    BY <1>1, <2>1, <2>2, <2>4, <2>5 DEF PullCreates, Copy!Creates
  <2> QED BY <2>6 DEF Copy!CopyNext
<1>2. CASE PullTakes(m)
  <2>1. UNCHANGED <<contract, Writing, Intact, Through>> /\ m \in Writing
    BY <1>2 DEF PullTakes, Writing, Intact, Through
  <2>2. copy # None /\ copy' # None /\ copy \subseteq copy' /\ copy' \subseteq Whole
    <3>1. taken[m] + 1 \in 1..Chunks
      BY <1>2, MirroringAssumption DEF PullTakes
    <3>2. copy # None /\ copy \in SUBSET Whole
      BY <1>2 DEF PullTakes, FilesAreThere
    <3>3. copy' \in SUBSET Whole /\ copy \subseteq copy'
      BY <1>2, <3>1, <3>2 DEF PullTakes, Whole
    <3> QED BY <3>2, <3>3, MirroringAssumption
  <2>3. CopyState' = CopyState \/ (CopyState = "partial" /\ CopyState' = "whole")
    <3>1. copy = Whole => copy' = Whole
      BY <2>2 DEF Whole
    <3> QED BY <2>2, <3>1 DEF CopyState, Whole
  <2>4. Copy!BecomesWhole \/ UNCHANGED CopyVars
    BY <2>1, <2>3 DEF Copy!BecomesWhole, CopyVars
  <2> QED BY <2>4 DEF Copy!CopyNext
<1>3. CASE PullEnds(m)
  <2>1. UNCHANGED <<copy, contract, clean, CopyState>> /\ m \in Writing
    BY <1>3 DEF PullEnds, CopyState, Whole, Writing
  <2>2. Writing' = Writing \ {m}
    BY <1>3 DEF PullEnds, Closes, Writing
  <2>3. CASE clean[m]
    <3>1. copy = Whole
      <4>1. taken[m] = Chunks /\ 1..taken[m] \subseteq copy
        BY <1>3, <2>3 DEF PullEnds, CleanDownload, BodyIsWhole
      <4>2. copy # None
        BY <1>3 DEF PullEnds, FilesAreThere
      <4> QED BY <4>1, <4>2 DEF Whole
    <3>2. CopyState = "whole"
      BY <3>1, MirroringAssumption DEF CopyState
    <3>3. m \in Intact /\ Intact' = Intact \ {m}
      BY <2>1, <2>2, <2>3 DEF Intact
    <3>4. Through' = Through \cup {m}
      BY <1>3, <2>1, <2>3 DEF PullEnds, Closes, Through
    <3>5. Copy!GetsThrough(m)
      BY <2>1, <2>2, <3>2, <3>3, <3>4 DEF Copy!GetsThrough
    <3> QED BY <3>5 DEF Copy!CopyNext
  <2>4. CASE ~clean[m]
    <3>1. \A o \in Mirrors : pull'[o] = "done" /\ clean'[o] => pull[o] = "done" /\ clean[o]
      BY <1>3, <2>1, <2>4 DEF PullEnds, Closes
    <3>2. Copy!Suffers
      BY <2>1, <2>2, <3>1, Suffering
    <3> QED BY <3>2 DEF Copy!CopyNext
  <2> QED BY <2>3, <2>4
<1>4. CASE PullFails(m)
  <2>1. UNCHANGED <<copy, contract>>
    BY <1>4 DEF PullFails
  <2>2. \A o \in Mirrors : o # m => pull'[o] = pull[o]
    BY <1>4 DEF PullFails, Closes
  <2>3. pull'[m] = "idle" /\ \A o \in Mirrors : clean'[o] => clean[o]
    BY <1>4 DEF PullFails, Closes
  <2>4. Copy!Suffers
    BY <2>1, <2>2, <2>3, Suffering DEF Writing
  <2> QED BY <2>4 DEF Copy!CopyNext
<1> QED BY <1>1, <1>2, <1>3, <1>4 DEF Pull

\* The record is signed by a negotiation, and mirrored by a MIRROR.
LEMMA RecordSteps ==
  ASSUME TypeOK, AsksWithContract,
         \/ ContractSaved
         \/ \E m \in Mirrors, saved \in BOOLEAN : MirrorSaves(m, saved)
  PROVE  Copy!CopyNext
<1>1. UNCHANGED <<copy, pull, clean>>
  BY DEF ContractSaved, MirrorSaves, pulled
<1>2. UNCHANGED <<CopyState, Writing, Intact, Through>>
  BY <1>1 DEF CopyState, Whole, Writing, Intact, Through
<1>3. CASE ContractSaved
  BY <1>2, <1>3 DEF ContractSaved, Copy!Signs, Copy!CopyNext
<1>4. ASSUME NEW m \in Mirrors, NEW saved \in BOOLEAN, MirrorSaves(m, saved)
      PROVE  Copy!CopyNext
  <2>1. contract # "none" /\ contract' \in {contract, "mirrored"}
    BY <1>4 DEF MirrorSaves, AsksWithContract
  <2>2. CASE contract' = contract
    BY <1>1, <2>2, Suffering DEF Writing, Copy!CopyNext
  <2>3. CASE contract' = "mirrored"
    BY <1>2, <2>1, <2>3 DEF Copy!Attaches, Copy!CopyNext
  <2> QED BY <2>1, <2>2, <2>3
<1> QED BY <1>3, <1>4

\* Mirroring implements ShardCopy, for any number of MIRRORs and chunks.
THEOREM MirrorImplementsCopy == Spec => CopyImplemented
<1>1. MirrorInv /\ AsksWithContract /\ [Next]_vars => [Copy!CopyNext]_CopyVars
  <2> SUFFICES ASSUME MirrorInv, AsksWithContract, [Next]_vars
               PROVE  Copy!CopyNext \/ UNCHANGED CopyVars
    BY DEF CopyVars
  <2> USE DEF MirrorInv
  <2>1. ASSUME NEW m \in Mirrors, \E saved \in BOOLEAN : OnRetrieve(m, saved)
        PROVE  Copy!Suffers
    BY <2>1, HandlerSuffers
  <2>2. ASSUME NEW m \in Mirrors, Get(m) \/ GetUnanswered(m) \/ GetFails(m)
        PROVE  Copy!Suffers
    BY <2>2, GetSuffers DEF Get
  <2>3. ASSUME NEW m \in Mirrors, Handler(m) PROVE Copy!CopyNext
    BY <2>3, HandlerSuffers, RecordSteps DEF Handler, Copy!CopyNext
  <2>4. ASSUME NEW m \in Mirrors, Pull(m) PROVE Copy!CopyNext \/ UNCHANGED CopyVars
    BY <2>4, PullCopies
  <2>5. CASE PostCreates \/ PostWrites \/ PostFails \/ SourceRestarts
    BY <2>5, SourceSuffers DEF Copy!CopyNext
  <2>6. CASE ContractSaved
    BY <2>6, RecordSteps
  <2>7. CASE CacheExpires \/ BecomesCalm
    <3>1. UNCHANGED <<copy, contract, pull, clean>>
      BY <2>7 DEF CacheExpires, BecomesCalm, pulled
    <3> QED BY <3>1, Suffering DEF Writing, Copy!CopyNext
  <2>8. CASE MirrorRestarts \/ UNCHANGED vars
    BY <2>8, RestartSuffers DEF Copy!CopyNext
  <2> QED BY <2>1, <2>2, <2>3, <2>4, <2>5, <2>6, <2>7, <2>8 DEF Next, Copy!CopyNext
<1> QED
  BY <1>1, CopyStarts, AsksInvariance, PTL DEF Spec, CopyImplemented, Copy!CopySpec,
     Copy!copyVars, CopyVars

CopyFacts == INSTANCE ShardCopyProofs
               WITH Downloads <- Mirrors, copy <- CopyState, record <- contract,
                    writing <- Writing, intact <- Intact, through <- Through

\* What follows for the mirror from ShardCopy alone: of all the downloads that
\* overlapped, one at most can be relied on, and the copy is as it left it.
THEOREM OneDownloadCounts == Spec => []Copy!CopyIsClaimedOnce
<1>1. Copy!CopyInit => CopyFacts!CopyInit
  BY DEF Copy!CopyInit, CopyFacts!CopyInit
<1>2. [Copy!CopyNext]_CopyVars => [CopyFacts!CopyNext]_CopyVars
  BY DEF Copy!CopyNext, Copy!Creates, Copy!GetsThrough, Copy!BecomesWhole, Copy!Suffers,
         Copy!Removes, Copy!Signs, Copy!Attaches,
         CopyFacts!CopyNext, CopyFacts!Creates, CopyFacts!GetsThrough,
         CopyFacts!BecomesWhole, CopyFacts!Suffers, CopyFacts!Removes, CopyFacts!Signs,
         CopyFacts!Attaches
<1>3. CopyFacts!CopyIsClaimedOnce => Copy!CopyIsClaimedOnce
  BY DEF Copy!CopyIsClaimedOnce, CopyFacts!CopyIsClaimedOnce
<1> QED
  BY <1>1, <1>2, <1>3, CopyFacts!ClaimsHold, MirrorImplementsCopy, PTL
     DEF CopyImplemented, Copy!CopySpec, Copy!copyVars, CopyFacts!CopySpec,
         CopyFacts!copyVars, CopyVars
=============================================================================
