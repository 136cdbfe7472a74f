---------------------------- MODULE FarmerProofs ----------------------------
(***************************************************************************)
(* The safety properties of module Farmer for any number of hashes and     *)
(* requests: type correctness first, then the inductive invariant          *)
(* FarmerInv, and from it that the farmer implements ContractLedger.       *)
(***************************************************************************)
EXTENDS FarmerProperties, TLAPS

\* The requests of the three kinds are told apart, and None is none of them.
LEMMA Kinds ==
  /\ \A p \in Publishes : p \in Requests /\ p \notin Carriers
  /\ \A r \in Carriers : r \in Requests /\ r # None
  /\ \A c \in Consigns : c \in Carriers /\ c \notin Mirrors
  /\ \A m \in Mirrors : m \in Carriers /\ m \notin Consigns
  /\ \A p \in Publishes : p # None
  /\ \A h \in Hashes : h # None
BY ConstantAssumption DEF Requests, Carriers

\* What is stored under a hash is an item, and an item is not None.
LEMMA Stored ==
  TypeOK => \A h \in Hashes :
              contracts[h] # None =>
                /\ contracts[h] \in Item
                /\ contracts[h].count \in Counts /\ contracts[h].count # 0
                /\ IsPowerOfTwo(contracts[h].count)
                /\ contracts[h].trees \in Carriers \cup {None}
BY DEF TypeOK, Item, IsPowerOfTwo

\* What a CONSIGN or MIRROR writes back: the contract that is stored, which
\* its copy still agrees with, and its own trees; other hashes are not touched.
LEMMA WriteBack ==
  ASSUME TypeOK, ArrivedHasHash, CopyAgrees,
         NEW r \in Carriers, pc[r] \in {"tokenSaved", "downloaded"},
         contracts' = [contracts EXCEPT ![dataHash[r]] = [sItem[r] EXCEPT !.trees = r]]
  PROVE  /\ dataHash[r] \in Hashes
         /\ contracts[dataHash[r]] # None
         /\ contracts'[dataHash[r]] \in Item /\ contracts'[dataHash[r]] # None
         /\ contracts'[dataHash[r]].count = contracts[dataHash[r]].count
         /\ contracts'[dataHash[r]].offer = contracts[dataHash[r]].offer
         /\ contracts'[dataHash[r]].trees = r
         /\ treeLen[r] = contracts[dataHash[r]].count
         /\ \A h \in Hashes : h # dataHash[r] => contracts'[h] = contracts[h]
         /\ contracts' \in [Hashes -> Item \cup {None}]
<1> USE Kinds
<1>1. /\ dataHash[r] \in Hashes
      /\ contracts[dataHash[r]] # None /\ sItem[r] # None
      /\ sItem[r].count = contracts[dataHash[r]].count
      /\ sItem[r].offer = contracts[dataHash[r]].offer
      /\ treeLen[r] = sItem[r].count
  BY DEF ArrivedHasHash, CopyAgrees
<1>2. sItem[r] \in Item
  BY <1>1 DEF TypeOK
<1>3. /\ [sItem[r] EXCEPT !.trees = r] \in Item
      /\ [sItem[r] EXCEPT !.trees = r].count = sItem[r].count
      /\ [sItem[r] EXCEPT !.trees = r].offer = sItem[r].offer
      /\ [sItem[r] EXCEPT !.trees = r].trees = r
  BY <1>2 DEF Item
<1>4. [sItem[r] EXCEPT !.trees = r] # None
  BY <1>3, ConstantAssumption
<1> QED BY <1>1, <1>3, <1>4 DEF TypeOK

-----------------------------------------------------------------------------
(* Type correctness. *)

\* The initial state is well typed.
LEMMA TypeInit == Init => TypeOK
BY DEF Init, TypeOK, PublishStages

\* Every step keeps the types; the callback of an OFFER is the one step that
\* makes a contract, and its check of the AuditCount makes it an Item.
LEMMA TypeStep == TypeOK /\ ArrivedHasHash /\ CopyAgrees /\ [Next]_vars => TypeOK'
<1> SUFFICES ASSUME TypeOK, ArrivedHasHash, CopyAgrees, [Next]_vars PROVE TypeOK'
  OBVIOUS
<1> USE Kinds
<1> USE DEF TypeOK, volatile, database, inputs, locals, Goto
<1> DEFINE Stages == PublishStages \cup ConsignStages \cup MirrorStages
<1>0. {"idle", "checked", "spawned", "locked", "answered", "failed", "sending",
       "sent", "done", "lost", "waiting", "resumed", "loaded", "tokenSaved",
       "accepted", "refused", "downloaded"} \subseteq Stages
  BY DEF PublishStages, ConsignStages, MirrorStages
<1> HIDE DEF Stages
<1>1. ASSUME NEW p \in Publishes, PublishStep(p) PROVE TypeOK'
  <2>1. ASSUME NEW h \in Hashes, NEW valid \in BOOLEAN, PublishArrives(p, h, valid)
        PROVE TypeOK'
    BY <1>0, <2>1 DEF PublishArrives, Stages
  <2>2. CASE PublishSpawns(p)
    BY <1>0, <2>2 DEF PublishSpawns, ArrivedHasHash, Stages
  <2> QED BY <1>1, <2>1, <2>2 DEF PublishStep
<1>2. ASSUME NEW p \in Publishes, OfferStep(p) PROVE TypeOK'
  <2>1. CASE OfferLocks(p)
    BY <1>0, <2>1 DEF OfferLocks, Stages
  <2>2. CASE OfferTimesOut(p)
    BY <1>0, <2>2 DEF OfferTimesOut, Stages
  <2>3. CASE OfferStores(p)
    <3>1. answer[p] # None /\ IsPowerOfTwo(answer[p]) =>
            [count |-> answer[p], offer |-> p, trees |-> None] \in Item
      BY DEF Item
    <3> QED BY <1>0, <2>3, <3>1 DEF OfferStores, Stages
  <2>4. CASE OfferFails(p)
    BY <1>0, <2>4 DEF OfferFails, Stages
  <2>5. CASE OfferUnlocks(p)
    BY <1>0, <2>5 DEF OfferUnlocks, Stages
  <2> QED BY <1>2, <2>1, <2>2, <2>3, <2>4, <2>5 DEF OfferStep
<1>3. ASSUME NEW p \in Publishes, NEW n \in Counts \cup {None}, RenterAnswers(p, n)
      PROVE TypeOK'
  BY <1>0, <1>3 DEF RenterAnswers, Stages
<1>4. ASSUME NEW p \in Publishes, NEW c \in Consigns, Rendezvous(p, c) PROVE TypeOK'
  BY <1>0, <1>4 DEF Rendezvous, Stages
<1>5. ASSUME NEW c \in Consigns, NEW h \in Hashes, NEW n \in Counts,
             ConsignArrives(c, h, n)
      PROVE TypeOK'
  BY <1>0, <1>5 DEF ConsignArrives, Stages
<1>6. ASSUME NEW c \in Consigns, ConsignStep(c) PROVE TypeOK'
  <2>1. CASE ConsignLoads(c)
    BY <1>0, <2>1 DEF ConsignLoads, ArrivedHasHash, Stages
  <2>2. CASE ConsignSavesToken(c)
    BY <1>0, <2>2 DEF ConsignSavesToken, Stages
  <2>3. CASE ConsignSavesTrees(c)
    BY <1>0, <2>3, WriteBack DEF ConsignSavesTrees, Stages
  <2> QED BY <1>6, <2>1, <2>2, <2>3 DEF ConsignStep
<1>7. ASSUME NEW m \in Mirrors, NEW h \in Hashes, NEW n \in Counts,
             MirrorArrives(m, h, n)
      PROVE TypeOK'
  BY <1>0, <1>7 DEF MirrorArrives, Stages
<1>8. ASSUME NEW m \in Mirrors, MirrorStep(m) PROVE TypeOK'
  <2>1. CASE MirrorLoads(m)
    BY <1>0, <2>1 DEF MirrorLoads, ArrivedHasHash, Stages
  <2>2. CASE MirrorDownloads(m)
    BY <1>0, <2>2 DEF MirrorDownloads, Stages
  <2>3. CASE MirrorSavesTrees(m)
    BY <1>0, <2>3, WriteBack DEF MirrorSavesTrees, Stages
  <2> QED BY <1>8, <2>1, <2>2, <2>3 DEF MirrorStep
<1>9. ASSUME NEW h \in Hashes, ContractEntryExpires(h) \/ MirrorEntryExpires(h)
       PROVE TypeOK'
  BY <1>9 DEF ContractEntryExpires, MirrorEntryExpires
<1>10. CASE Restart
  BY <1>0, <1>10 DEF Restart, Stages
<1>11. CASE UNCHANGED vars
  BY <1>11 DEF vars
<1> QED
  BY <1>1, <1>2, <1>3, <1>4, <1>5, <1>6, <1>7, <1>8, <1>9, <1>10, <1>11 DEF Next
-----------------------------------------------------------------------------
(* The inductive invariant. *)

\* What the rest of the invariant says, next to the types.
ContractInv ==
  /\ ArrivedHasHash /\ CopyAgrees /\ TreesFit /\ TokenWasSaved
  /\ CachedIsPursued /\ TreesHaveToken /\ AcceptedIsDurable

\* Initially no request has arrived and the tables are empty.
LEMMA InvInit == Init => FarmerInv
BY TypeInit, Kinds DEF Init, FarmerInv, ArrivedHasHash, CopyAgrees, TreesFit,
     TokenWasSaved, CachedIsPursued, TreesHaveToken, AcceptedIsDurable, Carriers, Requests

\* Every step keeps the invariant.  CopyAgrees is what makes the write-backs
\* safe; TreesFit and TokenWasSaved carry the facts that a request established
\* at one step to the step that relies on them.
LEMMA InvStep == FarmerInv /\ [Next]_vars => FarmerInv'
<1> SUFFICES ASSUME FarmerInv, [Next]_vars PROVE FarmerInv'
  OBVIOUS
<1>0. TypeOK /\ TypeOK'
  BY TypeStep DEF FarmerInv
<1> SUFFICES ContractInv'
  BY <1>0 DEF FarmerInv, ContractInv
<1> USE <1>0, Kinds, Stored
<1> USE DEF TypeOK, volatile, database, inputs, locals, Goto, ContractInv, FarmerInv,
      ArrivedHasHash, CopyAgrees, TreesFit,
     TokenWasSaved, CachedIsPursued, TreesHaveToken, AcceptedIsDurable, OfferUnderway
<1>1. ASSUME NEW p \in Publishes, PublishStep(p) PROVE ContractInv'
  <2>1. ASSUME NEW h \in Hashes, NEW valid \in BOOLEAN, PublishArrives(p, h, valid)
        PROVE ContractInv'
    BY <2>1 DEF PublishArrives
  <2>2. CASE PublishSpawns(p)
    BY <2>2 DEF PublishSpawns
  <2> QED BY <1>1, <2>1, <2>2 DEF PublishStep
<1>2. ASSUME NEW p \in Publishes, OfferStep(p) PROVE ContractInv'
  <2>1. CASE OfferLocks(p)
    BY <2>1 DEF OfferLocks
  <2>2. CASE OfferTimesOut(p)
    BY <2>2 DEF OfferTimesOut
  <2>3. CASE OfferStores(p)
    <3>0. answer[p] # None /\ IsPowerOfTwo(answer[p]) =>
            [count |-> answer[p], offer |-> p, trees |-> None] # None
      <4>1. answer[p] # None /\ IsPowerOfTwo(answer[p]) =>
              [count |-> answer[p], offer |-> p, trees |-> None] \in Item
        BY DEF Item
      <4> QED BY <4>1, ConstantAssumption
    <3>1. ArrivedHasHash'
      BY <2>3 DEF OfferStores
    <3>2. CopyAgrees'
      BY <2>3 DEF OfferStores
    <3>3. TreesFit'
      BY <2>3 DEF OfferStores
    <3>4. TokenWasSaved'
      BY <2>3 DEF OfferStores
    <3>5. CachedIsPursued'
      BY <2>3, <3>0 DEF OfferStores
    <3>6. TreesHaveToken'
      BY <2>3 DEF OfferStores
    <3>7. AcceptedIsDurable'
      BY <2>3 DEF OfferStores
    <3> QED BY <3>1, <3>2, <3>3, <3>4, <3>5, <3>6, <3>7
  <2>4. CASE OfferFails(p)
    BY <2>4 DEF OfferFails
  <2>5. CASE OfferUnlocks(p)
    BY <2>5 DEF OfferUnlocks
  <2> QED BY <1>2, <2>1, <2>2, <2>3, <2>4, <2>5 DEF OfferStep
<1>3. ASSUME NEW p \in Publishes, NEW n \in Counts \cup {None}, RenterAnswers(p, n)
      PROVE ContractInv'
  BY <1>3 DEF RenterAnswers
<1>4. ASSUME NEW p \in Publishes, NEW c \in Consigns, Rendezvous(p, c) PROVE ContractInv'
  BY <1>4 DEF Rendezvous
<1>5. ASSUME NEW c \in Consigns, NEW h \in Hashes, NEW n \in Counts,
             ConsignArrives(c, h, n)
      PROVE ContractInv'
  <2>1. ArrivedHasHash'
    BY <1>5 DEF ConsignArrives
  <2>2. CopyAgrees'
    BY <1>5 DEF ConsignArrives
  <2>3. TreesFit'
    BY <1>5 DEF ConsignArrives
  <2>4. TokenWasSaved'
    BY <1>5 DEF ConsignArrives
  <2>5. CachedIsPursued'
    BY <1>5 DEF ConsignArrives
  <2>6. TreesHaveToken'
    BY <1>5 DEF ConsignArrives
  <2>7. AcceptedIsDurable'
    BY <1>5 DEF ConsignArrives
  <2> QED BY <2>1, <2>2, <2>3, <2>4, <2>5, <2>6, <2>7
<1>6. ASSUME NEW c \in Consigns, ConsignStep(c) PROVE ContractInv'
  <2>1. CASE ConsignLoads(c)
    <3>1. ArrivedHasHash'
      BY <2>1 DEF ConsignLoads
    <3>2. CopyAgrees'
      BY <2>1 DEF ConsignLoads
    <3>3. TreesFit'
      BY <2>1 DEF ConsignLoads
    <3>4. TokenWasSaved'
      BY <2>1 DEF ConsignLoads
    <3>5. CachedIsPursued'
      BY <2>1 DEF ConsignLoads
    <3>6. TreesHaveToken'
      BY <2>1 DEF ConsignLoads
    <3>7. AcceptedIsDurable'
      BY <2>1 DEF ConsignLoads
    <3> QED BY <3>1, <3>2, <3>3, <3>4, <3>5, <3>6, <3>7
  <2>2. CASE ConsignSavesToken(c)
    <3>1. ArrivedHasHash'
      BY <2>2 DEF ConsignSavesToken
    <3>2. CopyAgrees'
      BY <2>2 DEF ConsignSavesToken
    <3>3. TreesFit'
      BY <2>2 DEF ConsignSavesToken
    <3>4. TokenWasSaved'
      BY <2>2 DEF ConsignSavesToken
    <3>5. CachedIsPursued'
      BY <2>2 DEF ConsignSavesToken
    <3>6. TreesHaveToken'
      BY <2>2 DEF ConsignSavesToken
    <3>7. AcceptedIsDurable'
      BY <2>2 DEF ConsignSavesToken
    <3> QED BY <3>1, <3>2, <3>3, <3>4, <3>5, <3>6, <3>7
  <2>3. CASE ConsignSavesTrees(c)
    <3>1. ArrivedHasHash'
      BY <2>3, WriteBack DEF ConsignSavesTrees
    <3>2. CopyAgrees'
      BY <2>3, WriteBack DEF ConsignSavesTrees
    <3>3. TreesFit'
      BY <2>3, WriteBack DEF ConsignSavesTrees
    <3>4. TokenWasSaved'
      BY <2>3, WriteBack DEF ConsignSavesTrees
    <3>5. CachedIsPursued'
      BY <2>3, WriteBack DEF ConsignSavesTrees
    <3>6. TreesHaveToken'
      BY <2>3, WriteBack DEF ConsignSavesTrees
    <3>7. AcceptedIsDurable'
      BY <2>3, WriteBack DEF ConsignSavesTrees
    <3> QED BY <3>1, <3>2, <3>3, <3>4, <3>5, <3>6, <3>7
  <2> QED BY <1>6, <2>1, <2>2, <2>3 DEF ConsignStep
<1>7. ASSUME NEW m \in Mirrors, NEW h \in Hashes, NEW n \in Counts,
             MirrorArrives(m, h, n)
      PROVE ContractInv'
  BY <1>7 DEF MirrorArrives
<1>8. ASSUME NEW m \in Mirrors, MirrorStep(m) PROVE ContractInv'
  <2>1. CASE MirrorLoads(m)
    <3>1. ArrivedHasHash'
      BY <2>1 DEF MirrorLoads
    <3>2. CopyAgrees'
      BY <2>1 DEF MirrorLoads
    <3>3. TreesFit'
      BY <2>1 DEF MirrorLoads
    <3>4. TokenWasSaved'
      BY <2>1 DEF MirrorLoads
    <3>5. CachedIsPursued'
      BY <2>1 DEF MirrorLoads
    <3>6. TreesHaveToken'
      BY <2>1 DEF MirrorLoads
    <3>7. AcceptedIsDurable'
      BY <2>1 DEF MirrorLoads
    <3> QED BY <3>1, <3>2, <3>3, <3>4, <3>5, <3>6, <3>7
  <2>2. CASE MirrorDownloads(m)
    <3>1. ArrivedHasHash'
      BY <2>2 DEF MirrorDownloads
    <3>2. CopyAgrees'
      BY <2>2 DEF MirrorDownloads
    <3>3. TreesFit'
      BY <2>2 DEF MirrorDownloads
    <3>4. TokenWasSaved'
      BY <2>2 DEF MirrorDownloads
    <3>5. CachedIsPursued'
      BY <2>2 DEF MirrorDownloads
    <3>6. TreesHaveToken'
      BY <2>2 DEF MirrorDownloads
    <3>7. AcceptedIsDurable'
      BY <2>2 DEF MirrorDownloads
    <3> QED BY <3>1, <3>2, <3>3, <3>4, <3>5, <3>6, <3>7
  <2>3. CASE MirrorSavesTrees(m)
    <3>1. ArrivedHasHash'
      BY <2>3, WriteBack DEF MirrorSavesTrees
    <3>2. CopyAgrees'
      BY <2>3, WriteBack DEF MirrorSavesTrees
    <3>3. TreesFit'
      BY <2>3, WriteBack DEF MirrorSavesTrees
    <3>4. TokenWasSaved'
      BY <2>3, WriteBack DEF MirrorSavesTrees
    <3>5. CachedIsPursued'
      BY <2>3, WriteBack DEF MirrorSavesTrees
    <3>6. TreesHaveToken'
      BY <2>3, WriteBack DEF MirrorSavesTrees
    <3>7. AcceptedIsDurable'
      BY <2>3, WriteBack DEF MirrorSavesTrees
    <3> QED BY <3>1, <3>2, <3>3, <3>4, <3>5, <3>6, <3>7
  <2> QED BY <1>8, <2>1, <2>2, <2>3 DEF MirrorStep
<1>9. ASSUME NEW h \in Hashes, ContractEntryExpires(h) \/ MirrorEntryExpires(h)
       PROVE ContractInv'
  BY <1>9 DEF ContractEntryExpires, MirrorEntryExpires
<1>10. CASE Restart
  <2>1. ArrivedHasHash'
    BY <1>10 DEF Restart, Settled
  <2>2. CopyAgrees'
    BY <1>10 DEF Restart, Settled
  <2>3. TreesFit'
    BY <1>10 DEF Restart, Settled
  <2>4. TokenWasSaved'
    BY <1>10 DEF Restart, Settled
  <2>5. CachedIsPursued'
    BY <1>10 DEF Restart, Settled
  <2>6. TreesHaveToken'
    BY <1>10 DEF Restart, Settled
  <2>7. AcceptedIsDurable'
    BY <1>10 DEF Restart, Settled
  <2> QED BY <2>1, <2>2, <2>3, <2>4, <2>5, <2>6, <2>7
<1>11. CASE UNCHANGED vars
  BY <1>11 DEF vars
<1> QED
  BY <1>1, <1>2, <1>3, <1>4, <1>5, <1>6, <1>7, <1>8, <1>9, <1>10, <1>11 DEF Next
-----------------------------------------------------------------------------
(* The theorems. *)

\* FarmerInv holds in every reachable state, whatever the number of hashes and
\* requests and whatever the audit counts.
THEOREM Invariance == Spec => []FarmerInv
<1>1. Init => FarmerInv
  BY InvInit
<1>2. FarmerInv /\ [Next]_vars => FarmerInv'
  BY InvStep
<1> QED BY <1>1, <1>2, PTL DEF Spec

\* Every variable keeps its type; stored audit counts are powers of two.
THEOREM TypeCorrect == Spec => []TypeOK
<1>1. FarmerInv => TypeOK
  BY DEF FarmerInv
<1> QED BY <1>1, Invariance, PTL

\* onPublish turns a hash away only while it negotiates it or has signed it.
THEOREM CachePursues == Spec => []CachedIsPursued
<1>1. FarmerInv => CachedIsPursued
  BY DEF FarmerInv
<1> QED BY <1>1, Invariance, PTL

\* The trees a CONSIGN stored are there only with its token, restarts included.
THEOREM TreesComeWithToken == Spec => []TreesHaveToken
<1>1. FarmerInv => TreesHaveToken
  BY DEF FarmerInv
<1> QED BY <1>1, Invariance, PTL

\* What a CONSIGN was answered stays true: its token and a tree stay stored.
THEOREM AcceptedStays == Spec => []AcceptedIsDurable
<1>1. FarmerInv => AcceptedIsDurable
  BY DEF FarmerInv
<1> QED BY <1>1, Invariance, PTL

\* No handler writes back a contract other than the one stored meanwhile.
THEOREM CopiesAgree == Spec => []CopyAgrees
<1>1. FarmerInv => CopyAgrees
  BY DEF FarmerInv
<1> QED BY <1>1, Invariance, PTL
-----------------------------------------------------------------------------
(* The rendezvous of OFFER and CONSIGN. *)

\* What it says that p is the only PUBLISH about h.
LEMMA Sole ==
  ASSUME NEW d, NEW p \in Publishes, NEW h
  PROVE  {q \in Publishes : d[q] = h} = {p}
           <=> d[p] = h /\ \A q \in Publishes : d[q] = h => q = p
OBVIOUS

\* A request that has arrived stays about its hash, and a tree with a length.
LEMMA HashKept ==
  ASSUME TypeOK, [Next]_vars, NEW r \in Requests, pc[r] # "idle"
  PROVE  dataHash'[r] = dataHash[r]
<1>1. ASSUME NEW q \in Requests, NEW h \in Hashes, pc[q] = "idle",
             dataHash' = [dataHash EXCEPT ![q] = h]
      PROVE  dataHash'[r] = dataHash[r]
  BY <1>1 DEF TypeOK
<1>2. \/ UNCHANGED dataHash
      \/ \E q \in Requests, h \in Hashes :
           pc[q] = "idle" /\ dataHash' = [dataHash EXCEPT ![q] = h]
  BY Kinds DEF Next, vars, inputs, PublishStep, OfferStep, ConsignStep, MirrorStep,
     PublishArrives, PublishSpawns, OfferLocks, RenterAnswers, OfferTimesOut, OfferStores,
     OfferFails, Rendezvous, OfferUnlocks, ConsignArrives, ConsignLoads, ConsignSavesToken,
     ConsignSavesTrees, MirrorArrives, MirrorLoads, MirrorDownloads, MirrorSavesTrees,
     ContractEntryExpires, MirrorEntryExpires, Restart
<1> QED BY <1>1, <1>2

\* A PUBLISH that has arrived and is the only one for its hash was so before.
LEMMA SoleBefore ==
  ASSUME TypeOK, OfferInOrder, [Next]_vars,
         NEW p \in Publishes, NEW h \in Hashes, pc[p] # "idle", SolePublish(p, h)'
  PROVE  SolePublish(p, h)
<1>1. dataHash'[p] = h /\ \A q \in Publishes : dataHash'[q] = h => q = p
  BY Sole DEF SolePublish
<1>2. \A q \in Publishes : dataHash[q] = h => dataHash'[q] = h
  BY HashKept, Kinds DEF OfferInOrder
<1>3. dataHash[p] = h
  BY <1>1, HashKept, Kinds
<1> QED BY <1>1, <1>2, <1>3, Sole DEF SolePublish

\* Initially nobody has arrived.
LEMMA RendezvousInit == Init => RendezvousInv
BY Kinds DEF Init, RendezvousInv, ChannelsFit, OfferInOrder, OfferIsLocked,
     ConsignFollowsOffer, ConsignComesLate, Carriers, Requests

\* A CONSIGN that arrives finds the channel of the only OFFER for its hash, or
\* that OFFER over; a CONSIGN that waits is woken by an OFFER that is over; and
\* an OFFER for a hash that was consigned is not the only one.
LEMMA RendezvousStep ==
  ASSUME ProtocolRenter, FarmerInv, RendezvousInv, [Next]_vars
  PROVE  RendezvousInv'
<1>0. TypeOK /\ TypeOK' /\ ArrivedHasHash /\ ArrivedHasHash'
  BY InvStep DEF FarmerInv
<1>a. /\ \A p \in Publishes, h \in Hashes :
           SolePublish(p, h)' /\ pc[p] # "idle" => SolePublish(p, h)
      /\ \A p \in Publishes, h \in Hashes : SolePublish(p, h)
           => dataHash[p] = h /\ \A q \in Publishes : dataHash[q] = h => q = p
      /\ \A p \in Publishes, h \in Hashes : SolePublish(p, h)'
           => dataHash'[p] = h /\ \A q \in Publishes : dataHash'[q] = h => q = p
  BY <1>0, SoleBefore, Sole DEF RendezvousInv, SolePublish
<1> USE <1>0, <1>a, Kinds
<1> USE DEF TypeOK, volatile, database, inputs, locals, Goto, ArrivedHasHash, RendezvousInv,
      ChannelsFit, OfferInOrder, OfferIsLocked, ConsignFollowsOffer, ConsignComesLate
<1>1. ASSUME NEW p \in Publishes, PublishStep(p) PROVE RendezvousInv'
  <2>1. ASSUME NEW h \in Hashes, NEW valid \in BOOLEAN, PublishArrives(p, h, valid)
        PROVE RendezvousInv'
    <3>1. ChannelsFit' /\ OfferInOrder'
      BY <2>1 DEF PublishArrives
    <3>2. OfferIsLocked'
      BY <2>1 DEF PublishArrives
    <3>3. ConsignFollowsOffer'
      BY <2>1 DEF PublishArrives
    <3>4. ConsignComesLate'
      BY <2>1 DEF PublishArrives
    <3> QED BY <3>1, <3>2, <3>3, <3>4
  <2>2. CASE PublishSpawns(p)
    BY <2>2 DEF PublishSpawns
  <2> QED BY <1>1, <2>1, <2>2 DEF PublishStep
<1>2. ASSUME NEW p \in Publishes, OfferStep(p) PROVE RendezvousInv'
  <2>1. CASE OfferLocks(p)
    BY <2>1 DEF OfferLocks
  <2>2. CASE OfferTimesOut(p)
    BY <2>2 DEF OfferTimesOut
  <2>3. CASE OfferStores(p)
    BY <2>3 DEF OfferStores
  <2>4. CASE OfferFails(p)
    BY <2>4 DEF OfferFails
  <2>5. CASE OfferUnlocks(p)
    BY <2>5 DEF OfferUnlocks
  <2> QED BY <1>2, <2>1, <2>2, <2>3, <2>4, <2>5 DEF OfferStep
<1>3. ASSUME NEW p \in Publishes, NEW n \in Counts \cup {None}, RenterAnswers(p, n)
      PROVE RendezvousInv'
  BY <1>3 DEF RenterAnswers
<1>4. ASSUME NEW p \in Publishes, NEW c \in Consigns, Rendezvous(p, c)
      PROVE RendezvousInv'
  BY <1>4 DEF Rendezvous
<1>5. ASSUME NEW c \in Consigns, NEW h \in Hashes, NEW n \in Counts,
             ConsignArrives(c, h, n)
      PROVE RendezvousInv'
  <2>1. ChannelsFit' /\ OfferInOrder'
    BY <1>5 DEF ConsignArrives
  <2>2. OfferIsLocked'
    BY <1>5 DEF ConsignArrives
  <2>3. ConsignFollowsOffer'
    BY <1>5 DEF ConsignArrives
  <2>4. ConsignComesLate'
    <3>1. ASSUME NEW p \in Publishes, pc'[c] = "resumed", SolePublish(p, h)'
          PROVE  pc[p] \notin {"idle", "checked", "spawned", "locked", "answered"}
      <4>1. answer[p] # None /\ dataHash[p] = h /\ pc[p] # "idle"
        BY <1>5, <3>1 DEF ConsignArrives
      <4>2. offerLock[h] # p /\ SolePublish(p, h)
        BY <1>5, <3>1, <4>1 DEF ConsignArrives
      <4> QED BY <4>1, <4>2
    <3> QED BY <1>5, <3>1 DEF ConsignArrives
  <2> QED BY <2>1, <2>2, <2>3, <2>4
<1>6. ASSUME NEW c \in Consigns, ConsignStep(c) PROVE RendezvousInv'
  BY <1>6 DEF ConsignStep, ConsignLoads, ConsignSavesToken, ConsignSavesTrees
<1>7. ASSUME NEW m \in Mirrors, NEW h \in Hashes, NEW n \in Counts,
             MirrorArrives(m, h, n)
      PROVE RendezvousInv'
  BY <1>7 DEF MirrorArrives
<1>8. ASSUME NEW m \in Mirrors, MirrorStep(m) PROVE RendezvousInv'
  BY <1>8 DEF MirrorStep, MirrorLoads, MirrorDownloads, MirrorSavesTrees
<1>9. ASSUME NEW h \in Hashes, ContractEntryExpires(h) \/ MirrorEntryExpires(h)
       PROVE RendezvousInv'
  BY <1>9 DEF ContractEntryExpires, MirrorEntryExpires
<1>10. CASE Restart
  BY <1>10 DEF Restart, Settled
<1>11. CASE UNCHANGED vars
  BY <1>11 DEF vars
<1> QED
  BY <1>1, <1>2, <1>3, <1>4, <1>5, <1>6, <1>7, <1>8, <1>9, <1>10, <1>11 DEF Next

\* For renters that keep to the protocol, and any number of hashes and requests:
\* a CONSIGN is not refused while the one OFFER for its hash may yet be stored.
THEOREM ConsignsWaitLongEnough ==
  ASSUME ProtocolRenter
  PROVE  Spec => NoPrematureRefusal
<1>1. FarmerInv /\ RendezvousInv /\ [Next]_vars => RendezvousInv'
  BY RendezvousStep
<1>2. RendezvousInv /\ [Next]_vars =>
        [\A c \in Consigns, p \in Publishes :
           RefusedWithoutContract(c) /\ SolePublish(p, dataHash[c])
             => ~ Acceptable(p)]_vars
  BY DEF RendezvousInv, ConsignComesLate, RefusedWithoutContract, Acceptable
<1> QED
  BY <1>1, <1>2, RendezvousInit, Invariance, PTL DEF Spec, NoPrematureRefusal

\* A CONSIGN that has arrived and is the only one for its hash was so before.
LEMMA SoleConsignBefore ==
  ASSUME TypeOK, ArrivedHasHash, ConsignInOrder, [Next]_vars,
         NEW c \in Consigns, pc[c] # "idle", SoleConsign(c)'
  PROVE  SoleConsign(c)
<1>1. dataHash[c] \in Hashes /\ dataHash'[c] = dataHash[c]
  BY HashKept, Kinds DEF ArrivedHasHash, Requests
<1>2. \A d \in Consigns : dataHash'[d] = dataHash'[c] => d = c
  BY DEF SoleConsign
<1>3. \A d \in Consigns : dataHash[d] = dataHash[c] => dataHash'[d] = dataHash'[c]
  BY <1>1, HashKept, Kinds DEF ConsignInOrder, Requests
<1> QED BY <1>2, <1>3 DEF SoleConsign

\* Initially nobody waits.
LEMMA WaiterInit == Init => WaiterInv
BY Kinds DEF Init, WaiterInv, ChannelsFit, OfferInOrder, ConsignInOrder, LockedIsFresh,
     SentWasReceived, NobodyWaitsInVain, Carriers, Requests

\* The channel a CONSIGN finds was not sent on, or somebody else received that
\* and the CONSIGN is not the only one; what is sent on it wakes the CONSIGN, or
\* another one for its hash.
LEMMA WaiterStep ==
  ASSUME FarmerInv, WaiterInv, [Next]_vars
  PROVE  WaiterInv'
<1>0. TypeOK /\ TypeOK' /\ ArrivedHasHash /\ ArrivedHasHash'
  BY InvStep DEF FarmerInv
<1>a. /\ \A c \in Consigns : SoleConsign(c)' /\ pc[c] # "idle" => SoleConsign(c)
      /\ \A c \in Consigns : SoleConsign(c) => \A d \in Consigns : dataHash[d] = dataHash[c] => d = c
      /\ \A c \in Consigns : SoleConsign(c)' => \A d \in Consigns : dataHash'[d] = dataHash'[c] => d = c
  BY <1>0, SoleConsignBefore DEF WaiterInv, SoleConsign
<1> USE <1>0, <1>a, Kinds
<1> USE DEF TypeOK, volatile, database, inputs, locals, Goto, ArrivedHasHash, WaiterInv,
      ChannelsFit, OfferInOrder, ConsignInOrder, LockedIsFresh, SentWasReceived,
      NobodyWaitsInVain, WillSend
<1>1. ASSUME NEW p \in Publishes, PublishStep(p) PROVE WaiterInv'
  <2>1. ASSUME NEW h \in Hashes, NEW valid \in BOOLEAN, PublishArrives(p, h, valid)
        PROVE WaiterInv'
    <3>1. ChannelsFit' /\ OfferInOrder' /\ ConsignInOrder'
      BY <2>1 DEF PublishArrives
    <3>2. LockedIsFresh'
      BY <2>1 DEF PublishArrives
    <3>3. SentWasReceived'
      BY <2>1 DEF PublishArrives
    <3>4. NobodyWaitsInVain'
      BY <2>1 DEF PublishArrives
    <3> QED BY <3>1, <3>2, <3>3, <3>4
  <2>2. CASE PublishSpawns(p)
    BY <2>2 DEF PublishSpawns
  <2> QED BY <1>1, <2>1, <2>2 DEF PublishStep
<1>2. ASSUME NEW p \in Publishes, OfferStep(p) PROVE WaiterInv'
  <2>1. CASE OfferLocks(p)
    BY <2>1 DEF OfferLocks
  <2>2. CASE OfferTimesOut(p)
    BY <2>2 DEF OfferTimesOut
  <2>3. CASE OfferStores(p)
    BY <2>3 DEF OfferStores
  <2>4. CASE OfferFails(p)
    BY <2>4 DEF OfferFails
  <2>5. CASE OfferUnlocks(p)
    BY <2>5 DEF OfferUnlocks
  <2> QED BY <1>2, <2>1, <2>2, <2>3, <2>4, <2>5 DEF OfferStep
<1>3. ASSUME NEW p \in Publishes, NEW n \in Counts \cup {None}, RenterAnswers(p, n)
      PROVE WaiterInv'
  BY <1>3 DEF RenterAnswers
<1>4. ASSUME NEW p \in Publishes, NEW c \in Consigns, Rendezvous(p, c)
      PROVE WaiterInv'
  <2>1. ChannelsFit' /\ OfferInOrder' /\ ConsignInOrder'
    BY <1>4 DEF Rendezvous
  <2>2. LockedIsFresh'
    BY <1>4 DEF Rendezvous
  <2>3. SentWasReceived'
    BY <1>4 DEF Rendezvous
  <2>4. NobodyWaitsInVain'
    BY <1>4 DEF Rendezvous
  <2> QED BY <2>1, <2>2, <2>3, <2>4
<1>5. ASSUME NEW c \in Consigns, NEW h \in Hashes, NEW n \in Counts,
             ConsignArrives(c, h, n)
      PROVE WaiterInv'
  <2>1. ChannelsFit' /\ OfferInOrder' /\ ConsignInOrder'
    BY <1>5 DEF ConsignArrives
  <2>2. LockedIsFresh'
    BY <1>5 DEF ConsignArrives
  <2>3. SentWasReceived'
    BY <1>5 DEF ConsignArrives
  <2>4. NobodyWaitsInVain'
    BY <1>5 DEF ConsignArrives
  <2> QED BY <2>1, <2>2, <2>3, <2>4
<1>6. ASSUME NEW c \in Consigns, ConsignStep(c) PROVE WaiterInv'
  BY <1>6 DEF ConsignStep, ConsignLoads, ConsignSavesToken, ConsignSavesTrees
<1>7. ASSUME NEW m \in Mirrors, NEW h \in Hashes, NEW n \in Counts,
             MirrorArrives(m, h, n)
      PROVE WaiterInv'
  BY <1>7 DEF MirrorArrives
<1>8. ASSUME NEW m \in Mirrors, MirrorStep(m) PROVE WaiterInv'
  BY <1>8 DEF MirrorStep, MirrorLoads, MirrorDownloads, MirrorSavesTrees
<1>9. ASSUME NEW h \in Hashes, ContractEntryExpires(h) \/ MirrorEntryExpires(h)
       PROVE WaiterInv'
  BY <1>9 DEF ContractEntryExpires, MirrorEntryExpires
<1>10. CASE Restart
  BY <1>10 DEF Restart, Settled
<1>11. CASE UNCHANGED vars
  BY <1>11 DEF vars, SoleConsign
<1> QED
  BY <1>1, <1>2, <1>3, <1>4, <1>5, <1>6, <1>7, <1>8, <1>9, <1>10, <1>11 DEF Next

\* For any number of OFFERs and CONSIGNs and whatever renters do: a CONSIGN that
\* is the only one for its hash waits at a channel that is still to be sent on.
THEOREM WaitersAreWoken == Spec => []NobodyWaitsInVain
<1>1. FarmerInv /\ WaiterInv /\ [Next]_vars => WaiterInv'
  BY WaiterStep
<1>2. WaiterInv => NobodyWaitsInVain
  BY DEF WaiterInv
<1> QED
  BY <1>1, <1>2, WaiterInit, Invariance, PTL DEF Spec
-----------------------------------------------------------------------------
(* The refinement of ContractLedger. *)

LedgerTable == [h \in Hashes |-> LedgerEntry(h)]

\* The empty bucket is the empty ledger.
LEMMA LedgerStarts == Init => Ledger!LedgerInit
BY DEF Init, Ledger!LedgerInit, LedgerEntry

\* The length of a stored tree is settled: its request arrived long ago.
LEMMA TreeLenKept ==
  ASSUME FarmerInv, [Next]_vars, NEW h \in Hashes,
         contracts[h] # None, contracts[h].trees # None
  PROVE  treeLen'[contracts[h].trees] = treeLen[contracts[h].trees]
<1> DEFINE r == contracts[h].trees
<1>1. r \in Carriers /\ pc[r] # "idle"
  BY Stored DEF FarmerInv, TreesFit
<1>2. treeLen \in [Carriers -> Counts \cup {0}]
  BY DEF FarmerInv, TypeOK
<1>3. ASSUME NEW q \in Carriers, NEW n \in Counts, pc[q] = "idle",
             treeLen' = [treeLen EXCEPT ![q] = n]
      PROVE  treeLen'[r] = treeLen[r]
  BY <1>1, <1>2, <1>3
<1>4. \/ UNCHANGED treeLen
      \/ \E q \in Carriers, n \in Counts :
           pc[q] = "idle" /\ treeLen' = [treeLen EXCEPT ![q] = n]
  BY Kinds DEF Next, vars, inputs, PublishStep, OfferStep, ConsignStep, MirrorStep,
     PublishArrives, PublishSpawns, OfferLocks, RenterAnswers, OfferTimesOut, OfferStores,
     OfferFails, Rendezvous, OfferUnlocks, ConsignArrives, ConsignLoads, ConsignSavesToken,
     ConsignSavesTrees, MirrorArrives, MirrorLoads, MirrorDownloads, MirrorSavesTrees,
     ContractEntryExpires, MirrorEntryExpires, Restart
<1> QED BY <1>3, <1>4

\* A table that changes at one key is the table with that key replaced.
LEMMA OneEntry ==
  ASSUME NEW old, NEW new, NEW k \in Hashes, NEW v,
         old = [h \in Hashes |-> old[h]], new = [h \in Hashes |-> new[h]],
         new[k] = v, \A h \in Hashes : h # k => new[h] = old[h]
  PROVE  new = [old EXCEPT ![k] = v]
OBVIOUS

Inserts(p, k) ==
  /\ dataHash[p] = k /\ contracts[k] = None
  /\ answer[p] # None /\ IsPowerOfTwo(answer[p])
  /\ contracts' = [contracts EXCEPT ![k] =
                     [count |-> answer[p], offer |-> p, trees |-> None]]
  /\ UNCHANGED treeLen

WritesBack(r, k) ==
  /\ dataHash[r] = k /\ pc[r] \in {"tokenSaved", "downloaded"}
  /\ contracts' = [contracts EXCEPT ![k] = [sItem[r] EXCEPT !.trees = r]]
  /\ UNCHANGED treeLen

\* A step leaves the bucket alone, inserts a contract, or writes trees back.
LEMMA BucketSteps ==
  ASSUME ArrivedHasHash, [Next]_vars
  PROVE  \/ UNCHANGED contracts
         \/ \E p \in Publishes, k \in Hashes : Inserts(p, k)
         \/ \E r \in Carriers, k \in Hashes : WritesBack(r, k)
<1>1. ASSUME NEW p \in Publishes, OfferStores(p)
      PROVE  UNCHANGED contracts \/ \E k \in Hashes : Inserts(p, k)
  BY <1>1, Kinds DEF OfferStores, Inserts, ArrivedHasHash, inputs
<1>2. ASSUME NEW c \in Consigns, ConsignSavesTrees(c)
      PROVE  UNCHANGED contracts \/ \E k \in Hashes : WritesBack(c, k)
  BY <1>2, Kinds DEF ConsignSavesTrees, WritesBack, ArrivedHasHash, inputs
<1>3. ASSUME NEW m \in Mirrors, MirrorSavesTrees(m)
      PROVE  UNCHANGED contracts \/ \E k \in Hashes : WritesBack(m, k)
  BY <1>3, Kinds DEF MirrorSavesTrees, WritesBack, ArrivedHasHash, inputs
<1>4. \/ UNCHANGED contracts
      \/ \E p \in Publishes : OfferStores(p)
      \/ \E c \in Consigns : ConsignSavesTrees(c)
      \/ \E m \in Mirrors : MirrorSavesTrees(m)
  BY DEF Next, vars, database, PublishStep, OfferStep, ConsignStep, MirrorStep,
     PublishArrives, PublishSpawns, OfferLocks, RenterAnswers, OfferTimesOut, OfferFails,
     Rendezvous, OfferUnlocks, ConsignArrives, ConsignLoads, ConsignSavesToken,
     MirrorArrives, MirrorLoads, MirrorDownloads, ContractEntryExpires,
     MirrorEntryExpires, Restart
<1> QED BY <1>1, <1>2, <1>3, <1>4, Kinds

\* Every step is a step of the ledger or leaves it alone.
LEMMA LedgerStep ==
  ASSUME FarmerInv, [Next]_vars
  PROVE  [Ledger!LedgerNext]_LedgerTable
<1>0. TypeOK /\ ArrivedHasHash /\ CopyAgrees
  BY DEF FarmerInv
<1>1. /\ LedgerTable  = [h \in Hashes |-> LedgerTable[h]]
      /\ LedgerTable' = [h \in Hashes |-> LedgerTable'[h]]
      /\ \A h \in Hashes : LedgerTable[h] = LedgerEntry(h)
      /\ \A h \in Hashes : LedgerTable'[h] = LedgerEntry(h)'
  BY DEF LedgerTable
<1>2. CASE UNCHANGED contracts
  <2>1. ASSUME NEW h \in Hashes PROVE LedgerTable'[h] = LedgerTable[h]
    BY <1>1, <1>2, TreeLenKept DEF LedgerEntry
  <2> QED BY <1>1, <2>1
<1>3. ASSUME NEW p \in Publishes, NEW k \in Hashes, Inserts(p, k)
      PROVE  Ledger!LedgerNext
  <2> DEFINE new == [count |-> answer[p], offer |-> p, trees |-> None]
  <2>1. answer[p] \in Counts
    BY <1>0, <1>3 DEF Inserts, TypeOK
  <2>2. new \in Item /\ new # None
    BY <1>3, <2>1, ConstantAssumption DEF Inserts, Item
  <2>3. LedgerTable[k].count = 0
    BY <1>1, <1>3 DEF Inserts, LedgerEntry
  <2>4. contracts'[k] = new /\ \A h \in Hashes : h # k => contracts'[h] = contracts[h]
    BY <1>0, <1>3 DEF Inserts, TypeOK
  <2>5. LedgerTable'[k] = [count |-> answer[p], leaves |-> 0]
    BY <1>1, <2>2, <2>4 DEF LedgerEntry
  <2>6. \A h \in Hashes : h # k => LedgerTable'[h] = LedgerTable[h]
    BY <1>1, <1>3, <2>4 DEF Inserts, LedgerEntry
  <2>7. LedgerTable' = [LedgerTable EXCEPT ![k] = [count |-> answer[p], leaves |-> 0]]
    BY <1>1, <2>5, <2>6, OneEntry
  <2>8. Ledger!LedgerPowerOfTwo(answer[p])
    BY <1>3 DEF Inserts, IsPowerOfTwo, Ledger!LedgerPowerOfTwo
  <2>9. Ledger!Sign(k)
    BY <2>1, <2>3, <2>7, <2>8 DEF Ledger!Sign, LedgerTable
  <2> QED BY <2>9 DEF Ledger!LedgerNext
<1>4. ASSUME NEW r \in Carriers, NEW k \in Hashes, WritesBack(r, k)
      PROVE  Ledger!LedgerNext
  <2> DEFINE n == contracts[k].count
  <2>1. /\ contracts[k] # None
        /\ contracts'[k] # None /\ contracts'[k].trees = r
        /\ contracts'[k].count = n /\ treeLen[r] = n
        /\ \A h \in Hashes : h # k => contracts'[h] = contracts[h]
    BY <1>0, <1>4, WriteBack DEF WritesBack
  <2>2. n # 0
    BY <1>0, <2>1, Stored
  <2>3. LedgerTable[k].count = n
    BY <1>1, <2>1 DEF LedgerEntry
  <2>4. LedgerTable'[k] = [count |-> n, leaves |-> n]
    BY <1>1, <1>4, <2>1, Kinds DEF LedgerEntry, WritesBack
  <2>5. \A h \in Hashes : h # k => LedgerTable'[h] = LedgerTable[h]
    BY <1>1, <1>4, <2>1 DEF LedgerEntry, WritesBack
  <2>6. LedgerTable' = [LedgerTable EXCEPT ![k] = [count |-> n, leaves |-> n]]
    BY <1>1, <2>4, <2>5, OneEntry
  <2>7. Ledger!Attach(k)
    BY <2>2, <2>3, <2>6 DEF Ledger!Attach, LedgerTable
  <2> QED BY <2>7 DEF Ledger!LedgerNext
<1> QED BY <1>0, <1>2, <1>3, <1>4, BucketSteps

\* The farmer implements ContractLedger: a contract is inserted once and never
\* changes, its tree is never lost and always as long as the contract audits.
THEOREM Refinement == Spec => LedgerImplemented
<1>1. FarmerInv /\ [Next]_vars => [Ledger!LedgerNext]_LedgerTable
  BY LedgerStep
<1> QED
  BY <1>1, LedgerStarts, Invariance, PTL DEF Spec, LedgerImplemented,
     Ledger!LedgerSpec, LedgerTable
=============================================================================
