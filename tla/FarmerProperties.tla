-------------------------- MODULE FarmerProperties --------------------------
(***************************************************************************)
(* What the contract life cycle of module Farmer must keep, and what the   *)
(* comments of farmer.go say of it.                                        *)
(***************************************************************************)
EXTENDS Farmer

\* Every variable has its type.  Of a stored contract this says that its
\* AuditCount is a power of two, which the audit handler relies on.
TypeOK ==
  /\ contractCache \subseteq Hashes
  /\ mirrorCache \subseteq Hashes
  /\ offerLock \in [Hashes -> Publishes \cup {None}]
  /\ contracts \in [Hashes -> Item \cup {None}]
  /\ tokens \subseteq Consigns
  /\ pc \in [Requests -> PublishStages \cup ConsignStages \cup MirrorStages]
  /\ dataHash \in [Requests -> Hashes \cup {None}]
  /\ treeLen \in [Carriers -> Counts \cup {0}]
  /\ answer \in [Publishes -> Counts \cup {None}]
  /\ channel \in [Consigns -> Publishes \cup {None}]
  /\ sItem \in [Carriers -> Item \cup {None}]
-----------------------------------------------------------------------------
(* Safety. *)

\* A hash the farmer turns PUBLISHes away for is one it is still negotiating
\* or one it has signed (onPublish, farmer.go:470-488): no interleaving of
\* PUBLISHes, failing offers and expiring entries makes it refuse a contract
\* that it neither has nor is after.
CachedIsPursued ==
  \A h \in contractCache :
    \/ contracts[h] # None
    \/ \E p \in Publishes : dataHash[p] = h /\ OfferUnderway(p)

\* "after token is saved, so that we only have trees when there's token"
\* (onConsign, farmer.go:614): across restarts and failing transactions, the
\* trees of a CONSIGN are in the database only if its token is.
TreesHaveToken ==
  \A h \in Hashes :
    contracts[h] # None /\ contracts[h].trees \in Consigns
      => contracts[h].trees \in tokens

\* A CONSIGN answered with a token stays good (onConsign and onMirror): the
\* token is honoured and the hash has an audit tree, in spite of restarts and
\* of other handlers that write back the item they read earlier.
AcceptedIsDurable ==
  \A c \in Consigns :
    pc[c] = "accepted" =>
      /\ c \in tokens
      /\ contracts[dataHash[c]] # None
      /\ contracts[dataHash[c]].trees # None

\* The CONTRACT bucket as ContractLedger sees it.
LedgerEntry(h) ==
  [count  |-> IF contracts[h] = None THEN 0 ELSE contracts[h].count,
   leaves |-> IF contracts[h] = None \/ contracts[h].trees = None
                THEN 0 ELSE treeLen[contracts[h].trees]]

Ledger == INSTANCE ContractLedger
            WITH AuditCounts <- Counts,
                 ledger <- [h \in Hashes |-> LedgerEntry(h)]

\* The farmer implements ContractLedger: unlocked read-modify-write of an item
\* by CONSIGN and MIRROR (farmer.go:543-617, 681-719), next to OFFERs that
\* insert, never changes a contract, never drops a tree, and every tree has
\* as many leaves as the contract audits.
LedgerImplemented == Ledger!LedgerSpec
-----------------------------------------------------------------------------
(* The inductive invariant behind these properties. *)

\* A request that has arrived is about a hash.
ArrivedHasHash == \A r \in Requests : pc[r] # "idle" => dataHash[r] \in Hashes

\* Between read and write-back a handler's copy has the contract of the
\* database, and the handler's tree fits it.
CopyAgrees ==
  \A r \in Carriers :
    pc[r] \in {"loaded", "tokenSaved", "downloaded"} =>
      /\ sItem[r] # None
      /\ contracts[dataHash[r]] # None
      /\ sItem[r].count = contracts[dataHash[r]].count
      /\ sItem[r].offer = contracts[dataHash[r]].offer
      /\ treeLen[r] = sItem[r].count

\* A stored tree came with a request that arrived, and fits its contract.
TreesFit ==
  \A h \in Hashes :
    contracts[h] # None /\ contracts[h].trees # None =>
      /\ pc[contracts[h].trees] # "idle"
      /\ treeLen[contracts[h].trees] = contracts[h].count

TokenWasSaved == \A c \in Consigns : pc[c] = "tokenSaved" => c \in tokens

FarmerInv ==
  /\ TypeOK
  /\ ArrivedHasHash
  /\ CopyAgrees
  /\ TreesFit
  /\ TokenWasSaved
  /\ CachedIsPursued
  /\ TreesHaveToken
  /\ AcceptedIsDurable
-----------------------------------------------------------------------------
(* The rendezvous of OFFER and CONSIGN. *)

\* An answer that onOffer's callback would save.
Acceptable(p) ==
  pc[p] = "answered" /\ answer[p] # None /\ IsPowerOfTwo(answer[p])

\* A CONSIGN is refused for want of a contract.
RefusedWithoutContract(c) ==
  /\ pc[c] = "resumed" /\ pc'[c] = "refused"
  /\ treeLen[c] # 0 /\ contracts[dataHash[c]] = None

\* p is the one PUBLISH that is about hash h.
SolePublish(p, h) == {q \in Publishes : dataHash[q] = h} = {p}

\* "wait til offer finished" (onConsign, farmer.go:516): as long as a hash was
\* published once, no CONSIGN of a renter that keeps to the protocol is refused
\* while the answer that brings the contract is in the farmer's hands.
NoPrematureRefusal ==
  [][\A c \in Consigns, p \in Publishes :
       RefusedWithoutContract(c) /\ SolePublish(p, dataHash[c])
         => ~ Acceptable(p)]_vars

\* A channel in offerLock, and one a CONSIGN waits at, was made for their hash.
ChannelsFit ==
  /\ \A h \in Hashes : offerLock[h] # None => dataHash[offerLock[h]] = h
  /\ \A c \in Consigns :
       pc[c] = "waiting" => channel[c] # None /\ dataHash[channel[c]] = dataHash[c]

\* No answer before the OFFER is out, no hash before the PUBLISH has come.
OfferInOrder ==
  \A p \in Publishes :
    /\ pc[p] \in {"idle", "checked", "spawned", "locked"} => answer[p] = None
    /\ pc[p] = "idle" => dataHash[p] = None

\* While the only OFFER for a hash is out, offerLock has its channel.
OfferIsLocked ==
  \A p \in Publishes :
    pc[p] \in {"locked", "answered"} /\ SolePublish(p, dataHash[p])
      => offerLock[dataHash[p]] = p

\* A renter that keeps to the protocol consigns what it was offered.
ConsignFollowsOffer ==
  \A c \in Consigns : pc[c] # "idle" =>
    \E p \in Publishes : dataHash[p] = dataHash[c] /\ answer[p] # None

\* onConsign reads the contract (farmer.go:543) only when the one OFFER for its
\* hash is over: its contract is stored, or will never be.
ConsignComesLate ==
  \A c \in Consigns, p \in Publishes :
    pc[c] = "resumed" /\ SolePublish(p, dataHash[c])
      => pc[p] \notin {"idle", "checked", "spawned", "locked", "answered"}

\* Behind NoPrematureRefusal, for renters that keep to the protocol.
RendezvousInv ==
  /\ ChannelsFit
  /\ OfferInOrder
  /\ OfferIsLocked
  /\ ConsignFollowsOffer
  /\ ConsignComesLate

\* c is the one CONSIGN that is about its hash.
SoleConsign(c) == {d \in Consigns : dataHash[d] = dataHash[c]} = {c}

\* The sender of a channel is at work, and has not sent on it.
WillSend(p) == pc[p] \in {"locked", "answered", "failed", "sending"}

\* A CONSIGN never waits at a channel on which nobody will send any more
\* (farmer.go:489-499 and 516-521), though the channels of several OFFERs for its
\* hash replace and remove each other in offerLock, and each sends once, as long
\* as no other CONSIGN takes what is sent.
NobodyWaitsInVain ==
  \A c \in Consigns : pc[c] = "waiting" /\ SoleConsign(c) => WillSend(channel[c])

\* No hash before the CONSIGN has come.
ConsignInOrder == \A c \in Consigns : pc[c] = "idle" => dataHash[c] = None

\* A channel is removed from offerLock soon after it was sent on.
LockedIsFresh ==
  \A h \in Hashes :
    offerLock[h] # None => WillSend(offerLock[h]) \/ pc[offerLock[h]] = "sent"

\* What was sent, a CONSIGN has received.
SentWasReceived ==
  \A p \in Publishes : pc[p] = "sent" =>
    \E c \in Consigns : pc[c] \notin {"idle", "waiting"} /\ dataHash[c] = dataHash[p]

\* Behind NobodyWaitsInVain, whatever renters do.
WaiterInv ==
  /\ ChannelsFit
  /\ OfferInOrder
  /\ ConsignInOrder
  /\ LockedIsFresh
  /\ SentWasReceived
  /\ NobodyWaitsInVain

\* "if already processed" (onPublish, farmer.go:468): two OFFERs for one hash
\* are never out at the same time.
OneOfferAtATime ==
  \A p, q \in Publishes :
    /\ dataHash[p] = dataHash[q]
    /\ {pc[p], pc[q]} \subseteq {"locked", "answered"}
    => p = q

\* "wait til offer finished" (onConsign, farmer.go:516): a CONSIGN that waits
\* for an offer goes on some time.
ConsignGoesOn == \A c \in Consigns : pc[c] = "waiting" ~> pc[c] # "waiting"

\* A CONSIGN is answered, or dies with the process.
ConsignAnswered ==
  \A c \in Consigns :
    pc[c] # "idle" ~> pc[c] \in {"accepted", "refused", "lost"}

\* "delete cache so we can process it again" (onPublish, farmer.go:486): a
\* hash does not stay in the cache without its contract being signed, even if
\* entries never expire.
FailedOfferCanBeRepeated ==
  \A h \in Hashes :
    h \in contractCache ~> (h \notin contractCache \/ contracts[h] # None)
=============================================================================
