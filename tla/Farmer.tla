------------------------------- MODULE Farmer -------------------------------
(***************************************************************************)
(* The contract life cycle of one farmer: PUBLISH -> OFFER -> CONSIGN, and *)
(* MIRROR (farmer.go), over the bolt database that survives restarts.      *)
(*                                                                         *)
(* Every HTTP request is served by a goroutine of its own, so a request is *)
(* a process here; an accepted PUBLISH goes on as the goroutine that sends *)
(* the OFFER.  The processes share two expiring caches, the map offerLock  *)
(* of rendezvous channels, and the buckets CONTRACT and TOKEN.  Each       *)
(* database call is one bolt transaction, hence one atomic step.           *)
(***************************************************************************)
EXTENDS Naturals, FiniteSets

CONSTANTS
  Hashes,         \* data hashes, the keys of every table
  Publishes,      \* PUBLISH requests
  Consigns,       \* CONSIGN requests
  Mirrors,        \* MIRROR requests
  Counts,         \* audit counts a renter answers, lengths of audit trees
  ProtocolRenter, \* TRUE: a CONSIGN only follows an OFFER the renter answered
  None            \* absent key, empty tree list, answer without a contract

Requests == Publishes \cup Consigns \cup Mirrors
Carriers == Consigns \cup Mirrors    \* the requests that carry an audit tree

\* Two cheap tests in the code decide this: n # 0 and n & (n - 1) = 0.
IsPowerOfTwo(n) == n # 0 /\ \E k \in 0..n : n = 2^k

\* The storageItem of the database: the contract with its AuditCount and the
\* OFFER that obtained it, and the request whose audit tree is stored with it.
Item == [count : {n \in Counts : IsPowerOfTwo(n)},
         offer : Publishes,
         trees : Carriers \cup {None}]

ASSUME ConstantAssumption ==
  /\ Publishes \cap Consigns = {}
  /\ Publishes \cap Mirrors = {}
  /\ Consigns \cap Mirrors = {}
  /\ Counts \subseteq Nat
  /\ ProtocolRenter \in BOOLEAN
  /\ None \notin Requests \cup Hashes \cup Nat
  /\ None \notin Item

VARIABLES
  contractCache,  \* hashes with an unexpired entry: PUBLISH already processed
  mirrorCache,    \* hashes with an unexpired entry: MIRROR already processed
  offerLock,      \* hash -> the PUBLISH whose goroutine made the channel
  contracts,      \* bucket CONTRACT: hash -> storageItem
  tokens,         \* bucket TOKEN: the CONSIGNs whose token is saved
  pc,             \* stage of each request
  dataHash,       \* the hash each request is about, None before it arrives
  treeLen,        \* length of the audit tree a CONSIGN or MIRROR carries
  answer,         \* what the renter answered to an OFFER: an AuditCount, or None
  channel,        \* the channel a CONSIGN loaded from offerLock
  sItem           \* the handler's own copy of the storageItem it read

volatile == <<contractCache, mirrorCache, offerLock>>
database == <<contracts, tokens>>
inputs   == <<dataHash, treeLen, answer>>
locals   == <<channel, sItem>>
vars     == <<volatile, database, pc, inputs, locals>>

PublishStages == {"idle", "checked", "spawned", "locked", "answered",
                  "failed", "sending", "sent", "done", "lost"}
ConsignStages == {"idle", "waiting", "resumed", "loaded", "tokenSaved",
                  "accepted", "refused", "lost"}
MirrorStages  == {"idle", "checked", "loaded", "downloaded",
                  "accepted", "refused", "done", "lost"}
Settled       == {"idle", "done", "accepted", "refused", "lost"}

Goto(r, stage) == pc' = [pc EXCEPT ![r] = stage]

Init ==
  /\ contractCache = {} /\ mirrorCache = {}
  /\ offerLock = [h \in Hashes |-> None]
  /\ contracts = [h \in Hashes |-> None]
  /\ tokens = {}
  /\ pc       = [r \in Requests |-> "idle"]
  /\ dataHash = [r \in Requests |-> None]
  /\ treeLen  = [r \in Carriers |-> 0]
  /\ answer   = [p \in Publishes |-> None]
  /\ channel  = [c \in Consigns |-> None]
  /\ sItem    = [r \in Carriers |-> None]
-----------------------------------------------------------------------------
(* PUBLISH: the handler onPublish. *)

\* An invalid contract and a cached hash are answered at once.
PublishArrives(p, h, valid) ==
  /\ pc[p] = "idle"
  /\ dataHash' = [dataHash EXCEPT ![p] = h]
  /\ Goto(p, IF valid /\ h \notin contractCache THEN "checked" ELSE "done")
  /\ UNCHANGED <<volatile, database, treeLen, answer, locals>>

\* The cache entry is set in a second step, then the goroutine is started.
PublishSpawns(p) ==
  /\ pc[p] = "checked"
  /\ contractCache' = contractCache \cup {dataHash[p]}
  /\ Goto(p, "spawned")
  /\ UNCHANGED <<mirrorCache, offerLock, database, inputs, locals>>
-----------------------------------------------------------------------------
(* OFFER: the goroutine started by onPublish, with offer and its callback. *)

\* Mistake: the goroutine makes its channel but does not publish it.
OfferLocksNothing(p) ==
  /\ pc[p] = "spawned"
  /\ Goto(p, "locked")
  /\ UNCHANGED <<volatile, database, inputs, locals>>

\* A new channel replaces whatever offerLock holds for the hash.
OfferLocks(p) ==
  /\ pc[p] = "spawned"
  /\ offerLock' = [offerLock EXCEPT ![dataHash[p]] = p]
  /\ Goto(p, "locked")
  /\ UNCHANGED <<contractCache, mirrorCache, database, inputs, locals>>

\* The renter answers with the contract it was offered, countersigned, or with
\* a refusal; the callback never compares the two DataHashes.  From now on the
\* renter holds the contract for agreed, whatever becomes of its answer.
RenterAnswers(p, n) ==
  /\ pc[p] = "locked"
  /\ answer' = [answer EXCEPT ![p] = n]
  /\ Goto(p, "answered")
  /\ UNCHANGED <<volatile, database, dataHash, treeLen, locals>>

\* SendMsg gives up: no connection, or no answer in 4 s.  The timeout can
\* also discard an answer that is already on its way.
OfferTimesOut(p) ==
  /\ pc[p] \in {"locked", "answered"}
  /\ Goto(p, "failed")
  /\ UNCHANGED <<volatile, database, inputs, locals>>

\* Mistake: the AuditCount is not checked.
OfferStoresUnchecked(p) ==
  /\ pc[p] = "answered"
  /\ \/ /\ answer[p] # None
        /\ contracts[dataHash[p]] = None
        /\ contracts' = [contracts EXCEPT ![dataHash[p]] =
                           [count |-> answer[p], offer |-> p, trees |-> None]]
        /\ Goto(p, "sending")
     \/ Goto(p, "failed") /\ UNCHANGED contracts
  /\ UNCHANGED <<volatile, tokens, inputs, locals>>

\* Mistake: the contract is saved with over = true.
OfferOverwrites(p) ==
  /\ pc[p] = "answered"
  /\ \/ /\ answer[p] # None
        /\ IsPowerOfTwo(answer[p])
        /\ contracts' = [contracts EXCEPT ![dataHash[p]] =
                           [count |-> answer[p], offer |-> p, trees |-> None]]
        /\ Goto(p, "sending")
     \/ Goto(p, "failed") /\ UNCHANGED contracts
  /\ UNCHANGED <<volatile, tokens, inputs, locals>>

\* The callback: only a contract whose AuditCount is a power of two is saved,
\* never over an existing one; a refusal, and a transaction that fails, end
\* the offer with an error.
OfferStores(p) ==
  /\ pc[p] = "answered"
  /\ \/ /\ answer[p] # None
        /\ IsPowerOfTwo(answer[p])
        /\ contracts[dataHash[p]] = None
        /\ contracts' = [contracts EXCEPT ![dataHash[p]] =
                           [count |-> answer[p], offer |-> p, trees |-> None]]
        /\ Goto(p, "sending")
     \/ Goto(p, "failed") /\ UNCHANGED contracts
  /\ UNCHANGED <<volatile, tokens, inputs, locals>>

\* Mistake: the cache entry of a failed offer is left to expire.
OfferFailsSilently(p) ==
  /\ pc[p] = "failed"
  /\ Goto(p, "sending")
  /\ UNCHANGED <<volatile, database, inputs, locals>>

\* Mistake: a failed offer returns without sending on its channel.
OfferFailsForGood(p) ==
  /\ pc[p] = "failed"
  /\ contractCache' = contractCache \ {dataHash[p]}
  /\ Goto(p, "done")
  /\ UNCHANGED <<mirrorCache, offerLock, database, inputs, locals>>

\* "delete cache so we can process it again"
OfferFails(p) ==
  /\ pc[p] = "failed"
  /\ contractCache' = contractCache \ {dataHash[p]}
  /\ Goto(p, "sending")
  /\ UNCHANGED <<mirrorCache, offerLock, database, inputs, locals>>

\* c <- struct{}{} and <-c: the channel has no buffer, the two sides meet.
Rendezvous(p, c) ==
  /\ pc[p] = "sending"
  /\ pc[c] = "waiting" /\ channel[c] = p
  /\ pc' = [pc EXCEPT ![p] = "sent", ![c] = "resumed"]
  /\ UNCHANGED <<volatile, database, inputs, locals>>

\* Whatever channel offerLock now holds for the hash is removed.
OfferUnlocks(p) ==
  /\ pc[p] = "sent"
  /\ offerLock' = [offerLock EXCEPT ![dataHash[p]] = None]
  /\ Goto(p, "done")
  /\ UNCHANGED <<contractCache, mirrorCache, database, inputs, locals>>
-----------------------------------------------------------------------------
(* CONSIGN: the handler onConsign. *)

ConsignArrives(c, h, n) ==
  /\ pc[c] = "idle"
  /\ ProtocolRenter => \E p \in Publishes : dataHash[p] = h /\ answer[p] # None
  /\ dataHash' = [dataHash EXCEPT ![c] = h]
  /\ treeLen' = [treeLen EXCEPT ![c] = n]
  /\ channel' = [channel EXCEPT ![c] = offerLock[h]]
  /\ Goto(c, IF offerLock[h] = None THEN "resumed" ELSE "waiting")
  /\ UNCHANGED <<volatile, database, answer, sItem>>

\* Reads the storageItem and compares the length of the trees with it; an
\* empty tree, a missing contract, a wrong length or bytes that do not parse
\* are refused.
ConsignLoads(c) ==
  /\ pc[c] = "resumed"
  /\ \/ /\ treeLen[c] # 0
        /\ contracts[dataHash[c]] # None
        /\ contracts[dataHash[c]].count = treeLen[c]
        /\ sItem' = [sItem EXCEPT ![c] = contracts[dataHash[c]]]
        /\ Goto(c, "loaded")
     \/ Goto(c, "refused") /\ UNCHANGED sItem
  /\ UNCHANGED <<volatile, database, inputs, channel>>

\* Mistake: the error of saving the token is ignored.
ConsignIgnoresTokenError(c) ==
  /\ pc[c] = "loaded"
  /\ tokens' = tokens \cup {c} \/ UNCHANGED tokens
  /\ Goto(c, "tokenSaved")
  /\ UNCHANGED <<volatile, contracts, inputs, locals>>

\* The token is a fresh UUID, named here by the request it is made for.
ConsignSavesToken(c) ==
  /\ pc[c] = "loaded"
  /\ \/ tokens' = tokens \cup {c} /\ Goto(c, "tokenSaved")
     \/ Goto(c, "refused") /\ UNCHANGED tokens
  /\ UNCHANGED <<volatile, contracts, inputs, locals>>

\* Mistake: the error of saving the trees is ignored.
ConsignIgnoresTreesError(c) ==
  /\ pc[c] = "tokenSaved"
  /\ \/ contracts' = [contracts EXCEPT ![dataHash[c]] = [sItem[c] EXCEPT !.trees = c]]
     \/ UNCHANGED contracts
  /\ Goto(c, "accepted")
  /\ UNCHANGED <<volatile, tokens, inputs, locals>>

\* The whole item is written back: the contract as read, with the new trees.
ConsignSavesTrees(c) ==
  /\ pc[c] = "tokenSaved"
  /\ \/ /\ contracts' = [contracts EXCEPT ![dataHash[c]] =
                           [sItem[c] EXCEPT !.trees = c]]
        /\ Goto(c, "accepted")
     \/ Goto(c, "refused") /\ UNCHANGED contracts
  /\ UNCHANGED <<volatile, tokens, inputs, locals>>
-----------------------------------------------------------------------------
(* MIRROR: the handler onMirror. *)

MirrorArrives(m, h, n) ==
  /\ pc[m] = "idle"
  /\ dataHash' = [dataHash EXCEPT ![m] = h]
  /\ treeLen' = [treeLen EXCEPT ![m] = n]
  /\ Goto(m, IF h \in mirrorCache THEN "done" ELSE "checked")
  /\ UNCHANGED <<volatile, database, answer, locals>>

\* The cache entry is set even if the request is refused.
MirrorLoads(m) ==
  /\ pc[m] = "checked"
  /\ mirrorCache' = mirrorCache \cup {dataHash[m]}
  /\ \/ /\ contracts[dataHash[m]] # None
        /\ contracts[dataHash[m]].count = treeLen[m]
        /\ sItem' = [sItem EXCEPT ![m] = contracts[dataHash[m]]]
        /\ Goto(m, "loaded")
     \/ Goto(m, "refused") /\ UNCHANGED sItem
  /\ UNCHANGED <<contractCache, offerLock, database, inputs, channel>>

\* DownloadShard returns once the other farmer's headers are in; the body is
\* copied to disk by a goroutine of its own, which this module leaves out.
MirrorDownloads(m) ==
  /\ pc[m] = "loaded"
  /\ Goto(m, "downloaded") \/ Goto(m, "refused")
  /\ UNCHANGED <<volatile, database, inputs, locals>>

MirrorSavesTrees(m) ==
  /\ pc[m] = "downloaded"
  /\ \/ /\ contracts' = [contracts EXCEPT ![dataHash[m]] =
                           [sItem[m] EXCEPT !.trees = m]]
        /\ Goto(m, "accepted")
     \/ Goto(m, "refused") /\ UNCHANGED contracts
  /\ UNCHANGED <<volatile, tokens, inputs, locals>>
-----------------------------------------------------------------------------
(* The clock and the process. *)

OfferUnderway(p) == pc[p] \in {"spawned", "locked", "answered", "failed"}

\* A contract entry lives for minutes, an OFFER takes 4 seconds at the most:
\* the entry does not expire under the offer it was made for.
ContractEntryExpires(h) ==
  /\ h \in contractCache
  /\ ~ \E p \in Publishes : dataHash[p] = h /\ OfferUnderway(p)
  /\ contractCache' = contractCache \ {h}
  /\ UNCHANGED <<mirrorCache, offerLock, database, pc, inputs, locals>>

MirrorEntryExpires(h) ==
  /\ h \in mirrorCache
  /\ mirrorCache' = mirrorCache \ {h}
  /\ UNCHANGED <<contractCache, offerLock, database, pc, inputs, locals>>

\* The process ends, killed or at the end of main, and is started again: the
\* database is all that is left, and requests under way are never answered.
Restart ==
  /\ contractCache' = {} /\ mirrorCache' = {}
  /\ offerLock' = [h \in Hashes |-> None]
  /\ pc' = [r \in Requests |-> IF pc[r] \in Settled THEN pc[r] ELSE "lost"]
  /\ channel' = [c \in Consigns |-> None]
  /\ sItem' = [r \in Carriers |-> None]
  /\ UNCHANGED <<database, inputs>>
-----------------------------------------------------------------------------
PublishStep(p) ==
  \/ \E h \in Hashes, valid \in BOOLEAN : PublishArrives(p, h, valid)
  \/ PublishSpawns(p)

OfferStep(p) ==
  \/ OfferLocks(p)
  \/ OfferTimesOut(p)
  \/ OfferStores(p)
  \/ OfferFails(p)
  \/ OfferUnlocks(p)

ConsignStep(c) ==
  \/ ConsignLoads(c)
  \/ ConsignSavesToken(c)
  \/ ConsignSavesTrees(c)

MirrorStep(m) ==
  \/ MirrorLoads(m)
  \/ MirrorDownloads(m)
  \/ MirrorSavesTrees(m)

Next ==
  \/ \E p \in Publishes :
       \/ PublishStep(p)
       \/ OfferStep(p)
       \/ \E n \in Counts \cup {None} : RenterAnswers(p, n)
       \/ \E c \in Consigns : Rendezvous(p, c)
  \/ \E c \in Consigns :
       \/ \E h \in Hashes, n \in Counts : ConsignArrives(c, h, n)
       \/ ConsignStep(c)
  \/ \E m \in Mirrors :
       \/ \E h \in Hashes, n \in Counts : MirrorArrives(m, h, n)
       \/ MirrorStep(m)
  \/ \E h \in Hashes : ContractEntryExpires(h) \/ MirrorEntryExpires(h)
  \/ Restart

\* The Go scheduler runs every goroutine that can run, a client's timeout
\* fires, and two goroutines at one channel meet.  Nothing is assumed of the
\* renter, of the caches' clocks, or of restarts.
Fairness ==
  /\ \A p \in Publishes : WF_vars(PublishSpawns(p)) /\ WF_vars(OfferStep(p))
  /\ \A p \in Publishes, c \in Consigns : WF_vars(Rendezvous(p, c))
  /\ \A c \in Consigns : WF_vars(ConsignStep(c))
  /\ \A m \in Mirrors : WF_vars(MirrorStep(m))

Spec == Init /\ [][Next]_vars
FairSpec == Spec /\ Fairness
=============================================================================
