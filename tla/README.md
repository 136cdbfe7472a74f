# Verification of go-farmer

`go-farmer` is the storage provider ("farmer") of the Genaro network. Renters
publish contracts, farmers offer to store the shard, renters consign the audit
tree and upload the shard, and from time to time the bridge audits it. This
directory holds TLA+ models of that program, the TLC runs that check them on
small instances, and TLAPS proofs of the properties that matter most for every
instance. `PROJECT.json` maps every definition to the lines it translates.

## 1. The system

All Go files are at the top of `src/`, with `src/msg`, `src/crypto` and
`src/config`. The program is one process with these parts.

| Component | State | Operations | Interacts with |
|---|---|---|---|
| Contract negotiation (`farmer.go`) | `contractCache` (2 min), `offerLock` (map of channels) | `onPublish`, its goroutine, `offer` and its callback | sends OFFER to the renter, writes CONTRACT, meets CONSIGN at a channel |
| Consignment (`farmer.go`) | none of its own | `onConsign` | waits at the channel; reads and writes CONTRACT; writes TOKEN |
| Mirroring (`farmer.go`, `utils.go`) | `mirrorCache` (30 s per entry) | `onMirror`, `DownloadShard` | GETs from another farmer, writes the shard file and CONTRACT |
| Contract database (`utils.go`, `main.go`) | bolt buckets CONTRACT, TOKEN | `BoltDbGet`, `BoltDbSet` | used by all handlers |
| Audit (`farmer.go`) | none of its own | `onAudit` | reads the shard file and CONTRACT |
| Shard files (`http_route.go`, `utils.go`) | one file per data hash | GET, POST, the copying goroutine of `DownloadShard` | token check against TOKEN |
| Size report (`main.go`, `termui.go`) | `ChanSize` (capacity 10), the total | send in `Init` and POST, receive in `UiSetup` | POST waits for it |
| Retrieval (`farmer.go`) | none of its own | `onRetrieve` | writes TOKEN |
| Membership (`farmer.go`) | `contact` | `HeartBeat`, `doJoinNetwork`, `onProbe`, `onPing`, `_map` | seeds, NAT device |
| Dispatch (`farmer.go`, `msg_ops.go`, `msg/`) | none | `ProcessMsgInOut`, `ParseMsgInRaw`, `ParseResInRaw` | all handlers |
| HTTP client cache (`utils.go`) | `clientCache` | `SendMsg`, `DownloadShard` | everything that sends |
| Configuration, command line | `Cfg` | `Parse`, `ParseCmdArgs` | read once |
| Life cycle (`main.go`) | `stopServer`, `stopUi` | `main` | starts and stops the above |
| Signatures and hashes (`crypto/`) | the key | `Sign`, `Ripemd160Sha256`, `MagicHash` | every message |

What is hard. Every HTTP request runs in a goroutine of its own and there are
no locks: check-then-set on the caches, read-modify-write of the storage item,
and two writers of one shard file are all possible. OFFER and CONSIGN meet at
an unbuffered channel that can be replaced in the map while someone waits at
it. OFFERs time out after 4 s although the renter has signed. Tokens and trees
are saved in two transactions, and the process can die in between. The handler
of POST blocks on a bounded channel. And the audit proof is computed by a loop
that has to keep a list and a position in step, on input that was validated
minutes or months earlier in another handler. A shard travels from farmer to
farmer in a stream whose end says nothing about its completeness, into a file
that other requests may empty. And the process stops under handlers that may
never return. `PROJECT.json` lists these hazards, each at its line, with the
properties that cover it.

What makes the components correct:

* negotiation: a hash is refused only while it is signed or pursued; a failed
  offer can be repeated; one offer at a time per hash (*violated*);
* consignment: trees only with their token, accepted consignments survive,
  a waiting CONSIGN goes on (*violated*) and is not refused too early;
* database: a contract never changes, a tree always fits its contract;
* audit: the answer is the Merkle path of the challenged leaf, and the loop
  never panics (*violated* for a tree of one leaf);
* membership: a PROBE is answered before it times out, a mapping is refreshed
  before it lapses and soon after a refresh that failed, a round fails only
  without a seed, an outage ends, success is reported when there is some
  (*violated*);
* files: writers that all get through leave a whole shard; an upload that fails
  does not leave a broken file where a shard was stored (*violated*); an upload
  is counted once and answered;
* mirroring: a download that nothing disturbed is whole, and one at most can be
  relied on; whatever failed, repeated uploads and MIRRORs put it right;
* dispatch: an answer is signed under the id of its request whenever that has
  one, and can be verified;
* process: it serves only when everything it needs is there; a refused start
  can be repeated; it hears when a part of it has stopped, and always ends when
  told to, the database closed last.

## 2. Modules

| Module | What it is |
|---|---|
| `Farmer` | PUBLISH, OFFER, CONSIGN and MIRROR over caches, channels and database; restart |
| `ContractLedger` | what the CONTRACT bucket promises, in two actions: `Sign`, `Attach` |
| `FarmerProperties` | type, safety, action and liveness properties of `Farmer`, the inductive invariant `FarmerInv`, the refinement mapping to `ContractLedger` |
| `FarmerProofs` | the theorems about them |
| `AuditProof` | the loop of `onAudit` and its properties |
| `AuditProofTheorems` | it does not panic, makes whole levels and answers the Merkle path, for every power of two from 2 on |
| `Shards` | POST, the copying goroutine of `DownloadShard`, `ChanSize`, restart, and their properties |
| `ShardsProofs` | concurrent writers of one file, counted uploads, types |
| `Membership` | `HeartBeat`, `doJoinNetwork`, `onProbe` with its PING, `_map`, and their properties |
| `MembershipProofs` | the timeouts of PROBE, PING and port mapping, rounds that fail, types |
| `Mirroring` | RETRIEVE and GET at a source farmer, MIRROR and its download at a mirror, uploads, failures and restarts of both, and their properties |
| `ShardCopy` | what the mirror's copy promises: created, growing, whole, through; and its record |
| `MirroringProofs` | downloads that nothing disturbed, the implementation of `ShardCopy` |
| `ShardCopyProofs` | what can be relied on by whoever relies on `ShardCopy` |
| `Config` | what `Parse` accepts, in which order it checks, and what it leaves on the disk; the file that `new` writes |
| `Envelope` | from a request on the wire to the signed answer: routes, limit, kind, id, length prefix |
| `Process` | `main` from the command line to the exit, the goroutines of server and terminal, handlers at work; extends `Config` and `Envelope` |
| `ProcessProofs` | start, signals, shutdown, ids and prefixes |
| `MCFarmer`, `MCAuditProof`, `MCShards`, `MCMembership`, `MCMirroring`, `MCProcess` | bounds for TLC |

Operators whose comment begins with "Mistake:" are plausible bugs, one line
away from the definition that follows them. They are no part of any `Next`:
`PROJECT.json` (`mutants`) says which property each of them breaks, so that
every property is known to be able to fail.

### Farmer

A request is a process; its program counter `pc[r]` names the place between
two calls that other goroutines can see:

| Action | Code |
|---|---|
| `PublishArrives`, `PublishSpawns` | `contractCache.Get` / `contractCache.Set`, two steps because nothing makes them one |
| `OfferLocks` | `offerLock.Store` of a new channel, named after the PUBLISH that made it |
| `RenterAnswers` (external), `OfferTimesOut` | the HTTP exchange of `SendMsg`; the timeout may discard an answer the renter has given |
| `OfferStores` | the callback with its checks and `BoltDbSet(..., over = false)` |
| `OfferFails` | `contractCache.Delete` |
| `Rendezvous` | `c <- struct{}{}` with `<-c` |
| `OfferUnlocks` | `offerLock.Delete`, whatever channel is there now |
| `ConsignArrives` .. `ConsignSavesTrees` | load of the channel; read and checks; token; trees |
| `MirrorArrives` .. `MirrorSavesTrees` | cache; read and checks; download; trees |
| `ContractEntryExpires`, `MirrorEntryExpires` (external) | go-cache |
| `Restart` | caches, channels and handlers are gone, the database stays |

Database calls are atomic since each is one bolt transaction, and every one of
them may fail. A storage item is abstracted to its AuditCount, the OFFER that
obtained the contract (its identity: which contract this is) and the request
whose trees it holds. A data hash, a token and a tree are names.

`ConsignArrives` has a parameter `ProtocolRenter`: in the safety run and in the
proofs a CONSIGN may come at any time and from anyone; for liveness and
prematureness the renter consigns only what it signed.

Assumptions of the model. The renter answers an OFFER with the contract it was
offered: the callback stores the answer under the answer's own DataHash, which
the code does not compare. `AuditCount` is a natural number. A contract's cache
entry lives 2 minutes and an OFFER takes 4 seconds at most, so the entry does
not expire under the OFFER it was set for. The slice that `BoltDbGet` returns
after its transaction has ended parses to what was stored or fails to parse.

### AuditProof

One iteration of the outer loop is one action (`Halves`). A digest is
represented by the leaves it hashes from left to right, which makes the hash
injective and lets the properties say what an element *is*; a nested list is
represented by the siblings met so far with the side each is on. `Panics` is
enabled exactly when the iteration would index beyond the list or assert a
nested list to be a string. The guards before the loop form one refusing
action since nothing is changed before or by them.

### Shards

A file is the set of chunks it holds; all writers of a file bring the same
bytes. `Creates` is `os.Create` (truncation), `Writes` one step of `io.Copy` at
the writer's own offset. `chanSize` is the channel as a bounded sequence, first
holding the size of the contracts which `Farmer.Init` sends before anybody
listens. `PostArrives` and `PostFails` ask `IsExist` about what `Stat` returns, as
the code does; `os.IsExist` is true of the errors of calls that meet a file they
were to make, which `os.Stat` never returns. `found` is history: whether the
shard was stored, and nobody writing it, when a POST looked for it.
`ExistingShardIsKept` speaks of such POSTs only, so two uploads of a new shard
that both see no file do not break it. With an `IsExist` that is true of "nil" it
holds. In `Mirroring`, where the same tests guard the copy, they are left out.

### Membership

One farmer and its list of seeds, which run the same program (`onProbe`).
Time is modelled where it decides: seconds during a PROBE, with its 8 s and the
4 s of the PING inside it, and units of 5 minutes for a port mapping (20) and
its refresh timer (15). A message to or from a seed that is up takes at most
`Transit` seconds; at a seed that is not up it may be refused or get lost.
`JoinEnds` is what `HeartBeat` does with each result of `doJoinNetwork`. The
answer to a PROBE is kept as `verdict` although the program drops it, so that a
property can speak of it; `missed` counts the refreshes of the mapping that have
failed in a row, up to 2; `logged` and `vouched` record the log line "join
network success" and whether a seed has ever answered with success; `steady` are
the seeds that have been up since the round began.

### Mirroring

Two farmers and a renter. `Farmer` has MIRROR beside the other users of its
record, `Shards` a download beside the other writers of its file; this module
follows one shard from farmer to farmer.

| Action | Code |
|---|---|
| `PostCreates`, `PostWrites`, `PostFails` | POST at the source: `os.Create`, `io.Copy`, and its error (`http_route.go`) |
| `OnRetrieve` | `onRetrieve`: a new token, saved or not, answered either way |
| `MirrorArrives`, `MirrorChecks` | `mirrorCache.Get`; `mirrorCache.Set` and the look for a contract: two steps, as nothing makes them one |
| `GetAnswered`, `GetUnanswered` | `client.Do` of `DownloadShard` with the checks of GET at the source; the status of the answer is not looked at |
| `GetSends`, `GetFails` | `io.Copy` of the file to the answer; its error, after which the answer still ends in good order; or a broken connection |
| `MirrorSaves` | the second half of `onMirror`, beside the goroutine |
| `PullCreates`, `PullTakes`, `PullEnds`, `PullFails` | the goroutine of `DownloadShard` |
| `CacheExpires`, `SourceRestarts`, `MirrorRestarts` | go-cache; the end of a process and its next start |

The stream between the two is buffered: `sent` and `taken` are the offsets of
its ends. GET reads to the end that the file has *then*, so it may send less
than was there when it began, or than will be there later. The source has one
POST at a time, which makes its file a prefix; concurrent POSTs are in
`Shards`. `ContractSaved` stands for a negotiation (`Farmer`); trees of the
wrong length are refused before anything is fetched, as without a contract.

Two variables are not in the code. `clean` is history: no failure, no restart
and no truncation has touched this download. `calm` is the environment: once
it is set nothing fails any more, a renter waits for one download before it
starts the next, and repeats an upload only if it has failed. It is set only
when no request is at work, which leaves nothing out: requests that are under
way can fail or come to their end first. A token of a MIRROR is forgotten once
its GET is answered; in the code it stays in the database, unused.

`ShardCopy` is the abstract specification: the copy is absent, partial or whole;
`writing` are the downloads that have the file open, `intact` those of them that
nothing has come between, `through` those that nothing came between to their
end. The mapping (`CopyState`, `Writing`, `Intact`, `Through`) forgets the source,
the stream, the handlers and the cache. What it promises is what a renter who
repeats a MIRROR counts on: a download that is through undisturbed is through
with a whole copy, and keeps it until another one creates the file anew or, if
it cannot, removes it. The code never does the latter (`Removes`), because the
test for the broken file is dead (section 4); its comments mean it to
(`utils.go:201`), and whoever mends the test still implements `ShardCopy`.

### Config, Envelope and Process

`Config` has a configuration as a record of what `Parse` tells apart in each
field. `Checks` is the list of its checks in their order; the first that fails
is the error, and the directories that were made before it stay. "panic" is a
check that the code makes by running into it: an empty seed, whose last byte is
looked at, and a data directory that `os.Stat` cannot read.

`Envelope` has a request as its path, its method and its body: JSON or not,
longer than 32 KB or not, its method and its id. `ServeHTTP` gives what answers
it, under which id, and how many bytes are signed. The id comes in one of two
ways: `GetId` of the parsed message, which is empty unless the map had a string
for it, or `IdOfUnknown`, which looks into the map itself and makes a uuid if
there is nothing; and `Sign` makes one for whatever is still empty. What is
asked of the result, `ResponseIdIsRequestId`, names neither: a string that came
in within 32 KB and is not empty comes back, whatever the message was, and no
answer is signed under an empty id. `varintBufNum` is the prefix of the signed
text, with the code's own branches but the last, which is for 2^32 bytes.

`Process` is `main`, one action per stage, with the exit code of each way out,
then the goroutines. `stopServer` and `stopUi` are channels with room for one
signal. `Stops` is the `select` with the begin of `Shutdown`: when both signals
are there either is taken. `HeartBeat` never returns, so the signal after it is never
sent. Handlers (`Arrives`, `Answers`) go on whatever
`main` does, until the process ends; what they do is in the other modules, here
they may take for ever. A process that has ended may be started again on the
disk it left, with the same configuration or, after `CreatesConfig`, another
one. `OtherProcess` takes and frees the lock of the database file.

## 3. Runs

| Run | Question | Bounds | Result |
|---|---|---|---|
| `farmer_safety` | do contracts, trees, tokens and cache stay consistent, does a CONSIGN wait at a channel on which nobody will send, and does the bucket behave as `ContractLedger`? | 2 hashes, 2 PUBLISHes, 1 CONSIGN, 1 MIRROR, counts 0, 2, 3, any number of restarts | holds, 657,549 states up to symmetry |
| `farmer_liveness` | is every CONSIGN of a protocol renter answered, not too early, and does a failed OFFER free its hash? | 1 hash, 2 PUBLISHes, 1 CONSIGN, 1 MIRROR | holds |
| `farmer_second_consign` | does a waiting CONSIGN go on if there are two of them? | 1 PUBLISH, 2 CONSIGNs | **violated** |
| `farmer_double_offer` | is there one OFFER at a time? | 2 PUBLISHes | **violated** |
| `audit_proof` | is the answer the Merkle path of the leaf? | every leaf of every tree of 2..64 leaves, 0 and 1 | holds |
| `audit_single_leaf` | can every tree that is accepted be audited? | the same | **violated** |
| `shard_writers` | what do concurrent and failing writers do to a file, and to the channel? | 2 POSTs, 1 download, 2 chunks, capacity 1 | holds |
| `shard_overwritten` | does a failed POST leave a stored shard alone? | 2 POSTs | **violated** |
| `membership` | does a PROBE time out under its nested PING, when does a mapping lapse, does a round fail though a seed was up, does the farmer come back after an outage? | 2 seeds, messages take up to 1 s | holds, 125,251 states |
| `membership_success` | is "join network success" true when it is logged? | the same | **violated** |
| `mirroring` | is a download whole that nothing disturbed, does the copy behave as `ShardCopy`, and do repeated requests put right what failures left? | 2 MIRRORs, each used again and again, 2 chunks, any number of uploads, failures and restarts | holds, 598,956 states |
| `process` | does a process serve only on what it needs, hear its goroutines, stop in order, and sign each answer under the id of its request? | 2 connections, 12 requests, 96 configurations (every value of every field that `Parse` tells apart, up to 2 seeds), or none, every disk, any number of restarts | holds, 37,886 states |

Why the bounds are enough. In `Farmer`, conflicts arise between handlers of one
hash, pairwise: two PUBLISHes cover the double offer, the replaced channel and
the insert that loses; a CONSIGN and a MIRROR cover both writers of trees
writing back what they read; the second hash shows that tables are not mixed
up. That a CONSIGN may have others beside it for other hashes matters
to `NobodyWaitsInVain` only in its proof. What TLC shows there is proved for any
number of hashes and requests. The counts are 2 (a power of two), 3 (not one) and 0 (rejected, and the empty
tree). In `AuditProof` 64 leaves mean five iterations, with the challenged leaf
at every position; the loop treats every level alike. In `Shards` two chunks
give a beginning and an end of a file, three writers truncate it at every
moment of each other; a capacity of 1 instead of 10 makes the channel full
whenever it is not empty, the hardest case for its senders. In `Membership`
two seeds give one that fails and one to fall back to; longer lists only repeat
the step from one to the next. In `Mirroring` two MIRRORs are one that
disturbs the other, and since each is used again, any number follows; with two
chunks a stream has a beginning and an end between which files can be emptied.
What is left open there, more than two at once, is proved for all of its
properties but the two of liveness. In `Process` two connections are one that hangs and another;
the requests have ids whose answers are signed over 51, 252, 253 and 256
bytes, on either side of where the prefix changes its form, and one of every
way through the dispatch.

`CHECK_DEADLOCK FALSE` except for `Membership` and `Process`, which never stop:
in the others the requests are finite in number, the loop of `AuditProof` ends,
and in `Mirroring` the renter may stop.

**Fairness.** A goroutine that can run is run (weak fairness of each handler's
own steps); two goroutines at one channel meet; a client's timeout fires, so an
OFFER ends (`OfferTimesOut` is among the fair steps); the terminal's goroutine
keeps receiving. No fairness for arriving requests, the renter's answer, the
bytes of a body, expiring cache entries or restarts. `NoPrematureRefusal` is an
action property and needs none. In `Membership`, the farmer, the seed in turn
and the clock take turns at one exchange, and the one that can go on does.

In `Mirroring` what has begun goes on: handlers, GET, the goroutine of a
download, a running upload; and the 30 s of a cache entry pass. A renter who
took a token sends its MIRROR. That renters go on uploading and mirroring is
not assumed of the system: it stands in the antecedents of the two liveness
properties (`UploadsPersist`, `MirrorsPersist`), with the end of all failures.
In `Process`, `main` and the goroutines are scheduled and the minute passes.
Nothing is assumed of the handlers, of the user or of who holds the database.

## 4. Findings

* **A CONSIGN can wait for ever** (`farmer_second_consign`). The goroutine of
  an OFFER sends on its channel once (`farmer.go:489`). If a second CONSIGN has
  loaded the channel too, by a retry or between the send and
  `offerLock.Delete`, nobody ever wakes it. Closing the channel would.
* **Two OFFERs for one hash** (`farmer_double_offer`). `contractCache.Get` and
  `Set` are separate calls. The database keeps the first answer (that no
  contract is overwritten is proved), but the second renter has a signature of
  the farmer too.
* **A tree of one leaf** (`audit_single_leaf`). 1 passes the check for powers
  of two; the audit loop then reads `proof[1]` of a list of length one.
* **`os.IsExist` of `os.Stat`** (`shard_overwritten`). It is never true, so
  "shard already exist" is never answered, and the "broken file" of a failed
  upload (`http_route.go:130`) is never removed. In the run a shard is stored
  and its upload over; another POST finds it, empties it all the same and
  breaks off: 400, and a broken file is where the shard was. `farmer.go:703`,
  `utils.go:166` and `utils.go:203` have the same test; what that does to the
  copy at a mirror is below.
* **"join network success"** (`membership_success`). `HeartBeat` logs it on
  every path. The callback of `probe` does not look at the answer, so a seed
  that answers "I cannot ping you" counts as joined; and after both joins have
  failed the line is logged too. Behind it: without a router `ip` is nil and the
  farmer's address becomes the string `<nil>` for good (`farmer.go:205`), with
  seeds' errors counting as success from then on.

Two PUBLISHes for one hash have a further effect, which is why
`NoPrematureRefusal` speaks of a hash that was published once: the second OFFER
replaces the channel of the first in `offerLock` and the first one's `Delete`
removes the second one's channel, so a CONSIGN can find no channel while an
OFFER is out, and be refused for want of a contract.

Observations that contradict no text of the repository, and so are no findings:

* `DownloadShard` never looks at the status of the answer. A MIRROR that the
  source refuses (a token that was not saved, no shard) empties the mirror's
  file, whole as it may have been, since the guards of `farmer.go:703` and
  `utils.go:166` are dead; and MIRROR answers success. GET ends a broken read
  in good order, so a short file counts as downloaded. `MirrorRetryRepairs`
  shows that a repeated MIRROR gets over all of it. The body of the answer is
  never closed.
* An empty string in `seed_list` panics (`config.go:106`), as does a data
  directory that cannot be read (`config.go:70`). The file that `new` writes
  has no `protocol`, which `Parse` demands. One valid private key in 256 is
  refused by `SetKey`, also one that `new` has made, since its public x begins
  with a zero byte (`private_key.go:30`).
* A start that fails after the configuration was read exits with code 0.
  `bolt.Open` waits for ever for a database that another process has open.
* A request longer than 32 KB is cut, the cut is not noticed, and the answer is
  "unknown message": a CONSIGN with more than some 750 leaves never gets
  through, although an OFFER with such a count was accepted.
* The terminal shows terabytes as "GB" (`termui.go:133`).

## 5. Proofs

All theorems are checked by TLAPS to the last leaf. They rest on nothing but the
assumptions the modules state about their constants and, for those of
`AuditProofTheorems`, their hypothesis about the lengths of trees. Liveness is out
of the prover's reach; for the liveness properties that rest on a subtle safety
property, that one is stated, checked and proved by itself:
`NobodyWaitsInVain`, `FailureHasCause`, `StopIsHeard`.

**Farmer** (`FarmerProofs`; assumption `ConstantAssumption`: the kinds of
requests are disjoint, counts are natural numbers, `None` is nothing else). The
inductive invariant is

    FarmerInv == TypeOK /\ ArrivedHasHash /\ CopyAgrees /\ TreesFit
                 /\ TokenWasSaved /\ CachedIsPursued /\ TreesHaveToken
                 /\ AcceptedIsDurable

The properties alone are not inductive. A CONSIGN writes back the *whole* item
it read some steps earlier: that this loses nothing follows from `CopyAgrees`,
which says the copy still has the contract that is stored, whoever wrote
meanwhile. `TreesHaveToken` needs to know at that write that the token is
saved, which is `TokenWasSaved`. `TreesFit` says that a stored tree has the
length of its contract, which the refinement needs, and that the request it
came with is not to arrive again, which would change its length. `InvInit` and
`InvStep` (one step per action, below it one per conjunct the action can
disturb) give `Invariance`; `TypeCorrect`, `CachePursues`, `TreesComeWithToken`,
`AcceptedStays` and `CopiesAgree` are its parts.

`Refinement` states `Spec => LedgerImplemented`. An OFFER that stores maps to
`Sign`, a handler that stores trees maps to `Attach`, all else to stuttering:
`TreeLenKept` shows that an arriving request does not change the length of a
stored tree, `CopyAgrees` that a write-back keeps the count and makes the
leaves equal to it. A tree that replaces another one of the same length is
invisible in the ledger, an `Attach` that changes nothing.

`ConsignsWaitLongEnough` proves `NoPrematureRefusal` for renters that keep to the
protocol (`ProtocolRenter`; a CONSIGN that comes before its OFFER is refused, and
rightly so). The invariant `RendezvousInv` says that `offerLock` has the channel
of an OFFER that is out if no other OFFER is about its hash (`OfferIsLocked`), that
channels are of the hash they are found under (`ChannelsFit`), that a CONSIGN
follows an answer (`ConsignFollowsOffer`), hence that it reads the contract only
when that OFFER is over (`ConsignComesLate`). `SoleBefore` shows that an OFFER
that is the only one for its hash always was: PUBLISHes are never forgotten.

`WaitersAreWoken` proves `NobodyWaitsInVain`, the safety half of `ConsignAnswered`:
a CONSIGN that is the only one about its hash waits at a channel only while the
goroutine that owns it has yet to send there. The danger is a CONSIGN that finds
in `offerLock` a channel that has been sent on. The invariant `WaiterInv` says
that such a channel is there only between the send and the `Delete`
(`LockedIsFresh`), and that what was sent some CONSIGN for the same hash has
received (`SentWasReceived`), so that it cannot be the one that waits; and
`SoleConsignBefore` that a CONSIGN that is alone for its hash always was. No
assumption is made of the renters. With two CONSIGNs for a hash it is false,
which is the first finding.

**AuditProof** (`AuditProofTheorems`). The theorems have one hypothesis,
`LengthsArePowers`: a tree has no leaves or a power of two of them, as OFFER,
CONSIGN and MIRROR see to (`TypeOK` of `Farmer`, `LedgerImplemented`). The provers
know no powers, so `PowersOfTwo` is the least set that has 1 and is closed under
doubling, and what would be an induction over the exponent is the lemma
`Doubling`: the numbers that are 1 or twice a power are themselves such a set.

`NoPanic` proves `LongTreesDoNotPanic`. The invariant: what is being folded has
such a length, the position is below it, and no element other than the one at
the position is nested. `LevelsAreWhole` proves `LevelIsWhole`. Its invariant
names the width of the nodes (`LevelOf`), with which the length is the product
of width and size; `BlocksJoin` shows that two neighbouring blocks make one of
twice the width, `NodeAbove` that halving the position is dividing the target
by twice the width, and `FoldJoins` that each of the three ways to fold a pair
makes such a block. `AuditTypeCorrect` needs it too.

`AnswersMerklePath` proves `ProofIsMerklePath`, the purpose of the whole loop. What
has to be carried from one iteration to the next is what the nested element
holds so far: `IsPath` says that its siblings begin at a leaf, double in width,
and are each the other child beside the target, on its side. `PathGrows` extends
it by one sibling, `FoldOpens` shows that the pair at the position does so on
either side, `FoldHashes` that all other pairs become plain digests. When two
elements are left, `LevelOf` gives a path of half the length and the digest of
the other half.

**Shards** (`ShardsProofs`; assumption `ShardsAssumption`). `ConcurrentWriters`
proves `WholeIfAllGetThrough` for any number of writers and chunks. The
property is not inductive, since it says nothing of files that are being
written. The invariant adds `SomeCreatorIsIntact`: among the writers that have
created a file there is one, the last to truncate it, all of whose chunks so
far are in the file. `UploadsCounted` proves `UploadsAreCounted` with the types
of the channel alone: a report adds one upload to the stored ones and one size
to the channel, a receive moves it, a restart clears all but the contracts.
`ShardsTypeCorrect` follows from the two invariants; its lemma `BrokenFileStays`
is that a failed upload removes nothing.

**Membership** (`MembershipProofs`; assumption `MembershipAssumption`: a message
takes at most one second). `ProbeOutlastsPing` proves `AnswerBeatsTimeout` by
bounding the age of a PROBE at each stage (`ProbeAges`): at most `Transit` when
the seed receives it, 4 seconds more when the PING is over, `Transit` more when
the answer is in. `MappingIsKept` proves `MappingHolds` with the invariant that
a mapping that was refreshed outlives the timer, and after one failure the timer
is less than an interval beyond it. `MembershipTypeCorrect` is the type
invariant, which says that no exchange outlives its timeout and no round asks
past the end of the list; it is inductive as it stands. `FailuresHaveCause`
proves `FailureHasCause`, the safety half of `Reconnects`, with `AskedInVain`: no
seed that has been asked in this round was up all through it. A PROBE that ends
by its timeout has lost a message (`ProbeAges` again), and messages are lost only
at seeds that are not up.

**Mirroring** (`MirroringProofs`; assumption `MirroringAssumption`). The
invariant `MirrorInv` is `TypeOK`, what is reset when nothing is in flight
(`IdleIsReset`), that open files exist (`FilesAreThere`) and `CleanDownload`:
the body of an undisturbed download is the whole shard, either still to come
from a source file that is whole or already sent, and what has been taken of it
is in the copy. `CleanDownloads` needs the last part for every download at
once, because any of them may be the next to empty the file. `MirroringTypeCorrect`
is the first conjunct.

`MirrorImplementsCopy` proves `Spec => CopyImplemented`. `PullCreates` maps to
`Creates`, `PullTakes` to `BecomesWhole` or a stutter, `PullEnds` to `GetsThrough` if
the download is undisturbed (`CleanDownload` makes the copy whole), a saved record
to `Signs` or `Attaches` (`AsksWithContract`: a MIRROR that saves trees has a
contract), and all else, at either farmer, to `Suffers`: the lemma `Suffering` says
what it takes. That `ShardCopy` is worth implementing is `ClaimsHold`
(`ShardCopyProofs`): at most one download at a time can be relied on, and the
copy is as it left it. `OneDownloadCounts` carries this over to the mirror, from
the refinement alone.

**Process** (`ProcessProofs`; assumption `ProcessAssumption`: an id in a body
that is not too long has at most 32 KB). `GracefulShutdown` proves
`ShutdownIsGraceful` from `ServedInOrder`: the database is open at every stage
between its opening and its close, requests are accepted only while `main`
runs, and are at work after `Shutdown` only if the minute is over.
`StartIsComplete` and `ProcessTypeCorrect` add what `main` has checked when it
goes on (`ServedOnAll`); behind them is `ParseAccepts`: what `Parse` leaves has
a "shards" in a data directory. `StartsRepeat` rests on `ParseTwice`: on the
disk it left, each check of `Parse` has the result it had, since a directory
that was made is one that could be made. Both hold for seed lists of any length.
`AnswersKeepIds` and `PrefixesReadBack` rest on `AnswersAreDue`: an answer is
what `ServeHTTP` gives for the request it came to. `AnswersKeepIds` splits
on the two ways to an id: from either, `Sign` leaves an id alone that is there
(`OwnIdIsSigned`). `IdOfAnswer` is the converse: an answer's id is a fresh one, or
that of a request that was JSON, and not empty. The lemma
`PrefixOfEveryLength` shows that the prefix reads back for every length below
2^32, across its two changes of form, and the limit of 32 KB keeps what is
signed below that. `StopsAreHeard` proves `StopIsHeard`, the safety half of
`StopEnds`: that there is *some* signal is not inductive, since main takes one; that
each goroutine has left its own is (`EachHasSignalled`).

**Only model-checked**: the liveness properties (`ConsignAnswered`,
`FailedOfferCanBeRepeated`, `AuditEnds`, `ReportingEnds`, `Reconnects`,
`UploadRetryRepairs`, `MirrorRetryRepairs`, `StopEnds`), since fairness and
ENABLED are out of the prover's reach. Every invariant and every action property
of a passing run is proved.

## 6. Not modelled

Signatures and hash functions (assumed injective where a property needs it);
logging, the layout of the terminal and its formatting of sizes; the cache of
HTTP clients, whose worst is a second equal client; the expiry of a cache entry
under an OFFER; a renter that answers an OFFER with a contract about another
hash; a page of the database reused before an item is parsed; the race of
`HeartBeat` with the handlers for `contact`; within a field of the
configuration or of a message, what no check tells apart (the callbacks' view
of an answer, `ParseResInRaw`, is in `Farmer` and `Membership`); an AUDIT of a
shard that is being written, which fails as an AUDIT of a broken one does. A
process that is killed is in `Farmer`, `Shards` and `Mirroring` (`Restart`), not
in `Process`, whose subject is the orderly way out.

## 7. Plan

Done, in this order: `Farmer` with `ContractLedger`; its proofs; `AuditProof`;
`Shards`; `Membership`; `Mirroring`; `Config`, `Envelope` and `Process`; the
proofs of `Mirroring` and `Process`, of `LevelIsWhole` and `UploadsAreCounted`,
of `NoPrematureRefusal`, and of every module's types; `ProofIsMerklePath`; the
safety halves of the liveness properties; `ShardCopy` and its implementation.
What remains:

1. AUDIT composed with the shard files: an AUDIT that reads while a POST or a
   download writes.
2. An abstract specification of the shard files with many writers (`Shards`), as
   `ShardCopy` is of one copy.
