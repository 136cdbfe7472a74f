------------------------------ MODULE Mirroring ------------------------------
(***************************************************************************)
(* How a shard gets from one farmer to another.  A renter uploads it to    *)
(* the source farmer (POST), asks there for a token (RETRIEVE), and sends  *)
(* the token in a MIRROR to the mirror farmer, which fetches the shard     *)
(* from the source (GET) and saves the audit trees of the contract.  At    *)
(* the mirror the handler and the goroutine that copies the body run side  *)
(* by side; either farmer may restart at any moment.                       *)
(*                                                                         *)
(* All bodies hold the same bytes, so the source file, which one POST at a *)
(* time writes, is how many chunks of them it has; the copy, into which    *)
(* several downloads write at their own offsets, is which chunks it has.   *)
(***************************************************************************)
EXTENDS Naturals

CONSTANTS
  Mirrors,    \* MIRROR requests; each is used again once it is through
  Chunks,     \* chunks in the shard
  None        \* no file

Whole == 1..Chunks

ASSUME MirroringAssumption ==
  /\ Chunks \in Nat \ {0}
  /\ None \notin Nat
  /\ \A chunks \in SUBSET Whole : chunks # None

VARIABLES
  source,     \* chunks in the source's file, or None
  upload,     \* whether a POST is writing it
  copy,       \* the chunks in the mirror's file, or None
  contract,   \* the mirror's record: "none", "signed", or "mirrored" with trees
  cached,     \* whether mirrorCache has the data hash
  pc,         \* stage of each MIRROR handler
  token,      \* whether the token of each MIRROR is in the source's database
  stream,     \* each GET at the source: "none", "open", "eof" or "cut"
  sent,       \* chunks the source has sent
  pull,       \* stage of each download goroutine
  taken,      \* chunks it has written
  clean,      \* history: nothing has disturbed this download
  calm        \* environment: from now on nothing fails

posted == <<source, upload>>
request == <<pc, token>>
served == <<stream, sent>>
pulled == <<pull, taken>>
vars == <<posted, copy, contract, cached, request, served, pulled, clean, calm>>

Goto(m, stage) == pc' = [pc EXCEPT ![m] = stage]

\* Neither a handler nor a goroutine is at work on m.
Free(m) == pc[m] = "idle" /\ pull[m] \in {"idle", "done"}

\* The goroutine of m is through at this stage, and nobody reads its body.
Closes(m, stage) ==
  /\ pull' = [pull EXCEPT ![m] = stage]
  /\ stream' = [stream EXCEPT ![m] = "none"]
  /\ sent' = [sent EXCEPT ![m] = 0]
  /\ taken' = [taken EXCEPT ![m] = 0]

Init ==
  /\ source = None /\ upload = FALSE
  /\ copy = None /\ contract = "none" /\ cached = FALSE
  /\ pc = [m \in Mirrors |-> "idle"]
  /\ token = [m \in Mirrors |-> FALSE]
  /\ stream = [m \in Mirrors |-> "none"]
  /\ sent = [m \in Mirrors |-> 0]
  /\ pull = [m \in Mirrors |-> "idle"]
  /\ taken = [m \in Mirrors |-> 0]
  /\ clean = [m \in Mirrors |-> FALSE]
  /\ calm = FALSE
-----------------------------------------------------------------------------
(* The source: POST, RETRIEVE, GET *)

\* Mistake: the check for an existing shard works as it was meant.
PostCreatesOnce ==
  /\ ~upload /\ source = None
  /\ source' = 0 /\ upload' = TRUE
  /\ clean' = [m \in Mirrors |-> clean[m] /\ stream[m] # "open"]
  /\ UNCHANGED <<copy, contract, cached, request, served, pulled, calm>>

\* os.Create empties the file.  A renter in calm times only repeats an upload
\* that failed.
PostCreates ==
  /\ ~upload
  /\ calm => source # Chunks
  /\ source' = 0 /\ upload' = TRUE
  /\ clean' = [m \in Mirrors |-> clean[m] /\ stream[m] # "open"]
  /\ UNCHANGED <<copy, contract, cached, request, served, pulled, calm>>

PostWrites ==
  /\ upload
  /\ IF source < Chunks THEN source' = source + 1 /\ UNCHANGED upload
                        ELSE upload' = FALSE /\ UNCHANGED source
  /\ UNCHANGED <<copy, contract, cached, request, served, pulled, clean, calm>>

\* The upload breaks off; the file stays as it is.
PostFails ==
  /\ upload /\ ~calm
  /\ upload' = FALSE
  /\ UNCHANGED <<source, copy, contract, cached, request, served, pulled, clean, calm>>

\* RETRIEVE answers with a new token whether it could be saved or not.
OnRetrieve(m, saved) ==
  /\ Free(m)
  /\ calm => saved /\ \A o \in Mirrors : Free(o)
  /\ token' = [token EXCEPT ![m] = saved]
  /\ Goto(m, "retrieved")
  /\ UNCHANGED <<posted, copy, contract, cached, served, pulled, clean, calm>>

\* The GET of a MIRROR comes in and its answer begins: a body that is empty
\* without the token or the file, which stays open otherwise.  The status is
\* not looked at, so the handler goes on, and so does a goroutine, either way.
\* The token stays in the database, but this MIRROR does not use it again.
GetAnswered(m) ==
  /\ pc[m] = "asking"
  /\ stream' = [stream EXCEPT ![m] = IF token[m] /\ source # None THEN "open" ELSE "eof"]
  /\ pull' = [pull EXCEPT ![m] = "answered"]
  /\ clean' = [clean EXCEPT ![m] = token[m] /\ source = Chunks]
  /\ token' = [token EXCEPT ![m] = FALSE]
  /\ Goto(m, "saving")
  /\ UNCHANGED <<posted, copy, contract, cached, sent, taken, calm>>

\* The source cannot be reached: "mirror shard failed".
GetUnanswered(m) ==
  /\ pc[m] = "asking" /\ ~calm
  /\ Goto(m, "idle")
  /\ UNCHANGED <<posted, copy, contract, cached, token, served, pulled, clean, calm>>

\* Mistake: the last read is one past the end of the file.
GetSendsPast(m) ==
  /\ stream[m] = "open"
  /\ IF sent[m] <= source THEN sent' = [sent EXCEPT ![m] = @ + 1] /\ UNCHANGED stream
                          ELSE stream' = [stream EXCEPT ![m] = "eof"] /\ UNCHANGED sent
  /\ UNCHANGED <<posted, copy, contract, cached, request, pulled, clean, calm>>

\* io.Copy to the answer reads what the file has at its offset, to the end the
\* file has at that moment.
GetSends(m) ==
  /\ stream[m] = "open"
  /\ IF sent[m] < source THEN sent' = [sent EXCEPT ![m] = @ + 1] /\ UNCHANGED stream
                         ELSE stream' = [stream EXCEPT ![m] = "eof"] /\ UNCHANGED sent
  /\ UNCHANGED <<posted, copy, contract, cached, request, pulled, clean, calm>>

\* The file cannot be read on: the handler returns, and the answer ends in
\* good order.  Or the connection breaks.
GetFails(m) ==
  /\ stream[m] = "open" /\ ~calm
  /\ \E end \in {"eof", "cut"} : stream' = [stream EXCEPT ![m] = end]
  /\ clean' = [clean EXCEPT ![m] = FALSE]
  /\ UNCHANGED <<posted, copy, contract, cached, request, sent, pulled, calm>>

\* The source ends and starts again.
SourceRestarts ==
  /\ ~calm
  /\ upload' = FALSE
  /\ stream' = [m \in Mirrors |-> IF stream[m] = "open" THEN "cut" ELSE stream[m]]
  /\ clean' = [m \in Mirrors |-> clean[m] /\ stream[m] # "open"]
  /\ UNCHANGED <<source, copy, contract, cached, request, sent, pulled, calm>>
-----------------------------------------------------------------------------
(* The mirror: the handler of MIRROR *)

\* OFFER was accepted and its contract saved (module Farmer).
ContractSaved ==
  /\ contract = "none"
  /\ contract' = "signed"
  /\ UNCHANGED <<posted, copy, cached, request, served, pulled, clean, calm>>

\* While the cache has the hash a MIRROR is answered as done without a look.
MirrorArrives(m) ==
  /\ pc[m] = "retrieved"
  /\ Goto(m, IF cached THEN "idle" ELSE "missed")
  /\ UNCHANGED <<posted, copy, contract, cached, token, served, pulled, clean, calm>>

\* Mistake: the checks for an existing shard work as they were meant.
MirrorChecksShard(m) ==
  /\ pc[m] = "missed"
  /\ cached' = TRUE
  /\ Goto(m, IF contract = "none" \/ copy # None THEN "idle" ELSE "asking")
  /\ UNCHANGED <<posted, copy, contract, token, served, pulled, clean, calm>>

\* Mistake: the shard is fetched without a look for its contract.
MirrorChecksNoContract(m) ==
  /\ pc[m] = "missed"
  /\ cached' = TRUE
  /\ Goto(m, "asking")
  /\ UNCHANGED <<posted, copy, contract, token, served, pulled, clean, calm>>

\* The hash is cached before anything is checked; then it is "no signed
\* contract", or on to DownloadShard.  The two checks for an existing shard
\* never find one, since os.IsExist is never true of what os.Stat returns.
MirrorChecks(m) ==
  /\ pc[m] = "missed"
  /\ cached' = TRUE
  /\ Goto(m, IF contract = "none" THEN "idle" ELSE "asking")
  /\ UNCHANGED <<posted, copy, contract, token, served, pulled, clean, calm>>

\* The trees are saved, or that fails: "internal error", and the download goes on.
MirrorSaves(m, saved) ==
  /\ pc[m] = "saving"
  /\ calm => saved
  /\ contract' = IF saved THEN "mirrored" ELSE contract
  /\ Goto(m, "idle")
  /\ UNCHANGED <<posted, copy, cached, token, served, pulled, clean, calm>>

\* 30 seconds have passed since the MIRROR that was not found in the cache.
CacheExpires ==
  /\ cached
  /\ cached' = FALSE
  /\ UNCHANGED <<posted, copy, contract, request, served, pulled, clean, calm>>

(* The mirror: the goroutine of DownloadShard *)

\* os.Create makes the file or empties it, under any download that still writes.
PullCreates(m) ==
  /\ pull[m] = "answered"
  /\ pull' = [pull EXCEPT ![m] = "writing"]
  /\ copy' = {}
  /\ clean' = [o \in Mirrors |-> clean[o] /\ (o = m \/ pull[o] \notin {"writing", "done"})]
  /\ UNCHANGED <<posted, contract, cached, request, served, taken, calm>>

\* os.Create fails, or the disk is full, or the body has broken off.  What there
\* is of the file stays: after os.Create it would be removed, had os.IsExist ever
\* said that it is there, and a copy that breaks off is only logged.
PullFails(m) ==
  /\ \/ pull[m] \in {"answered", "writing"} /\ ~calm
     \/ pull[m] = "writing" /\ stream[m] = "cut" /\ taken[m] = sent[m]
  /\ Closes(m, "idle")
  /\ clean' = [clean EXCEPT ![m] = FALSE]
  /\ UNCHANGED <<posted, copy, contract, cached, request, calm>>

PullTakes(m) ==
  /\ pull[m] = "writing" /\ taken[m] < sent[m]
  /\ taken' = [taken EXCEPT ![m] = @ + 1]
  /\ copy' = copy \cup {taken[m] + 1}
  /\ UNCHANGED <<posted, contract, cached, request, served, pull, clean, calm>>

\* Mistake: what has come in so far is taken for the whole body.
PullEndsEarly(m) ==
  /\ pull[m] = "writing" /\ stream[m] # "cut" /\ taken[m] = sent[m]
  /\ Closes(m, "done")
  /\ UNCHANGED <<posted, copy, contract, cached, request, clean, calm>>

\* The body ended in good order: the shard counts as downloaded.
PullEnds(m) ==
  /\ pull[m] = "writing" /\ stream[m] = "eof" /\ taken[m] = sent[m]
  /\ Closes(m, "done")
  /\ UNCHANGED <<posted, copy, contract, cached, request, clean, calm>>

\* The mirror ends and starts again: files and records stay, the rest is gone.
MirrorRestarts ==
  /\ ~calm
  /\ cached' = FALSE
  /\ pc' = [m \in Mirrors |-> IF pc[m] = "retrieved" THEN "retrieved" ELSE "idle"]
  /\ pull' = [m \in Mirrors |-> IF pull[m] = "done" THEN "done" ELSE "idle"]
  /\ clean' = [m \in Mirrors |-> clean[m] /\ pull[m] = "done"]
  /\ stream' = [m \in Mirrors |-> "none"]
  /\ sent' = [m \in Mirrors |-> 0]
  /\ taken' = [m \in Mirrors |-> 0]
  /\ UNCHANGED <<posted, copy, contract, token, calm>>

\* Requests that are going on may as well end before.
BecomesCalm ==
  /\ ~calm /\ \A m \in Mirrors : Free(m)
  /\ calm' = TRUE
  /\ UNCHANGED <<posted, copy, contract, cached, request, served, pulled, clean>>
-----------------------------------------------------------------------------
Handler(m) ==
  MirrorArrives(m) \/ MirrorChecks(m) \/ \E saved \in BOOLEAN : MirrorSaves(m, saved)
Get(m) == GetAnswered(m) \/ GetSends(m)
Pull(m) == PullCreates(m) \/ PullTakes(m) \/ PullEnds(m) \/ PullFails(m)

Next ==
  \/ PostCreates \/ PostWrites \/ PostFails
  \/ \E m \in Mirrors :
       \/ \E saved \in BOOLEAN : OnRetrieve(m, saved)
       \/ GetUnanswered(m) \/ GetFails(m)
       \/ Handler(m) \/ Get(m) \/ Pull(m)
  \/ ContractSaved \/ CacheExpires
  \/ SourceRestarts \/ MirrorRestarts \/ BecomesCalm

\* What has begun goes on, a renter who took a token sends the MIRROR, and 30
\* seconds pass.  Renters may stop uploading and asking for tokens at will.
Fairness ==
  /\ WF_vars(PostWrites) /\ WF_vars(CacheExpires)
  /\ \A m \in Mirrors :
       WF_vars(Handler(m)) /\ WF_vars(Get(m)) /\ WF_vars(Pull(m))

Spec == Init /\ [][Next]_vars
FairSpec == Spec /\ Fairness
-----------------------------------------------------------------------------
(* What mirroring must achieve. *)

\* Every variable has its type.
TypeOK ==
  /\ source \in {None} \cup 0..Chunks
  /\ upload \in BOOLEAN /\ cached \in BOOLEAN /\ calm \in BOOLEAN
  /\ copy \in {None} \cup SUBSET Whole
  /\ contract \in {"none", "signed", "mirrored"}
  /\ pc \in [Mirrors -> {"idle", "retrieved", "missed", "asking", "saving"}]
  /\ token \in [Mirrors -> BOOLEAN]
  /\ stream \in [Mirrors -> {"none", "open", "eof", "cut"}]
  /\ sent \in [Mirrors -> 0..Chunks]
  /\ pull \in [Mirrors -> {"idle", "answered", "writing", "done"}]
  /\ taken \in [Mirrors -> 0..Chunks]
  /\ clean \in [Mirrors -> BOOLEAN]

\* A download that ended in good order, from a source file that was whole when
\* it was opened and was left alone, leaves a whole file, however it overlapped
\* with others that had created the file before it (utils.go:197-218).
CleanPullIsWhole ==
  \A m \in Mirrors : pull[m] = "done" /\ clean[m] => copy = Whole

\* What is in the copy, and the downloads that write it or are through.
CopyState == IF copy = None THEN "absent" ELSE IF copy = Whole THEN "whole" ELSE "partial"
Writing == {m \in Mirrors : pull[m] = "writing"}
Intact == {m \in Writing : clean[m]}
Through == {m \in Mirrors : pull[m] = "done" /\ clean[m]}

Copy == INSTANCE ShardCopy
          WITH Downloads <- Mirrors, copy <- CopyState, record <- contract,
               writing <- Writing, intact <- Intact, through <- Through

\* The mirror implements ShardCopy: MIRRORs that empty the file under each other,
\* broken bodies and restarts (utils.go:197-218) never let a download that was
\* disturbed count, nor two at once, and trees are only saved with a contract
\* (farmer.go:681-719).
CopyImplemented == Copy!CopySpec

\* The renter goes on: with uploads until one is stored, with MIRRORs for ever.
UploadsPersist == WF_vars(PostCreates)
MirrorsPersist == []<>(\E m \in Mirrors : pc[m] = "retrieved")

\* A file that a failed upload or a restart left half written does not block
\* the renter: uploads that are repeated get the shard stored (http_route.go:118).
UploadRetryRepairs == <>[]calm /\ UploadsPersist => <>[](source = Chunks)

\* Whatever earlier MIRRORs left behind - a cached hash without a contract, an
\* empty or short or torn file, trees without a shard or a shard without trees
\* (farmer.go:678, "have shard downloaded" at 721) - repeated ones put right.
Mirrored == copy = Whole /\ contract = "mirrored"
MirrorRetryRepairs ==
  <>[](calm /\ contract # "none") /\ UploadsPersist /\ MirrorsPersist => []<>Mirrored
=============================================================================
