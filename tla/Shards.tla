------------------------------- MODULE Shards -------------------------------
(***************************************************************************)
(* The shard files of one farmer and the requests that write them: POST of *)
(* a shard by a renter (ShardHandler, http_route.go), which reports the    *)
(* size to the terminal through the bounded channel ChanSize, and the      *)
(* download of a shard from another farmer (DownloadShard, utils.go) by    *)
(* the goroutine that MIRROR starts.                                       *)
(*                                                                         *)
(* A file is named after the data hash, so all its writers bring the same  *)
(* bytes; what matters is which chunks of them are there.  Every writer    *)
(* truncates the file, then writes at its own offset.                      *)
(***************************************************************************)
EXTENDS Naturals, Sequences, FiniteSets

CONSTANTS
  Hashes,     \* data hashes, the names of the files
  Posts,      \* POST requests
  Pulls,      \* downloads started by MIRROR
  Chunks,     \* chunks in a shard
  Capacity,   \* capacity of ChanSize
  None        \* no file, no hash

Writers == Posts \cup Pulls
Whole == 1..Chunks

ASSUME ShardsAssumption ==
  /\ Posts \cap Pulls = {} /\ IsFiniteSet(Posts)
  /\ Chunks \in Nat \ {0}
  /\ Capacity \in Nat \ {0}
  /\ None \notin Hashes
  /\ \A chunks \in SUBSET Whole : chunks # None

VARIABLES
  files,      \* hash -> the chunks in its file, or None
  pc,         \* stage of each writer
  shard,      \* the hash each writer is about
  body,       \* chunks in the body a writer copies, if nothing breaks it
  offset,     \* chunks a writer has copied
  chanSize,   \* the channel: sizes sent and not received
  received,   \* sizes the terminal has received since the start
  found       \* history: the shard was stored when a POST looked for it

report == <<chanSize, received>>
vars == <<files, pc, shard, body, offset, report, found>>

Stages == {"idle", "refused", "admitted", "answered", "writing", "failed",
           "broken", "reporting", "stored", "past", "lost"}

Goto(w, stage) == pc' = [pc EXCEPT ![w] = stage]

\* Init of the farmer sends the size of its contracts before anyone listens.
Init ==
  /\ files    = [h \in Hashes |-> None]
  /\ pc       = [w \in Writers |-> "idle"]
  /\ shard    = [w \in Writers |-> None]
  /\ body     = [w \in Writers |-> 0]
  /\ offset   = [w \in Writers |-> 0]
  /\ chanSize = <<"contracts">>
  /\ received = 0
  /\ found    = [w \in Posts |-> FALSE]
-----------------------------------------------------------------------------
\* The error of os.Stat, and os.IsExist, which is true of errors like that of a
\* file that was to be made and is there: of none that os.Stat returns.
Stat(h) == IF files[h] = None THEN "not exist" ELSE "nil"
IsExist(err) == err = "exist"

\* The shard is there, and nobody writes it.
IsStored(h) == files[h] = Whole /\ \A w \in Writers : pc[w] = "writing" => shard[w] # h

(* POST *)

\* Without a token of the database the request is refused; then it is looked
\* whether the shard is there.
PostArrives(w, h, tokenSaved) ==
  /\ pc[w] = "idle"
  /\ shard' = [shard EXCEPT ![w] = h]
  /\ body' = [body EXCEPT ![w] = Chunks]
  /\ found' = [found EXCEPT ![w] = tokenSaved /\ IsStored(h)]
  /\ Goto(w, IF tokenSaved /\ ~IsExist(Stat(h)) THEN "admitted" ELSE "refused")
  /\ UNCHANGED <<files, offset, report>>

\* Mistake: an upload that breaks off is taken for complete.
PostReportsEarly(w) ==
  /\ pc[w] = "writing"
  /\ Goto(w, "reporting")
  /\ UNCHANGED <<files, shard, body, offset, report, found>>

\* The body is copied to its end and the file closed.
PostCompletes(w) ==
  /\ pc[w] = "writing" /\ offset[w] = body[w]
  /\ Goto(w, "reporting")
  /\ UNCHANGED <<files, shard, body, offset, report, found>>

\* The renter hangs up, or the disk is full: 400, and "if exist, remove the
\* broken file".
PostFails(w) ==
  /\ pc[w] = "writing"
  /\ Goto(w, "failed")
  /\ files' = IF IsExist(Stat(shard[w])) THEN [files EXCEPT ![shard[w]] = None] ELSE files
  /\ UNCHANGED <<shard, body, offset, report, found>>

\* Mistake: the channel is full, so the size is dropped.
PostDropsSize(w) ==
  /\ pc[w] = "reporting"
  /\ chanSize' = IF Len(chanSize) < Capacity THEN Append(chanSize, w) ELSE chanSize
  /\ Goto(w, "stored")
  /\ UNCHANGED <<files, shard, body, offset, received, found>>

\* Mistake: the channel is taken for unbounded.
PostReportsAtOnce(w) ==
  /\ pc[w] = "reporting"
  /\ chanSize' = Append(chanSize, w)
  /\ Goto(w, "stored")
  /\ UNCHANGED <<files, shard, body, offset, received, found>>

\* ChanSize <- size: the handler, and with it the answer, waits for room.
PostReports(w) ==
  /\ pc[w] = "reporting" /\ Len(chanSize) < Capacity
  /\ chanSize' = Append(chanSize, w)
  /\ Goto(w, "stored")
  /\ UNCHANGED <<files, shard, body, offset, received, found>>
-----------------------------------------------------------------------------
(* DownloadShard *)

\* The other farmer answers with a body of n chunks, none if it refuses: the
\* status is not looked at.  MIRROR is told that all is well, and a goroutine
\* takes the body.  Or there is no answer.
PullAnswered(w, h, n) ==
  /\ pc[w] = "idle"
  /\ shard' = [shard EXCEPT ![w] = h]
  /\ body' = [body EXCEPT ![w] = n]
  /\ Goto(w, "answered") \/ Goto(w, "refused")
  /\ UNCHANGED <<files, offset, report, found>>

\* Nothing is sent to the terminal.
PullCompletes(w) ==
  /\ pc[w] = "writing" /\ offset[w] = body[w]
  /\ Goto(w, "stored")
  /\ UNCHANGED <<files, shard, body, offset, report, found>>

PullFails(w) ==
  /\ pc[w] = "writing"
  /\ Goto(w, "failed")
  /\ UNCHANGED <<files, shard, body, offset, report, found>>
-----------------------------------------------------------------------------
(* Both *)

\* os.Create makes the file or empties it; or it fails.
Creates(w) ==
  /\ pc[w] \in {"admitted", "answered"}
  /\ \/ files' = [files EXCEPT ![shard[w]] = {}] /\ Goto(w, "writing")
     \/ Goto(w, "refused") /\ UNCHANGED files
  /\ UNCHANGED <<shard, body, offset, report, found>>

\* io.Copy writes the next chunk that has come in.
Writes(w) ==
  /\ pc[w] = "writing" /\ offset[w] < body[w]
  /\ files' = [files EXCEPT ![shard[w]] = @ \cup {offset[w] + 1}]
  /\ offset' = [offset EXCEPT ![w] = @ + 1]
  /\ UNCHANGED <<pc, shard, body, report, found>>

\* Mistake: the goroutine of the terminal receives once and returns.
UiReceivesOnce ==
  /\ chanSize # <<>> /\ received = 0
  /\ chanSize' = Tail(chanSize)
  /\ received' = received + 1
  /\ UNCHANGED <<files, pc, shard, body, offset, found>>

\* The goroutine of UiSetup takes a size and adds it up.
UiReceives ==
  /\ chanSize # <<>>
  /\ chanSize' = Tail(chanSize)
  /\ received' = received + 1
  /\ UNCHANGED <<files, pc, shard, body, offset, found>>

\* Files stay as they are when the process ends and starts again; the total
\* starts from the contracts anew.
Restart ==
  /\ pc' = [w \in Writers |->
              CASE pc[w] \in {"reporting", "stored"}   -> "past"
                [] pc[w] = "writing"                   -> "broken"
                [] pc[w] \in {"admitted", "answered"}  -> "lost"
                [] OTHER                               -> pc[w]]
  /\ chanSize' = <<"contracts">>
  /\ received' = 0
  /\ UNCHANGED <<files, shard, body, offset, found>>
-----------------------------------------------------------------------------
PostStep(w) == PostCompletes(w) \/ PostReports(w)

Next ==
  \/ \E w \in Posts :
       \/ \E h \in Hashes, tokenSaved \in BOOLEAN : PostArrives(w, h, tokenSaved)
       \/ PostStep(w)
       \/ PostFails(w)
  \/ \E w \in Pulls :
       \/ \E h \in Hashes, n \in 0..Chunks : PullAnswered(w, h, n)
       \/ PullCompletes(w)
       \/ PullFails(w)
  \/ \E w \in Writers : Creates(w) \/ Writes(w)
  \/ UiReceives
  \/ Restart

\* A handler that has its body goes on, and the terminal keeps receiving.
\* Nothing is assumed of the renters and farmers that send the bodies.
Fairness ==
  /\ \A w \in Posts : WF_vars(PostStep(w))
  /\ \A w \in Writers : WF_vars(Creates(w))
  /\ WF_vars(UiReceives)

Spec == Init /\ [][Next]_vars
FairSpec == Spec /\ Fairness
-----------------------------------------------------------------------------
(* What the files must be. *)

\* Every variable has its type.
TypeOK ==
  /\ files \in [Hashes -> {None} \cup SUBSET Whole]
  /\ pc \in [Writers -> Stages]
  /\ shard \in [Writers -> Hashes \cup {None}]
  /\ body \in [Writers -> 0..Chunks]
  /\ offset \in [Writers -> 0..Chunks]
  /\ chanSize \in Seq(Posts \cup {"contracts"}) /\ Len(chanSize) <= Capacity
  /\ received \in Nat
  /\ found \in [Posts -> BOOLEAN]

\* The writers that have created the file of h, and those that are through.
Created(h) ==
  {w \in Writers : /\ shard[w] = h
                   /\ pc[w] \in {"writing", "failed", "broken", "reporting", "stored", "past"}}
Through(w) == pc[w] \in {"reporting", "stored", "past"} /\ body[w] = Chunks

\* However POSTs and mirror downloads of one shard truncate each other's file
\* and write into it (http_route.go:118-124, utils.go:198-213): if all of them
\* get through, the shard is whole, with no chunk of it missing.
WholeIfAllGetThrough ==
  \A h \in Hashes :
    Created(h) # {} /\ (\A w \in Created(h) : Through(w)) => files[h] = Whole

\* Every POST that is answered is reported once: the terminal has received it
\* or it is in the channel (http_route.go:146, termui.go:42).
UploadsAreCounted ==
  received + Len(chanSize) = 1 + Cardinality({w \in Posts : pc[w] = "stored"})

\* A POST whose shard is on disk is answered: the full channel is not a trap
\* (http_route.go:146).
ReportingEnds == \A w \in Posts : pc[w] = "reporting" ~> pc[w] # "reporting"

\* "check if shard already exist" (http_route.go:80), "shard already exist" (113)
\* and "remove the broken file" (130): a POST that found the shard stored when it
\* looked, and is answered with an error, leaves it as it was.
ExistingShardIsKept ==
  \A w \in Posts : pc[w] = "failed" /\ found[w] => files[shard[w]] = Whole
=============================================================================
