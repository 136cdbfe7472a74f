---------------------------- MODULE ProcessProofs ----------------------------
(***************************************************************************)
(* The shutdown of the process and the answers of its handlers, for any    *)
(* number of connections and any requests.                                 *)
(***************************************************************************)
EXTENDS Process, TLAPS

\* The database is open from when it was opened until main closes it, requests
\* are accepted only while main runs, and are at work at its end only when the
\* minute is over.
ServedInOrder ==
  /\ phase \in {"buckets", "node", "running", "stopping", "closing"} => db = "open"
  /\ server \in {"starting", "listening"} => phase = "running"
  /\ AtWork # {} => phase \in {"running", "stopping", "closing", "closed"}
  /\ AtWork # {} /\ phase \in {"closing", "closed"} => minute

LEMMA ServedInit == Init => ServedInOrder
BY DEF Init, ServedInOrder, AtWork

LEMMA StartStep ==
  ASSUME ServedInOrder,
         \/ ReadsArgs \/ CreatesConfig \/ ParsesConfig \/ SetsUpLogger
         \/ OpensDatabase \/ CreatesBuckets \/ InitsNode
  PROVE  ServedInOrder'
<1> USE DEF ServedInOrder, AtWork, Goto, Exits, paths, signals, served
<1>1. CASE ReadsArgs
  BY <1>1 DEF ReadsArgs
<1>2. CASE CreatesConfig
  BY <1>2 DEF CreatesConfig
<1>3. CASE ParsesConfig
  <2>1. phase = "config" /\ phase' \in {"logger", "exited"}
    BY <1>3 DEF ParsesConfig
  <2>2. UNCHANGED <<db, server, minute, request>>
    BY <1>3 DEF ParsesConfig
  <2> QED BY <2>1, <2>2
<1>4. CASE SetsUpLogger
  BY <1>4 DEF SetsUpLogger
<1>5. CASE OpensDatabase
  BY <1>5 DEF OpensDatabase
<1>6. CASE CreatesBuckets
  BY <1>6 DEF CreatesBuckets
<1>7. CASE InitsNode
  BY <1>7 DEF InitsNode
<1> QED BY <1>1, <1>2, <1>3, <1>4, <1>5, <1>6, <1>7

LEMMA EndStep ==
  ASSUME ServedInOrder,
         Stops \/ MinutePasses \/ ShutdownEnds \/ ClosesDatabase \/ Ends \/ Restarts
  PROVE  ServedInOrder'
<1> USE DEF ServedInOrder, AtWork, Goto, Exits, paths, signals, served
<1>1. CASE Stops
  BY <1>1 DEF Stops
<1>2. CASE MinutePasses
  BY <1>2 DEF MinutePasses
<1>3. CASE ShutdownEnds
  BY <1>3 DEF ShutdownEnds
<1>4. CASE ClosesDatabase
  BY <1>4 DEF ClosesDatabase
<1>5. CASE Ends
  <2>1. AtWork' = {}
    BY <1>5 DEF Ends
  <2> QED BY <1>5, <2>1 DEF Ends
<1>6. CASE Restarts
  BY <1>6 DEF Restarts
<1> QED BY <1>1, <1>2, <1>3, <1>4, <1>5, <1>6

LEMMA GoroutineStep ==
  ASSUME ServedInOrder,
         \/ Listens \/ UiStarts \/ Quits \/ UiEnds \/ OtherProcess
         \/ \E c \in Conns : Arrives(c) \/ Answers(c)
         \/ UNCHANGED vars
  PROVE  ServedInOrder'
<1> USE DEF ServedInOrder, AtWork, paths, signals, served
<1>1. CASE Listens
  BY <1>1 DEF Listens
<1>2. CASE UiStarts \/ Quits \/ UiEnds \/ OtherProcess
  BY <1>2 DEF UiStarts, Quits, UiEnds, OtherProcess
<1>3. ASSUME NEW c \in Conns, Arrives(c) PROVE ServedInOrder'
  BY <1>3 DEF Arrives
<1>4. ASSUME NEW c \in Conns, Answers(c) PROVE ServedInOrder'
  <2>1. AtWork # {} /\ UNCHANGED <<phase, db, server, minute>>
    BY <1>4 DEF Answers
  <2> QED BY <2>1
<1>5. CASE UNCHANGED vars
  BY <1>5 DEF vars
<1> QED BY <1>1, <1>2, <1>3, <1>4, <1>5

\* However many handlers hang, and whatever stops the process: the database is
\* closed under one of them only after a minute of waiting.
THEOREM GracefulShutdown == Spec => []ShutdownIsGraceful
<1>1. ServedInOrder => ShutdownIsGraceful
  BY DEF ServedInOrder, ShutdownIsGraceful
<1>2. ServedInOrder /\ [Next]_vars => ServedInOrder'
  BY StartStep, EndStep, GoroutineStep DEF Next, Main
<1> QED BY <1>1, <1>2, ServedInit, PTL DEF Spec
-----------------------------------------------------------------------------
\* Each of the two goroutines has left its own signal; taking one is the end of
\* waiting.
EachHasSignalled ==
  phase = "running" =>
    (server = "stopped" => stopServer) /\ (ui = "stopped" => stopUi)

\* Whichever of server and terminal fails first, and whatever the user does:
\* main is not left waiting for a signal that was never sent, or taken before.
THEOREM StopsAreHeard == Spec => []StopIsHeard
<1>1. Init => EachHasSignalled
  BY DEF Init, EachHasSignalled
<1>2. ASSUME EachHasSignalled, [Next]_vars PROVE EachHasSignalled'
  <2> USE <1>2 DEF EachHasSignalled, Goto, Exits, paths, signals, served
  <2>1. CASE Listens \/ UiStarts \/ Quits \/ UiEnds
    BY <2>1 DEF Listens, UiStarts, Quits, UiEnds
  <2>2. CASE InitsNode \/ Stops
    BY <2>2 DEF InitsNode, Stops
  <2>3. CASE ReadsArgs \/ CreatesConfig \/ SetsUpLogger \/ OpensDatabase \/ CreatesBuckets
    BY <2>3 DEF ReadsArgs, CreatesConfig, SetsUpLogger, OpensDatabase, CreatesBuckets
  <2>4. CASE ParsesConfig
    <3>1. phase' \in {"logger", "exited"}
      BY <2>4 DEF ParsesConfig
    <3> QED BY <3>1
  <2>5. CASE ShutdownEnds \/ ClosesDatabase \/ Ends \/ Restarts
    BY <2>5 DEF ShutdownEnds, ClosesDatabase, Ends, Restarts
  <2>6. CASE \/ OtherProcess \/ MinutePasses \/ UNCHANGED vars
             \/ \E c \in Conns : Arrives(c) \/ Answers(c)
    BY <2>6 DEF OtherProcess, MinutePasses, Arrives, Answers, vars
  <2> QED BY <2>1, <2>2, <2>3, <2>4, <2>5, <2>6 DEF Next, Main
<1>3. EachHasSignalled => StopIsHeard
  BY DEF EachHasSignalled, StopIsHeard
<1> QED BY <1>1, <1>2, <1>3, PTL DEF Spec
-----------------------------------------------------------------------------
\* An answer is the one that the request it belongs to is due.
AnswersAreDue ==
  /\ request \in [Conns -> Requests \cup {None}]
  /\ DOMAIN answer = Conns
  /\ \A c \in Conns :
       answer[c] # None => answer[c].to \in Requests /\ answer[c].with = ServeHTTP(answer[c].to)

LEMMA AnswersDue == Spec => []AnswersAreDue
<1>1. Init => AnswersAreDue
  BY DEF Init, AnswersAreDue
<1>2. ASSUME AnswersAreDue, [Next]_vars PROVE AnswersAreDue'
  <2> USE <1>2 DEF AnswersAreDue, paths, signals, served
  <2>1. ASSUME NEW c \in Conns, Arrives(c) PROVE AnswersAreDue'
    BY <2>1 DEF Arrives
  <2>2. ASSUME NEW c \in Conns, Answers(c) PROVE AnswersAreDue'
    <3> SUFFICES ASSUME NEW d \in Conns
                 PROVE  answer'[d] # None =>
                          /\ answer'[d].to \in Requests
                          /\ answer'[d].with = ServeHTTP(answer'[d].to)
      BY <2>2 DEF Answers
    <3>1. CASE d = c
      BY <2>2, <3>1 DEF Answers
    <3>2. CASE d # c
      BY <2>2, <3>2 DEF Answers
    <3> QED BY <3>1, <3>2
  <2>3. CASE Ends
    BY <2>3 DEF Ends
  <2>4. CASE Restarts
    BY <2>4 DEF Restarts
  <2>5. CASE UNCHANGED served
    BY <2>5
  <2>6. CASE Main /\ ~Ends
    BY <2>5, <2>6 DEF Main, ReadsArgs, ParsesConfig, SetsUpLogger, OpensDatabase,
                     CreatesBuckets, InitsNode, Stops, ShutdownEnds, ClosesDatabase
  <2>7. CASE CreatesConfig \/ OtherProcess \/ Listens \/ UiStarts \/ Quits \/ UiEnds
               \/ MinutePasses \/ UNCHANGED vars
    BY <2>5, <2>7 DEF CreatesConfig, OtherProcess, Listens, UiStarts, Quits, UiEnds,
                     MinutePasses, vars
  <2> QED BY <2>1, <2>2, <2>3, <2>4, <2>6, <2>7 DEF Next
<1> QED BY <1>1, <1>2, PTL DEF Spec

\* Sign leaves an id alone that is there.
LEMMA OwnIdIsSigned ==
  ASSUME NEW id, id.length > 0
  PROVE  Sign(Own(id)) = Own(id)
<1>1. Own(id).length = id.length
  BY DEF Own
<1>2. id.length # 0
  OBVIOUS
<1> QED BY <1>1, <1>2 DEF Sign

\* Behind the two ways to an id, and Sign: an answer has a fresh id, or that of
\* a request that is JSON, and then it is not empty.
LEMMA IdOfAnswer ==
  ASSUME NEW raw, ProcessMsgInOut(raw).id # Fresh
  PROVE  LET body == ReadAll(raw)
             id == ProcessMsgInOut(raw).id
         IN body.json /\ id = Own(body.id) /\ id.length # 0
<1> DEFINE body == ReadAll(raw)
           given == IF Handled(body) THEN GetId(body) ELSE IdOfUnknown(body)
<1>1. ProcessMsgInOut(raw).id = Sign(given)
  BY DEF ProcessMsgInOut
<1>2. Sign(given) = given /\ given.length # 0 /\ given # Fresh
  BY <1>1 DEF Sign
<1>3. given # Empty
  BY <1>2 DEF Empty
<1>4. Handled(body) => body.json
  BY DEF Handled, MsgInStruct, Known
<1>5. body.json /\ given = Own(body.id)
  BY <1>2, <1>3, <1>4 DEF GetId, IdOfUnknown
<1> QED BY <1>1, <1>2, <1>5

\* The longest text whose prefix fits into its five bytes.
LongestText == 4294967295

\* The prefix is read back for every length up to that one, across its changes
\* of form at 253 and 65536.
LEMMA PrefixOfEveryLength ==
  ASSUME NEW n \in Nat, n <= LongestText
  PROVE  ReadsAs(varintBufNum(n), n)
<1>1. n <= 4294967295
  BY SMT DEF LongestText
<1>2. CASE n < 253
  <2>1. varintBufNum(n) = <<n>>
    BY <1>2 DEF varintBufNum
  <2> QED BY <1>1, <1>2, <2>1, SMT DEF ReadsAs
<1>3. CASE n >= 253 /\ n < 65536
  <2>1. varintBufNum(n) = <<253, n % 256, n \div 256>>
    BY <1>1, <1>3, SMT DEF varintBufNum
  <2>2. n = (n % 256) + 256 * (n \div 256)
    BY <1>1, SMT
  <2> QED BY <2>1, <2>2, SMT DEF ReadsAs
<1>4. CASE n >= 65536
  <2>1. varintBufNum(n) =
          <<254, n % 256, (n \div 256) % 256, (n \div 65536) % 256, n \div 16777216>>
    BY <1>1, <1>4, SMT DEF varintBufNum
  <2>2. n = (n % 256) + 256 * (((n \div 256) % 256)
              + 256 * (((n \div 65536) % 256) + 256 * (n \div 16777216)))
    BY <1>1, SMT
  <2> QED BY <2>1, <2>2, SMT DEF ReadsAs
<1> QED BY <1>1, <1>2, <1>3, <1>4, SMT

\* Whatever requests come: as a body has at most 32 KB, the text that is signed
\* never is so long that its prefix could not be written or read.
THEOREM PrefixesReadBack == Spec => []PrefixReadsBack
<1>1. AnswersAreDue => PrefixReadsBack
  <2> SUFFICES ASSUME AnswersAreDue, NEW c \in Conns, answer[c] # None
               PROVE  answer[c].with.signed \in Nat /\ answer[c].with.signed <= LongestText
    BY PrefixOfEveryLength DEF PrefixReadsBack
  <2> DEFINE r == answer[c].to
             body == ReadAll(r.body)
             fits(n) == n \in Nat /\ n <= LongestText
  <2>1. r \in Requests /\ answer[c].with = ServeHTTP(r)
    BY DEF AnswersAreDue
  <2>2. fits(0)
    BY SMT DEF LongestText
  <2>3. fits(ProcessMsgInOut(r.body).signed)
    <3> DEFINE id == ProcessMsgInOut(r.body).id
    <3>1. ProcessMsgInOut(r.body).signed = id.length + 19
      BY DEF ProcessMsgInOut, Digits
    <3>2. CASE id = Fresh
      <4>1. id.length = 32
        BY <3>2 DEF Fresh
      <4> HIDE DEF id
      <4> QED BY <3>1, <4>1, SMT DEF LongestText
    <3>3. CASE id # Fresh
      <4>1. body.json /\ id = Own(body.id)
        BY <3>3, IdOfAnswer
      <4>2. ~r.body.long /\ body.id = r.body.id
        BY <4>1 DEF ReadAll
      <4>3. id.length = r.body.id.length
        BY <4>1, <4>2 DEF Own
      <4>4. r.body.id.length \in Nat /\ r.body.id.length <= MaxBody
        BY <2>1, <4>2, ProcessAssumption
      <4> HIDE DEF id
      <4> QED BY <3>1, <4>3, <4>4, SMT DEF LongestText, MaxBody
    <3> QED BY <3>2, <3>3
  <2> QED BY <2>1, <2>2, <2>3 DEF ServeHTTP, RootHandler, Plain
<1> QED BY <1>1, AnswersDue, PTL

\* Whatever requests come, and on how many connections at once: an answer has
\* the id of its request, however it was handled, and some id in any case.
THEOREM AnswersKeepIds == Spec => []ResponseIdIsRequestId
<1>1. AnswersAreDue => ResponseIdIsRequestId
  <2> SUFFICES ASSUME AnswersAreDue, NEW c \in Conns, answer[c] # None,
                      answer[c].to.path = "/", answer[c].to.method = "POST"
               PROVE  LET body == answer[c].to.body
                          id == answer[c].with.id
                      IN /\ body.json /\ ~body.long /\ body.id.string /\ body.id.length > 0
                              => id = Own(body.id)
                         /\ id.length > 0
    BY DEF ResponseIdIsRequestId
  <2> DEFINE raw == answer[c].to.body
             body == ReadAll(raw)
             id == ProcessMsgInOut(raw).id
  <2>1. answer[c].with.id = id
    BY DEF AnswersAreDue, ServeHTTP, RootHandler
  <2>2. ASSUME raw.json, ~raw.long, raw.id.string, raw.id.length > 0
        PROVE  id = Own(raw.id)
    <3>1. body.json /\ body.id = raw.id
      BY <2>2 DEF ReadAll
    <3>2. CASE Handled(body)
      BY <2>2, <3>1, <3>2, OwnIdIsSigned DEF ProcessMsgInOut, GetId
    <3>3. CASE ~Handled(body)
      BY <2>2, <3>1, <3>3, OwnIdIsSigned DEF ProcessMsgInOut, IdOfUnknown
    <3> QED BY <3>2, <3>3
  <2>3. id.length > 0
    <3>1. raw.id.length \in Nat
      BY ProcessAssumption DEF AnswersAreDue
    <3>2. CASE id = Fresh
      BY <3>2 DEF Fresh
    <3>3. CASE id # Fresh
      <4>1. id = Own(body.id) /\ id.length # 0
        BY <3>3, IdOfAnswer
      <4>2. id.length = raw.id.length
        BY <4>1 DEF Own, ReadAll
      <4> HIDE DEF id
      <4> QED BY <3>1, <4>1, <4>2
    <3> QED BY <3>2, <3>3
  <2> QED BY <2>1, <2>2, <2>3
<1> QED BY <1>1, AnswersDue, PTL
-----------------------------------------------------------------------------
\* What stands at the paths after Parse: the directories that were missing are
\* made, each when the checks before it have passed.
LEMMA ParseDisk ==
  ASSUME NEW c, NEW d, NEW made
  PROVE  LET checks == Checks(c, d, made)
             parsed == Parse(c, d, made)
         IN /\ Len(checks) = 11
            /\ parsed.ok <=> Pass(checks, 11)
            /\ parsed.disk.data = d.data
            /\ parsed.disk.shards = IF Pass(checks, 7) /\ d.shards = "absent" THEN "dir" ELSE d.shards
            /\ parsed.disk.log = IF Pass(checks, 8) /\ d.log = "absent" THEN "dir" ELSE d.log
            /\ parsed.disk = [data |-> d.data, shards |-> parsed.disk.shards, log |-> parsed.disk.log]
<1> DEFINE checks == Checks(c, d, made)
<1>1. Len(checks) = 11
  BY DEF Checks
<1> HIDE DEF checks
<1> QED BY <1>1 DEF Parse, Outcome, checks

\* What the checks before a directory have seen when they have passed.
LEMMA ParsePasses ==
  ASSUME NEW c, NEW d, NEW made
  PROVE  LET checks == Checks(c, d, made)
         IN /\ Pass(checks, 7) => d.data = "dir" /\ (d.shards # "absent" \/ "shards" \in made)
            /\ Pass(checks, 8) => d.log # "absent" \/ "log" \in made
            /\ Pass(checks, 11) => Pass(checks, 7)
<1> DEFINE checks == Checks(c, d, made)
<1>1. Len(checks) = 11
  BY DEF Checks
<1>2. /\ checks[6].ok => d.data = "dir"
      /\ checks[7].ok => d.shards # "absent" \/ "shards" \in made
      /\ checks[8].ok => d.log # "absent" \/ "log" \in made
  BY DEF Checks
<1> HIDE DEF checks
<1>3. Pass(checks, 7) => checks[6].ok /\ checks[7].ok
  BY DEF Pass
<1>4. Pass(checks, 8) => checks[8].ok
  BY DEF Pass
<1>5. Pass(checks, 11) => Pass(checks, 7)
  BY <1>1 DEF Pass
<1> QED BY <1>2, <1>3, <1>4, <1>5 DEF checks

\* What Parse leaves is a disk, and has something called "shards" if the
\* configuration was accepted.
LEMMA ParseAccepts ==
  ASSUME NEW c, NEW d \in Disk, NEW made
  PROVE  /\ Parse(c, d, made).disk \in Disk
         /\ Parse(c, d, made).ok => Parse(c, d, made).disk.shards # "absent"
<1> DEFINE after == Parse(c, d, made).disk
           checks == Checks(c, d, made)
<1>1. /\ after.data = d.data
      /\ after.shards = IF Pass(checks, 7) /\ d.shards = "absent" THEN "dir" ELSE d.shards
      /\ after.log = IF Pass(checks, 8) /\ d.log = "absent" THEN "dir" ELSE d.log
      /\ after = [data |-> d.data, shards |-> after.shards, log |-> after.log]
  BY ParseDisk
<1>2. Pass(checks, 7) => d.data = "dir"
  BY ParsePasses
<1>3. Parse(c, d, made).ok => Pass(checks, 7)
  BY ParseDisk, ParsePasses
<1>4. /\ d.data \in {"absent", "file", "dir", "unreadable"}
      /\ d.shards \in {"absent", "file", "dir"} /\ d.log \in {"absent", "file", "dir"}
      /\ d.data # "dir" => d.shards = "absent"
  BY DEF Disk
<1> HIDE DEF after, checks
<1>5. after \in Disk
  BY <1>1, <1>2, <1>4 DEF Disk
<1>6. Pass(checks, 7) => after.shards # "absent"
  BY <1>1
<1> QED BY <1>3, <1>5, <1>6 DEF after

\* The second time the checks find what they found the first time, since each
\* directory that was made could be made.
LEMMA ParseTwice ==
  ASSUME NEW c, NEW d \in Disk, NEW made
  PROVE  Parse(c, Parse(c, d, made).disk, made) = Parse(c, d, made)
<1> DEFINE after == Parse(c, d, made).disk
           again == Parse(c, after, made)
<1> DEFINE checks == Checks(c, d, made)
<1>1. /\ after.data = d.data
      /\ after.shards = IF Pass(checks, 7) /\ d.shards = "absent" THEN "dir" ELSE d.shards
      /\ after.log = IF Pass(checks, 8) /\ d.log = "absent" THEN "dir" ELSE d.log
      /\ after = [data |-> d.data, shards |-> after.shards, log |-> after.log]
  BY ParseDisk
<1>2. /\ Pass(checks, 7) => d.shards # "absent" \/ "shards" \in made
      /\ Pass(checks, 8) => d.log # "absent" \/ "log" \in made
  BY ParsePasses
<1>3. /\ after.data = d.data
      /\ (after.shards # "absent" \/ "shards" \in made) <=> (d.shards # "absent" \/ "shards" \in made)
      /\ (after.log # "absent" \/ "log" \in made) <=> (d.log # "absent" \/ "log" \in made)
  <2> HIDE DEF after, checks
  <2> QED BY <1>1, <1>2
<1>4. Checks(c, after, made) = Checks(c, d, made)
  BY <1>3 DEF Checks
<1>5. again.disk = after
  <2>1. /\ again.disk = [data |-> after.data, shards |-> again.disk.shards, log |-> again.disk.log]
        /\ again.disk.shards = IF Pass(checks, 7) /\ after.shards = "absent" THEN "dir" ELSE after.shards
        /\ again.disk.log = IF Pass(checks, 8) /\ after.log = "absent" THEN "dir" ELSE after.log
    BY <1>4, ParseDisk
  <2> HIDE DEF after, again, checks
  <2> QED BY <2>1, <1>1
<1>6. Parse(c, d, made) = [ok |-> Parse(c, d, made).ok, error |-> Parse(c, d, made).error,
                           disk |-> after]
  BY DEF Parse, Outcome
<1>7. again = [ok |-> Parse(c, d, made).ok, error |-> Parse(c, d, made).error, disk |-> again.disk]
  BY <1>4 DEF Parse, Outcome
<1> QED BY <1>5, <1>6, <1>7
\* What main has checked before it goes on, and that nobody takes away.
ServedOnAll ==
  /\ phase \in {"logger", "database", "buckets", "node", "running"} => disk.shards # "absent"
  /\ phase \in {"database", "buckets", "node", "running"} => disk.log = "dir"
  /\ phase = "running" => file.private_key = "good"
  /\ db = "open" => ~locked

StartInv == TypeOK /\ ServedInOrder /\ ServedOnAll

LEMMA StartInvInit == Init => TypeOK /\ ServedOnAll
<1> SUFFICES ASSUME Init PROVE TypeOK /\ ServedOnAll
  OBVIOUS
<1>1. <<loopStop, stopServer, stopUi, minute>> \in BOOLEAN \X BOOLEAN \X BOOLEAN \X BOOLEAN
  BY Zenon DEF Init
<1>2. locked \in BOOLEAN
  BY DEF Init
<1>3. file \in Files \cup NewConfigs \cup {None} /\ disk \in Disk
  BY DEF Init
<1> QED BY <1>1, <1>2, <1>3 DEF Init, TypeOK, ServedOnAll

\* The stages of main before it serves.
LEMMA StartInvStart ==
  ASSUME StartInv,
         \/ ReadsArgs \/ CreatesConfig \/ ParsesConfig \/ SetsUpLogger
         \/ OpensDatabase \/ CreatesBuckets \/ InitsNode
  PROVE  TypeOK' /\ ServedOnAll'
<1> USE DEF StartInv, TypeOK, ServedOnAll, Goto, Exits, paths, signals, served
<1>1. CASE ReadsArgs
  BY <1>1 DEF ReadsArgs
<1>2. CASE CreatesConfig
  <2>1. file' \in Files \cup NewConfigs \cup {None}
    BY <1>2 DEF CreatesConfig
  <2>2. phase' = "exited" /\ code' = 0
        /\ UNCHANGED <<disk, locked, db, server, ui, signals, minute, served>>
    BY <1>2 DEF CreatesConfig
  <2> QED BY <2>1, <2>2
<1>3. CASE ParsesConfig
  <2> PICK made \in SUBSET {"shards", "log"} :
        LET parsed == Parse(file, disk, made)
        IN /\ disk' = parsed.disk
           /\ IF parsed.ok THEN Goto("logger") ELSE Exits(2)
    BY <1>3 DEF ParsesConfig
  <2>1. disk' \in Disk /\ (Parse(file, disk, made).ok => disk'.shards # "absent")
    BY ParseAccepts
  <2>2. \/ phase' = "logger" /\ code' = code /\ disk'.shards # "absent"
        \/ phase' = "exited" /\ code' = 2
    BY <2>1
  <2>3. UNCHANGED <<file, locked, db, server, ui, signals, minute, served>>
    BY <1>3 DEF ParsesConfig
  <2> QED BY <2>1, <2>2, <2>3
<1>4. CASE SetsUpLogger
  BY <1>4 DEF SetsUpLogger
<1>5. CASE OpensDatabase
  BY <1>5 DEF OpensDatabase
<1>6. CASE CreatesBuckets
  BY <1>6 DEF CreatesBuckets
<1>7. CASE InitsNode
  BY <1>7 DEF InitsNode
<1> QED BY <1>1, <1>2, <1>3, <1>4, <1>5, <1>6, <1>7

\* The goroutines, the handlers, and main from the signal on: nobody touches
\* what the start has found, but for another process that may take the lock of
\* a database that is closed.
LEMMA StartInvRest ==
  ASSUME StartInv,
         \/ Stops \/ MinutePasses \/ ShutdownEnds \/ ClosesDatabase \/ Ends \/ Restarts
         \/ Listens \/ UiStarts \/ Quits \/ UiEnds \/ OtherProcess
         \/ \E c \in Conns : Arrives(c) \/ Answers(c)
         \/ UNCHANGED vars
  PROVE  TypeOK' /\ ServedOnAll'
<1> USE DEF StartInv, TypeOK, ServedOnAll, Goto, Exits, paths, signals, served
<1>1. CASE Stops
  BY <1>1 DEF Stops
<1>2. CASE MinutePasses
  BY <1>2 DEF MinutePasses
<1>3. CASE ShutdownEnds
  BY <1>3 DEF ShutdownEnds
<1>4. CASE ClosesDatabase
  BY <1>4 DEF ClosesDatabase
<1>5. CASE Ends
  BY <1>5 DEF Ends
<1>6. CASE Restarts
  BY <1>6 DEF Restarts
<1>7. CASE Listens
  <2>1. stopServer' \in BOOLEAN
    BY <1>7, Zenon DEF Listens
  <2>2. server' \in {"listening", "stopped"}
        /\ UNCHANGED <<phase, code, paths, db, ui, loopStop, stopUi, minute, served>>
    BY <1>7 DEF Listens
  <2> QED BY <2>1, <2>2
<1>8. CASE UiStarts \/ Quits \/ UiEnds
  <2>1. stopUi' \in BOOLEAN /\ loopStop' \in BOOLEAN
    BY <1>8, Zenon DEF UiStarts, Quits, UiEnds
  <2>2. ui' \in {"looping", "stopped"}
        /\ UNCHANGED <<phase, code, paths, db, server, stopServer, minute, served>>
    BY <1>8 DEF UiStarts, Quits, UiEnds
  <2> QED BY <2>1, <2>2
<1>9. CASE OtherProcess
  BY <1>9 DEF OtherProcess
<1>10. ASSUME NEW c \in Conns, Arrives(c) PROVE TypeOK' /\ ServedOnAll'
  BY <1>10 DEF Arrives
<1>11. ASSUME NEW c \in Conns, Answers(c) PROVE TypeOK' /\ ServedOnAll'
  BY <1>11 DEF Answers
<1>12. CASE UNCHANGED vars
  BY <1>12 DEF vars
<1> QED BY <1>1, <1>2, <1>3, <1>4, <1>5, <1>6, <1>7, <1>8, <1>9, <1>10, <1>11, <1>12

LEMMA StartInvariance == Spec => []StartInv
<1>1. Init => StartInv
  BY ServedInit, StartInvInit DEF StartInv
<1>2. StartInv /\ [Next]_vars => StartInv'
  BY StartStep, EndStep, GoroutineStep, StartInvStart, StartInvRest DEF StartInv, Next, Main
<1> QED BY <1>1, <1>2, PTL DEF Spec

\* Every variable keeps its type; in particular no failure of the start leads to
\* another exit code than 0 or 2.
THEOREM ProcessTypeCorrect == Spec => []TypeOK
<1>1. StartInv => TypeOK
  BY DEF StartInv
<1> QED BY <1>1, StartInvariance, PTL

\* From whatever configuration and disk the process was started, and however
\* often: its handlers find what they take for granted.
THEOREM StartIsComplete == Spec => []HandlersFindAll
<1>1. StartInv => HandlersFindAll
  BY DEF StartInv, ServedInOrder, ServedOnAll, HandlersFindAll
<1> QED BY <1>1, StartInvariance, PTL

\* However long the seed list: what a refused start has left on the disk does
\* not make a second one fare otherwise.
THEOREM StartsRepeat == Spec => []ParseCanBeRepeated
<1>1. StartInv => ParseCanBeRepeated
  BY ParseTwice DEF StartInv, TypeOK, ParseCanBeRepeated
<1> QED BY <1>1, StartInvariance, PTL
=============================================================================
