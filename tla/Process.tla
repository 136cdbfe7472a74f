------------------------------- MODULE Process -------------------------------
(***************************************************************************)
(* One farmer process from its command line to its exit (main.go, cmd.go): *)
(* the stages of main, the goroutines of the HTTP server and the terminal, *)
(* the channels they stop main with, and the handlers of requests that are *)
(* at work meanwhile.  What the stages find depends on the configuration   *)
(* file and the disk (Config), what the handlers answer on the requests    *)
(* (Envelope).  A process that has ended may be started again on the disk  *)
(* it left.                                                                *)
(***************************************************************************)
EXTENDS Config, Envelope

CONSTANTS
  Conns,      \* connections; one request at a time on each
  Requests,   \* requests that may come
  Files       \* configuration files there may be

ASSUME ProcessAssumption ==
  /\ Files \subseteq Config
  /\ None \notin Requests
  /\ \A r \in Requests :
       /\ r.body.id.length \in Nat
       /\ r.body.long \in BOOLEAN /\ (~r.body.long => r.body.id.length <= MaxBody)

VARIABLES
  phase,      \* stage of main
  code,       \* exit code, None before
  file,       \* the configuration file, or None if there is none to read
  disk,       \* what stands at the paths it names
  locked,     \* whether another process has the database open
  db,         \* whether this one has
  server,     \* goroutine of the server: "off", "starting", "listening", "stopped"
  ui,         \* goroutine of the terminal: "off", "starting", "looping", "stopped"
  loopStop,   \* the loop of the terminal is told to stop
  stopServer, \* channels with room for one signal
  stopUi,
  minute,     \* a minute has passed since Shutdown began
  request,    \* connection -> the request being handled, or None
  answer      \* connection -> the last answer and its request, or None

paths == <<file, disk, locked>>
signals == <<loopStop, stopServer, stopUi>>
served == <<request, answer>>
vars == <<phase, code, paths, db, server, ui, signals, minute, served>>

Goto(next) == phase' = next /\ UNCHANGED code
Exits(n) == phase' = "exited" /\ code' = n

Init ==
  /\ phase = "args" /\ code = None
  /\ file \in Files \cup {None}
  /\ disk \in Disk
  /\ locked \in BOOLEAN
  /\ db = "closed" /\ server = "off" /\ ui = "off"
  /\ loopStop = FALSE /\ stopServer = FALSE /\ stopUi = FALSE /\ minute = FALSE
  /\ request = [c \in Conns |-> None]
  /\ answer = [c \in Conns |-> None]
-----------------------------------------------------------------------------
(* Main, up to where it serves *)

\* Anything but "start", "new" and the help on them ends with the help text.
ReadsArgs ==
  /\ phase = "args"
  /\ \/ Exits(2)
     \/ Exits(0)
     \/ IF file = None THEN Exits(2) ELSE Goto("config")
  /\ UNCHANGED <<paths, db, server, ui, signals, minute, served>>

\* "new" writes a file over whatever was there.
CreatesConfig ==
  /\ phase = "args"
  /\ file' \in NewConfigs
  /\ Exits(0)
  /\ UNCHANGED <<disk, locked, db, server, ui, signals, minute, served>>

\* Directories may fail to be made.  A panic ends with the same code.
ParsesConfig ==
  /\ phase = "config"
  /\ \E made \in SUBSET {"shards", "log"} :
       LET parsed == Parse(file, disk, made)
       IN /\ disk' = parsed.disk
          /\ IF parsed.ok THEN Goto("logger") ELSE Exits(2)
  /\ UNCHANGED <<file, locked, db, server, ui, signals, minute, served>>

\* Mistake: a critical message ends the process as an error.
SetsUpLoggerOrDies ==
  /\ phase = "logger"
  /\ \/ disk.log = "dir" /\ Goto("database")
     \/ Exits(1)
  /\ UNCHANGED <<paths, db, server, ui, signals, minute, served>>

\* From here on main returns when something fails, which is exit code 0.
SetsUpLogger ==
  /\ phase = "logger"
  /\ \/ disk.log = "dir" /\ Goto("database")
     \/ Exits(0)
  /\ UNCHANGED <<paths, db, server, ui, signals, minute, served>>

\* bolt.Open waits for the lock of the file without a bound.
OpensDatabase ==
  /\ phase = "database" /\ ~locked
  /\ \/ db' = "open" /\ Goto("buckets")
     \/ UNCHANGED db /\ Exits(0)
  /\ UNCHANGED <<paths, server, ui, signals, minute, served>>

\* The deferred close comes before the exit, from here on.
CreatesBuckets ==
  /\ phase = "buckets"
  /\ Goto("node") \/ Goto("closing")
  /\ UNCHANGED <<paths, db, server, ui, signals, minute, served>>

\* SetKey refuses a key whose public x is shorter than 32 bytes.
InitsNode ==
  /\ phase = "node"
  /\ IF file.private_key = "good"
     THEN Goto("running") /\ server' = "starting" /\ ui' = "starting"
     ELSE Goto("closing") /\ UNCHANGED <<server, ui>>
  /\ UNCHANGED <<paths, db, signals, minute, served>>
-----------------------------------------------------------------------------
(* The goroutines *)

\* Mistake: a server that cannot listen only says so in the log.
ListensOrLogs ==
  /\ server = "starting"
  /\ server' \in {"listening", "stopped"}
  /\ UNCHANGED <<phase, code, paths, db, ui, signals, minute, served>>

\* ListenAndServe: the port may be taken.
Listens ==
  /\ server = "starting"
  /\ \/ server' = "listening" /\ UNCHANGED stopServer
     \/ server' = "stopped" /\ stopServer' = TRUE
  /\ UNCHANGED <<phase, code, paths, db, ui, loopStop, stopUi, minute, served>>

\* UiSetup: there may be no terminal.
UiStarts ==
  /\ ui = "starting" /\ phase # "exited"
  /\ \/ ui' = "looping" /\ UNCHANGED stopUi
     \/ ui' = "stopped" /\ stopUi' = TRUE
  /\ UNCHANGED <<phase, code, paths, db, server, loopStop, stopServer, minute, served>>

\* The user presses q.
Quits ==
  /\ ui = "looping" /\ phase # "exited"
  /\ loopStop' = TRUE
  /\ UNCHANGED <<phase, code, paths, db, server, ui, stopServer, stopUi, minute, served>>

UiEnds ==
  /\ ui = "looping" /\ loopStop /\ phase # "exited"
  /\ ui' = "stopped" /\ stopUi' = TRUE
  /\ UNCHANGED <<phase, code, paths, db, server, loopStop, stopServer, minute, served>>

Arrives(c) ==
  /\ server = "listening" /\ request[c] = None
  /\ \E r \in Requests : request' = [request EXCEPT ![c] = r]
  /\ answer' = [answer EXCEPT ![c] = None]
  /\ UNCHANGED <<phase, code, paths, db, server, ui, signals, minute>>

\* Handlers go on whatever main does, until the process ends.
Answers(c) ==
  /\ request[c] # None /\ phase # "exited"
  /\ answer' = [answer EXCEPT ![c] = [to |-> request[c], with |-> ServeHTTP(request[c])]]
  /\ request' = [request EXCEPT ![c] = None]
  /\ UNCHANGED <<phase, code, paths, db, server, ui, signals, minute>>
-----------------------------------------------------------------------------
(* Main, from the signal to the exit *)

\* The select, and the begin of Shutdown: nothing is accepted any more.
Stops ==
  /\ phase = "running"
  /\ \/ stopServer /\ stopServer' = FALSE /\ loopStop' = TRUE /\ UNCHANGED stopUi
     \/ stopUi /\ stopUi' = FALSE /\ UNCHANGED <<stopServer, loopStop>>
  /\ server' = "stopped"
  /\ Goto("stopping")
  /\ UNCHANGED <<paths, db, ui, minute, served>>

MinutePasses ==
  /\ phase = "stopping" /\ ~minute
  /\ minute' = TRUE
  /\ UNCHANGED <<phase, code, paths, db, server, ui, signals, served>>

\* Mistake: Shutdown is given a context without a deadline.
ShutdownWaits ==
  /\ phase = "stopping"
  /\ \A c \in Conns : request[c] = None
  /\ Goto("closing")
  /\ UNCHANGED <<paths, db, server, ui, signals, minute, served>>

\* Mistake: the server is closed at once.
ShutdownCloses ==
  /\ phase = "stopping"
  /\ Goto("closing")
  /\ UNCHANGED <<paths, db, server, ui, signals, minute, served>>

\* Shutdown returns when no connection is busy, or after the minute.
ShutdownEnds ==
  /\ phase = "stopping"
  /\ minute \/ \A c \in Conns : request[c] = None
  /\ Goto("closing")
  /\ UNCHANGED <<paths, db, server, ui, signals, minute, served>>

ClosesDatabase ==
  /\ phase = "closing"
  /\ db' = "closed"
  /\ Goto("closed")
  /\ UNCHANGED <<paths, server, ui, signals, minute, served>>

\* The process ends with main, whatever is still at work.
Ends ==
  /\ phase = "closed"
  /\ Exits(0)
  /\ request' = [c \in Conns |-> None]
  /\ UNCHANGED <<paths, db, server, ui, signals, minute, answer>>

\* Started again, the file corrected or not.
Restarts ==
  /\ phase = "exited"
  /\ phase' = "args" /\ code' = None
  /\ server' = "off" /\ ui' = "off"
  /\ loopStop' = FALSE /\ stopServer' = FALSE /\ stopUi' = FALSE /\ minute' = FALSE
  /\ answer' = [c \in Conns |-> None]
  /\ UNCHANGED <<paths, db, request>>

OtherProcess ==
  /\ locked' = ~locked /\ (db = "open" => ~locked')
  /\ UNCHANGED <<phase, code, file, disk, db, server, ui, signals, minute, served>>
-----------------------------------------------------------------------------
Main ==
  \/ ReadsArgs \/ ParsesConfig \/ SetsUpLogger \/ OpensDatabase \/ CreatesBuckets \/ InitsNode
  \/ Stops \/ ShutdownEnds \/ ClosesDatabase \/ Ends

Next ==
  \/ Main \/ CreatesConfig \/ Restarts \/ OtherProcess
  \/ Listens \/ UiStarts \/ Quits \/ UiEnds
  \/ \E c \in Conns : Arrives(c) \/ Answers(c)
  \/ MinutePasses

\* Goroutines are scheduled and time passes.  Nothing is assumed of handlers:
\* a CONSIGN may wait for ever at its channel.
Fairness ==
  /\ WF_vars(Main) /\ WF_vars(MinutePasses)
  /\ WF_vars(Listens) /\ WF_vars(UiStarts) /\ WF_vars(UiEnds)

Spec == Init /\ [][Next]_vars
FairSpec == Spec /\ Fairness
-----------------------------------------------------------------------------
(* What must hold of a process. *)

\* Every variable has its type.
TypeOK ==
  /\ phase \in {"args", "config", "logger", "database", "buckets", "node", "running",
                "stopping", "closing", "closed", "exited"}
  /\ code \in {None, 0, 2}
  /\ file \in Files \cup NewConfigs \cup {None} /\ disk \in Disk
  /\ locked \in BOOLEAN /\ db \in {"open", "closed"}
  /\ server \in {"off", "starting", "listening", "stopped"}
  /\ ui \in {"off", "starting", "looping", "stopped"}
  /\ <<loopStop, stopServer, stopUi, minute>> \in BOOLEAN \X BOOLEAN \X BOOLEAN \X BOOLEAN
  /\ request \in [Conns -> Requests \cup {None}]
  /\ DOMAIN answer = Conns
  /\ \A c \in Conns : answer[c] # None => answer[c].to \in Requests

AtWork == {c \in Conns : request[c] # None}

\* When a start was refused, by a wrong field or a directory that could not be
\* made, what it left behind does not make the next one fare otherwise
\* (config/config.go:74-80 and 87-91).
ParseCanBeRepeated ==
  phase = "config" =>
    \A made \in SUBSET {"shards", "log"} :
      LET first == Parse(file, disk, made)
      IN Parse(file, first.disk, made) = first

\* Handlers find what they take for granted: the database, something at the
\* shards directory, a log and a key (main.go:25-65, config/config.go:73).
HandlersFindAll ==
  AtWork # {} /\ phase = "running" =>
    /\ db = "open" /\ ~locked
    /\ disk.shards # "absent" /\ disk.log = "dir"
    /\ file.private_key = "good"

\* "shutdown server gracefully" (main.go:109): the database is closed under a
\* handler only when it has had a minute.
ShutdownIsGraceful == AtWork # {} /\ db = "closed" => minute

\* While main waits, both goroutines are at work, or there is a signal that
\* wakes it: a server or a terminal that has gone leaves no process behind that
\* does nothing and does not end (main.go:82, 93, 103).
StopIsHeard ==
  phase = "running" /\ "stopped" \in {server, ui} => stopServer \/ stopUi

\* Once q was pressed, or the server or the terminal failed, the process ends,
\* though a CONSIGN may wait for ever (main.go:102-113).
StopEnds == loopStop \/ stopServer \/ stopUi ~> phase = "exited"

\* "response id should be same as request id" (farmer.go:188): whichever of the
\* ways to an id an answer took - the message that was parsed, the map of one that
\* is not handled, Sign - it is the id of its own request, if that fits and has
\* one, and it is never empty.
ResponseIdIsRequestId ==
  \A c \in Conns :
    answer[c] # None =>
      LET r == answer[c].to
          id == answer[c].with.id
      IN r.path = "/" /\ r.method = "POST" =>
           /\ r.body.json /\ ~r.body.long /\ r.body.id.string /\ r.body.id.length > 0
                => id = Own(r.body.id)
           /\ id.length > 0

\* The verifier of an answer reads from the prefix how long the signed text is
\* (utils.go:86-104).
PrefixReadsBack ==
  \A c \in Conns :
    answer[c] # None =>
      LET n == answer[c].with.signed IN ReadsAs(varintBufNum(n), n)
=============================================================================
