----------------------------- MODULE Membership -----------------------------
(***************************************************************************)
(* How a farmer joins the network and stays in it (HeartBeat, doJoinNetwork *)
(* and _map, farmer.go): it sends a PROBE to one seed after the other until *)
(* one answers, falls back to port forwarding once, and repeats the round  *)
(* for ever.  A seed runs the same program: before it answers a PROBE it   *)
(* pings the sender back (onProbe), under a timeout of its own.            *)
(*                                                                         *)
(* Seconds pass in Tick, five minutes at a time in MapTick; the two scales *)
(* are not related.                                                        *)
(***************************************************************************)
EXTENDS Naturals, Sequences

CONSTANTS
  Seeds,     \* the seed list of the configuration
  Transit    \* seconds a message takes to an address that is up, at most

SeedSet == {Seeds[i] : i \in 1..Len(Seeds)}

ASSUME MembershipAssumption ==
  /\ Seeds \in Seq(SeedSet)
  /\ Transit \in {0, 1}

VARIABLES
  pc,              \* where HeartBeat is
  round,           \* which call of doJoinNetwork it makes
  next,            \* position of the seed in turn
  probe,           \* what has become of the PROBE that is out
  age,             \* seconds since it was sent
  hop,             \* seconds its message, or the seed's PING, has been out
  verdict,         \* what the seed answers: could it ping the farmer?
  isDisconnected,
  up,              \* seeds that are up, and whose messages get through
  steady,          \* history: those that have been up since the round began
  address,         \* the address in the farmer's contact
  mapper,          \* the goroutine that maps a port
  lifetime,        \* what is left of the mapping, in units of 5 minutes
  refreshIn,       \* what is left of the refresh timer
  missed,          \* refreshes that have failed in a row, counted to MaxMissed
  logged,          \* "join network success" is in the log
  vouched          \* a seed has answered a PROBE with success

exchange  == <<probe, age, hop, verdict>>
mapping   == <<mapper, lifetime, refreshIn, missed>>
heartbeat == <<pc, round, next, isDisconnected, logged>>
peers     == <<up, steady>>
vars == <<heartbeat, exchange, mapping, peers, address, vouched>>

PingTimeoutTooLong == 8    \* Mistake: the seed's PING waits as long as a PROBE.
RefreshTooLate     == 5    \* Mistake: the timer outlives the mapping.

ProbeTimeout      == 8
PingTimeout       == 4
MapUpdateInterval == 3
MapTimeout        == 4

MaxMissed == 2    \* bound of missed: nothing tells more of them apart

\* No PROBE is out any more.
ProbeOver == probe' = "none" /\ age' = 0 /\ hop' = 0 /\ verdict' = "none"

Init ==
  /\ pc = "joining" /\ round = "first" /\ next = 1
  /\ probe = "none" /\ age = 0 /\ hop = 0 /\ verdict = "none"
  /\ isDisconnected = FALSE
  /\ up \in SUBSET SeedSet /\ steady = up
  /\ address = "configured"
  /\ mapper = "none" /\ lifetime = 0 /\ refreshIn = 0 /\ missed = 0
  /\ logged = FALSE /\ vouched = FALSE
-----------------------------------------------------------------------------
(* The PROBE and the PING inside it. *)

SendsProbe ==
  /\ pc = "joining" /\ next <= Len(Seeds)
  /\ pc' = "probing"
  /\ probe' = "asking" /\ age' = 0 /\ hop' = 0 /\ verdict' = "none"
  /\ UNCHANGED <<round, next, isDisconnected, logged, mapping, peers, address, vouched>>

\* onProbe starts a PING to the contact in the PROBE and waits for its end.
SeedPings ==
  /\ probe = "asking" /\ Seeds[next] \in up
  /\ probe' = "pinging" /\ hop' = 0
  /\ UNCHANGED <<heartbeat, age, verdict, mapping, peers, address, vouched>>

\* Nobody reaches a farmer without an address, or behind a lapsed mapping.
Pingable == address # "nil" /\ (address = "external" => lifetime > 0)

\* Any answer to the PING will do; a PING can also be refused, or time out.
SeedAnswers ==
  /\ probe = "pinging"
  /\ probe' = "answering" /\ hop' = 0
  /\ \/ Pingable /\ verdict' = "success"
     \/ verdict' = "error"
  /\ UNCHANGED <<heartbeat, age, mapping, peers, address, vouched>>

\* What is on its way to, at, or from a seed that is not up may get lost.
MessageLost ==
  /\ probe \in {"asking", "pinging", "answering"} /\ Seeds[next] \notin up
  /\ probe' = "lost"
  /\ UNCHANGED <<heartbeat, age, hop, verdict, mapping, peers, address, vouched>>

\* Mistake: the client waits without a timeout.
TickForever ==
  /\ pc = "probing"
  /\ probe \in {"asking", "answering"} => hop < Transit
  /\ probe = "pinging" => hop < PingTimeout
  /\ age' = age + 1
  /\ hop' = IF probe = "lost" THEN hop ELSE hop + 1
  /\ UNCHANGED <<heartbeat, probe, verdict, mapping, peers, address, vouched>>

\* A second passes.  A timeout is not overstepped, nor Transit.
Tick ==
  /\ pc = "probing" /\ age < ProbeTimeout
  /\ probe \in {"asking", "answering"} => hop < Transit
  /\ probe = "pinging" => hop < PingTimeout
  /\ age' = age + 1
  /\ hop' = IF probe = "lost" THEN hop ELSE hop + 1
  /\ UNCHANGED <<heartbeat, probe, verdict, mapping, peers, address, vouched>>
-----------------------------------------------------------------------------
(* HeartBeat *)

\* What HeartBeat does with the result of doJoinNetwork: the first failure
\* leads to port forwarding; after that, success is logged in any case.
JoinEnds(joinSucc) ==
  /\ IF round = "first" /\ ~ joinSucc
       THEN pc' = "forwarding" /\ UNCHANGED <<round, logged, isDisconnected>>
       ELSE /\ pc' = "sleeping"
            /\ round' = "periodic"
            /\ logged' = TRUE
            /\ isDisconnected' = (round = "periodic" /\ ~ joinSucc)
  /\ UNCHANGED next

\* Every answer counts: the callback of probe looks at nothing in it.
AnswerArrives ==
  /\ probe = "answering"
  /\ ProbeOver
  /\ JoinEnds(TRUE)
  /\ vouched' = (vouched \/ verdict = "success")
  /\ UNCHANGED <<mapping, peers, address>>

ProbeFailed ==
  \/ probe = "asking" /\ Seeds[next] \notin up
  \/ pc = "probing" /\ age = ProbeTimeout

\* Mistake: the round ends with the first seed that does not answer.
ProbeFailureEndsRound ==
  /\ ProbeFailed
  /\ ProbeOver
  /\ JoinEnds(FALSE)
  /\ UNCHANGED <<mapping, peers, address, vouched>>

\* The connection is refused, or the client's timeout fires: the next seed.
ProbeFails ==
  /\ ProbeFailed
  /\ ProbeOver
  /\ pc' = "joining" /\ next' = next + 1
  /\ UNCHANGED <<round, isDisconnected, logged, mapping, peers, address, vouched>>

\* All seeds have been tried.
JoinFails ==
  /\ pc = "joining" /\ next > Len(Seeds)
  /\ JoinEnds(FALSE)
  /\ UNCHANGED <<exchange, mapping, peers, address, vouched>>

\* Without a router that tells the external IP it is nil, and its String
\* becomes the farmer's address.  The second round starts beside _map.
PortForwards ==
  /\ pc = "forwarding"
  /\ address' \in {"external", "nil"}
  /\ mapper' = "started"
  /\ pc' = "joining" /\ round' = "mapped" /\ next' = 1
  /\ steady' = up
  /\ UNCHANGED <<isDisconnected, logged, exchange, lifetime, refreshIn,
                 missed, up, vouched>>

\* Mistake: a round goes on in the list where the last one ended.
WakesInPlace ==
  /\ pc = "sleeping"
  /\ pc' = "joining"
  /\ steady' = up
  /\ UNCHANGED <<round, next, isDisconnected, logged, exchange, mapping, up, address, vouched>>

\* time.Sleep of 10 seconds is over.
Wakes ==
  /\ pc = "sleeping"
  /\ pc' = "joining" /\ next' = 1
  /\ steady' = up
  /\ UNCHANGED <<round, isDisconnected, logged, exchange, mapping, up, address, vouched>>
-----------------------------------------------------------------------------
(* _map *)

\* If the first AddMapping fails the goroutine returns, for good.
MapperAdds ==
  /\ mapper = "started"
  /\ \/ /\ mapper' = "running" /\ UNCHANGED missed
        /\ lifetime' = MapTimeout /\ refreshIn' = MapUpdateInterval
     \/ mapper' = "ended" /\ UNCHANGED <<lifetime, refreshIn, missed>>
  /\ UNCHANGED <<heartbeat, exchange, peers, address, vouched>>

\* A refresh that fails is only logged; the timer starts again.
MapperRefreshes ==
  /\ mapper = "running" /\ refreshIn = 0
  /\ refreshIn' = MapUpdateInterval
  /\ \/ lifetime' = MapTimeout /\ missed' = 0
     \/ missed' = (IF missed < MaxMissed THEN missed + 1 ELSE missed) /\ UNCHANGED lifetime
  /\ UNCHANGED <<heartbeat, exchange, mapper, peers, address, vouched>>

MapTick ==
  /\ mapper = "running" /\ refreshIn > 0
  /\ refreshIn' = refreshIn - 1
  /\ lifetime' = IF lifetime = 0 THEN 0 ELSE lifetime - 1
  /\ UNCHANGED <<heartbeat, exchange, mapper, missed, peers, address, vouched>>
-----------------------------------------------------------------------------
\* Seeds come and go.
Outage ==
  /\ up' \in SUBSET SeedSet \ {up}
  /\ steady' = steady \cap up'
  /\ UNCHANGED <<heartbeat, exchange, mapping, address, vouched>>

HeartBeatStep ==
  \/ SendsProbe
  \/ AnswerArrives
  \/ ProbeFails
  \/ JoinFails
  \/ PortForwards
  \/ Wakes

SeedStep == SeedPings \/ SeedAnswers
MapperStep == MapperAdds \/ MapperRefreshes \/ MapTick

Next == HeartBeatStep \/ SeedStep \/ Tick \/ MessageLost \/ MapperStep \/ Outage

\* HeartBeat and the handler of a seed that is up are scheduled, or else time
\* passes: the three take turns at one exchange, so one condition covers them,
\* also while a seed goes up and down.  Nothing is assumed of the network, the
\* router or the seeds.
Fairness == WF_vars(HeartBeatStep \/ SeedStep \/ Tick)

Spec == Init /\ [][Next]_vars
FairSpec == Spec /\ Fairness
-----------------------------------------------------------------------------
(* What joining must be. *)

\* Every variable has its type; no request is older than its timeout.
TypeOK ==
  /\ pc \in {"joining", "probing", "forwarding", "sleeping"}
  /\ round \in {"first", "mapped", "periodic"}
  /\ next \in 1..(Len(Seeds) + 1)
  /\ probe \in {"none", "asking", "pinging", "answering", "lost"}
  /\ pc = "probing" <=> probe # "none"
  /\ pc = "probing" => next <= Len(Seeds)
  /\ age \in 0..ProbeTimeout
  /\ hop \in 0..ProbeTimeout
  /\ verdict \in {"none", "success", "error"}
  /\ isDisconnected \in BOOLEAN
  /\ up \subseteq SeedSet /\ steady \subseteq SeedSet
  /\ address \in {"configured", "external", "nil"}
  /\ mapper \in {"none", "started", "running", "ended"}
  /\ lifetime \in 0..MapTimeout
  /\ refreshIn \in 0..MapUpdateInterval
  /\ missed \in 0..MaxMissed /\ logged \in BOOLEAN /\ vouched \in BOOLEAN

\* A PROBE only runs into its timeout when a message is lost: the PING that
\* the seed makes before it answers gives up early enough, even if it waits
\* in vain (onProbe, farmer.go:430-435; the timeouts at 293 and 317).
AnswerBeatsTimeout == age = ProbeTimeout => probe = "lost"

\* A mapping whose last refresh succeeded has not lapsed, and one failed refresh
\* costs less than an interval: the mapping outlives the timer, and if it then
\* lapses, the next refresh is already closer than that (_map, farmer.go:249-273).
MappingHolds ==
  mapper = "running" =>
    /\ missed = 0 => lifetime > 0
    /\ missed = 1 => lifetime > 0 \/ refreshIn < MapUpdateInterval

\* The farmer takes itself for cut off, and falls back to port forwarding, only
\* when no seed at all was up from the beginning to the end of the round: a
\* single one that was is found behind any others that refuse, keep silent or
\* go down while they are asked (farmer.go:228-245).
FailureHasCause ==
  [][pc' # pc /\ (pc' = "forwarding" \/ (pc' = "sleeping" /\ isDisconnected'))
       => steady = {}]_vars

\* A farmer that has lost the network finds it again: as soon as one seed, at
\* any place in the list, is up for good, the farmer ends up connected in the
\* sense of doJoinNetwork, whatever the other seeds do (farmer.go:216-245).
Reconnects ==
  \A s \in SeedSet : <>[](s \in up) => <>[](~ isDisconnected)

\* "join network success" (HeartBeat, farmer.go:214): when this is logged a
\* seed has answered that it reaches the farmer.
SuccessIsTrue == logged => vouched
=============================================================================
