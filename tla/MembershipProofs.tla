-------------------------- MODULE MembershipProofs --------------------------
(***************************************************************************)
(* The types, the timeouts of PROBE and PING, and of a port mapping, and   *)
(* what a round that fails says of the seeds, for any list of them.        *)
(***************************************************************************)
EXTENDS Membership, TLAPS

\* How old a PROBE can be at each stage, unless a message of it is lost.
ProbeAges ==
  /\ age \in Nat /\ hop \in Nat
  /\ pc = "probing" <=> probe # "none"
  /\ probe = "none" => age = 0
  /\ probe = "asking" => age = hop /\ hop <= Transit
  /\ probe = "pinging" => hop <= PingTimeout /\ age <= Transit + hop
  /\ probe = "answering" =>
       hop <= Transit /\ age <= Transit + PingTimeout + hop
  /\ probe \in {"none", "asking", "pinging", "answering", "lost"}

\* A mapping that was refreshed outlives the timer, and one that missed one
\* refresh has lapsed, if it has, for less than an interval.
MappingOutlivesTimer ==
  /\ lifetime \in Nat /\ refreshIn \in Nat /\ missed \in Nat
  /\ mapper = "running" /\ missed = 0 => lifetime > refreshIn
  /\ mapper = "running" /\ missed = 1 => lifetime + MapUpdateInterval > refreshIn

\* Initially there is neither a PROBE nor a mapping.
LEMMA TimersInit == Init => ProbeAges /\ MappingOutlivesTimer
BY DEF Init, ProbeAges, MappingOutlivesTimer

\* Neither HeartBeat, a seed, nor the clock lets a PROBE grow too old.
LEMMA ProbeAgesStep == ProbeAges /\ [Next]_vars => ProbeAges'
<1> SUFFICES ASSUME ProbeAges, [Next]_vars PROVE ProbeAges'
  OBVIOUS
<1> USE MembershipAssumption DEF ProbeAges, PingTimeout
<1>1. CASE SendsProbe
  BY <1>1 DEF SendsProbe
<1>2. CASE AnswerArrives
  BY <1>2 DEF AnswerArrives, ProbeOver, JoinEnds
<1>3. CASE ProbeFails
  BY <1>3 DEF ProbeFails, ProbeOver
<1>4. CASE JoinFails
  BY <1>4 DEF JoinFails, JoinEnds, exchange
<1>5. CASE PortForwards
  BY <1>5 DEF PortForwards, exchange
<1>6. CASE Wakes
  BY <1>6 DEF Wakes, exchange
<1>7. CASE SeedPings
  BY <1>7 DEF SeedPings, heartbeat
<1>8. CASE SeedAnswers
  BY <1>8 DEF SeedAnswers, heartbeat
<1>9. CASE Tick
  BY <1>9 DEF Tick, heartbeat
<1>10. CASE MessageLost
  BY <1>10 DEF MessageLost, heartbeat
<1>11. CASE MapperStep
  BY <1>11 DEF MapperStep, MapperAdds, MapperRefreshes, MapTick, heartbeat, exchange
<1>12. CASE Outage
  BY <1>12 DEF Outage, heartbeat, exchange
<1>13. CASE UNCHANGED vars
  BY <1>13 DEF vars, heartbeat, exchange
<1> QED
  BY <1>1, <1>2, <1>3, <1>4, <1>5, <1>6, <1>7, <1>8, <1>9, <1>10, <1>11, <1>12, <1>13
     DEF Next, HeartBeatStep, SeedStep

\* Nor does _map let the mapping lapse before its timer fires.
LEMMA MappingStep ==
  MappingOutlivesTimer /\ [Next]_vars => MappingOutlivesTimer'
<1> SUFFICES ASSUME MappingOutlivesTimer, [Next]_vars PROVE MappingOutlivesTimer'
  OBVIOUS
<1> USE DEF MappingOutlivesTimer, MapTimeout, MapUpdateInterval, MaxMissed
<1>1. CASE MapperAdds
  BY <1>1 DEF MapperAdds
<1>2. CASE MapperRefreshes
  BY <1>2 DEF MapperRefreshes
<1>3. CASE MapTick
  BY <1>3 DEF MapTick
<1>4. CASE PortForwards
  BY <1>4 DEF PortForwards
<1>5. CASE UNCHANGED mapping
  BY <1>5 DEF mapping
<1>6. \/ MapperStep \/ PortForwards \/ UNCHANGED mapping
  BY DEF Next, vars, HeartBeatStep, SeedStep, SendsProbe, AnswerArrives,
         ProbeFails, JoinFails, Wakes, SeedPings, SeedAnswers, Tick,
         MessageLost, Outage
<1> QED BY <1>1, <1>2, <1>3, <1>4, <1>5, <1>6 DEF MapperStep

\* Whatever the seeds, a PROBE runs into its timeout only if a message of it
\* is lost: the PING nested in it gives up early enough.
THEOREM ProbeOutlastsPing == Spec => []AnswerBeatsTimeout
<1>1. ProbeAges => AnswerBeatsTimeout
  BY MembershipAssumption
     DEF ProbeAges, AnswerBeatsTimeout, ProbeTimeout, PingTimeout
<1> QED BY <1>1, TimersInit, ProbeAgesStep, PTL DEF Spec

\* A port mapping does not lapse as long as its refreshes succeed, and one that
\* fails leaves a gap of less than an interval.
THEOREM MappingIsKept == Spec => []MappingHolds
<1>1. MappingOutlivesTimer => MappingHolds
  BY DEF MappingOutlivesTimer, MappingHolds, MapUpdateInterval
<1> QED BY <1>1, TimersInit, MappingStep, PTL DEF Spec
-----------------------------------------------------------------------------
LEMMA MembershipTypesInit == Init => TypeOK
<1>1. Len(Seeds) \in Nat
  BY MembershipAssumption
<1>2. Init => isDisconnected \in BOOLEAN
                /\ logged \in BOOLEAN /\ vouched \in BOOLEAN
  BY Zenon DEF Init
<1> QED BY <1>1, <1>2 DEF Init, TypeOK, ProbeTimeout, MapTimeout, MapUpdateInterval, MaxMissed

LEMMA MembershipTypesStep == TypeOK /\ [Next]_vars => TypeOK'
<1> SUFFICES ASSUME TypeOK, [Next]_vars PROVE TypeOK'
  OBVIOUS
<1>0. Len(Seeds) \in Nat
  BY MembershipAssumption
<1> USE <1>0, MembershipAssumption
<1> USE DEF TypeOK, ProbeTimeout, PingTimeout, MapTimeout, MapUpdateInterval, MaxMissed,
            heartbeat, exchange, mapping, peers
<1>1. CASE SendsProbe
  BY <1>1 DEF SendsProbe
<1>2. CASE AnswerArrives
  BY <1>2 DEF AnswerArrives, ProbeOver, JoinEnds
<1>3. CASE ProbeFails
  BY <1>3 DEF ProbeFails, ProbeFailed, ProbeOver
<1>4. CASE JoinFails
  BY <1>4 DEF JoinFails, JoinEnds
<1>5. CASE PortForwards
  BY <1>5 DEF PortForwards
<1>6. CASE Wakes
  BY <1>6 DEF Wakes
<1>7. CASE SeedPings
  BY <1>7 DEF SeedPings
<1>8. CASE SeedAnswers
  BY <1>8 DEF SeedAnswers
<1>9. CASE Tick
  BY <1>9 DEF Tick
<1>10. CASE MessageLost
  BY <1>10 DEF MessageLost
<1>11. CASE MapperAdds
  BY <1>11 DEF MapperAdds
<1>12. CASE MapperRefreshes
  BY <1>12 DEF MapperRefreshes
<1>13. CASE MapTick
  BY <1>13 DEF MapTick
<1>14. CASE Outage
  BY <1>14 DEF Outage
<1>15. CASE UNCHANGED vars
  BY <1>15 DEF vars
<1> QED
  BY <1>1, <1>2, <1>3, <1>4, <1>5, <1>6, <1>7, <1>8, <1>9, <1>10, <1>11, <1>12, <1>13,
     <1>14, <1>15
     DEF Next, HeartBeatStep, SeedStep, MapperStep

\* Every variable keeps its type, whatever the seeds; in particular a round
\* never asks a seed past the end of the list (farmer.go:228-231).
THEOREM MembershipTypeCorrect == Spec => []TypeOK
BY MembershipTypesInit, MembershipTypesStep, PTL DEF Spec
-----------------------------------------------------------------------------
\* Of the seeds that have been asked in this round, or whose messages were lost,
\* none has been up all the while.
AskedInVain ==
  /\ steady \subseteq up
  /\ pc \in {"joining", "probing"} =>
       \A i \in 1..Len(Seeds) : i < next => Seeds[i] \notin steady
  /\ probe = "lost" => Seeds[next] \notin steady

LEMMA AskedInVainStep ==
  ASSUME TypeOK, ProbeAges, AskedInVain, [Next]_vars
  PROVE  AskedInVain'
<1>0. Len(Seeds) \in Nat /\ next \in Nat
  BY MembershipAssumption DEF TypeOK
<1> USE DEF AskedInVain, heartbeat, exchange, peers
<1>1. CASE SendsProbe
  BY <1>1 DEF SendsProbe
<1>2. CASE AnswerArrives
  BY <1>2 DEF AnswerArrives, ProbeOver, JoinEnds
<1>3. CASE ProbeFails
  <2>1. Seeds[next] \notin steady
    <3>1. CASE probe = "asking" /\ Seeds[next] \notin up
      BY <3>1
    <3>2. CASE pc = "probing" /\ age = ProbeTimeout
      BY <3>2, MembershipAssumption DEF ProbeAges, ProbeTimeout, PingTimeout
    <3> QED BY <1>3, <3>1, <3>2 DEF ProbeFails, ProbeFailed
  <2>2. pc = "probing" /\ next' = next + 1 /\ probe' = "none" /\ UNCHANGED peers
    BY <1>3 DEF ProbeFails, ProbeFailed, ProbeOver, TypeOK
  <2>3. \A i \in 1..Len(Seeds) : i < next + 1 => i < next \/ i = next
    BY <1>0
  <2> QED BY <1>0, <2>1, <2>2, <2>3
<1>4. CASE JoinFails
  BY <1>4 DEF JoinFails, JoinEnds
<1>5. CASE PortForwards \/ Wakes
  BY <1>0, <1>5 DEF PortForwards, Wakes, TypeOK
<1>6. CASE SeedPings \/ SeedAnswers \/ Tick
  BY <1>6 DEF SeedPings, SeedAnswers, Tick
<1>7. CASE MessageLost
  BY <1>7 DEF MessageLost
<1>8. CASE MapperStep
  BY <1>8 DEF MapperStep, MapperAdds, MapperRefreshes, MapTick
<1>9. CASE Outage
  BY <1>9 DEF Outage
<1>10. CASE UNCHANGED vars
  BY <1>10 DEF vars
<1> QED
  BY <1>1, <1>2, <1>3, <1>4, <1>5, <1>6, <1>7, <1>8, <1>9, <1>10
     DEF Next, HeartBeatStep, SeedStep

\* However the seeds come and go, and however many there are: a round fails only
\* when none of them was up from its beginning to its end.
THEOREM FailuresHaveCause == Spec => FailureHasCause
<1> DEFINE Fails == pc' # pc /\ (pc' = "forwarding" \/ (pc' = "sleeping" /\ isDisconnected'))
<1>1. ASSUME TypeOK, AskedInVain, Next, Fails PROVE steady = {}
  <2>1. CASE JoinFails
    <3>1. Len(Seeds) \in Nat /\ next \in Nat /\ next > Len(Seeds) /\ pc = "joining"
      BY <1>1, <2>1, MembershipAssumption DEF JoinFails, TypeOK
    <3>2. \A i \in 1..Len(Seeds) : Seeds[i] \notin steady
      BY <1>1, <3>1 DEF AskedInVain
    <3> QED BY <1>1, <3>2 DEF TypeOK, SeedSet
  <2>2. CASE AnswerArrives
    BY <1>1, <2>2 DEF AnswerArrives, JoinEnds
  <2>3. CASE SendsProbe \/ ProbeFails \/ PortForwards \/ Wakes
    BY <1>1, <2>3 DEF SendsProbe, ProbeFails, PortForwards, Wakes
  <2>4. CASE SeedStep \/ Tick \/ MessageLost \/ MapperStep \/ Outage
    BY <1>1, <2>4 DEF SeedStep, SeedPings, SeedAnswers, Tick, MessageLost, MapperStep,
                      MapperAdds, MapperRefreshes, MapTick, Outage, heartbeat
  <2> QED BY <1>1, <2>1, <2>2, <2>3, <2>4 DEF Next, HeartBeatStep
<1>2. Init => TypeOK /\ AskedInVain
  BY MembershipTypesInit DEF Init, AskedInVain
<1>3. TypeOK /\ AskedInVain /\ [Next]_vars => [Fails => steady = {}]_vars
  BY <1>1
<1>4. TypeOK /\ ProbeAges /\ AskedInVain /\ [Next]_vars
        => TypeOK' /\ ProbeAges' /\ AskedInVain'
  BY MembershipTypesStep, ProbeAgesStep, AskedInVainStep
<1> QED BY <1>2, <1>3, <1>4, TimersInit, PTL DEF Spec, FailureHasCause
=============================================================================
