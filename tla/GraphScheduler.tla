--------------------------- MODULE GraphScheduler ---------------------------
(***************************************************************************)
(* The graph scheduler (module/execution/GraphScheduler.cpp) on a network  *)
(* of loops that is cut into subgraphs.  The subgraphs are connected by    *)
(* ChanDGSF channels, consumer channels of one and producer channels of    *)
(* the next.  At the end of every round graphUpdate may select another     *)
(* subgraph and opens and shuts the channels accordingly (configChan).     *)
(*                                                                         *)
(* subgraphTimeout and subgraphActiveCnt are only counted, and left out.   *)
(* graphSwitchO3 is a member that a program may set: both values are       *)
(* initial values.                                                         *)
(***************************************************************************)
EXTENDS Loop

CONSTANTS
    Producers, Consumers,   \* subgraphTable: per subgraph two sets of ChanDGSF
    Divergence              \* divergenceGraph: <<common, true, false path>> of some subgraphs

Subgraphs == DOMAIN Producers
NumSubgraphs == Cardinality(Subgraphs)

ASSUME GraphSchedulerAssumption ==
    /\ Subgraphs = 0 .. NumSubgraphs - 1 /\ DOMAIN Consumers = Subgraphs
    /\ \A s \in Subgraphs : Producers[s] \cup Consumers[s] \subseteq DGSF
    /\ DOMAIN Divergence \subseteq Subgraphs
    /\ \A c \in DGSF : Downstream(c) # {}

VARIABLES
    currSubgraphId,
    subgraphIsOver,     \* the subgraphs that are never selected again
    graphSwitchO3

schedVars == <<currSubgraphId, subgraphIsOver, graphSwitchO3>>
allVars   == <<vars, schedVars>>

-----------------------------------------------------------------------------
(* configChan: which inputs and outputs are open while subgraph s runs. *)

\* A keepMode channel into a loop body stays open when its subgraph does not run.
\* (downstream[0] is the first channel that was connected; the channels here
\* have loop variables as their only downstream channel, or none.)
StaysOpen(c) == c \in KeepMode /\ Downstream(c) \cap LoopVars = {}

\* Consumer channels of a subgraph that has no producer channels.
SourceOutputs(s) == IF Producers[s] = {} THEN Consumers[s] ELSE {}

pushEnabled(c, s) ==
    /\ \E t \in Subgraphs : c \in Producers[t] \cup Consumers[t]
    /\ \A t \in Subgraphs \ {s} : c \notin SourceOutputs(t)

popEnabled(c, s) ==
    IF c \in Consumers[s] THEN FALSE ELSE c \in Producers[s] \/ StaysOpen(c)

configChan(net, s) ==
    [c \in Chans |-> IF c \in DGSF THEN [net[c] EXCEPT !.pushBufferEnable = pushEnabled(c, s),
                                                       !.enable = popEnabled(c, s)]
                     ELSE net[c]]

\* resetSubgraph
resetSubgraph(net, s) ==
    [c \in Chans |-> IF c \in Producers[s] \cup Consumers[s]
                     THEN [net[c] EXCEPT !.chanDataCnt = 0] ELSE net[c]]

-----------------------------------------------------------------------------
(* The conditions on channels; a ChanDGSF has one chanBuffer. *)

Buffer(c)  == chan[c].chanBuffer[1]
IsFull(c)  == Len(Buffer(c)) >= Size[c]
IsEmpty(c) == Buffer(c) = <<>>
BackIsLast(c) ==
    LET back == Buffer(c)[Len(Buffer(c))] IN back.last /\ back.lastOuter

checkProducerChanIsFull(P)    == \A c \in P : chan[c].getTheLastData \/ IsFull(c)
checkProducerChanNotEmpty(P)  == \A c \in P : ~IsEmpty(c)
checkProducerChanAllEmpty(P)  == \A c \in P : IsEmpty(c)
checkProducerDownstreamChanAllEnable(P) == \A c \in P : \A d \in Downstream(c) : chan[d].enable
checkConsumerChanNotFull(C)   == C = {} \/ \E c \in C : ~IsFull(c)
checkConsumerChanGetLastData(C) == C # {} /\ \A c \in C : chan[c].getTheLastData

\* The comparison with DGSF_input_buffer_size, the size of these channels.
checkProducerChanFinish(s) ==
    \A c \in Producers[s] :
        IsEmpty(c) \/ (Consumers[s] # {} /\ chan[c].chanDataCnt < Size[c])

\* Mutant of checkConsumerChanFinish: only full channels are handed on.
FinishWhenFull(C) == C # {} /\ \A c \in C : IsFull(c)

checkConsumerChanFinish(C) ==
    /\ C # {}
    /\ \A c \in C : IF IsEmpty(c) THEN chan[c].getTheLastData ELSE BackIsLast(c) \/ IsFull(c)

\* Which sets of consumer channels a condition is asked of, in one of several
\* ways: of a divergent subgraph, the common channels and one of the two paths.
ConsumerPaths(s) ==
    IF s \notin DOMAIN Divergence THEN {{Consumers[s]}}
    ELSE LET d == Divergence[s]
         IN  IF d[2] \cup d[3] = {} THEN {{d[1]}} ELSE {{d[1], d[2]}, {d[1], d[3]}}

\* Mutant of checkSubgraphIsOver: the consumer channels are not asked.
OverWhenDrained(s) == Consumers[s] # {} /\ checkProducerChanAllEmpty(Producers[s])

checkSubgraphIsOver(s) ==
    /\ Consumers[s] # {}
    /\ \E paths \in ConsumerPaths(s) : \A C \in paths : checkConsumerChanGetLastData(C)
    /\ s \notin DOMAIN Divergence => checkProducerChanAllEmpty(Producers[s])

-----------------------------------------------------------------------------
(* Selecting a subgraph.  The k-th after s, in turn. *)
After(s, k) == (s + k) % NumSubgraphs

\* The first of the subgraphs in candidates after s.
FirstAfter(s, candidates) ==
    After(s, CHOOSE k \in 1 .. NumSubgraphs : /\ After(s, k) \in candidates
                                             /\ \A j \in 1 .. k - 1 : After(s, j) \notin candidates)

Runnable == {t \in Subgraphs : checkProducerDownstreamChanAllEnable(Producers[t])}

selectSubgraphInOrder(s) == FirstAfter(s, Runnable)

\* over: subgraphIsOver as graphUpdate has just set it.
selectSubgraphO3(s, over) ==
    LET notOver == Subgraphs \ (over \cup {s})
        wanted  == {t \in notOver \cap Runnable :
                       /\ checkProducerChanIsFull(Producers[t]) \/ checkProducerChanNotEmpty(Producers[t])
                       /\ checkConsumerChanNotFull(Consumers[t])}
    IN  CASE wanted # {} -> FirstAfter(s, wanted)
          [] wanted = {} /\ s \in over /\ notOver # {} -> FirstAfter(s, notOver)
          [] OTHER -> s

\* The current subgraph has nothing left to take, or nowhere to put it.
Switches(s) ==
    \/ Producers[s] # {} /\ checkProducerChanFinish(s)
    \/ /\ Consumers[s] # {}
       /\ \E paths \in ConsumerPaths(s) : \A C \in paths : checkConsumerChanFinish(C)

graphUpdate ==
    /\ At("sched")
    /\ LET s    == currSubgraphId
           over == (subgraphIsOver \ {s}) \cup (IF checkSubgraphIsOver(s) THEN {s} ELSE {})
           next == IF graphSwitchO3 THEN selectSubgraphO3(s, over) ELSE selectSubgraphInOrder(s)
       IN  \/ /\ Switches(s)
              /\ graphSwitchO3 \/ Runnable # {}      \* else throwError
              /\ subgraphIsOver' = over
              /\ currSubgraphId' = next
              /\ chan' = resetSubgraph(configChan(chan, next), next)
           \/ /\ ~Switches(s)
              /\ UNCHANGED <<subgraphIsOver, currSubgraphId, chan>>
    /\ Goto(pc + 1)
    /\ UNCHANGED <<clkStall, clkAdd, lc, begin, graphSwitchO3>>

-----------------------------------------------------------------------------
\* schedulerInit has run.
SchedInit ==
    /\ currSubgraphId = 0
    /\ subgraphIsOver = {}
    /\ graphSwitchO3 \in BOOLEAN
    /\ InitWith(configChan(NewChannels, 0))

SchedNext ==
    \/ Next /\ UNCHANGED schedVars
    \/ graphUpdate

SchedSpec == SchedInit /\ [][SchedNext]_allVars

\* As in Loop.
SchedFairSpec == SchedSpec /\ WF_allVars(SchedNext)
                           /\ \A c \in Lses : SF_allVars(LseAccepts /\ Argument = c /\ UNCHANGED schedVars)

-----------------------------------------------------------------------------
(* Properties, besides those of Loop. *)

\* A subgraph that is never selected again is done: its consumer channels have
\* received all their data and its producer channels have sent all of theirs.
OverMeansDone ==
    \A s \in subgraphIsOver :
        /\ \A c \in Consumers[s] : Received(c) = Iterations(c)
        /\ \A c \in Producers[s] : Sent(c) = Iterations(c)

=============================================================================
