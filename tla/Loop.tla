-------------------------------- MODULE Loop --------------------------------
(***************************************************************************)
(* Nested loops on a network of channels: the loop controllers Lc with     *)
(* their Mux (module/execution/Lc.cpp, Mux.cpp) and the main loop of a     *)
(* simulation (test/gemm/gemm_Base_auto_sim.cpp), which calls clkUpdate    *)
(* and then, in a fixed order, get() of every channel and the update       *)
(* functions of every Lc, until Chan_end holds a datum.  `pc' is the       *)
(* statement of the main loop to run next.                                 *)
(*                                                                         *)
(* An Lc's trueChan and falseChan are never updated: Mux::bpUpdate clears  *)
(* their bp in every round, as the only downstream of an Lc's outChan is   *)
(* its loopVar, a feedback channel.  So they are left out.                 *)
(***************************************************************************)
EXTENDS Channel

CONSTANTS
    Lcs,                                  \* the loop controllers
    loopVar, outChan, getEnd, sendEnd,    \* the channels of each of them
    OuterMost,                            \* the Lcs with isOuterMostLoop
    Bound,                                \* iterations of each loop
    Program,                              \* main loop: <<statement, argument>>
    ChanEnd,                              \* Chan_end
    Nest                                  \* the loops around each observed channel

ASSUME LoopAssumption ==
    /\ loopVar \in [Lcs -> LoopVars] /\ outChan \in [Lcs -> Chans \ Lses]
    /\ getEnd \in [Lcs -> Chans \ Lses] /\ sendEnd \in [Lcs -> Chans \ Lses]
    /\ OuterMost \subseteq Lcs /\ Bound \in [Lcs -> Nat \ {0}] /\ ChanEnd \in Chans
    /\ \A l \in Lcs : Upstream[loopVar[l]] # <<>> /\ Upstream[loopVar[l]][1] = outChan[l]
    /\ \A l \in Lcs : /\ Upstream[outChan[l]] = <<>> /\ Upstream[sendEnd[l]] = <<>>
                      /\ Downstream(getEnd[l]) = {}
                      /\ \A c \in {outChan[l], getEnd[l], sendEnd[l]} :
                            Cycle[c] = 0 /\ Speedup[c] = 1
    /\ DOMAIN Nest \subseteq Chans

\* The statements of a main loop, and the channels each of them updates.
Statements == ({"get"} \X (Chans \ Lses)) \cup ({"lse"} \X Lses)
              \cup ({"mux", "lc"} \X Lcs) \cup {<<"sched", "graph">>}

Updates(n) ==
    LET argument == Program[n][2]
    IN  CASE Program[n][1] \in {"get", "lse"} -> {argument}
          [] Program[n][1] = "mux" -> {outChan[argument]}
          [] Program[n][1] = "lc"  -> {getEnd[argument], sendEnd[argument]}
          [] OTHER -> {}

\* A main loop updates a channel once per round, and those of an Lc in this
\* order.
ASSUME ProgramAssumption ==
    /\ Program \in Seq(Statements)
    /\ \A m, n \in DOMAIN Program : \A c \in Updates(m), d \in Updates(n) :
            IF m = n THEN ~Edge(c, d) ELSE c # d
    /\ \A l \in Lcs : \E n \in DOMAIN Program :
            /\ Program[n] = <<"mux", l>>
            /\ n + 1 \in DOMAIN Program /\ Program[n + 1] = <<"get", loopVar[l]>>
            /\ n + 2 \in DOMAIN Program /\ Program[n + 2] = <<"lc", l>>

VARIABLES
    lc,       \* the state of every Lc
    begin,    \* valid of Chan_begin
    pc        \* 0: clkUpdate; n: Program[n]

vars == <<chan, clkStall, clkAdd, lc, begin, pc>>

NewLc == [sel |-> FALSE, var |-> 0, muxSuccess |-> FALSE,
          upstreamDataStatus |-> [last |-> FALSE, lastOuter |-> FALSE],
          loopNum |-> 0, loopNumQ |-> <<>>, loopEnd |-> 0]

\* begin->get({1}) has run; net is the channels as they were initialised.
InitWith(net) ==
    /\ chan = net
    /\ clkStall = FALSE /\ clkAdd = FALSE
    /\ lc = [l \in Lcs |-> NewLc]
    /\ begin = TRUE
    /\ pc = 0

Init == InitWith(NewChannels)

Finished == chan[ChanEnd].channel # <<>>

Goto(n) == pc' = IF n > Len(Program) THEN 0 ELSE n

At(statement) == pc # 0 /\ Program[pc][1] = statement
Argument == Program[pc][2]

-----------------------------------------------------------------------------
(* The Mux of an Lc: initial value or value of the last iteration. *)

\* Mutant of MuxReady: a datum in the loopVar is enough, sent or not.
MuxReadyUnsent(l) ==
    IF lc[l].sel THEN chan[loopVar[l]].channel # <<>> ELSE l \in OuterMost => begin

\* trueChan's upstream is the loopVar.  falseChan's is Chan_begin for an
\* outermost loop and nothing for the others.
MuxReady(l) ==
    IF lc[l].sel THEN chan[loopVar[l]].valid
    ELSE l \in OuterMost => begin

\* Left as it was when the selected side has no upstream.
recordDataStatus(l) ==
    CASE MuxReady(l) /\ lc[l].sel ->
            [last |-> Front(chan[loopVar[l]].channel).last, lastOuter |-> Front(chan[loopVar[l]].channel).lastOuter]
      [] MuxReady(l) /\ ~lc[l].sel /\ l \in OuterMost -> [last |-> FALSE, lastOuter |-> FALSE]
      [] OTHER -> lc[l].upstreamDataStatus

pushOutChan(ch, l) ==
    LET status == recordDataStatus(l)
    IN  [GotData(ch, outChan[l], {}) EXCEPT
            !.channel = <<[cond |-> TRUE, last |-> status.last, lastOuter |-> status.lastOuter]>>]

\* var = mux(var, 0, sel); muxUpdate(sel); outChan->value = var
muxUpdate ==
    /\ At("mux")
    /\ LET l     == Argument
           o     == outChan[l]
           wire  == statusUpdate(pop(chan[o]), o)
           init  == IF lc[l].sel THEN lc[l].var ELSE 0
           fed   == IF MuxReady(l) THEN pushOutChan(wire, l) ELSE wire
       IN  /\ chan' = [chan EXCEPT ![o] = [fed EXCEPT !.value = {<<l, init>>}, !.popped = 0]]
           /\ lc' = [lc EXCEPT ![l].muxSuccess = MuxReady(l),
                               ![l].upstreamDataStatus = recordDataStatus(l)]
    /\ Goto(pc + 1)
    /\ UNCHANGED <<clkStall, clkAdd, begin>>

-----------------------------------------------------------------------------
(* Lc::lcUpdate, with the condition of the loop as its argument. *)

\* loopVar->assign(outChan): the buffer's front, or what was popped last.
LoopIndex(l) ==
    LET ch == chan[loopVar[l]]
        v  == IF ch.chanBuffer[1] = <<>> THEN ch.lastPopVal ELSE Front(ch.chanBuffer[1]).value
    IN  IF v = {} THEN 0 ELSE (CHOOSE p \in v : p[1] = l)[2]

NewSel(l) == LoopIndex(l) + 1 < Bound[l]

selUpdate(l) ==
    IF lc[l].muxSuccess \/ chan[loopVar[l]].channel # <<>> THEN NewSel(l) ELSE lc[l].sel

\* The loopVar's datum is marked as the last of the loop.
LastTagged(l) ==
    LET ch == chan[loopVar[l]]
    IN  IF ch.channel # <<>> /\ ~selUpdate(l)
        THEN [ch EXCEPT !.channel = <<[Front(ch.channel) EXCEPT !.last = TRUE,
                                          !.lastOuter = @ \/ l \in OuterMost]>>]
        ELSE ch

\* loopNumQ and loopNum after loopUpdate.
CountLoop(l) ==
    LET sent == chan[loopVar[l]].valid
        n    == lc[l].loopNum + 1
    IN  CASE sent /\ selUpdate(l)  -> [q |-> lc[l].loopNumQ, n |-> n]
          [] sent /\ ~selUpdate(l) -> [q |-> Append(lc[l].loopNumQ, n), n |-> 0]
          [] OTHER                 -> [q |-> lc[l].loopNumQ, n |-> lc[l].loopNum]

LoopsEnded(l) == lc[l].loopEnd + (IF Got(getEnd[l]).channel # <<>> THEN 1 ELSE 0)

\* Mutant of LoopIsOver: the comparison is off by one.
LoopIsOverEarly(l) == CountLoop(l).q # <<>> /\ LoopsEnded(l) + 1 = CountLoop(l).q[1]

\* Mutant of LoopIsOver: the last iteration is waited for once more.
LoopIsOverLate(l) == CountLoop(l).q # <<>> /\ LoopsEnded(l) = CountLoop(l).q[1] + 1

\* All iterations of the oldest loop in loopNumQ have come back.
LoopIsOver(l) == CountLoop(l).q # <<>> /\ LoopsEnded(l) = CountLoop(l).q[1]

sendEndUpdate(l) ==
    LET s    == sendEnd[l]
        sent == IF chan[s].valid THEN statusUpdate(pop(chan[s]), s) ELSE chan[s]
    IN  IF LoopIsOver(l) THEN GotData(sent, s, {}) ELSE sent

lcUpdate ==
    /\ At("lc")
    /\ LET l    == Argument
           v    == LastTagged(l)
           net  == [chan EXCEPT ![loopVar[l]] = v, ![getEnd[l]] = Got(getEnd[l]),
                                ![sendEnd[l]] = sendEndUpdate(l)]
       IN  /\ chan' = IF v.valid /\ Front(v.channel).last THEN sendLastTag(net, loopVar[l]) ELSE net
           /\ lc' = [lc EXCEPT ![l] =
                [@ EXCEPT !.sel = selUpdate(l), !.var = LoopIndex(l) + 1,
                          !.loopNum  = CountLoop(l).n,
                          !.loopNumQ = IF LoopIsOver(l) THEN Tail(CountLoop(l).q) ELSE CountLoop(l).q,
                          !.loopEnd  = IF LoopIsOver(l) THEN 0 ELSE LoopsEnded(l)]]
           /\ begin' = (begin /\ l \notin OuterMost)
    /\ Goto(pc + 1)
    /\ UNCHANGED <<clkStall, clkAdd>>

-----------------------------------------------------------------------------
ChannelGet ==
    /\ At("get")
    /\ get(Argument)
    /\ Goto(pc + 1)
    /\ UNCHANGED <<lc, begin>>

LseAccepts ==
    /\ At("lse")
    /\ LseGet(Argument, TRUE)
    /\ Goto(pc + 1)
    /\ UNCHANGED <<lc, begin>>

LseRefuses ==
    /\ At("lse")
    /\ LseGet(Argument, FALSE)
    /\ Goto(pc + 1)
    /\ UNCHANGED <<lc, begin>>

\* A round of the main loop begins, unless Chan_end ended it.
NextRound ==
    /\ pc = 0
    /\ ~Finished
    /\ clkUpdate
    /\ Goto(1)
    /\ UNCHANGED <<lc, begin>>

Next == NextRound \/ muxUpdate \/ lcUpdate \/ ChannelGet \/ LseAccepts \/ LseRefuses

Spec == Init /\ [][Next]_vars

\* The main loop goes on, and a Lse finds its slot free from time to time: the
\* memory system answers every request it accepted (MemSystem, SentIsAnswered).
FairSpec == Spec /\ WF_vars(Next)
                 /\ \A c \in Lses : SF_vars(LseAccepts /\ Argument = c)

-----------------------------------------------------------------------------
(* Properties. *)

\* Iteration k (from 0) of the nest of loops around channel c.
Iteration(c, k) ==
    LET ls == Nest[c]
    IN  IF Len(ls) = 1 THEN {<<ls[1], k>>}
        ELSE {<<ls[1], k \div Bound[ls[2]]>>, <<ls[2], k % Bound[ls[2]]>>}

Iterations(c) == IF Len(Nest[c]) = 1 THEN Bound[Nest[c][1]]
                 ELSE Bound[Nest[c][1]] * Bound[Nest[c][2]]

Loops(c) == {Nest[c][i] : i \in DOMAIN Nest[c]}

\* The rows of operands in the chanBuffers of c, and the indices of the loops
\* around c that row k was computed from.
FullRows(c) ==
    {k \in 1 .. Len(chan[c].chanBuffer[1]) : \A i \in Inputs(c) : k <= Len(chan[c].chanBuffer[i])}
Row(c, k) == {p \in UNION {chan[c].chanBuffer[i][k].value : i \in Inputs(c)} : p[1] \in Loops(c)}

\* Every channel receives the iterations of its loops in order and each once:
\* the push, pop and back-pressure rules of Channel and the Mux and Lc that
\* feed them.
InIterationOrder ==
    \A c \in DOMAIN Nest : \A k \in FullRows(c) :
        Row(c, k) = Iteration(c, chan[c].popped + k - 1)

\* Behind a branch, a datum's cond tells whether its iteration takes the path
\* it travels on, also when the datum came from an earlier channel of the path
\* (pushBuffer, pushChannel): a Lse on the path asks the memory if it does.
CondOfIteration ==
    \A c \in (TruePath \cup FalsePath) \cap DOMAIN Nest : \A i \in Inputs(c) :
        \A k \in 1 .. Len(chan[c].chanBuffer[i]) :
            LET datum == chan[c].chanBuffer[i][k]
            IN  datum.cond <=> (CondTrue(datum.value) <=> c \in TruePath)

\* No channel joins operands of different iterations of one loop: pushBuffer
\* takes no extra datum from a keepMode channel.
NoPoisonData ==
    \A c \in DOMAIN Nest : \A k \in FullRows(c) : \A p, q \in Row(c, k) :
        p[1] = q[1] => p = q

\* A keepMode channel drops a datum only after every downstream channel has
\* received all the data of the inner loop that goes with it: popLastCheck.
Received(d) ==
    chan[d].popped + Len(chan[d].chanBuffer[CHOOSE i \in Inputs(d) : ~KeepUpstream(d, i)])

KeptUntilLast ==
    \A c \in KeepMode : \A d \in Downstream(c) \cap DOMAIN Nest :
        Received(d) >= chan[c].popped * (Iterations(d) \div Iterations(c))

\* A keepMode channel offers a datum to one run of the inner loop only: no
\* downstream channel pairs it with more data than that run has.
KeptForOneLoop ==
    \A c \in KeepMode : \A d \in Downstream(c) \cap DOMAIN Nest :
        chan[d].popped + Cardinality(FullRows(d))
            <= (chan[c].popped + 1) * (Iterations(d) \div Iterations(c))

\* Back-pressure is respected: no chanBuffer ever holds more than size.
BufferWithinSize ==
    \A c \in Chans : \A i \in Inputs(c) : Len(chan[c].chanBuffer[i]) <= Size[c]

\* Data of c that its downstream channels have taken or are about to take.
Sent(c) == chan[c].popped + (IF chan[c].valid THEN 1 ELSE 0)

\* When Chan_end gets its datum every iteration has left every channel that
\* is not a Lse: the counters loopNumQ and loopEnd of the Lcs miss nothing.
EndMeansDone ==
    Finished => \A c \in DOMAIN Nest \ Lses : Sent(c) = Iterations(c)

\* The program ends: Chan_end receives its datum.
Completes == <>Finished

-----------------------------------------------------------------------------
(* The networks of a single level of loops, with no channel of a special     *)
(* mode, that the theorems on the order of iterations are about.             *)

\* Every observed channel is in the body of one outermost loop and is fed by
\* channels of the same body only, its loopVar by the Mux of the loop only.
PlainNetwork ==
    /\ KeepMode = {} /\ DrainMode = {} /\ DGSF = {}
    /\ \A c \in DOMAIN Nest : \E l \in OuterMost :
          /\ Nest[c] = <<l>>
          /\ IF c \in LoopVars
             THEN c = loopVar[l] /\ Upstream[c] = <<outChan[l]>> /\ Downstream(outChan[l]) = {c}
             ELSE /\ Upstream[c] # <<>>
                  /\ \A i \in Inputs(c) : LET u == Upstream[c][i]
                                          IN  u \in DOMAIN Nest \ Lses /\ Nest[u] = <<l>>

\* The channels on a path of a branch are fed by the condition of the branch
\* and by channels of their path, and a join takes its cond from a channel that
\* is on no path.
BranchNetwork ==
    /\ PlainNetwork
    /\ \A c \in DOMAIN Nest \ LoopVars :
          IF branchMode(c)
          THEN \A i \in Inputs(c) :
                  IF i \in CondInputs(c) THEN ~branchMode(Upstream[c][i])
                  ELSE Upstream[c][i] \in (IF c \in TruePath THEN TruePath ELSE FalsePath)
          ELSE ~branchMode(Upstream[c][1])

\* Every observed channel that is not a Lse feeds e, through others or itself.
FedByAll(e) ==
    \A S \in SUBSET (DOMAIN Nest \ Lses) :
        e \in S /\ (\A c \in S \ LoopVars : \A i \in Inputs(c) : Upstream[c][i] \in S)
            => S = DOMAIN Nest \ Lses

\* All observed channels are in the body of one loop, its Lc counts the data of
\* a channel that all of them feed, and Chan_end waits for that Lc.
EndsWith(l, e) ==
    /\ loopVar[l] \in DOMAIN Nest /\ \A c \in DOMAIN Nest : Nest[c] = <<l>>
    /\ Upstream[getEnd[l]] = <<e>> /\ Upstream[ChanEnd] = <<sendEnd[l]>>
    /\ FedByAll(e)

EndNetwork ==
    PlainNetwork /\ \E l \in OuterMost, e \in DOMAIN Nest \ Lses : EndsWith(l, e)

=============================================================================
