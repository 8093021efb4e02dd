------------------------------ MODULE Channel ------------------------------
(***************************************************************************)
(* The channels of the dataflow graph (module/execution/Channel.cpp): the  *)
(* valid/back-pressure handshake of ChanBase with its keepMode, drainMode  *)
(* and speedup, and the input side of a Lse.  A channel holds one input    *)
(* queue per upstream (chanBuffer) and one matched datum (channel).        *)
(*                                                                         *)
(* What a datum computes is left out: `value' is the set of loop indices   *)
(* <<loop, n>> it was computed from, so that a datum computed from two     *)
(* different iterations of one loop can be told apart from a proper one.   *)
(* `wait' is the datum's cycle relative to the clock (cycle - clk, not     *)
(* below 0).  `cond' tells on the path of a branch whether the datum's      *)
(* iteration takes that path: data travel on both paths, but without delay *)
(* on the one that is not taken.                                           *)
(* Lses have speedup 1.  A ChanDGSF connects two subgraphs: the graph      *)
(* scheduler opens and shuts its input (pushBufferEnable) and its output   *)
(* (enable, which popChannelEnable is another name of).                    *)
(* The operators work on the record of one channel, in the order in which  *)
(* Channel::get calls them, and read the other channels in `chan'.         *)
(***************************************************************************)
EXTENDS Naturals, Sequences, FiniteSets

CONSTANTS
    Chans,       \* all channels
    Lses,        \* the channels that are Lses
    Upstream,    \* upstream: a sequence of channels, <<>> for noUpstream
    Size,        \* size: capacity of a chanBuffer
    Cycle,       \* cycle: latency of the channel
    Speedup,     \* speedup
    KeepMode,    \* channels with keepMode set
    DrainMode,   \* channels with drainMode set
    LoopVars,    \* channels with isLoopVar set
    CondChans,   \* channels with isCond set
    TruePath,    \* channels with branchMode and channelCond set
    FalsePath,   \* channels with branchMode set and channelCond not
    DGSF         \* the channels that are ChanDGSF

Inputs(c) == 1 .. (IF Upstream[c] = <<>> THEN 1 ELSE Len(Upstream[c]))
Edge(c, d) == \E i \in 1 .. Len(Upstream[d]) : Upstream[d][i] = c
Downstream(c) == {d \in Chans : Edge(c, d)}
getChanId(d, c) == CHOOSE i \in Inputs(d) : Upstream[d][i] = c

KeepUpstream(c, i) == Upstream[c] # <<>> /\ Upstream[c][i] \in KeepMode
hasUpstreamInKeepMode(c) == \E i \in Inputs(c) : KeepUpstream(c, i)

branchMode(c) == c \in TruePath \cup FalsePath
CondInputs(c) == {i \in 1 .. Len(Upstream[c]) : Upstream[c][i] \in CondChans}

\* What the programs compute the value of an isCond channel from: is i odd?
CondTrue(value) == \E p \in value : p[2] % 2 = 1

\* checkChanMode and the configuration errors of pushBuffer and the Registry.
ASSUME ChannelAssumption ==
    /\ Upstream \in [Chans -> Seq(Chans)]
    /\ Size \in [Chans -> Nat \ {0}] /\ Cycle \in [Chans -> Nat]
    /\ Speedup \in [Chans -> Nat \ {0}]
    /\ KeepMode \cup DrainMode \cup LoopVars \cup Lses \subseteq Chans
    /\ KeepMode \cap DrainMode = {} /\ Lses \cap KeepMode = {}
    /\ CondChans \cup TruePath \cup FalsePath \subseteq Chans \ (Lses \cup LoopVars)
    /\ TruePath \cap FalsePath = {}
    /\ \A c \in Chans : Cardinality(CondInputs(c)) <= 1
    /\ DGSF \subseteq Chans \ (Lses \cup DrainMode \cup LoopVars)
    /\ \A c \in DGSF : Len(Upstream[c]) = 1
    /\ \A c \in Chans \ LoopVars : hasUpstreamInKeepMode(c) => Len(Upstream[c]) = 2
    /\ \A c \in Chans : \A i, j \in 1 .. Len(Upstream[c]) :
            Upstream[c][i] = Upstream[c][j] => i = j

VARIABLES
    chan,        \* the record of every channel
    clkStall,    \* ClkDomain: some channel asked for another round of this clock
    clkAdd       \* ClkDomain: the clock advanced at the start of this round

chanVars == <<chan, clkStall, clkAdd>>

NewChannel(c) ==
    [chanBuffer   |-> [i \in Inputs(c) |-> <<>>],
     channel      |-> <<>>,
     bp           |-> [i \in Inputs(c) |-> FALSE],
     valid        |-> FALSE,
     value        |-> {},
     lastPopVal   |-> {},
     lastTagQueue |-> [d \in IF c \in KeepMode THEN Downstream(c) ELSE {} |-> 0],
     currId       |-> 1,
     enable       |-> c \notin DGSF,
     pushBufferEnable |-> c \notin DGSF,
     getTheLastData   |-> FALSE,   \* these two: only of a ChanDGSF
     chanDataCnt  |-> 0,
     popped       |-> 0]      \* history: data taken out of the chanBuffers

NewChannels == [c \in Chans |-> NewChannel(c)]

Front(q) == q[1]

-----------------------------------------------------------------------------
(* The parts of Channel::get. *)

\* The rounds of one clock are the parallel instances of the channel.
parallelize(ch, c) ==
    IF Speedup[c] = 1 THEN ch
    ELSE [ch EXCEPT !.currId = IF clkAdd THEN 1
                               ELSE IF @ <= Speedup[c] THEN @ + 1 ELSE @]

\* Mutant of popLastCheck: a downstream channel without a tag is not waited for.
PopUntagged(ch) == \A d \in DOMAIN ch.lastTagQueue : ch.lastTagQueue[d] >= 0

\* Mutant of popLastCheck: a tag of the loop before must be left.
PopSecondTag(ch) == \A d \in DOMAIN ch.lastTagQueue : ch.lastTagQueue[d] > 1

popLastCheck(ch) == \A d \in DOMAIN ch.lastTagQueue : ch.lastTagQueue[d] > 0

popChannel(ch) ==
    [ch EXCEPT !.channel      = Tail(@),
               !.chanBuffer   = [i \in DOMAIN @ |-> Tail(@[i])],
               !.lastPopVal   = Front(ch.chanBuffer[1]).value,
               !.lastTagQueue = [d \in DOMAIN @ |-> @[d] - 1],
               !.popped       = @ + 1]

\* A channel drops its datum once it was valid and, in keepMode, once every
\* downstream channel has sent its last tag.
pop(ch) == IF ch.valid /\ popLastCheck(ch) THEN popChannel(ch) ELSE ch

checkUpstream(c, i) ==
    LET u == chan[Upstream[c][i]]
    IN  u.valid /\ (c \in DrainMode => Front(u.channel).last)

\* Mutant of Admits: the buffers take whatever is offered.
AdmitsAll(ch, c, i) == i \in DOMAIN ch.chanBuffer

\* May chanBuffer i take the datum its upstream offers?  A loopVar takes one
\* only when the buffer is empty.  The buffer fed by a keepMode channel takes
\* one along with the other buffer, or when it has none.
Admits(ch, c, i) ==
    hasUpstreamInKeepMode(c) =>
        IF c \in LoopVars THEN ch.chanBuffer[i] = <<>>
        ELSE KeepUpstream(c, i) =>
                LET other == (i % 2) + 1
                IN  \/ Len(ch.chanBuffer[i]) < Len(ch.chanBuffer[other])
                    \/ chan[Upstream[c][other]].valid
                    \/ ch.chanBuffer[i] = <<>>

\* A ChanDGSF takes data only while its input is open, and none after the last.
Open(ch, c) == c \in DGSF => ch.pushBufferEnable /\ ~ch.getTheLastData

Receives(ch, c, i) == Open(ch, c) /\ checkUpstream(c, i) /\ Admits(ch, c, i)

\* Mutant of PathCond: both paths take the condition as it is.
PathCondEither(c, i) ==
    LET u == chan[Upstream[c][i]]
    IN  Front(u.channel).cond /\ (i \in CondInputs(c) /\ branchMode(c) => CondTrue(u.value))

PathCond(c, i) ==
    LET u == chan[Upstream[c][i]]
    IN  /\ Front(u.channel).cond
        /\ i \in CondInputs(c) /\ branchMode(c) => CondTrue(u.value) = (c \in TruePath)

Offer(c, i) ==
    LET u == chan[Upstream[c][i]]
    IN  [value     |-> u.value,
         cond      |-> PathCond(c, i),
         last      |-> Front(u.channel).last,
         lastOuter |-> Front(u.channel).lastOuter,
         wait      |-> IF KeepUpstream(c, i) \/ (branchMode(c) /\ ~PathCond(c, i)) THEN 0 ELSE Cycle[c]]

\* push for every upstream.  (The loop over the upstreams and this definition
\* agree: Admits of the second buffer holds whenever the first one received.)
push(ch, c) ==
    [ch EXCEPT !.chanBuffer = [i \in DOMAIN @ |->
        IF Upstream[c] # <<>> /\ Receives(ch, c, i) THEN Append(@[i], Offer(c, i))
        ELSE @[i]],
               !.getTheLastData = @ \/ (c \in DGSF /\ Receives(ch, c, 1)
                                         /\ Offer(c, 1).last /\ Offer(c, 1).lastOuter)]

\* The datum of get(data) of a channel without upstream.
pushData(ch, c, value) ==
    IF Len(ch.chanBuffer[1]) = Size[c] THEN ch
    ELSE [ch EXCEPT !.chanBuffer[1] =
            Append(@, [value |-> value, cond |-> TRUE, last |-> FALSE, lastOuter |-> FALSE, wait |-> Cycle[c]])]

\* pushBuffer of a normal channel sends the last tag upstream when the buffer
\* that is not fed by a keepMode channel takes a datum with last set.
SendsLastTag(ch, c) ==
    /\ c \notin LoopVars /\ hasUpstreamInKeepMode(c)
    /\ \E i \in Inputs(c) : ~KeepUpstream(c, i) /\ Receives(ch, c, i) /\ Offer(c, i).last

checkDataMatch(ch) ==
    \A i \in DOMAIN ch.chanBuffer :
        ch.chanBuffer[i] # <<>> /\ Front(ch.chanBuffer[i]).wait = 0

updateDataStatus(ch, c) ==
    LET front(i) == Front(ch.chanBuffer[i])
        kept(i)  == KeepUpstream(c, i) \/ c \in DrainMode
        source   == IF branchMode(c) /\ CondInputs(c) # {} THEN CHOOSE i \in CondInputs(c) : TRUE ELSE 1
    IN  [cond      |-> Upstream[c] # <<>> => front(source).cond,
         last      |-> Upstream[c] # <<>> /\ \E i \in Inputs(c) : ~kept(i) /\ front(i).last,
         lastOuter |-> Upstream[c] # <<>> /\ \E i \in Inputs(c) :
                          IF kept(i) THEN front(i).last /\ front(i).lastOuter /\ c \in LoopVars
                          ELSE front(i).lastOuter]

pushChannel(ch, c) ==
    IF checkDataMatch(ch) /\ ch.channel = <<>>
    THEN [ch EXCEPT !.channel = <<updateDataStatus(ch, c)>>]
    ELSE ch

\* Mutant of checkSend: room for one more datum is assumed.
SendRegardless(c, d) == c \in Chans /\ d \in Chans

checkSend(c, d) == ~chan[d].bp[getChanId(d, c)]

\* A ChanDGSF runs it in every round of the clock.  chanDataCnt matters up to
\* the size of the channel.
statusUpdate(ch, c) ==
    LET next == pushChannel(ch, c)
        sent == /\ next.channel # <<>> /\ next.enable
                /\ c \in KeepMode \/ \A d \in Downstream(c) : checkSend(c, d)
    IN  IF ch.currId <= Speedup[c] \/ c \in DGSF
        THEN [next EXCEPT !.valid = sent,
                          !.chanDataCnt = IF c \in DGSF /\ sent /\ @ < Size[c] THEN @ + 1 ELSE @]
        ELSE [ch EXCEPT !.valid = FALSE]

\* Mutant of bpUpdate: a shut ChanDGSF asserts no back-pressure.
BpOpen(ch, c) == [ch EXCEPT !.bp = [i \in DOMAIN @ |-> Len(ch.chanBuffer[i]) >= Size[c]]]

bpUpdate(ch, c) ==
    [ch EXCEPT !.bp = [i \in DOMAIN @ |->
        Len(ch.chanBuffer[i]) >= Size[c] \/ ~ch.pushBufferEnable]]

\* What the program assigns to value after get: from the fronts of the buffers.
assign(ch) ==
    [ch EXCEPT !.value = UNION {IF ch.chanBuffer[i] = <<>> THEN {} ELSE Front(ch.chanBuffer[i]).value :
                                    i \in DOMAIN ch.chanBuffer}]

\* get() and get(data) as the record the channel ends up with.
Popped(c) == pop(parallelize(chan[c], c))
Got(c) == assign(bpUpdate(statusUpdate(push(Popped(c), c), c), c))
GotData(ch, c, value) == bpUpdate(statusUpdate(pushData(pop(ch), c, value), c), c)

\* net with one more last tag from d in each of its keepMode upstreams.
sendLastTag(net, d) ==
    [c \in Chans |-> IF c \in KeepMode /\ Edge(c, d)
                     THEN [net[c] EXCEPT !.lastTagQueue[d] = @ + 1]
                     ELSE net[c]]

\* The network after get() of channel c.
AfterGet(c) ==
    LET net == [chan EXCEPT ![c] = Got(c)]
    IN  IF SendsLastTag(Popped(c), c) THEN sendLastTag(net, c) ELSE net

\* Channel::get.
get(c) ==
    /\ chan' = AfterGet(c)
    /\ clkStall' = (clkStall \/ (Speedup[c] > 1 /\ chan'[c].currId < Speedup[c]))
    /\ UNCHANGED clkAdd

-----------------------------------------------------------------------------
(* A Lse as a consumer: get() with Lse::pushReqQ in statusUpdate.  Whether  *)
(* the slot at pushQueuePtr is free depends on the memory.                  *)

Takes(ch) == [ch EXCEPT !.chanBuffer = [i \in DOMAIN @ |-> Tail(@[i])], !.popped = @ + 1]

pushReqQ(ch, c, slotFree) ==
    bpUpdate(IF checkDataMatch(ch) /\ slotFree THEN Takes(ch) ELSE ch, c)

\* pushReqQ sends the last tag before it looks at the slot.
LseSendsLastTag(ch) ==
    checkDataMatch(ch) /\ \E i \in DOMAIN ch.chanBuffer : Front(ch.chanBuffer[i]).last

LseGet(c, slotFree) ==
    LET filled == push(chan[c], c)
        net    == [chan EXCEPT ![c] = pushReqQ(filled, c, slotFree)]
        first  == IF SendsLastTag(chan[c], c) THEN sendLastTag(net, c) ELSE net
    IN  /\ chan' = IF LseSendsLastTag(filled) THEN sendLastTag(first, c) ELSE first
        /\ UNCHANGED <<clkStall, clkAdd>>

-----------------------------------------------------------------------------
\* ClkDomain::clkUpdate: the clock advances unless a channel stalled it.
Elapse(q) == [k \in DOMAIN q |-> [q[k] EXCEPT !.wait = IF @ = 0 THEN 0 ELSE @ - 1]]

clkUpdate ==
    /\ clkAdd' = ~clkStall
    /\ clkStall' = FALSE
    /\ chan' = IF clkStall THEN chan
               ELSE [c \in Chans |-> [chan[c] EXCEPT !.chanBuffer = [i \in DOMAIN @ |-> Elapse(@[i])]]]

=============================================================================
