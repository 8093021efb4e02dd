---------------------------- MODULE Loop_proofs ----------------------------
(***************************************************************************)
(* Proofs about networks of channels without keepMode.                     *)
(***************************************************************************)
EXTENDS GraphScheduler, SequenceTheorems, TLAPS

Values == SUBSET (Lcs \X Nat)
Datum  == [value : Values, cond : BOOLEAN, last : BOOLEAN, lastOuter : BOOLEAN, wait : Nat]
Flags  == [cond : BOOLEAN, last : BOOLEAN, lastOuter : BOOLEAN]

\* A channel without speedup has one instance.
Instances(c) == {n \in Nat : Speedup[c] = 1 => n = 1}

\* Only the graph scheduler shuts channels, and only a ChanDGSF.
Gate(c) == IF c \in DGSF THEN BOOLEAN ELSE {TRUE}

ChanType(c) ==
    [chanBuffer : [Inputs(c) -> Seq(Datum)], channel : Seq(Flags),
     bp : [Inputs(c) -> BOOLEAN], valid : BOOLEAN, value : Values, lastPopVal : Values,
     lastTagQueue : [{} -> Int], currId : Instances(c), enable : Gate(c), pushBufferEnable : Gate(c),
     getTheLastData : BOOLEAN, chanDataCnt : Nat, popped : Nat]

\* A matched datum has its operands in the buffers; only a matched one is
\* offered.
HoldsOK(ch) ==
    /\ Len(ch.channel) <= 1
    /\ ch.channel # <<>> => \A i \in DOMAIN ch.chanBuffer : ch.chanBuffer[i] # <<>>
OffersOK(ch) == ch.valid => ch.channel # <<>>

\* A channel in a state it can be in, between two calls and inside of one.
IsRec(ch, c)  == ch \in ChanType(c) /\ HoldsOK(ch)
IsChan(ch, c) == IsRec(ch, c) /\ OffersOK(ch)

-----------------------------------------------------------------------------
\* Sequences of one element at most.
LEMMA OneElement ==
    ASSUME NEW S, NEW s \in Seq(S), Len(s) <= 1, s # <<>>
    PROVE  Tail(s) = <<>> /\ Len(s) = 1 /\ s[1] \in S /\ s = <<s[1]>>
<1>1. Len(s) \in Nat /\ Len(s) # 0
  BY EmptySeq, LenProperties
<1>2. Len(s) = 1
  BY <1>1
<1>3. Tail(s) \in Seq(S) /\ Len(Tail(s)) = 0
  BY <1>2, HeadTailProperties
<1>4. s[1] \in S
  BY <1>2, ElementOfSeq
<1>5. s = <<s[1]>>
  BY <1>2, <1>4
<1> QED  BY <1>2, <1>3, <1>4, <1>5, EmptySeq

\* Taking the front of a queue.
LEMMA TailFacts ==
    ASSUME NEW S, NEW s \in Seq(S), s # <<>>
    PROVE  /\ Tail(s) \in Seq(S) /\ Len(Tail(s)) = Len(s) - 1 /\ Len(s) \in Nat \ {0}
           /\ s[1] \in S
           /\ \A k \in 1 .. Len(Tail(s)) : Tail(s)[k] = s[k + 1]
<1>1. Len(s) \in Nat \ {0}
  BY EmptySeq, LenProperties
<1> QED  BY <1>1, HeadTailProperties, ElementOfSeq

\* The inputs of a channel are counted from 1.
LEMMA InputsFacts ==
    ASSUME NEW c \in Chans
    PROVE  /\ 1 \in Inputs(c)
           /\ Upstream[c] # <<>> => \A i \in Inputs(c) : /\ Upstream[c][i] \in Chans
                                                         /\ i \in 1 .. Len(Upstream[c])
                                                         /\ Edge(Upstream[c][i], c)
<1>1. Upstream[c] \in Seq(Chans)
  BY ChannelAssumption
<1>2. CASE Upstream[c] = <<>>
  BY <1>2 DEF Inputs
<1>3. CASE Upstream[c] # <<>>
  <2>1. Len(Upstream[c]) \in Nat \ {0}
    BY <1>1, <1>3, EmptySeq, LenProperties
  <2>2. Inputs(c) = 1 .. Len(Upstream[c])
    BY <1>3 DEF Inputs
  <2>3. \A i \in Inputs(c) : Upstream[c][i] \in Chans
    BY <1>1, <2>2, ElementOfSeq
  <2> QED  BY <2>1, <2>2, <2>3 DEF Edge
<1> QED  BY <1>2, <1>3

\* parallelize only counts the instance.
LEMMA ParallelizeFacts ==
    ASSUME NEW c \in Chans, NEW ch, IsRec(ch, c)
    PROVE  \E n \in Instances(c) : parallelize(ch, c) = [ch EXCEPT !.currId = n]
<1>1. ch.currId \in Instances(c) /\ ch.currId \in Nat /\ Speedup[c] \in Nat
  BY ChannelAssumption DEF IsRec, ChanType, Instances
<1>2. ch = [ch EXCEPT !.currId = ch.currId]
  BY DEF IsRec, ChanType
<1>3. CASE Speedup[c] = 1
  BY <1>1, <1>2, <1>3 DEF parallelize
<1>4. CASE Speedup[c] # 1
  <2>1. Instances(c) = Nat
    BY <1>4 DEF Instances
  <2> QED  BY <1>1, <1>4, <2>1 DEF parallelize
<1> QED  BY <1>3, <1>4

\* pop of a channel that was valid empties it and takes the front of every
\* buffer.
LEMMA PopFacts ==
    ASSUME KeepMode = {}, NEW c \in Chans, NEW ch, IsChan(ch, c)
    PROVE  /\ ~ch.valid => pop(ch) = ch
           /\ ch.valid => /\ pop(ch) = popChannel(ch)
                          /\ pop(ch).channel = <<>>
                          /\ pop(ch).chanBuffer = [i \in Inputs(c) |-> Tail(ch.chanBuffer[i])]
                          /\ pop(ch).popped = ch.popped + 1
                          /\ pop(ch).lastPopVal = ch.chanBuffer[1][1].value
                          /\ pop(ch).valid
                          /\ \A i \in Inputs(c) : ch.chanBuffer[i] # <<>>
           /\ IsRec(pop(ch), c)
           /\ pop(ch).currId = ch.currId /\ pop(ch).bp = ch.bp
           /\ pop(ch).enable = ch.enable /\ pop(ch).pushBufferEnable = ch.pushBufferEnable
           /\ pop(ch).getTheLastData = ch.getTheLastData
           /\ pop(ch).value = ch.value
<1> USE DEF IsChan, IsRec
<1>1. popLastCheck(ch)
  <2>1. ch.lastTagQueue \in [{} -> Int]
    BY DEF ChanType
  <2> QED  BY <2>1 DEF popLastCheck
<1>2. CASE ~ch.valid
  BY <1>2 DEF pop
<1>3. CASE ch.valid
  <2>1. pop(ch) = popChannel(ch)
    BY <1>1, <1>3 DEF pop
  <2>2. ch.channel # <<>> /\ ch.channel \in Seq(Flags) /\ Len(ch.channel) <= 1
    BY <1>3 DEF ChanType, HoldsOK, OffersOK
  <2>3. Tail(ch.channel) = <<>>
    BY <2>2, OneElement
  <2>4. ch.chanBuffer \in [Inputs(c) -> Seq(Datum)]
    BY DEF ChanType
  <2>5. \A i \in Inputs(c) : ch.chanBuffer[i] # <<>>
    BY <2>2, <2>4 DEF HoldsOK
  <2>6. \A i \in Inputs(c) : /\ Tail(ch.chanBuffer[i]) \in Seq(Datum)
                             /\ ch.chanBuffer[i][1] \in Datum
    BY <2>4, <2>5, TailFacts
  <2>7. ch.chanBuffer[1][1].value \in Values
    BY <2>6, InputsFacts DEF Datum
  <2> DEFINE buf  == [i \in Inputs(c) |-> Tail(ch.chanBuffer[i])]
             tags == [d \in DOMAIN ch.lastTagQueue |-> ch.lastTagQueue[d] - 1]
  <2>8. tags \in [{} -> Int]
    <3>1. ch.lastTagQueue \in [{} -> Int]
      BY DEF ChanType
    <3> QED  BY <3>1
  <2>9. popChannel(ch) = [ch EXCEPT !.channel = <<>>, !.chanBuffer = buf,
               !.lastPopVal = ch.chanBuffer[1][1].value, !.lastTagQueue = tags,
               !.popped = ch.popped + 1]
    BY <2>3, <2>4 DEF popChannel, Front, ChanType
  <2>10. popChannel(ch) \in ChanType(c)
    <3>1. buf \in [Inputs(c) -> Seq(Datum)]
      BY <2>6
    <3>3. ch.popped + 1 \in Nat
      BY DEF ChanType
    <3>4. <<>> \in Seq(Flags)
      OBVIOUS
    <3>5. ch \in ChanType(c)
      OBVIOUS
    <3> DEFINE w == ch.chanBuffer[1][1].value
               n == ch.popped + 1
    <3>6. w \in Values /\ n \in Nat
      BY <2>7, <3>3
    <3>7. popChannel(ch) = [ch EXCEPT !.channel = <<>>, !.chanBuffer = buf,
               !.lastPopVal = w, !.lastTagQueue = tags, !.popped = n]
      BY <2>9
    <3> HIDE DEF buf, tags, w, n
    <3> QED  BY ONLY <2>8, <3>1, <3>4, <3>5, <3>6, <3>7 DEF ChanType
  <2>11. HoldsOK(popChannel(ch))
    BY <2>9 DEF HoldsOK, ChanType
  <2>12. /\ popChannel(ch).channel = <<>>
         /\ popChannel(ch).chanBuffer = [i \in Inputs(c) |-> Tail(ch.chanBuffer[i])]
         /\ popChannel(ch).popped = ch.popped + 1
         /\ popChannel(ch).lastPopVal = ch.chanBuffer[1][1].value
         /\ popChannel(ch).valid
    BY <1>3, <2>9 DEF ChanType
  <2>13. /\ popChannel(ch).currId = ch.currId /\ popChannel(ch).bp = ch.bp
         /\ popChannel(ch).enable = ch.enable
         /\ popChannel(ch).pushBufferEnable = ch.pushBufferEnable
         /\ popChannel(ch).getTheLastData = ch.getTheLastData
         /\ popChannel(ch).value = ch.value
    BY <2>9 DEF ChanType
  <2> QED  BY <1>3, <2>1, <2>5, <2>10, <2>11, <2>12, <2>13
<1> QED  BY <1>2, <1>3 DEF ChanType

\* All channels are in a state they can be in.
NetOK == \A u \in Chans : IsChan(chan[u], u)

\* What an upstream channel that is valid offers.
LEMMA OfferType ==
    ASSUME KeepMode = {}, NetOK, NEW c \in Chans, NEW i \in Inputs(c), Upstream[c] # <<>>,
           checkUpstream(c, i)
    PROVE  /\ Offer(c, i) \in Datum
           /\ chan[Upstream[c][i]].valid
           /\ Offer(c, i).value = chan[Upstream[c][i]].value
           /\ Offer(c, i).cond = PathCond(c, i)
           /\ Offer(c, i).last = chan[Upstream[c][i]].channel[1].last
<1> DEFINE u == Upstream[c][i]
           f == chan[u].channel[1]
<1>1. u \in Chans /\ chan[u].valid
  BY InputsFacts DEF checkUpstream
<1>2. IsChan(chan[u], u)
  BY <1>1 DEF NetOK
<1>3. /\ chan[u].channel \in Seq(Flags) /\ Len(chan[u].channel) <= 1 /\ chan[u].channel # <<>>
      /\ chan[u].value \in Values
  BY <1>1, <1>2 DEF IsChan, IsRec, ChanType, HoldsOK, OffersOK
<1>4. f \in Flags
  BY <1>3, OneElement
<1>5. f.last \in BOOLEAN /\ f.lastOuter \in BOOLEAN
  BY <1>4 DEF Flags
<1>6. PathCond(c, i) \in BOOLEAN
  BY DEF PathCond
<1>7. Cycle[c] \in Nat
  BY ChannelAssumption
<1> DEFINE w == IF KeepUpstream(c, i) \/ (branchMode(c) /\ ~PathCond(c, i)) THEN 0 ELSE Cycle[c]
<1>8. w \in Nat
  BY <1>7
<1>9. Offer(c, i) = [value |-> chan[u].value, cond |-> PathCond(c, i), last |-> f.last,
                     lastOuter |-> f.lastOuter, wait |-> w]
  BY DEF Offer, Front
<1> HIDE DEF w, f
<1>10. Offer(c, i) \in Datum
  BY <1>3, <1>5, <1>6, <1>8, <1>9 DEF Datum
<1> QED  BY <1>1, <1>9, <1>10 DEF f

\* push appends what is offered and received to each buffer.
LEMMA PushFacts ==
    ASSUME KeepMode = {}, NetOK, NEW c \in Chans, NEW ch, IsRec(ch, c)
    PROVE  /\ IsRec(push(ch, c), c)
           /\ push(ch, c).chanBuffer = [i \in Inputs(c) |->
                  IF Upstream[c] # <<>> /\ Receives(ch, c, i) THEN Append(ch.chanBuffer[i], Offer(c, i))
                  ELSE ch.chanBuffer[i]]
           /\ push(ch, c).channel = ch.channel /\ push(ch, c).valid = ch.valid
           /\ push(ch, c).currId = ch.currId /\ push(ch, c).bp = ch.bp
           /\ push(ch, c).enable = ch.enable /\ push(ch, c).pushBufferEnable = ch.pushBufferEnable
           /\ push(ch, c).value = ch.value /\ push(ch, c).popped = ch.popped
           /\ push(ch, c).lastPopVal = ch.lastPopVal
<1> USE DEF IsRec
<1> DEFINE buf == [i \in Inputs(c) |->
                  IF Upstream[c] # <<>> /\ Receives(ch, c, i) THEN Append(ch.chanBuffer[i], Offer(c, i))
                  ELSE ch.chanBuffer[i]]
           got == ch.getTheLastData \/ (c \in DGSF /\ Receives(ch, c, 1)
                                         /\ Offer(c, 1).last /\ Offer(c, 1).lastOuter)
<1>1. ch.chanBuffer \in [Inputs(c) -> Seq(Datum)] /\ ch \in ChanType(c)
  BY DEF ChanType
<1>2. push(ch, c) = [ch EXCEPT !.chanBuffer = buf, !.getTheLastData = got]
  BY <1>1 DEF push, ChanType
<1>3. ASSUME NEW i \in Inputs(c)
      PROVE  /\ buf[i] \in Seq(Datum)
             /\ ch.chanBuffer[i] # <<>> => buf[i] # <<>>
  <2>1. CASE Upstream[c] # <<>> /\ Receives(ch, c, i)
    <3>1. Offer(c, i) \in Datum
      BY <2>1, OfferType DEF Receives
    <3>2. /\ Append(ch.chanBuffer[i], Offer(c, i)) \in Seq(Datum)
          /\ Len(Append(ch.chanBuffer[i], Offer(c, i))) = Len(ch.chanBuffer[i]) + 1
          /\ Len(ch.chanBuffer[i]) \in Nat
      BY <1>1, <3>1, AppendProperties, LenProperties
    <3> QED  BY <2>1, <3>2, EmptySeq
  <2>2. CASE ~(Upstream[c] # <<>> /\ Receives(ch, c, i))
    BY <1>1, <2>2
  <2> QED  BY <2>1, <2>2
<1>4. buf \in [Inputs(c) -> Seq(Datum)] /\ DOMAIN buf = Inputs(c)
  BY <1>3
<1>5. got \in BOOLEAN
  BY DEF ChanType
<1> HIDE DEF buf, got
<1>6. push(ch, c) \in ChanType(c)
  BY ONLY <1>1, <1>2, <1>4, <1>5 DEF ChanType
<1>7. /\ push(ch, c).chanBuffer = buf
      /\ push(ch, c).channel = ch.channel /\ push(ch, c).valid = ch.valid
      /\ push(ch, c).currId = ch.currId /\ push(ch, c).bp = ch.bp
      /\ push(ch, c).enable = ch.enable /\ push(ch, c).pushBufferEnable = ch.pushBufferEnable
      /\ push(ch, c).value = ch.value /\ push(ch, c).popped = ch.popped
      /\ push(ch, c).lastPopVal = ch.lastPopVal
  BY ONLY <1>1, <1>2 DEF ChanType
<1>8. HoldsOK(push(ch, c))
  BY <1>1, <1>3, <1>4, <1>7 DEF HoldsOK
<1> QED  BY <1>6, <1>7, <1>8 DEF buf

\* The status of the matched datum.
LEMMA DataStatusType ==
    ASSUME NEW c \in Chans, NEW ch, IsRec(ch, c), checkDataMatch(ch)
    PROVE  <<updateDataStatus(ch, c)>> \in Seq(Flags)
<1> DEFINE source == IF branchMode(c) /\ CondInputs(c) # {} THEN CHOOSE i \in CondInputs(c) : TRUE ELSE 1
           front(i) == Front(ch.chanBuffer[i])
           kept(i)  == KeepUpstream(c, i) \/ c \in DrainMode
           a == Upstream[c] # <<>> => front(source).cond
           b == Upstream[c] # <<>> /\ \E i \in Inputs(c) : ~kept(i) /\ front(i).last
           d == Upstream[c] # <<>> /\ \E i \in Inputs(c) :
                          IF kept(i) THEN front(i).last /\ front(i).lastOuter /\ c \in LoopVars
                          ELSE front(i).lastOuter
<1>1. updateDataStatus(ch, c) = [cond |-> a, last |-> b, lastOuter |-> d]
  BY DEF updateDataStatus
<1>2. a \in BOOLEAN /\ b \in BOOLEAN /\ d \in BOOLEAN
  OBVIOUS
<1> HIDE DEF a, b, d
<1>3. updateDataStatus(ch, c) \in Flags
  BY <1>1, <1>2 DEF Flags
<1> QED  BY <1>3

\* statusUpdate matches a datum if it can, and makes a matched datum valid if
\* every downstream channel has room.
LEMMA StatusFacts ==
    ASSUME KeepMode = {}, NEW c \in Chans, NEW ch, IsRec(ch, c)
    PROVE  LET new == statusUpdate(ch, c)
           IN  /\ IsChan(new, c)
               /\ new.chanBuffer = ch.chanBuffer /\ new.bp = ch.bp /\ new.value = ch.value
               /\ new.popped = ch.popped /\ new.lastPopVal = ch.lastPopVal
               /\ new.enable = ch.enable /\ new.pushBufferEnable = ch.pushBufferEnable
               /\ new.currId = ch.currId
               /\ new.valid => \A d \in Downstream(c) : checkSend(c, d)
               /\ \/ new.channel = ch.channel
                  \/ /\ ch.channel = <<>> /\ checkDataMatch(ch)
                     /\ new.channel = <<updateDataStatus(ch, c)>>
               /\ ch.currId <= Speedup[c] /\ ch.enable /\ (\A d \in Downstream(c) : checkSend(c, d))
                    => (new.valid <=> new.channel # <<>>)
               /\ ch.currId <= Speedup[c] /\ checkDataMatch(ch) => new.channel # <<>>
<1> USE DEF IsRec
<1> DEFINE new  == statusUpdate(ch, c)
           next == pushChannel(ch, c)
           sent == /\ next.channel # <<>> /\ next.enable
                   /\ c \in KeepMode \/ \A d \in Downstream(c) : checkSend(c, d)
           cnt  == IF c \in DGSF /\ sent /\ next.chanDataCnt < Size[c] THEN next.chanDataCnt + 1
                   ELSE next.chanDataCnt
           flag == IF checkDataMatch(ch) /\ ch.channel = <<>> THEN <<updateDataStatus(ch, c)>> ELSE ch.channel
<1>1. ch \in ChanType(c)
  OBVIOUS
<1>2. flag \in Seq(Flags) /\ Len(flag) <= 1
  <2>1. CASE checkDataMatch(ch) /\ ch.channel = <<>>
    BY <2>1, DataStatusType
  <2>2. CASE ~(checkDataMatch(ch) /\ ch.channel = <<>>)
    BY <2>2 DEF ChanType, HoldsOK
  <2> QED  BY <2>1, <2>2
<1>3. flag # <<>> => \A i \in DOMAIN ch.chanBuffer : ch.chanBuffer[i] # <<>>
  BY DEF checkDataMatch, HoldsOK
<1>4. \/ flag = ch.channel
      \/ ch.channel = <<>> /\ checkDataMatch(ch) /\ flag = <<updateDataStatus(ch, c)>>
  OBVIOUS
<1>5. checkDataMatch(ch) => flag # <<>>
  OBVIOUS
<1>6. next = [ch EXCEPT !.channel = flag]
  BY DEF pushChannel, ChanType
<1> HIDE DEF flag
<1>7. next \in ChanType(c)
  BY <1>1, <1>2, <1>6 DEF ChanType
<1>8. /\ next.chanBuffer = ch.chanBuffer /\ next.bp = ch.bp /\ next.value = ch.value
      /\ next.popped = ch.popped /\ next.lastPopVal = ch.lastPopVal
      /\ next.enable = ch.enable /\ next.pushBufferEnable = ch.pushBufferEnable
      /\ next.currId = ch.currId /\ next.channel = flag
  BY <1>1, <1>6 DEF ChanType
<1>9. CASE ch.currId <= Speedup[c] \/ c \in DGSF
  <2>1. new = [next EXCEPT !.valid = sent, !.chanDataCnt = cnt]
    BY <1>7, <1>9 DEF statusUpdate, ChanType
  <2>2. sent \in BOOLEAN /\ cnt \in Nat
    <3>1. next.chanDataCnt \in Nat
      BY <1>7 DEF ChanType
    <3> QED  BY <3>1
  <2>3. sent => flag # <<>> /\ \A d \in Downstream(c) : checkSend(c, d)
    BY <1>8
  <2>4. ch.enable /\ (\A d \in Downstream(c) : checkSend(c, d)) => (sent <=> flag # <<>>)
    BY <1>8
  <2> HIDE DEF sent, cnt, next
  <2>5. new \in ChanType(c)
    BY ONLY <1>7, <2>1, <2>2 DEF ChanType
  <2>6. /\ new.chanBuffer = next.chanBuffer /\ new.bp = next.bp /\ new.value = next.value
        /\ new.popped = next.popped /\ new.lastPopVal = next.lastPopVal
        /\ new.enable = next.enable /\ new.pushBufferEnable = next.pushBufferEnable
        /\ new.currId = next.currId /\ new.channel = next.channel /\ new.valid = sent
    BY ONLY <1>7, <2>1 DEF ChanType
  <2>7. IsChan(new, c)
    BY <1>2, <1>3, <1>8, <2>3, <2>5, <2>6 DEF IsChan, HoldsOK, OffersOK
  <2> HIDE DEF new
  <2>8. (\A d \in Downstream(c) : checkSend(c, d)) /\ ch.enable => (new.valid <=> new.channel # <<>>)
    BY <1>8, <2>4, <2>6
  <2>9. new.valid => \A d \in Downstream(c) : checkSend(c, d)
    BY <2>3, <2>6
  <2>10. \/ new.channel = ch.channel
         \/ ch.channel = <<>> /\ checkDataMatch(ch) /\ new.channel = <<updateDataStatus(ch, c)>>
    BY <1>4, <1>8, <2>6
  <2>11. checkDataMatch(ch) => new.channel # <<>>
    BY <1>5, <1>8, <2>6
  <2> QED  BY <1>8, <2>6, <2>7, <2>8, <2>9, <2>10, <2>11 DEF new
<1>10. CASE ~(ch.currId <= Speedup[c] \/ c \in DGSF)
  <2>1. new = [ch EXCEPT !.valid = FALSE]
    BY <1>10 DEF statusUpdate
  <2>2. new \in ChanType(c) /\ ~new.valid
    BY <1>1, <2>1 DEF ChanType
  <2>3. /\ new.chanBuffer = ch.chanBuffer /\ new.bp = ch.bp /\ new.value = ch.value
        /\ new.popped = ch.popped /\ new.lastPopVal = ch.lastPopVal
        /\ new.enable = ch.enable /\ new.pushBufferEnable = ch.pushBufferEnable
        /\ new.currId = ch.currId /\ new.channel = ch.channel
    BY <1>1, <2>1 DEF ChanType
  <2>4. IsChan(new, c)
    BY <2>2, <2>3 DEF IsChan, HoldsOK, OffersOK
  <2> HIDE DEF new
  <2> QED  BY <1>10, <2>2, <2>3, <2>4 DEF new
<1> QED  BY <1>9, <1>10

\* bpUpdate compares the lengths of the buffers with size.
LEMMA BpFacts ==
    ASSUME NEW c \in Chans, NEW ch, IsChan(ch, c)
    PROVE  LET new == bpUpdate(ch, c)
           IN  /\ IsChan(new, c)
               /\ new.chanBuffer = ch.chanBuffer /\ new.value = ch.value
               /\ new.popped = ch.popped /\ new.lastPopVal = ch.lastPopVal
               /\ new.enable = ch.enable /\ new.pushBufferEnable = ch.pushBufferEnable
               /\ new.currId = ch.currId /\ new.channel = ch.channel /\ new.valid = ch.valid
               /\ \A i \in Inputs(c) :
                     new.bp[i] <=> Len(ch.chanBuffer[i]) >= Size[c] \/ ~ch.pushBufferEnable
<1> DEFINE new == bpUpdate(ch, c)
           bps == [i \in Inputs(c) |-> Len(ch.chanBuffer[i]) >= Size[c] \/ ~ch.pushBufferEnable]
<1>1. ch \in ChanType(c) /\ HoldsOK(ch) /\ OffersOK(ch) /\ ch.bp \in [Inputs(c) -> BOOLEAN]
  BY DEF IsChan, IsRec, ChanType
<1>2. new = [ch EXCEPT !.bp = bps]
  BY <1>1 DEF bpUpdate, ChanType
<1>3. bps \in [Inputs(c) -> BOOLEAN]
  OBVIOUS
<1>4. \A i \in Inputs(c) : bps[i] <=> Len(ch.chanBuffer[i]) >= Size[c] \/ ~ch.pushBufferEnable
  OBVIOUS
<1> HIDE DEF bps
<1>5. new \in ChanType(c)
  BY ONLY <1>1, <1>2, <1>3 DEF ChanType
<1>6. /\ new.chanBuffer = ch.chanBuffer /\ new.value = ch.value
      /\ new.popped = ch.popped /\ new.lastPopVal = ch.lastPopVal
      /\ new.enable = ch.enable /\ new.pushBufferEnable = ch.pushBufferEnable
      /\ new.currId = ch.currId /\ new.channel = ch.channel /\ new.valid = ch.valid /\ new.bp = bps
  BY ONLY <1>1, <1>2 DEF ChanType
<1>7. IsChan(new, c)
  BY <1>1, <1>5, <1>6 DEF IsChan, IsRec, HoldsOK, OffersOK
<1> HIDE DEF new
<1> QED  BY <1>4, <1>6, <1>7 DEF new

\* assign computes the value from the fronts of the buffers.
LEMMA AssignFacts ==
    ASSUME NEW c \in Chans, NEW ch, IsChan(ch, c)
    PROVE  LET new == assign(ch)
           IN  /\ IsChan(new, c)
               /\ new.chanBuffer = ch.chanBuffer /\ new.bp = ch.bp
               /\ new.popped = ch.popped /\ new.lastPopVal = ch.lastPopVal
               /\ new.enable = ch.enable /\ new.pushBufferEnable = ch.pushBufferEnable
               /\ new.currId = ch.currId /\ new.channel = ch.channel /\ new.valid = ch.valid
               /\ (\A i \in Inputs(c) : ch.chanBuffer[i] # <<>>)
                    => new.value = UNION {ch.chanBuffer[i][1].value : i \in Inputs(c)}
<1> DEFINE new == assign(ch)
           val(i) == IF ch.chanBuffer[i] = <<>> THEN {} ELSE Front(ch.chanBuffer[i]).value
           all == UNION {val(i) : i \in Inputs(c)}
<1>1. ch \in ChanType(c) /\ HoldsOK(ch) /\ OffersOK(ch) /\ ch.chanBuffer \in [Inputs(c) -> Seq(Datum)]
  BY DEF IsChan, IsRec, ChanType
<1>2. new = [ch EXCEPT !.value = all]
  BY <1>1 DEF assign
<1>3. all \in Values
  <2>1. ASSUME NEW i \in Inputs(c)
        PROVE  val(i) \in Values
    <3>1. CASE ch.chanBuffer[i] = <<>>
      BY <3>1 DEF Values
    <3>2. CASE ch.chanBuffer[i] # <<>>
      <4>1. ch.chanBuffer[i][1] \in Datum
        BY <1>1, <3>2, TailFacts
      <4> QED  BY <3>2, <4>1 DEF Front, Datum
    <3> QED  BY <3>1, <3>2
  <2> HIDE DEF val
  <2> QED  BY <2>1 DEF Values
<1>4. (\A i \in Inputs(c) : ch.chanBuffer[i] # <<>>)
                    => all = UNION {ch.chanBuffer[i][1].value : i \in Inputs(c)}
  BY DEF Front
<1> HIDE DEF all
<1>5. new \in ChanType(c)
  BY ONLY <1>1, <1>2, <1>3 DEF ChanType
<1>6. /\ new.chanBuffer = ch.chanBuffer /\ new.bp = ch.bp
      /\ new.popped = ch.popped /\ new.lastPopVal = ch.lastPopVal
      /\ new.enable = ch.enable /\ new.pushBufferEnable = ch.pushBufferEnable
      /\ new.currId = ch.currId /\ new.channel = ch.channel /\ new.valid = ch.valid /\ new.value = all
  BY ONLY <1>1, <1>2 DEF ChanType
<1>7. IsChan(new, c)
  BY <1>1, <1>5, <1>6 DEF IsChan, IsRec, HoldsOK, OffersOK
<1> HIDE DEF new
<1> QED  BY <1>4, <1>6, <1>7 DEF new

-----------------------------------------------------------------------------
(* The calls as a whole. *)

\* What is left of a buffer after pop, and what Channel::get adds to it.
Left(ch, i) == IF ch.valid THEN Tail(ch.chanBuffer[i]) ELSE ch.chanBuffer[i]
Takes1(c, i) == Upstream[c] # <<>> /\ Receives(Popped(c), c, i)

\* What Channel::get makes of a channel's record: a datum that was valid is
\* gone, what the upstream channels offer is at the end of the buffers, and the
\* channel is valid only if every downstream channel has room.
GetStep(c, ch, new) ==
    /\ IsChan(new, c)
    /\ new.popped = ch.popped + (IF ch.valid THEN 1 ELSE 0)
    /\ new.lastPopVal = IF ch.valid THEN ch.chanBuffer[1][1].value ELSE ch.lastPopVal
    /\ new.chanBuffer = [i \in Inputs(c) |-> IF Takes1(c, i) THEN Append(Left(ch, i), Offer(c, i))
                                             ELSE Left(ch, i)]
    /\ \A i \in Inputs(c) : new.bp[i] <=> Len(new.chanBuffer[i]) >= Size[c] \/ ~ch.pushBufferEnable
    /\ new.valid => \A d \in Downstream(c) : checkSend(c, d)
    /\ ch.enable /\ Speedup[c] = 1 /\ Downstream(c) = {} => (new.valid <=> new.channel # <<>>)
    /\ new.channel # <<>> => new.value = UNION {new.chanBuffer[i][1].value : i \in Inputs(c)}
    /\ new.enable = ch.enable /\ new.pushBufferEnable = ch.pushBufferEnable
    /\ Popped(c).pushBufferEnable = ch.pushBufferEnable
    /\ Popped(c).getTheLastData = ch.getTheLastData
    /\ \/ ~ch.valid /\ ch.channel # <<>> /\ new.channel = ch.channel
       \/ (ch.valid \/ ch.channel = <<>>) /\ new.channel = <<>>
       \/ (ch.valid \/ ch.channel = <<>>) /\ new.channel = <<updateDataStatus(new, c)>>

\* get, the whole update of a channel, is such a step.
LEMMA GotFacts ==
    ASSUME KeepMode = {}, NetOK, NEW c \in Chans
    PROVE  GetStep(c, chan[c], Got(c))
<1> DEFINE ch == chan[c]
           p0 == parallelize(ch, c)
           p1 == pop(p0)
           p2 == push(p1, c)
           p3 == statusUpdate(p2, c)
           p4 == bpUpdate(p3, c)
           p5 == assign(p4)
<1>1. IsChan(ch, c) /\ IsRec(ch, c) /\ ch \in ChanType(c)
  BY DEF NetOK, IsChan, IsRec
<1>2. PICK n \in Instances(c) : p0 = [ch EXCEPT !.currId = n]
  BY <1>1, ParallelizeFacts
<1>3. /\ p0 \in ChanType(c)
      /\ p0.chanBuffer = ch.chanBuffer /\ p0.channel = ch.channel /\ p0.bp = ch.bp
      /\ p0.valid = ch.valid /\ p0.value = ch.value /\ p0.lastPopVal = ch.lastPopVal
      /\ p0.enable = ch.enable /\ p0.pushBufferEnable = ch.pushBufferEnable
      /\ p0.getTheLastData = ch.getTheLastData /\ p0.popped = ch.popped
  BY ONLY <1>1, <1>2 DEF ChanType
<1>4. IsChan(p0, c)
  BY <1>1, <1>3 DEF IsChan, IsRec, HoldsOK, OffersOK
<1> HIDE DEF p0
<1>5. /\ IsRec(p1, c)
      /\ p1.chanBuffer = [i \in Inputs(c) |-> Left(ch, i)]
      /\ p1.popped = ch.popped + (IF ch.valid THEN 1 ELSE 0)
      /\ p1.lastPopVal = IF ch.valid THEN ch.chanBuffer[1][1].value ELSE ch.lastPopVal
      /\ ch.valid => p1.channel = <<>>
      /\ ~ch.valid => p1.channel = ch.channel
      /\ p1.enable = ch.enable /\ p1.pushBufferEnable = ch.pushBufferEnable
      /\ p1.getTheLastData = ch.getTheLastData
  <2>1. ch.chanBuffer \in [Inputs(c) -> Seq(Datum)] /\ ch.popped \in Nat
    BY <1>1 DEF ChanType
  <2>2. CASE ch.valid
    <3>1. p0.valid
      BY <1>3, <2>2
    <3>2. /\ p1.channel = <<>>
          /\ p1.chanBuffer = [i \in Inputs(c) |-> Tail(p0.chanBuffer[i])]
          /\ p1.popped = p0.popped + 1 /\ p1.lastPopVal = p0.chanBuffer[1][1].value
          /\ p1.enable = p0.enable /\ p1.pushBufferEnable = p0.pushBufferEnable
          /\ p1.getTheLastData = p0.getTheLastData /\ IsRec(p1, c)
      BY <1>4, <3>1, PopFacts
    <3> HIDE DEF p1, ch
    <3>3. p1.chanBuffer = [i \in Inputs(c) |-> Left(ch, i)]
      BY <1>3, <3>2, <2>2 DEF Left
    <3> QED  BY <1>3, <2>2, <3>2, <3>3
  <2>3. CASE ~ch.valid
    <3>1. p1 = p0
      BY <1>3, <1>4, <2>3, PopFacts
    <3>2. IsRec(p1, c)
      BY <1>4, PopFacts
    <3> HIDE DEF p1, ch
    <3>3. p1.chanBuffer = [i \in Inputs(c) |-> Left(ch, i)]
      BY <1>3, <3>1, <2>1, <2>3 DEF Left
    <3> QED  BY <1>3, <2>1, <2>3, <3>1, <3>2, <3>3
  <2> QED  BY <2>2, <2>3
<1>6. Popped(c) = p1
  BY DEF Popped, p0
<1> HIDE DEF p1
<1>7. /\ IsRec(p2, c)
      /\ p2.chanBuffer = [i \in Inputs(c) |-> IF Takes1(c, i) THEN Append(Left(ch, i), Offer(c, i))
                                              ELSE Left(ch, i)]
      /\ p2.channel = p1.channel /\ p2.popped = p1.popped /\ p2.lastPopVal = p1.lastPopVal
      /\ p2.enable = ch.enable /\ p2.pushBufferEnable = ch.pushBufferEnable
  BY <1>5, <1>6, PushFacts DEF Takes1
<1> HIDE DEF p2
<1>8. /\ IsChan(p3, c)
      /\ p3.chanBuffer = p2.chanBuffer /\ p3.popped = p2.popped /\ p3.lastPopVal = p2.lastPopVal
      /\ p3.enable = ch.enable /\ p3.pushBufferEnable = ch.pushBufferEnable
      /\ p3.valid => \A d \in Downstream(c) : checkSend(c, d)
      /\ \/ p3.channel = p2.channel
         \/ p2.channel = <<>> /\ checkDataMatch(p2) /\ p3.channel = <<updateDataStatus(p2, c)>>
      /\ ch.enable /\ Speedup[c] = 1 /\ Downstream(c) = {} => (p3.valid <=> p3.channel # <<>>)
  <2>1. Speedup[c] = 1 => p2.currId <= Speedup[c]
    BY <1>7 DEF IsRec, ChanType, Instances
  <2> QED  BY <1>7, <2>1, StatusFacts
<1> HIDE DEF p3
<1>9. /\ IsChan(p4, c)
      /\ p4.chanBuffer = p3.chanBuffer /\ p4.popped = p3.popped /\ p4.lastPopVal = p3.lastPopVal
      /\ p4.enable = ch.enable /\ p4.pushBufferEnable = ch.pushBufferEnable
      /\ p4.valid = p3.valid /\ p4.channel = p3.channel
      /\ \A i \in Inputs(c) : p4.bp[i] <=> Len(p3.chanBuffer[i]) >= Size[c] \/ ~ch.pushBufferEnable
  BY <1>8, BpFacts
<1> HIDE DEF p4
<1>10. /\ IsChan(p5, c)
       /\ p5.chanBuffer = p4.chanBuffer /\ p5.popped = p4.popped /\ p5.lastPopVal = p4.lastPopVal
       /\ p5.enable = ch.enable /\ p5.pushBufferEnable = ch.pushBufferEnable
       /\ p5.valid = p4.valid /\ p5.channel = p4.channel /\ p5.bp = p4.bp
       /\ (\A i \in Inputs(c) : p4.chanBuffer[i] # <<>>)
             => p5.value = UNION {p4.chanBuffer[i][1].value : i \in Inputs(c)}
  BY <1>9, AssignFacts
<1> HIDE DEF p5
<1>11. p5 = Got(c)
  BY <1>6 DEF Got, p2, p3, p4, p5
<1>12. p5.channel # <<>> => p5.value = UNION {p5.chanBuffer[i][1].value : i \in Inputs(c)}
  <2>1. HAVE p5.channel # <<>>
  <2>2. \A i \in Inputs(c) : p4.chanBuffer[i] # <<>>
    <3>1. HoldsOK(p4) /\ p4.chanBuffer \in [Inputs(c) -> Seq(Datum)]
      BY <1>9 DEF IsChan, IsRec, ChanType
    <3> QED  BY <2>1, <1>10, <3>1 DEF HoldsOK
  <2>3. p5.value = UNION {p4.chanBuffer[i][1].value : i \in Inputs(c)}
    BY <1>10, <2>2
  <2> QED  BY <1>10, <2>3
<1>13. updateDataStatus(p2, c) = updateDataStatus(p5, c)
  BY <1>8, <1>9, <1>10 DEF updateDataStatus
<1>14. \/ ~ch.valid /\ ch.channel # <<>> /\ p5.channel = ch.channel
       \/ (ch.valid \/ ch.channel = <<>>) /\ p5.channel = <<>>
       \/ (ch.valid \/ ch.channel = <<>>) /\ p5.channel = <<updateDataStatus(p5, c)>>
  BY <1>5, <1>7, <1>8, <1>9, <1>10, <1>13
<1> HIDE DEF ch
<1>15. /\ \A i \in Inputs(c) : p5.bp[i] <=> Len(p5.chanBuffer[i]) >= Size[c] \/ ~ch.pushBufferEnable
       /\ p5.valid => \A d \in Downstream(c) : checkSend(c, d)
       /\ p5.chanBuffer = [i \in Inputs(c) |-> IF Takes1(c, i) THEN Append(Left(ch, i), Offer(c, i))
                                               ELSE Left(ch, i)]
  <2>1. p5.chanBuffer = p3.chanBuffer /\ p5.bp = p4.bp
    BY <1>9, <1>10
  <2>2. p5.chanBuffer = p2.chanBuffer
    BY <1>8, <2>1
  <2> QED  BY <1>7, <1>8, <1>9, <1>10, <2>1, <2>2
<1>16. p5.popped = p1.popped /\ p5.lastPopVal = p1.lastPopVal
  BY <1>7, <1>8, <1>9, <1>10
<1>17. /\ p5.popped = ch.popped + (IF ch.valid THEN 1 ELSE 0)
       /\ ch.enable /\ Speedup[c] = 1 /\ Downstream(c) = {} => (p5.valid <=> p5.channel # <<>>)
       /\ p5.lastPopVal = IF ch.valid THEN ch.chanBuffer[1][1].value ELSE ch.lastPopVal
       /\ p5.enable = ch.enable /\ p5.pushBufferEnable = ch.pushBufferEnable /\ IsChan(p5, c)
       /\ Popped(c).pushBufferEnable = ch.pushBufferEnable
       /\ Popped(c).getTheLastData = ch.getTheLastData
  BY <1>5, <1>6, <1>8, <1>9, <1>10, <1>16
<1>18. GetStep(c, ch, p5)
  BY ONLY <1>12, <1>14, <1>15, <1>17 DEF GetStep
<1> QED  BY <1>11, <1>18 DEF ch

\* A Lse takes what is offered, and may pass the operands of one access on.
Fill(ch, c, i) ==
    IF Upstream[c] # <<>> /\ Receives(ch, c, i) THEN Append(ch.chanBuffer[i], Offer(c, i))
    ELSE ch.chanBuffer[i]

LseStep(c, ch, new) ==
    /\ IsChan(new, c) /\ new.channel = <<>>
    /\ new.enable = ch.enable /\ new.pushBufferEnable = ch.pushBufferEnable
    /\ \A i \in Inputs(c) : new.bp[i] <=> Len(new.chanBuffer[i]) >= Size[c] \/ ~ch.pushBufferEnable
    /\ \/ new.popped = ch.popped /\ \A i \in Inputs(c) : new.chanBuffer[i] = Fill(ch, c, i)
       \/ /\ new.popped = ch.popped + 1
          /\ \A i \in Inputs(c) : Fill(ch, c, i) # <<>> /\ new.chanBuffer[i] = Tail(Fill(ch, c, i))

\* The update of a channel of an Lse is such a step.
LEMMA LseFacts ==
    ASSUME KeepMode = {}, NetOK, NEW c \in Chans, chan[c].channel = <<>>, NEW slotFree
    PROVE  LseStep(c, chan[c], pushReqQ(push(chan[c], c), c, slotFree))
<1> DEFINE ch == chan[c]
           p1 == push(ch, c)
           p2 == IF checkDataMatch(p1) /\ slotFree THEN Takes(p1) ELSE p1
           p3 == bpUpdate(p2, c)
<1>1. IsChan(ch, c) /\ IsRec(ch, c) /\ ~ch.valid /\ ch.channel = <<>>
  BY DEF NetOK, IsChan, IsRec, OffersOK
<1>2. /\ IsRec(p1, c) /\ p1.channel = <<>> /\ ~p1.valid /\ p1.popped = ch.popped
      /\ \A i \in Inputs(c) : p1.chanBuffer[i] = Fill(ch, c, i)
      /\ p1.enable = ch.enable /\ p1.pushBufferEnable = ch.pushBufferEnable
  <2>1. /\ IsRec(p1, c) /\ p1.channel = ch.channel /\ p1.valid = ch.valid /\ p1.popped = ch.popped
        /\ p1.enable = ch.enable /\ p1.pushBufferEnable = ch.pushBufferEnable
        /\ p1.chanBuffer = [i \in Inputs(c) |->
                  IF Upstream[c] # <<>> /\ Receives(ch, c, i) THEN Append(ch.chanBuffer[i], Offer(c, i))
                  ELSE ch.chanBuffer[i]]
    BY <1>1, PushFacts
  <2> HIDE DEF p1, ch
  <2>2. \A i \in Inputs(c) : p1.chanBuffer[i] = Fill(ch, c, i)
    BY <2>1 DEF Fill
  <2> QED  BY <1>1, <2>1, <2>2
<1> HIDE DEF p1, ch
<1>3. p1 \in ChanType(c) /\ p1.chanBuffer \in [Inputs(c) -> Seq(Datum)] /\ p1.popped \in Nat
  BY <1>2 DEF IsRec, ChanType
<1>4. /\ IsChan(p2, c) /\ p2.channel = <<>>
      /\ p2.enable = ch.enable /\ p2.pushBufferEnable = ch.pushBufferEnable
      /\ \/ p2.popped = ch.popped /\ \A i \in Inputs(c) : p2.chanBuffer[i] = Fill(ch, c, i)
         \/ /\ p2.popped = ch.popped + 1
            /\ \A i \in Inputs(c) : Fill(ch, c, i) # <<>> /\ p2.chanBuffer[i] = Tail(Fill(ch, c, i))
  <2>1. CASE checkDataMatch(p1) /\ slotFree
    <3> DEFINE buf == [i \in Inputs(c) |-> Tail(p1.chanBuffer[i])]
    <3>1. \A i \in Inputs(c) : p1.chanBuffer[i] # <<>>
      BY <1>3, <2>1 DEF checkDataMatch
    <3>2. buf \in [Inputs(c) -> Seq(Datum)]
      BY <1>3, <3>1, TailFacts
    <3> DEFINE n == p1.popped + 1
    <3>3. p2 = [p1 EXCEPT !.chanBuffer = buf, !.popped = n]
      BY <1>3, <2>1 DEF Takes, ChanType
    <3>4. (\A i \in Inputs(c) : buf[i] = Tail(p1.chanBuffer[i])) /\ n \in Nat /\ n = p1.popped + 1
      BY <1>3
    <3> HIDE DEF buf, p2, n
    <3>5. p2 \in ChanType(c)
      BY ONLY <1>3, <3>2, <3>3, <3>4 DEF ChanType
    <3>6. /\ p2.channel = p1.channel /\ p2.valid = p1.valid /\ p2.enable = p1.enable
          /\ p2.pushBufferEnable = p1.pushBufferEnable
          /\ p2.chanBuffer = buf /\ p2.popped = n
      BY ONLY <1>3, <3>3 DEF ChanType
    <3>7. IsChan(p2, c)
      BY <1>2, <3>5, <3>6 DEF IsChan, IsRec, HoldsOK, OffersOK
    <3> QED  BY <1>2, <3>1, <3>4, <3>6, <3>7
  <2>2. CASE ~(checkDataMatch(p1) /\ slotFree)
    <3>1. p2 = p1
      BY <2>2
    <3>2. IsChan(p1, c)
      BY <1>2 DEF IsChan, OffersOK
    <3> QED  BY <1>2, <3>1, <3>2
  <2> QED  BY <2>1, <2>2
<1> HIDE DEF p2
<1>5. /\ IsChan(p3, c) /\ p3.channel = p2.channel /\ p3.popped = p2.popped
      /\ p3.chanBuffer = p2.chanBuffer
      /\ p3.enable = p2.enable /\ p3.pushBufferEnable = p2.pushBufferEnable
      /\ \A i \in Inputs(c) : p3.bp[i] <=> Len(p2.chanBuffer[i]) >= Size[c] \/ ~p2.pushBufferEnable
  BY <1>4, BpFacts
<1> HIDE DEF p3
<1>6. LseStep(c, ch, p3)
  BY <1>4, <1>5 DEF LseStep
<1> QED  BY <1>6 DEF p1, p2, p3, ch, pushReqQ

\* pop and statusUpdate alone, as Mux::muxUpdate and Lc::lcUpdate begin.
WireStep(c, ch, new) ==
    /\ IsChan(new, c)
    /\ new.chanBuffer = [i \in Inputs(c) |-> Left(ch, i)]
    /\ new.bp = ch.bp /\ new.enable = ch.enable /\ new.pushBufferEnable = ch.pushBufferEnable
    /\ new.valid => \A d \in Downstream(c) : checkSend(c, d)
    /\ new.currId = ch.currId
    /\ LET old == IF ch.valid THEN <<>> ELSE ch.channel
       IN  new.channel = old \/ (old = <<>> /\ Left(ch, 1) # <<>>)
    /\ ch.currId <= Speedup[c] /\ ch.enable /\ (\A d \in Downstream(c) : checkSend(c, d))
         => (new.valid <=> new.channel # <<>>)

\* They are such a step.
LEMMA WireFacts ==
    ASSUME KeepMode = {}, NEW c \in Chans, NEW ch, IsChan(ch, c)
    PROVE  WireStep(c, ch, statusUpdate(pop(ch), c))
<1> DEFINE p1 == pop(ch)
           p2 == statusUpdate(p1, c)
<1>1. ch.chanBuffer \in [Inputs(c) -> Seq(Datum)]
  BY DEF IsChan, IsRec, ChanType
<1>2. /\ IsRec(p1, c) /\ p1.currId = ch.currId /\ p1.bp = ch.bp
      /\ p1.enable = ch.enable /\ p1.pushBufferEnable = ch.pushBufferEnable
      /\ p1.channel = IF ch.valid THEN <<>> ELSE ch.channel
      /\ p1.chanBuffer = [i \in Inputs(c) |-> Left(ch, i)]
  <2>1. CASE ch.valid
    BY <2>1, PopFacts DEF Left
  <2>2. CASE ~ch.valid
    <3>1. p1 = ch /\ IsRec(p1, c)
      BY <2>2, PopFacts
    <3>2. ch.chanBuffer = [i \in Inputs(c) |-> Left(ch, i)]
      BY <1>1, <2>2 DEF Left
    <3> QED  BY <2>2, <3>1, <3>2
  <2> QED  BY <2>1, <2>2
<1> HIDE DEF p1
<1>3. /\ IsChan(p2, c) /\ p2.chanBuffer = p1.chanBuffer /\ p2.bp = p1.bp
      /\ p2.enable = p1.enable /\ p2.pushBufferEnable = p1.pushBufferEnable
      /\ p2.currId = p1.currId
      /\ p2.valid => \A d \in Downstream(c) : checkSend(c, d)
      /\ p2.channel = p1.channel \/ (p1.channel = <<>> /\ checkDataMatch(p1))
      /\ p1.currId <= Speedup[c] /\ p1.enable /\ (\A d \in Downstream(c) : checkSend(c, d))
           => (p2.valid <=> p2.channel # <<>>)
  BY <1>2, StatusFacts
<1> HIDE DEF p2
<1>4. checkDataMatch(p1) => Left(ch, 1) # <<>>
  BY <1>2, InputsFacts DEF checkDataMatch
<1>5. WireStep(c, ch, p2)
  BY <1>2, <1>3, <1>4 DEF WireStep
<1> QED  BY <1>5 DEF p1, p2

\* get(data) of a channel without upstream.
DataStep(c, ch, new) ==
    /\ IsChan(new, c)
    /\ new.enable = ch.enable /\ new.pushBufferEnable = ch.pushBufferEnable
    /\ new.valid => \A d \in Downstream(c) : checkSend(c, d)
    /\ Len(new.chanBuffer[1]) = IF Len(Left(ch, 1)) = Size[c] THEN Size[c] ELSE Len(Left(ch, 1)) + 1
    /\ new.bp[1] <=> Len(new.chanBuffer[1]) >= Size[c] \/ ~ch.pushBufferEnable
    /\ new.chanBuffer[1] # <<>>
    /\ Left(ch, 1) = <<>> => new.chanBuffer[1][1].wait = Cycle[c]
    /\ Left(ch, 1) # <<>> => new.chanBuffer[1][1] = Left(ch, 1)[1]
    /\ ch.currId <= Speedup[c] /\ ch.enable /\ (\A d \in Downstream(c) : checkSend(c, d))
         => (new.valid <=> new.channel # <<>>)
    /\ ch.currId <= Speedup[c] /\ new.chanBuffer[1][1].wait = 0 => new.channel # <<>>

\* The update of a channel fed with data is such a step.
LEMMA DataFacts ==
    ASSUME KeepMode = {}, NEW c \in Chans, Upstream[c] = <<>>, NEW ch, IsChan(ch, c),
           NEW value \in Values
    PROVE  DataStep(c, ch, GotData(ch, c, value))
<1> DEFINE p1 == pop(ch)
           p2 == pushData(p1, c, value)
           p3 == statusUpdate(p2, c)
           p4 == bpUpdate(p3, c)
           datum == [value |-> value, cond |-> TRUE, last |-> FALSE, lastOuter |-> FALSE, wait |-> Cycle[c]]
           b   == IF Len(Left(ch, 1)) = Size[c] THEN Left(ch, 1) ELSE Append(Left(ch, 1), datum)
<1>1. ch.chanBuffer \in [Inputs(c) -> Seq(Datum)] /\ Inputs(c) = {1}
  BY DEF IsChan, IsRec, ChanType, Inputs
<1>2. /\ IsRec(p1, c) /\ p1.currId = ch.currId
      /\ p1.enable = ch.enable /\ p1.pushBufferEnable = ch.pushBufferEnable
      /\ p1.chanBuffer[1] = Left(ch, 1)
  <2>1. CASE ch.valid
    <3>1. p1.chanBuffer = [i \in Inputs(c) |-> Tail(ch.chanBuffer[i])]
      BY <2>1, PopFacts
    <3>2. p1.chanBuffer[1] = Left(ch, 1)
      BY <1>1, <2>1, <3>1 DEF Left
    <3> QED  BY <3>2, PopFacts
  <2>2. CASE ~ch.valid
    BY <1>1, <2>2, PopFacts DEF Left
  <2> QED  BY <2>1, <2>2
<1> HIDE DEF p1
<1>3. p1 \in ChanType(c) /\ HoldsOK(p1) /\ p1.chanBuffer \in [Inputs(c) -> Seq(Datum)] /\ Left(ch, 1) \in Seq(Datum)
  BY <1>1, <1>2 DEF IsRec, ChanType
<1>4. Cycle[c] \in Nat /\ Size[c] \in Nat \ {0}
  BY ChannelAssumption
<1>5. datum \in Datum
  BY <1>4 DEF Datum
<1>6. datum.wait = Cycle[c]
  OBVIOUS
<1> HIDE DEF datum
<1>7. /\ b \in Seq(Datum) /\ b # <<>>
      /\ Len(b) = IF Len(Left(ch, 1)) = Size[c] THEN Size[c] ELSE Len(Left(ch, 1)) + 1
      /\ Left(ch, 1) = <<>> => b[1].wait = Cycle[c]
      /\ Left(ch, 1) # <<>> => b[1] = Left(ch, 1)[1]
  <2>1. Len(Left(ch, 1)) \in Nat /\ (Left(ch, 1) = <<>> <=> Len(Left(ch, 1)) = 0)
    BY <1>3, EmptySeq, LenProperties
  <2>2. CASE Len(Left(ch, 1)) = Size[c]
    BY <1>3, <1>4, <2>1, <2>2
  <2>3. CASE Len(Left(ch, 1)) # Size[c]
    <3>1. b = Append(Left(ch, 1), datum)
      BY <2>3
    <3>2. b \in Seq(Datum) /\ Len(b) = Len(Left(ch, 1)) + 1 /\ b # <<>>
      BY <1>3, <1>5, <2>1, <3>1, AppendProperties, EmptySeq
    <3>3. Len(Left(ch, 1)) = 0 => b[1] = datum
      BY <1>3, <1>5, <3>1, AppendProperties
    <3>4. Len(Left(ch, 1)) # 0 => b[1] = Left(ch, 1)[1]
      BY <1>3, <1>5, <2>1, <3>1, AppendProperties
    <3> QED  BY <1>6, <2>1, <2>3, <3>2, <3>3, <3>4
  <2> QED  BY <2>2, <2>3
<1>8. p2 = [p1 EXCEPT !.chanBuffer = [p1.chanBuffer EXCEPT ![1] = b]]
  <2>1. CASE Len(Left(ch, 1)) = Size[c]
    <3>1. p2 = p1
      BY <1>2, <2>1 DEF pushData
    <3>2. [p1.chanBuffer EXCEPT ![1] = b] = p1.chanBuffer
      BY <1>1, <1>2, <1>3, <2>1
    <3>3. p1 = [p1 EXCEPT !.chanBuffer = p1.chanBuffer]
      BY <1>3 DEF ChanType
    <3> QED  BY <3>1, <3>2, <3>3
  <2>2. CASE Len(Left(ch, 1)) # Size[c]
    BY <1>1, <1>2, <1>3, <2>2 DEF pushData, ChanType, datum
  <2> QED  BY <2>1, <2>2
<1> DEFINE buf == [p1.chanBuffer EXCEPT ![1] = b]
<1>9. buf \in [Inputs(c) -> Seq(Datum)] /\ buf[1] = b
  BY <1>1, <1>3, <1>7
<1> HIDE DEF buf, b, p2
<1>10. p2 \in ChanType(c)
  BY <1>3, <1>8, <1>9 DEF ChanType, buf
<1>11. /\ p2.chanBuffer[1] = b /\ p2.channel = p1.channel /\ p2.currId = ch.currId
       /\ p2.enable = ch.enable /\ p2.pushBufferEnable = ch.pushBufferEnable
       /\ DOMAIN p2.chanBuffer = {1}
  BY <1>1, <1>2, <1>3, <1>8, <1>9 DEF ChanType, buf
<1>12. IsRec(p2, c)
  BY <1>3, <1>7, <1>10, <1>11 DEF IsRec, HoldsOK
<1>13. /\ IsChan(p3, c) /\ p3.chanBuffer = p2.chanBuffer
       /\ p3.enable = ch.enable /\ p3.pushBufferEnable = ch.pushBufferEnable
       /\ p3.valid => \A d \in Downstream(c) : checkSend(c, d)
       /\ ch.currId <= Speedup[c] /\ ch.enable /\ (\A d \in Downstream(c) : checkSend(c, d))
            => (p3.valid <=> p3.channel # <<>>)
       /\ ch.currId <= Speedup[c] /\ checkDataMatch(p2) => p3.channel # <<>>
  BY <1>11, <1>12, StatusFacts
<1> HIDE DEF p3
<1>14. /\ IsChan(p4, c) /\ p4.chanBuffer = p3.chanBuffer /\ p4.channel = p3.channel
       /\ p4.enable = ch.enable /\ p4.pushBufferEnable = ch.pushBufferEnable
       /\ p4.valid = p3.valid
       /\ \A i \in Inputs(c) : p4.bp[i] <=> Len(p3.chanBuffer[i]) >= Size[c] \/ ~ch.pushBufferEnable
  BY <1>13, BpFacts
<1> HIDE DEF p4
<1>15. b[1].wait = 0 => checkDataMatch(p2)
  BY <1>7, <1>11 DEF checkDataMatch, Front
<1>16. p4.chanBuffer[1] = b /\ (p4.bp[1] <=> Len(b) >= Size[c] \/ ~ch.pushBufferEnable)
  BY <1>1, <1>11, <1>13, <1>14
<1>17. DataStep(c, ch, p4)
  BY <1>7, <1>13, <1>14, <1>15, <1>16 DEF DataStep
<1> QED  BY <1>17 DEF p1, p2, p3, p4, GotData

-----------------------------------------------------------------------------
(* The order of the main loop. *)

\* Statement m ran after statement n did last.
Fresh(m, n) == IF m < pc THEN pc <= n \/ n < m ELSE pc <= n /\ n < m

\* Channel c has been updated since d was: what it offers now, d has not seen.
Due(c, d) == \E m, n \in DOMAIN Program : c \in Updates(m) /\ d \in Updates(n) /\ Fresh(m, n)

\* The channels that the next statement updates.
Now == IF pc = 0 THEN {} ELSE Updates(pc)

PcOK == pc \in 0 .. Len(Program)
PcStep == pc' = IF pc + 1 > Len(Program) THEN 0 ELSE pc + 1

\* Statements are counted from one.
LEMMA ProgramType == DOMAIN Program = 1 .. Len(Program) /\ Len(Program) \in Nat
  BY ProgramAssumption, LenProperties

\* The kinds of statements.
LEMMA StatementKinds ==
    ASSUME NEW n \in DOMAIN Program
    PROVE  LET argument == Program[n][2]
           IN  /\ \/ Program[n][1] = "get" /\ argument \in Chans \ Lses /\ Updates(n) = {argument}
                  \/ Program[n][1] = "lse" /\ argument \in Lses /\ Updates(n) = {argument}
                  \/ Program[n][1] = "mux" /\ argument \in Lcs /\ Updates(n) = {outChan[argument]}
                  \/ /\ Program[n][1] = "lc" /\ argument \in Lcs
                     /\ Updates(n) = {getEnd[argument], sendEnd[argument]}
                  \/ Program[n][1] = "sched" /\ Updates(n) = {}
               /\ Updates(n) \subseteq Chans
<1>1. Program[n] \in Statements
  BY ProgramAssumption, ElementOfSeq, ProgramType
<1>2. Lses \subseteq Chans
  BY ChannelAssumption
<1>3. \A l \in Lcs : {outChan[l], getEnd[l], sendEnd[l]} \subseteq Chans
  BY LoopAssumption
<1>4. CASE Program[n] \in {"get"} \X (Chans \ Lses)
  BY <1>4 DEF Updates
<1>5. CASE Program[n] \in {"lse"} \X Lses
  BY <1>2, <1>5 DEF Updates
<1>6. CASE Program[n] \in {"mux", "lc"} \X Lcs
  <2>1. CASE Program[n][1] = "mux"
    BY <1>3, <1>6, <2>1 DEF Updates
  <2>2. CASE Program[n][1] = "lc"
    BY <1>3, <1>6, <2>2 DEF Updates
  <2> QED  BY <1>6, <2>1, <2>2
<1>7. CASE Program[n] = <<"sched", "graph">>
  <2>1. Program[n][1] = "sched"
    BY <1>7
  <2>2. Updates(n) = {}
    BY <2>1 DEF Updates
  <2> QED  BY <2>1, <2>2
<1> QED  BY <1>1, <1>4, <1>5, <1>6, <1>7 DEF Statements

\* A channel is updated by one statement, and never with one of its upstreams.
LEMMA OneUpdate ==
    ASSUME NEW m \in DOMAIN Program, NEW n \in DOMAIN Program,
           NEW c \in Updates(m), NEW d \in Updates(n)
    PROVE  /\ c = d => m = n
           /\ Edge(c, d) => m # n
  BY ProgramAssumption

\* The three statements of a Lc.
MuxAt(l) == CHOOSE n \in DOMAIN Program :
               /\ Program[n] = <<"mux", l>>
               /\ n + 1 \in DOMAIN Program /\ Program[n + 1] = <<"get", loopVar[l]>>
               /\ n + 2 \in DOMAIN Program /\ Program[n + 2] = <<"lc", l>>

\* The three statements of a loop control follow one another, and each of the
\* channels it drives is updated by no other statement.
LEMMA LcStatements ==
    ASSUME NEW l \in Lcs
    PROVE  LET n == MuxAt(l)
           IN  /\ n \in DOMAIN Program /\ n + 1 \in DOMAIN Program /\ n + 2 \in DOMAIN Program
               /\ n \in Nat \ {0}
               /\ Updates(n) = {outChan[l]}
               /\ Updates(n + 1) = {loopVar[l]}
               /\ Updates(n + 2) = {getEnd[l], sendEnd[l]}
               /\ \A k \in DOMAIN Program :
                     /\ Program[k][1] = "mux" /\ Program[k][2] = l => k = n
                     /\ outChan[l] \in Updates(k) => k = n
                     /\ loopVar[l] \in Updates(k) => k = n + 1
                     /\ Program[k][1] = "lc" /\ Program[k][2] = l => k = n + 2
                     /\ getEnd[l] \in Updates(k) \/ sendEnd[l] \in Updates(k) => k = n + 2
               /\ loopVar[l] \in Chans \ Lses /\ loopVar[l] \in LoopVars
               /\ outChan[l] # loopVar[l]
               /\ loopVar[l] \notin {getEnd[l], sendEnd[l]}
               /\ outChan[l] \notin {getEnd[l], sendEnd[l]}
<1> DEFINE n == MuxAt(l)
<1>1. /\ n \in DOMAIN Program /\ n + 1 \in DOMAIN Program /\ n + 2 \in DOMAIN Program
      /\ Program[n] = <<"mux", l>> /\ Program[n + 1] = <<"get", loopVar[l]>>
      /\ Program[n + 2] = <<"lc", l>>
  BY ProgramAssumption DEF MuxAt
<1> HIDE DEF n
<1>2. n \in Nat \ {0}
  BY <1>1, ProgramType
<1>3. /\ Updates(n) = {outChan[l]} /\ Updates(n + 1) = {loopVar[l]}
      /\ Updates(n + 2) = {getEnd[l], sendEnd[l]} /\ loopVar[l] \in Chans \ Lses
  <2>1. Updates(n) = {outChan[l]}
    BY <1>1, StatementKinds
  <2>2. Updates(n + 1) = {loopVar[l]} /\ loopVar[l] \in Chans \ Lses
    BY <1>1, StatementKinds
  <2>3. Updates(n + 2) = {getEnd[l], sendEnd[l]}
    BY <1>1, StatementKinds
  <2> QED  BY <2>1, <2>2, <2>3
<1>4. ASSUME NEW k \in DOMAIN Program
      PROVE  /\ outChan[l] \in Updates(k) => k = n
             /\ loopVar[l] \in Updates(k) => k = n + 1
             /\ getEnd[l] \in Updates(k) \/ sendEnd[l] \in Updates(k) => k = n + 2
  BY <1>1, <1>3, OneUpdate
<1>5. ASSUME NEW k \in DOMAIN Program
      PROVE  /\ Program[k][1] = "mux" /\ Program[k][2] = l => k = n
             /\ Program[k][1] = "lc" /\ Program[k][2] = l => k = n + 2
  BY <1>4, StatementKinds
<1>6. /\ outChan[l] # loopVar[l]
      /\ loopVar[l] \notin {getEnd[l], sendEnd[l]}
      /\ outChan[l] \notin {getEnd[l], sendEnd[l]}
  <2>1. n # n + 1 /\ n # n + 2 /\ n + 1 # n + 2
    BY <1>2
  <2> QED  BY <1>1, <1>3, <1>4, <2>1
<1>7. loopVar[l] \in LoopVars
  BY LoopAssumption
<1> QED  BY <1>1, <1>2, <1>3, <1>4, <1>5, <1>6, <1>7 DEF n

\* A step of the main loop leaves Fresh as it is between other statements,
\* and makes the statement that ran the latest of all.
LEMMA FreshStep ==
    ASSUME PcOK, PcStep, NEW m \in DOMAIN Program, NEW n \in DOMAIN Program, m # n
    PROVE  /\ m # pc /\ n # pc => (Fresh(m, n)' <=> Fresh(m, n))
           /\ n = pc => Fresh(m, n) /\ ~Fresh(m, n)'
           /\ m = pc => ~Fresh(m, n) /\ Fresh(m, n)'
<1>1. m \in 1 .. Len(Program) /\ n \in 1 .. Len(Program) /\ Len(Program) \in Nat
  BY ProgramType
<1> QED  BY <1>1 DEF PcOK, PcStep, Fresh

\* The same for channels.
LEMMA DueStep ==
    ASSUME PcOK, PcStep, NEW c, NEW d, Edge(c, d),
           NEW m \in DOMAIN Program, c \in Updates(m), NEW n \in DOMAIN Program, d \in Updates(n)
    PROVE  /\ Due(c, d) <=> Fresh(m, n)
           /\ Due(c, d)' <=> Fresh(m, n)'
           /\ c \notin Now /\ d \notin Now => (Due(c, d)' <=> Due(c, d))
           /\ d \in Now => Due(c, d) /\ ~Due(c, d)' /\ c \notin Now
           /\ c \in Now => ~Due(c, d) /\ Due(c, d)' /\ d \notin Now
<1>1. m # n
  BY OneUpdate
<1>2. \A k \in DOMAIN Program : (c \in Updates(k) => k = m) /\ (d \in Updates(k) => k = n)
  BY OneUpdate
<1>3. (Due(c, d) <=> Fresh(m, n)) /\ (Due(c, d)' <=> Fresh(m, n)')
  BY <1>2 DEF Due
<1>4. m # 0 /\ n # 0
  BY ProgramType
<1>5. (c \in Now <=> pc = m) /\ (d \in Now <=> pc = n)
  <2>1. pc # 0 => pc \in DOMAIN Program
    BY ProgramType DEF PcOK
  <2> QED  BY <1>2, <1>4, <2>1 DEF Now
<1> QED  BY <1>1, <1>3, <1>5, FreshStep

-----------------------------------------------------------------------------
(* Room in the buffers. *)

\* The buffers of a channel are within size, and without back-pressure there
\* is room for one datum more.
Room(c, ch) ==
    \A i \in Inputs(c) : /\ Len(ch.chanBuffer[i]) <= Size[c]
                         /\ ~ch.bp[i] => Len(ch.chanBuffer[i]) < Size[c]

Updated(c, new) ==
    /\ IsChan(new, c) /\ Room(c, new)
    /\ new.valid => \A d \in Downstream(c) : checkSend(c, d)

\* What a statement that does not update a channel leaves of it.
SameBuffer(new, old) ==
    /\ Len(new) = Len(old)
    /\ \A k \in 1 .. Len(old) : /\ new[k].value = old[k].value /\ new[k].cond = old[k].cond
                                /\ old[k].wait = 0 => new[k].wait = 0
Same(c, new, ch) ==
    /\ IsChan(new, c)
    /\ new.valid = ch.valid /\ new.bp = ch.bp /\ new.popped = ch.popped
    /\ new.value = ch.value /\ new.lastPopVal = ch.lastPopVal
    /\ Len(new.channel) = Len(ch.channel)
    /\ ch.channel # <<>> => new.channel[1].cond = ch.channel[1].cond
    /\ \A i \in Inputs(c) : SameBuffer(new.chanBuffer[i], ch.chanBuffer[i])

\* Every datum that is offered and not taken yet has its place.
RoomOK ==
    \A d \in Chans :
        /\ Room(d, chan[d])
        /\ \A i \in Inputs(d) :
              Upstream[d] # <<>> /\ chan[Upstream[d][i]].valid /\ Due(Upstream[d][i], d)
                  => Len(chan[d].chanBuffer[i]) < Size[d]

\* Only channels that a statement updates are ever valid, and no Lse is.
ValidOK ==
    /\ \A c \in Chans : chan[c].valid => \E n \in DOMAIN Program : c \in Updates(n)
    /\ \A c \in Lses : chan[c].channel = <<>>

NetInv == DOMAIN chan = Chans /\ NetOK /\ RoomOK /\ ValidOK

\* The types of the buffers of a channel and of what is in them.
LEMMA BufferType ==
    ASSUME NEW c \in Chans, NEW ch, IsRec(ch, c), NEW i \in Inputs(c)
    PROVE  /\ ch.chanBuffer \in [Inputs(c) -> Seq(Datum)] /\ ch.chanBuffer[i] \in Seq(Datum)
           /\ Len(ch.chanBuffer[i]) \in Nat /\ (ch.chanBuffer[i] = <<>> <=> Len(ch.chanBuffer[i]) = 0)
           /\ \A k \in 1 .. Len(ch.chanBuffer[i]) : ch.chanBuffer[i][k] \in Datum
           /\ ch.chanBuffer[i] # <<>> => ch.chanBuffer[i][1] \in Datum
           /\ ch.popped \in Nat /\ ch.value \in Values
           /\ Size[c] \in Nat \ {0}
<1>1. ch.chanBuffer \in [Inputs(c) -> Seq(Datum)] /\ ch.popped \in Nat /\ ch.value \in Values
  BY DEF IsRec, ChanType
<1>2. ch.chanBuffer[i] \in Seq(Datum)
  BY <1>1
<1>3. Size[c] \in Nat \ {0}
  BY ChannelAssumption
<1> HIDE DEF Datum, Values
<1> QED  BY <1>1, <1>2, <1>3, EmptySeq, LenProperties, ElementOfSeq

\* A valid channel has operands in all its buffers.
LEMMA ValidFull ==
    ASSUME NEW c \in Chans, NEW ch, IsChan(ch, c), NEW i \in Inputs(c), ch.valid
    PROVE  ch.chanBuffer[i] # <<>> /\ ch.channel # <<>>
  BY DEF IsChan, IsRec, HoldsOK, OffersOK, ChanType

\* What pop leaves of a buffer: all but the datum that was sent.
LEMMA LeftFacts ==
    ASSUME NEW c \in Chans, NEW ch, IsChan(ch, c), NEW i \in Inputs(c)
    PROVE  /\ Left(ch, i) \in Seq(Datum)
           /\ Len(Left(ch, i)) = Len(ch.chanBuffer[i]) - (IF ch.valid THEN 1 ELSE 0)
           /\ \A k \in 1 .. Len(Left(ch, i)) :
                 Left(ch, i)[k] = ch.chanBuffer[i][IF ch.valid THEN k + 1 ELSE k]
<1>1. /\ ch.chanBuffer[i] \in Seq(Datum) /\ IsRec(ch, c)
      /\ Len(ch.chanBuffer[i]) \in Nat
  BY BufferType DEF IsChan
<1>2. CASE ch.valid
  <2>1. ch.chanBuffer[i] # <<>>
    BY <1>2, ValidFull
  <2>2. /\ Tail(ch.chanBuffer[i]) \in Seq(Datum) /\ Len(Tail(ch.chanBuffer[i])) = Len(ch.chanBuffer[i]) - 1
        /\ \A k \in 1 .. Len(Tail(ch.chanBuffer[i])) : Tail(ch.chanBuffer[i])[k] = ch.chanBuffer[i][k + 1]
    BY <1>1, <2>1, TailFacts
  <2> QED  BY <1>2, <2>2 DEF Left
<1>3. CASE ~ch.valid
  BY <1>1, <1>3 DEF Left
<1> QED  BY <1>2, <1>3

\* What is received has been offered by a valid channel.
LEMMA ReceivesValid ==
    ASSUME NEW ch, NEW c \in Chans, NEW i \in Inputs(c), Receives(ch, c, i)
    PROVE  chan[Upstream[c][i]].valid
  BY DEF Receives, checkUpstream

\* What push makes of a buffer: one datum more where one is received.
LEMMA FillFacts ==
    ASSUME KeepMode = {}, NetOK, NEW c \in Chans, NEW ch, IsChan(ch, c), NEW i \in Inputs(c)
    PROVE  /\ Fill(ch, c, i) \in Seq(Datum)
           /\ Len(Fill(ch, c, i)) = Len(ch.chanBuffer[i])
                  + (IF Upstream[c] # <<>> /\ Receives(ch, c, i) THEN 1 ELSE 0)
           /\ \A k \in 1 .. Len(ch.chanBuffer[i]) : Fill(ch, c, i)[k] = ch.chanBuffer[i][k]
           /\ Upstream[c] # <<>> /\ Receives(ch, c, i)
                  => Fill(ch, c, i)[Len(ch.chanBuffer[i]) + 1] = Offer(c, i) /\ Offer(c, i) \in Datum
<1>1. /\ ch.chanBuffer[i] \in Seq(Datum) /\ IsRec(ch, c)
      /\ Len(ch.chanBuffer[i]) \in Nat
  BY BufferType DEF IsChan
<1>2. CASE Upstream[c] # <<>> /\ Receives(ch, c, i)
  <2>1. Offer(c, i) \in Datum
    BY <1>2, OfferType DEF Receives
  <2>2. Fill(ch, c, i) = Append(ch.chanBuffer[i], Offer(c, i))
    BY <1>2 DEF Fill
  <2> HIDE DEF Datum
  <2> QED  BY <1>1, <1>2, <2>1, <2>2, AppendProperties
<1>3. CASE ~(Upstream[c] # <<>> /\ Receives(ch, c, i))
  <2>1. Fill(ch, c, i) = ch.chanBuffer[i]
    BY <1>3 DEF Fill
  <2>2. (IF Upstream[c] # <<>> /\ Receives(ch, c, i) THEN 1 ELSE 0) = 0
    BY <1>3
  <2>3. Len(ch.chanBuffer[i]) = Len(ch.chanBuffer[i]) + 0
    BY <1>1
  <2> QED  BY <1>1, <1>3, <2>1, <2>2, <2>3
<1> QED  BY <1>2, <1>3

\* The same for what Channel::get leaves in a buffer.
LEMMA GetFillFacts ==
    ASSUME KeepMode = {}, NetOK, NEW c \in Chans, NEW new, GetStep(c, chan[c], new), NEW i \in Inputs(c)
    PROVE  LET ch == chan[c]
               x  == IF ch.valid THEN 1 ELSE 0
               n  == Len(ch.chanBuffer[i]) - x
           IN  /\ n \in Nat
               /\ Len(new.chanBuffer[i]) = n + (IF Takes1(c, i) THEN 1 ELSE 0)
               /\ \A k \in 1 .. n : new.chanBuffer[i][k] = ch.chanBuffer[i][k + x]
               /\ Takes1(c, i) => new.chanBuffer[i][n + 1] = Offer(c, i) /\ Offer(c, i) \in Datum
<1> DEFINE ch == chan[c]
<1>1. IsChan(ch, c) /\ IsRec(ch, c)
  BY DEF NetOK, IsChan
<1>2. /\ Left(ch, i) \in Seq(Datum) /\ Len(Left(ch, i)) \in Nat
      /\ Len(Left(ch, i)) = Len(ch.chanBuffer[i]) - (IF ch.valid THEN 1 ELSE 0)
      /\ \A k \in 1 .. Len(Left(ch, i)) :
            Left(ch, i)[k] = ch.chanBuffer[i][IF ch.valid THEN k + 1 ELSE k]
  BY <1>1, LeftFacts, LenProperties
<1>3. /\ Len(ch.chanBuffer[i]) \in Nat
      /\ ch.valid => Len(ch.chanBuffer[i]) # 0
  BY <1>1, BufferType, ValidFull
<1>4. new.chanBuffer[i] = IF Takes1(c, i) THEN Append(Left(ch, i), Offer(c, i)) ELSE Left(ch, i)
  BY DEF GetStep
<1>5. Takes1(c, i) => Offer(c, i) \in Datum
  BY OfferType DEF Takes1, Receives
<1> DEFINE x == IF ch.valid THEN 1 ELSE 0
           n == Len(ch.chanBuffer[i]) - x
<1>6. /\ n \in Nat /\ Len(Left(ch, i)) = n
      /\ \A k \in 1 .. n : Left(ch, i)[k] = ch.chanBuffer[i][k + x]
  <2>1. CASE ch.valid
    BY <1>2, <1>3, <2>1
  <2>2. CASE ~ch.valid
    BY <1>2, <1>3, <2>2
  <2> QED  BY <2>1, <2>2
<1>7. /\ Len(new.chanBuffer[i]) = n + (IF Takes1(c, i) THEN 1 ELSE 0)
      /\ \A k \in 1 .. n : new.chanBuffer[i][k] = Left(ch, i)[k]
      /\ Takes1(c, i) => new.chanBuffer[i][n + 1] = Offer(c, i)
  <2> DEFINE q == Left(ch, i)
             p == new.chanBuffer[i]
  <2>1. q \in Seq(Datum) /\ n \in Nat /\ Len(q) = n
    BY <1>2, <1>6
  <2>2. CASE Takes1(c, i)
    <3>1. p = Append(q, Offer(c, i))
      BY <1>4, <2>2
    <3> HIDE DEF Datum, q, p, n, ch
    <3>2. /\ Len(p) = n + 1 /\ (\A k \in 1 .. n : p[k] = q[k]) /\ p[n + 1] = Offer(c, i)
      BY <1>5, <2>1, <2>2, <3>1, AppendProperties
    <3> QED  BY <2>2, <3>2 DEF p, q
  <2>3. CASE ~Takes1(c, i)
    <3>1. p = q
      BY <1>4, <2>3
    <3> HIDE DEF q, p, n, ch
    <3>2. Len(p) = n + 0 /\ (\A k \in 1 .. n : p[k] = q[k])
      BY <2>1, <3>1
    <3> QED  BY <2>3, <3>2 DEF p, q
  <2> QED  BY <2>2, <2>3
<1> HIDE DEF n, x, ch
<1>8. \A k \in 1 .. n : new.chanBuffer[i][k] = ch.chanBuffer[i][k + x]
  BY <1>6, <1>7
<1> QED  BY <1>5, <1>6, <1>7, <1>8 DEF n, x, ch

\* The channel has room for what it is about to receive.
Ready(c) ==
    /\ Room(c, chan[c])
    /\ \A i \in Inputs(c) : Upstream[c] # <<>> /\ chan[Upstream[c][i]].valid
                               => Len(chan[c].chanBuffer[i]) < Size[c]

\* A channel updated by get has room for what it lets its upstream send.
LEMMA GetRoom ==
    ASSUME KeepMode = {}, NetOK, NEW c \in Chans, Ready(c), NEW new, GetStep(c, chan[c], new)
    PROVE  Updated(c, new)
<1>1. ASSUME NEW i \in Inputs(c)
      PROVE  /\ Len(new.chanBuffer[i]) <= Size[c]
             /\ ~new.bp[i] => Len(new.chanBuffer[i]) < Size[c]
  <2>1. IsChan(new, c) /\ IsRec(new, c) /\ Len(new.chanBuffer[i]) \in Nat /\ Size[c] \in Nat
    BY BufferType, ChannelAssumption DEF GetStep, IsChan
  <2>2. IsRec(chan[c], c) /\ Len(chan[c].chanBuffer[i]) \in Nat
    BY BufferType DEF NetOK, IsChan
  <2>3. new.bp[i] <=> Len(new.chanBuffer[i]) >= Size[c] \/ ~chan[c].pushBufferEnable
    BY DEF GetStep
  <2>4. Len(new.chanBuffer[i]) <= Size[c]
    <3> DEFINE x == IF chan[c].valid THEN 1 ELSE 0
               y == IF Takes1(c, i) THEN 1 ELSE 0
    <3>1. Len(new.chanBuffer[i]) = (Len(chan[c].chanBuffer[i]) - x) + y
      BY GetFillFacts
    <3>4. x \in {0, 1} /\ y \in {0, 1} /\ (y = 1 => Takes1(c, i))
      OBVIOUS
    <3> HIDE DEF x, y
    <3>2. Len(chan[c].chanBuffer[i]) <= Size[c]
      BY DEF Ready, Room
    <3>3. Takes1(c, i) => Len(chan[c].chanBuffer[i]) < Size[c]
      BY ReceivesValid DEF Ready, Takes1
    <3> QED  BY <2>1, <2>2, <3>1, <3>2, <3>3, <3>4
  <2> QED  BY <2>1, <2>3, <2>4
<1> QED  BY <1>1 DEF Updated, Room, GetStep

\* So has a channel of an Lse.
LEMMA LseRoom ==
    ASSUME KeepMode = {}, NetOK, NEW c \in Chans, Ready(c), chan[c].channel = <<>>,
           NEW new, LseStep(c, chan[c], new)
    PROVE  Updated(c, new)
<1> DEFINE ch == chan[c]
<1>1. ASSUME NEW i \in Inputs(c)
      PROVE  /\ Len(new.chanBuffer[i]) <= Size[c]
             /\ ~new.bp[i] => Len(new.chanBuffer[i]) < Size[c]
  <2>1. IsChan(new, c) /\ IsRec(new, c) /\ Len(new.chanBuffer[i]) \in Nat /\ Size[c] \in Nat
    BY BufferType, ChannelAssumption DEF LseStep, IsChan
  <2>2. IsChan(ch, c) /\ IsRec(ch, c) /\ Len(ch.chanBuffer[i]) \in Nat
    BY BufferType DEF NetOK, IsChan
  <2>3. new.bp[i] <=> Len(new.chanBuffer[i]) >= Size[c] \/ ~ch.pushBufferEnable
    BY DEF LseStep
  <2>4. Fill(ch, c, i) \in Seq(Datum) /\ Len(Fill(ch, c, i)) \in Nat
        /\ Len(Fill(ch, c, i)) <= Size[c]
    <3> DEFINE y == IF Upstream[c] # <<>> /\ Receives(ch, c, i) THEN 1 ELSE 0
    <3>4. y \in {0, 1} /\ (y = 1 => Upstream[c] # <<>> /\ Receives(ch, c, i))
      OBVIOUS
    <3>1. Fill(ch, c, i) \in Seq(Datum) /\ Len(Fill(ch, c, i)) = Len(ch.chanBuffer[i]) + y
      BY <2>2, FillFacts
    <3>2. Len(ch.chanBuffer[i]) <= Size[c]
      BY DEF Ready, Room
    <3>3. Upstream[c] # <<>> /\ Receives(ch, c, i) => Len(ch.chanBuffer[i]) < Size[c]
      BY ReceivesValid DEF Ready
    <3>5. Len(Fill(ch, c, i)) \in Nat
      BY <3>1, LenProperties
    <3> HIDE DEF y
    <3> QED  BY <2>1, <2>2, <3>1, <3>2, <3>3, <3>4, <3>5
  <2>5. Len(new.chanBuffer[i]) <= Size[c]
    <3>1. CASE new.chanBuffer[i] = Fill(ch, c, i)
      BY <2>4, <3>1
    <3>2. CASE Fill(ch, c, i) # <<>> /\ new.chanBuffer[i] = Tail(Fill(ch, c, i))
      <4> HIDE DEF Datum
      <4> QED  BY <2>1, <2>4, <3>2, TailFacts
    <3> QED  BY <3>1, <3>2 DEF LseStep
  <2> QED  BY <2>1, <2>3, <2>5
<1>2. ~new.valid
  BY DEF LseStep, IsChan, OffersOK
<1> QED  BY <1>1, <1>2 DEF Updated, Room, LseStep

\* So has one that is popped alone.
LEMMA WireRoom ==
    ASSUME NEW c \in Chans, NEW ch, IsChan(ch, c), Room(c, ch), NEW new, WireStep(c, ch, new)
    PROVE  Updated(c, new)
<1>1. ASSUME NEW i \in Inputs(c)
      PROVE  /\ Len(new.chanBuffer[i]) <= Size[c]
             /\ ~new.bp[i] => Len(new.chanBuffer[i]) < Size[c]
  <2>1. IsRec(ch, c) /\ Len(ch.chanBuffer[i]) \in Nat /\ Size[c] \in Nat
    BY BufferType, ChannelAssumption DEF IsChan
  <2> DEFINE x == IF ch.valid THEN 1 ELSE 0
  <2>2. /\ new.chanBuffer[i] = Left(ch, i) /\ new.bp[i] = ch.bp[i]
        /\ Len(Left(ch, i)) = Len(ch.chanBuffer[i]) - x /\ x \in {0, 1}
    BY LeftFacts DEF WireStep
  <2> HIDE DEF x
  <2>3. /\ Len(ch.chanBuffer[i]) <= Size[c]
        /\ ~ch.bp[i] => Len(ch.chanBuffer[i]) < Size[c]
    BY DEF Room
  <2> QED  BY <2>1, <2>2, <2>3
<1> QED  BY <1>1 DEF Updated, Room, WireStep

\* So has a channel fed with data.
LEMMA DataRoom ==
    ASSUME NEW c \in Chans, Upstream[c] = <<>>, NEW ch, IsChan(ch, c), Room(c, ch),
           NEW new, DataStep(c, ch, new)
    PROVE  Updated(c, new)
<1>1. Inputs(c) = {1}
  BY DEF Inputs
<1>2. /\ Len(new.chanBuffer[1]) <= Size[c]
      /\ ~new.bp[1] => Len(new.chanBuffer[1]) < Size[c]
  <2>1. IsRec(ch, c) /\ Len(ch.chanBuffer[1]) \in Nat /\ Size[c] \in Nat
    BY <1>1, BufferType, ChannelAssumption DEF IsChan
  <2>2. Len(Left(ch, 1)) = Len(ch.chanBuffer[1]) - (IF ch.valid THEN 1 ELSE 0)
    BY <1>1, LeftFacts
  <2>3. Len(ch.chanBuffer[1]) <= Size[c]
    BY <1>1 DEF Room
  <2> QED  BY <2>1, <2>2, <2>3 DEF DataStep
<1> QED  BY <1>1, <1>2 DEF Updated, Room, DataStep

-----------------------------------------------------------------------------
(* The statements of the main loop, channel by channel. *)

\* Without keepMode nobody receives a last tag.
LEMMA NoTags ==
    ASSUME KeepMode = {}, NEW net, NEW d
    PROVE  /\ DOMAIN sendLastTag(net, d) = Chans
           /\ \A c \in Chans : sendLastTag(net, d)[c] = net[c]
  BY DEF sendLastTag

\* A channel is the same as itself.
LEMMA SameSelf ==
    ASSUME NEW c \in Chans, NEW ch, IsChan(ch, c)
    PROVE  Same(c, ch, ch)
  BY DEF Same, SameBuffer

\* get changes the channel it is called on and no other.
LEMMA GetChannels ==
    ASSUME KeepMode = {}, DOMAIN chan = Chans, NEW c \in Chans, get(c)
    PROVE  /\ DOMAIN chan' = Chans /\ chan'[c] = Got(c)
           /\ \A d \in Chans \ {c} : chan'[d] = chan[d]
<1> DEFINE net == [chan EXCEPT ![c] = Got(c)]
<1>1. DOMAIN net = Chans /\ net[c] = Got(c) /\ \A d \in Chans \ {c} : net[d] = chan[d]
  OBVIOUS
<1>2. chan' = net \/ chan' = sendLastTag(net, c)
  BY DEF get, AfterGet
<1> HIDE DEF net
<1> QED  BY <1>1, <1>2, NoTags

\* The update of an Lse changes its channel and no other.
LEMMA LseChannels ==
    ASSUME KeepMode = {}, DOMAIN chan = Chans, NEW c \in Chans, NEW slotFree, LseGet(c, slotFree)
    PROVE  /\ DOMAIN chan' = Chans /\ chan'[c] = pushReqQ(push(chan[c], c), c, slotFree)
           /\ \A d \in Chans \ {c} : chan'[d] = chan[d]
<1> DEFINE new == pushReqQ(push(chan[c], c), c, slotFree)
           net == [chan EXCEPT ![c] = new]
           first == IF SendsLastTag(chan[c], c) THEN sendLastTag(net, c) ELSE net
<1>1. DOMAIN net = Chans /\ net[c] = new /\ \A d \in Chans \ {c} : net[d] = chan[d]
  OBVIOUS
<1>2. chan' = first \/ chan' = sendLastTag(first, c)
  BY DEF LseGet
<1>3. first = net \/ first = sendLastTag(net, c)
  OBVIOUS
<1> HIDE DEF net, first, new
<1>4. DOMAIN first = Chans /\ \A d \in Chans : first[d] = net[d]
  BY <1>1, <1>3, NoTags
<1>5. DOMAIN chan' = Chans /\ \A d \in Chans : chan'[d] = net[d]
  BY <1>2, <1>4, NoTags
<1> QED  BY <1>1, <1>5 DEF new

\* The state of a Lc.
DataStatus == [last : BOOLEAN, lastOuter : BOOLEAN]
LcType == [sel : BOOLEAN, var : Nat, muxSuccess : BOOLEAN, upstreamDataStatus : DataStatus,
           loopNum : Nat, loopNumQ : Seq(Nat), loopEnd : Nat]
LcOK == lc \in [Lcs -> LcType] /\ begin \in BOOLEAN

\* The values that pass through the loopVar of l: one index of l.
Index(l) == {{}} \cup {{<<l, k>>} : k \in Nat}
IndexOK ==
    \A l \in Lcs :
        /\ chan[outChan[l]].value \in Index(l)
        /\ chan[loopVar[l]].lastPopVal \in Index(l)
        /\ \A k \in 1 .. Len(chan[loopVar[l]].chanBuffer[1]) :
              chan[loopVar[l]].chanBuffer[1][k].value \in Index(l)

\* The types of what a Lc remembers.
LEMMA LcFields ==
    ASSUME LcOK, NEW l \in Lcs
    PROVE  /\ lc[l] \in LcType
           /\ lc[l].sel \in BOOLEAN /\ lc[l].var \in Nat /\ lc[l].muxSuccess \in BOOLEAN
           /\ lc[l].upstreamDataStatus \in DataStatus
           /\ lc[l].loopNum \in Nat /\ lc[l].loopNumQ \in Seq(Nat) /\ lc[l].loopEnd \in Nat
  BY DEF LcOK, LcType

\* The status a Lc reads from its channels is one of the statuses.
LEMMA StatusType ==
    ASSUME KeepMode = {}, NetOK, LcOK, NEW l \in Lcs
    PROVE  recordDataStatus(l) \in DataStatus
<1>1. lc[l].upstreamDataStatus \in DataStatus
  BY LcFields
<1>2. ASSUME chan[loopVar[l]].valid
      PROVE  chan[loopVar[l]].channel[1] \in Flags
  <2>1. loopVar[l] \in Chans
    BY LcStatements
  <2>2. IsChan(chan[loopVar[l]], loopVar[l])
    BY <2>1 DEF NetOK
  <2>3. /\ chan[loopVar[l]].channel \in Seq(Flags) /\ Len(chan[loopVar[l]].channel) <= 1
        /\ chan[loopVar[l]].channel # <<>>
    BY <1>2, <2>2 DEF IsChan, IsRec, ChanType, HoldsOK, OffersOK
  <2> QED  BY <2>3, OneElement
<1>3. CASE MuxReady(l) /\ lc[l].sel
  <2>1. chan[loopVar[l]].valid
    BY <1>3 DEF MuxReady
  <2>2. [last |-> Front(chan[loopVar[l]].channel).last,
         lastOuter |-> Front(chan[loopVar[l]].channel).lastOuter] \in DataStatus
    BY <1>2, <2>1 DEF DataStatus, Front, Flags
  <2> QED  BY <1>3, <2>2 DEF recordDataStatus
<1>4. CASE ~lc[l].sel
  <2>1. [last |-> FALSE, lastOuter |-> FALSE] \in DataStatus
    BY DEF DataStatus
  <2> QED  BY <1>1, <1>4, <2>1 DEF recordDataStatus
<1>5. CASE ~MuxReady(l)
  BY <1>1, <1>5 DEF recordDataStatus
<1> QED  BY <1>3, <1>4, <1>5

\* Mux::muxUpdate as the caller of an outChan.
MuxStep(l, new) ==
    LET o == outChan[l]
    IN  /\ IsChan(new, o)
        /\ new.value = {<<l, IF lc[l].sel THEN lc[l].var ELSE 0>>} /\ new.popped = 0
        /\ \E wire : /\ WireStep(o, chan[o], wire)
                     /\ ~MuxReady(l) => /\ new.chanBuffer = wire.chanBuffer /\ new.bp = wire.bp
                                        /\ new.valid = wire.valid /\ new.channel = wire.channel
                     /\ MuxReady(l) => \E d : /\ DataStep(o, wire, d)
                                              /\ new.chanBuffer = d.chanBuffer /\ new.bp = d.bp
                                              /\ new.valid = d.valid /\ Len(new.channel) = 1
                                              /\ new.channel # <<>> /\ new.channel[1].cond

\* muxUpdate pops the outChan and, if the Mux is ready, pushes what it selects.
LEMMA MuxFacts ==
    ASSUME KeepMode = {}, NetOK, LcOK, NEW l \in Lcs
    PROVE  LET o    == outChan[l]
               wire == statusUpdate(pop(chan[o]), o)
               init == IF lc[l].sel THEN lc[l].var ELSE 0
               fed  == IF MuxReady(l) THEN pushOutChan(wire, l) ELSE wire
           IN  MuxStep(l, [fed EXCEPT !.value = {<<l, init>>}, !.popped = 0])
<1> DEFINE o    == outChan[l]
           ch   == chan[o]
           wire == statusUpdate(pop(ch), o)
           init == IF lc[l].sel THEN lc[l].var ELSE 0
           v    == {<<l, init>>}
           d    == GotData(wire, o, {})
           st   == recordDataStatus(l)
           flag == <<[cond |-> TRUE, last |-> st.last, lastOuter |-> st.lastOuter]>>
           fed  == IF MuxReady(l) THEN pushOutChan(wire, l) ELSE wire
           new  == [fed EXCEPT !.value = v, !.popped = 0]
<1>1. o \in Chans /\ Upstream[o] = <<>> /\ IsChan(ch, o)
  BY LoopAssumption DEF NetOK
<1>2. WireStep(o, ch, wire) /\ IsChan(wire, o)
  BY <1>1, WireFacts DEF WireStep
<1> HIDE DEF wire
<1>3. v \in Values
  BY LcFields DEF Values
<1>4. flag \in Seq(Flags) /\ Len(flag) = 1 /\ flag # <<>> /\ flag[1].cond
  BY StatusType DEF DataStatus, Flags
<1>5. {} \in Values
  BY DEF Values
<1>6. DataStep(o, wire, d)
  BY <1>1, <1>2, <1>5, DataFacts
<1>7. CASE MuxReady(l)
  <2>1. fed = [d EXCEPT !.channel = flag]
    BY <1>7 DEF pushOutChan
  <2> HIDE DEF d, flag, v, fed
  <2>2. IsChan(d, o) /\ d \in ChanType(o) /\ HoldsOK(d) /\ d.chanBuffer[1] # <<>>
    BY <1>6 DEF DataStep, IsChan, IsRec
  <2>3. /\ new \in ChanType(o) /\ new.value = v /\ new.popped = 0
        /\ new.channel = flag /\ new.chanBuffer = d.chanBuffer /\ new.bp = d.bp
        /\ new.valid = d.valid
    BY <1>3, <1>4, <2>1, <2>2 DEF ChanType
  <2>4. IsChan(new, o)
    <3>1. DOMAIN d.chanBuffer = {1}
      BY <1>1, <2>2 DEF ChanType, Inputs
    <3> HIDE DEF new
    <3>4. \A i \in DOMAIN new.chanBuffer : new.chanBuffer[i] # <<>>
      BY <2>2, <2>3, <3>1
    <3>5. Len(new.channel) = 1
      BY <1>4, <2>3
    <3>2. HoldsOK(new)
      BY <3>4, <3>5 DEF HoldsOK
    <3>3. OffersOK(new)
      BY <1>4, <2>3 DEF OffersOK
    <3> QED  BY <2>3, <3>2, <3>3 DEF IsChan, IsRec
  <2> HIDE DEF new
  <2> QED  BY <1>2, <1>4, <1>6, <1>7, <2>3, <2>4 DEF MuxStep, v, fed, new, wire
<1>8. CASE ~MuxReady(l)
  <2>1. fed = wire /\ wire \in ChanType(o)
    BY <1>2, <1>8 DEF IsChan, IsRec
  <2> HIDE DEF v, fed
  <2>2. /\ new \in ChanType(o) /\ new.value = v /\ new.popped = 0
        /\ new.channel = wire.channel /\ new.chanBuffer = wire.chanBuffer /\ new.bp = wire.bp
        /\ new.valid = wire.valid
    BY <1>3, <2>1 DEF ChanType
  <2>3. IsChan(new, o)
    BY <1>2, <2>2 DEF IsChan, IsRec, HoldsOK, OffersOK
  <2> HIDE DEF new
  <2> QED  BY <1>2, <1>8, <2>2, <2>3 DEF MuxStep, v, fed, new, wire
<1> QED  BY <1>7, <1>8

\* The outChan has room after muxUpdate as well.
LEMMA MuxRoom ==
    ASSUME NetOK, NEW l \in Lcs, Room(outChan[l], chan[outChan[l]]), NEW new, MuxStep(l, new)
    PROVE  Updated(outChan[l], new)
<1> DEFINE o == outChan[l]
<1>1. o \in Chans /\ Upstream[o] = <<>> /\ IsChan(chan[o], o)
  BY LoopAssumption DEF NetOK
<1>2. PICK wire : /\ WireStep(o, chan[o], wire)
                  /\ ~MuxReady(l) => /\ new.chanBuffer = wire.chanBuffer /\ new.bp = wire.bp
                                     /\ new.valid = wire.valid
                  /\ MuxReady(l) => \E d : /\ DataStep(o, wire, d)
                                           /\ new.chanBuffer = d.chanBuffer /\ new.bp = d.bp
                                           /\ new.valid = d.valid
  BY DEF MuxStep
<1>3. Updated(o, wire)
  BY <1>1, <1>2, WireRoom
<1>4. PICK e : /\ Updated(o, e)
               /\ new.chanBuffer = e.chanBuffer /\ new.bp = e.bp /\ new.valid = e.valid
  <2>1. CASE ~MuxReady(l)
    BY <1>2, <1>3, <2>1
  <2>2. CASE MuxReady(l)
    <3>1. PICK d : /\ DataStep(o, wire, d)
                   /\ new.chanBuffer = d.chanBuffer /\ new.bp = d.bp /\ new.valid = d.valid
      BY <1>2, <2>2
    <3>2. IsChan(wire, o) /\ Room(o, wire)
      BY <1>3 DEF Updated
    <3>3. Updated(o, d)
      BY <1>1, <3>1, <3>2, DataRoom
    <3> QED  BY <3>1, <3>3
  <2> QED  BY <2>1, <2>2
<1>5. IsChan(new, o)
  BY DEF MuxStep
<1> QED  BY <1>4, <1>5 DEF Updated, Room

\* muxUpdate changes the outChan and no other channel, and in the Lc only
\* whether the Mux succeeded.
LEMMA MuxChannels ==
    ASSUME KeepMode = {}, DOMAIN chan = Chans, NetOK, LcOK, muxUpdate, NEW l \in Lcs, Argument = l
    PROVE  /\ DOMAIN chan' = Chans /\ MuxStep(l, chan'[outChan[l]])
           /\ \A d \in Chans \ {outChan[l]} : chan'[d] = chan[d]
           /\ LcOK' /\ begin' = begin
           /\ \A k \in Lcs : lc'[k].sel = lc[k].sel /\ lc'[k].var = lc[k].var
           /\ \A k \in Lcs : lc'[k].muxSuccess = IF k = l THEN MuxReady(l) ELSE lc[k].muxSuccess
<1> DEFINE o    == outChan[l]
           wire == statusUpdate(pop(chan[o]), o)
           init == IF lc[l].sel THEN lc[l].var ELSE 0
           fed  == IF MuxReady(l) THEN pushOutChan(wire, l) ELSE wire
           new  == [fed EXCEPT !.value = {<<l, init>>}, !.popped = 0]
           st   == recordDataStatus(l)
<1>1. o \in Chans
  BY LoopAssumption
<1>2. /\ chan' = [chan EXCEPT ![o] = new]
      /\ lc' = [lc EXCEPT ![l].muxSuccess = MuxReady(l), ![l].upstreamDataStatus = st]
      /\ begin' = begin
  BY DEF muxUpdate
<1>3. MuxStep(l, new)
  BY MuxFacts
<1>4. st \in DataStatus /\ MuxReady(l) \in BOOLEAN
  <2>1. loopVar[l] \in Chans /\ IsChan(chan[loopVar[l]], loopVar[l])
    BY LcStatements DEF NetOK
  <2>2. chan[loopVar[l]].valid \in BOOLEAN
    BY <2>1 DEF IsChan, IsRec, ChanType
  <2> QED  BY <2>2, StatusType DEF MuxReady
<1> HIDE DEF new, st
<1>5. DOMAIN chan' = Chans /\ chan'[o] = new /\ \A d \in Chans \ {o} : chan'[d] = chan[d]
  BY <1>1, <1>2
<1>6. LcOK'
  BY <1>2, <1>4, ZenonT(60) DEF LcOK, LcType
<1>7. /\ \A k \in Lcs : lc'[k].sel = lc[k].sel /\ lc'[k].var = lc[k].var
      /\ \A k \in Lcs : lc'[k].muxSuccess = IF k = l THEN MuxReady(l) ELSE lc[k].muxSuccess
  BY <1>2, <1>4 DEF LcOK, LcType
<1> QED  BY <1>2, <1>3, <1>5, <1>6, <1>7

\* The index of the loop, as Lc::lcUpdate reads it from the loopVar.
LEMMA LoopIndexFacts ==
    ASSUME KeepMode = {}, NetOK, IndexOK, NEW l \in Lcs
    PROVE  /\ LoopIndex(l) \in Nat
           /\ \A k \in Nat : (IF chan[loopVar[l]].chanBuffer[1] = <<>> THEN chan[loopVar[l]].lastPopVal
                              ELSE chan[loopVar[l]].chanBuffer[1][1].value) = {<<l, k>>}
                                => LoopIndex(l) = k
<1> DEFINE ch == chan[loopVar[l]]
           v  == IF ch.chanBuffer[1] = <<>> THEN ch.lastPopVal ELSE ch.chanBuffer[1][1].value
<1>1. v \in Index(l)
  <2>1. loopVar[l] \in Chans /\ IsChan(ch, loopVar[l])
    BY LcStatements DEF NetOK
  <2>2. ch.chanBuffer[1] # <<>> => 1 \in 1 .. Len(ch.chanBuffer[1])
    BY <2>1, BufferType, InputsFacts DEF IsChan
  <2> QED  BY <2>2 DEF IndexOK
<1>2. LoopIndex(l) = IF v = {} THEN 0 ELSE (CHOOSE p \in v : p[1] = l)[2]
  BY DEF LoopIndex, Front
<1> HIDE DEF v
<1>3. ASSUME NEW k \in Nat, v = {<<l, k>>}
      PROVE  LoopIndex(l) = k
  <2>1. \E p \in v : p[1] = l
    BY <1>3
  <2>2. (CHOOSE p \in v : p[1] = l) = <<l, k>>
    BY <1>3, <2>1
  <2> QED  BY <1>2, <1>3, <2>2
<1>4. LoopIndex(l) \in Nat
  <2>1. CASE v = {}
    BY <1>2, <2>1
  <2>2. CASE v # {}
    <3>1. PICK k \in Nat : v = {<<l, k>>}
      BY <1>1, <2>2 DEF Index
    <3> QED  BY <1>3, <3>1
  <2> QED  BY <2>1, <2>2
<1> QED  BY <1>3, <1>4 DEF v

\* The loopVar's datum is only marked.
LEMMA TaggedFacts ==
    ASSUME KeepMode = {}, NetOK, NEW l \in Lcs
    PROVE  Same(loopVar[l], LastTagged(l), chan[loopVar[l]])
<1> DEFINE c   == loopVar[l]
           ch  == chan[c]
           new == LastTagged(l)
<1>1. c \in Chans /\ IsChan(ch, c) /\ ch \in ChanType(c)
  BY LcStatements DEF NetOK, IsChan, IsRec
<1>2. CASE ch.channel # <<>> /\ ~selUpdate(l)
  <2>1. /\ ch.channel \in Seq(Flags) /\ ch.channel = <<ch.channel[1]>> /\ ch.channel[1] \in Flags
    BY <1>1, <1>2, OneElement DEF IsChan, IsRec, ChanType, HoldsOK
  <2> DEFINE f == [ch.channel[1] EXCEPT !.last = TRUE,
                                         !.lastOuter = ch.channel[1].lastOuter \/ l \in OuterMost]
  <2>2. f \in Flags /\ f.cond = ch.channel[1].cond
    BY <2>1 DEF Flags
  <2>3. new = [ch EXCEPT !.channel = <<f>>]
    <3> DEFINE g == [Front(ch.channel) EXCEPT !.last = TRUE, !.lastOuter = @ \/ l \in OuterMost]
    <3>1. new = [ch EXCEPT !.channel = <<g>>]
      BY <1>2 DEF LastTagged
    <3>2. g = f
      BY <2>1 DEF Front, Flags
    <3> QED  BY <3>1, <3>2
  <2> HIDE DEF f
  <2>4. <<f>> \in Seq(Flags) /\ Len(<<f>>) = 1 /\ <<f>>[1] = f /\ <<f>> # <<>>
    BY <2>2
  <2>5. /\ new \in ChanType(c) /\ new.channel = <<f>>
        /\ new.valid = ch.valid /\ new.bp = ch.bp /\ new.popped = ch.popped
        /\ new.value = ch.value /\ new.lastPopVal = ch.lastPopVal /\ new.chanBuffer = ch.chanBuffer
    BY <1>1, <2>3, <2>4 DEF ChanType
  <2> HIDE DEF new
  <2>6. Len(ch.channel) = 1 /\ HoldsOK(ch)
    BY <1>1, <2>1 DEF IsChan, IsRec
  <2>7. IsChan(new, c)
    BY <1>2, <2>4, <2>5, <2>6 DEF IsChan, IsRec, HoldsOK, OffersOK
  <2> QED  BY <2>2, <2>4, <2>5, <2>6, <2>7 DEF Same, SameBuffer, new
<1>3. CASE ~(ch.channel # <<>> /\ ~selUpdate(l))
  <2>1. new = ch
    BY <1>3 DEF LastTagged
  <2> QED  BY <1>1, <2>1, SameSelf
<1> QED  BY <1>2, <1>3

\* The end of a loop is sent on, or not.
LEMMA SendEndFacts ==
    ASSUME KeepMode = {}, NetOK, NEW l \in Lcs, Room(sendEnd[l], chan[sendEnd[l]])
    PROVE  Updated(sendEnd[l], sendEndUpdate(l))
<1> DEFINE s    == sendEnd[l]
           ch   == chan[s]
           sent == IF ch.valid THEN statusUpdate(pop(ch), s) ELSE ch
<1>1. s \in Chans /\ Upstream[s] = <<>> /\ IsChan(ch, s)
  BY LoopAssumption DEF NetOK
<1>2. Updated(s, sent)
  <2>1. CASE ch.valid
    BY <1>1, <2>1, WireFacts, WireRoom
  <2>2. CASE ~ch.valid
    BY <1>1, <2>2 DEF Updated
  <2> QED  BY <2>1, <2>2
<1> HIDE DEF sent
<1>3. {} \in Values
  BY DEF Values
<1>4. Updated(s, GotData(sent, s, {}))
  BY <1>1, <1>2, <1>3, DataFacts, DataRoom DEF Updated
<1> QED  BY <1>2, <1>4 DEF sendEndUpdate, sent

\* lcUpdate changes the loopVar, getEnd and sendEnd, and no other Lc.
LEMMA LcChannels ==
    ASSUME KeepMode = {}, DOMAIN chan = Chans, NetOK, LcOK, IndexOK, lcUpdate,
           NEW l \in Lcs, Argument = l
    PROVE  /\ DOMAIN chan' = Chans
           /\ chan'[loopVar[l]] = LastTagged(l)
           /\ chan'[sendEnd[l]] = sendEndUpdate(l)
           /\ getEnd[l] # sendEnd[l] => chan'[getEnd[l]] = Got(getEnd[l])
           /\ \A d \in Chans \ {loopVar[l], sendEnd[l], getEnd[l]} : chan'[d] = chan[d]
           /\ LcOK'
           /\ \A k \in Lcs \ {l} : lc'[k] = lc[k]
           /\ lc'[l].sel = selUpdate(l) /\ lc'[l].var = LoopIndex(l) + 1
           /\ lc'[l].muxSuccess = lc[l].muxSuccess
           /\ begin' = (begin /\ l \notin OuterMost)
           /\ CountLoop(l).q \in Seq(Nat)
           /\ lc'[l].loopNum = CountLoop(l).n
           /\ lc'[l].loopNumQ = IF LoopIsOver(l) THEN Tail(CountLoop(l).q) ELSE CountLoop(l).q
           /\ lc'[l].loopEnd = IF LoopIsOver(l) THEN 0 ELSE LoopsEnded(l)
<1> DEFINE v   == LastTagged(l)
           net == [chan EXCEPT ![loopVar[l]] = v, ![getEnd[l]] = Got(getEnd[l]),
                                ![sendEnd[l]] = sendEndUpdate(l)]
           q   == IF LoopIsOver(l) THEN Tail(CountLoop(l).q) ELSE CountLoop(l).q
           e   == IF LoopIsOver(l) THEN 0 ELSE LoopsEnded(l)
           n   == CountLoop(l).n
           s   == selUpdate(l)
           x   == LoopIndex(l) + 1
<1>1. /\ loopVar[l] \in Chans /\ getEnd[l] \in Chans /\ sendEnd[l] \in Chans
      /\ loopVar[l] \notin {getEnd[l], sendEnd[l]}
  BY LcStatements, LoopAssumption
<1>2. /\ chan' = net \/ chan' = sendLastTag(net, loopVar[l])
      /\ lc' = [lc EXCEPT ![l] = [@ EXCEPT !.sel = s, !.var = x, !.loopNum = n, !.loopNumQ = q, !.loopEnd = e]]
      /\ begin' = (begin /\ l \notin OuterMost)
  BY DEF lcUpdate
<1>3. /\ DOMAIN net = Chans /\ net[loopVar[l]] = v /\ net[sendEnd[l]] = sendEndUpdate(l)
      /\ getEnd[l] # sendEnd[l] => net[getEnd[l]] = Got(getEnd[l])
      /\ \A d \in Chans \ {loopVar[l], sendEnd[l], getEnd[l]} : net[d] = chan[d]
  BY <1>1
<1> HIDE DEF net
<1>4. DOMAIN chan' = Chans /\ \A d \in Chans : chan'[d] = net[d]
  BY <1>2, <1>3, NoTags
<1>5. /\ lc[l] \in LcType /\ lc[l].sel \in BOOLEAN /\ lc[l].loopNum \in Nat
      /\ lc[l].loopNumQ \in Seq(Nat) /\ lc[l].loopEnd \in Nat
  BY LcFields
<1>6. s \in BOOLEAN /\ x \in Nat
  <2>1. LoopIndex(l) \in Nat
    BY LoopIndexFacts
  <2>2. NewSel(l) \in BOOLEAN
    BY DEF NewSel
  <2>3. s \in BOOLEAN
    BY <1>5, <2>2 DEF selUpdate
  <2> QED  BY <2>1, <2>3
<1>7. CountLoop(l).q \in Seq(Nat) /\ n \in Nat
  <2> DEFINE m == lc[l].loopNum + 1
  <2>1. m \in Nat /\ Append(lc[l].loopNumQ, m) \in Seq(Nat)
    BY <1>5
  <2> HIDE DEF m
  <2>2. CASE chan[loopVar[l]].valid /\ selUpdate(l)
    BY <1>5, <2>1, <2>2 DEF CountLoop, m
  <2>3. CASE chan[loopVar[l]].valid /\ ~selUpdate(l)
    BY <1>5, <2>1, <2>3 DEF CountLoop, m
  <2>4. CASE ~chan[loopVar[l]].valid
    BY <1>5, <2>4 DEF CountLoop
  <2> QED  BY <2>2, <2>3, <2>4
<1>8. q \in Seq(Nat)
  <2>1. LoopIsOver(l) => CountLoop(l).q # <<>>
    BY DEF LoopIsOver
  <2> QED  BY <1>7, <2>1, TailFacts
<1>9. e \in Nat
  <2>1. LoopsEnded(l) \in Nat
    BY <1>5 DEF LoopsEnded
  <2> QED  BY <2>1
<1> HIDE DEF q, e, n, s, x
<1>10. LcOK'
  BY <1>2, <1>5, <1>6, <1>7, <1>8, <1>9 DEF LcOK, LcType
<1>11. /\ \A k \in Lcs \ {l} : lc'[k] = lc[k]
       /\ lc'[l].sel = s /\ lc'[l].var = x /\ lc'[l].muxSuccess = lc[l].muxSuccess
       /\ lc'[l].loopNum = n /\ lc'[l].loopNumQ = q /\ lc'[l].loopEnd = e
  BY <1>2, <1>5 DEF LcOK, LcType
<1> QED  BY <1>1, <1>2, <1>3, <1>4, <1>7, <1>10, <1>11 DEF s, x, n, q, e

\* The clock only shortens the time the data have to wait.
LEMMA ClkChannels ==
    ASSUME DOMAIN chan = Chans, NetOK, clkUpdate
    PROVE  DOMAIN chan' = Chans /\ \A c \in Chans : Same(c, chan'[c], chan[c])
<1>1. CASE clkStall
  <2>1. chan' = chan
    BY <1>1 DEF clkUpdate
  <2> QED  BY <2>1, SameSelf DEF NetOK
<1>2. CASE ~clkStall
  <2>1. chan' = [c \in Chans |->
                   [chan[c] EXCEPT !.chanBuffer = [i \in DOMAIN chan[c].chanBuffer |-> Elapse(chan[c].chanBuffer[i])]]]
    BY <1>2 DEF clkUpdate
  <2>2. ASSUME NEW c \in Chans
        PROVE  Same(c, chan'[c], chan[c])
    <3> DEFINE ch  == chan[c]
               buf == [i \in DOMAIN ch.chanBuffer |-> Elapse(ch.chanBuffer[i])]
    <3>1. chan'[c] = [ch EXCEPT !.chanBuffer = buf]
      BY <2>1
    <3>2. IsChan(ch, c) /\ ch \in ChanType(c) /\ HoldsOK(ch) /\ DOMAIN ch.chanBuffer = Inputs(c)
      BY DEF NetOK, IsChan, IsRec, ChanType
    <3>3. ASSUME NEW i \in Inputs(c)
          PROVE  /\ buf[i] \in Seq(Datum) /\ SameBuffer(buf[i], ch.chanBuffer[i])
                 /\ ch.chanBuffer[i] # <<>> => buf[i] # <<>>
      <4> DEFINE q == ch.chanBuffer[i]
                 p == Elapse(q)
      <4>1. q \in Seq(Datum) /\ Len(q) \in Nat /\ \A k \in 1 .. Len(q) : q[k] \in Datum
        <5>1. IsRec(ch, c)
          BY <3>2 DEF IsChan
        <5> QED  BY <5>1, BufferType
      <4>2. p = [k \in 1 .. Len(q) |-> [q[k] EXCEPT !.wait = IF q[k].wait = 0 THEN 0 ELSE q[k].wait - 1]]
        BY <4>1 DEF Elapse
      <4>3. ASSUME NEW k \in 1 .. Len(q)
            PROVE  /\ p[k] \in Datum /\ p[k].value = q[k].value /\ p[k].cond = q[k].cond
                   /\ q[k].wait = 0 => p[k].wait = 0
        <5> DEFINE w == IF q[k].wait = 0 THEN 0 ELSE q[k].wait - 1
        <5>1. q[k] \in Datum
          BY <4>1
        <5>2. w \in Nat /\ (q[k].wait = 0 => w = 0)
          BY <5>1 DEF Datum
        <5>3. p[k] = [q[k] EXCEPT !.wait = w]
          BY <4>2
        <5> HIDE DEF w
        <5> QED  BY <5>1, <5>2, <5>3 DEF Datum
      <4> HIDE DEF p
      <4>4. p \in Seq(Datum) /\ Len(p) = Len(q)
        <5>1. p \in [1 .. Len(q) -> Datum]
          BY <4>2, <4>3
        <5> HIDE DEF Datum
        <5>2. p \in Seq(Datum)
          BY <4>1, <5>1, SeqDef
        <5> QED  BY <4>1, <5>1, <5>2, LenProperties
      <4>5. q # <<>> => p # <<>>
        <5> HIDE DEF Datum
        <5> QED  BY <4>1, <4>4, EmptySeq
      <4>6. buf[i] = p
        BY <3>2 DEF p
      <4> QED  BY <4>3, <4>4, <4>5, <4>6 DEF SameBuffer
    <3>4. buf \in [Inputs(c) -> Seq(Datum)] /\ DOMAIN buf = Inputs(c)
      BY <3>2, <3>3
    <3> HIDE DEF buf
    <3> DEFINE new == chan'[c]
    <3> HIDE DEF new
    <3>5. new = [ch EXCEPT !.chanBuffer = buf]
      BY <3>1 DEF new
    <3>6. /\ new \in ChanType(c) /\ new.chanBuffer = buf /\ new.channel = ch.channel
          /\ new.valid = ch.valid /\ new.bp = ch.bp /\ new.popped = ch.popped
          /\ new.value = ch.value /\ new.lastPopVal = ch.lastPopVal
      BY <3>2, <3>4, <3>5 DEF ChanType
    <3>7. IsChan(new, c)
      BY <3>2, <3>3, <3>4, <3>6 DEF IsChan, IsRec, HoldsOK, OffersOK
    <3> QED  BY <3>3, <3>6, <3>7 DEF Same, new
  <2> QED  BY <2>1, <2>2
<1> QED  BY <1>1, <1>2

\* The graph scheduler opens and shuts channels, and touches no datum.
LEMMA GraphChannels ==
    ASSUME DOMAIN chan = Chans, NetOK, graphUpdate
    PROVE  DOMAIN chan' = Chans /\ \A c \in Chans : Same(c, chan'[c], chan[c])
<1>1. PICK s : chan' = chan \/ chan' = resetSubgraph(configChan(chan, s), s)
  BY DEF graphUpdate
<1>2. CASE chan' = chan
  BY <1>2, SameSelf DEF NetOK
<1>3. CASE chan' = resetSubgraph(configChan(chan, s), s)
  <2>1. DOMAIN chan' = Chans
    BY <1>3 DEF resetSubgraph
  <2>2. ASSUME NEW c \in Chans
        PROVE  Same(c, chan'[c], chan[c])
    <3> DEFINE ch  == chan[c]
               new == chan'[c]
               mid == configChan(chan, s)[c]
    <3>1. IsChan(ch, c) /\ ch \in ChanType(c)
      BY DEF NetOK, IsChan, IsRec
    <3>2. /\ mid \in ChanType(c) /\ mid.chanBuffer = ch.chanBuffer /\ mid.channel = ch.channel
          /\ mid.valid = ch.valid /\ mid.bp = ch.bp /\ mid.popped = ch.popped
          /\ mid.value = ch.value /\ mid.lastPopVal = ch.lastPopVal
      <4>1. CASE c \in DGSF
        <5> DEFINE p == pushEnabled(c, s)
                   g == popEnabled(c, s)
        <5>1. mid = [ch EXCEPT !.pushBufferEnable = p, !.enable = g]
          BY <4>1 DEF configChan
        <5>2. p \in BOOLEAN /\ g \in BOOLEAN /\ Gate(c) = BOOLEAN
          BY <4>1 DEF pushEnabled, popEnabled, StaysOpen, Gate
        <5> HIDE DEF p, g, mid
        <5> QED  BY <3>1, <5>1, <5>2 DEF ChanType
      <4>2. CASE c \notin DGSF
        <5>1. mid = ch
          BY <4>2 DEF configChan
        <5> QED  BY <3>1, <5>1
      <4> QED  BY <4>1, <4>2
    <3> HIDE DEF mid
    <3>3. new = mid \/ new = [mid EXCEPT !.chanDataCnt = 0]
      BY <1>3 DEF resetSubgraph, mid
    <3> HIDE DEF new
    <3>4. /\ new \in ChanType(c) /\ new.chanBuffer = ch.chanBuffer /\ new.channel = ch.channel
          /\ new.valid = ch.valid /\ new.bp = ch.bp /\ new.popped = ch.popped
          /\ new.value = ch.value /\ new.lastPopVal = ch.lastPopVal
      <4>1. CASE new = mid
        BY <3>2, <4>1
      <4>2. CASE new = [mid EXCEPT !.chanDataCnt = 0]
        BY <3>2, <4>2 DEF ChanType
      <4> QED  BY <3>3, <4>1, <4>2
    <3>5. IsChan(new, c)
      BY <3>1, <3>4 DEF IsChan, IsRec, HoldsOK, OffersOK
    <3> QED  BY <3>4, <3>5 DEF Same, SameBuffer, new
  <2> QED  BY <2>1, <2>2
<1> QED  BY <1>1, <1>2, <1>3

-----------------------------------------------------------------------------
(* Every step of the main loop. *)

\* The channels that the next statement updates have room for what they receive.
LEMMA NowReady ==
    ASSUME NetInv, PcOK, PcStep, NEW c \in Now
    PROVE  c \in Chans /\ Ready(c)
<1>1. pc \in DOMAIN Program /\ c \in Updates(pc)
  BY ProgramType DEF PcOK, Now
<1>2. c \in Chans
  BY <1>1, StatementKinds
<1>3. ASSUME NEW i \in Inputs(c), Upstream[c] # <<>>, chan[Upstream[c][i]].valid
      PROVE  Len(chan[c].chanBuffer[i]) < Size[c]
  <2>1. Upstream[c][i] \in Chans /\ Edge(Upstream[c][i], c)
    BY <1>2, <1>3, InputsFacts
  <2>2. PICK m \in DOMAIN Program : Upstream[c][i] \in Updates(m)
    BY <1>3, <2>1 DEF NetInv, ValidOK
  <2>3. Due(Upstream[c][i], c)
    BY <1>1, <2>1, <2>2, DueStep
  <2> QED  BY <1>2, <1>3, <2>3 DEF NetInv, RoomOK
<1> QED  BY <1>2, <1>3 DEF NetInv, RoomOK, Ready

StepOK ==
    /\ PcStep /\ DOMAIN chan' = Chans /\ LcOK'
    /\ \A c \in Chans \ Now : Same(c, chan'[c], chan[c])
    /\ \A c \in Now : Updated(c, chan'[c])
    /\ \A c \in Lses : chan'[c].channel = <<>>

\* The channel of an Lse that is left as it was still waits for its answer.
LEMMA SameLses ==
    ASSUME NetInv, NEW c \in Lses, Same(c, chan'[c], chan[c])
    PROVE  chan'[c].channel = <<>>
<1>1. c \in Chans /\ chan[c].channel = <<>>
  BY ChannelAssumption DEF NetInv, ValidOK
<1>2. chan'[c].channel \in Seq(Flags) /\ Len(chan'[c].channel) = 0
  BY <1>1 DEF Same, IsChan, IsRec, ChanType
<1> HIDE DEF Flags
<1> QED  BY <1>2, EmptySeq

\* Every step, one of a graph scheduler included, does to the channels what
\* StepOK says.
LEMMA StepFacts ==
    ASSUME KeepMode = {}, NetInv, PcOK, LcOK, IndexOK, Next \/ graphUpdate
    PROVE  StepOK
<1>1. PcStep
  <2>1. Goto(pc + 1) \/ (pc = 0 /\ Goto(1))
    <3> HIDE DEF Goto
    <3> QED  BY DEF Next, NextRound, muxUpdate, lcUpdate, ChannelGet, LseAccepts, LseRefuses, graphUpdate
  <2> QED  BY <2>1 DEF Goto, PcStep
<1>2. DOMAIN chan = Chans /\ NetOK
  BY DEF NetInv
<1>3. \A c \in Chans : Same(c, chan[c], chan[c])
  BY <1>2, SameSelf DEF NetOK
<1>4. pc # 0 => pc \in DOMAIN Program /\ Now = Updates(pc)
  BY ProgramType DEF PcOK, Now
<1>5. \A c \in Now : c \in Chans /\ Ready(c)
  BY <1>1, NowReady
<1>6. /\ Lses \subseteq Chans
      /\ \A c \in Lses : chan[c].channel = <<>>
  BY ChannelAssumption DEF NetInv, ValidOK
<1>7. SUFFICES /\ DOMAIN chan' = Chans /\ LcOK'
               /\ \A c \in Chans \ Now : Same(c, chan'[c], chan[c])
               /\ \A c \in Now : Updated(c, chan'[c]) /\ (c \in Lses => chan'[c].channel = <<>>)
  BY <1>1, <1>6, SameLses DEF StepOK
<1>8. CASE NextRound
  <2>1. Now = {}
    BY <1>8 DEF NextRound, Now
  <2>2. LcOK'
    BY <1>8 DEF NextRound, LcOK
  <2> QED  BY <1>2, <1>8, <2>1, <2>2, ClkChannels DEF NextRound
<1>9. CASE ChannelGet
  <2>1. Argument \in Chans \ Lses /\ Now = {Argument}
    BY <1>4, <1>9, StatementKinds DEF ChannelGet, At, Argument
  <2>2. /\ DOMAIN chan' = Chans /\ chan'[Argument] = Got(Argument)
        /\ \A d \in Chans \ {Argument} : chan'[d] = chan[d]
    BY <1>2, <1>9, <2>1, GetChannels DEF ChannelGet
  <2>3. Updated(Argument, chan'[Argument])
    BY <1>2, <1>5, <2>1, <2>2, GotFacts, GetRoom
  <2>4. LcOK'
    BY <1>9 DEF ChannelGet, LcOK
  <2> QED  BY <1>3, <2>1, <2>2, <2>3, <2>4
<1>10. CASE LseAccepts \/ LseRefuses
  <2>1. Argument \in Lses /\ Now = {Argument}
    BY <1>4, <1>10, StatementKinds DEF LseAccepts, LseRefuses, At, Argument
  <2>2. PICK free \in BOOLEAN : LseGet(Argument, free)
    BY <1>10 DEF LseAccepts, LseRefuses
  <2>3. /\ DOMAIN chan' = Chans
        /\ chan'[Argument] = pushReqQ(push(chan[Argument], Argument), Argument, free)
        /\ \A d \in Chans \ {Argument} : chan'[d] = chan[d]
    BY <1>2, <1>6, <2>1, <2>2, LseChannels
  <2>4. LseStep(Argument, chan[Argument], chan'[Argument])
    BY <1>2, <1>6, <2>1, <2>3, LseFacts
  <2>5. Updated(Argument, chan'[Argument]) /\ chan'[Argument].channel = <<>>
    BY <1>2, <1>5, <1>6, <2>1, <2>4, LseRoom DEF LseStep
  <2>6. LcOK'
    BY <1>10 DEF LseAccepts, LseRefuses, LcOK
  <2> QED  BY <1>3, <2>1, <2>3, <2>5, <2>6
<1>11. CASE muxUpdate
  <2>1. PICK l \in Lcs : Argument = l /\ Now = {outChan[l]}
    BY <1>4, <1>11, StatementKinds DEF muxUpdate, At, Argument
  <2>2. outChan[l] \in Chans \ Lses
    BY LoopAssumption
  <2>3. /\ DOMAIN chan' = Chans /\ MuxStep(l, chan'[outChan[l]]) /\ LcOK'
        /\ \A d \in Chans \ {outChan[l]} : chan'[d] = chan[d]
    BY <1>2, <1>11, <2>1, MuxChannels
  <2>4. Updated(outChan[l], chan'[outChan[l]])
    BY <1>2, <1>5, <2>1, <2>3, MuxRoom DEF Ready
  <2> QED  BY <1>3, <2>1, <2>2, <2>3, <2>4
<1>12. CASE lcUpdate
  <2>1. PICK l \in Lcs : Argument = l /\ Now = {getEnd[l], sendEnd[l]}
    BY <1>4, <1>12, StatementKinds DEF lcUpdate, At, Argument
  <2>2. /\ getEnd[l] \in Chans \ Lses /\ sendEnd[l] \in Chans \ Lses
        /\ loopVar[l] \notin {getEnd[l], sendEnd[l]}
    BY LoopAssumption, LcStatements
  <2>3. /\ DOMAIN chan' = Chans /\ LcOK'
        /\ chan'[loopVar[l]] = LastTagged(l)
        /\ chan'[sendEnd[l]] = sendEndUpdate(l)
        /\ getEnd[l] # sendEnd[l] => chan'[getEnd[l]] = Got(getEnd[l])
        /\ \A d \in Chans \ {loopVar[l], sendEnd[l], getEnd[l]} : chan'[d] = chan[d]
    BY <1>2, <1>12, <2>1, LcChannels
  <2>4. Updated(sendEnd[l], chan'[sendEnd[l]])
    BY <1>2, <1>5, <2>1, <2>3, SendEndFacts DEF Ready
  <2>5. Updated(getEnd[l], chan'[getEnd[l]])
    <3>1. CASE getEnd[l] = sendEnd[l]
      BY <2>4, <3>1
    <3>2. CASE getEnd[l] # sendEnd[l]
      BY <1>2, <1>5, <2>1, <2>2, <2>3, <3>2, GotFacts, GetRoom
    <3> QED  BY <3>1, <3>2
  <2>6. Same(loopVar[l], chan'[loopVar[l]], chan[loopVar[l]])
    BY <1>2, <2>3, TaggedFacts
  <2> QED  BY <1>3, <2>1, <2>2, <2>3, <2>4, <2>5, <2>6
<1>13. CASE graphUpdate
  <2>1. Now = {}
    BY <1>4, <1>13, StatementKinds DEF graphUpdate, At
  <2>2. LcOK'
    BY <1>13 DEF graphUpdate, LcOK
  <2> QED  BY <1>2, <1>13, <2>1, <2>2, GraphChannels
<1> QED  BY <1>8, <1>9, <1>10, <1>11, <1>12, <1>13 DEF Next

\* Room is kept: a channel offers a datum when all downstream channels had
\* room for it, and a downstream channel takes another datum of the same input
\* only after this one.
LEMMA NetStep ==
    ASSUME NetInv, PcOK, StepOK
    PROVE  NetInv' /\ PcOK'
<1>1. PcStep /\ DOMAIN chan' = Chans
  BY DEF StepOK
<1>2. Now \subseteq Chans
  BY <1>1, NowReady
<1>3. ASSUME NEW c \in Chans
      PROVE  IsChan(chan'[c], c) /\ Room(c, chan'[c])
  <2>1. CASE c \in Now
    BY <2>1 DEF StepOK, Updated
  <2>2. CASE c \notin Now
    BY <1>3, <2>2 DEF StepOK, Same, SameBuffer, NetInv, RoomOK, Room
  <2> QED  BY <2>1, <2>2
<1>4. NetOK'
  BY <1>3 DEF NetOK
<1>5. ASSUME NEW c \in Chans, chan'[c].valid
      PROVE  \E n \in DOMAIN Program : c \in Updates(n)
  <2>1. CASE c \in Now
    <3>1. pc \in DOMAIN Program /\ c \in Updates(pc)
      BY <2>1, ProgramType DEF PcOK, Now
    <3> QED  BY <3>1
  <2>2. CASE c \notin Now
    BY <1>5, <2>2 DEF StepOK, Same, NetInv, ValidOK
  <2> QED  BY <2>1, <2>2
<1>6. ValidOK'
  BY <1>5 DEF ValidOK, StepOK, Updates
<1>7. ASSUME NEW d \in Chans, NEW i \in Inputs(d), Upstream[d] # <<>>,
             chan'[Upstream[d][i]].valid, Due(Upstream[d][i], d)'
      PROVE  Len(chan'[d].chanBuffer[i]) < Size[d]
  <2> DEFINE u == Upstream[d][i]
  <2>1. u \in Chans /\ Edge(u, d)
    BY <1>7, InputsFacts
  <2>2. PICK m \in DOMAIN Program, n \in DOMAIN Program : u \in Updates(m) /\ d \in Updates(n)
    BY <1>7 DEF Due, Updates
  <2>3. /\ u \notin Now /\ d \notin Now => (Due(u, d)' <=> Due(u, d))
        /\ d \in Now => ~Due(u, d)'
    BY <1>1, <2>1, <2>2, DueStep
  <2>4. d \notin Now
    BY <1>7, <2>3
  <2>5. Len(chan'[d].chanBuffer[i]) = Len(chan[d].chanBuffer[i])
    BY <1>7, <2>4 DEF StepOK, Same, SameBuffer
  <2>6. CASE u \in Now
    <3>1. checkSend(u, d)
      BY <1>7, <2>1, <2>6 DEF StepOK, Updated, Downstream
    <3>2. getChanId(d, u) = i
      <4>1. \A j \in Inputs(d) : Upstream[d][j] = u => j = i
        <5>1. \A j \in Inputs(d) : j \in 1 .. Len(Upstream[d])
          BY <1>7, InputsFacts
        <5>2. \A j, k \in 1 .. Len(Upstream[d]) : Upstream[d][j] = Upstream[d][k] => j = k
          BY ChannelAssumption
        <5> QED  BY <5>1, <5>2
      <4> QED  BY <1>7, <4>1 DEF getChanId
    <3> QED  BY <1>7, <2>5, <3>1, <3>2 DEF checkSend, NetInv, RoomOK, Room
  <2>7. CASE u \notin Now
    <3>1. chan[u].valid
      BY <1>7, <2>1, <2>7 DEF StepOK, Same
    <3>2. Due(u, d)
      BY <1>7, <2>3, <2>4, <2>7
    <3> QED  BY <1>7, <2>5, <3>1, <3>2 DEF NetInv, RoomOK
  <2> QED  BY <2>6, <2>7
<1>8. RoomOK'
  BY <1>3, <1>7 DEF RoomOK, Room
<1>9. PcOK'
  BY <1>1, ProgramType DEF PcOK, PcStep
<1> QED  BY <1>1, <1>4, <1>6, <1>8, <1>9 DEF NetInv

\* The statements of a Lc are run by their actions.
LEMMA LcActions ==
    ASSUME Next \/ graphUpdate, NEW l \in Lcs
    PROVE  /\ pc = MuxAt(l)     => muxUpdate /\ Argument = l
           /\ pc = MuxAt(l) + 1 => ChannelGet /\ Argument = loopVar[l]
           /\ pc = MuxAt(l) + 2 => lcUpdate /\ Argument = l
<1> DEFINE n == MuxAt(l)
<1>1. /\ n \in Nat \ {0}
      /\ Program[n] = <<"mux", l>> /\ Program[n + 1] = <<"get", loopVar[l]>> /\ Program[n + 2] = <<"lc", l>>
  <2>1. n \in Nat \ {0}
    BY LcStatements
  <2> QED  BY <2>1, ProgramAssumption DEF MuxAt
<1>2. /\ NextRound => pc = 0
      /\ muxUpdate => pc # 0 /\ Program[pc][1] = "mux"
      /\ lcUpdate => pc # 0 /\ Program[pc][1] = "lc"
      /\ ChannelGet => pc # 0 /\ Program[pc][1] = "get"
      /\ LseAccepts \/ LseRefuses => pc # 0 /\ Program[pc][1] = "lse"
      /\ graphUpdate => pc # 0 /\ Program[pc][1] = "sched"
  BY DEF NextRound, muxUpdate, lcUpdate, ChannelGet, LseAccepts, LseRefuses, graphUpdate, At
<1> HIDE DEF n
<1>3. n # 0 /\ n + 1 # 0 /\ n + 2 # 0
  BY <1>1
<1>4. CASE pc = n
  BY <1>1, <1>2, <1>3, <1>4 DEF Next, Argument, n
<1>5. CASE pc = n + 1
  BY <1>1, <1>2, <1>3, <1>5 DEF Next, Argument, n
<1>6. CASE pc = n + 2
  BY <1>1, <1>2, <1>3, <1>6 DEF Next, Argument, n
<1> QED  BY <1>4, <1>5, <1>6 DEF n

\* The channels of a Lc among those that a step updates.
LEMMA LcNow ==
    ASSUME PcOK, NEW l \in Lcs
    PROVE  /\ outChan[l] \in Now <=> pc = MuxAt(l)
           /\ loopVar[l] \in Now <=> pc = MuxAt(l) + 1
<1>1. pc # 0 => pc \in DOMAIN Program
  BY ProgramType DEF PcOK
<1> QED  BY <1>1, LcStatements DEF Now

LoopInv == NetInv /\ PcOK /\ LcOK /\ IndexOK

\* The channels of a Lc are channels of the network, the loopVar below the outChan.
LEMMA LoopVarType ==
    ASSUME NetOK, NEW l \in Lcs
    PROVE  LET v == loopVar[l]
           IN  /\ v \in Chans /\ outChan[l] \in Chans /\ v \notin DGSF
               /\ 1 \in Inputs(v) /\ Upstream[v] # <<>> /\ Upstream[v][1] = outChan[l]
               /\ Edge(outChan[l], v)
               /\ IsChan(chan[v], v) /\ IsRec(chan[v], v)
               /\ IsChan(chan[outChan[l]], outChan[l]) /\ IsRec(chan[outChan[l]], outChan[l])
<1>1. loopVar[l] \in Chans /\ outChan[l] \in Chans /\ loopVar[l] \in LoopVars
  BY LcStatements, LoopAssumption
<1>2. 1 \in Inputs(loopVar[l]) /\ Upstream[loopVar[l]][1] = outChan[l]
  BY <1>1, InputsFacts, LoopAssumption
<1>3. Upstream[loopVar[l]] # <<>>
  BY LoopAssumption
<1>4. loopVar[l] \notin DGSF
  BY <1>1, ChannelAssumption
<1> QED  BY <1>1, <1>2, <1>3, <1>4, InputsFacts DEF NetOK, IsChan

\* A Lc keeps indices of its own loop.
LEMMA IndexStep ==
    ASSUME KeepMode = {}, LoopInv, Next \/ graphUpdate, StepOK
    PROVE  IndexOK'
<1> USE DEF LoopInv
<1>1. NetOK /\ DOMAIN chan = Chans
  BY DEF NetInv
<1>2. ASSUME NEW l \in Lcs
      PROVE  chan'[outChan[l]].value \in Index(l)
  <2> DEFINE o == outChan[l]
  <2>1. o \in Chans
    BY <1>1, LoopVarType
  <2>2. CASE o \in Now
    <3>1. muxUpdate /\ Argument = l
      BY <2>2, LcNow, LcActions
    <3>2. MuxStep(l, chan'[o])
      BY <1>1, <3>1, MuxChannels
    <3>3. lc[l].var \in Nat
      BY LcFields
    <3> QED  BY <3>2, <3>3 DEF MuxStep, Index
  <2>3. CASE o \notin Now
    BY <2>1, <2>3 DEF StepOK, Same, IndexOK
  <2> QED  BY <2>2, <2>3
<1>3. ASSUME NEW l \in Lcs
      PROVE  /\ chan'[loopVar[l]].lastPopVal \in Index(l)
             /\ \A k \in 1 .. Len(chan'[loopVar[l]].chanBuffer[1]) :
                   chan'[loopVar[l]].chanBuffer[1][k].value \in Index(l)
  <2> DEFINE v   == loopVar[l]
             ch  == chan[v]
             new == chan'[v]
  <2>1. v \in Chans /\ 1 \in Inputs(v) /\ Upstream[v][1] = outChan[l] /\ IsChan(ch, v) /\ IsRec(ch, v)
    BY <1>1, LoopVarType
  <2>2. /\ ch.lastPopVal \in Index(l)
        /\ \A k \in 1 .. Len(ch.chanBuffer[1]) : ch.chanBuffer[1][k].value \in Index(l)
        /\ chan[outChan[l]].value \in Index(l)
    BY DEF IndexOK
  <2>3. Len(ch.chanBuffer[1]) \in Nat
    BY <2>1, BufferType
  <2>4. CASE v \in Now
    <3>1. ChannelGet /\ Argument = v
      BY <2>4, LcNow, LcActions
    <3>2. GetStep(v, ch, new)
      BY <1>1, <2>1, <3>1, GetChannels, GotFacts DEF ChannelGet
    <3>3. new.lastPopVal \in Index(l)
      <4>1. CASE ch.valid
        <5>1. 1 \in 1 .. Len(ch.chanBuffer[1])
          BY <2>1, <2>3, <4>1, ValidFull, BufferType
        <5> QED  BY <2>2, <3>2, <4>1, <5>1 DEF GetStep
      <4>2. CASE ~ch.valid
        BY <2>2, <3>2, <4>2 DEF GetStep
      <4> QED  BY <4>1, <4>2
    <3> DEFINE x == IF ch.valid THEN 1 ELSE 0
               y == IF Takes1(v, 1) THEN 1 ELSE 0
               n == Len(ch.chanBuffer[1]) - x
    <3>4. /\ n \in Nat /\ Len(new.chanBuffer[1]) = n + y
          /\ \A k \in 1 .. n : new.chanBuffer[1][k] = ch.chanBuffer[1][k + x]
          /\ Takes1(v, 1) => new.chanBuffer[1][n + 1] = Offer(v, 1)
      <4>1. n \in Nat
        BY <1>1, <2>1, <3>2, GetFillFacts
      <4>3. \A k \in 1 .. n : new.chanBuffer[1][k] = ch.chanBuffer[1][k + x]
        BY <1>1, <2>1, <3>2, GetFillFacts, ZenonT(60)
      <4>4. Takes1(v, 1) => new.chanBuffer[1][n + 1] = Offer(v, 1)
        BY <1>1, <2>1, <3>2, GetFillFacts
      <4>2. Len(new.chanBuffer[1]) = n + y
        BY <1>1, <2>1, <3>2, GetFillFacts
      <4> QED  BY <4>1, <4>2, <4>3, <4>4
    <3>5. x \in {0, 1} /\ y \in {0, 1} /\ (y = 1 => Takes1(v, 1))
      OBVIOUS
    <3>6. Takes1(v, 1) => Offer(v, 1).value = chan[outChan[l]].value
      BY <2>1 DEF Offer
    <3>7. n = Len(ch.chanBuffer[1]) - x
      OBVIOUS
    <3> HIDE DEF x, y, n, ch, new
    <3>8. ASSUME NEW k \in 1 .. Len(new.chanBuffer[1])
          PROVE  new.chanBuffer[1][k].value \in Index(l)
      <4>1. CASE k \in 1 .. n
        <5>1. k + x \in 1 .. Len(ch.chanBuffer[1])
          BY <2>3, <3>4, <3>5, <3>7, <4>1
        <5> QED  BY <2>2, <3>4, <4>1, <5>1 DEF ch
      <4>2. CASE k = n + 1 /\ y = 1
        BY <2>2, <3>4, <3>5, <3>6, <4>2
      <4> QED  BY <3>4, <3>5, <4>1, <4>2
    <3> QED  BY <3>3, <3>8 DEF new
  <2>5. CASE v \notin Now
    <3>1. Same(v, new, ch)
      BY <2>1, <2>5 DEF StepOK
    <3> QED  BY <2>1, <2>2, <3>1, ZenonT(60) DEF Same, SameBuffer
  <2> QED  BY <2>4, <2>5
<1> QED  BY <1>2, <1>3 DEF IndexOK, Index

\* Every step keeps the invariant.
LEMMA LoopInvStep ==
    ASSUME KeepMode = {}, LoopInv, Next \/ graphUpdate
    PROVE  StepOK /\ LoopInv'
<1>1. StepOK
  BY StepFacts DEF LoopInv
<1> QED  BY <1>1, NetStep, IndexStep DEF LoopInv, StepOK

\* Nothing happens in a stuttering step.
LEMMA LoopInvStutter ==
    ASSUME LoopInv, UNCHANGED vars
    PROVE  LoopInv'
<1>1. chan' = chan /\ lc' = lc /\ begin' = begin /\ pc' = pc
  BY DEF vars
<1>2. NetInv'
  <2>1. \A c, d : Due(c, d)' <=> Due(c, d)
    BY <1>1 DEF Due, Fresh, Updates
  <2>2. RoomOK'
    BY <1>1, <2>1 DEF LoopInv, NetInv, RoomOK, Room
  <2>3. NetOK' /\ ValidOK' /\ DOMAIN chan' = Chans
    BY <1>1 DEF LoopInv, NetInv, NetOK, ValidOK, Updates
  <2> QED  BY <2>2, <2>3 DEF NetInv
<1>3. PcOK' /\ LcOK' /\ IndexOK'
  BY <1>1 DEF LoopInv, PcOK, LcOK, IndexOK, Index
<1> QED  BY <1>2, <1>3 DEF LoopInv

\* The channels as they were initialised.
NewNet(net) ==
    /\ DOMAIN net = Chans
    /\ \A c \in Chans : /\ net[c] \in ChanType(c)
                        /\ net[c].channel = <<>> /\ ~net[c].valid /\ net[c].popped = 0
                        /\ net[c].value = {} /\ net[c].lastPopVal = {}
                        /\ \A i \in Inputs(c) : net[c].chanBuffer[i] = <<>> /\ ~net[c].bp[i]

\* The constructors leave such channels, with and without a graph scheduler.
LEMMA NewFacts ==
    ASSUME KeepMode = {}
    PROVE  NewNet(NewChannels) /\ \A s : NewNet(configChan(NewChannels, s))
<1>1. ASSUME NEW c \in Chans
      PROVE  /\ NewChannel(c) \in ChanType(c)
             /\ NewChannel(c).channel = <<>> /\ ~NewChannel(c).valid /\ NewChannel(c).popped = 0
             /\ NewChannel(c).value = {} /\ NewChannel(c).lastPopVal = {}
             /\ \A i \in Inputs(c) : NewChannel(c).chanBuffer[i] = <<>> /\ ~NewChannel(c).bp[i]
  <2> DEFINE buf  == [i \in Inputs(c) |-> <<>>]
             bps  == [i \in Inputs(c) |-> FALSE]
             tags == [d \in IF c \in KeepMode THEN Downstream(c) ELSE {} |-> 0]
             open == c \notin DGSF
  <2>1. /\ buf \in [Inputs(c) -> Seq(Datum)] /\ bps \in [Inputs(c) -> BOOLEAN]
        /\ \A i \in Inputs(c) : buf[i] = <<>> /\ ~bps[i]
    BY DEF Datum
  <2>2. tags \in [{} -> Int]
    OBVIOUS
  <2>3. open \in Gate(c)
    BY DEF Gate
  <2>4. 1 \in Instances(c) /\ {} \in Values /\ <<>> \in Seq(Flags)
    BY DEF Instances, Values
  <2>5. NewChannel(c) = [chanBuffer |-> buf, channel |-> <<>>, bp |-> bps, valid |-> FALSE, value |-> {},
                         lastPopVal |-> {}, lastTagQueue |-> tags, currId |-> 1, enable |-> open,
                         pushBufferEnable |-> open, getTheLastData |-> FALSE, chanDataCnt |-> 0,
                         popped |-> 0]
    BY DEF NewChannel
  <2> HIDE DEF buf, bps, tags, open
  <2> QED  BY ONLY <2>1, <2>2, <2>3, <2>4, <2>5 DEF ChanType
<1>2. NewNet(NewChannels)
  BY <1>1 DEF NewNet, NewChannels
<1>3. ASSUME NEW s, NEW c \in Chans
      PROVE  LET new == configChan(NewChannels, s)[c]
             IN  /\ new \in ChanType(c)
                 /\ new.channel = <<>> /\ ~new.valid /\ new.popped = 0
                 /\ new.value = {} /\ new.lastPopVal = {}
                 /\ \A i \in Inputs(c) : new.chanBuffer[i] = <<>> /\ ~new.bp[i]
  <2> DEFINE new == configChan(NewChannels, s)[c]
             ch  == NewChannels[c]
             p   == pushEnabled(c, s)
             g   == popEnabled(c, s)
  <2>1. /\ ch \in ChanType(c) /\ ch.channel = <<>> /\ ~ch.valid /\ ch.popped = 0
        /\ ch.value = {} /\ ch.lastPopVal = {}
        /\ \A i \in Inputs(c) : ch.chanBuffer[i] = <<>> /\ ~ch.bp[i]
    BY <1>2 DEF NewNet
  <2>2. CASE c \in DGSF
    <3>1. new = [ch EXCEPT !.pushBufferEnable = p, !.enable = g]
      BY <2>2 DEF configChan
    <3>2. p \in Gate(c) /\ g \in Gate(c)
      BY <2>2 DEF pushEnabled, popEnabled, StaysOpen, Gate
    <3> HIDE DEF p, g, new, ch
    <3>3. new \in ChanType(c) /\ new.channel = ch.channel /\ new.valid = ch.valid /\ new.popped = ch.popped
          /\ new.value = ch.value /\ new.lastPopVal = ch.lastPopVal
          /\ new.chanBuffer = ch.chanBuffer /\ new.bp = ch.bp
      BY <2>1, <3>1, <3>2 DEF ChanType
    <3> QED  BY <2>1, <3>3 DEF new
  <2>3. CASE c \notin DGSF
    <3>1. new = ch
      BY <2>3 DEF configChan
    <3> QED  BY <2>1, <3>1
  <2> QED  BY <2>2, <2>3
<1>4. \A s : DOMAIN configChan(NewChannels, s) = Chans
  BY DEF configChan
<1> QED  BY <1>2, <1>3, <1>4 DEF NewNet

\* The invariant holds at first.
LEMMA LoopInvInit ==
    ASSUME NEW net, NewNet(net), InitWith(net)
    PROVE  LoopInv
<1>1. chan = net /\ pc = 0
  BY DEF InitWith
<1>2. ASSUME NEW c \in Chans
      PROVE  IsChan(chan[c], c) /\ Room(c, chan[c])
  <2>1. \A i \in Inputs(c) : Len(chan[c].chanBuffer[i]) = 0 /\ 0 < Size[c]
    BY <1>1, ChannelAssumption DEF NewNet
  <2>2. chan[c] \in ChanType(c) /\ chan[c].channel = <<>> /\ ~chan[c].valid
    BY <1>1 DEF NewNet
  <2>3. IsChan(chan[c], c)
    BY <2>2 DEF IsChan, IsRec, HoldsOK, OffersOK
  <2>4. Room(c, chan[c])
    BY <2>1, ChannelAssumption DEF Room
  <2> QED  BY <2>3, <2>4
<1>3. NetOK /\ ValidOK
  BY <1>1, <1>2, ChannelAssumption DEF NetOK, ValidOK, NewNet
<1>4. RoomOK
  <2>1. \A d \in Chans : \A i \in Inputs(d) : Upstream[d] # <<>> => ~chan[Upstream[d][i]].valid
    BY <1>1, InputsFacts DEF NewNet
  <2> QED  BY <1>2, <2>1 DEF RoomOK
<1>5. NetInv
  BY <1>1, <1>3, <1>4 DEF NetInv, NewNet
<1>6. PcOK
  BY <1>1, ProgramType DEF PcOK
<1>7. LcOK
  <2>1. NewLc \in LcType
    BY DEF NewLc, LcType, DataStatus
  <2> QED  BY <2>1 DEF InitWith, LcOK
<1>8. IndexOK
  <2>1. ASSUME NEW l \in Lcs
        PROVE  /\ chan[outChan[l]].value = {} /\ chan[loopVar[l]].lastPopVal = {}
               /\ chan[loopVar[l]].chanBuffer[1] = <<>>
    BY <1>1, <1>3, LoopVarType DEF NewNet
  <2>2. \A l \in Lcs : {} \in Index(l)
    BY DEF Index
  <2>3. \A l \in Lcs : 1 .. Len(chan[loopVar[l]].chanBuffer[1]) = {}
    BY <2>1
  <2> QED  BY <2>1, <2>2, <2>3 DEF IndexOK
<1> QED  BY <1>5, <1>6, <1>7, <1>8 DEF LoopInv

\* Back-pressure is respected (Channel::bpUpdate, checkSend): without keepMode
\* no chanBuffer ever holds more than size, whatever the graph, the latencies,
\* the speedups and the order in which the main loop calls the channels.
THEOREM BuffersAreBounded ==
    ASSUME KeepMode = {}
    PROVE  Spec => []BufferWithinSize
<1>1. Init => LoopInv
  BY NewFacts, LoopInvInit DEF Init
<1>2. LoopInv /\ [Next]_vars => LoopInv'
  BY LoopInvStep, LoopInvStutter
<1>3. LoopInv => BufferWithinSize
  BY DEF LoopInv, NetInv, RoomOK, Room, BufferWithinSize
<1> QED  BY <1>1, <1>2, <1>3, PTL DEF Spec

\* The same with a graph scheduler that opens and shuts channels at any time.
THEOREM ScheduledBuffersAreBounded ==
    ASSUME KeepMode = {}
    PROVE  SchedSpec => []BufferWithinSize
<1>1. SchedInit => LoopInv
  BY NewFacts, LoopInvInit DEF SchedInit
<1>2. LoopInv /\ [SchedNext]_allVars => LoopInv'
  <2>1. SUFFICES ASSUME LoopInv, [SchedNext]_allVars PROVE LoopInv'
    OBVIOUS
  <2>2. CASE SchedNext
    BY <2>1, <2>2, LoopInvStep DEF SchedNext
  <2>3. CASE UNCHANGED allVars
    BY <2>1, <2>3, LoopInvStutter DEF allVars, vars
  <2> QED  BY <2>1, <2>2, <2>3
<1>3. LoopInv => BufferWithinSize
  BY DEF LoopInv, NetInv, RoomOK, Room, BufferWithinSize
<1> QED  BY <1>1, <1>2, <1>3, PTL DEF SchedSpec

-----------------------------------------------------------------------------
(* The order of the iterations. *)

\* An outermost loop whose loopVar is fed by its Mux alone.
IsLoop(l) ==
    /\ l \in OuterMost /\ loopVar[l] \in DOMAIN Nest /\ Nest[loopVar[l]] = <<l>>
    /\ Upstream[loopVar[l]] = <<outChan[l]>> /\ Downstream(outChan[l]) = {loopVar[l]}

\* A buffer holds the iterations from popped on, one after the other.
RowsOK ==
    \A c \in DOMAIN Nest : \A i \in Inputs(c) : \A k \in 1 .. Len(chan[c].chanBuffer[i]) :
        chan[c].chanBuffer[i][k].value = {<<Nest[c][1], chan[c].popped + k - 1>>}

\* What a channel offers is the iteration after those it has dropped.
ValueOK ==
    \A c \in DOMAIN Nest : chan[c].valid => chan[c].value = {<<Nest[c][1], chan[c].popped>>}

\* A channel has taken all data that its upstream channels have offered, but
\* for the one that is due.
HasTaken(c, i) ==
    LET u == Upstream[c][i]
    IN  chan[c].popped + Len(chan[c].chanBuffer[i])
            = chan[u].popped + (IF chan[u].valid /\ ~Due(u, c) THEN 1 ELSE 0)

TakenOK ==
    \A c \in DOMAIN Nest \ LoopVars : \A i \in Inputs(c) :
        (\E n \in DOMAIN Program : c \in Updates(n)) => HasTaken(c, i)

\* The single datum that goes round between the Mux and the loopVar, in the
\* three places the main loop can be at: n data are in the loopVar, which has
\* dropped p, and the outChan is or is not sending.
AfterMux(l, n, p, sending) ==
    LET v == chan[loopVar[l]]
        o == chan[outChan[l]]
    IN  /\ sending =>
              /\ o.value = {<<l, p + n>>} /\ (o.valid <=> n < Size[loopVar[l]])
              /\ n = 1 => v.valid
              /\ p + n < Bound[l]
              /\ p + n > 0 => lc[l].sel
              /\ lc[l].muxSuccess <=> n = 1 \/ p = 0
        /\ ~sending => ~lc[l].muxSuccess /\ (n = 0 \/ v.valid => ~lc[l].sel)

AfterLoopVar(l, n, p, sending) ==
    /\ n = 1 /\ sending => chan[outChan[l]].valid
    /\ n = 0 /\ sending => ~chan[outChan[l]].valid /\ p > 0 /\ p < Bound[l] /\ lc[l].muxSuccess
    /\ n = 0 /\ ~sending => ~lc[l].sel /\ ~lc[l].muxSuccess

Elsewhere(l, n, p, sending) ==
    /\ begin => p + n = 0
    /\ p + n = 0 => ~sending
    /\ n = 1 /\ sending => chan[outChan[l]].valid
    /\ n = 0 => (lc[l].sel <=> sending) /\ ~chan[outChan[l]].valid
    /\ n = 0 /\ sending => p < Bound[l]

Circle(l, n, p, sending) ==
    /\ pc = MuxAt(l) + 1 => AfterMux(l, n, p, sending)
    /\ pc = MuxAt(l) + 2 => AfterLoopVar(l, n, p, sending)
    /\ pc \notin {MuxAt(l) + 1, MuxAt(l) + 2} => Elsewhere(l, n, p, sending)

\* What the Lc knows of it, but for the moment between the loopVar's get() and
\* its own update.
Known(l, n, p) ==
    /\ p + n > 0 => lc[l].var = p + n
    /\ p + n = 0 => ~lc[l].sel
    /\ n = 1 /\ chan[loopVar[l]].channel # <<>> => (lc[l].sel <=> p + 1 < Bound[l])

\* The wires of the loop.
Wires(l, n, p, sending) ==
    LET v == chan[loopVar[l]]
        o == chan[outChan[l]]
    IN  /\ n \in {0, 1} /\ p + n <= Bound[l]
        /\ p + n > 0 /\ n = 0 => v.lastPopVal = {<<l, p - 1>>}
        /\ v.bp[1] <=> n >= Size[loopVar[l]]
        /\ Len(o.channel) = Len(o.chanBuffer[1])
        /\ sending => o.chanBuffer[1][1].wait = 0 /\ o.channel[1].cond

LoopOK(l) ==
    LET n == Len(chan[loopVar[l]].chanBuffer[1])
        p == chan[loopVar[l]].popped
        sending == IF chan[outChan[l]].channel # <<>> THEN TRUE ELSE FALSE
    IN  /\ Wires(l, n, p, sending)
        /\ pc # MuxAt(l) + 2 => Known(l, n, p)
        /\ Circle(l, n, p, sending)

LoopsOK == \A l \in Lcs : IsLoop(l) => LoopOK(l)

OrderInv == RowsOK /\ ValueOK /\ TakenOK /\ LoopsOK

\* The conds of the data on a path, and of those that are on none.
CondIs(c, value) == IF branchMode(c) THEN CondTrue(value) <=> c \in TruePath ELSE TRUE

CondOK ==
    \A c \in DOMAIN Nest :
        /\ \A i \in Inputs(c) : branchMode(c) \/ i = 1 =>
              \A k \in 1 .. Len(chan[c].chanBuffer[i]) :
                  chan[c].chanBuffer[i][k].cond <=> CondIs(c, chan[c].chanBuffer[i][k].value)
        /\ chan[c].channel # <<>> =>
              (chan[c].channel[1].cond <=> CondIs(c, {<<Nest[c][1], chan[c].popped>>}))

\* What PlainNetwork says of an observed channel.
LEMMA PlainFacts ==
    ASSUME PlainNetwork, NEW c \in DOMAIN Nest
    PROVE  /\ c \in Chans /\ Upstream[c] # <<>> /\ KeepMode = {}
           /\ \E l \in OuterMost : l \in Lcs /\ Nest[c] = <<l>> /\ Nest[c][1] = l
           /\ c \in LoopVars => \E l \in Lcs : IsLoop(l) /\ c = loopVar[l] /\ Nest[c][1] = l
           /\ c \notin LoopVars => \A i \in Inputs(c) :
                 LET u == Upstream[c][i]
                 IN  u \in DOMAIN Nest \ Lses /\ Nest[u][1] = Nest[c][1]
<1>1. /\ c \in Chans /\ OuterMost \subseteq Lcs
      /\ \A l \in Lcs : loopVar[l] \in LoopVars /\ outChan[l] \in Chans
  BY LoopAssumption
<1>2. PICK l \in OuterMost :
          /\ Nest[c] = <<l>>
          /\ c \in LoopVars => c = loopVar[l] /\ Upstream[c] = <<outChan[l]>> /\ Downstream(outChan[l]) = {c}
          /\ c \notin LoopVars => /\ Upstream[c] # <<>>
                                  /\ \A i \in Inputs(c) : LET u == Upstream[c][i]
                                          IN  u \in DOMAIN Nest \ Lses /\ Nest[u] = <<l>>
  BY DEF PlainNetwork
<1>3. Nest[c][1] = l /\ l \in Lcs
  BY <1>1, <1>2
<1>4. c \in LoopVars => IsLoop(l)
  BY <1>2 DEF IsLoop
<1>5. Upstream[c] # <<>>
  BY <1>2
<1>6. KeepMode = {}
  BY DEF PlainNetwork
<1>7. ASSUME c \notin LoopVars, NEW i \in Inputs(c)
      PROVE  Upstream[c][i] \in DOMAIN Nest \ Lses /\ Nest[Upstream[c][i]][1] = Nest[c][1]
  BY <1>2, <1>3, <1>7
<1> QED  BY <1>1, <1>2, <1>3, <1>4, <1>5, <1>6, <1>7

\* In a plain network a channel takes whatever is valid.
LEMMA PlainReceives ==
    ASSUME PlainNetwork, NEW ch, NEW c \in Chans, NEW i \in Inputs(c), Upstream[c] # <<>>
    PROVE  Receives(ch, c, i) <=> chan[Upstream[c][i]].valid = TRUE
<1>1. KeepMode = {} /\ DrainMode = {} /\ DGSF = {}
  BY DEF PlainNetwork
<1>2. ~hasUpstreamInKeepMode(c)
  BY <1>1 DEF hasUpstreamInKeepMode, KeepUpstream
<1> QED  BY <1>1, <1>2 DEF Receives, Open, checkUpstream, Admits

\* An update of a channel with upstreams is a get().
LEMMA UpdateKinds ==
    ASSUME PlainNetwork, LoopInv, Next \/ graphUpdate, NEW c \in Chans, Upstream[c] # <<>>, c \in Now
    PROVE  /\ c \notin Lses => GetStep(c, chan[c], chan'[c])
           /\ c \in Lses => LseStep(c, chan[c], chan'[c])
<1>1. c \in Chans /\ Upstream[c] # <<>> /\ KeepMode = {}
  BY DEF PlainNetwork
<1>2. DOMAIN chan = Chans /\ NetOK /\ LcOK /\ IndexOK
  BY DEF LoopInv, NetInv
<1>3. pc \in DOMAIN Program /\ c \in Updates(pc)
  BY ProgramType DEF LoopInv, PcOK, Now
<1>4. \A l \in Lcs : Upstream[outChan[l]] = <<>> /\ Upstream[sendEnd[l]] = <<>>
  BY LoopAssumption
<1>5. CASE ChannelGet
  <2>1. Argument = c /\ c \notin Lses
    BY <1>3, <1>5, StatementKinds DEF ChannelGet, At, Argument
  <2> QED  BY <1>1, <1>2, <1>5, <2>1, GetChannels, GotFacts DEF ChannelGet
<1>6. CASE LseAccepts \/ LseRefuses
  <2>1. Argument = c /\ c \in Lses
    BY <1>3, <1>6, StatementKinds DEF LseAccepts, LseRefuses, At, Argument
  <2>2. PICK free \in BOOLEAN : LseGet(c, free)
    BY <1>6, <2>1 DEF LseAccepts, LseRefuses
  <2>3. chan'[c] = pushReqQ(push(chan[c], c), c, free) /\ chan[c].channel = <<>>
    BY <1>1, <1>2, <2>1, <2>2, LseChannels DEF LoopInv, NetInv, ValidOK
  <2> QED  BY <1>1, <1>2, <2>1, <2>3, LseFacts
<1>7. ~muxUpdate
  BY <1>1, <1>3, <1>4, StatementKinds DEF muxUpdate, At
<1>8. CASE lcUpdate
  <2>1. Argument \in Lcs /\ Now = {getEnd[Argument], sendEnd[Argument]}
    BY <1>3, <1>8, StatementKinds DEF lcUpdate, At, Argument, Now
  <2>2. c = getEnd[Argument] /\ getEnd[Argument] # sendEnd[Argument]
    BY <1>1, <1>4, <2>1
  <2>3. c \notin Lses
    BY <2>1, <2>2, LoopAssumption
  <2>4. chan'[c] = Got(c)
    BY <1>1, <1>2, <1>8, <2>1, <2>2, LcChannels
  <2> QED  BY <1>1, <1>2, <2>3, <2>4, GotFacts
<1>9. ~NextRound /\ ~graphUpdate
  BY <1>3, ProgramType, StatementKinds DEF NextRound, graphUpdate, At, Updates, Now
<1> QED  BY <1>5, <1>6, <1>7, <1>8, <1>9 DEF Next

\* A channel drops x data and takes what its upstream channels offer.
Taking(c, x) ==
    /\ x \in {0, 1} /\ chan'[c].popped = chan[c].popped + x
    /\ \A i \in Inputs(c) :
          LET old == chan[c].chanBuffer[i]
              new == chan'[c].chanBuffer[i]
              t   == IF chan[Upstream[c][i]].valid THEN 1 ELSE 0
          IN  /\ Len(old) \in Nat /\ Len(new) + x = Len(old) + t
              /\ \A k \in 1 .. Len(new) :
                    \/ k + x \in 1 .. Len(old) /\ new[k] = old[k + x]
                    \/ k + x = Len(old) + 1 /\ t = 1 /\ new[k] = Offer(c, i)

\* get takes a datum of each input, or of none.
LEMMA GetTaking ==
    ASSUME PlainNetwork, LoopInv, NEW c \in Chans, Upstream[c] # <<>>, GetStep(c, chan[c], chan'[c])
    PROVE  Taking(c, IF chan[c].valid THEN 1 ELSE 0)
<1>1. c \in Chans /\ Upstream[c] # <<>> /\ KeepMode = {} /\ NetOK
  BY DEF PlainNetwork, LoopInv, NetInv
<1> DEFINE x == IF chan[c].valid THEN 1 ELSE 0
<1>2. x \in {0, 1} /\ chan'[c].popped = chan[c].popped + x
  BY DEF GetStep
<1>3. ASSUME NEW i \in Inputs(c)
      PROVE  LET old == chan[c].chanBuffer[i]
                 new == chan'[c].chanBuffer[i]
                 t   == IF chan[Upstream[c][i]].valid THEN 1 ELSE 0
             IN  /\ Len(old) \in Nat /\ Len(new) + x = Len(old) + t
                 /\ \A k \in 1 .. Len(new) :
                       \/ k + x \in 1 .. Len(old) /\ new[k] = old[k + x]
                       \/ k + x = Len(old) + 1 /\ t = 1 /\ new[k] = Offer(c, i)
  <2> DEFINE old == chan[c].chanBuffer[i]
             new == chan'[c].chanBuffer[i]
             t   == IF chan[Upstream[c][i]].valid THEN 1 ELSE 0
             n   == Len(old) - x
  <2>1. Takes1(c, i) <=> t = 1
    <3>1. Receives(Popped(c), c, i) <=> chan[Upstream[c][i]].valid = TRUE
      BY <1>1, PlainReceives
    <3>2. chan[Upstream[c][i]].valid \in BOOLEAN
      BY <1>1, InputsFacts DEF NetOK, IsChan, IsRec, ChanType
    <3>3. t = 1 <=> chan[Upstream[c][i]].valid
      OBVIOUS
    <3> HIDE DEF t
    <3> QED  BY <1>1, <3>1, <3>2, <3>3 DEF Takes1
  <2>2. Len(old) \in Nat
    BY <1>1, BufferType DEF NetOK, IsChan
  <2>3. n \in Nat /\ \A k \in 1 .. n : new[k] = old[k + x]
    BY <1>1, GetFillFacts
  <2>4. Takes1(c, i) => new[n + 1] = Offer(c, i)
    BY <1>1, GetFillFacts
  <2>5. Len(new) = n + (IF Takes1(c, i) THEN 1 ELSE 0)
    BY <1>1, GetFillFacts
  <2>6. t \in {0, 1}
    OBVIOUS
  <2>7. Len(new) = n + t
    BY <2>1, <2>5, <2>6
  <2>8. n = Len(old) - x
    OBVIOUS
  <2> HIDE DEF x, t, n, old, new
  <2>9. Len(new) + x = Len(old) + t
    BY <1>2, <2>2, <2>6, <2>7, <2>8
  <2>10. ASSUME NEW k \in 1 .. Len(new)
         PROVE  \/ k + x \in 1 .. Len(old) /\ new[k] = old[k + x]
                \/ k + x = Len(old) + 1 /\ t = 1 /\ new[k] = Offer(c, i)
    <3>1. CASE k \in 1 .. n
      BY <1>2, <2>2, <2>3, <2>8, <3>1
    <3>2. CASE k = n + 1 /\ t = 1
      BY <1>2, <2>1, <2>2, <2>4, <2>8, <3>2
    <3> QED  BY <2>3, <2>6, <2>7, <3>1, <3>2
  <2> QED  BY <2>2, <2>9, <2>10 DEF old, new, t
<1> QED  BY <1>2, <1>3 DEF Taking

\* So does the update of a channel of an Lse.
LEMMA LseTaking ==
    ASSUME PlainNetwork, LoopInv, NEW c \in Chans, Upstream[c] # <<>>, LseStep(c, chan[c], chan'[c])
    PROVE  \E x : Taking(c, x)
<1>1. c \in Chans /\ Upstream[c] # <<>> /\ KeepMode = {} /\ NetOK /\ IsChan(chan[c], c) /\ IsRec(chan[c], c)
  BY DEF PlainNetwork, LoopInv, NetInv, NetOK, IsChan
<1>2. ASSUME NEW i \in Inputs(c), NEW x \in {0, 1},
             x = 0 => chan'[c].chanBuffer[i] = Fill(chan[c], c, i),
             x = 1 => /\ Fill(chan[c], c, i) # <<>>
                      /\ chan'[c].chanBuffer[i] = Tail(Fill(chan[c], c, i))
      PROVE  LET old == chan[c].chanBuffer[i]
                 new == chan'[c].chanBuffer[i]
                 t   == IF chan[Upstream[c][i]].valid THEN 1 ELSE 0
             IN  /\ Len(old) \in Nat /\ Len(new) + x = Len(old) + t
                 /\ \A k \in 1 .. Len(new) :
                       \/ k + x \in 1 .. Len(old) /\ new[k] = old[k + x]
                       \/ k + x = Len(old) + 1 /\ t = 1 /\ new[k] = Offer(c, i)
  <2> DEFINE old  == chan[c].chanBuffer[i]
             new  == chan'[c].chanBuffer[i]
             t    == IF chan[Upstream[c][i]].valid THEN 1 ELSE 0
             full == Fill(chan[c], c, i)
  <2>1. Upstream[c] # <<>> /\ Receives(chan[c], c, i) <=> t = 1
    <3>1. Receives(chan[c], c, i) <=> chan[Upstream[c][i]].valid = TRUE
      BY <1>1, PlainReceives
    <3>2. chan[Upstream[c][i]].valid \in BOOLEAN
      BY <1>1, InputsFacts DEF NetOK, IsChan, IsRec, ChanType
    <3>3. t = 1 <=> chan[Upstream[c][i]].valid
      OBVIOUS
    <3> HIDE DEF t
    <3> QED  BY <1>1, <3>1, <3>2, <3>3
  <2>2. Len(old) \in Nat /\ full \in Seq(Datum)
    BY <1>1, BufferType, FillFacts
  <2>3. Len(full) = Len(old) + (IF Upstream[c] # <<>> /\ Receives(chan[c], c, i) THEN 1 ELSE 0)
    BY <1>1, FillFacts, ZenonT(60)
  <2>4. \A k \in 1 .. Len(old) : full[k] = old[k]
    BY <1>1, FillFacts, ZenonT(90)
  <2>5. t = 1 => full[Len(old) + 1] = Offer(c, i)
    BY <1>1, <2>1, FillFacts
  <2>6. t \in {0, 1}
    OBVIOUS
  <2>7. Len(full) = Len(old) + t
    BY <2>1, <2>3, <2>6
  <2>8. x = 1 => /\ Len(new) = Len(full) - 1
                 /\ \A k \in 1 .. Len(new) : new[k] = full[k + 1]
    <3> HIDE DEF Datum, full
    <3>1. SUFFICES ASSUME x = 1 PROVE Len(new) = Len(full) - 1 /\ \A k \in 1 .. Len(new) : new[k] = full[k + 1]
      OBVIOUS
    <3>2. full # <<>> /\ new = Tail(full)
      BY <1>2, <3>1 DEF full
    <3> HIDE DEF new
    <3> QED  BY <2>2, <3>2, TailFacts
  <2>9. x = 0 => new = full
    BY <1>2
  <2> HIDE DEF t, old, new, full
  <2>10. Len(new) + x = Len(old) + t
    BY <1>2, <2>2, <2>6, <2>7, <2>8, <2>9
  <2>11. ASSUME NEW k \in 1 .. Len(new)
         PROVE  \/ k + x \in 1 .. Len(old) /\ new[k] = old[k + x]
                \/ k + x = Len(old) + 1 /\ t = 1 /\ new[k] = Offer(c, i)
    <3>1. new[k] = full[k + x] /\ k + x \in 1 .. Len(old) + t
      BY <1>2, <2>2, <2>6, <2>7, <2>8, <2>9, <2>10
    <3>2. CASE k + x \in 1 .. Len(old)
      BY <2>4, <3>1, <3>2
    <3>3. CASE k + x = Len(old) + 1 /\ t = 1
      BY <2>5, <3>1, <3>3
    <3> QED  BY <2>2, <2>6, <3>1, <3>2, <3>3
  <2> QED  BY <2>2, <2>10, <2>11 DEF old, new, t
<1>3. CASE /\ chan'[c].popped = chan[c].popped
           /\ \A i \in Inputs(c) : chan'[c].chanBuffer[i] = Fill(chan[c], c, i)
  <2>1. chan'[c].popped = chan[c].popped + 0
    BY <1>1, <1>3 DEF IsRec, ChanType
  <2>2. PICK x \in {0, 1} : x = 0
    OBVIOUS
  <2>3. chan'[c].popped = chan[c].popped + x
    BY <2>1, <2>2
  <2>4. ASSUME NEW i \in Inputs(c)
        PROVE  /\ x = 0 => chan'[c].chanBuffer[i] = Fill(chan[c], c, i)
               /\ x = 1 => /\ Fill(chan[c], c, i) # <<>>
                           /\ chan'[c].chanBuffer[i] = Tail(Fill(chan[c], c, i))
    BY <1>3, <2>2
  <2>5. Taking(c, x)
    BY <1>2, <2>3, <2>4 DEF Taking
  <2> QED  BY <2>5
<1>4. CASE /\ chan'[c].popped = chan[c].popped + 1
           /\ \A i \in Inputs(c) : /\ Fill(chan[c], c, i) # <<>>
                                   /\ chan'[c].chanBuffer[i] = Tail(Fill(chan[c], c, i))
  <2>1. PICK x \in {0, 1} : x = 1
    OBVIOUS
  <2>2. chan'[c].popped = chan[c].popped + x
    BY <1>4, <2>1
  <2>3. ASSUME NEW i \in Inputs(c)
        PROVE  /\ x = 0 => chan'[c].chanBuffer[i] = Fill(chan[c], c, i)
               /\ x = 1 => /\ Fill(chan[c], c, i) # <<>>
                           /\ chan'[c].chanBuffer[i] = Tail(Fill(chan[c], c, i))
    BY <1>4, <2>1
  <2>4. Taking(c, x)
    BY <1>2, <2>2, <2>3 DEF Taking
  <2> QED  BY <2>4
<1> QED  BY <1>3, <1>4 DEF LseStep

\* So does every update of a channel with upstreams.
LEMMA UpdateTaking ==
    ASSUME PlainNetwork, LoopInv, Next \/ graphUpdate, NEW c \in Chans, Upstream[c] # <<>>, c \in Now
    PROVE  \E x : Taking(c, x)
  BY UpdateKinds, GetTaking, LseTaking

\* What an observed channel takes is the next iteration.
LEMMA OfferNext ==
    ASSUME PlainNetwork, LoopInv, OrderInv, PcStep, NEW c \in DOMAIN Nest, c \in Now,
           NEW i \in Inputs(c), chan[Upstream[c][i]].valid
    PROVE  chan[Upstream[c][i]].value
               = {<<Nest[c][1], chan[c].popped + Len(chan[c].chanBuffer[i])>>}
<1> DEFINE u == Upstream[c][i]
<1>1. c \in Chans /\ Upstream[c] # <<>> /\ u \in Chans /\ Edge(u, c)
  BY PlainFacts, InputsFacts
<1>2. pc \in DOMAIN Program /\ c \in Updates(pc) /\ PcOK
  BY ProgramType DEF LoopInv, PcOK, Now
<1>3. CASE c \in LoopVars
  <2>1. PICK l \in Lcs : IsLoop(l) /\ c = loopVar[l] /\ Nest[c][1] = l
    BY <1>3, PlainFacts
  <2>2. pc = MuxAt(l) + 1 /\ i = 1 /\ u = outChan[l]
    <3>1. Upstream[c] = <<outChan[l]>>
      BY <2>1 DEF IsLoop
    <3>2. Inputs(c) = 1 .. 1
      BY <3>1 DEF Inputs
    <3>3. i = 1
      BY <3>2
    <3> QED  BY <1>2, <2>1, <3>1, <3>3, LcNow
  <2>3. chan[u].channel # <<>>
    BY <1>1 DEF LoopInv, NetInv, NetOK, IsChan, OffersOK
  <2>4. LoopOK(l)
    BY <2>1 DEF OrderInv, LoopsOK
  <2> DEFINE sending == IF chan[outChan[l]].channel # <<>> THEN TRUE ELSE FALSE
  <2>5. sending
    BY <2>2, <2>3
  <2>6. Circle(l, Len(chan[c].chanBuffer[1]), chan[c].popped, sending)
    BY <2>1, <2>4 DEF LoopOK
  <2> HIDE DEF sending
  <2>7. AfterMux(l, Len(chan[c].chanBuffer[1]), chan[c].popped, sending)
    BY <2>2, <2>6 DEF Circle
  <2>8. chan[outChan[l]].value = {<<l, chan[c].popped + Len(chan[c].chanBuffer[1])>>}
    BY <2>1, <2>5, <2>7 DEF AfterMux
  <2> QED  BY <2>1, <2>2, <2>8
<1>4. CASE c \notin LoopVars
  <2>1. u \in DOMAIN Nest /\ Nest[u][1] = Nest[c][1]
    BY <1>4, PlainFacts
  <2>2. chan[u].value = {<<Nest[c][1], chan[u].popped>>}
    BY <2>1 DEF OrderInv, ValueOK
  <2>3. PICK m \in DOMAIN Program : u \in Updates(m)
    BY <1>1 DEF LoopInv, NetInv, ValidOK, Updates
  <2>4. Due(u, c)
    BY <1>1, <1>2, <2>3, DueStep
  <2>5. chan[c].popped + Len(chan[c].chanBuffer[i])
            = chan[u].popped + (IF chan[u].valid /\ ~Due(u, c) THEN 1 ELSE 0)
    BY <1>2, <1>4 DEF OrderInv, TakenOK, HasTaken, Updates
  <2>6. chan[u].popped \in Nat
    BY <1>1, InputsFacts, BufferType DEF LoopInv, NetInv, NetOK, IsChan
  <2> QED  BY <2>2, <2>4, <2>5, <2>6
<1> QED  BY <1>3, <1>4

\* Every step keeps the iterations in a buffer consecutive.
LEMMA RowsStep ==
    ASSUME PlainNetwork, LoopInv, OrderInv, StepOK, Next \/ graphUpdate
    PROVE  RowsOK'
<1>1. SUFFICES ASSUME NEW c \in DOMAIN Nest, NEW i \in Inputs(c), NEW k \in 1 .. Len(chan'[c].chanBuffer[i])
               PROVE  chan'[c].chanBuffer[i][k].value = {<<Nest[c][1], chan'[c].popped + k - 1>>}
  BY DEF RowsOK, Inputs
<1>2. c \in Chans /\ Upstream[c] # <<>> /\ Upstream[c][i] \in Chans
  BY PlainFacts, InputsFacts
<1>3. chan[c].popped \in Nat /\ Len(chan[c].chanBuffer[i]) \in Nat
  BY <1>2, BufferType DEF LoopInv, NetInv, NetOK, IsChan
<1>4. \A n \in 1 .. Len(chan[c].chanBuffer[i]) :
         chan[c].chanBuffer[i][n].value = {<<Nest[c][1], chan[c].popped + n - 1>>}
  BY DEF OrderInv, RowsOK
<1>5. CASE c \in Now
  <2>1. PICK x : Taking(c, x)
    BY <1>2, <1>5, UpdateTaking
  <2>2. x \in {0, 1} /\ chan'[c].popped = chan[c].popped + x
    BY <2>1 DEF Taking
  <2>3. \/ k + x \in 1 .. Len(chan[c].chanBuffer[i]) /\ chan'[c].chanBuffer[i][k] = chan[c].chanBuffer[i][k + x]
        \/ /\ k + x = Len(chan[c].chanBuffer[i]) + 1 /\ chan[Upstream[c][i]].valid
           /\ chan'[c].chanBuffer[i][k] = Offer(c, i)
    <3> DEFINE t == IF chan[Upstream[c][i]].valid THEN 1 ELSE 0
    <3>1. \/ k + x \in 1 .. Len(chan[c].chanBuffer[i]) /\ chan'[c].chanBuffer[i][k] = chan[c].chanBuffer[i][k + x]
          \/ /\ k + x = Len(chan[c].chanBuffer[i]) + 1 /\ t = 1
             /\ chan'[c].chanBuffer[i][k] = Offer(c, i)
      BY <2>1 DEF Taking
    <3>2. t = 1 => chan[Upstream[c][i]].valid
      OBVIOUS
    <3> HIDE DEF t
    <3> QED  BY <3>1, <3>2
  <2>4. chan[c].popped + (k + x) - 1 = chan'[c].popped + k - 1
    <3> DEFINE p == chan[c].popped
    <3>1. p \in Nat /\ chan'[c].popped = p + x /\ x \in {0, 1}
      BY <1>3, <2>2
    <3>2. k \in Int
      OBVIOUS
    <3> HIDE DEF p
    <3>3. p + (k + x) - 1 = (p + x) + k - 1
      BY ONLY <3>1, <3>2
    <3> QED  BY <3>1, <3>3 DEF p
  <2>5. CASE k + x \in 1 .. Len(chan[c].chanBuffer[i]) /\ chan'[c].chanBuffer[i][k] = chan[c].chanBuffer[i][k + x]
    BY <1>4, <2>4, <2>5
  <2>6. CASE /\ k + x = Len(chan[c].chanBuffer[i]) + 1 /\ chan[Upstream[c][i]].valid
             /\ chan'[c].chanBuffer[i][k] = Offer(c, i)
    <3>1. chan[Upstream[c][i]].value = {<<Nest[c][1], chan[c].popped + Len(chan[c].chanBuffer[i])>>}
      BY <1>5, <2>6, OfferNext DEF StepOK
    <3>2. Offer(c, i).value = chan[Upstream[c][i]].value
      BY DEF Offer
    <3>3. chan[c].popped + Len(chan[c].chanBuffer[i]) = chan'[c].popped + k - 1
      <4> DEFINE p  == chan[c].popped
                 p1 == chan'[c].popped
                 q  == Len(chan[c].chanBuffer[i])
                 q1 == Len(chan'[c].chanBuffer[i])
      <4>1. p \in Nat /\ q \in Nat /\ p1 = p + x /\ k + x = q + 1 /\ k \in 1 .. q1
        BY <1>3, <2>2, <2>6
      <4> HIDE DEF p, p1, q, q1
      <4>2. p + q = p1 + k - 1
        BY ONLY <2>2, <4>1
      <4> QED  BY <4>2 DEF p, p1, q
    <3> QED  BY <2>6, <3>1, <3>2, <3>3
  <2> QED  BY <2>3, <2>5, <2>6
<1>6. CASE c \notin Now
  <2>1. /\ chan'[c].popped = chan[c].popped
        /\ Len(chan'[c].chanBuffer[i]) = Len(chan[c].chanBuffer[i])
        /\ chan'[c].chanBuffer[i][k].value = chan[c].chanBuffer[i][k].value
    BY <1>2, <1>6 DEF StepOK, Same, SameBuffer
  <2> QED  BY <1>4, <2>1
<1> QED  BY <1>5, <1>6

\* Every step keeps what is offered the next iteration.
LEMMA ValueStep ==
    ASSUME PlainNetwork, LoopInv, LoopInv', OrderInv, RowsOK', StepOK, Next \/ graphUpdate
    PROVE  ValueOK'
<1>1. SUFFICES ASSUME NEW c \in DOMAIN Nest, chan'[c].valid
               PROVE  chan'[c].value = {<<Nest[c][1], chan'[c].popped>>}
  BY DEF ValueOK
<1>2. c \in Chans /\ Upstream[c] # <<>> /\ IsChan(chan'[c], c)
  BY PlainFacts DEF LoopInv, NetInv, NetOK
<1>3. CASE c \in Now
  <2>1. chan'[c].channel # <<>> /\ \A i \in Inputs(c) : chan'[c].chanBuffer[i] # <<>>
    BY <1>1, <1>2, ValidFull, InputsFacts
  <2>2. c \notin Lses
    BY <2>1 DEF StepOK
  <2>3. chan'[c].value = UNION {chan'[c].chanBuffer[i][1].value : i \in Inputs(c)}
    BY <1>2, <1>3, <2>1, <2>2, UpdateKinds DEF GetStep
  <2>4. ASSUME NEW i \in Inputs(c)
        PROVE  chan'[c].chanBuffer[i][1].value = {<<Nest[c][1], chan'[c].popped>>}
    <3>1. 1 \in 1 .. Len(chan'[c].chanBuffer[i]) /\ chan'[c].popped \in Nat
      BY <1>2, <2>1, BufferType DEF IsChan
    <3>2. chan'[c].popped + 1 - 1 = chan'[c].popped
      BY <3>1
    <3>3. chan'[c].chanBuffer[i][1].value = {<<Nest[c][1], chan'[c].popped + 1 - 1>>}
      BY <3>1 DEF RowsOK, Inputs
    <3> QED  BY <3>2, <3>3
  <2>5. 1 \in Inputs(c)
    BY <1>2, InputsFacts
  <2>6. {chan'[c].chanBuffer[i][1].value : i \in Inputs(c)} = {{<<Nest[c][1], chan'[c].popped>>}}
    BY <2>4, <2>5
  <2>7. \A S : UNION {S} = S
    OBVIOUS
  <2> QED  BY <2>3, <2>6, <2>7
<1>4. CASE c \notin Now
  BY <1>1, <1>2, <1>4 DEF StepOK, Same, OrderInv, ValueOK
<1> QED  BY <1>3, <1>4

\* Every step keeps what a channel has taken in line with what was offered to it.
LEMMA TakenEdge ==
    ASSUME PlainNetwork, LoopInv, LoopInv', StepOK, Next \/ graphUpdate,
           NEW c \in Chans, Upstream[c] # <<>>, NEW i \in Inputs(c),
           NEW n \in DOMAIN Program, c \in Updates(n),
           Upstream[c][i] \in DOMAIN Nest \ Lses, HasTaken(c, i)
    PROVE  HasTaken(c, i)'
<1> DEFINE u  == Upstream[c][i]
           p  == chan[c].popped
           p1 == chan'[c].popped
           q  == Len(chan[c].chanBuffer[i])
           q1 == Len(chan'[c].chanBuffer[i])
           r  == chan[u].popped
           r1 == chan'[u].popped
           s  == IF chan[u].valid THEN 1 ELSE 0
           s1 == IF chan'[u].valid THEN 1 ELSE 0
<1>2. u \in Chans /\ Edge(u, c) /\ u \in DOMAIN Nest \ Lses /\ Upstream[u] # <<>>
  BY PlainFacts, InputsFacts
<1>3. p \in Nat /\ q \in Nat /\ r \in Nat /\ p1 \in Nat /\ q1 \in Nat
  BY <1>2, InputsFacts, BufferType DEF LoopInv, NetInv, NetOK, IsChan, IsRec, ChanType
<1>4. s \in {0, 1} /\ s1 \in {0, 1}
  OBVIOUS
<1>5. /\ ~Due(u, c) => p + q = r + s
      /\ Due(u, c) => p + q = r + 0
  BY DEF HasTaken
<1>6. SUFFICES /\ ~Due(u, c)' => p1 + q1 = r1 + s1
               /\ Due(u, c)' => p1 + q1 = r1 + 0
  BY DEF HasTaken, Inputs
<1>7. PcOK /\ PcStep
  BY DEF LoopInv, StepOK
<1>8. u \notin Now => r1 = r /\ s1 = s
  BY <1>2 DEF StepOK, Same
<1>9. c \notin Now => p1 = p /\ q1 = q
  BY <1>2 DEF StepOK, Same, SameBuffer
<1>10. u \in Now => r1 = r + s
  BY <1>2, UpdateKinds DEF GetStep
<1>11. c \in Now => p1 + q1 = p + q + s
  <2>1. SUFFICES ASSUME c \in Now PROVE p1 + q1 = p + q + s
    OBVIOUS
  <2>2. PICK x : Taking(c, x)
    BY <2>1, UpdateTaking
  <2>3. x \in {0, 1} /\ p1 = p + x /\ q1 + x = q + s
    BY <2>2 DEF Taking
  <2> HIDE DEF u, p, p1, q, q1, s
  <2> QED  BY ONLY <1>3, <1>4, <2>3
<1>12. CASE \E m \in DOMAIN Program : u \in Updates(m)
  <2>1. PICK m \in DOMAIN Program : u \in Updates(m)
    BY <1>12
  <2>2. /\ c \notin Now /\ u \notin Now => (Due(u, c)' <=> Due(u, c))
        /\ c \in Now => Due(u, c) /\ ~Due(u, c)' /\ u \notin Now
        /\ u \in Now => ~Due(u, c) /\ Due(u, c)' /\ c \notin Now
    BY <1>2, <1>7, <2>1, DueStep
  <2> HIDE DEF u, p, p1, q, q1, r, r1, s, s1
  <2>3. CASE c \in Now
    BY ONLY <1>3, <1>4, <1>5, <1>8, <1>11, <2>2, <2>3
  <2>4. CASE u \in Now
    BY ONLY <1>3, <1>4, <1>5, <1>9, <1>10, <2>2, <2>4
  <2>5. CASE c \notin Now /\ u \notin Now
    BY ONLY <1>5, <1>8, <1>9, <2>2, <2>5
  <2> QED  BY ONLY <2>3, <2>4, <2>5
<1>13. CASE ~\E m \in DOMAIN Program : u \in Updates(m)
  <2>1. u \notin Now
    BY <1>13, ProgramType DEF LoopInv, PcOK, Now
  <2>2. s = 0
    BY <1>2, <1>13 DEF LoopInv, NetInv, ValidOK
  <2> HIDE DEF u, p, p1, q, q1, r, r1, s, s1
  <2> QED  BY ONLY <1>3, <1>4, <1>5, <1>8, <1>9, <1>11, <2>1, <2>2
<1> QED  BY <1>12, <1>13

\* So it is for all observed channels.
LEMMA TakenStep ==
    ASSUME PlainNetwork, LoopInv, LoopInv', OrderInv, StepOK, Next \/ graphUpdate
    PROVE  TakenOK'
<1>1. SUFFICES ASSUME NEW c \in DOMAIN Nest \ LoopVars, NEW i \in Inputs(c),
                      NEW n \in DOMAIN Program, c \in Updates(n)
               PROVE  HasTaken(c, i)'
  BY DEF TakenOK, Updates, Inputs
<1>2. HasTaken(c, i)
  BY <1>1 DEF OrderInv, TakenOK
<1> QED  BY <1>1, <1>2, TakenEdge, PlainFacts

\* The channels of a loop.
LEMMA LoopChannel ==
    ASSUME NEW c \in Chans, NEW ch, IsChan(ch, c)
    PROVE  /\ Len(ch.chanBuffer[1]) \in Nat /\ ch.popped \in Nat /\ ch.valid \in BOOLEAN
           /\ (ch.chanBuffer[1] = <<>> <=> Len(ch.chanBuffer[1]) = 0)
           /\ Len(ch.channel) \in {0, 1} /\ (ch.channel = <<>> <=> Len(ch.channel) = 0)
           /\ ch.valid => ch.channel # <<>>
           /\ ch.channel # <<>> => Len(ch.chanBuffer[1]) > 0
           /\ 1 \in Inputs(c) /\ ch.chanBuffer[1] \in Seq(Datum) /\ Size[c] \in Nat \ {0}
<1>1. 1 \in Inputs(c) /\ IsRec(ch, c)
  BY InputsFacts DEF IsChan
<1>2. /\ Len(ch.chanBuffer[1]) \in Nat /\ ch.popped \in Nat
      /\ (ch.chanBuffer[1] = <<>> <=> Len(ch.chanBuffer[1]) = 0)
      /\ ch.chanBuffer[1] \in Seq(Datum) /\ Size[c] \in Nat \ {0}
  BY <1>1, BufferType
<1>3. ch.valid \in BOOLEAN /\ ch.channel \in Seq(Flags) /\ DOMAIN ch.chanBuffer = Inputs(c)
  BY <1>1 DEF IsRec, ChanType
<1>4. Len(ch.channel) <= 1 /\ (ch.channel # <<>> => ch.chanBuffer[1] # <<>>)
  BY <1>1, <1>3 DEF IsRec, HoldsOK
<1>5. Len(ch.channel) \in Nat /\ (ch.channel = <<>> <=> Len(ch.channel) = 0)
  <2> HIDE DEF Flags
  <2> QED  BY <1>3, EmptySeq, LenProperties
<1>6. Len(ch.channel) \in {0, 1}
  <2> DEFINE n == Len(ch.channel)
  <2>1. n \in Nat /\ n <= 1
    BY <1>4, <1>5
  <2> HIDE DEF n
  <2>2. n \in {0, 1}
    BY ONLY <2>1
  <2> QED  BY <2>2 DEF n
<1>7. ch.valid => ch.channel # <<>>
  BY DEF IsChan, OffersOK
<1>8. ch.channel # <<>> => Len(ch.chanBuffer[1]) > 0
  BY <1>2, <1>4
<1> QED  BY <1>1, <1>2, <1>3, <1>5, <1>6, <1>7, <1>8

\* The loopVar and the outChan of a loop feed one another and nobody else.
LEMMA LoopFacts ==
    ASSUME PlainNetwork, NetOK, LcOK, NEW l \in Lcs, IsLoop(l)
    PROVE  LET v == loopVar[l]
               o == outChan[l]
           IN  /\ v \in Chans /\ o \in Chans /\ v # o /\ IsChan(chan[v], v) /\ IsChan(chan[o], o)
               /\ Upstream[v] = <<o>> /\ Inputs(v) = {1} /\ Inputs(o) = {1} /\ Upstream[o] = <<>>
               /\ checkSend(o, v) <=> ~chan[v].bp[1]
               /\ Downstream(o) = {v}
               /\ chan[v].pushBufferEnable = TRUE /\ chan[o].enable = TRUE
               /\ chan[o].currId <= Speedup[o] /\ Cycle[o] = 0
               /\ Bound[l] \in Nat \ {0} /\ MuxAt(l) \in Nat \ {0}
               /\ lc[l].sel \in BOOLEAN /\ lc[l].var \in Nat /\ lc[l].muxSuccess \in BOOLEAN
               /\ l \in OuterMost
<1> DEFINE v == loopVar[l]
           o == outChan[l]
<1>1. v \in Chans /\ o \in Chans /\ v # o /\ IsChan(chan[v], v) /\ IsChan(chan[o], o) /\ MuxAt(l) \in Nat \ {0}
  BY LoopVarType, LcStatements
<1>2. Upstream[v] = <<o>> /\ Downstream(o) = {v} /\ l \in OuterMost
  BY DEF IsLoop
<1>3. /\ Upstream[o] = <<>> /\ Cycle[o] = 0 /\ Speedup[o] = 1 /\ Bound[l] \in Nat \ {0}
  BY LoopAssumption
<1>4. Inputs(o) = {1}
  BY <1>3 DEF Inputs
<1>5. Inputs(v) = {1}
  BY <1>2 DEF Inputs
<1>6. getChanId(v, o) = 1
  BY <1>2, <1>5 DEF getChanId
<1>7. DGSF = {}
  BY DEF PlainNetwork
<1>8. chan[v].pushBufferEnable = TRUE /\ chan[o].enable = TRUE
  BY <1>1, <1>7 DEF IsChan, IsRec, ChanType, Gate
<1>9. chan[o].currId = 1
  BY <1>1, <1>3 DEF IsChan, IsRec, ChanType, Instances
<1> QED  BY <1>1, <1>2, <1>3, <1>4, <1>5, <1>6, <1>8, <1>9, LcFields DEF checkSend

\* The outChan after the Mux has run: fed with a new datum, or else still with
\* the one that could not be sent, if any.
LEMMA MuxOut ==
    ASSUME PlainNetwork, NetOK, LcOK, NEW l \in Lcs, IsLoop(l), NEW new, MuxStep(l, new),
           Len(chan[outChan[l]].channel) = Len(chan[outChan[l]].chanBuffer[1]),
           chan[outChan[l]].channel # <<>> => /\ chan[outChan[l]].chanBuffer[1][1].wait = 0
                                             /\ chan[outChan[l]].channel[1].cond,
           MuxReady(l) => chan[outChan[l]].channel = <<>> \/ chan[outChan[l]].valid
    PROVE  LET ch == chan[outChan[l]]
               v  == chan[loopVar[l]]
           IN  /\ Len(new.channel) = Len(new.chanBuffer[1])
               /\ new.channel # <<>> => new.chanBuffer[1][1].wait = 0 /\ new.channel[1].cond
               /\ new.valid <=> new.channel # <<>> /\ ~v.bp[1]
               /\ MuxReady(l) => new.channel # <<>>
               /\ ~MuxReady(l) => (new.channel # <<>> <=> ch.channel # <<>> /\ ~ch.valid)
<1> DEFINE o  == outChan[l]
           ch == chan[o]
           free == ~chan[loopVar[l]].bp[1]
<1>1. /\ o \in Chans /\ IsChan(ch, o) /\ 1 \in Inputs(o) /\ ch.enable /\ ch.currId <= Speedup[o]
      /\ Cycle[o] = 0
      /\ (\A d \in Downstream(o) : checkSend(o, d)) <=> free
  <2>1. /\ o \in Chans /\ IsChan(ch, o) /\ 1 \in Inputs(o) /\ ch.enable /\ ch.currId <= Speedup[o]
        /\ Cycle[o] = 0
    BY LoopFacts
  <2>2. Downstream(o) = {loopVar[l]}
    BY LoopFacts
  <2>3. checkSend(o, loopVar[l]) <=> free
    BY LoopFacts
  <2> HIDE DEF o, ch, free
  <2>4. (\A d \in Downstream(o) : checkSend(o, d)) <=> free
    BY <2>2, <2>3 DEF o
  <2> QED  BY <2>1, <2>4
<1>2. PICK wire :
          /\ WireStep(o, ch, wire)
          /\ ~MuxReady(l) => /\ new.chanBuffer = wire.chanBuffer /\ new.bp = wire.bp
                             /\ new.valid = wire.valid /\ new.channel = wire.channel
          /\ MuxReady(l) => \E d : /\ DataStep(o, wire, d)
                                   /\ new.chanBuffer = d.chanBuffer /\ new.bp = d.bp
                                   /\ new.valid = d.valid /\ Len(new.channel) = 1
                                   /\ new.channel # <<>> /\ new.channel[1].cond
  BY DEF MuxStep
<1>3. /\ IsChan(wire, o) /\ wire.chanBuffer[1] = Left(ch, 1)
      /\ wire.valid => free
      /\ wire.currId = ch.currId /\ wire.enable = ch.enable
      /\ free => (wire.valid <=> wire.channel # <<>>)
  BY <1>1, <1>2 DEF WireStep
<1>4. /\ wire.channel = IF ch.valid THEN <<>> ELSE ch.channel
      /\ Len(wire.channel) = Len(wire.chanBuffer[1])
  <2>1. /\ Len(ch.chanBuffer[1]) \in Nat /\ Len(ch.channel) \in {0, 1}
        /\ ch.valid => ch.channel # <<>>
        /\ ch.channel = <<>> <=> Len(ch.channel) = 0
        /\ ch.valid \in BOOLEAN
    BY <1>1, LoopChannel
  <2>2. Left(ch, 1) \in Seq(Datum)
    BY <1>1, LeftFacts
  <2>3. Len(Left(ch, 1)) = Len(ch.chanBuffer[1]) - (IF ch.valid THEN 1 ELSE 0)
    BY <1>1, LeftFacts
  <2>4. Left(ch, 1) # <<>> => Len(Left(ch, 1)) > 0
    <3> HIDE DEF Datum
    <3> QED  BY <2>2, EmptySeq, LenProperties
  <2> DEFINE a == Len(ch.chanBuffer[1])
             b == Len(ch.channel)
  <2>7. a = b
    OBVIOUS
  <2>5. CASE ch.valid
    <3>1. Len(Left(ch, 1)) = 0
      <4>1. a \in Nat /\ b \in {0, 1} /\ b # 0
        BY <2>1, <2>5
      <4>2. Len(Left(ch, 1)) = a - 1
        BY <2>3, <2>5
      <4> HIDE DEF a, b
      <4> QED  BY <2>7, <4>1, <4>2
    <3>2. wire.channel = <<>>
      BY <1>2, <2>4, <2>5, <3>1 DEF WireStep
    <3> QED  BY <1>3, <2>5, <3>1, <3>2
  <2>6. CASE ~ch.valid
    <3>1. Len(Left(ch, 1)) = Len(ch.channel)
      BY <2>1, <2>3, <2>6
    <3>2. wire.channel = ch.channel
      BY <1>2, <2>1, <2>4, <2>6, <3>1 DEF WireStep
    <3> QED  BY <1>3, <2>6, <3>1, <3>2
  <2> QED  BY <2>5, <2>6
<1>5. wire.valid <=> wire.channel # <<>> /\ free
  <2>1. wire.valid => wire.channel # <<>>
    BY <1>3 DEF IsChan, OffersOK
  <2> QED  BY <1>3, <2>1
<1>6. CASE ~MuxReady(l)
  <2>1. new.channel = wire.channel /\ new.chanBuffer[1] = wire.chanBuffer[1] /\ new.valid = wire.valid
    BY <1>2, <1>6
  <2>2. new.channel # <<>> => new.channel = ch.channel /\ new.chanBuffer[1] = ch.chanBuffer[1]
    BY <1>3, <1>4, <2>1 DEF Left
  <2> QED  BY <1>4, <1>5, <1>6, <2>1, <2>2
<1>7. CASE MuxReady(l)
  <2>1. PICK d : /\ DataStep(o, wire, d)
                 /\ new.chanBuffer = d.chanBuffer /\ new.bp = d.bp
                 /\ new.valid = d.valid /\ Len(new.channel) = 1
                 /\ new.channel # <<>> /\ new.channel[1].cond
    BY <1>2, <1>7
  <2>2. /\ d.valid => free
        /\ Len(d.chanBuffer[1]) = IF Len(Left(wire, 1)) = Size[o] THEN Size[o] ELSE Len(Left(wire, 1)) + 1
        /\ Left(wire, 1) = <<>> => d.chanBuffer[1][1].wait = 0
        /\ Left(wire, 1) # <<>> => d.chanBuffer[1][1] = Left(wire, 1)[1]
        /\ free => (d.valid <=> d.channel # <<>>)
        /\ d.chanBuffer[1][1].wait = 0 => d.channel # <<>>
    BY <1>1, <1>3, <2>1 DEF DataStep
  <2>3. wire.channel = <<>> /\ Len(wire.chanBuffer[1]) = 0 /\ ~wire.valid
    BY <1>4, <1>5, <1>7
  <2>4. Left(wire, 1) = <<>>
    BY <1>1, <1>3, <2>3, LoopChannel DEF Left
  <2>5. Size[o] \in Nat \ {0}
    BY ChannelAssumption, <1>1
  <2>6. Len(d.chanBuffer[1]) = 1
    BY <2>2, <2>4, <2>5
  <2>7. d.chanBuffer[1][1].wait = 0 /\ d.channel # <<>> /\ (d.valid <=> free)
    BY <2>2, <2>4
  <2> QED  BY <1>7, <2>1, <2>6, <2>7
<1> QED  BY <1>6, <1>7

\* What LoopOK says of a channel that is left as it was.
LEMMA SameLoop ==
    ASSUME NEW c \in Chans, NEW new, NEW ch, IsChan(ch, c), Same(c, new, ch)
    PROVE  /\ Len(new.chanBuffer[1]) = Len(ch.chanBuffer[1])
           /\ new.popped = ch.popped /\ new.valid = ch.valid /\ new.bp = ch.bp
           /\ new.value = ch.value /\ new.lastPopVal = ch.lastPopVal
           /\ Len(new.channel) = Len(ch.channel)
           /\ new.channel # <<>> <=> ch.channel # <<>>
           /\ ch.channel # <<>> => new.channel[1].cond = ch.channel[1].cond
           /\ ch.channel # <<>> /\ ch.chanBuffer[1][1].wait = 0 => new.chanBuffer[1][1].wait = 0
<1>1. 1 \in Inputs(c)
  BY InputsFacts
<1>2. SameBuffer(new.chanBuffer[1], ch.chanBuffer[1])
  BY <1>1 DEF Same
<1>3. ch.channel # <<>> => 1 \in 1 .. Len(ch.chanBuffer[1])
  BY LoopChannel
<1>4. new.channel # <<>> <=> ch.channel # <<>>
  BY LoopChannel DEF Same
<1> QED  BY <1>2, <1>3, <1>4 DEF Same, SameBuffer

\* Wires is about the loopVar and the outChan only.
LEMMA SameWires ==
    ASSUME NEW l \in Lcs, NetOK, loopVar[l] \in Chans, outChan[l] \in Chans,
           Same(loopVar[l], chan'[loopVar[l]], chan[loopVar[l]]),
           Same(outChan[l], chan'[outChan[l]], chan[outChan[l]]),
           NEW n, NEW p, NEW sending, sending => chan[outChan[l]].channel # <<>>,
           Wires(l, n, p, sending)
    PROVE  Wires(l, n, p, sending)'
<1> DEFINE v == chan[loopVar[l]]
           o == chan[outChan[l]]
           v1 == chan'[loopVar[l]]
           o1 == chan'[outChan[l]]
<1>1. v1.bp = v.bp /\ v1.lastPopVal = v.lastPopVal
  BY DEF Same
<1>2. /\ Len(o1.channel) = Len(o.channel) /\ Len(o1.chanBuffer[1]) = Len(o.chanBuffer[1])
      /\ o.channel # <<>> => o1.channel[1].cond = o.channel[1].cond
      /\ o.channel # <<>> /\ o.chanBuffer[1][1].wait = 0 => o1.chanBuffer[1][1].wait = 0
  <2>1. outChan[l] \in Chans /\ IsChan(o, outChan[l]) /\ Same(outChan[l], o1, o)
    BY DEF NetOK
  <2> HIDE DEF o, o1
  <2> QED  BY <2>1, SameLoop
<1> QED  BY <1>1, <1>2 DEF Wires

\* The Lc of a loop changes at the Mux and at its own statement only.
LEMMA SameLc ==
    ASSUME PlainNetwork, LoopInv, Next \/ graphUpdate, NEW l \in Lcs, pc # MuxAt(l) + 2
    PROVE  /\ lc'[l].sel = lc[l].sel /\ lc'[l].var = lc[l].var
           /\ lc'[l].muxSuccess = IF pc = MuxAt(l) THEN MuxReady(l) ELSE lc[l].muxSuccess
           /\ begin' => begin
<1>1. KeepMode = {} /\ DOMAIN chan = Chans /\ NetOK /\ LcOK /\ IndexOK
  BY DEF PlainNetwork, LoopInv, NetInv
<1>2. pc # 0 => pc \in DOMAIN Program
  BY ProgramType DEF LoopInv, PcOK
<1>3. At("mux") \/ At("lc") => Argument \in Lcs
  BY <1>2, StatementKinds DEF At, Argument
<1>4. At("lc") => Argument # l
  BY <1>2, LcStatements DEF At, Argument
<1>5. At("mux") => (Argument = l <=> pc = MuxAt(l))
  <2>1. At("mux") /\ Argument = l => pc = MuxAt(l)
    BY <1>2, LcStatements DEF At, Argument
  <2>2. pc = MuxAt(l) => Argument = l
    BY LcActions
  <2> QED  BY <2>1, <2>2
<1>6. pc = MuxAt(l) => At("mux")
  BY LcActions DEF muxUpdate
<1>7. CASE muxUpdate
  <2>1. At("mux") /\ Argument \in Lcs
    BY <1>3, <1>7 DEF muxUpdate
  <2> QED  BY <1>1, <1>5, <1>7, <2>1, MuxChannels
<1>8. CASE lcUpdate
  <2>1. At("lc") /\ Argument \in Lcs /\ Argument # l
    BY <1>3, <1>4, <1>8 DEF lcUpdate
  <2>2. ~At("mux")
    BY <2>1 DEF At
  <2> QED  BY <1>1, <1>6, <1>8, <2>1, <2>2, LcChannels
<1>9. CASE ~muxUpdate /\ ~lcUpdate
  <2>1. lc' = lc /\ begin' = begin
    BY <1>9 DEF Next, NextRound, ChannelGet, LseAccepts, LseRefuses, graphUpdate
  <2>2. pc # MuxAt(l)
    BY <1>9, LcActions
  <2> QED  BY <2>1, <2>2
<1> QED  BY <1>7, <1>8, <1>9

\* The statements of others leave a loop as it is.
LEMMA LoopIdle ==
    ASSUME PlainNetwork, LoopInv, LoopInv', StepOK, Next \/ graphUpdate, NEW l \in Lcs, IsLoop(l),
           LoopOK(l), pc \notin {MuxAt(l), MuxAt(l) + 1, MuxAt(l) + 2}
    PROVE  LoopOK(l)'
<1> DEFINE v == chan[loopVar[l]]
           o == chan[outChan[l]]
           n == Len(v.chanBuffer[1])
           p == v.popped
           sending == IF o.channel # <<>> THEN TRUE ELSE FALSE
<1>1. NetOK /\ LcOK /\ PcOK /\ PcStep
  BY DEF LoopInv, NetInv, StepOK
<1>2. /\ loopVar[l] \in Chans /\ outChan[l] \in Chans /\ MuxAt(l) \in Nat \ {0}
      /\ IsChan(v, loopVar[l]) /\ IsChan(o, outChan[l])
  BY <1>1, LoopFacts
<1>3. /\ Same(loopVar[l], chan'[loopVar[l]], v) /\ Same(outChan[l], chan'[outChan[l]], o)
  BY <1>1, <1>2, LcNow DEF StepOK
<1>4. n' = n /\ p' = p /\ sending' = sending
  BY <1>2, <1>3, SameLoop, SMTT(60)
<1>5. /\ o'.valid = o.valid
      /\ v'.channel # <<>> <=> v.channel # <<>>
  BY <1>2, <1>3, SameLoop
<1>6. /\ lc'[l].sel = lc[l].sel /\ lc'[l].var = lc[l].var
      /\ begin' => begin
  BY SameLc
<1>7. pc' \notin {MuxAt(l) + 1, MuxAt(l) + 2}
  BY <1>1, <1>2, ProgramType DEF PcOK, PcStep
<1>8. Wires(l, n, p, sending) /\ Known(l, n, p) /\ Elsewhere(l, n, p, sending)
  BY DEF LoopOK, Circle
<1>9. sending => o.channel # <<>>
  OBVIOUS
<1> HIDE DEF n, p, sending
<1>10. Wires(l, n, p, sending)'
  <2> HIDE DEF v, o
  <2>1. v = chan[loopVar[l]] /\ o = chan[outChan[l]]
    BY DEF v, o
  <2>2. Wires(l, n', p', sending')
    BY <1>4, <1>8
  <2>3. sending' => chan[outChan[l]].channel # <<>>
    BY <1>4, <1>9, <2>1
  <2> QED  BY <1>1, <1>2, <1>3, <2>1, <2>2, <2>3, SameWires
<1>11. Known(l, n, p)'
  BY <1>4, <1>5, <1>6, <1>8 DEF Known
<1>12. Elsewhere(l, n, p, sending)'
  BY <1>4, <1>5, <1>6, <1>8 DEF Elsewhere
<1> QED  BY <1>7, <1>10, <1>11, <1>12 DEF LoopOK, Circle, n, p, sending

\* muxUpdate keeps a loop in order.
LEMMA LoopMux ==
    ASSUME PlainNetwork, LoopInv, LoopInv', StepOK, Next \/ graphUpdate, NEW l \in Lcs, IsLoop(l),
           LoopOK(l), pc = MuxAt(l)
    PROVE  LoopOK(l)'
<1> DEFINE v == chan[loopVar[l]]
           o == chan[outChan[l]]
           n == Len(v.chanBuffer[1])
           p == v.popped
           sending == IF o.channel # <<>> THEN TRUE ELSE FALSE
           size == Size[loopVar[l]]
           ready == MuxReady(l)
<1>1. NetOK /\ LcOK /\ PcOK /\ PcStep /\ DOMAIN chan = Chans /\ KeepMode = {} /\ IndexOK
  BY DEF LoopInv, NetInv, StepOK, PlainNetwork
<1>2. /\ loopVar[l] \in Chans /\ outChan[l] \in Chans /\ MuxAt(l) \in Nat \ {0}
      /\ IsChan(v, loopVar[l]) /\ IsChan(o, outChan[l])
      /\ lc[l].sel \in BOOLEAN /\ l \in OuterMost /\ Bound[l] \in Nat \ {0}
  BY <1>1, LoopFacts
<1>3. Same(loopVar[l], v', v)
  BY <1>1, <1>2, LcNow DEF StepOK
<1>4. /\ n' = n /\ p' = p /\ v'.valid = v.valid /\ v'.bp = v.bp /\ v'.lastPopVal = v.lastPopVal
      /\ v'.channel # <<>> <=> v.channel # <<>>
  <2>1. v' = chan'[loopVar[l]]
    OBVIOUS
  <2> HIDE DEF v
  <2> QED  BY <1>2, <1>3, SameLoop
<1>5. /\ lc'[l].sel = lc[l].sel /\ lc'[l].var = lc[l].var /\ lc'[l].muxSuccess = ready
      /\ begin' => begin
  BY <1>2, SameLc
<1>6. pc' = MuxAt(l) + 1
  BY <1>1, <1>2, ProgramType, LcStatements DEF PcOK, PcStep
<1>7. MuxStep(l, o')
  BY <1>1, LcActions, MuxChannels
<1>8. Wires(l, n, p, sending) /\ Known(l, n, p) /\ Elsewhere(l, n, p, sending)
  <2>1. pc # MuxAt(l) + 1 /\ pc # MuxAt(l) + 2
    BY <1>2
  <2> QED  BY <2>1 DEF LoopOK, Circle
<1>9. n \in Nat /\ p \in Nat /\ size \in Nat \ {0} /\ Bound[l] \in Nat \ {0}
  BY <1>2, LoopChannel, ChannelAssumption
<1>10. /\ v.valid => v.channel # <<>>
       /\ v.channel # <<>> => n > 0
       /\ o.valid => sending
       /\ sending => o.channel # <<>>
       /\ ~sending => o.channel = <<>>
       /\ sending \in BOOLEAN /\ sending' \in BOOLEAN
       /\ sending' <=> o'.channel # <<>>
       /\ o.valid \in BOOLEAN /\ v.valid \in BOOLEAN
  BY <1>2, LoopChannel
<1>11. ready <=> IF lc[l].sel THEN v.valid ELSE begin
  BY <1>2 DEF MuxReady
<1>12. /\ n \in {0, 1} /\ p + n <= Bound[l]
       /\ v.bp[1] <=> n >= size
       /\ Len(o.channel) = Len(o.chanBuffer[1])
       /\ o.channel # <<>> => o.chanBuffer[1][1].wait = 0 /\ o.channel[1].cond
       /\ p + n > 0 /\ n = 0 => v.lastPopVal = {<<l, p - 1>>}
  BY <1>8, <1>10 DEF Wires
<1>13. /\ p + n > 0 => lc[l].var = p + n
       /\ p + n = 0 => ~lc[l].sel
       /\ n = 1 /\ v.channel # <<>> => (lc[l].sel <=> p + 1 < Bound[l])
  BY <1>8 DEF Known
<1>14. /\ begin => p + n = 0
       /\ p + n = 0 => ~sending
       /\ n = 1 /\ sending => o.valid
       /\ n = 0 => (lc[l].sel <=> sending) /\ ~o.valid
       /\ n = 0 /\ sending => p < Bound[l]
  BY <1>8 DEF Elsewhere
<1>15. ready => o.channel = <<>> \/ o.valid
  <2> HIDE DEF n, p, sending, ready, v, o, size
  <2> QED  BY <1>9, <1>10, <1>11, <1>12, <1>14
<1>16. /\ Len(o'.channel) = Len(o'.chanBuffer[1])
       /\ o'.channel # <<>> => o'.chanBuffer[1][1].wait = 0 /\ o'.channel[1].cond
       /\ o'.valid <=> o'.channel # <<>> /\ ~v.bp[1]
       /\ ready => o'.channel # <<>>
       /\ ~ready => (o'.channel # <<>> <=> o.channel # <<>> /\ ~o.valid)
  BY <1>1, <1>7, <1>12, <1>15, MuxOut
<1>17. o'.value = {<<l, IF lc[l].sel THEN lc[l].var ELSE 0>>}
  BY <1>7 DEF MuxStep
<1> HIDE DEF n, p, sending, ready, v, o, size
<1>18. sending' <=> ready \/ (sending /\ ~o.valid)
  BY <1>10, <1>16
<1>19. Wires(l, n, p, sending)'
  <2>1. /\ n' \in {0, 1} /\ p' + n' <= Bound[l]
        /\ p' + n' > 0 /\ n' = 0 => v'.lastPopVal = {<<l, p' - 1>>}
        /\ v'.bp[1] <=> n' >= size
        /\ Len(o'.channel) = Len(o'.chanBuffer[1])
        /\ sending' => o'.chanBuffer[1][1].wait = 0 /\ o'.channel[1].cond
    BY <1>4, <1>10, <1>12, <1>16
  <2> QED  BY <2>1 DEF Wires, v, o, size
<1>20. Known(l, n, p)'
  BY <1>4, <1>5, <1>13 DEF Known, v
<1>21. AfterMux(l, n, p, sending)'
  <2>1. ASSUME sending'
        PROVE  /\ o'.value = {<<l, p' + n'>>} /\ (o'.valid <=> n' < size)
               /\ n' = 1 => v'.valid
               /\ p' + n' < Bound[l]
               /\ p' + n' > 0 => lc'[l].sel
               /\ lc'[l].muxSuccess <=> n' = 1 \/ p' = 0
    <3>1. (IF lc[l].sel THEN lc[l].var ELSE 0) = p + n
      <4>1. CASE p + n = 0
        BY <1>9, <1>13, <4>1
      <4>2. CASE p + n > 0
        <5>1. lc[l].sel
          BY <1>9, <1>10, <1>11, <1>12, <1>14, <1>18, <2>1, <4>2
        <5> QED  BY <1>13, <4>2, <5>1
      <4> QED  BY <1>9, <4>1, <4>2
    <3>2. o'.value = {<<l, p + n>>}
      BY <1>17, <3>1
    <3>3. o'.valid <=> n < size
      BY <1>9, <1>10, <1>12, <1>16, <2>1
    <3>4. n = 1 => v.valid
      BY <1>9, <1>10, <1>11, <1>12, <1>14, <1>18, <2>1
    <3>5. p + n < Bound[l]
      BY <1>9, <1>10, <1>11, <1>12, <1>13, <1>14, <1>18, <2>1, <3>4
    <3>6. p + n > 0 => lc[l].sel
      BY <1>9, <1>10, <1>11, <1>12, <1>14, <1>18, <2>1
    <3>7. ready <=> n = 1 \/ p = 0
      BY <1>9, <1>10, <1>11, <1>12, <1>13, <1>14, <1>18, <2>1
    <3> QED  BY <1>4, <1>5, <3>2, <3>3, <3>4, <3>5, <3>6, <3>7
  <2>2. ASSUME ~sending'
        PROVE  ~lc'[l].muxSuccess /\ (n' = 0 \/ v'.valid => ~lc'[l].sel)
    <3>1. ~ready
      BY <1>18, <2>2
    <3>2. n = 0 \/ v.valid => ~lc[l].sel
      BY <1>9, <1>10, <1>11, <1>12, <1>14, <1>18, <2>2, <3>1
    <3> QED  BY <1>4, <1>5, <3>1, <3>2
  <2> QED  BY <2>1, <2>2 DEF AfterMux, v, o, size
<1>22. pc' # MuxAt(l) + 2
  BY <1>2, <1>6
<1> QED  BY <1>6, <1>19, <1>20, <1>21, <1>22 DEF LoopOK, Circle, n, p, sending, v, o

\* The get of the loopVar keeps a loop in order.
LEMMA LoopGet ==
    ASSUME PlainNetwork, LoopInv, LoopInv', OrderInv, StepOK, Next \/ graphUpdate,
           NEW l \in Lcs, IsLoop(l), pc = MuxAt(l) + 1
    PROVE  LoopOK(l)'
<1> DEFINE v == chan[loopVar[l]]
           o == chan[outChan[l]]
           n == Len(v.chanBuffer[1])
           p == v.popped
           sending == IF o.channel # <<>> THEN TRUE ELSE FALSE
           size == Size[loopVar[l]]
           x == IF v.valid THEN 1 ELSE 0
           t == IF o.valid THEN 1 ELSE 0
<1>1. NetOK /\ LcOK /\ PcOK /\ PcStep /\ LoopOK(l)
  BY DEF LoopInv, NetInv, StepOK, OrderInv, LoopsOK
<1>2. /\ loopVar[l] \in Chans /\ outChan[l] \in Chans /\ MuxAt(l) \in Nat \ {0}
      /\ IsChan(v, loopVar[l]) /\ IsChan(o, outChan[l])
      /\ lc[l].sel \in BOOLEAN /\ Bound[l] \in Nat \ {0}
      /\ Upstream[loopVar[l]] = <<outChan[l]>> /\ Inputs(loopVar[l]) = {1}
      /\ v.pushBufferEnable = TRUE
  BY <1>1, LoopFacts
<1>3. outChan[l] \notin Now /\ loopVar[l] \in Now
  BY <1>1, <1>2, LcNow
<1>4. /\ o'.valid = o.valid /\ sending' = sending
      /\ Len(o'.channel) = Len(o'.chanBuffer[1]) <=> Len(o.channel) = Len(o.chanBuffer[1])
      /\ o.channel # <<>> => o'.channel[1].cond = o.channel[1].cond
      /\ o.channel # <<>> /\ o.chanBuffer[1][1].wait = 0 => o'.chanBuffer[1][1].wait = 0
  <2>1. Same(outChan[l], o', o)
    BY <1>2, <1>3 DEF StepOK
  <2>2. o' = chan'[outChan[l]]
    OBVIOUS
  <2> HIDE DEF o
  <2> QED  BY <1>2, <2>1, SameLoop
<1>5. lc'[l].sel = lc[l].sel /\ lc'[l].var = lc[l].var /\ lc'[l].muxSuccess = lc[l].muxSuccess
  <2>1. pc # MuxAt(l) /\ pc # MuxAt(l) + 2
    BY <1>2
  <2> QED  BY <2>1, SameLc
<1>6. pc' = MuxAt(l) + 2
  <2>1. pc + 1 = MuxAt(l) + 2 /\ MuxAt(l) + 2 \in DOMAIN Program
    BY <1>2, LcStatements
  <2> QED  BY <1>1, <2>1, ProgramType DEF PcStep
<1>7. Wires(l, n, p, sending) /\ AfterMux(l, n, p, sending)
  <2>1. pc = MuxAt(l) + 1
    BY <1>2
  <2> QED  BY <1>1, <2>1 DEF LoopOK, Circle
<1>8. n \in Nat /\ p \in Nat /\ size \in Nat \ {0} /\ Bound[l] \in Nat \ {0}
  BY <1>2, LoopChannel, ChannelAssumption
<1>9. /\ v.valid => n > 0
      /\ o.valid => sending
      /\ sending => o.channel # <<>>
      /\ sending \in BOOLEAN
      /\ o.valid \in BOOLEAN /\ v.valid \in BOOLEAN
  BY <1>2, LoopChannel
<1>10. /\ n \in {0, 1} /\ p + n <= Bound[l]
       /\ Len(o.channel) = Len(o.chanBuffer[1])
       /\ o.channel # <<>> => o.chanBuffer[1][1].wait = 0 /\ o.channel[1].cond
       /\ p + n > 0 /\ n = 0 => v.lastPopVal = {<<l, p - 1>>}
  BY <1>7, <1>9 DEF Wires
<1>11. /\ sending =>
              /\ o.valid <=> n < size
              /\ n = 1 => v.valid
              /\ p + n < Bound[l]
              /\ lc[l].muxSuccess <=> n = 1 \/ p = 0
       /\ ~sending => ~lc[l].muxSuccess /\ (n = 0 \/ v.valid => ~lc[l].sel)
  BY <1>7 DEF AfterMux
<1>12. /\ loopVar[l] \in DOMAIN Nest /\ Nest[loopVar[l]][1] = l
       /\ Upstream[loopVar[l]] # <<>>
  BY LoopAssumption DEF IsLoop
<1>13. GetStep(loopVar[l], v, v')
  <2>1. loopVar[l] \notin Lses
    BY LcStatements
  <2> QED  BY <1>2, <1>3, <1>12, <2>1, UpdateKinds
<1>14. x \in {0, 1} /\ t \in {0, 1} /\ (x = 1 <=> v.valid) /\ (t = 1 <=> o.valid)
  BY <1>9
<1>15. p' = p + x /\ n' + x = n + t
  <2>1. Taking(loopVar[l], x)
    BY <1>2, <1>12, <1>13, GetTaking
  <2>2. 1 \in Inputs(loopVar[l]) /\ Upstream[loopVar[l]][1] = outChan[l]
    BY <1>2
  <2>3. p' = p + x
    BY <2>1 DEF Taking
  <2>4. n' + x = n + (IF chan[Upstream[loopVar[l]][1]].valid THEN 1 ELSE 0)
    BY <2>1, <2>2 DEF Taking
  <2> QED  BY <2>2, <2>3, <2>4
<1>16. v'.bp[1] <=> n' >= size
  BY <1>2, <1>13 DEF GetStep
<1>17. v'.lastPopVal = IF x = 1 THEN {<<l, p>>} ELSE v.lastPopVal
  <2>1. v.valid => v.chanBuffer[1][1].value = {<<l, p>>}
    <3>1. SUFFICES ASSUME v.valid PROVE v.chanBuffer[1][1].value = {<<l, p>>}
      OBVIOUS
    <3>2. 1 \in 1 .. n /\ p + 1 - 1 = p
      BY <1>8, <1>9, <3>1
    <3>3. v.chanBuffer[1][1].value = {<<l, p + 1 - 1>>}
      BY <1>2, <1>12, <3>2 DEF OrderInv, RowsOK
    <3> QED  BY <3>2, <3>3
  <2>2. v'.lastPopVal = IF v.valid THEN v.chanBuffer[1][1].value ELSE v.lastPopVal
    BY <1>13 DEF GetStep
  <2> QED  BY <1>14, <2>1, <2>2
<1>18. n' \in Nat /\ p' \in Nat
  <2>1. IsChan(chan'[loopVar[l]], loopVar[l])
    BY <1>2 DEF LoopInv, NetInv, NetOK
  <2> QED  BY <1>2, <2>1, LoopChannel
<1> HIDE DEF n, p, sending, v, o, size, x, t
<1> DEFINE n1 == n'
           p1 == p'
<1>19. p1 = p + x /\ n1 + x = n + t /\ n1 \in Nat /\ p1 \in Nat
  BY <1>15, <1>18
<1>20. n' = n1 /\ p' = p1
  OBVIOUS
<1> HIDE DEF n1, p1
<1>21. sending /\ n = 1 => x = 1 /\ p1 = p + 1 /\ n1 = t
  <2>1. SUFFICES ASSUME sending, n = 1 PROVE x = 1 /\ p1 = p + 1 /\ n1 = t
    OBVIOUS
  <2>2. x = 1
    BY <1>11, <1>14, <2>1
  <2> QED  BY ONLY <1>8, <1>14, <1>19, <2>1, <2>2
<1>22. sending /\ n = 0 => x = 0 /\ p1 = p /\ n1 = 1 /\ t = 1
  <2>1. SUFFICES ASSUME sending, n = 0 PROVE x = 0 /\ p1 = p /\ n1 = 1 /\ t = 1
    OBVIOUS
  <2>2. x = 0
    BY <1>9, <1>14, <2>1
  <2>3. t = 1
    BY <1>8, <1>11, <1>14, <2>1
  <2> QED  BY ONLY <1>8, <1>19, <2>1, <2>2, <2>3
<1>23. ~sending => t = 0 /\ n1 = n - x /\ p1 = p + x
  <2>1. SUFFICES ASSUME ~sending PROVE t = 0 /\ n1 = n - x /\ p1 = p + x
    OBVIOUS
  <2>2. t = 0
    BY <1>9, <1>14, <2>1
  <2> QED  BY ONLY <1>8, <1>14, <1>19, <2>2
<1>24. /\ n1 \in {0, 1} /\ p1 + n1 <= Bound[l]
       /\ p1 + n1 > 0 /\ n1 = 0 => v'.lastPopVal = {<<l, p1 - 1>>}
  <2>1. CASE sending /\ n = 1
    <3>1. n1 \in {0, 1} /\ p1 + n1 <= Bound[l]
      BY <1>8, <1>11, <1>14, <1>21, <2>1
    <3>2. p1 - 1 = p /\ v'.lastPopVal = {<<l, p>>}
      BY <1>8, <1>17, <1>21, <2>1
    <3> QED  BY <3>1, <3>2
  <2>2. CASE sending /\ n = 0
    BY <1>8, <1>11, <1>22, <2>2
  <2>3. CASE ~sending
    <3>1. n1 \in {0, 1} /\ p1 + n1 <= Bound[l]
      BY <1>8, <1>9, <1>10, <1>14, <1>19, <1>23, <2>3
    <3>2. CASE x = 1
      <4>1. p1 - 1 = p
        BY <1>8, <1>23, <2>3, <3>2
      <4> QED  BY <1>17, <3>1, <3>2, <4>1
    <3>3. CASE x = 0
      <4>1. p1 = p /\ n1 = n
        BY <1>8, <1>23, <2>3, <3>3
      <4> QED  BY <1>10, <1>17, <3>1, <3>3, <4>1
    <3> QED  BY <1>14, <3>2, <3>3
  <2> QED  BY <1>9, <1>10, <2>1, <2>2, <2>3
<1>25. Wires(l, n, p, sending)'
  <2>1. /\ Len(o'.channel) = Len(o'.chanBuffer[1])
        /\ sending' => o'.chanBuffer[1][1].wait = 0 /\ o'.channel[1].cond
    BY <1>4, <1>9, <1>10
  <2> QED  BY <1>16, <1>24, <1>20, <2>1 DEF Wires, v, o, size
<1>26. AfterLoopVar(l, n, p, sending)'
  <2>1. n1 = 1 /\ sending' => o'.valid
    BY <1>4, <1>10, <1>14, <1>21, <1>22
  <2>2. n1 = 0 /\ sending' => ~o'.valid /\ p1 > 0 /\ p1 < Bound[l] /\ lc'[l].muxSuccess
    BY <1>4, <1>5, <1>8, <1>10, <1>11, <1>14, <1>21, <1>22
  <2>3. n1 = 0 /\ ~sending' => ~lc'[l].sel /\ ~lc'[l].muxSuccess
    BY <1>4, <1>5, <1>8, <1>9, <1>10, <1>11, <1>14, <1>23
  <2> QED  BY <1>20, <2>1, <2>2, <2>3 DEF AfterLoopVar, o
<1>27. pc' # MuxAt(l) + 1
  BY <1>2, <1>6
<1> QED  BY <1>6, <1>25, <1>26, <1>27 DEF LoopOK, Circle, n, p, sending, v, o

\* lcUpdate keeps a loop in order: it computes the index of the next iteration.
LEMMA LoopLc ==
    ASSUME PlainNetwork, LoopInv, LoopInv', OrderInv, StepOK, Next \/ graphUpdate,
           NEW l \in Lcs, IsLoop(l), pc = MuxAt(l) + 2
    PROVE  LoopOK(l)'
<1> DEFINE v == chan[loopVar[l]]
           o == chan[outChan[l]]
           n == Len(v.chanBuffer[1])
           p == v.popped
           sending == IF o.channel # <<>> THEN TRUE ELSE FALSE
           index == LoopIndex(l)
<1>1. NetOK /\ LcOK /\ PcOK /\ PcStep /\ DOMAIN chan = Chans /\ KeepMode = {} /\ IndexOK /\ LoopOK(l)
  BY DEF LoopInv, NetInv, StepOK, PlainNetwork, OrderInv, LoopsOK
<1>2. /\ loopVar[l] \in Chans /\ outChan[l] \in Chans /\ MuxAt(l) \in Nat \ {0}
      /\ IsChan(v, loopVar[l]) /\ IsChan(o, outChan[l])
      /\ lc[l].sel \in BOOLEAN /\ lc[l].muxSuccess \in BOOLEAN
      /\ l \in OuterMost /\ Bound[l] \in Nat \ {0} /\ Inputs(loopVar[l]) = {1}
  BY <1>1, LoopFacts
<1>3. pc # MuxAt(l) /\ pc # MuxAt(l) + 1
  BY <1>2
<1>4. /\ Same(loopVar[l], v', v) /\ Same(outChan[l], o', o)
  BY <1>1, <1>2, <1>3, LcNow DEF StepOK
<1>5. /\ n' = n /\ p' = p /\ sending' = sending
      /\ o'.valid = o.valid
      /\ v'.channel # <<>> <=> v.channel # <<>>
  <2>1. v' = chan'[loopVar[l]] /\ o' = chan'[outChan[l]]
    OBVIOUS
  <2> HIDE DEF v, o
  <2> QED  BY <1>2, <1>4, SameLoop
<1>6. /\ lc'[l].sel = selUpdate(l) /\ lc'[l].var = index + 1
      /\ lc'[l].muxSuccess = lc[l].muxSuccess /\ ~begin'
  BY <1>1, <1>2, LcActions, LcChannels
<1>7. pc' \notin {MuxAt(l) + 1, MuxAt(l) + 2}
  BY <1>1, <1>2, ProgramType DEF PcOK, PcStep
<1>8. Wires(l, n, p, sending) /\ AfterLoopVar(l, n, p, sending)
  BY <1>1, <1>3 DEF LoopOK, Circle
<1>9. n \in Nat /\ p \in Nat /\ Bound[l] \in Nat \ {0}
  BY <1>2, LoopChannel
<1>10. /\ v.channel # <<>> => n > 0
       /\ o.valid => sending
       /\ sending => o.channel # <<>>
       /\ sending \in BOOLEAN
       /\ (n = 0 <=> v.chanBuffer[1] = <<>>)
  BY <1>2, LoopChannel
<1>11. /\ n \in {0, 1} /\ p + n <= Bound[l]
       /\ p + n > 0 /\ n = 0 => v.lastPopVal = {<<l, p - 1>>}
  BY <1>8 DEF Wires
<1>12. /\ n = 1 /\ sending => o.valid
       /\ n = 0 /\ sending => ~o.valid /\ p > 0 /\ p < Bound[l] /\ lc[l].muxSuccess
       /\ n = 0 /\ ~sending => ~lc[l].sel /\ ~lc[l].muxSuccess
  BY <1>8 DEF AfterLoopVar
<1>13. index \in Nat /\ (p + n > 0 => index + 1 = p + n)
  <2>1. /\ index \in Nat
        /\ \A k \in Nat : (IF v.chanBuffer[1] = <<>> THEN v.lastPopVal ELSE v.chanBuffer[1][1].value) = {<<l, k>>}
              => index = k
    BY <1>1, LoopIndexFacts
  <2>2. n = 1 => v.chanBuffer[1][1].value = {<<l, p>>}
    <3>1. SUFFICES ASSUME n = 1 PROVE v.chanBuffer[1][1].value = {<<l, p>>}
      OBVIOUS
    <3>2. 1 \in 1 .. n /\ p + 1 - 1 = p
      BY <1>9, <3>1
    <3>3. loopVar[l] \in DOMAIN Nest /\ Nest[loopVar[l]][1] = l
      BY DEF IsLoop
    <3>4. v.chanBuffer[1][1].value = {<<l, p + 1 - 1>>}
      BY <1>2, <3>2, <3>3 DEF OrderInv, RowsOK
    <3> QED  BY <3>2, <3>4
  <2> HIDE DEF n, p, sending, v, o, index
  <2>3. CASE n = 1
    <3>1. index = p
      BY <1>9, <1>10, <2>1, <2>2, <2>3
    <3> QED  BY <1>9, <2>1, <2>3, <3>1
  <2>4. CASE n = 0 /\ p > 0
    <3>1. p - 1 \in Nat
      BY <1>9, <2>4
    <3>2. v.lastPopVal = {<<l, p - 1>>}
      BY <1>9, <1>11, <2>4
    <3>3. index = p - 1
      BY <1>10, <2>1, <2>4, <3>1, <3>2
    <3> QED  BY <1>9, <2>1, <2>4, <3>3
  <2>5. CASE n = 0 /\ p = 0
    BY <2>1, <2>5
  <2> QED  BY <1>9, <1>11, <2>3, <2>4, <2>5
<1>14. lc'[l].sel = IF lc[l].muxSuccess \/ v.channel # <<>> THEN index + 1 < Bound[l] ELSE lc[l].sel
  BY <1>6 DEF selUpdate, NewSel
<1>15. sending => o.channel # <<>>
  OBVIOUS
<1> HIDE DEF n, p, sending, index
<1>16. Wires(l, n, p, sending)'
  <2>1. v = chan[loopVar[l]] /\ o = chan[outChan[l]] /\ v' = chan'[loopVar[l]] /\ o' = chan'[outChan[l]]
    OBVIOUS
  <2> HIDE DEF v, o
  <2>2. Wires(l, n', p', sending')
    BY <1>5, <1>8
  <2>3. sending' => chan[outChan[l]].channel # <<>>
    BY <1>5, <1>15, <2>1
  <2> QED  BY <1>1, <1>2, <1>4, <2>1, <2>2, <2>3, SameWires
<1> HIDE DEF v, o
<1>17. Known(l, n, p)'
  <2>1. p' + n' > 0 => lc'[l].var = p' + n'
    BY <1>5, <1>6, <1>13
  <2>2. p' + n' = 0 => ~lc'[l].sel
    <3>1. SUFFICES ASSUME p + n = 0 PROVE ~lc'[l].sel
      BY <1>5
    <3>2. n = 0 /\ p = 0 /\ ~sending
      BY <1>9, <1>12, <3>1
    <3> QED  BY <1>10, <1>12, <1>14, <3>2
  <2>3. n' = 1 /\ v'.channel # <<>> => (lc'[l].sel <=> p' + 1 < Bound[l])
    <3>1. SUFFICES ASSUME n = 1, v.channel # <<>> PROVE lc'[l].sel <=> p + 1 < Bound[l]
      BY <1>5
    <3>2. index + 1 = p + 1
      BY <1>9, <1>13, <3>1
    <3> QED  BY <1>14, <3>1, <3>2
  <2> QED  BY <2>1, <2>2, <2>3 DEF Known, v
<1>18. Elsewhere(l, n, p, sending)'
  <2>1. p + n = 0 => ~sending
    BY <1>9, <1>12
  <2>2. n = 0 => (lc'[l].sel <=> sending) /\ ~o.valid
    <3>1. CASE n = 0 /\ sending
      <4>1. index + 1 = p /\ p < Bound[l] /\ lc[l].muxSuccess /\ ~o.valid
        BY <1>9, <1>12, <1>13, <3>1
      <4> QED  BY <1>14, <3>1, <4>1
    <3>2. CASE n = 0 /\ ~sending
      BY <1>10, <1>12, <1>14, <3>2
    <3> QED  BY <3>1, <3>2
  <2> QED  BY <1>5, <1>6, <1>12, <2>1, <2>2 DEF Elsewhere, o
<1> QED  BY <1>7, <1>16, <1>17, <1>18 DEF LoopOK, Circle, n, p, sending, v, o

\* Every step keeps the iterations in order.
LEMMA OrderStep ==
    ASSUME PlainNetwork, LoopInv, OrderInv, Next \/ graphUpdate
    PROVE  OrderInv'
<1>1. StepOK /\ LoopInv'
  BY LoopInvStep DEF PlainNetwork
<1>2. RowsOK' /\ ValueOK' /\ TakenOK'
  BY <1>1, RowsStep, ValueStep, TakenStep
<1>3. ASSUME NEW l \in Lcs, IsLoop(l)
      PROVE  LoopOK(l)'
  <2>1. LoopOK(l)
    BY <1>3 DEF OrderInv, LoopsOK
  <2>2. CASE pc = MuxAt(l)
    BY <1>1, <1>3, <2>1, <2>2, LoopMux
  <2>3. CASE pc = MuxAt(l) + 1
    BY <1>1, <1>3, <2>3, LoopGet
  <2>4. CASE pc = MuxAt(l) + 2
    BY <1>1, <1>3, <2>4, LoopLc
  <2>5. CASE pc \notin {MuxAt(l), MuxAt(l) + 1, MuxAt(l) + 2}
    BY <1>1, <1>3, <2>1, <2>5, LoopIdle
  <2> QED  BY <2>2, <2>3, <2>4, <2>5
<1>4. LoopsOK'
  BY <1>3 DEF LoopsOK, IsLoop, Downstream, Edge
<1> QED  BY <1>2, <1>4 DEF OrderInv

\* So does a stuttering step.
LEMMA OrderStutter ==
    ASSUME OrderInv, UNCHANGED vars
    PROVE  OrderInv'
<1>1. chan' = chan /\ lc' = lc /\ begin' = begin /\ pc' = pc
  BY DEF vars
<1>2. RowsOK' /\ ValueOK'
  BY <1>1, ZenonT(60) DEF OrderInv, RowsOK, ValueOK, Inputs
<1>3. TakenOK'
  <2>1. \A c, d : Due(c, d)' <=> Due(c, d)
    BY <1>1 DEF Due, Fresh, Updates
  <2>2. ASSUME NEW c \in DOMAIN Nest \ LoopVars, NEW i \in Inputs(c), \E n \in DOMAIN Program : c \in Updates(n)
        PROVE  LET u == Upstream[c][i]
               IN  chan'[c].popped + Len(chan'[c].chanBuffer[i])
                     = chan'[u].popped + (IF chan'[u].valid /\ ~Due(u, c)' THEN 1 ELSE 0)
    <3>1. chan[c].popped + Len(chan[c].chanBuffer[i])
            = chan[Upstream[c][i]].popped
                + (IF chan[Upstream[c][i]].valid /\ ~Due(Upstream[c][i], c) THEN 1 ELSE 0)
      BY <2>2 DEF OrderInv, TakenOK, HasTaken
    <3> QED  BY <1>1, <2>1, <3>1
  <2> QED  BY <2>2 DEF TakenOK, HasTaken, Updates, Inputs
<1>4. ASSUME NEW l \in Lcs, LoopOK(l)
      PROVE  LoopOK(l)'
  BY <1>1, <1>4 DEF LoopOK, Wires, Known, Circle, AfterMux, AfterLoopVar, Elsewhere, MuxAt
<1>5. LoopsOK'
  BY <1>4 DEF OrderInv, LoopsOK, IsLoop, Downstream, Edge
<1> QED  BY <1>2, <1>3, <1>5 DEF OrderInv

\* They are in order at first: no channel has data.
LEMMA OrderInit ==
    ASSUME PlainNetwork, LoopInv, NEW net, NewNet(net), InitWith(net)
    PROVE  OrderInv
<1>1. /\ chan = net /\ pc = 0
      /\ \A c \in Chans : /\ chan[c].channel = <<>> /\ chan[c].valid = FALSE /\ chan[c].popped = 0
                          /\ \A i \in Inputs(c) : chan[c].chanBuffer[i] = <<>> /\ chan[c].bp[i] = FALSE
  BY DEF InitWith, NewNet, ChanType
<1>2. \A c \in Chans : \A i \in Inputs(c) : Len(chan[c].chanBuffer[i]) = 0
  BY <1>1
<1>3. RowsOK
  <2>1. \A c \in DOMAIN Nest : c \in Chans
    BY PlainFacts
  <2> QED  BY <1>2, <2>1 DEF RowsOK
<1>4. ValueOK
  BY <1>1, PlainFacts DEF ValueOK
<1>5. TakenOK
  <2>1. ASSUME NEW c \in DOMAIN Nest \ LoopVars, NEW i \in Inputs(c)
        PROVE  /\ chan[c].popped + Len(chan[c].chanBuffer[i]) = 0
               /\ chan[Upstream[c][i]].popped = 0 /\ chan[Upstream[c][i]].valid = FALSE
    BY <1>1, <1>2, PlainFacts, InputsFacts
  <2>2. ASSUME NEW c \in DOMAIN Nest \ LoopVars, NEW i \in Inputs(c)
        PROVE  LET u == Upstream[c][i]
               IN  chan[c].popped + Len(chan[c].chanBuffer[i])
                     = chan[u].popped + (IF chan[u].valid /\ ~Due(u, c) THEN 1 ELSE 0)
    <3> DEFINE u == Upstream[c][i]
               sent == IF chan[u].valid /\ ~Due(u, c) THEN 1 ELSE 0
               taken == chan[c].popped + Len(chan[c].chanBuffer[i])
               gone == chan[u].popped
    <3>1. taken = 0 /\ gone = 0 /\ chan[u].valid = FALSE
      BY <2>1
    <3>2. sent = 0
      BY <3>1
    <3> HIDE DEF sent, taken, gone
    <3>3. taken = gone + sent
      BY <3>1, <3>2
    <3> QED  BY <3>3 DEF sent, taken, gone
  <2> QED  BY <2>2 DEF TakenOK, HasTaken
<1>6. ASSUME NEW l \in Lcs, IsLoop(l)
      PROVE  LoopOK(l)
  <2>1. NetOK /\ LcOK
    BY DEF LoopInv, NetInv
  <2>2. /\ loopVar[l] \in Chans /\ outChan[l] \in Chans /\ MuxAt(l) \in Nat \ {0}
        /\ Bound[l] \in Nat \ {0} /\ Size[loopVar[l]] \in Nat \ {0}
        /\ 1 \in Inputs(loopVar[l]) /\ 1 \in Inputs(outChan[l])
    BY <1>6, <2>1, LoopFacts, ChannelAssumption, InputsFacts
  <2>3. lc[l].sel = FALSE
    BY DEF InitWith, NewLc
  <2>4. /\ Len(chan[loopVar[l]].chanBuffer[1]) = 0 /\ chan[loopVar[l]].popped = 0
        /\ chan[outChan[l]].channel = <<>> /\ chan[outChan[l]].valid = FALSE
        /\ Len(chan[outChan[l]].channel) = Len(chan[outChan[l]].chanBuffer[1])
        /\ chan[loopVar[l]].bp[1] = FALSE
    BY <1>1, <1>2, <2>2
  <2>5. Wires(l, 0, 0, FALSE)
    BY <2>2, <2>4 DEF Wires
  <2>6. Known(l, 0, 0)
    BY <2>3 DEF Known
  <2>7. Elsewhere(l, 0, 0, FALSE)
    BY <2>3, <2>4 DEF Elsewhere
  <2>8. pc # MuxAt(l) + 1 /\ pc # MuxAt(l) + 2
    BY <1>1, <2>2
  <2>9. (IF chan[outChan[l]].channel # <<>> THEN TRUE ELSE FALSE) = FALSE
    BY <2>4
  <2> QED  BY <2>4, <2>5, <2>6, <2>7, <2>8, <2>9 DEF LoopOK, Circle
<1>7. LoopsOK
  BY <1>6 DEF LoopsOK
<1> QED  BY <1>3, <1>4, <1>5, <1>7 DEF OrderInv

\* The invariant says at least what the property says.
LEMMA OrderShown ==
    ASSUME PlainNetwork, OrderInv
    PROVE  InIterationOrder
<1>1. SUFFICES ASSUME NEW c \in DOMAIN Nest, NEW k \in FullRows(c)
               PROVE  Row(c, k) = Iteration(c, chan[c].popped + k - 1)
  BY DEF InIterationOrder
<1>2. PICK l \in OuterMost : Nest[c] = <<l>> /\ Nest[c][1] = l /\ c \in Chans
  BY PlainFacts
<1> DEFINE j == chan[c].popped + k - 1
<1>3. Loops(c) = {l}
  BY <1>2 DEF Loops
<1>4. Iteration(c, j) = {<<l, j>>}
  BY <1>2 DEF Iteration
<1>5. ASSUME NEW i \in Inputs(c)
      PROVE  chan[c].chanBuffer[i][k].value = {<<l, j>>}
  BY <1>2, <1>5 DEF FullRows, OrderInv, RowsOK
<1>6. 1 \in Inputs(c)
  BY <1>2, InputsFacts
<1>7. {chan[c].chanBuffer[i][k].value : i \in Inputs(c)} = {{<<l, j>>}}
  BY <1>5, <1>6
<1> HIDE DEF j
<1>8. UNION {chan[c].chanBuffer[i][k].value : i \in Inputs(c)} = {<<l, j>>}
  BY <1>7
<1> QED  BY <1>3, <1>4, <1>8 DEF Row, j

\* Every channel receives the iterations of its loop in order and each once
\* (Channel::push, pop, checkSend, Mux::muxUpdate, Lc::lcUpdate), in every
\* network of a single level of loops whose channels have no special mode: with
\* any graph in the body of a loop, any latency, speedup and size of a buffer,
\* any bound of the loop and any order of the channels in the main loop.
THEOREM IterationsInOrder ==
    ASSUME PlainNetwork
    PROVE  Spec => []InIterationOrder
<1>1. Init => LoopInv /\ OrderInv
  BY NewFacts, LoopInvInit, OrderInit DEF Init, PlainNetwork
<1>2. LoopInv /\ OrderInv /\ [Next]_vars => (LoopInv /\ OrderInv)'
  BY LoopInvStep, LoopInvStutter, OrderStep, OrderStutter DEF PlainNetwork
<1>3. LoopInv /\ OrderInv => InIterationOrder
  BY OrderShown
<1> QED  BY <1>1, <1>2, <1>3, PTL DEF Spec

-----------------------------------------------------------------------------
(* The conds of the data on the paths of a branch. *)

\* An observed channel is offered conds that fit the path it is on.
LEMMA OfferCond ==
    ASSUME BranchNetwork, LoopInv, OrderInv, CondOK, PcStep, NEW c \in DOMAIN Nest, c \in Now,
           NEW i \in Inputs(c), chan[Upstream[c][i]].valid, branchMode(c) \/ i = 1
    PROVE  Offer(c, i).cond <=> CondIs(c, Offer(c, i).value)
<1> DEFINE u == Upstream[c][i]
           cond == chan[u].channel[1].cond
<1>1. PlainNetwork
  BY DEF BranchNetwork
<1>2. c \in Chans /\ Upstream[c] # <<>> /\ u \in Chans /\ Edge(u, c)
  BY <1>1, PlainFacts, InputsFacts
<1>3. chan[u].channel # <<>>
  BY <1>2 DEF LoopInv, NetInv, NetOK, IsChan, OffersOK
<1>4. /\ Offer(c, i).value = chan[u].value
      /\ Offer(c, i).cond = PathCond(c, i)
  BY DEF Offer
<1>5. PathCond(c, i) <=> cond /\ (i \in CondInputs(c) /\ branchMode(c) => CondTrue(chan[u].value) = (c \in TruePath))
  BY DEF PathCond, Front
<1>6. CASE c \in LoopVars
  <2>1. PICK l \in Lcs : IsLoop(l) /\ c = loopVar[l]
    BY <1>1, <1>6, PlainFacts
  <2>2. ~branchMode(c) /\ i = 1
    BY <1>6, ChannelAssumption DEF branchMode
  <2>3. u = outChan[l]
    BY <2>1, <2>2 DEF IsLoop
  <2> DEFINE sending == IF chan[outChan[l]].channel # <<>> THEN TRUE ELSE FALSE
  <2>4. Wires(l, Len(chan[c].chanBuffer[1]), chan[c].popped, sending)
    BY <2>1 DEF OrderInv, LoopsOK, LoopOK
  <2>5. sending
    BY <1>3, <2>3
  <2> HIDE DEF sending
  <2>6. cond
    BY <2>3, <2>4, <2>5 DEF Wires
  <2> QED  BY <1>4, <1>5, <2>2, <2>6 DEF CondIs
<1>7. CASE c \notin LoopVars
  <2>1. u \in DOMAIN Nest /\ Nest[u][1] = Nest[c][1]
    BY <1>1, <1>7, PlainFacts
  <2>2. chan[u].value = {<<Nest[u][1], chan[u].popped>>}
    BY <2>1 DEF OrderInv, ValueOK
  <2>3. cond <=> CondIs(u, chan[u].value)
    BY <1>3, <2>1, <2>2 DEF CondOK
  <2>4. CASE ~branchMode(c)
    <3>1. ~branchMode(u)
      BY <1>7, <2>4 DEF BranchNetwork
    <3> QED  BY <1>4, <1>5, <2>3, <2>4, <3>1 DEF CondIs
  <2>5. CASE branchMode(c) /\ i \in CondInputs(c)
    <3>1. ~branchMode(u)
      BY <1>7, <2>5 DEF BranchNetwork
    <3>2. CondTrue(chan[u].value) = (c \in TruePath) <=> (CondTrue(chan[u].value) <=> c \in TruePath)
      <4>1. CondTrue(chan[u].value) \in BOOLEAN
        BY DEF CondTrue
      <4>2. \A a, b \in BOOLEAN : (a = b) <=> (a <=> b)
        OBVIOUS
      <4> HIDE DEF u
      <4> QED  BY <4>1, <4>2
    <3> QED  BY <1>4, <1>5, <2>3, <2>5, <3>1, <3>2 DEF CondIs
  <2>6. CASE branchMode(c) /\ i \notin CondInputs(c)
    <3>1. u \in (IF c \in TruePath THEN TruePath ELSE FalsePath)
      BY <1>7, <2>6 DEF BranchNetwork
    <3>2. branchMode(u) /\ (u \in TruePath <=> c \in TruePath)
      BY <2>6, <3>1, ChannelAssumption DEF branchMode
    <3> QED  BY <1>4, <1>5, <2>3, <2>6, <3>2 DEF CondIs
  <2> QED  BY <2>4, <2>5, <2>6
<1> QED  BY <1>6, <1>7

\* Every step keeps data on the path their cond selects.
LEMMA CondStep ==
    ASSUME BranchNetwork, LoopInv, LoopInv', OrderInv, RowsOK', CondOK, StepOK, Next \/ graphUpdate
    PROVE  CondOK'
<1>1. PlainNetwork
  BY DEF BranchNetwork
<1>2. ASSUME NEW c \in DOMAIN Nest, NEW i \in Inputs(c), branchMode(c) \/ i = 1,
             NEW k \in 1 .. Len(chan'[c].chanBuffer[i])
      PROVE  chan'[c].chanBuffer[i][k].cond <=> CondIs(c, chan'[c].chanBuffer[i][k].value)
  <2>1. c \in Chans
    BY <1>1, PlainFacts
  <2>2. \A j \in 1 .. Len(chan[c].chanBuffer[i]) :
           chan[c].chanBuffer[i][j].cond <=> CondIs(c, chan[c].chanBuffer[i][j].value)
    BY <1>2 DEF CondOK
  <2>3. CASE c \in Now
    <3>1. PICK x : Taking(c, x)
      BY <1>1, <2>3, PlainFacts, UpdateTaking
    <3>2. \/ /\ k + x \in 1 .. Len(chan[c].chanBuffer[i])
             /\ chan'[c].chanBuffer[i][k] = chan[c].chanBuffer[i][k + x]
          \/ /\ chan[Upstream[c][i]].valid
             /\ chan'[c].chanBuffer[i][k] = Offer(c, i)
      <4> DEFINE t == IF chan[Upstream[c][i]].valid THEN 1 ELSE 0
      <4>1. \/ /\ k + x \in 1 .. Len(chan[c].chanBuffer[i])
               /\ chan'[c].chanBuffer[i][k] = chan[c].chanBuffer[i][k + x]
            \/ t = 1 /\ chan'[c].chanBuffer[i][k] = Offer(c, i)
        BY <3>1 DEF Taking
      <4>2. t = 1 => chan[Upstream[c][i]].valid
        OBVIOUS
      <4> HIDE DEF t
      <4> QED  BY <4>1, <4>2
    <3>3. chan[Upstream[c][i]].valid => (Offer(c, i).cond <=> CondIs(c, Offer(c, i).value))
      BY <1>2, <2>3, OfferCond DEF StepOK
    <3> QED  BY <2>2, <3>2, <3>3
  <2>4. CASE c \notin Now
    <3>1. /\ Len(chan'[c].chanBuffer[i]) = Len(chan[c].chanBuffer[i])
          /\ chan'[c].chanBuffer[i][k].value = chan[c].chanBuffer[i][k].value
          /\ chan'[c].chanBuffer[i][k].cond = chan[c].chanBuffer[i][k].cond
      BY <2>1, <2>4 DEF StepOK, Same, SameBuffer
    <3> QED  BY <2>2, <3>1
  <2> QED  BY <2>3, <2>4
<1>3. ASSUME NEW c \in DOMAIN Nest, chan'[c].channel # <<>>
      PROVE  chan'[c].channel[1].cond <=> CondIs(c, {<<Nest[c][1], chan'[c].popped>>})
  <2>1. /\ c \in Chans /\ Upstream[c] # <<>> /\ IsChan(chan[c], c) /\ IsChan(chan'[c], c)
        /\ \A i \in Inputs(c) : i \in 1 .. Len(Upstream[c])
    BY <1>1, PlainFacts, InputsFacts DEF LoopInv, NetInv, NetOK
  <2>2. chan[c].channel # <<>> =>
           (chan[c].channel[1].cond <=> CondIs(c, {<<Nest[c][1], chan[c].popped>>}))
    BY DEF CondOK
  <2>3. CASE c \in Now
    <3>1. c \notin Lses
      BY <1>3 DEF StepOK
    <3>2. GetStep(c, chan[c], chan'[c])
      BY <1>1, <2>3, <3>1, PlainFacts, UpdateKinds
    <3>3. CASE ~chan[c].valid /\ chan[c].channel # <<>> /\ chan'[c].channel = chan[c].channel
      <4>1. chan'[c].popped = chan[c].popped + 0
        BY <3>2, <3>3 DEF GetStep
      <4>2. chan'[c].popped = chan[c].popped
        BY <2>1, <4>1, LoopChannel
      <4> QED  BY <2>2, <3>3, <4>2
    <3>4. CASE chan'[c].channel = <<updateDataStatus(chan'[c], c)>>
      <4> DEFINE source == IF branchMode(c) /\ CondInputs(c) # {} THEN CHOOSE i \in CondInputs(c) : TRUE ELSE 1
      <4>1. source \in Inputs(c) /\ (branchMode(c) \/ source = 1)
        <5>1. CondInputs(c) \subseteq Inputs(c)
          BY <2>1 DEF CondInputs, Inputs
        <5>2. CondInputs(c) # {} => (CHOOSE i \in CondInputs(c) : TRUE) \in CondInputs(c)
          OBVIOUS
        <5>3. 1 \in Inputs(c)
          BY <2>1, InputsFacts
        <5> QED  BY <5>1, <5>2, <5>3
      <4>2. chan'[c].channel[1].cond = (Upstream[c] # <<>> => chan'[c].chanBuffer[source][1].cond)
        BY <3>4 DEF updateDataStatus, Front
      <4> HIDE DEF source
      <4>3. 1 \in 1 .. Len(chan'[c].chanBuffer[source]) /\ chan'[c].popped \in Nat
        <5>1. chan'[c].chanBuffer[source] # <<>>
          BY <1>3, <2>1, <4>1 DEF IsChan, IsRec, HoldsOK, ChanType
        <5> QED  BY <2>1, <4>1, <5>1, BufferType DEF IsChan
      <4>4. chan'[c].chanBuffer[source][1].value = {<<Nest[c][1], chan'[c].popped + 1 - 1>>}
        BY <4>1, <4>3, ZenonT(60) DEF RowsOK, Inputs
      <4>5. chan'[c].popped + 1 - 1 = chan'[c].popped
        BY <4>3
      <4>6. chan'[c].chanBuffer[source][1].cond <=> CondIs(c, chan'[c].chanBuffer[source][1].value)
        BY <1>2, <4>1, <4>3
      <4>7. chan'[c].channel[1].cond <=> chan'[c].chanBuffer[source][1].cond
        BY <2>1, <4>2
      <4> QED  BY <4>4, <4>5, <4>6, <4>7
    <3> QED  BY <1>3, <3>2, <3>3, <3>4 DEF GetStep
  <2>4. CASE c \notin Now
    <3>1. Same(c, chan'[c], chan[c])
      BY <2>1, <2>4 DEF StepOK
    <3>2. /\ chan[c].channel # <<>> /\ chan'[c].popped = chan[c].popped
          /\ chan'[c].channel[1].cond = chan[c].channel[1].cond
      BY <1>3, <2>1, <3>1, SameLoop
    <3> QED  BY <2>2, <3>2
  <2> QED  BY <2>3, <2>4
<1> QED  BY <1>2, <1>3 DEF CondOK, Inputs, branchMode, CondIs

\* So does a stuttering step.
LEMMA CondStutter ==
    ASSUME CondOK, UNCHANGED vars
    PROVE  CondOK'
<1>1. chan' = chan
  BY DEF vars
<1> QED  BY <1>1, ZenonT(60) DEF CondOK, CondIs, branchMode, Inputs

\* The buffers are empty at first.
LEMMA CondInit ==
    ASSUME BranchNetwork, NEW net, NewNet(net), InitWith(net)
    PROVE  CondOK
<1>1. \A c \in DOMAIN Nest : c \in Chans
  BY PlainFacts DEF BranchNetwork
<1>2. \A c \in Chans : /\ chan[c].channel = <<>>
                       /\ \A i \in Inputs(c) : Len(chan[c].chanBuffer[i]) = 0
  BY DEF InitWith, NewNet
<1> QED  BY <1>1, <1>2 DEF CondOK

\* Behind a branch the cond of a datum tells whether its iteration takes the
\* path it is on (Channel::pushBuffer, pushChannel, Channel::updateDataStatus):
\* also of data whose cond was computed by an earlier channel of the path, and
\* however long the two paths and the latencies of their channels are.
THEOREM CondsFollowPaths ==
    ASSUME BranchNetwork
    PROVE  Spec => []CondOfIteration
<1>1. PlainNetwork
  BY DEF BranchNetwork
<1>2. Init => LoopInv /\ OrderInv /\ CondOK
  BY <1>1, NewFacts, LoopInvInit, OrderInit, CondInit DEF Init, PlainNetwork
<1>3. LoopInv /\ OrderInv /\ CondOK /\ [Next]_vars => (LoopInv /\ OrderInv /\ CondOK)'
  <2>1. SUFFICES ASSUME LoopInv, OrderInv, CondOK, [Next]_vars PROVE (LoopInv /\ OrderInv /\ CondOK)'
    OBVIOUS
  <2>2. CASE Next
    <3>1. StepOK /\ LoopInv'
      BY <1>1, <2>1, <2>2, LoopInvStep DEF PlainNetwork
    <3>2. OrderInv'
      BY <1>1, <2>1, <2>2, OrderStep
    <3>3. RowsOK'
      BY <3>2 DEF OrderInv
    <3> QED  BY <2>1, <2>2, <3>1, <3>2, <3>3, CondStep
  <2>3. CASE UNCHANGED vars
    BY <2>1, <2>3, LoopInvStutter, OrderStutter, CondStutter
  <2> QED  BY <2>1, <2>2, <2>3
<1>4. CondOK => CondOfIteration
  BY DEF CondOK, CondOfIteration, CondIs, branchMode
<1> QED  BY <1>2, <1>3, <1>4, PTL DEF Spec

-----------------------------------------------------------------------------
(* The end of the program. *)

\* What the Lc has counted: between the get() of the loopVar and the Lc's own
\* statement, it has not seen the datum that has just become valid.
Counted(l) == IF pc = MuxAt(l) + 2 THEN chan[loopVar[l]].popped ELSE Sent(loopVar[l])

\* No channel takes more iterations than the loop has, or any if no statement
\* updates it.
BoundedOK(l) ==
    \A c \in DOMAIN Nest : \A i \in Inputs(c) :
        LET taken == chan[c].popped + Len(chan[c].chanBuffer[i])
        IN  /\ taken <= Bound[l]
            /\ taken > 0 => \E n \in DOMAIN Program : c \in Updates(n)

\* The Lc counts every iteration that its loopVar sends.
CountedOK(l) ==
    /\ Counted(l) < Bound[l] => lc[l].loopNum >= Counted(l)
    /\ \A k \in 1 .. Len(lc[l].loopNumQ) : lc[l].loopNumQ[k] >= Bound[l]

\* It counts no datum of getEnd twice.
ReturnedOK(l) ==
    /\ lc[l].loopEnd <= Sent(getEnd[l])
    /\ chan[getEnd[l]].channel # <<>> => chan[getEnd[l]].valid

\* It tells Chan_end only when as many data have come back as the loop has
\* iterations.
EndedOK(l) ==
    chan[sendEnd[l]].chanBuffer[1] # <<>> \/ chan[ChanEnd].chanBuffer[1] # <<>>
        => Sent(getEnd[l]) >= Bound[l]

EndOK(l) ==
    BoundedOK(l) /\ CountedOK(l) /\ ReturnedOK(l) /\ HasTaken(getEnd[l], 1) /\ EndedOK(l)

EndLoop(l, e) == PlainNetwork /\ l \in OuterMost /\ e \in DOMAIN Nest \ Lses /\ EndsWith(l, e)

\* The channels of the loop of such a network, and the order of their updates.
LEMMA EndFacts ==
    ASSUME NEW l, NEW e, EndLoop(l, e)
    PROVE  /\ PlainNetwork /\ l \in Lcs /\ IsLoop(l) /\ Bound[l] \in Nat \ {0}
           /\ e \in DOMAIN Nest \ Lses /\ Upstream[e] # <<>>
           /\ \A c \in DOMAIN Nest : c \in Chans /\ Upstream[c] # <<>> /\ Nest[c][1] = l
           /\ loopVar[l] \in Chans \ Lses /\ Upstream[loopVar[l]] # <<>> /\ Inputs(loopVar[l]) = {1}
           /\ getEnd[l] \in Chans \ Lses /\ Upstream[getEnd[l]] # <<>> /\ Upstream[getEnd[l]][1] = e
           /\ Inputs(getEnd[l]) = {1} /\ Downstream(getEnd[l]) = {} /\ Speedup[getEnd[l]] = 1
           /\ sendEnd[l] \in Chans \ Lses /\ Upstream[sendEnd[l]] = <<>> /\ Inputs(sendEnd[l]) = {1}
           /\ ChanEnd \in Chans /\ Upstream[ChanEnd] # <<>> /\ Upstream[ChanEnd][1] = sendEnd[l]
           /\ Inputs(ChanEnd) = {1}
           /\ getEnd[l] # sendEnd[l] /\ ChanEnd # getEnd[l] /\ ChanEnd # sendEnd[l]
<1>1. /\ PlainNetwork /\ l \in OuterMost /\ e \in DOMAIN Nest /\ e \notin Lses
      /\ loopVar[l] \in DOMAIN Nest /\ \A c \in DOMAIN Nest : Nest[c] = <<l>>
      /\ Upstream[getEnd[l]] = <<e>> /\ Upstream[ChanEnd] = <<sendEnd[l]>>
  BY DEF EndLoop, EndsWith
<1>2. /\ l \in Lcs /\ loopVar[l] \in LoopVars /\ Bound[l] \in Nat \ {0}
      /\ getEnd[l] \in Chans \ Lses /\ sendEnd[l] \in Chans \ Lses /\ ChanEnd \in Chans
      /\ Upstream[loopVar[l]] # <<>> /\ Upstream[sendEnd[l]] = <<>>
      /\ Downstream(getEnd[l]) = {} /\ Speedup[getEnd[l]] = 1
  BY <1>1, LoopAssumption
<1>3. \A c \in DOMAIN Nest : c \in Chans /\ Upstream[c] # <<>> /\ Nest[c][1] = l
  BY <1>1, PlainFacts
<1>4. IsLoop(l)
  <2>1. PICK k \in Lcs : IsLoop(k) /\ loopVar[l] = loopVar[k] /\ Nest[loopVar[l]][1] = k
    BY <1>1, <1>2, PlainFacts
  <2>2. k = l
    BY <1>1, <1>3, <2>1
  <2> QED  BY <2>1, <2>2
<1>5. loopVar[l] \in Chans \ Lses
  BY <1>2, LcStatements
<1>6. Inputs(loopVar[l]) = {1}
  BY <1>4 DEF IsLoop, Inputs
<1>7. Inputs(getEnd[l]) = {1} /\ Inputs(ChanEnd) = {1} /\ Inputs(sendEnd[l]) = {1}
  BY <1>1, <1>2 DEF Inputs
<1>8. /\ Upstream[getEnd[l]] # <<>> /\ Upstream[getEnd[l]][1] = e
      /\ Upstream[ChanEnd] # <<>> /\ Upstream[ChanEnd][1] = sendEnd[l]
  BY <1>1
<1>9. getEnd[l] # sendEnd[l] /\ ChanEnd # sendEnd[l]
  BY <1>2, <1>8
<1>10. ChanEnd # getEnd[l]
  <2>1. e # sendEnd[l]
    BY <1>1, <1>2, <1>3
  <2> QED  BY <1>8, <2>1
<1> QED  BY <1>1, <1>2, <1>3, <1>4, <1>5, <1>6, <1>7, <1>8, <1>9, <1>10

\* A channel that is valid has a datum in every buffer.
LEMMA SentFacts ==
    ASSUME NEW c \in Chans, NEW ch, IsChan(ch, c), NEW i \in Inputs(c)
    PROVE  LET x == IF ch.valid THEN 1 ELSE 0
           IN  /\ x \in {0, 1} /\ ch.popped \in Nat /\ Len(ch.chanBuffer[i]) \in Nat
               /\ x <= Len(ch.chanBuffer[i])
               /\ ch.chanBuffer[i] = <<>> <=> Len(ch.chanBuffer[i]) = 0
<1>1. /\ ch.popped \in Nat /\ Len(ch.chanBuffer[i]) \in Nat
      /\ ch.chanBuffer[i] = <<>> <=> Len(ch.chanBuffer[i]) = 0
  BY BufferType DEF IsChan
<1>2. ch.valid => Len(ch.chanBuffer[i]) # 0
  BY <1>1, ValidFull
<1> QED  BY <1>1, <1>2

\* An update drops the datum that was sent; other statements change nothing of it.
LEMMA SentStep ==
    ASSUME PlainNetwork, LoopInv, LoopInv', StepOK, Next \/ graphUpdate,
           NEW c \in Chans \ Lses, Upstream[c] # <<>>
    PROVE  /\ c \in Now => chan'[c].popped = Sent(c)
           /\ c \notin Now => /\ chan'[c].popped = chan[c].popped /\ chan'[c].valid = chan[c].valid
                              /\ Sent(c)' = Sent(c)
           /\ Sent(c) \in Nat /\ Sent(c)' \in Nat /\ Sent(c)' >= Sent(c)
<1> DEFINE x  == IF chan[c].valid THEN 1 ELSE 0
           x1 == IF chan'[c].valid THEN 1 ELSE 0
           p  == chan[c].popped
           p1 == chan'[c].popped
<1>1. x \in {0, 1} /\ x1 \in {0, 1} /\ p \in Nat /\ p1 \in Nat
  BY InputsFacts, SentFacts DEF LoopInv, NetInv, NetOK
<1>2. Sent(c) = p + x /\ Sent(c)' = p1 + x1
  BY DEF Sent
<1>3. c \in Now => p1 = p + x
  BY UpdateKinds DEF GetStep
<1>4. c \notin Now => p1 = p /\ chan'[c].valid = chan[c].valid /\ x1 = x
  BY DEF StepOK, Same
<1> HIDE DEF x, x1, p, p1
<1>5. /\ c \in Now => p1 = Sent(c)
      /\ c \notin Now => p1 = p /\ Sent(c)' = Sent(c)
      /\ Sent(c) \in Nat /\ Sent(c)' \in Nat /\ Sent(c)' >= Sent(c)
  BY <1>1, <1>2, <1>3, <1>4
<1> QED  BY <1>4, <1>5 DEF p, p1

\* The statement of the loop's Lc updates getEnd and sendEnd, and nothing else
\* does.
LEMMA EndNow ==
    ASSUME NEW l, NEW e, EndLoop(l, e), LoopInv, StepOK
    PROVE  /\ getEnd[l] \in Now <=> pc = MuxAt(l) + 2
           /\ sendEnd[l] \in Now <=> pc = MuxAt(l) + 2
           /\ pc = MuxAt(l) + 2 => loopVar[l] \notin Now /\ ChanEnd \notin Now
           /\ loopVar[l] \in Now <=> pc = MuxAt(l) + 1
           /\ pc' = MuxAt(l) + 2 <=> pc = MuxAt(l) + 1
<1>1. PcOK /\ PcStep /\ l \in Lcs
  BY EndFacts DEF LoopInv, StepOK
<1>2. pc # 0 => pc \in DOMAIN Program
  BY <1>1, ProgramType DEF PcOK
<1>3. (getEnd[l] \in Now <=> pc = MuxAt(l) + 2) /\ (sendEnd[l] \in Now <=> pc = MuxAt(l) + 2)
  BY <1>1, <1>2, LcStatements DEF Now
<1>4. pc = MuxAt(l) + 2 => Now = {getEnd[l], sendEnd[l]}
  BY <1>1, <1>2, LcStatements DEF Now
<1>5. ChanEnd \notin {getEnd[l], sendEnd[l]} /\ loopVar[l] \notin {getEnd[l], sendEnd[l]}
  BY <1>1, EndFacts, LcStatements
<1>6. loopVar[l] \in Now <=> pc = MuxAt(l) + 1
  BY <1>1, LcNow
<1>7. pc' = MuxAt(l) + 2 <=> pc = MuxAt(l) + 1
  <2>1. MuxAt(l) \in Nat \ {0} /\ MuxAt(l) + 2 \in DOMAIN Program
    BY <1>1, LcStatements
  <2> QED  BY <1>1, <2>1, ProgramType DEF PcOK, PcStep
<1> QED  BY <1>3, <1>4, <1>5, <1>6, <1>7

\* No other statement touches what the Lc counts.
LEMMA SameCounts ==
    ASSUME PlainNetwork, LoopInv, Next \/ graphUpdate, NEW l \in Lcs, pc # MuxAt(l) + 2
    PROVE  /\ lc'[l].loopNum = lc[l].loopNum /\ lc'[l].loopNumQ = lc[l].loopNumQ
           /\ lc'[l].loopEnd = lc[l].loopEnd
<1>1. KeepMode = {} /\ DOMAIN chan = Chans /\ NetOK /\ LcOK /\ IndexOK
  BY DEF PlainNetwork, LoopInv, NetInv
<1>2. pc # 0 => pc \in DOMAIN Program
  BY ProgramType DEF LoopInv, PcOK
<1>3. At("mux") \/ At("lc") => Argument \in Lcs
  BY <1>2, StatementKinds DEF At, Argument
<1>4. At("lc") => Argument # l
  BY <1>2, LcStatements DEF At, Argument
<1>5. CASE muxUpdate
  <2> DEFINE k  == Argument
             ok == MuxReady(k)
             st == recordDataStatus(k)
  <2>1. lc' = [lc EXCEPT ![k].muxSuccess = ok, ![k].upstreamDataStatus = st] /\ k \in Lcs
    BY <1>3, <1>5 DEF muxUpdate
  <2>2. lc \in [Lcs -> LcType]
    BY <1>1 DEF LcOK
  <2> HIDE DEF k, ok, st
  <2> QED  BY <2>1, <2>2 DEF LcType
<1>6. CASE lcUpdate
  <2>1. Argument \in Lcs /\ Argument # l
    BY <1>3, <1>4, <1>6 DEF lcUpdate
  <2> QED  BY <1>1, <1>6, <2>1, LcChannels
<1>7. CASE ~muxUpdate /\ ~lcUpdate
  BY <1>7 DEF Next, NextRound, ChannelGet, LseAccepts, LseRefuses, graphUpdate
<1> QED  BY <1>5, <1>6, <1>7

\* No channel takes more than its loop has iterations: the loopVar because of
\* the condition of the loop, the others because their upstreams do not.
LEMMA BoundedStep ==
    ASSUME NEW l, NEW e, EndLoop(l, e), LoopInv, LoopInv', OrderInv', StepOK, Next \/ graphUpdate,
           BoundedOK(l)
    PROVE  BoundedOK(l)'
<1>1. SUFFICES ASSUME NEW c \in DOMAIN Nest, NEW i \in Inputs(c)
               PROVE  LET taken == chan'[c].popped + Len(chan'[c].chanBuffer[i])
                      IN  /\ taken <= Bound[l]
                          /\ taken > 0 => \E n \in DOMAIN Program : c \in Updates(n)
  BY DEF BoundedOK, Updates, Inputs
<1> DEFINE taken  == chan[c].popped + Len(chan[c].chanBuffer[i])
           taken1 == chan'[c].popped + Len(chan'[c].chanBuffer[i])
<1>2. /\ c \in Chans /\ Upstream[c] # <<>> /\ Nest[c][1] = l /\ PlainNetwork
      /\ IsLoop(l) /\ l \in Lcs /\ Bound[l] \in Nat
  BY EndFacts
<1>3. taken <= Bound[l] /\ (taken > 0 => \E n \in DOMAIN Program : c \in Updates(n))
  BY DEF BoundedOK
<1>4. CASE c \notin Now
  <2>1. taken1 = taken
    BY <1>2, <1>4 DEF StepOK, Same, SameBuffer
  <2> QED  BY <1>3, <2>1
<1>5. CASE c \in Now
  <2>1. pc \in DOMAIN Program /\ c \in Updates(pc)
    BY <1>5, ProgramType DEF LoopInv, PcOK, Now
  <2>2. taken1 <= Bound[l]
    <3>1. CASE c \in LoopVars
      <4>1. PICK k \in Lcs : IsLoop(k) /\ c = loopVar[k] /\ Nest[c][1] = k
        BY <1>2, <3>1, PlainFacts
      <4>2. c = loopVar[l] /\ i = 1
        BY <1>2, <4>1, EndFacts
      <4>3. LoopOK(l)'
        BY <1>2 DEF OrderInv, LoopsOK, IsLoop, Downstream, Edge
      <4> QED  BY <4>2, <4>3 DEF LoopOK, Wires
    <3>2. CASE c \notin LoopVars
      <4> DEFINE u == Upstream[c][i]
                 x == IF chan[u].valid THEN 1 ELSE 0
      <4>1. u \in DOMAIN Nest \ Lses /\ u \in Chans /\ Edge(u, c) /\ 1 \in Inputs(u)
        BY <1>2, <3>2, PlainFacts, InputsFacts
      <4>2. u \notin Now
        BY <2>1, <4>1, OneUpdate DEF Now
      <4>3. chan'[u].popped = chan[u].popped /\ chan'[u].valid = chan[u].valid
        BY <4>1, <4>2 DEF StepOK, Same
      <4>4. taken1 = chan'[u].popped + (IF chan'[u].valid /\ ~Due(u, c)' THEN 1 ELSE 0)
        BY <2>1, <3>2 DEF OrderInv, TakenOK, HasTaken, Updates, Inputs
      <4>5. /\ x \in {0, 1} /\ chan[u].popped \in Nat /\ Len(chan[u].chanBuffer[1]) \in Nat
            /\ x <= Len(chan[u].chanBuffer[1])
        BY <4>1, SentFacts DEF LoopInv, NetInv, NetOK
      <4>6. chan[u].popped + Len(chan[u].chanBuffer[1]) <= Bound[l]
        BY <4>1 DEF BoundedOK
      <4>7. taken1 = chan[u].popped \/ taken1 = chan[u].popped + x
        BY <4>3, <4>4, <4>5
      <4> HIDE DEF u, x, taken1
      <4> QED  BY <1>2, <4>5, <4>6, <4>7
    <3> QED  BY <3>1, <3>2
  <2> QED  BY <2>1, <2>2
<1> QED  BY <1>4, <1>5

\* What the Lc makes of its counters when it has run.
LEMMA LcCounts ==
    ASSUME NEW l, NEW e, EndLoop(l, e), LoopInv, LoopInv', OrderInv, StepOK, Next \/ graphUpdate,
           EndOK(l), pc = MuxAt(l) + 2
    PROVE  /\ CountLoop(l).q \in Seq(Nat)
           /\ lc'[l].loopNum = CountLoop(l).n
           /\ lc'[l].loopNumQ = IF LoopIsOver(l) THEN Tail(CountLoop(l).q) ELSE CountLoop(l).q
           /\ lc'[l].loopEnd = IF LoopIsOver(l) THEN 0 ELSE LoopsEnded(l)
           /\ chan'[getEnd[l]] = Got(getEnd[l]) /\ chan'[sendEnd[l]] = sendEndUpdate(l)
           /\ \A k \in 1 .. Len(CountLoop(l).q) : CountLoop(l).q[k] >= Bound[l]
           /\ Counted(l)' < Bound[l] => CountLoop(l).n >= Counted(l)'
<1> DEFINE v == chan[loopVar[l]]
           x == IF v.valid THEN 1 ELSE 0
           p == v.popped
           m == lc[l].loopNum + 1
           q == lc[l].loopNumQ
<1>1. /\ PlainNetwork /\ KeepMode = {} /\ DOMAIN chan = Chans /\ NetOK /\ LcOK /\ IndexOK
      /\ PcOK /\ PcStep /\ l \in Lcs
      /\ IsLoop(l) /\ Bound[l] \in Nat /\ getEnd[l] # sendEnd[l]
      /\ loopVar[l] \in Chans /\ Inputs(loopVar[l]) = {1} /\ IsChan(v, loopVar[l])
  BY EndFacts DEF PlainNetwork, LoopInv, NetInv, NetOK, StepOK
<1>2. lcUpdate /\ Argument = l
  BY <1>1, LcActions
<1>3. /\ CountLoop(l).q \in Seq(Nat)
      /\ lc'[l].loopNum = CountLoop(l).n
      /\ lc'[l].loopNumQ = IF LoopIsOver(l) THEN Tail(CountLoop(l).q) ELSE CountLoop(l).q
      /\ lc'[l].loopEnd = IF LoopIsOver(l) THEN 0 ELSE LoopsEnded(l)
      /\ chan'[getEnd[l]] = Got(getEnd[l]) /\ chan'[sendEnd[l]] = sendEndUpdate(l)
  BY <1>1, <1>2, LcChannels
<1>4. /\ x \in {0, 1} /\ p \in Nat /\ lc[l].loopNum \in Nat /\ q \in Seq(Nat) /\ Len(q) \in Nat
  BY <1>1, SentFacts, LcFields, LenProperties
<1>5. Counted(l) = p
  BY DEF Counted
<1>6. Counted(l)' = p + x
  <2>1. loopVar[l] \notin Now /\ pc' # MuxAt(l) + 2
    BY <1>1, EndNow, LcStatements
  <2>2. chan'[loopVar[l]].popped = p /\ chan'[loopVar[l]].valid = v.valid
    BY <1>1, <2>1 DEF StepOK, Same
  <2>3. (pc' = MuxAt(l)' + 2) <=> (pc' = MuxAt(l) + 2)
    BY DEF MuxAt
  <2> QED  BY <2>1, <2>2, <2>3 DEF Counted, Sent
<1>7. /\ p < Bound[l] => lc[l].loopNum >= p
      /\ \A k \in 1 .. Len(q) : q[k] >= Bound[l]
  BY <1>5 DEF EndOK, CountedOK
<1>8. v.valid => (selUpdate(l) <=> p + 1 < Bound[l]) /\ p < Bound[l]
  <2>1. SUFFICES ASSUME v.valid PROVE (selUpdate(l) <=> p + 1 < Bound[l]) /\ p < Bound[l]
    OBVIOUS
  <2>2. v.channel # <<>> /\ v.chanBuffer[1] # <<>> /\ 1 \in 1 .. Len(v.chanBuffer[1])
    BY <1>1, <2>1, ValidFull, BufferType DEF IsChan
  <2>3. v.chanBuffer[1][1].value = {<<l, p + 1 - 1>>}
    BY <1>1, <2>2, EndFacts DEF OrderInv, RowsOK, IsLoop
  <2>4. p + 1 - 1 = p
    BY <1>4
  <2>5. LoopIndex(l) = p
    BY <1>1, <1>4, <2>2, <2>3, <2>4, LoopIndexFacts
  <2>6. selUpdate(l) <=> p + 1 < Bound[l]
    BY <2>2, <2>5 DEF selUpdate, NewSel
  <2>7. p + Len(v.chanBuffer[1]) <= Bound[l] /\ Len(v.chanBuffer[1]) > 0
    <3>1. loopVar[l] \in DOMAIN Nest /\ 1 \in Inputs(loopVar[l])
      BY <1>1 DEF IsLoop
    <3>2. p + Len(v.chanBuffer[1]) <= Bound[l]
      BY <3>1 DEF EndOK, BoundedOK
    <3> QED  BY <2>2, <3>2, <1>1, BufferType DEF IsChan
  <2>8. Len(v.chanBuffer[1]) \in Nat
    BY <1>1, BufferType DEF IsChan
  <2> QED  BY <1>1, <1>4, <2>6, <2>7, <2>8
<1> HIDE DEF v, x, p, m
<1>9. CASE v.valid /\ selUpdate(l)
  <2>1. CountLoop(l).q = q /\ CountLoop(l).n = m
    BY <1>9 DEF CountLoop, v, m
  <2>2. x = 1 /\ m = lc[l].loopNum + 1
    BY <1>9 DEF x, m
  <2> HIDE DEF q
  <2> QED  BY <1>1, <1>3, <1>4, <1>6, <1>7, <1>8, <1>9, <2>1, <2>2
<1>10. CASE v.valid /\ ~selUpdate(l)
  <2>1. CountLoop(l).q = Append(q, m) /\ CountLoop(l).n = 0
    BY <1>10 DEF CountLoop, v, m
  <2>2. x = 1 /\ m = lc[l].loopNum + 1
    BY <1>10 DEF x, m
  <2> HIDE DEF q
  <2>3. m \in Nat /\ m >= Bound[l] /\ ~(p + x < Bound[l])
    BY <1>1, <1>4, <1>7, <1>8, <1>10, <2>2
  <2>4. /\ Len(Append(q, m)) = Len(q) + 1 /\ Append(q, m)[Len(q) + 1] = m
        /\ \A k \in 1 .. Len(q) : Append(q, m)[k] = q[k]
    BY <1>4, <2>3, AppendProperties
  <2>5. ASSUME NEW k \in 1 .. Len(Append(q, m))
        PROVE  Append(q, m)[k] >= Bound[l]
    BY <1>4, <1>7, <2>3, <2>4
  <2> QED  BY <1>3, <1>6, <2>1, <2>3, <2>5
<1>11. CASE ~v.valid
  <2>1. CountLoop(l).q = q /\ CountLoop(l).n = lc[l].loopNum
    BY <1>11 DEF CountLoop, v
  <2>2. x = 0
    BY <1>11 DEF x
  <2> HIDE DEF q
  <2> QED  BY <1>1, <1>3, <1>4, <1>6, <1>7, <2>1, <2>2
<1> QED  BY <1>9, <1>10, <1>11

\* The Lc counts what its loopVar sends.
LEMMA CountedStep ==
    ASSUME NEW l, NEW e, EndLoop(l, e), LoopInv, LoopInv', OrderInv, StepOK, Next \/ graphUpdate, EndOK(l)
    PROVE  CountedOK(l)'
<1>1. /\ PlainNetwork /\ l \in Lcs /\ loopVar[l] \in Chans \ Lses /\ Upstream[loopVar[l]] # <<>>
      /\ Bound[l] \in Nat
  BY EndFacts
<1>2. /\ Counted(l) < Bound[l] => lc[l].loopNum >= Counted(l)
      /\ \A k \in 1 .. Len(lc[l].loopNumQ) : lc[l].loopNumQ[k] >= Bound[l]
  BY DEF EndOK, CountedOK
<1>3. (pc' = MuxAt(l)' + 2) <=> (pc' = MuxAt(l) + 2)
  BY DEF MuxAt
<1>4. CASE pc = MuxAt(l) + 2
  <2> DEFINE q  == CountLoop(l).q
             q1 == lc'[l].loopNumQ
  <2>1. /\ q \in Seq(Nat) /\ lc'[l].loopNum = CountLoop(l).n
        /\ q1 = IF LoopIsOver(l) THEN Tail(q) ELSE q
        /\ \A k \in 1 .. Len(q) : q[k] >= Bound[l]
        /\ Counted(l)' < Bound[l] => CountLoop(l).n >= Counted(l)'
    BY <1>4, LcCounts
  <2>2. LoopIsOver(l) => q # <<>>
    BY DEF LoopIsOver
  <2> HIDE DEF q, q1
  <2>3. ASSUME NEW k \in 1 .. Len(q1)
        PROVE  q1[k] >= Bound[l]
    <3>1. CASE LoopIsOver(l)
      <4>1. q1 = Tail(q) /\ q # <<>>
        BY <2>1, <2>2, <3>1
      <4>2. Len(q1) = Len(q) - 1 /\ Len(q) \in Nat /\ q1[k] = q[k + 1]
        BY <2>1, <2>3, <4>1, TailFacts
      <4>3. k + 1 \in 1 .. Len(q)
        BY <2>3, <4>2
      <4> QED  BY <2>1, <4>2, <4>3
    <3>2. CASE ~LoopIsOver(l)
      BY <2>1, <2>3, <3>2
    <3> QED  BY <3>1, <3>2
  <2> QED  BY <2>1, <2>3 DEF CountedOK, q1
<1>5. CASE pc # MuxAt(l) + 2
  <2>1. lc'[l].loopNum = lc[l].loopNum /\ lc'[l].loopNumQ = lc[l].loopNumQ
    BY <1>1, <1>5, SameCounts
  <2>2. Counted(l)' = Counted(l)
    <3>1. Counted(l) = Sent(loopVar[l])
      BY <1>5 DEF Counted
    <3>2. CASE pc = MuxAt(l) + 1
      <4>1. loopVar[l] \in Now /\ pc' = MuxAt(l) + 2
        BY <3>2, EndNow
      <4>2. chan'[loopVar[l]].popped = Sent(loopVar[l])
        BY <1>1, <4>1, SentStep
      <4> QED  BY <1>3, <3>1, <4>1, <4>2 DEF Counted
    <3>3. CASE pc # MuxAt(l) + 1
      <4>1. loopVar[l] \notin Now /\ pc' # MuxAt(l) + 2
        BY <3>3, EndNow
      <4>2. Sent(loopVar[l])' = Sent(loopVar[l])
        BY <1>1, <4>1, SentStep
      <4> QED  BY <1>3, <3>1, <4>1, <4>2 DEF Counted
    <3> QED  BY <3>2, <3>3
  <2> QED  BY <1>2, <2>1, <2>2 DEF CountedOK
<1> QED  BY <1>4, <1>5

\* A datum that the Lc counts is one that getEnd gives up in the next round.
LEMMA EndedBound ==
    ASSUME NEW l, NEW e, EndLoop(l, e), LoopInv, LoopInv', OrderInv, StepOK, Next \/ graphUpdate,
           EndOK(l), pc = MuxAt(l) + 2
    PROVE  /\ LoopsEnded(l) \in Nat /\ LoopsEnded(l) <= Sent(getEnd[l])'
           /\ chan'[getEnd[l]].channel # <<>> => chan'[getEnd[l]].valid
<1> DEFINE g  == getEnd[l]
           x1 == IF chan'[g].valid THEN 1 ELSE 0
           y1 == IF Got(g).channel # <<>> THEN 1 ELSE 0
<1>1. /\ PlainNetwork /\ KeepMode = {} /\ NetOK /\ l \in Lcs /\ g \in Chans \ Lses /\ Upstream[g] # <<>>
      /\ Downstream(g) = {} /\ Speedup[g] = 1 /\ LcOK
  BY EndFacts DEF PlainNetwork, LoopInv, NetInv
<1>2. chan'[g] = Got(g)
  BY LcCounts
<1>3. GetStep(g, chan[g], chan'[g])
  BY <1>1, <1>2, GotFacts
<1>4. chan[g].enable
  <2>1. g \notin DGSF
    BY <1>1 DEF PlainNetwork
  <2> QED  BY <1>1, <2>1 DEF NetOK, IsChan, IsRec, ChanType, Gate
<1>5. chan'[g].valid <=> chan'[g].channel # <<>>
  BY <1>1, <1>3, <1>4 DEF GetStep
<1>6. x1 = y1 /\ x1 \in {0, 1}
  BY <1>2, <1>5
<1>7. Sent(g)' = Sent(g) + x1
  <2>1. g \in Now
    BY EndNow
  <2>2. chan'[g].popped = Sent(g)
    BY <1>1, <2>1, SentStep
  <2> QED  BY <2>2 DEF Sent
<1>8. Sent(g) \in Nat /\ lc[l].loopEnd \in Nat
  BY <1>1, SentStep, LcFields
<1>9. lc[l].loopEnd <= Sent(g)
  BY DEF EndOK, ReturnedOK
<1>10. LoopsEnded(l) = lc[l].loopEnd + y1
  BY DEF LoopsEnded
<1> HIDE DEF x1, y1
<1>11. LoopsEnded(l) \in Nat /\ LoopsEnded(l) <= Sent(g)'
  BY <1>6, <1>7, <1>8, <1>9, <1>10
<1> QED  BY <1>5, <1>11

\* The Lc counts no datum twice.
LEMMA ReturnedStep ==
    ASSUME NEW l, NEW e, EndLoop(l, e), LoopInv, LoopInv', OrderInv, StepOK, Next \/ graphUpdate, EndOK(l)
    PROVE  ReturnedOK(l)'
<1>1. /\ PlainNetwork /\ l \in Lcs /\ getEnd[l] \in Chans \ Lses /\ Upstream[getEnd[l]] # <<>>
  BY EndFacts
<1>2. lc[l].loopEnd <= Sent(getEnd[l]) /\ (chan[getEnd[l]].channel # <<>> => chan[getEnd[l]].valid)
  BY DEF EndOK, ReturnedOK
<1>3. CASE pc = MuxAt(l) + 2
  <2>1. lc'[l].loopEnd = 0 \/ lc'[l].loopEnd = LoopsEnded(l)
    BY <1>3, LcCounts
  <2>2. LoopsEnded(l) <= Sent(getEnd[l])' /\ (chan'[getEnd[l]].channel # <<>> => chan'[getEnd[l]].valid)
    BY <1>3, EndedBound
  <2>3. Sent(getEnd[l])' \in Nat
    BY <1>1, SentStep
  <2> QED  BY <2>1, <2>2, <2>3 DEF ReturnedOK
<1>4. CASE pc # MuxAt(l) + 2
  <2>1. getEnd[l] \notin Now
    BY <1>4, EndNow
  <2>2. lc'[l].loopEnd = lc[l].loopEnd
    BY <1>1, <1>4, SameCounts
  <2>3. Sent(getEnd[l])' = Sent(getEnd[l]) /\ chan'[getEnd[l]].valid = chan[getEnd[l]].valid
    BY <1>1, <2>1, SentStep
  <2>4. chan'[getEnd[l]].channel # <<>> => chan[getEnd[l]].channel # <<>>
    <3>1. Same(getEnd[l], chan'[getEnd[l]], chan[getEnd[l]]) /\ IsChan(chan[getEnd[l]], getEnd[l])
      BY <1>1, <2>1 DEF StepOK, LoopInv, NetInv, NetOK
    <3> QED  BY <1>1, <3>1, SameLoop
  <2> QED  BY <1>2, <2>2, <2>3, <2>4 DEF ReturnedOK
<1> QED  BY <1>3, <1>4

\* A channel that its statement did not update has no more data than before.
LEMMA SameEmpty ==
    ASSUME NetOK, NetOK', StepOK, NEW c \in Chans, c \notin Now
    PROVE  chan'[c].chanBuffer[1] # <<>> => chan[c].chanBuffer[1] # <<>>
<1>1. Same(c, chan'[c], chan[c]) /\ IsChan(chan[c], c) /\ IsChan(chan'[c], c) /\ 1 \in Inputs(c)
  BY InputsFacts DEF StepOK, NetOK
<1>2. Len(chan'[c].chanBuffer[1]) = Len(chan[c].chanBuffer[1])
  BY <1>1, SameLoop
<1> QED  BY <1>1, <1>2, SentFacts

\* The end is told when all data have come back, and is not forgotten or told
\* before.
LEMMA EndedStep ==
    ASSUME NEW l, NEW e, EndLoop(l, e), LoopInv, LoopInv', OrderInv, StepOK, Next \/ graphUpdate, EndOK(l)
    PROVE  EndedOK(l)'
<1> DEFINE s == sendEnd[l]
           g == getEnd[l]
<1>1. /\ PlainNetwork /\ KeepMode = {} /\ l \in Lcs /\ Bound[l] \in Nat
      /\ g \in Chans \ Lses /\ Upstream[g] # <<>>
      /\ s \in Chans /\ Inputs(s) = {1}
      /\ ChanEnd \in Chans /\ Upstream[ChanEnd] # <<>> /\ Inputs(ChanEnd) = {1} /\ Upstream[ChanEnd][1] = s
      /\ NetOK /\ NetOK'
  BY EndFacts DEF PlainNetwork, LoopInv, NetInv
<1>2. Sent(g) \in Nat /\ Sent(g)' \in Nat /\ Sent(g)' >= Sent(g)
  BY <1>1, SentStep
<1>3. chan[s].chanBuffer[1] # <<>> \/ chan[ChanEnd].chanBuffer[1] # <<>> => Sent(g) >= Bound[l]
  BY DEF EndOK, EndedOK
<1>4. SUFFICES ASSUME chan'[s].chanBuffer[1] # <<>> \/ chan'[ChanEnd].chanBuffer[1] # <<>>
               PROVE  Sent(g)' >= Bound[l]
  BY DEF EndedOK
<1>5. CASE chan[s].chanBuffer[1] # <<>> \/ chan[ChanEnd].chanBuffer[1] # <<>>
  BY <1>1, <1>2, <1>3, <1>5
<1>6. CASE chan[s].chanBuffer[1] = <<>> /\ chan[ChanEnd].chanBuffer[1] = <<>>
  <2>1. ~chan[s].valid
    BY <1>1, <1>6, ValidFull DEF NetOK
  <2>2. chan'[ChanEnd].chanBuffer[1] = <<>>
    <3>1. CASE ChanEnd \in Now
      <4> DEFINE new == chan'[ChanEnd].chanBuffer[1]
                 old == chan[ChanEnd].chanBuffer[1]
      <4>1. PICK x : Taking(ChanEnd, x)
        BY <1>1, <3>1, UpdateTaking
      <4>2. x \in {0, 1} /\ Len(new) + x = Len(old) + 0
        BY <1>1, <2>1, <4>1 DEF Taking
      <4>3. Len(old) = 0 /\ Len(new) \in Nat /\ (new = <<>> <=> Len(new) = 0)
        BY <1>1, <1>6, SentFacts DEF NetOK
      <4> HIDE DEF new, old
      <4>4. new = <<>>
        BY <4>2, <4>3
      <4> QED  BY <4>4 DEF new
    <3>2. CASE ChanEnd \notin Now
      BY <1>1, <1>6, <3>2, SameEmpty
    <3> QED  BY <3>1, <3>2
  <2>3. chan'[s].chanBuffer[1] # <<>>
    BY <1>4, <2>2
  <2>4. s \in Now /\ pc = MuxAt(l) + 2
    BY <1>1, <1>6, <2>3, SameEmpty, EndNow
  <2>5. chan'[s] = sendEndUpdate(l)
    BY <2>4, LcCounts
  <2>6. LoopIsOver(l)
    BY <1>6, <2>1, <2>3, <2>5 DEF sendEndUpdate
  <2> DEFINE q == CountLoop(l).q
  <2>7. q \in Seq(Nat) /\ \A k \in 1 .. Len(q) : q[k] >= Bound[l]
    BY <2>4, LcCounts
  <2>8. q # <<>> /\ LoopsEnded(l) = q[1]
    BY <2>6 DEF LoopIsOver
  <2> HIDE DEF q
  <2>9. 1 \in 1 .. Len(q) /\ q[1] \in Nat
    BY <2>7, <2>8, TailFacts
  <2>10. LoopsEnded(l) <= Sent(g)'
    BY <2>4, EndedBound
  <2> QED  BY <1>1, <1>2, <2>7, <2>8, <2>9, <2>10
<1> QED  BY <1>5, <1>6

\* Every step keeps the end of the program in order.
LEMMA EndStep ==
    ASSUME NEW l, NEW e, EndLoop(l, e), LoopInv, OrderInv, Next \/ graphUpdate, EndOK(l)
    PROVE  EndOK(l)'
<1>1. PlainNetwork
  BY EndFacts
<1>2. StepOK /\ LoopInv' /\ OrderInv'
  BY <1>1, LoopInvStep, OrderStep DEF PlainNetwork
<1>3. BoundedOK(l)'
  BY <1>2, BoundedStep DEF EndOK
<1>4. CountedOK(l)' /\ ReturnedOK(l)' /\ EndedOK(l)'
  BY <1>2, CountedStep, ReturnedStep, EndedStep
<1>5. HasTaken(getEnd[l], 1)'
  <2>1. /\ getEnd[l] \in Chans /\ Upstream[getEnd[l]] # <<>> /\ 1 \in Inputs(getEnd[l]) /\ l \in Lcs
        /\ Upstream[getEnd[l]][1] \in DOMAIN Nest \ Lses
    BY EndFacts
  <2>2. MuxAt(l) + 2 \in DOMAIN Program /\ getEnd[l] \in Updates(MuxAt(l) + 2)
    BY <2>1, LcStatements
  <2>3. HasTaken(getEnd[l], 1)
    BY DEF EndOK
  <2> QED  BY <1>1, <1>2, <2>1, <2>2, <2>3, TakenEdge
<1> QED  BY <1>3, <1>4, <1>5 DEF EndOK

\* So does a stuttering step.
LEMMA EndStutter ==
    ASSUME NEW l, EndOK(l), UNCHANGED vars
    PROVE  EndOK(l)'
<1>1. chan' = chan /\ lc' = lc /\ pc' = pc
  BY DEF vars
<1>2. \A c, d : Due(c, d)' <=> Due(c, d)
  BY <1>1 DEF Due, Fresh, Updates
<1>3. BoundedOK(l)'
  BY <1>1 DEF EndOK, BoundedOK, Inputs, Updates
<1>4. CountedOK(l)' /\ ReturnedOK(l)' /\ EndedOK(l)'
  BY <1>1 DEF EndOK, CountedOK, ReturnedOK, EndedOK, Counted, Sent, MuxAt
<1>5. HasTaken(getEnd[l], 1)'
  BY <1>1, <1>2 DEF EndOK, HasTaken
<1> QED  BY <1>3, <1>4, <1>5 DEF EndOK

\* At first nothing is sent, counted or told.
LEMMA EndInit ==
    ASSUME NEW l, NEW e, EndLoop(l, e), LoopInv, NEW net, NewNet(net), InitWith(net)
    PROVE  EndOK(l)
<1>1. /\ PlainNetwork /\ l \in Lcs /\ Bound[l] \in Nat \ {0} /\ getEnd[l] \in Chans /\ sendEnd[l] \in Chans
      /\ loopVar[l] \in Chans /\ ChanEnd \in Chans /\ e \in Chans
      /\ \A c \in DOMAIN Nest : c \in Chans
      /\ Upstream[getEnd[l]][1] = e
      /\ 1 \in Inputs(getEnd[l]) /\ 1 \in Inputs(sendEnd[l]) /\ 1 \in Inputs(ChanEnd)
  BY EndFacts
<1>2. /\ \A c \in Chans : /\ chan[c].channel = <<>> /\ chan[c].valid = FALSE /\ chan[c].popped = 0
                          /\ \A i \in Inputs(c) : chan[c].chanBuffer[i] = <<>>
      /\ lc[l].loopNum = 0 /\ lc[l].loopNumQ = <<>> /\ lc[l].loopEnd = 0
  BY <1>1 DEF InitWith, NewNet, NewLc, ChanType
<1>3. \A c \in Chans : Sent(c) = 0
  BY <1>2 DEF Sent
<1>4. BoundedOK(l)
  BY <1>1, <1>2 DEF BoundedOK
<1>5. Counted(l) = 0
  BY <1>1, <1>2, <1>3 DEF Counted
<1>6. CountedOK(l) /\ ReturnedOK(l) /\ EndedOK(l)
  BY <1>1, <1>2, <1>3, <1>5 DEF CountedOK, ReturnedOK, EndedOK
<1>7. HasTaken(getEnd[l], 1)
  BY <1>1, <1>2 DEF HasTaken
<1> QED  BY <1>4, <1>6, <1>7 DEF EndOK

\* When Chan_end has its datum, the channel that getEnd reads has sent as many
\* data as the loop has iterations, and so has every channel that feeds it.
LEMMA EndShown ==
    ASSUME NEW l, NEW e, EndLoop(l, e), LoopInv, OrderInv, EndOK(l), Finished
    PROVE  \A c \in DOMAIN Nest \ Lses : Sent(c) = Iterations(c)
<1> DEFINE b == Bound[l]
           g == getEnd[l]
           S == {c \in DOMAIN Nest \ Lses : Sent(c) >= b}
<1>1. /\ PlainNetwork /\ b \in Nat \ {0} /\ NetOK
      /\ e \in DOMAIN Nest \ Lses
      /\ \A c \in DOMAIN Nest : c \in Chans /\ Upstream[c] # <<>> /\ Nest[c] = <<l>>
      /\ g \in Chans /\ 1 \in Inputs(g) /\ Upstream[g][1] = e
      /\ ChanEnd \in Chans /\ 1 \in Inputs(ChanEnd)
      /\ FedByAll(e)
  BY EndFacts DEF EndLoop, EndsWith, LoopInv, NetInv
<1>2. Sent(g) >= b
  <2>1. chan[ChanEnd].chanBuffer[1] # <<>>
    BY <1>1, LoopChannel DEF Finished, NetOK
  <2> QED  BY <2>1 DEF EndOK, EndedOK
<1>3. ASSUME NEW c \in Chans, NEW i \in Inputs(c)
      PROVE  /\ Sent(c) \in Nat /\ Len(chan[c].chanBuffer[i]) \in Nat /\ chan[c].popped \in Nat
             /\ Sent(c) <= chan[c].popped + Len(chan[c].chanBuffer[i])
  <2> DEFINE x == IF chan[c].valid THEN 1 ELSE 0
  <2>1. /\ x \in {0, 1} /\ x <= Len(chan[c].chanBuffer[i]) /\ Len(chan[c].chanBuffer[i]) \in Nat
        /\ chan[c].popped \in Nat
    BY <1>1, <1>3, SentFacts DEF NetOK
  <2>2. Sent(c) = chan[c].popped + x
    BY DEF Sent
  <2> HIDE DEF x
  <2> QED  BY <2>1, <2>2
<1>4. ASSUME NEW c \in Chans, NEW i \in Inputs(c), HasTaken(c, i), Upstream[c][i] \in DOMAIN Nest,
             Sent(c) >= b
      PROVE  Sent(Upstream[c][i]) >= b
  <2> DEFINE u == Upstream[c][i]
             x == IF chan[u].valid THEN 1 ELSE 0
             y == IF chan[u].valid /\ ~Due(u, c) THEN 1 ELSE 0
  <2>1. u \in Chans /\ 1 \in Inputs(u)
    BY <1>1, <1>4, InputsFacts
  <2>2. y <= x /\ x \in {0, 1} /\ y \in {0, 1} /\ Sent(u) = chan[u].popped + x
    BY DEF Sent
  <2>3. chan[c].popped + Len(chan[c].chanBuffer[i]) = chan[u].popped + y
    BY <1>4 DEF HasTaken
  <2>4. Sent(c) <= chan[c].popped + Len(chan[c].chanBuffer[i]) /\ Sent(c) \in Nat
        /\ chan[u].popped \in Nat
    BY <1>3, <1>4, <2>1
  <2> HIDE DEF u, x, y
  <2>5. Sent(u) >= b
    BY <1>1, <1>4, <2>2, <2>3, <2>4
  <2> QED  BY <2>5 DEF u
<1>5. e \in S
  <2>1. HasTaken(g, 1)
    BY DEF EndOK
  <2> QED  BY <1>1, <1>2, <1>4, <2>1
<1>6. ASSUME NEW c \in S \ LoopVars, NEW i \in Inputs(c)
      PROVE  Upstream[c][i] \in S
  <2>1. c \in DOMAIN Nest /\ c \in Chans /\ Sent(c) >= b /\ Upstream[c][i] \in DOMAIN Nest \ Lses
    BY <1>1, <1>6, PlainFacts
  <2>2. \E n \in DOMAIN Program : c \in Updates(n)
    <3>1. /\ Sent(c) \in Nat /\ Len(chan[c].chanBuffer[i]) \in Nat /\ chan[c].popped \in Nat
          /\ Sent(c) <= chan[c].popped + Len(chan[c].chanBuffer[i])
      BY <1>3, <1>6, <2>1
    <3>2. chan[c].popped + Len(chan[c].chanBuffer[i]) > 0
      BY <1>1, <2>1, <3>1
    <3> QED  BY <1>6, <2>1, <3>2 DEF EndOK, BoundedOK
  <2>3. HasTaken(c, i)
    BY <1>6, <2>1, <2>2 DEF OrderInv, TakenOK
  <2>4. Sent(Upstream[c][i]) >= b
    BY <1>4, <1>6, <2>1, <2>3
  <2> QED  BY <2>1, <2>4
<1>7. S = DOMAIN Nest \ Lses
  <2>1. S \in SUBSET (DOMAIN Nest \ Lses)
    OBVIOUS
  <2> HIDE DEF S
  <2> QED  BY <1>1, <1>5, <1>6, <2>1 DEF FedByAll
<1>8. ASSUME NEW c \in DOMAIN Nest \ Lses
      PROVE  Sent(c) = Iterations(c)
  <2>1. c \in Chans /\ 1 \in Inputs(c) /\ Nest[c] = <<l>>
    BY <1>1, InputsFacts
  <2>2. Sent(c) >= b
    BY <1>7
  <2>3. chan[c].popped + Len(chan[c].chanBuffer[1]) <= b
    BY <2>1 DEF EndOK, BoundedOK
  <2>4. Iterations(c) = b
    BY <2>1 DEF Iterations
  <2>5. /\ Sent(c) \in Nat /\ Len(chan[c].chanBuffer[1]) \in Nat /\ chan[c].popped \in Nat
        /\ Sent(c) <= chan[c].popped + Len(chan[c].chanBuffer[1])
    BY <1>3, <2>1
  <2> HIDE DEF b
  <2> QED  BY <1>1, <2>2, <2>3, <2>4, <2>5
<1> QED  BY <1>8

\* When Chan_end gets its datum, every iteration has left every channel that is
\* not a Lse: the counters loopNumQ and loopEnd of Lc::loopUpdate miss no datum
\* and count none twice, and sendEnd says so not too early, whatever is in the
\* body of the loop, its latencies, the sizes of its buffers, the bound of the
\* loop and the order of the channels in the main loop.
THEOREM EndMeansAllDone ==
    ASSUME EndNetwork
    PROVE  Spec => []EndMeansDone
<1>1. PICK l \in OuterMost, e \in DOMAIN Nest \ Lses : EndLoop(l, e)
  BY DEF EndNetwork, EndLoop
<1>2. PlainNetwork
  BY DEF EndNetwork
<1>3. Init => LoopInv /\ OrderInv /\ EndOK(l)
  BY <1>1, <1>2, NewFacts, LoopInvInit, OrderInit, EndInit DEF Init, PlainNetwork
<1>4. LoopInv /\ OrderInv /\ EndOK(l) /\ [Next]_vars => (LoopInv /\ OrderInv /\ EndOK(l))'
  BY <1>1, <1>2, LoopInvStep, LoopInvStutter, OrderStep, OrderStutter, EndStep, EndStutter DEF PlainNetwork
<1>5. LoopInv /\ OrderInv /\ EndOK(l) => EndMeansDone
  BY <1>1, EndShown DEF EndMeansDone
<1> QED  BY <1>3, <1>4, <1>5, PTL DEF Spec

=============================================================================
