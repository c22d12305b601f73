------------------------- MODULE PlaySessionProofs -------------------------
(***************************************************************************)
(* Proofs about one stream's media path: its type invariant, and that no   *)
(* client is ever given audio of another stretch of playing or audio       *)
(* spliced over a gap, for every number of clients, every queue depth,     *)
(* every period and frame length and both stages.                          *)
(***************************************************************************)
EXTENDS PlaySession, SequenceTheorems, TLAPS

-----------------------------------------------------------------------------
(* Samples *)

\* Samples(n, len) is a sequence of len positions.
LEMMA SamplesType ==
    ASSUME NEW n \in Nat, NEW len \in Nat
    PROVE  /\ Samples(n, len) \in Seq(Nat)
           /\ Len(Samples(n, len)) = len
           /\ \A i \in 1 .. len : Samples(n, len)[i] = n + i - 1
<1>1. Samples(n, len) \in [1 .. len -> Nat]
  BY DEF Samples
<1> QED
  BY <1>1, SeqDef, LenProperties DEF Samples

\* Two runs of positions, the second starting where the first ends.
LEMMA RunConcat ==
    ASSUME NEW n \in Nat, NEW a \in Nat, NEW b \in Nat,
           NEW u \in Seq(Nat), NEW v \in Seq(Nat), NEW w \in Seq(Nat),
           Len(u) = a, Len(v) = b, Len(w) = a + b,
           \A i \in 1 .. a : u[i] = n + i - 1,
           \A i \in 1 .. b : v[i] = (n + a) + i - 1,
           \A i \in 1 .. a + b : w[i] = n + i - 1
    PROVE  u \o v = w
<1>1. /\ u \o v \in Seq(Nat)
      /\ Len(u \o v) = a + b
      /\ \A i \in 1 .. a + b : (u \o v)[i] = IF i <= a THEN u[i] ELSE v[i - a]
  BY ConcatProperties
<1>2. ASSUME NEW i \in 1 .. a + b PROVE (u \o v)[i] = w[i]
  <2>1. CASE i <= a
    BY <1>1, <2>1
  <2>2. CASE ~(i <= a)
    <3>1. i - a \in 1 .. b
      BY <2>2
    <3> QED
      BY <1>1, <2>2, <3>1
  <2> QED
    BY <2>1, <2>2
<1> QED
  BY <1>1, <1>2, SeqEqual

\* Audio captured right after a run of samples extends the run: this is what
\* the Opus accumulator relies on.
LEMMA SamplesConcat ==
    ASSUME NEW n \in Nat, NEW a \in Nat, NEW b \in Nat
    PROVE  Samples(n, a) \o Samples(n + a, b) = Samples(n, a + b)
<1>1. n + a \in Nat /\ a + b \in Nat
  OBVIOUS
<1>2. PICK u \in Seq(Nat) : /\ u = Samples(n, a) /\ Len(u) = a
                            /\ \A i \in 1 .. a : u[i] = n + i - 1
  BY SamplesType
<1>3. PICK v \in Seq(Nat) : /\ v = Samples(n + a, b) /\ Len(v) = b
                            /\ \A i \in 1 .. b : v[i] = (n + a) + i - 1
  BY <1>1, SamplesType
<1>4. PICK w \in Seq(Nat) : /\ w = Samples(n, a + b) /\ Len(w) = a + b
                            /\ \A i \in 1 .. a + b : w[i] = n + i - 1
  BY <1>1, SamplesType
<1>5. /\ Len(u) = a /\ Len(v) = b /\ Len(w) = a + b
      /\ \A i \in 1 .. a : u[i] = n + i - 1
      /\ \A i \in 1 .. b : v[i] = (n + a) + i - 1
      /\ \A i \in 1 .. a + b : w[i] = n + i - 1
  BY <1>2, <1>3, <1>4
<1>6. u \o v = w
  BY <1>5, RunConcat
<1> QED
  BY <1>2, <1>3, <1>4, <1>6

-----------------------------------------------------------------------------
(* Types *)

\* An empty accumulator.
LEMMA EmptyAcc == <<>> \in Seq(Nat) /\ Len(<<>>) = 0 /\ 0 <= FrameLen
  BY SizesAssumption

\* The records the model is built from.
LEMMA RecordTypes ==
    /\ NoPeriod \in Period /\ NoFrame \in Frame
    /\ \A p \in Period : p.pos \in Nat /\ p.frames \in Nat /\ p.session \in Nat
    /\ \A n, m, e \in Nat : [pos |-> n, frames |-> m, session |-> e] \in Period
    /\ \A p \in Period, e \in Nat : [p EXCEPT !.session = e] \in Period
    /\ \A f \in Frame : /\ f.pos \in Nat /\ f.session \in Nat /\ f.run \in Nat
                        /\ f.samples \in Seq(Nat)
    /\ \A n, e, r \in Nat : \A u \in Seq(Nat) :
          [pos |-> n, session |-> e, samples |-> u, run |-> r] \in Frame
    /\ \A n, e, r, t \in Nat : \A u \in Seq(Nat) :
          [pos |-> n, session |-> e, samples |-> u, run |-> r, ts |-> t] \in Packet
  BY DEF NoPeriod, NoFrame, Period, Frame, Packet

\* Channels are sequences: what a send and a receive make of one.
LEMMA ChannelOps ==
    ASSUME NEW S, NEW q \in Seq(S), NEW x \in S
    PROVE  /\ Append(q, x) \in Seq(S) /\ Len(Append(q, x)) = Len(q) + 1
           /\ q # <<>> => /\ Head(q) \in S
                          /\ Tail(q) \in Seq(S) /\ Len(Tail(q)) = Len(q) - 1
  OBVIOUS

\* Changing one entry of a function keeps its type.
LEMMA ExceptType ==
    ASSUME NEW S, NEW T, NEW f \in [S -> T], NEW c \in S, NEW x \in T
    PROVE  [f EXCEPT ![c] = x] \in [S -> T]
  OBVIOUS

\* The initial state is well typed.
LEMMA InitType == Init => TypeOK
<1> SUFFICES ASSUME Init PROVE TypeOK
  OBVIOUS
<1>1. NoPeriod \in Period /\ NoFrame \in Frame
  BY RecordTypes
<1>2. /\ \A S : <<>> \in Seq(S)
      /\ Len(<<>>) = 0
  OBVIOUS
<1>3. queue \in [Subs -> Seq(Frame)] /\ \A c \in Subs : Len(queue[c]) <= SubQueueDepth
  BY <1>2, SizesAssumption DEF Init
<1>4. ch \in Seq(Period) /\ Len(ch) <= FanoutBuffer
  BY <1>2, SizesAssumption DEF Init
<1>5. heard \in [Subs -> Seq(Packet)] /\ start \in Seq(Nat)
      /\ acc \in Seq(Nat) /\ Len(acc) = 0
  BY <1>2 DEF Init
<1>6. snap \in [epoch : Nat, subs : SUBSET Subs]
  BY DEF Init
<1>7. wFrame \in [Subs -> Frame] /\ hand \in Period /\ period \in Period /\ frame \in Frame
  BY <1>1 DEF Init
<1>8. FeedType
  BY <1>3, <1>6 DEF Init, FeedType
<1>9. FanType
  BY <1>4, <1>7 DEF Init, FanType
<1>10. StageType
  BY <1>5, <1>7, EmptyAcc DEF Init, StageType
<1>11. WriterType
  BY <1>5, <1>7 DEF Init, WriterType
<1>12. HistType
  BY <1>5 DEF Init, HistType
<1> QED
  BY <1>8, <1>9, <1>10, <1>11, <1>12 DEF TypeOK

\* Every step keeps the types.
LEMMA TypeStep == TypeOK /\ [Next]_vars => TypeOK'
<1> SUFFICES ASSUME TypeOK, [Next]_vars PROVE TypeOK'
  OBVIOUS
<1> USE DEF TypeOK, feedVars, fanVars, stageVars, writerVars, joinVars, histVars
<1>1. CASE FanRead
  <2>1. FanType'
    BY <1>1, SizesAssumption DEF FanRead, FanType, Period
  <2>2. FeedType' /\ StageType' /\ WriterType' /\ HistType'
    BY <1>1 DEF FanRead, FeedType, StageType, WriterType, HistType
  <2> QED
    BY <2>1, <2>2
<1>2. CASE FanGate
  <2>1. FanType'
    <3>1. hand' \in Period
      BY <1>2, RecordTypes DEF FanGate, FanType, FeedType
    <3> QED
      BY <1>2, <3>1 DEF FanGate, FanType
  <2>2. FeedType' /\ StageType' /\ WriterType' /\ HistType'
    BY <1>2 DEF FanGate, FeedType, StageType, WriterType, HistType
  <2> QED
    BY <2>1, <2>2
<1>3. CASE FanSend
  <2>1. FanType'
    <3>1. hand' \in Period
      BY <1>3, RecordTypes DEF FanSend
    <3>2. ch' \in Seq(Period) /\ Len(ch') <= FanoutBuffer
      BY <1>3, SizesAssumption, ChannelOps DEF FanSend, FanType, HasRoom
    <3> QED
      BY <1>3, <3>1, <3>2 DEF FanSend, FanType
  <2>2. StageType'
    BY <1>3 DEF FanSend, StageType
  <2>3. FeedType' /\ WriterType' /\ HistType'
    BY <1>3 DEF FanSend, FeedType, WriterType, HistType
  <2> QED
    BY <2>1, <2>2, <2>3
<1>4. CASE FanEnd
  <2>1. FanType'
    BY <1>4 DEF FanEnd, FanType
  <2>2. FeedType' /\ StageType' /\ WriterType' /\ HistType'
    BY <1>4 DEF FanEnd, FeedType, StageType, WriterType, HistType
  <2> QED
    BY <2>1, <2>2
<1>5. CASE FanClose
  <2>1. FanType'
    BY <1>5 DEF FanClose, FanType
  <2>2. FeedType' /\ StageType' /\ WriterType' /\ HistType'
    BY <1>5 DEF FanClose, FeedType, StageType, WriterType, HistType
  <2> QED
    BY <2>1, <2>2
<1>6. CASE StageRead
  <2>1. FanType'
    BY <1>6, ChannelOps, SizesAssumption DEF StageRead, FanType
  <2>2. StageType'
    BY <1>6 DEF StageRead, StageType, FanType
  <2>3. FeedType' /\ WriterType' /\ HistType'
    BY <1>6 DEF StageRead, FeedType, WriterType, HistType
  <2> QED
    BY <2>1, <2>2, <2>3
<1>7. CASE StageAdmit
  <2>1. StageType'
    <3>1. period' \in Period /\ stPc' \in {"read", "fill"} /\ off' \in Nat
      BY <1>7, RecordTypes DEF StageAdmit, StageType
    <3>2. session' \in Nat /\ nextPos' \in Nat /\ encRun' \in Nat
      <4>1. snap.epoch \in Nat /\ period.pos + period.frames \in Nat /\ encRun + 1 \in Nat
        <5>1. snap.epoch \in Nat /\ encRun \in Nat
          BY DEF FeedType, StageType
        <5>2. period.pos \in Nat /\ period.frames \in Nat
          BY RecordTypes DEF StageType
        <5> QED
          BY <5>1, <5>2
      <4>2. /\ session' = session \/ session' = snap.epoch
            /\ nextPos' = nextPos \/ nextPos' = period.pos + period.frames
            /\ encRun' = encRun \/ encRun' = encRun + 1
        BY <1>7 DEF StageAdmit, OpusAdmit, PcmAdmit
      <4> QED
        BY <4>1, <4>2 DEF StageType
    <3>3. acc' = acc \/ acc' = <<>>
      BY <1>7 DEF StageAdmit, OpusAdmit, PcmAdmit
    <3>4. acc' \in Seq(Nat) /\ Len(acc') <= FrameLen
      BY <3>3, EmptyAcc DEF StageType
    <3> QED
      BY <1>7, <3>1, <3>2, <3>4 DEF StageAdmit, StageType
  <2>2. FeedType' /\ FanType' /\ WriterType' /\ HistType'
    BY <1>7 DEF StageAdmit, FeedType, FanType, WriterType, HistType
  <2> QED
    BY <2>1, <2>2
<1>8. CASE StageFill
  <2>1. StageType'
    <3>1. CASE More /\ Mode = "opus"
      <4> DEFINE take == Lesser(FrameLen - Len(acc), period.frames - off)
                 at   == IF acc = <<>> THEN period.pos + off ELSE framePos
                 full == acc \o Samples(period.pos + off, take)
      <4>1. /\ take \in Nat /\ take <= FrameLen - Len(acc)
            /\ period.pos + off \in Nat /\ at \in Nat
        <5>1. period.pos \in Nat /\ period.frames \in Nat
          BY RecordTypes DEF StageType
        <5>2. off \in Nat /\ framePos \in Nat /\ Len(acc) \in Nat /\ Len(acc) <= FrameLen
          BY DEF StageType
        <5>3. off < period.frames
          BY <3>1 DEF More
        <5> QED
          BY <5>1, <5>2, <5>3, SizesAssumption DEF Lesser
      <4>2. /\ Samples(period.pos + off, take) \in Seq(Nat)
            /\ Len(Samples(period.pos + off, take)) = take
        BY <4>1, SamplesType
      <4>3. full \in Seq(Nat) /\ Len(full) <= FrameLen
        BY <4>1, <4>2, ConcatProperties, SizesAssumption DEF StageType
      <4> HIDE DEF take, at, full
      <4>4. [pos |-> at, session |-> session, samples |-> full, run |-> encRun] \in Frame
        BY <4>1, <4>3, RecordTypes DEF StageType
      <4>5. /\ framePos' = at /\ acc' = full
            /\ frame' \in {frame, [pos |-> at, session |-> session,
                                   samples |-> full, run |-> encRun]}
            /\ off' \in {0, off, off + take}
            /\ period' \in {period, NoPeriod}
            /\ stPc' \in {"read", "push", "fault"}
        BY <1>8, <3>1 DEF StageFill, OpusFill, PeriodDone, take, at, full
      <4> QED
        <5>1. frame' \in Frame
          BY <4>4, <4>5 DEF StageType
        <5>2. period' \in Period
          BY <4>5, RecordTypes DEF StageType
        <5>3. off' \in Nat /\ framePos' \in Nat
          BY <4>1, <4>5 DEF StageType
        <5>4. acc' \in Seq(Nat) /\ Len(acc') <= FrameLen
          BY <4>3, <4>5
        <5> QED
          BY <1>8, <4>5, <5>1, <5>2, <5>3, <5>4 DEF StageFill, StageType
    <3>2. CASE More /\ Mode # "opus"
      <4>1. PcmTake \in Nat /\ period.pos + off \in Nat
        <5>1. period.pos \in Nat /\ period.frames \in Nat /\ off \in Nat
          BY RecordTypes DEF StageType
        <5>2. off < period.frames
          BY <3>2 DEF More
        <5> QED
          BY <5>1, <5>2, SizesAssumption DEF PcmTake, Lesser
      <4>2. Samples(period.pos + off, PcmTake) \in Seq(Nat)
        BY <4>1, SamplesType
      <4>3. frame' \in Frame /\ off' \in Nat /\ stPc' = "push"
        <5>1. [pos |-> period.pos + off, session |-> session,
               samples |-> Samples(period.pos + off, PcmTake), run |-> encRun] \in Frame
          BY <4>1, <4>2, RecordTypes DEF StageType
        <5>2. off + PcmTake \in Nat
          BY <4>1 DEF StageType
        <5> QED
          BY <1>8, <3>2, <5>1, <5>2 DEF StageFill, PcmFill
      <4> QED
        BY <1>8, <3>2, <4>3 DEF StageFill, PcmFill, StageType
    <3>3. CASE ~More
      BY <1>8, <3>3, RecordTypes DEF StageFill, PeriodDone, StageType
    <3> QED
      BY <3>1, <3>2, <3>3
  <2>2. FeedType' /\ FanType' /\ WriterType' /\ HistType'
    BY <1>8 DEF StageFill, FeedType, FanType, WriterType, HistType
  <2> QED
    BY <2>1, <2>2
<1>9. CASE StageFault
  <2>1. FanType'
    BY <1>9 DEF StageFault, FanType, StageType
  <2>2. StageType'
    BY <1>9 DEF StageFault, StageType
  <2>3. FeedType' /\ WriterType' /\ HistType'
    BY <1>9 DEF StageFault, FeedType, WriterType, HistType
  <2> QED
    BY <2>1, <2>2, <2>3
<1>10. CASE PushLoad
  <2>1. StageType'
    BY <1>10 DEF PushLoad, StageType, FeedType
  <2>2. FeedType' /\ FanType' /\ WriterType' /\ HistType'
    BY <1>10 DEF PushLoad, FeedType, FanType, WriterType, HistType
  <2> QED
    BY <2>1, <2>2
<1>11. CASE PushDone
  <2>1. StageType'
    <3>1. frame' \in Frame
      BY <1>11, RecordTypes DEF PushDone
    <3>2. acc' \in Seq(Nat) /\ Len(acc') <= FrameLen
      BY <1>11, EmptyAcc DEF PushDone, StageType
    <3> QED
      BY <1>11, <3>1, <3>2 DEF PushDone, StageType
  <2>2. FeedType' /\ FanType' /\ WriterType' /\ HistType'
    BY <1>11 DEF PushDone, FeedType, FanType, WriterType, HistType
  <2> QED
    BY <2>1, <2>2
<1>12. CASE Shutdown
  <2>1. StageType'
    BY <1>12 DEF Shutdown, StageType
  <2>2. FeedType' /\ FanType' /\ WriterType' /\ HistType'
    BY <1>12 DEF Shutdown, FeedType, FanType, WriterType, HistType
  <2> QED
    BY <2>1, <2>2
<1>13. CASE FeedClose
  <2>1. FeedType'
    BY <1>13 DEF FeedClose, FeedType
  <2>2. HistType'
    BY <1>13 DEF FeedClose, HistType, WriterType
  <2>3. FanType' /\ StageType' /\ WriterType'
    BY <1>13 DEF FeedClose, FanType, StageType, WriterType
  <2> QED
    BY <2>1, <2>2, <2>3
<1>14. ASSUME NEW c \in Subs, \/ Subscribe(c) \/ SubClose(c) \/ ConnClose(c) \/ PushSend(c)
                               \/ NextCheck(c) \/ NextSelect(c) \/ Write(c)
      PROVE TypeOK'
  <2>1. CASE Subscribe(c)
    <3>1. FeedType'
      BY <2>1 DEF Subscribe, FeedType, JoinEpoch
    <3>2. WriterType'
      BY <2>1 DEF Subscribe, WriterType
    <3>3. HistType'
      BY <2>1 DEF Subscribe, HistType, JoinEpoch, FirstPos, FanType, FeedType, Period
    <3>4. FanType' /\ StageType'
      BY <2>1 DEF Subscribe, FanType, StageType
    <3> QED
      BY <3>1, <3>2, <3>3, <3>4
  <2>2. CASE SubClose(c)
    <3>1. FeedType'
      BY <2>2 DEF SubClose, FeedType
    <3>2. FanType' /\ StageType' /\ WriterType' /\ HistType'
      BY <2>2 DEF SubClose, FanType, StageType, WriterType, HistType
    <3> QED
      BY <3>1, <3>2
  <2>3. CASE ConnClose(c)
    <3>1. WriterType'
      BY <2>3 DEF ConnClose, WriterType
    <3>2. FeedType' /\ FanType' /\ StageType' /\ HistType'
      BY <2>3 DEF ConnClose, FeedType, FanType, StageType, HistType
    <3> QED
      BY <3>1, <3>2
  <2>4. CASE PushSend(c)
    <3>1. FeedType'
      <4>1. queue' \in [Subs -> Seq(Frame)]
        <5>1. Append(queue[c], frame) \in Seq(Frame)
          BY ChannelOps DEF FeedType, StageType
        <5> QED
          BY <2>4, <5>1 DEF PushSend, FeedType
      <4>2. ASSUME NEW d \in Subs PROVE Len(queue'[d]) <= SubQueueDepth
        <5>1. /\ Len(Append(queue[c], frame)) = Len(queue[c]) + 1
              /\ Len(queue[c]) \in Nat /\ Len(queue[d]) \in Nat
          BY ChannelOps DEF FeedType, StageType
        <5>2. queue' = queue \/ (/\ Len(queue[c]) < SubQueueDepth
                                 /\ queue' = [queue EXCEPT ![c] = Append(queue[c], frame)])
          BY <2>4 DEF PushSend, HasRoom
        <5> QED
          BY <5>1, <5>2, SizesAssumption DEF FeedType
      <4> QED
        BY <2>4, <4>1, <4>2 DEF PushSend, FeedType
    <3>2. StageType'
      BY <2>4 DEF PushSend, StageType
    <3>3. FanType' /\ WriterType' /\ HistType'
      BY <2>4 DEF PushSend, FanType, WriterType, HistType
    <3> QED
      BY <3>1, <3>2, <3>3
  <2>5. CASE NextCheck(c)
    <3>1. WriterType'
      <4>1. wFrame' \in [Subs -> Frame]
        BY <2>5, RecordTypes, ExceptType DEF NextCheck, WriterType, WriterExit
      <4>2. ctxDone' \in [Subs -> BOOLEAN]
        BY <2>5, ExceptType DEF NextCheck, WriterType, WriterExit
      <4>3. wPc' \in [Subs -> {"none", "check", "select", "write", "exit"}]
        BY <2>5 DEF NextCheck, WriterType, WriterExit
      <4> QED
        BY <2>5, <4>1, <4>2, <4>3 DEF NextCheck, WriterType
    <3>2. FeedType' /\ FanType' /\ StageType' /\ HistType'
      BY <2>5 DEF NextCheck, FeedType, FanType, StageType, HistType
    <3> QED
      BY <3>1, <3>2
  <2>6. CASE NextSelect(c)
    <3>1. FeedType'
      <4>1. queue' \in [Subs -> Seq(Frame)]
        <5>1. queue[c] # <<>> => Tail(queue[c]) \in Seq(Frame)
          BY ChannelOps DEF FeedType
        <5> QED
          BY <2>6, <5>1 DEF NextSelect, FeedType
      <4>2. ASSUME NEW d \in Subs PROVE Len(queue'[d]) <= SubQueueDepth
        BY <2>6, ChannelOps, SizesAssumption DEF NextSelect, FeedType
      <4> QED
        BY <2>6, <4>1, <4>2 DEF NextSelect, FeedType
    <3>2. WriterType'
      <4>1. wFrame' \in [Subs -> Frame]
        <5>1. queue[c] # <<>> => Head(queue[c]) \in Frame
          BY ChannelOps DEF FeedType
        <5> QED
          BY <2>6, <5>1, RecordTypes, ExceptType DEF NextSelect, WriterType, WriterExit
      <4>2. ctxDone' \in [Subs -> BOOLEAN]
        BY <2>6, ExceptType DEF NextSelect, WriterType, WriterExit
      <4>3. wPc' \in [Subs -> {"none", "check", "select", "write", "exit"}]
        BY <2>6 DEF NextSelect, WriterType, WriterExit
      <4> QED
        BY <2>6, <4>1, <4>2, <4>3 DEF NextSelect, WriterType
    <3>3. FanType' /\ StageType' /\ HistType'
      BY <2>6 DEF NextSelect, FanType, StageType, HistType
    <3> QED
      BY <3>1, <3>2, <3>3
  <2>7. CASE Write(c)
    <3>1. WriterType'
      <4>1. wFrame[c] \in Frame /\ Base(c) \in Nat
        BY RecordTypes DEF Base, WriterType
      <4>2. basePos' \in [Subs -> Nat]
        BY <2>7, <4>1, ExceptType DEF Write, WriterType
      <4>3. Timestamp(wFrame[c].pos, Base(c)) \in Nat
        BY <4>1, RecordTypes, TimestampAssumption DEF Timestamp
      <4>4. DEFINE pkt == [pos |-> wFrame[c].pos, session |-> wFrame[c].session,
                           samples |-> wFrame[c].samples, run |-> wFrame[c].run,
                           ts |-> Timestamp(wFrame[c].pos, Base(c))]
      <4>5. pkt \in Packet
        BY <4>1, <4>3, RecordTypes
      <4> HIDE DEF pkt
      <4>6. heard' = heard \/ heard' = [heard EXCEPT ![c] = Append(@, pkt)]
        BY <2>7 DEF Write, pkt
      <4>7. heard' \in [Subs -> Seq(Packet)]
        <5>1. Append(heard[c], pkt) \in Seq(Packet)
          BY <4>5, ChannelOps DEF WriterType
        <5> QED
          BY <4>6, <5>1 DEF WriterType
      <4>8. wFrame' \in [Subs -> Frame]
        BY <2>7, RecordTypes, ExceptType DEF Write, WriterType, WriterExit
      <4>9. ctxDone' \in [Subs -> BOOLEAN] /\ based' \in [Subs -> BOOLEAN]
        BY <2>7, ExceptType DEF Write, WriterType, WriterExit
      <4>10. wPc' \in [Subs -> {"none", "check", "select", "write", "exit"}]
        BY <2>7 DEF Write, WriterType, WriterExit
      <4> QED
        BY <4>2, <4>7, <4>8, <4>9, <4>10 DEF WriterType
    <3>2. FeedType' /\ FanType' /\ StageType' /\ HistType'
      BY <2>7 DEF Write, FeedType, FanType, StageType, HistType
    <3> QED
      BY <3>1, <3>2
  <2> QED
    BY <1>14, <2>1, <2>2, <2>3, <2>4, <2>5, <2>6, <2>7
<1>15. CASE UNCHANGED vars
  BY <1>15 DEF vars, FeedType, FanType, StageType, WriterType, HistType
<1> QED
  BY <1>1, <1>2, <1>3, <1>4, <1>5, <1>6, <1>7, <1>8, <1>9, <1>10, <1>11, <1>12, <1>13, <1>14, <1>15 DEF Next

\* Every reachable state of the media path is well typed, and no queue ever
\* holds more than its capacity.
THEOREM TypeCorrect == Spec => []TypeOK
  BY InitType, TypeStep, PTL DEF Spec

-----------------------------------------------------------------------------
(* Play sessions only grow *)

\* Audio that lies within a session stays within it when the frontier moves on
\* and when the next session starts at the frontier.
LEMMA WithinStable ==
    ASSUME NEW st \in Seq(Nat), NEW fr \in Nat, NEW st2, NEW fr2 \in Nat,
           st2 = st \/ st2 = Append(st, fr), fr <= fr2,
           NEW e, NEW lo \in Nat, NEW hi \in Nat, Within(st, fr, e, lo, hi)
    PROVE  Within(st2, fr2, e, lo, hi)
<1>1. CASE st2 = st
  BY <1>1 DEF Within, LimitAt
<1>2. CASE st2 = Append(st, fr)
  <2>1. Len(st2) = Len(st) + 1 /\ st2[Len(st) + 1] = fr
    BY <1>2
  <2>2. e \in 1 .. Len(st) /\ st2[e] = st[e]
    BY <1>2 DEF Within
  <2>3. CASE e < Len(st)
    <3>1. st2[e + 1] = st[e + 1]
      BY <1>2, <2>2, <2>3
    <3> QED
      BY <2>1, <2>2, <2>3, <3>1 DEF Within, LimitAt
  <2>4. CASE e = Len(st)
    BY <2>1, <2>2, <2>4 DEF Within, LimitAt
  <2> QED
    BY <2>2, <2>3, <2>4
<1> QED
  BY <1>1, <1>2

\* What one step may do to the sessions and the frontier.
Grows ==
    /\ start' = start \/ start' = Append(start, Frontier)
    /\ Frontier \in Nat /\ Frontier' \in Nat /\ Frontier <= Frontier'

\* No step moves the frontier back, and a session starts at the frontier.
LEMMA StepGrows == TypeOK /\ FanInv /\ [Next]_vars => Grows
<1> SUFFICES ASSUME TypeOK, FanInv, [Next]_vars PROVE Grows
  OBVIOUS
<1>0. pos \in Nat /\ hand.pos \in Nat /\ hand.frames \in Nat /\ fanPc \in {"read", "gate", "send", "done"}
  BY RecordTypes DEF TypeOK, FanType
<1>1. CASE FanRead
  <2>1. start' = start /\ fanPc = "read" /\ fanPc' = "gate" /\ hand'.pos = pos
    BY <1>1 DEF FanRead, histVars, joinVars
  <2> QED
    BY <1>0, <2>1 DEF Grows, Frontier
<1>2. CASE FanGate
  <2>1. /\ start' = start /\ fanPc = "gate" /\ fanPc' \in {"read", "send"} /\ pos' = pos
        /\ hand.pos + hand.frames = pos
    BY <1>2 DEF FanGate, FanInv, histVars, joinVars
  <2> QED
    BY <1>0, <2>1 DEF Grows, Frontier
<1>3. CASE FanSend \/ FanEnd
  <2>1. start' = start /\ fanPc # "gate" /\ fanPc' # "gate" /\ pos' = pos
    BY <1>3 DEF FanSend, FanEnd, histVars, joinVars
  <2> QED
    BY <1>0, <2>1 DEF Grows, Frontier
<1>4. CASE \E c \in Subs : Subscribe(c)
  <2>1. /\ start' = start \/ start' = Append(start, FirstPos)
        /\ UNCHANGED <<fanPc, pos, hand>>
    BY <1>4 DEF Subscribe, fanVars
  <2> QED
    BY <1>0, <2>1 DEF Grows, Frontier, FirstPos
<1>5. CASE UNCHANGED <<start, fanPc, pos, hand>>
  BY <1>0, <1>5 DEF Grows, Frontier
<1>6. \/ FanRead \/ FanGate \/ FanSend \/ FanEnd \/ \E c \in Subs : Subscribe(c)
      \/ UNCHANGED <<start, fanPc, pos, hand>>
  BY DEF Next, vars, fanVars, histVars, joinVars, FanClose, StageRead, StageAdmit,
         StageFill, StageFault, PushLoad, PushDone, Shutdown, FeedClose, SubClose,
         ConnClose, PushSend, NextCheck, NextSelect, Write
<1> QED
  BY <1>1, <1>2, <1>3, <1>4, <1>5, <1>6

\* Hence audio that was where it belongs still is after a step.
LEMMA AudioStable ==
    ASSUME start \in Seq(Nat), Grows
    PROVE  /\ \A e : \A lo, hi \in Nat :
                 Within(start, Frontier, e, lo, hi) => Within(start', Frontier', e, lo, hi)
           /\ \A p \in Period : PeriodOK(start, Frontier, p) => PeriodOK(start', Frontier', p)
           /\ \A f : /\ f.pos \in Nat /\ f.samples \in Seq(Nat)
                     /\ FrameOK(start, Frontier, f)
                     => FrameOK(start', Frontier', f)
<1>1. \A e : \A lo, hi \in Nat :
        Within(start, Frontier, e, lo, hi) => Within(start', Frontier', e, lo, hi)
  BY WithinStable DEF Grows
<1>2. ASSUME NEW p \in Period, PeriodOK(start, Frontier, p)
      PROVE  PeriodOK(start', Frontier', p)
  <2>1. p.pos \in Nat /\ p.frames \in Nat
    BY RecordTypes
  <2>2. p.pos + p.frames \in Nat
    BY <2>1
  <2> QED
    BY <1>1, <1>2, <2>1, <2>2 DEF PeriodOK
<1>3. ASSUME NEW f, f.pos \in Nat, f.samples \in Seq(Nat), FrameOK(start, Frontier, f)
      PROVE  FrameOK(start', Frontier', f)
  <2>1. f.pos + Len(f.samples) \in Nat
    BY <1>3
  <2> QED
    BY <1>1, <1>3, <2>1 DEF FrameOK
<1> QED
  BY <1>1, <1>2, <1>3

-----------------------------------------------------------------------------
(* Session isolation: the inductive step, one lemma per part of the invariant *)

\* The feed's part: Subscribe, Sub.Close and the deliveries.
LEMMA FeedStep == IsolationInv /\ [Next]_vars => FeedInv'
<1> SUFFICES ASSUME IsolationInv, [Next]_vars PROVE FeedInv'
  OBVIOUS
<1> USE DEF IsolationInv
<1>0. Grows /\ TypeOK'
  BY StepGrows, TypeStep
<1>1. \A e \in 1 .. Len(start') : start'[e] <= Frontier'
  <2>1. start \in Seq(Nat)
    BY DEF TypeOK, HistType
  <2>2. \A e \in 1 .. Len(start) : start[e] \in Nat /\ start[e] <= Frontier
    BY <2>1 DEF FeedInv
  <2>3. CASE start' = start
    BY <1>0, <2>2, <2>3 DEF Grows
  <2>4. CASE start' = Append(start, Frontier)
    <3>1. \A e \in 1 .. Len(start') : start'[e] <= Frontier
      BY <1>0, <2>1, <2>2, <2>4 DEF Grows
    <3>2. \A e \in 1 .. Len(start') : start'[e] \in Nat
      BY <1>0 DEF TypeOK, HistType
    <3> QED
      BY <1>0, <3>1, <3>2 DEF Grows
  <2> QED
    BY <1>0, <2>3, <2>4 DEF Grows
<1> DEFINE Rest == /\ snap'.epoch = Len(start')
                   /\ snap'.subs # {} => start' # <<>>
                   /\ \A c \in snap'.subs : subState'[c] = "open" /\ epochOf'[c] = snap'.epoch
                   /\ \A c \in Subs : subState'[c] = "new" =>
                        wPc'[c] = "none" /\ queue'[c] = <<>> /\ heard'[c] = <<>>
<1>2. ASSUME NEW c \in Subs, Subscribe(c) PROVE Rest
  <2>1. snap \in [epoch : Nat, subs : SUBSET Subs] /\ start \in Seq(Nat)
    BY DEF TypeOK, FeedType, HistType
  <2>2. snap' = [epoch |-> JoinEpoch(snap), subs |-> snap.subs \cup {c}]
    BY <1>2 DEF Subscribe
  <2>3. snap'.epoch = JoinEpoch(snap) /\ snap'.subs = snap.subs \cup {c}
    BY <2>2
  <2>4. /\ snap'.epoch = Len(start') /\ start' # <<>>
        /\ snap.subs # {} => snap'.epoch = snap.epoch
    <3>1. CASE snap.subs = {}
      <4>1. start' = Append(start, FirstPos) /\ snap'.epoch = Len(start) + 1
        BY <1>2, <2>3, <3>1 DEF Subscribe, JoinEpoch, Active, FeedInv
      <4> QED
        BY <2>1, <3>1, <4>1
    <3>2. CASE snap.subs # {}
      BY <1>2, <2>3, <3>2 DEF Subscribe, JoinEpoch, Active, FeedInv
    <3> QED
      BY <3>1, <3>2
  <2>5. ASSUME NEW d \in snap'.subs
        PROVE  subState'[d] = "open" /\ epochOf'[d] = snap'.epoch
    <3>1. CASE d = c
      BY <1>2, <2>3, <3>1 DEF Subscribe, TypeOK, FeedType, HistType
    <3>2. CASE d # c
      BY <1>2, <2>1, <2>3, <2>4, <3>2 DEF Subscribe, FeedInv, TypeOK, FeedType, HistType
    <3> QED
      BY <3>1, <3>2
  <2>6. ASSUME NEW d \in Subs, subState'[d] = "new"
        PROVE  wPc'[d] = "none" /\ queue'[d] = <<>> /\ heard'[d] = <<>>
    BY <1>2, <2>6 DEF Subscribe, FeedInv, TypeOK, FeedType, WriterType
  <2> QED
    BY <2>3, <2>4, <2>5, <2>6
<1>3. ASSUME NEW c \in Subs, SubClose(c) PROVE Rest
  <2>1. snap \in [epoch : Nat, subs : SUBSET Subs]
    BY DEF TypeOK, FeedType
  <2>2. snap'.epoch = snap.epoch /\ snap'.subs = snap.subs \ {c}
    BY <1>3, <2>1 DEF SubClose
  <2> QED
    BY <1>3, <2>1, <2>2
       DEF SubClose, FeedInv, Active, TypeOK, FeedType, histVars, joinVars, writerVars
<1>4. ASSUME NEW c \in Subs, PushSend(c) PROVE Rest
  <2>1. subState[c] # "new"
    BY <1>4 DEF PushSend, StageInv
  <2> QED
    BY <1>4, <2>1
       DEF PushSend, FeedInv, Active, TypeOK, FeedType, histVars, joinVars, writerVars
<1>5. ASSUME NEW c \in Subs, NextCheck(c) \/ NextSelect(c) \/ Write(c) PROVE Rest
  <2>1. subState[c] # "new"
    BY <1>5 DEF NextCheck, NextSelect, Write, FeedInv
  <2>2. \A d \in Subs : d # c => /\ wPc'[d] = wPc[d] /\ queue'[d] = queue[d]
                                 /\ heard'[d] = heard[d]
    BY <1>5 DEF NextCheck, NextSelect, Write, WriterExit, TypeOK, FeedType, WriterType, feedVars
  <2>3. UNCHANGED <<snap, subState, epochOf, start>>
    BY <1>5 DEF NextCheck, NextSelect, Write, feedVars, histVars, joinVars
  <2> QED
    BY <2>1, <2>2, <2>3 DEF FeedInv, Active
<1>6. ASSUME UNCHANGED <<snap, subState, epochOf, start, wPc, queue, heard>> PROVE Rest
  BY <1>6 DEF FeedInv, Active
<1>7. \/ \E c \in Subs : \/ Subscribe(c) \/ SubClose(c) \/ PushSend(c)
                         \/ NextCheck(c) \/ NextSelect(c) \/ Write(c)
      \/ UNCHANGED <<snap, subState, epochOf, start, wPc, queue, heard>>
  BY DEF Next, vars, feedVars, writerVars, histVars, joinVars, FanRead, FanGate, FanSend,
         FanEnd, FanClose, StageRead, StageAdmit, StageFill, StageFault, PushLoad,
         PushDone, Shutdown, FeedClose, ConnClose
<1>8. Rest
  BY <1>2, <1>3, <1>4, <1>5, <1>6, <1>7
<1> QED
  BY <1>1, <1>8 DEF FeedInv, Active

\* The fan-out's part: the period in hand and the queued ones.
LEMMA FanStepInv == IsolationInv /\ [Next]_vars => FanInv'
<1> SUFFICES ASSUME IsolationInv, [Next]_vars PROVE FanInv'
  OBVIOUS
<1> USE DEF IsolationInv
<1>0. Grows /\ TypeOK'
  BY StepGrows, TypeStep
<1>1. start \in Seq(Nat) /\ hand \in Period /\ ch \in Seq(Period) /\ pos \in Nat
  BY DEF TypeOK, FanType, HistType
<1>2. \A p \in Period : PeriodOK(start, Frontier, p) => PeriodOK(start', Frontier', p)
  BY <1>0, <1>1, AudioStable
<1>3. \A i \in DOMAIN ch : ch[i] \in Period /\ PeriodOK(start', Frontier', ch[i])
  BY <1>1, <1>2 DEF FanInv
<1>4. CASE FanRead
  <2>1. PICK n \in PeriodLens : /\ hand' = [pos |-> pos, frames |-> n, session |-> 0]
                                /\ pos' = pos + n
    BY <1>4 DEF FanRead
  <2>2. hand'.pos = pos /\ hand'.frames = n /\ n \in Nat /\ n > 0
    BY <2>1, SizesAssumption
  <2> QED
    BY <1>1, <1>3, <1>4, <2>1, <2>2 DEF FanRead, FanInv
<1>5. CASE FanGate /\ Active(snap)
  <2>1. /\ hand' = [hand EXCEPT !.session = snap.epoch] /\ fanPc' = "send"
        /\ fanPc = "gate" /\ UNCHANGED <<pos, ch, start>>
    BY <1>5 DEF FanGate, histVars, joinVars
  <2>2. hand'.pos = hand.pos /\ hand'.frames = hand.frames /\ hand'.session = snap.epoch
    BY <1>1, <2>1 DEF Period
  <2>3. hand.frames > 0 /\ hand.pos + hand.frames = pos
    BY <2>1 DEF FanInv
  <2>4. snap.epoch \in 1 .. Len(start) /\ start[snap.epoch] <= hand.pos
    <3>1. snap.epoch = Len(start) /\ start # <<>>
      BY <1>5 DEF FeedInv
    <3>2. snap.epoch \in 1 .. Len(start)
      BY <1>1, <3>1
    <3>3. Frontier = hand.pos
      BY <2>1 DEF Frontier
    <3> QED
      BY <3>2, <3>3 DEF FeedInv
  <2>5. LimitAt(start', Frontier', snap.epoch) = pos
    BY <2>1, <2>4, <1>1 DEF LimitAt, Frontier, FeedInv
  <2>6. PeriodOK(start', Frontier', hand')
    <3>1. hand'.pos + hand'.frames <= pos
      BY <2>2, <2>3, <1>1, RecordTypes
    <3> QED
      BY <2>1, <2>2, <2>3, <2>4, <2>5, <3>1 DEF PeriodOK, Within
  <2> QED
    BY <1>3, <2>1, <2>2, <2>3, <2>6 DEF FanInv
<1>6. CASE FanGate /\ ~Active(snap)
  BY <1>3, <1>6 DEF FanGate, FanInv
<1>7. CASE FanSend
  <2>1. hand \in Period /\ PeriodOK(start', Frontier', hand)
    BY <1>1, <1>2, <1>7 DEF FanSend, FanInv
  <2>2. ch' = ch \/ ch' = Append(ch, hand)
    BY <1>7 DEF FanSend
  <2>3. \A i \in DOMAIN ch' : PeriodOK(start', Frontier', ch'[i])
    BY <1>1, <1>3, <2>1, <2>2
  <2> QED
    BY <1>7, <2>3 DEF FanSend, FanInv
<1>8. CASE FanEnd
  BY <1>3, <1>8 DEF FanEnd, FanInv
<1>9. CASE StageRead
  <2>1. ch' = ch \/ (ch # <<>> /\ ch' = Tail(ch))
    BY <1>9 DEF StageRead
  <2>2. \A i \in DOMAIN ch' : PeriodOK(start', Frontier', ch'[i])
    BY <1>1, <1>3, <2>1
  <2> QED
    BY <1>1, <1>2, <1>9, <2>2 DEF StageRead, FanInv
<1>10. CASE UNCHANGED <<fanPc, pos, hand, ch>>
  BY <1>1, <1>2, <1>3, <1>10 DEF FanInv
<1>11. \/ FanRead \/ FanGate \/ FanSend \/ FanEnd \/ StageRead
       \/ UNCHANGED <<fanPc, pos, hand, ch>>
  BY DEF Next, vars, fanVars, FanClose, StageAdmit, StageFill, StageFault, PushLoad,
         PushDone, Shutdown, FeedClose, Subscribe, SubClose, ConnClose, PushSend,
         NextCheck, NextSelect, Write
<1> QED
  BY <1>4, <1>5, <1>6, <1>7, <1>8, <1>9, <1>10, <1>11

\* Facts about the stage's state that every case of the next lemma needs.
LEMMA StageNumbers ==
    ASSUME TypeOK
    PROVE  /\ start \in Seq(Nat) /\ acc \in Seq(Nat) /\ Len(acc) \in Nat
           /\ period \in Period /\ frame \in Frame
           /\ period.pos \in Nat /\ period.frames \in Nat /\ period.session \in Nat
           /\ off \in Nat /\ framePos \in Nat /\ nextPos \in Nat /\ session \in Nat
           /\ frame.pos \in Nat /\ frame.samples \in Seq(Nat)
<1>1. /\ start \in Seq(Nat) /\ acc \in Seq(Nat) /\ period \in Period /\ frame \in Frame
      /\ off \in Nat /\ framePos \in Nat /\ nextPos \in Nat /\ session \in Nat
  BY DEF TypeOK, StageType, HistType
<1> QED
  BY <1>1, RecordTypes

\* A sub-run of a period lies in the period's session.
LEMMA SubRun ==
    ASSUME NEW st, NEW fr, NEW p \in Period, PeriodOK(st, fr, p),
           NEW lo \in Nat, NEW hi \in Nat, p.pos <= lo, hi <= p.pos + p.frames,
           st \in Seq(Nat), fr \in Nat
    PROVE  Within(st, fr, p.session, lo, hi)
<1>1. p.pos \in Nat /\ p.frames \in Nat /\ p.pos + p.frames \in Nat
  BY RecordTypes
<1>2. /\ p.session \in 1 .. Len(st) /\ st[p.session] <= p.pos
      /\ p.pos + p.frames <= LimitAt(st, fr, p.session)
  BY DEF PeriodOK, Within
<1>3. st[p.session] \in Nat
  BY <1>2
<1>4. LimitAt(st, fr, p.session) \in Nat
  BY <1>2 DEF LimitAt
<1> QED
  BY <1>1, <1>2, <1>3, <1>4 DEF Within

\* How much one pass of the Opus loop takes.
LEMMA TakeBounds ==
    ASSUME NEW len \in Nat, NEW have \in Nat, have < len,
           NEW frames \in Nat, NEW used \in Nat, used < frames
    PROVE  /\ Lesser(len - have, frames - used) \in Nat
           /\ Lesser(len - have, frames - used) > 0
           /\ Lesser(len - have, frames - used) <= frames - used
           /\ Lesser(len - have, frames - used) <= len - have
           /\ \/ Lesser(len - have, frames - used) = frames - used
              \/ Lesser(len - have, frames - used) = len - have
  BY DEF Lesser

\* Where that pass ends: at frames in from the start of the frame it fills,
\* used frames into a period at position p.
LEMMA FillEnds ==
    ASSUME NEW len \in Nat, NEW have \in Nat, NEW frames \in Nat, NEW used \in Nat,
           NEW p \in Nat, NEW at \in Nat, at + have = p + used,
           NEW take \in Nat, take = frames - used \/ take = len - have
    PROVE  /\ at + (have + take) = p + used + take
           /\ at + (have + take) \in Nat
           /\ have + take < len => at + (have + take) = p + frames
  OBVIOUS

\* The stage's part: the period it works on, the partial frame, the frame it
\* pushes and the subscribers it pushes to.
LEMMA StageStepInv == IsolationInv /\ [Next]_vars => StageInv'
<1> SUFFICES ASSUME IsolationInv, [Next]_vars PROVE StageInv'
  OBVIOUS
<1> USE DEF IsolationInv
<1>0. Grows /\ TypeOK'
  BY StepGrows, TypeStep
<1>1. /\ start \in Seq(Nat) /\ acc \in Seq(Nat) /\ Len(acc) \in Nat
      /\ period \in Period /\ frame \in Frame
      /\ period.pos \in Nat /\ period.frames \in Nat /\ period.session \in Nat
      /\ off \in Nat /\ framePos \in Nat /\ nextPos \in Nat /\ session \in Nat
      /\ frame.pos \in Nat /\ frame.samples \in Seq(Nat)
  BY StageNumbers
<1>2. /\ \A e : \A lo, hi \in Nat :
           Within(start, Frontier, e, lo, hi) => Within(start', Frontier', e, lo, hi)
      /\ \A p \in Period : PeriodOK(start, Frontier, p) => PeriodOK(start', Frontier', p)
      /\ FrameOK(start, Frontier, frame) => FrameOK(start', Frontier', frame)
  BY <1>0, <1>1, AudioStable
<1>3. framePos + Len(acc) \in Nat
  BY <1>1
<1>4. CASE StageRead
  <2>1. /\ UNCHANGED <<off, session, acc, framePos, nextPos, frame, targets>> /\ stPc = "read"
    BY <1>4 DEF StageRead
  <2>2. AccInv'
    BY <1>2, <1>3, <1>1, <1>4, <2>1 DEF StageInv, AccInv, StageRead
  <2>3. CASE stPc' = "admit"
    <3>1. ch \in Seq(Period) /\ ch # <<>> /\ period' = Head(ch)
      BY <1>4, <2>3 DEF StageRead, TypeOK, FanType
    <3>2. Head(ch) \in Period /\ PeriodOK(start, Frontier, Head(ch))
      BY <3>1 DEF FanInv
    <3> QED
      BY <1>2, <2>2, <2>3, <3>1, <3>2 DEF StageInv
  <2>4. CASE stPc' = "done"
    BY <2>2, <2>4 DEF StageInv
  <2> QED
    BY <1>4, <2>3, <2>4 DEF StageRead
<1>5. CASE StageAdmit /\ Admitted(period, snap)
  <2>1. /\ stPc = "admit" /\ stPc' = "fill" /\ off' = 0 /\ session' = snap.epoch
        /\ UNCHANGED <<period, framePos, frame, targets>>
    BY <1>5 DEF StageAdmit, OpusAdmit, PcmAdmit
  <2>2. PeriodOK(start, Frontier, period) /\ period.session # 0
    BY <2>1 DEF StageInv, PeriodOK, Within
  <2>3. session' = period.session
    BY <1>5, <2>1, <2>2 DEF Admitted
  <2>4. Mode = "opus" => nextPos' = period.pos + period.frames
    BY <1>5 DEF StageAdmit, OpusAdmit
  <2>5. AccInv'
    <3>1. CASE acc' = <<>>
      BY <2>1, <3>1, SizesAssumption DEF AccInv
    <3>2. CASE acc' # <<>>
      <4>1. /\ acc' = acc /\ acc # <<>>
            /\ Mode = "opus" => session = snap.epoch /\ period.pos = nextPos
        BY <1>5, <3>2 DEF StageAdmit, OpusAdmit, PcmAdmit, Resets, GapInFrame
      <4>2. /\ Len(acc) < FrameLen /\ Mode = "opus"
            /\ acc = Samples(framePos, Len(acc))
            /\ Within(start, Frontier, session, framePos, framePos + Len(acc))
            /\ framePos + Len(acc) = nextPos
        BY <2>1, <4>1, ModeAssumption DEF StageInv, AccInv
      <4>3. Within(start', Frontier', session', framePos', framePos' + Len(acc'))
        BY <1>1, <1>2, <1>3, <2>1, <4>1, <4>2
      <4>4. framePos' + Len(acc') = period'.pos + off'
        BY <1>1, <2>1, <4>1, <4>2
      <4> QED
        BY <2>1, <4>1, <4>2, <4>3, <4>4 DEF AccInv
    <3> QED
      BY <3>1, <3>2
  <2> QED
    BY <1>1, <1>2, <2>1, <2>2, <2>3, <2>4, <2>5 DEF StageInv
<1>6. CASE StageAdmit /\ ~Admitted(period, snap)
  <2>1. /\ stPc = "admit" /\ stPc' = "read"
        /\ UNCHANGED <<session, acc, nextPos, framePos>>
    BY <1>6 DEF StageAdmit
  <2>2. AccInv'
    BY <1>1, <1>2, <1>3, <2>1 DEF StageInv, AccInv
  <2> QED
    BY <2>1, <2>2 DEF StageInv
<1>7. CASE StageFill /\ More /\ Mode = "opus"
  <2> DEFINE take == Lesser(FrameLen - Len(acc), period.frames - off)
             at   == IF acc = <<>> THEN period.pos + off ELSE framePos
             full == acc \o Samples(period.pos + off, take)
  <2>1. /\ stPc = "fill" /\ PeriodOK(start, Frontier, period) /\ session = period.session
        /\ off < period.frames /\ nextPos = period.pos + period.frames /\ Len(acc) < FrameLen
    BY <1>7 DEF StageFill, StageInv, AccInv, More
  <2>2. /\ take \in Nat /\ take > 0 /\ at \in Nat
        /\ take <= period.frames - off /\ take <= FrameLen - Len(acc)
        /\ take = period.frames - off \/ take = FrameLen - Len(acc)
    <3>1. /\ FrameLen \in Nat /\ Len(acc) \in Nat /\ Len(acc) < FrameLen
          /\ period.frames \in Nat /\ off \in Nat /\ off < period.frames
      BY <1>1, <2>1, SizesAssumption
    <3>2. at \in Nat
      BY <1>1
    <3> HIDE DEF at
    <3> QED
      BY ZenonT(60), <3>1, <3>2, TakeBounds
  <2>3. /\ acc = Samples(at, Len(acc)) /\ at + Len(acc) = period.pos + off
        /\ acc # <<>> => Within(start, Frontier, session, at, at + Len(acc))
    <3>1. CASE acc = <<>>
      BY <1>1, <3>1 DEF Samples
    <3>2. CASE acc # <<>>
      BY <1>1, <2>1, <3>2 DEF StageInv, AccInv
    <3> QED
      BY <3>1, <3>2
  <2> HIDE DEF take, at, full
  <2>4. full = Samples(at, Len(acc) + take) /\ Len(full) = Len(acc) + take
    <3>1. full = Samples(at, Len(acc)) \o Samples(at + Len(acc), take)
      BY <2>3 DEF full
    <3>0. at \in Nat /\ Len(acc) \in Nat /\ take \in Nat
      BY <1>1, <2>2
    <3>2. full = Samples(at, Len(acc) + take)
      BY <3>0, <3>1, SamplesConcat
    <3>3. Len(acc) + take \in Nat
      BY <1>1, <2>2
    <3> QED
      BY <2>2, <3>2, <3>3, SamplesType
  <2>5. Within(start, Frontier, session, at, period.pos + off + take)
    <3>1. CASE acc = <<>>
      <4>1. /\ at = period.pos + off /\ period.pos <= at
            /\ period.pos + off + take <= period.pos + period.frames
            /\ period.pos + off + take \in Nat
        BY <1>1, <2>2, <3>1 DEF at
      <4>2. Frontier \in Nat
        BY <1>0 DEF Grows
      <4> QED
        BY <1>1, <2>1, <2>2, <4>1, <4>2, SubRun
    <3>2. CASE acc # <<>>
      <4>1. period.pos + off + take <= period.pos + period.frames
        BY <1>1, <2>2
      <4>2. /\ session \in 1 .. Len(start) /\ start[session] <= at
            /\ period.pos + period.frames <= LimitAt(start, Frontier, session)
        BY <2>1, <2>3, <3>2 DEF Within, PeriodOK
      <4>3. Frontier \in Nat
        BY <1>0 DEF Grows
      <4>4. LimitAt(start, Frontier, session) \in Nat
        BY <1>1, <4>2, <4>3 DEF LimitAt
      <4> QED
        BY SMTT(60), <1>1, <2>2, <4>1, <4>2, <4>4 DEF Within
    <3> QED
      BY <3>1, <3>2
  <2>6. Within(start', Frontier', session, at, at + Len(full))
    <3>0. /\ FrameLen \in Nat /\ Len(acc) \in Nat /\ period.frames \in Nat
          /\ off \in Nat /\ period.pos \in Nat /\ at \in Nat /\ take \in Nat
          /\ at + Len(acc) = period.pos + off
          /\ take = period.frames - off \/ take = FrameLen - Len(acc)
      BY <1>1, <2>2, <2>3, SizesAssumption
    <3>1. at + Len(full) = period.pos + off + take /\ at + Len(full) \in Nat
      BY SMTT(60), <2>4, <3>0, FillEnds
    <3> QED
      BY <1>2, <2>2, <2>5, <3>1
  <2>7. /\ framePos' = at /\ acc' = full /\ UNCHANGED <<session, nextPos, targets>>
    BY <1>7 DEF StageFill, OpusFill, at, full, take
  <2>8. full = Samples(at, Len(full))
    BY <2>4
  <2>9. CASE Len(full) < FrameLen
    <3>1. stPc' = "read"
      BY <1>7, <2>9 DEF StageFill, OpusFill, PeriodDone, full, take
    <3>2. /\ FrameLen \in Nat /\ Len(acc) \in Nat /\ period.frames \in Nat
          /\ off \in Nat /\ period.pos \in Nat /\ at \in Nat /\ take \in Nat
          /\ at + Len(acc) = period.pos + off /\ Len(acc) + take < FrameLen
          /\ take = period.frames - off \/ take = FrameLen - Len(acc)
      BY <1>1, <2>2, <2>3, <2>4, <2>9, SizesAssumption
    <3>3. at + Len(full) = nextPos
      <4>1. at + (Len(acc) + take) = period.pos + period.frames
        BY <3>2, FillEnds
      <4> QED
        BY <2>1, <2>4, <4>1
    <3>4. AccInv'
      BY <1>7, <2>6, <2>7, <2>8, <2>9, <3>1, <3>3 DEF AccInv
    <3> QED
      BY <3>1, <3>4 DEF StageInv
  <2>10. CASE ~(Len(full) < FrameLen)
    <3>1. \/ /\ stPc' = "push" /\ off' = off + take /\ period' = period
             /\ frame' = [pos |-> at, session |-> session, samples |-> full, run |-> encRun]
          \/ stPc' = "fault"
      BY <1>7, <2>10 DEF StageFill, OpusFill, take, at, full
    <3>2. Len(full) = FrameLen
      BY <1>1, <2>2, <2>4, <2>10, SizesAssumption
    <3>3. off + take <= period.frames
      BY <1>1, <2>2
    <3>4. CASE stPc' = "fault"
      BY <3>4 DEF StageInv, AccInv
    <3>5. CASE stPc' # "fault"
      <4>1. /\ frame'.pos = at /\ frame'.session = session /\ frame'.samples = full
        BY <3>1, <3>5
      <4>2. FrameOK(start', Frontier', frame')
        BY <1>7, <2>6, <2>8, <3>2, <4>1 DEF FrameOK, WellFormed
      <4> QED
        BY <1>2, <1>1, <2>1, <2>7, <3>1, <3>3, <3>5, <4>2 DEF StageInv, AccInv
    <3> QED
      BY <3>4, <3>5
  <2> QED
    BY <2>9, <2>10
<1>8. CASE StageFill /\ More /\ Mode # "opus"
  <2>1. /\ stPc = "fill" /\ PeriodOK(start, Frontier, period) /\ session = period.session
        /\ off < period.frames
    BY <1>8 DEF StageFill, StageInv, More
  <2>2. /\ PcmTake \in Nat /\ PcmTake > 0 /\ PcmTake <= FrameLen
        /\ off + PcmTake <= period.frames
    BY SMTT(60), <1>1, <2>1, SizesAssumption DEF PcmTake, Lesser
  <2>3. /\ stPc' = "push" /\ off' = off + PcmTake
        /\ UNCHANGED <<framePos, acc, period, session, nextPos, targets>>
        /\ frame' = [pos |-> period.pos + off, session |-> session,
                     samples |-> Samples(period.pos + off, PcmTake), run |-> encRun]
    BY <1>8 DEF StageFill, PcmFill
  <2>4. Len(Samples(period.pos + off, PcmTake)) = PcmTake
    <3>1. period.pos + off \in Nat
      BY <1>1
    <3> QED
      BY <2>2, <3>1, SamplesType
  <2>5. /\ frame'.pos = period.pos + off /\ frame'.session = period.session
        /\ frame'.samples = Samples(period.pos + off, PcmTake)
    BY <2>1, <2>3
  <2>6. Within(start', Frontier', period.session, period.pos + off, period.pos + off + PcmTake)
    <3>1. /\ period.pos + off \in Nat /\ period.pos + off + PcmTake \in Nat
          /\ period.pos <= period.pos + off
          /\ period.pos + off + PcmTake <= period.pos + period.frames
      BY SMTT(60), <1>1, <2>2
    <3>2. Frontier \in Nat
      BY <1>0 DEF Grows
    <3>3. Within(start, Frontier, period.session, period.pos + off, period.pos + off + PcmTake)
      BY <1>1, <2>1, <3>1, <3>2, SubRun
    <3> QED
      BY <1>2, <3>1, <3>3
  <2>7. FrameOK(start', Frontier', frame')
    BY <1>8, <2>2, <2>4, <2>5, <2>6, SizesAssumption DEF FrameOK, WellFormed
  <2> QED
    BY <1>1, <1>2, <1>8, <2>1, <2>2, <2>3, <2>7 DEF StageInv, AccInv
<1>9. CASE StageFill /\ ~More
  <2>1. /\ stPc = "fill" /\ stPc' = "read" /\ off <= period.frames /\ ~(off < period.frames)
        /\ UNCHANGED <<framePos, acc, session, nextPos>>
    BY <1>9 DEF StageFill, PeriodDone, More, StageInv
  <2>2. off = period.frames
    BY <1>1, <2>1
  <2>3. AccInv'
    BY <1>1, <1>2, <1>3, <2>1, <2>2, ModeAssumption DEF StageInv, AccInv
  <2> QED
    BY <2>1, <2>3 DEF StageInv
<1>10. CASE StageFault
  BY <1>10 DEF StageFault, StageInv, AccInv
<1>11. CASE PushLoad
  <2>1. /\ stPc = "push" /\ stPc' = "send" /\ frame' = frame /\ UNCHANGED <<subState, epochOf>>
        /\ UNCHANGED <<period, off, session, nextPos>>
    BY <1>11 DEF PushLoad, feedVars, histVars, joinVars
  <2>2. frame.session # 0
    BY <2>1 DEF StageInv, FrameOK, Within
  <2>3. \A c \in targets' : subState[c] # "new" /\ epochOf[c] = frame.session
    BY <1>11, <2>2 DEF PushLoad, Deliverable, FeedInv
  <2> QED
    BY <1>1, <1>2, <2>1, <2>3 DEF StageInv, AccInv
<1>12. CASE PushDone
  <2>1. /\ stPc = "send" /\ UNCHANGED <<period, off, session, nextPos>>
        /\ (stPc' = "fault" \/ (stPc' = "fill" /\ acc' = <<>>))
    BY <1>12 DEF PushDone
  <2>2. AccInv'
    BY <2>1, SizesAssumption DEF AccInv
  <2> QED
    BY <1>1, <1>2, <2>1, <2>2 DEF StageInv
<1>13. ASSUME NEW c \in Subs, PushSend(c) PROVE StageInv'
  <2>1. /\ stPc = "send" /\ targets' \subseteq targets
        /\ UNCHANGED <<stPc, period, off, session, acc, framePos, nextPos, frame>>
        /\ UNCHANGED <<subState, epochOf>>
    BY <1>13 DEF PushSend, histVars, joinVars
  <2> QED
    BY <1>1, <1>2, <2>1 DEF StageInv, AccInv
<1>14. CASE /\ UNCHANGED <<stPc, period, off, session, acc, framePos, nextPos, frame, targets>>
            /\ \A c \in Subs : subState[c] # "new" =>
                  subState'[c] # "new" /\ epochOf'[c] = epochOf[c]
  <2>1. AccInv'
    BY <1>1, <1>2, <1>3, <1>14 DEF StageInv, AccInv
  <2>2. targets \in SUBSET Subs
    BY DEF TypeOK, StageType
  <2> QED
    BY <1>1, <1>2, <1>14, <2>1, <2>2 DEF StageInv
<1>15. \/ StageRead \/ StageAdmit \/ StageFill \/ StageFault \/ PushLoad \/ PushDone
       \/ \E c \in Subs : PushSend(c)
       \/ /\ UNCHANGED <<stPc, period, off, session, acc, framePos, nextPos, frame, targets>>
          /\ \A c \in Subs : subState[c] # "new" =>
                subState'[c] # "new" /\ epochOf'[c] = epochOf[c]
  <2>1. ASSUME NEW c \in Subs, Subscribe(c) \/ SubClose(c)
        PROVE  \A d \in Subs : subState[d] # "new" =>
                  subState'[d] # "new" /\ epochOf'[d] = epochOf[d]
    BY <2>1 DEF Subscribe, SubClose, TypeOK, FeedType, HistType, histVars, joinVars
  <2> QED
    BY ZenonT(60), <2>1 DEF Next, vars, feedVars, fanVars, stageVars, writerVars, histVars, joinVars,
           FanRead, FanGate, FanSend, FanEnd, FanClose, Shutdown, FeedClose, Subscribe,
           SubClose, ConnClose, NextCheck, NextSelect, Write
<1> QED
  BY <1>4, <1>5, <1>6, <1>7, <1>8, <1>9, <1>10, <1>11, <1>12, <1>13, <1>14, <1>15

\* The packets a writer sent.
LEMMA PacketTypes == \A p \in Packet : p.pos \in Nat /\ p.samples \in Seq(Nat)
  BY DEF Packet

\* The clients' part: what is queued, in the writer's hands and sent.
LEMMA ClientStep == IsolationInv /\ [Next]_vars => ClientInv'
<1> SUFFICES ASSUME IsolationInv, [Next]_vars PROVE ClientInv'
  OBVIOUS
<1> USE DEF IsolationInv
<1>0. Grows /\ TypeOK'
  BY StepGrows, TypeStep
<1>1. /\ start \in Seq(Nat) /\ frame \in Frame /\ subState \in [Subs -> {"new", "open", "closed"}]
      /\ queue \in [Subs -> Seq(Frame)] /\ wPc \in [Subs -> {"none", "check", "select", "write", "exit"}]
      /\ wFrame \in [Subs -> Frame] /\ heard \in [Subs -> Seq(Packet)] /\ epochOf \in [Subs -> Nat]
  BY DEF TypeOK, FeedType, StageType, WriterType, HistType
<1>2. /\ \A f \in Frame : FrameOK(start, Frontier, f) => FrameOK(start', Frontier', f)
      /\ \A f \in Packet : FrameOK(start, Frontier, f) => FrameOK(start', Frontier', f)
  BY <1>0, <1>1, AudioStable, RecordTypes, PacketTypes
<1> DEFINE Good(f, e) == FrameOK(start', Frontier', f) /\ f.session = e
           QueueOK(q, e) == \A i \in DOMAIN q : Good(q[i], e)
           WriterOK(p, f, e) == p = "write" => Good(f, e)
<1>3. \A c \in Subs : /\ QueueOK(queue[c], epochOf[c])
                      /\ WriterOK(wPc[c], wFrame[c], epochOf[c])
                      /\ QueueOK(heard[c], epochOf[c])
  <2> SUFFICES ASSUME NEW c \in Subs
               PROVE  /\ QueueOK(queue[c], epochOf[c])
                      /\ WriterOK(wPc[c], wFrame[c], epochOf[c])
                      /\ QueueOK(heard[c], epochOf[c])
    OBVIOUS
  <2>1. queue[c] \in Seq(Frame) /\ wFrame[c] \in Frame /\ heard[c] \in Seq(Packet)
    BY <1>1
  <2>2. /\ \A i \in DOMAIN queue[c] : queue[c][i] \in Frame
        /\ \A i \in DOMAIN heard[c] : heard[c][i] \in Packet
    BY <2>1
  <2> QED
    BY <1>2, <2>1, <2>2 DEF ClientInv
<1>4. SUFFICES \A c \in Subs : /\ QueueOK(queue'[c], epochOf'[c])
                               /\ WriterOK(wPc'[c], wFrame'[c], epochOf'[c])
                               /\ QueueOK(heard'[c], epochOf'[c])
  BY DEF ClientInv
<1> HIDE DEF Good
<1>5. ASSUME NEW c \in Subs, NEW d \in Subs, Subscribe(c)
      PROVE  /\ QueueOK(queue'[d], epochOf'[d])
             /\ WriterOK(wPc'[d], wFrame'[d], epochOf'[d])
             /\ QueueOK(heard'[d], epochOf'[d])
  <2>1. CASE d = c
    <3>1. queue'[d] = <<>> /\ heard'[d] = <<>> /\ wPc'[d] = "check"
      BY <1>1, <1>5, <2>1 DEF Subscribe, FeedInv
    <3> QED
      BY <3>1
  <2>2. CASE d # c
    <3>1. /\ queue'[d] = queue[d] /\ heard'[d] = heard[d] /\ wPc'[d] = wPc[d]
          /\ wFrame'[d] = wFrame[d] /\ epochOf'[d] = epochOf[d]
      BY <1>1, <1>5, <2>2 DEF Subscribe
    <3> QED
      BY <1>3, <3>1
  <2> QED
    BY <2>1, <2>2
<1>6. ASSUME NEW c \in Subs, NEW d \in Subs, PushSend(c)
      PROVE  /\ QueueOK(queue'[d], epochOf'[d])
             /\ WriterOK(wPc'[d], wFrame'[d], epochOf'[d])
             /\ QueueOK(heard'[d], epochOf'[d])
  <2>1. /\ UNCHANGED <<wPc, wFrame, heard, epochOf>>
        /\ queue' = queue \/ queue' = [queue EXCEPT ![c] = Append(queue[c], frame)]
    BY <1>6 DEF PushSend, writerVars, histVars, joinVars
  <2>2. Good(frame, epochOf[c])
    <3>1. stPc = "send" /\ c \in targets
      BY <1>6 DEF PushSend
    <3>2. FrameOK(start, Frontier, frame) /\ epochOf[c] = frame.session
      BY <3>1 DEF StageInv
    <3> QED
      BY <1>1, <1>2, <3>2 DEF Good
  <2>3. QueueOK(queue'[d], epochOf'[d])
    <3>1. CASE queue'[d] = queue[d]
      BY <1>3, <2>1, <3>1
    <3>2. CASE d = c /\ queue'[d] = Append(queue[d], frame)
      <4>1. queue[d] \in Seq(Frame)
        BY <1>1
      <4>2. \A i \in DOMAIN Append(queue[d], frame) :
              \/ i \in DOMAIN queue[d] /\ Append(queue[d], frame)[i] = queue[d][i]
              \/ Append(queue[d], frame)[i] = frame
        BY <4>1
      <4> QED
        BY <1>3, <2>1, <2>2, <3>2, <4>2
    <3> QED
      BY <1>1, <2>1, <3>1, <3>2
  <2> QED
    BY <1>3, <2>1, <2>3
<1>7. ASSUME NEW c \in Subs, NEW d \in Subs, NextCheck(c)
      PROVE  /\ QueueOK(queue'[d], epochOf'[d])
             /\ WriterOK(wPc'[d], wFrame'[d], epochOf'[d])
             /\ QueueOK(heard'[d], epochOf'[d])
  <2>1. UNCHANGED <<queue, heard, epochOf>>
    BY <1>7 DEF NextCheck, feedVars, histVars, joinVars
  <2>2. wPc'[d] # "write" \/ (wPc'[d] = wPc[d] /\ wFrame'[d] = wFrame[d])
    BY <1>1, <1>7 DEF NextCheck, WriterExit
  <2> QED
    BY <1>3, <2>1, <2>2
<1>8. ASSUME NEW c \in Subs, NEW d \in Subs, NextSelect(c)
      PROVE  /\ QueueOK(queue'[d], epochOf'[d])
             /\ WriterOK(wPc'[d], wFrame'[d], epochOf'[d])
             /\ QueueOK(heard'[d], epochOf'[d])
  <2>1. UNCHANGED <<heard, epochOf>>
    BY <1>8 DEF NextSelect, histVars, joinVars
  <2>2. \/ /\ queue'[d] = queue[d]
           /\ wPc'[d] # "write" \/ (wPc'[d] = wPc[d] /\ wFrame'[d] = wFrame[d])
        \/ /\ queue[d] # <<>> /\ queue'[d] = Tail(queue[d]) /\ wFrame'[d] = Head(queue[d])
    BY <1>1, <1>8 DEF NextSelect, WriterExit
  <2>3. CASE queue[d] # <<>> /\ queue'[d] = Tail(queue[d]) /\ wFrame'[d] = Head(queue[d])
    <3>1. queue[d] \in Seq(Frame)
      BY <1>1
    <3>2. /\ 1 \in DOMAIN queue[d] /\ Head(queue[d]) = queue[d][1]
          /\ \A i \in DOMAIN Tail(queue[d]) :
               i + 1 \in DOMAIN queue[d] /\ Tail(queue[d])[i] = queue[d][i + 1]
      BY <2>3, <3>1
    <3> QED
      BY <1>3, <2>1, <2>3, <3>2
  <2> QED
    BY <1>3, <2>1, <2>2, <2>3
<1>9. ASSUME NEW c \in Subs, NEW d \in Subs, Write(c)
      PROVE  /\ QueueOK(queue'[d], epochOf'[d])
             /\ WriterOK(wPc'[d], wFrame'[d], epochOf'[d])
             /\ QueueOK(heard'[d], epochOf'[d])
  <2>1. UNCHANGED <<queue, epochOf>> /\ wPc[c] = "write"
    BY <1>9 DEF Write, feedVars, histVars, joinVars
  <2>2. wPc'[d] # "write" \/ (wPc'[d] = wPc[d] /\ wFrame'[d] = wFrame[d])
    BY <1>1, <1>9 DEF Write, WriterExit
  <2> DEFINE pkt == [pos |-> wFrame[c].pos, session |-> wFrame[c].session,
                     samples |-> wFrame[c].samples, run |-> wFrame[c].run,
                     ts |-> Timestamp(wFrame[c].pos, Base(c))]
  <2>3. Good(pkt, epochOf[c])
    <3>1. Good(wFrame[c], epochOf[c])
      BY <1>3, <2>1
    <3>2. /\ pkt.pos = wFrame[c].pos /\ pkt.session = wFrame[c].session
          /\ pkt.samples = wFrame[c].samples
      OBVIOUS
    <3> HIDE DEF pkt
    <3> QED
      BY <3>1, <3>2 DEF Good, FrameOK, WellFormed
  <2>4. heard' = heard \/ heard' = [heard EXCEPT ![c] = Append(heard[c], pkt)]
    BY <1>9 DEF Write
  <2> HIDE DEF pkt
  <2>5. QueueOK(heard'[d], epochOf'[d])
    <3>1. CASE heard'[d] = heard[d]
      BY <1>3, <2>1, <3>1
    <3>2. CASE d = c /\ heard'[d] = Append(heard[d], pkt)
      <4>1. heard[d] \in Seq(Packet)
        BY <1>1
      <4>2. \A i \in DOMAIN Append(heard[d], pkt) :
              \/ i \in DOMAIN heard[d] /\ Append(heard[d], pkt)[i] = heard[d][i]
              \/ Append(heard[d], pkt)[i] = pkt
        BY <4>1
      <4> QED
        BY <1>3, <2>1, <2>3, <3>2, <4>2
    <3> QED
      BY <1>1, <2>4, <3>1, <3>2
  <2> QED
    BY <1>3, <2>1, <2>2, <2>5
<1>10. CASE UNCHANGED <<queue, wPc, wFrame, heard, epochOf>>
  BY <1>3, <1>10
<1>11. \/ \E c \in Subs : \/ Subscribe(c) \/ PushSend(c)
                          \/ NextCheck(c) \/ NextSelect(c) \/ Write(c)
       \/ UNCHANGED <<queue, wPc, wFrame, heard, epochOf>>
  BY DEF Next, vars, feedVars, writerVars, histVars, joinVars, FanRead, FanGate, FanSend,
         FanEnd, FanClose, StageRead, StageAdmit, StageFill, StageFault, PushLoad,
         PushDone, Shutdown, FeedClose, SubClose, ConnClose
<1> QED
  BY <1>5, <1>6, <1>7, <1>8, <1>9, <1>10, <1>11

-----------------------------------------------------------------------------
(* Session isolation: the theorem *)

\* The initial state: nothing has been captured, nobody plays.
LEMMA InitIsolation == Init => IsolationInv
<1> SUFFICES ASSUME Init PROVE IsolationInv
  OBVIOUS
<1>1. TypeOK
  BY InitType
<1>2. Len(start) = 0 /\ start = <<>> /\ DOMAIN ch = {}
  BY DEF Init
<1>3. FeedInv
  BY <1>2 DEF Init, FeedInv, Active
<1>4. FanInv
  BY <1>2 DEF Init, FanInv
<1>5. StageInv
  BY SizesAssumption DEF Init, StageInv, AccInv
<1>6. ClientInv
  <2>1. \A c \in Subs : /\ queue[c] = <<>> /\ heard[c] = <<>> /\ wPc[c] = "none"
    BY DEF Init
  <2> QED
    BY <2>1 DEF ClientInv
<1> QED
  BY <1>1, <1>3, <1>4, <1>5, <1>6 DEF IsolationInv

\* Every object that carries audio always lies within its play session.
THEOREM IsolationInvariant == Spec => []IsolationInv
<1>1. IsolationInv /\ [Next]_vars => IsolationInv'
  BY TypeStep, FeedStep, FanStepInv, StageStepInv, ClientStep DEF IsolationInv
<1> QED
  BY InitIsolation, <1>1, PTL DEF Spec

\* What the invariant says about every frame of a client's line.
LEMMA LineFrames ==
    ASSUME IsolationInv, NEW c \in Subs, NEW i \in DOMAIN Line(c)
    PROVE  /\ Line(c)[i].pos \in Nat /\ Line(c)[i].samples \in Seq(Nat)
           /\ FrameOK(start, Frontier, Line(c)[i])
           /\ Line(c)[i].session = epochOf[c]
<1> DEFINE Good(f) == /\ f.pos \in Nat /\ f.samples \in Seq(Nat)
                      /\ FrameOK(start, Frontier, f) /\ f.session = epochOf[c]
           T == {f \in Packet \cup Frame : Good(f)}
           h == heard[c]
           w == IF wPc[c] = "write" THEN <<wFrame[c]>> ELSE <<>>
           q == queue[c]
<1>1. heard[c] \in Seq(Packet) /\ queue[c] \in Seq(Frame) /\ wFrame[c] \in Frame
  BY DEF IsolationInv, TypeOK, FeedType, WriterType
<1>2. /\ \A j \in DOMAIN h : h[j] \in T
      /\ \A j \in DOMAIN q : q[j] \in T
      /\ wPc[c] = "write" => wFrame[c] \in T
  BY <1>1, RecordTypes, PacketTypes DEF IsolationInv, ClientInv
<1> HIDE DEF Good
<1>3. h \in Seq(T) /\ q \in Seq(T)
  BY <1>1, <1>2
<1>4. w \in Seq(T)
  BY <1>2
<1> HIDE DEF T, h, w, q
<1>5. (h \o w) \o q \in Seq(T)
  BY <1>3, <1>4
<1>6. Line(c) = (h \o w) \o q
  BY DEF Line, h, w, q
<1>7. Line(c)[i] \in T
  BY <1>5, <1>6
<1> QED
  BY <1>7 DEF T, Good

\* The audio a client is given is the audio of its own stretch of playing,
\* whatever the clients and the run loop do to the feed (feed.go Push,
\* pipeline.go admit and Run, fanout.go distribute).
THEOREM SessionsIsolated == Spec => []SessionIsolation
<1>1. IsolationInv => SessionIsolation
  <2> SUFFICES ASSUME IsolationInv, NEW c \in Subs, NEW i \in DOMAIN Line(c)
               PROVE  /\ Line(c)[i].session = epochOf[c]
                      /\ \A k \in DOMAIN Line(c)[i].samples :
                            InSession(Line(c)[i].samples[k], epochOf[c])
    BY DEF SessionIsolation
  <2>1. PICK f : f = Line(c)[i]
    OBVIOUS
  <2>2. /\ f.pos \in Nat /\ f.samples \in Seq(Nat)
        /\ FrameOK(start, Frontier, f) /\ f.session = epochOf[c]
    BY <2>1, LineFrames
  <2>3. ASSUME NEW k \in DOMAIN f.samples PROVE InSession(f.samples[k], epochOf[c])
    <3>1. /\ f.samples = Samples(f.pos, Len(f.samples))
          /\ Within(start, Frontier, epochOf[c], f.pos, f.pos + Len(f.samples))
      BY <2>2 DEF FrameOK, WellFormed
    <3>2. Len(f.samples) \in Nat /\ k \in 1 .. Len(f.samples)
      BY <2>2
    <3>3. f.samples[k] = f.pos + k - 1
      BY <2>2, <3>1, <3>2, SamplesType
    <3>4. /\ f.samples[k] \in Nat /\ f.pos <= f.samples[k]
          /\ f.samples[k] + 1 <= f.pos + Len(f.samples)
      BY <2>2, <3>2, <3>3
    <3>5. start \in Seq(Nat) /\ Frontier \in Nat
      BY RecordTypes DEF IsolationInv, TypeOK, HistType, FanType, Frontier
    <3>6. /\ epochOf[c] \in 1 .. Len(start) /\ start[epochOf[c]] <= f.pos
          /\ f.pos + Len(f.samples) <= LimitAt(start, Frontier, epochOf[c])
      BY <3>1 DEF Within
    <3>7. start[epochOf[c]] \in Nat /\ LimitAt(start, Frontier, epochOf[c]) \in Nat
      BY <3>5, <3>6 DEF LimitAt
    <3>8. /\ start[epochOf[c]] <= f.samples[k]
          /\ f.samples[k] + 1 <= LimitAt(start, Frontier, epochOf[c])
      BY <2>2, <3>2, <3>4, <3>6, <3>7
    <3> QED
      BY <3>6, <3>8 DEF InSession, Within
  <2> QED
    BY <2>1, <2>2, <2>3
<1> QED
  BY <1>1, IsolationInvariant, PTL

\* Nor is a frame ever joined over audio that was dropped inside it
\* (pipeline.go's position check before the accumulator is filled on).
THEOREM NothingSpliced == Spec => []NoSplice
<1>1. IsolationInv => NoSplice
  BY LineFrames DEF NoSplice, FrameOK
<1> QED
  BY <1>1, IsolationInvariant, PTL

=============================================================================
