--------------------------- MODULE PlayOrderProofs ---------------------------
(***************************************************************************)
(* More about one stream's media path: after the device is gone a client   *)
(* gets at most one packet, clients share an encoder run exactly when they *)
(* share a play session, a client's frames are in capture order, its       *)
(* timestamps follow the audio, the whole path implements LiveAudio, and   *)
(* the audio a client is sent has a gap only where the stream's drop       *)
(* counter shows a loss.                                                   *)
(***************************************************************************)
EXTENDS PlaySessionProofs

-----------------------------------------------------------------------------
(* After the device is gone *)

\* What appending to a channel and receiving from it make of its elements.
LEMMA ChannelElements ==
    ASSUME NEW S, NEW q \in Seq(S), NEW x \in S
    PROVE  /\ DOMAIN q = 1 .. Len(q) /\ Len(q) \in Nat
           /\ \A i \in DOMAIN q : q[i] \in S
           /\ DOMAIN Append(q, x) = 1 .. Len(q) + 1
           /\ \A i \in DOMAIN q : Append(q, x)[i] = q[i]
           /\ Append(q, x)[Len(q) + 1] = x
<1>1. Append(q, x) \in Seq(S) /\ Len(Append(q, x)) = Len(q) + 1
  BY ChannelOps
<1>2. \A i \in 1 .. Len(q) : Append(q, x)[i] = q[i]
  OBVIOUS
<1>3. Append(q, x)[Len(q) + 1] = x
  OBVIOUS
<1>4. DOMAIN Append(q, x) = 1 .. Len(q) + 1
  BY <1>1
<1>5. DOMAIN q = 1 .. Len(q) /\ Len(q) \in Nat /\ \A i \in DOMAIN q : q[i] \in S
  OBVIOUS
<1> QED
  BY <1>2, <1>3, <1>4, <1>5

\* Likewise for receiving from it.
LEMMA ReceivedElements ==
    ASSUME NEW S, NEW q \in Seq(S), q # <<>>
    PROVE  /\ 1 \in DOMAIN q /\ Head(q) = q[1]
           /\ DOMAIN q = 1 .. Len(q) /\ Len(q) \in Nat
           /\ DOMAIN Tail(q) = 1 .. Len(q) - 1
           /\ \A i \in DOMAIN Tail(q) : i + 1 \in DOMAIN q /\ Tail(q)[i] = q[i + 1]
<1>1. Tail(q) \in Seq(S) /\ Len(Tail(q)) = Len(q) - 1
  OBVIOUS
<1>2. \A i \in 1 .. Len(q) - 1 : Tail(q)[i] = q[i + 1]
  OBVIOUS
<1>3. 1 \in DOMAIN q /\ Head(q) = q[1] /\ DOMAIN q = 1 .. Len(q) /\ Len(q) \in Nat
  OBVIOUS
<1>4. DOMAIN Tail(q) = 1 .. Len(q) - 1
  BY <1>1
<1> QED
  BY <1>2, <1>3, <1>4

-----------------------------------------------------------------------------
(* The end of a stream *)

\* A writer that found the feed open may still send what it is about to select
\* or has selected.
ClosureInv ==
    done => \A c \in Subs :
        Len(heard[c]) <= closedAt[c] + (IF wPc[c] \in {"select", "write"} THEN 0 ELSE 1)

\* Every step keeps the count.
LEMMA ClosureStep == ASSUME TypeOK, ClosureInv, [Next]_vars PROVE ClosureInv'
<1>1. /\ done \in BOOLEAN /\ closedAt \in [Subs -> Nat] /\ heard \in [Subs -> Seq(Packet)]
      /\ wPc \in [Subs -> {"none", "check", "select", "write", "exit"}]
      /\ \A c \in Subs : Len(heard[c]) \in Nat
  BY DEF TypeOK, FeedType, WriterType, HistType
<1>2. CASE FeedClose
  <2>1. closedAt' = [c \in Subs |-> Len(heard[c])] /\ UNCHANGED <<heard, wPc>>
    BY <1>2 DEF FeedClose, writerVars
  <2> QED
    BY <1>1, <2>1 DEF ClosureInv
<1>3. CASE \E c \in Subs : Subscribe(c)
  <2>1. ~done'
    BY <1>1, <1>3 DEF Subscribe
  <2> QED
    BY <2>1 DEF ClosureInv
<1>4. ASSUME NEW c \in Subs, NextCheck(c) PROVE ClosureInv'
  <2>1. /\ wPc[c] = "check" /\ wPc' = [wPc EXCEPT ![c] = IF done THEN "exit" ELSE "select"]
        /\ UNCHANGED <<done, closedAt, heard>>
    BY <1>4 DEF NextCheck, WriterExit, feedVars, histVars
  <2> QED
    BY <1>1, <2>1 DEF ClosureInv
<1>5. ASSUME NEW c \in Subs, NextSelect(c) PROVE ClosureInv'
  <2>1. /\ wPc[c] = "select" /\ \E pc \in {"exit", "write"} : wPc' = [wPc EXCEPT ![c] = pc]
        /\ UNCHANGED <<done, closedAt, heard>>
    BY <1>5 DEF NextSelect, WriterExit, histVars
  <2> QED
    BY <1>1, <2>1 DEF ClosureInv
<1>6. ASSUME NEW c \in Subs, Write(c) PROVE ClosureInv'
  <2> DEFINE pkt == [pos |-> wFrame[c].pos, session |-> wFrame[c].session,
                     samples |-> wFrame[c].samples, run |-> wFrame[c].run,
                     ts |-> Timestamp(wFrame[c].pos, Base(c))]
  <2>1. /\ wPc[c] = "write" /\ \E pc \in {"check", "exit"} : wPc' = [wPc EXCEPT ![c] = pc]
        /\ heard' = heard \/ heard' = [heard EXCEPT ![c] = Append(heard[c], pkt)]
        /\ UNCHANGED <<done, closedAt>>
    BY <1>6 DEF Write, WriterExit, feedVars, histVars
  <2>2. Len(Append(heard[c], pkt)) = Len(heard[c]) + 1
    BY <1>1
  <2>3. \A d \in Subs : heard'[d] = heard[d] \/ (d = c /\ Len(heard'[d]) = Len(heard[d]) + 1)
    BY <1>1, <2>1, <2>2
  <2> HIDE DEF pkt
  <2> QED
    BY <1>1, <2>1, <2>3 DEF ClosureInv
<1>7. CASE UNCHANGED <<done, closedAt, heard, wPc>>
  BY <1>7 DEF ClosureInv
<1>8. \/ FeedClose \/ \E c \in Subs : Subscribe(c) \/ NextCheck(c) \/ NextSelect(c) \/ Write(c)
      \/ UNCHANGED <<done, closedAt, heard, wPc>>
  BY DEF Next, vars, feedVars, writerVars, histVars, FanRead, FanGate, FanSend,
         FanEnd, FanClose, StageRead, StageAdmit, StageFill, StageFault, PushLoad,
         PushDone, Shutdown, SubClose, ConnClose, PushSend
<1> QED
  BY <1>2, <1>3, <1>4, <1>5, <1>6, <1>7, <1>8

\* Once the device is gone a client is sent at most the one packet its writer
\* had committed to (feed.go Next's first select, writer.go runWriter).
THEOREM ClosureIsFinal == Spec => []ClosureStopsAudio
<1>1. Init => TypeOK /\ ClosureInv
  BY InitType DEF Init, ClosureInv
<1>2. TypeOK /\ ClosureInv /\ [Next]_vars => TypeOK' /\ ClosureInv'
  BY TypeStep, ClosureStep
<1>3. TypeOK /\ ClosureInv => ClosureStopsAudio
  BY DEF TypeOK, WriterType, HistType, ClosureInv, ClosureStopsAudio
<1> QED
  BY <1>1, <1>2, <1>3, PTL DEF Spec

-----------------------------------------------------------------------------
(* Encoder runs *)

\* Sequence q has a frame of play session e and encoder run r.
Holds(q, e, r) == \E i \in DOMAIN q : q[i].session = e /\ q[i].run = r

\* Such a frame is on client c's line.
OnLine(c, e, r) ==
    \/ Holds(heard[c], e, r) \/ Holds(queue[c], e, r)
    \/ wPc[c] = "write" /\ wFrame[c].session = e /\ wFrame[c].run = r

\* Such a frame is on some client's line, or in the stage's hands.
Made(e, r) ==
    \/ \E c \in Subs : OnLine(c, e, r)
    \/ stPc \in {"push", "send"} /\ frame.session = e /\ frame.run = r

\* Frames of one play session are of one encoder run, and the other way round;
\* the session encoded now and its run are the last of theirs.
RunInv ==
    /\ session <= snap.epoch
    /\ \A e, r \in Nat : Made(e, r) => e <= session
    /\ Mode = "opus" =>
          /\ \A e, r \in Nat : Made(e, r) => r <= encRun /\ (e = session <=> r = encRun)
          /\ \A e, r, f, s \in Nat : Made(e, r) /\ Made(f, s) => (e = f <=> r = s)

\* What appending adds to what a sequence holds.
LEMMA HoldsAppended ==
    ASSUME NEW S, NEW q \in Seq(S), NEW x \in S, NEW e, NEW r, Holds(Append(q, x), e, r)
    PROVE  Holds(q, e, r) \/ (x.session = e /\ x.run = r)
<1>1. PICK i \in DOMAIN Append(q, x) : Append(q, x)[i].session = e /\ Append(q, x)[i].run = r
  BY DEF Holds
<1>2. \/ i \in DOMAIN q /\ Append(q, x)[i] = q[i]
      \/ Append(q, x)[i] = x
  <2>1. /\ DOMAIN q = 1 .. Len(q) /\ Len(q) \in Nat /\ DOMAIN Append(q, x) = 1 .. Len(q) + 1
        /\ \A j \in DOMAIN q : Append(q, x)[j] = q[j]
        /\ Append(q, x)[Len(q) + 1] = x
    BY ChannelElements
  <2>2. i \in DOMAIN q \/ i = Len(q) + 1
    BY <2>1
  <2> QED
    BY <2>1, <2>2
<1> QED
  BY <1>1, <1>2 DEF Holds

\* Only the stage makes a frame, of the session and run it is in.
LEMMA MadeByStage ==
    ASSUME TypeOK, [Next]_vars, NEW e \in Nat, NEW r \in Nat, Made(e, r)'
    PROVE  Made(e, r) \/ (stPc = "fill" /\ e = session /\ r = encRun)
<1>1. /\ frame \in Frame /\ queue \in [Subs -> Seq(Frame)] /\ wFrame \in [Subs -> Frame]
      /\ heard \in [Subs -> Seq(Packet)]
      /\ wPc \in [Subs -> {"none", "check", "select", "write", "exit"}]
  BY DEF TypeOK, FeedType, StageType, WriterType
<1> DEFINE New == stPc = "fill" /\ e = session /\ r = encRun
<1>2. CASE stPc' \in {"push", "send"} /\ frame'.session = e /\ frame'.run = r
  <2>1. CASE UNCHANGED <<stPc, frame>>
    BY <1>2, <2>1 DEF Made
  <2>2. CASE StageFill
    BY <1>2, <2>2 DEF StageFill, OpusFill, PcmFill, PeriodDone
  <2>3. CASE PushLoad
    BY <1>2, <2>3 DEF PushLoad, Made
  <2>4. CASE StageRead \/ StageAdmit \/ StageFault \/ PushDone
    BY <1>2, <2>4 DEF StageRead, StageAdmit, StageFault, PushDone
  <2>5. \/ UNCHANGED <<stPc, frame>> \/ StageFill \/ PushLoad
        \/ StageRead \/ StageAdmit \/ StageFault \/ PushDone
    BY DEF Next, vars, stageVars, FanRead, FanGate, FanSend, FanEnd, FanClose, Subscribe, SubClose,
           ConnClose, Shutdown, FeedClose, PushSend, NextCheck, NextSelect, Write
  <2> QED
    BY <2>1, <2>2, <2>3, <2>4, <2>5
<1>3. ASSUME NEW d \in Subs, OnLine(d, e, r)' PROVE Made(e, r)
  <2>1. CASE UNCHANGED <<queue, wPc, wFrame, heard>>
    BY <1>3, <2>1 DEF Made, OnLine, Holds
  <2>2. CASE \E c \in Subs : Subscribe(c) \/ NextCheck(c)
    <3>1. /\ UNCHANGED <<queue, heard>>
          /\ wPc'[d] # "write" \/ (wPc'[d] = wPc[d] /\ wFrame'[d] = wFrame[d])
      BY <1>1, <2>2 DEF Subscribe, NextCheck, WriterExit, feedVars
    <3> QED
      BY <1>3, <3>1 DEF Made, OnLine, Holds
  <2>3. ASSUME NEW c \in Subs, PushSend(c) PROVE Made(e, r)
    <3>1. /\ stPc = "send" /\ UNCHANGED <<wPc, wFrame, heard>>
          /\ queue' = queue \/ queue' = [queue EXCEPT ![c] = Append(queue[c], frame)]
      BY <2>3 DEF PushSend, writerVars
    <3>2. queue'[d] = queue[d] \/ (d = c /\ queue'[d] = Append(queue[d], frame))
      BY <1>1, <3>1
    <3>3. queue[d] \in Seq(Frame)
      BY <1>1
    <3>4. Holds(queue'[d], e, r) => Holds(queue[d], e, r) \/ (frame.session = e /\ frame.run = r)
      <4>1. Holds(Append(queue[d], frame), e, r) => Holds(queue[d], e, r) \/ (frame.session = e /\ frame.run = r)
        BY <1>1, <3>3, HoldsAppended
      <4> QED
        BY <3>2, <4>1
    <3> QED
      BY <1>3, <3>1, <3>4 DEF Made, OnLine
  <2>4. ASSUME NEW c \in Subs, NextSelect(c) PROVE Made(e, r)
    <3>1. heard' = heard
      BY <2>4 DEF NextSelect
    <3>2. \/ /\ queue'[d] = queue[d]
             /\ wPc'[d] # "write" \/ (wPc'[d] = wPc[d] /\ wFrame'[d] = wFrame[d])
          \/ queue[d] # <<>> /\ queue'[d] = Tail(queue[d]) /\ wFrame'[d] = Head(queue[d])
      BY <1>1, <2>4 DEF NextSelect, WriterExit
    <3>3. CASE queue[d] # <<>> /\ queue'[d] = Tail(queue[d]) /\ wFrame'[d] = Head(queue[d])
      <4>1. queue[d] \in Seq(Frame)
        BY <1>1
      <4>2. /\ 1 \in DOMAIN queue[d] /\ wFrame'[d] = queue[d][1]
            /\ \A i \in DOMAIN queue'[d] : i + 1 \in DOMAIN queue[d] /\ queue'[d][i] = queue[d][i + 1]
        BY <3>3, <4>1, ReceivedElements
      <4>3. OnLine(d, e, r)
        BY <1>3, <3>1, <4>2 DEF OnLine, Holds
      <4> QED
        BY <4>3 DEF Made
    <3> QED
      BY <1>3, <3>1, <3>2, <3>3 DEF Made, OnLine, Holds
  <2>5. ASSUME NEW c \in Subs, Write(c) PROVE Made(e, r)
    <3> DEFINE pkt == [pos |-> wFrame[c].pos, session |-> wFrame[c].session,
                       samples |-> wFrame[c].samples, run |-> wFrame[c].run,
                       ts |-> Timestamp(wFrame[c].pos, Base(c))]
    <3>1. /\ wPc[c] = "write" /\ queue' = queue
          /\ heard' = heard \/ heard' = [heard EXCEPT ![c] = Append(heard[c], pkt)]
      BY <2>5 DEF Write, feedVars
    <3>2. wPc'[d] # "write" \/ (wPc'[d] = wPc[d] /\ wFrame'[d] = wFrame[d])
      BY <1>1, <2>5 DEF Write, WriterExit
    <3>3. pkt.session = wFrame[c].session /\ pkt.run = wFrame[c].run
      OBVIOUS
    <3> HIDE DEF pkt
    <3>4. heard'[d] = heard[d] \/ (d = c /\ heard'[d] = Append(heard[d], pkt))
      BY <1>1, <3>1
    <3>5. heard[d] \in Seq(Packet \cup {pkt}) /\ pkt \in Packet \cup {pkt}
      BY <1>1
    <3>6. Holds(heard'[d], e, r) => Holds(heard[d], e, r) \/ (d = c /\ pkt.session = e /\ pkt.run = r)
      <4>1. Holds(Append(heard[d], pkt), e, r) => Holds(heard[d], e, r) \/ (pkt.session = e /\ pkt.run = r)
        BY <3>5, HoldsAppended
      <4> QED
        BY <3>4, <4>1
    <3>7. OnLine(d, e, r)
      BY <1>3, <3>1, <3>2, <3>3, <3>6 DEF OnLine
    <3> QED
      BY <3>7 DEF Made
  <2>6. \/ UNCHANGED <<queue, wPc, wFrame, heard>>
        \/ \E c \in Subs : Subscribe(c) \/ NextCheck(c) \/ PushSend(c) \/ NextSelect(c) \/ Write(c)
    BY DEF Next, vars, feedVars, writerVars, FanRead, FanGate, FanSend, FanEnd, FanClose, StageRead,
           StageAdmit, StageFill, StageFault, PushLoad, PushDone, Shutdown, FeedClose, SubClose, ConnClose
  <2> QED
    BY <2>1, <2>2, <2>3, <2>4, <2>5, <2>6
<1> QED
  BY <1>2, <1>3 DEF Made

\* What a step does to the sessions' numbers and to the encoder.
LEMMA EncoderStep ==
    ASSUME TypeOK, [Next]_vars, session <= snap.epoch
    PROVE  /\ session' <= snap'.epoch
           /\ \/ UNCHANGED <<session, encRun>>
              \/ /\ stPc = "admit" /\ session' = session
                 /\ Mode = "opus" => encRun' = encRun
              \/ /\ stPc = "admit" /\ session < session'
                 /\ Mode = "opus" => encRun' = encRun + 1
<1>1. /\ snap \in [epoch : Nat, subs : SUBSET Subs] /\ session \in Nat /\ encRun \in Nat
      /\ snap' \in [epoch : Nat, subs : SUBSET Subs]
  BY TypeStep DEF TypeOK, FeedType, StageType
<1>2. snap.epoch \in Nat /\ snap'.epoch \in Nat
  BY <1>1
<1>3. CASE StageAdmit
  <2>1. snap' = snap /\ stPc = "admit"
    BY <1>3 DEF StageAdmit, feedVars
  <2>2. \/ UNCHANGED <<session, encRun>>
        \/ /\ session' = snap.epoch
           /\ Mode = "opus" => encRun' = IF snap.epoch # session THEN encRun + 1 ELSE encRun
    BY <1>3 DEF StageAdmit, OpusAdmit, PcmAdmit, Resets
  <2> QED
    BY <1>1, <1>2, <2>1, <2>2
<1>4. ASSUME NEW c \in Subs, Subscribe(c) \/ SubClose(c) PROVE snap.epoch <= snap'.epoch /\ UNCHANGED <<session, encRun>>
  <2>1. CASE Subscribe(c)
    <3>1. snap'.epoch = JoinEpoch(snap) /\ UNCHANGED <<session, encRun>>
      BY <2>1 DEF Subscribe, stageVars
    <3> QED
      BY <1>2, <3>1 DEF JoinEpoch
  <2>2. CASE SubClose(c)
    <3>1. snap'.epoch = snap.epoch /\ UNCHANGED <<session, encRun>>
      BY <1>1, <2>2 DEF SubClose, stageVars
    <3> QED
      BY <1>2, <3>1
  <2> QED
    BY <1>4, <2>1, <2>2
<1>5. \/ StageAdmit \/ \E c \in Subs : Subscribe(c) \/ SubClose(c)
      \/ UNCHANGED <<snap, session, encRun>>
  BY DEF Next, vars, feedVars, stageVars, FanRead, FanGate, FanSend, FanEnd, FanClose, StageRead,
         StageFill, StageFault, PushLoad, PushDone, Shutdown, FeedClose, ConnClose, PushSend,
         NextCheck, NextSelect, Write
<1> QED
  BY <1>1, <1>2, <1>3, <1>4, <1>5

\* Every step keeps sessions and encoder runs together.
LEMMA RunStep == ASSUME TypeOK, RunInv, [Next]_vars PROVE RunInv'
<1>1. session \in Nat /\ session' \in Nat /\ encRun \in Nat /\ encRun' \in Nat
  BY TypeStep DEF TypeOK, StageType
<1>2. \A e, r \in Nat : Made(e, r)' => Made(e, r) \/ (stPc = "fill" /\ e = session /\ r = encRun)
  BY MadeByStage
<1>3. /\ session' <= snap'.epoch
      /\ \/ UNCHANGED <<session, encRun>>
         \/ /\ stPc = "admit" /\ session' = session
            /\ Mode = "opus" => encRun' = encRun
         \/ /\ stPc = "admit" /\ session < session'
            /\ Mode = "opus" => encRun' = encRun + 1
  BY EncoderStep DEF RunInv
<1>4. \A e, r \in Nat : Made(e, r)' => e <= session'
  BY <1>1, <1>2, <1>3 DEF RunInv
<1>5. ASSUME Mode = "opus", NEW e \in Nat, NEW r \in Nat, Made(e, r)'
      PROVE  r <= encRun' /\ (e = session' <=> r = encRun')
  <2>1. Made(e, r) => r <= encRun /\ e <= session /\ (e = session <=> r = encRun)
    BY <1>5 DEF RunInv
  <2> QED
    BY <1>1, <1>2, <1>3, <1>5, <2>1
<1>6. ASSUME Mode = "opus", NEW e \in Nat, NEW r \in Nat, NEW f \in Nat, NEW s \in Nat, Made(e, r)', Made(f, s)'
      PROVE  e = f <=> r = s
  <2>1. /\ Made(e, r) => (e = session <=> r = encRun)
        /\ Made(f, s) => (f = session <=> s = encRun)
        /\ Made(e, r) /\ Made(f, s) => (e = f <=> r = s)
    BY <1>6 DEF RunInv
  <2> QED
    BY <1>2, <1>6, <2>1
<1> QED
  BY <1>3, <1>4, <1>5, <1>6 DEF RunInv

\* A client's line is made of what it was sent, what its writer holds and what
\* is queued for it.
LEMMA LineParts ==
    ASSUME TypeOK, NEW c \in Subs, NEW i \in DOMAIN Line(c)
    PROVE  \/ \E j \in DOMAIN heard[c] : Line(c)[i] = heard[c][j]
           \/ wPc[c] = "write" /\ Line(c)[i] = wFrame[c]
           \/ \E j \in DOMAIN queue[c] : Line(c)[i] = queue[c][j]
<1> DEFINE h == heard[c]
           w == IF wPc[c] = "write" THEN <<wFrame[c]>> ELSE <<>>
           q == queue[c]
           H == {h[j] : j \in DOMAIN h}
           W == IF wPc[c] = "write" THEN {wFrame[c]} ELSE {}
           Q == {q[j] : j \in DOMAIN q}
           T == H \cup W \cup Q
<1>1. heard[c] \in Seq(Packet) /\ queue[c] \in Seq(Frame)
  BY DEF TypeOK, FeedType, WriterType
<1>2. /\ \A j \in DOMAIN h : h[j] \in T
      /\ \A j \in DOMAIN q : q[j] \in T
      /\ wPc[c] = "write" => wFrame[c] \in T
  OBVIOUS
<1> HIDE DEF T
<1>3. h \in Seq(T) /\ q \in Seq(T)
  BY <1>1, <1>2
<1>4. w \in Seq(T)
  BY <1>2
<1> HIDE DEF h, w, q
<1>5. (h \o w) \o q \in Seq(T)
  BY <1>3, <1>4
<1>6. Line(c) = (h \o w) \o q
  BY DEF Line, h, w, q
<1>7. Line(c)[i] \in T
  BY <1>5, <1>6
<1> QED
  BY <1>7 DEF T, h, q

\* At the start no encoder run has been used.
LEMMA InitRun == Init => RunInv
<1> SUFFICES ASSUME Init PROVE RunInv
  OBVIOUS
<1>1. /\ session = 0 /\ snap.epoch = 0 /\ stPc = "read"
      /\ \A c \in Subs : heard[c] = <<>> /\ queue[c] = <<>> /\ wPc[c] = "none"
  BY DEF Init
<1>2. \A e, r \in Nat : ~Made(e, r)
  BY <1>1 DEF Made, OnLine, Holds
<1> QED
  BY <1>1, <1>2 DEF RunInv

\* Clients share an encoder run exactly when they share a play session
\* (pipeline.go Run: the encoder is reset when the session changes).
THEOREM EncoderPerSession == Spec => []OneEncoderRunPerSession
<1>1. Init => RunInv
  BY InitRun
<1>2. TypeOK /\ RunInv /\ [Next]_vars => RunInv'
  BY RunStep
<1>3. IsolationInv /\ RunInv => OneEncoderRunPerSession
  <2> SUFFICES ASSUME IsolationInv, RunInv, Mode = "opus", NEW c \in Subs, NEW d \in Subs,
                      NEW i \in DOMAIN Line(c), NEW j \in DOMAIN Line(d)
               PROVE  (Line(c)[i].run = Line(d)[j].run) <=> (epochOf[c] = epochOf[d])
    BY DEF OneEncoderRunPerSession
  <2>1. ASSUME NEW b \in Subs, NEW k \in DOMAIN Line(b)
        PROVE  /\ Line(b)[k].session = epochOf[b] /\ Line(b)[k].run \in Nat /\ epochOf[b] \in Nat
               /\ Made(epochOf[b], Line(b)[k].run)
    <3>1. /\ Line(b)[k].session = epochOf[b] /\ epochOf[b] \in Nat
          /\ heard[b] \in Seq(Packet) /\ queue[b] \in Seq(Frame) /\ wFrame[b] \in Frame
      BY LineFrames DEF IsolationInv, TypeOK, FeedType, WriterType, HistType
    <3>2. PICK f : f = Line(b)[k]
      OBVIOUS
    <3>3. \/ \E n \in DOMAIN heard[b] : f = heard[b][n]
          \/ wPc[b] = "write" /\ f = wFrame[b]
          \/ \E n \in DOMAIN queue[b] : f = queue[b][n]
      BY <3>2, LineParts DEF IsolationInv
    <3>4. OnLine(b, f.session, f.run)
      BY <3>3 DEF OnLine, Holds
    <3>5. f \in Packet \/ f \in Frame
      BY <3>1, <3>3
    <3>6. f.run \in Nat
      BY <3>5 DEF Packet, Frame
    <3> QED
      BY <3>1, <3>2, <3>4, <3>6 DEF Made
  <2> QED
    BY <2>1 DEF RunInv
<1>4. IsolationInv => TypeOK
  BY DEF IsolationInv
<1> QED
  BY <1>1, <1>2, <1>3, <1>4, IsolationInvariant, PTL DEF Spec

-----------------------------------------------------------------------------
(* The audio that is still to come *)

\* A period ends where the next one captured starts.
PeriodEnd(p) == p.pos + p.frames

\* Position n is not ahead of what the fan-out has in hand or reads next.
HandAt(n) == n <= pos /\ (fanPc \in {"gate", "send"} => n <= hand.pos)

\* Nor of any period queued for the stage.
Ahead(n) == HandAt(n) /\ \A i \in DOMAIN ch : n <= ch[i].pos

\* Periods travel to the stage in capture order; a frame ends where the stage
\* reads on.
PathInv ==
    /\ \A i, j \in DOMAIN ch : i < j => PeriodEnd(ch[i]) <= ch[j].pos
    /\ \A i \in DOMAIN ch : HandAt(PeriodEnd(ch[i]))
    /\ stPc \in {"admit", "fill", "push", "send"} => Ahead(PeriodEnd(period))
    /\ stPc \in {"push", "send"} => EndPos(frame) = period.pos + off

\* Numbers of the fan-out.
LEMMA FanNumbers ==
    ASSUME TypeOK
    PROVE  /\ pos \in Nat /\ hand \in Period /\ ch \in Seq(Period)
           /\ hand.pos \in Nat /\ hand.frames \in Nat
           /\ \A i \in DOMAIN ch : ch[i] \in Period
           /\ \A p \in Period : p.pos \in Nat /\ p.frames \in Nat /\ PeriodEnd(p) \in Nat
<1>1. pos \in Nat /\ hand \in Period /\ ch \in Seq(Period)
  BY DEF TypeOK, FanType
<1>2. \A p \in Period : p.pos \in Nat /\ p.frames \in Nat
  BY RecordTypes
<1>3. \A p \in Period : p.pos + p.frames \in Nat
  BY <1>2
<1>4. \A i \in DOMAIN ch : ch[i] \in Period
  BY <1>1
<1> QED
  BY <1>1, <1>2, <1>3, <1>4 DEF PeriodEnd

\* What a step makes of the queue of periods.
LEMMA ChannelStep ==
    ASSUME [Next]_vars
    PROVE  \/ ch' = ch /\ (stPc' = "admit" => stPc = "admit")
           \/ /\ fanPc = "send" /\ ch' = Append(ch, hand) /\ UNCHANGED <<stPc, period, off, frame>>
           \/ /\ stPc = "read" /\ stPc' = "admit" /\ ch # <<>>
              /\ ch' = Tail(ch) /\ period' = Head(ch) /\ UNCHANGED <<fanPc, pos, hand>>
<1>1. CASE FanSend
  BY <1>1 DEF FanSend, stageVars
<1>2. CASE StageRead
  BY <1>2 DEF StageRead
<1>3. CASE StageAdmit \/ StageFill \/ StageFault \/ PushLoad \/ PushDone
  BY <1>3 DEF StageAdmit, StageFill, StageFault, PushLoad, PushDone, fanVars, OpusFill, PcmFill, PeriodDone
<1>4. CASE UNCHANGED <<ch, stPc>>
  BY <1>4
<1>5. \/ FanSend \/ StageRead \/ StageAdmit \/ StageFill \/ StageFault \/ PushLoad \/ PushDone
      \/ UNCHANGED <<ch, stPc>>
  BY DEF Next, vars, fanVars, stageVars, FanRead, FanGate, FanEnd, FanClose, Subscribe, SubClose,
         ConnClose, Shutdown, FeedClose, PushSend, NextCheck, NextSelect, Write
<1> QED
  BY <1>1, <1>2, <1>3, <1>4, <1>5

\* The fan-out only moves on.
LEMMA HandKept ==
    ASSUME TypeOK, [Next]_vars, NEW n \in Nat, HandAt(n)
    PROVE  HandAt(n)'
<1>1. pos \in Nat /\ hand \in Period /\ hand.pos \in Nat
  BY FanNumbers
<1>2. CASE FanRead
  <2>1. PICK m \in PeriodLens : /\ hand' = [pos |-> pos, frames |-> m, session |-> 0]
                                /\ pos' = pos + m
    BY <1>2 DEF FanRead
  <2>2. hand'.pos = pos /\ m \in Nat
    BY <2>1, SizesAssumption
  <2> QED
    BY <1>1, <2>1, <2>2 DEF HandAt
<1>3. CASE FanGate
  <2>1. fanPc = "gate" /\ pos' = pos
    BY <1>3 DEF FanGate
  <2>2. fanPc' = "read" \/ hand' = [hand EXCEPT !.session = snap.epoch]
    BY <1>3 DEF FanGate
  <2>3. fanPc' = "read" \/ hand'.pos = hand.pos
    BY <1>1, <2>2 DEF Period
  <2> QED
    BY <2>1, <2>3 DEF HandAt
<1>4. CASE FanSend \/ FanEnd
  BY <1>4 DEF FanSend, FanEnd, HandAt
<1>5. CASE UNCHANGED <<fanPc, pos, hand>>
  BY <1>5 DEF HandAt
<1>6. FanRead \/ FanGate \/ FanSend \/ FanEnd \/ UNCHANGED <<fanPc, pos, hand>>
  BY DEF Next, vars, fanVars, FanClose, StageRead, StageAdmit, StageFill, StageFault, PushLoad,
         PushDone, Subscribe, SubClose, ConnClose, Shutdown, FeedClose, PushSend, NextCheck,
         NextSelect, Write
<1> QED
  BY <1>2, <1>3, <1>4, <1>5, <1>6

\* So does everything that is still to come.
LEMMA AheadKept ==
    ASSUME TypeOK, [Next]_vars, NEW n \in Nat, Ahead(n)
    PROVE  Ahead(n)'
<1>1. HandAt(n)'
  BY HandKept DEF Ahead
<1>2. ch \in Seq(Period) /\ hand \in Period
  BY FanNumbers
<1>3. CASE ch' = ch
  BY <1>1, <1>3 DEF Ahead
<1>4. CASE fanPc = "send" /\ ch' = Append(ch, hand)
  <2>1. n <= hand.pos
    BY <1>4 DEF Ahead, HandAt
  <2>2. /\ DOMAIN ch = 1 .. Len(ch) /\ Len(ch) \in Nat
        /\ DOMAIN ch' = 1 .. Len(ch) + 1
        /\ \A i \in DOMAIN ch : ch'[i] = ch[i]
        /\ ch'[Len(ch) + 1] = hand
    BY <1>2, <1>4, ChannelElements
  <2>3. \A i \in DOMAIN ch' : i \in DOMAIN ch \/ i = Len(ch) + 1
    BY <2>2
  <2> QED
    BY <1>1, <2>1, <2>2, <2>3 DEF Ahead
<1>5. CASE ch # <<>> /\ ch' = Tail(ch)
  <2>1. \A i \in DOMAIN ch' : i + 1 \in DOMAIN ch /\ ch'[i] = ch[i + 1]
    BY <1>2, <1>5, ReceivedElements
  <2> QED
    BY <1>1, <2>1 DEF Ahead
<1> QED
  BY <1>3, <1>4, <1>5, ChannelStep

\* Where a frame that the stage completes ends.
LEMMA FilledEnd ==
    ASSUME IsolationInv, StageFill, stPc' = "push"
    PROVE  /\ period' = period /\ EndPos(frame') = period.pos + off'
           /\ stPc = "fill"
           /\ frame'.pos = IF Mode = "opus" /\ acc # <<>> THEN framePos ELSE period.pos + off
<1>1. /\ acc \in Seq(Nat) /\ Len(acc) \in Nat
      /\ period.pos \in Nat /\ period.frames \in Nat /\ off \in Nat /\ framePos \in Nat
  BY StageNumbers DEF IsolationInv
<1>2. stPc = "fill" /\ More /\ off < period.frames
  BY DEF StageFill, PeriodDone, More
<1>3. CASE Mode = "opus"
  <2> DEFINE take == Lesser(FrameLen - Len(acc), period.frames - off)
             at   == IF acc = <<>> THEN period.pos + off ELSE framePos
             full == acc \o Samples(period.pos + off, take)
  <2>1. /\ frame' = [pos |-> at, session |-> session, samples |-> full, run |-> encRun]
        /\ off' = off + take /\ period' = period
    BY <1>2, <1>3 DEF StageFill, OpusFill, PeriodDone
  <2>2. take \in Nat /\ at \in Nat
    <3>1. Len(acc) < FrameLen
      BY <1>2 DEF IsolationInv, StageInv, AccInv
    <3>2. take \in Nat
      BY <1>1, <1>2, <3>1, SizesAssumption, TakeBounds
    <3> QED
      BY <1>1, <3>2
  <2>3. at + Len(acc) = period.pos + off
    <3>1. CASE acc = <<>>
      BY <1>1, <3>1
    <3>2. CASE acc # <<>>
      BY <1>1, <1>2, <3>2 DEF IsolationInv, StageInv, AccInv
    <3> QED
      BY <3>1, <3>2
  <2>4. Len(full) = Len(acc) + take
    <3>1. period.pos + off \in Nat
      BY <1>1
    <3>2. Samples(period.pos + off, take) \in Seq(Nat) /\ Len(Samples(period.pos + off, take)) = take
      BY <2>2, <3>1, SamplesType
    <3> HIDE DEF take
    <3> QED
      BY <1>1, <3>2, ConcatProperties
  <2>5. frame'.pos = at /\ frame'.samples = full
    BY <2>1
  <2>6. at = IF Mode = "opus" /\ acc # <<>> THEN framePos ELSE period.pos + off
    BY <1>3
  <2> HIDE DEF take, at, full
  <2>7. at + (Len(acc) + take) = period.pos + (off + take)
    BY <1>1, <2>2, <2>3
  <2> QED
    BY <1>2, <2>1, <2>4, <2>5, <2>6, <2>7 DEF EndPos
<1>4. CASE Mode # "opus"
  <2>1. /\ frame' = [pos |-> period.pos + off, session |-> session,
                     samples |-> Samples(period.pos + off, PcmTake), run |-> encRun]
        /\ off' = off + PcmTake /\ period' = period
    BY <1>2, <1>4 DEF StageFill, PcmFill, PeriodDone
  <2>2. PcmTake \in Nat /\ period.pos + off \in Nat
    BY <1>1, <1>2, SizesAssumption DEF PcmTake, Lesser
  <2>3. Len(Samples(period.pos + off, PcmTake)) = PcmTake
    BY <2>2, SamplesType
  <2>4. frame'.pos = period.pos + off /\ Len(frame'.samples) = PcmTake
    BY <2>1, <2>3
  <2>5. (period.pos + off) + PcmTake = period.pos + (off + PcmTake)
    BY <1>1, <2>2
  <2> QED
    BY <1>2, <1>4, <2>1, <2>4, <2>5 DEF EndPos
<1> QED
  BY <1>3, <1>4

\* Every step keeps the periods in order.
LEMMA PathStep ==
    ASSUME IsolationInv, PathInv, [Next]_vars
    PROVE  PathInv'
<1>0. TypeOK /\ TypeOK'
  BY TypeStep DEF IsolationInv
<1>1. /\ ch \in Seq(Period) /\ hand \in Period /\ period \in Period
      /\ \A i \in DOMAIN ch : ch[i] \in Period
      /\ \A p \in Period : p.pos \in Nat /\ p.frames \in Nat /\ PeriodEnd(p) \in Nat
  BY <1>0, FanNumbers DEF TypeOK, StageType
<1> DEFINE HandLater(n) == n <= pos' /\ (fanPc' \in {"gate", "send"} => n <= hand'.pos)
           LaterAhead(n) == HandLater(n) /\ \A i \in DOMAIN ch' : n <= ch'[i].pos
           Busy == {"admit", "fill", "push", "send"}
<1>2. \A n \in Nat : HandAt(n) => HandLater(n)
  <2> SUFFICES ASSUME NEW n \in Nat, HandAt(n) PROVE HandLater(n)
    OBVIOUS
  <2>1. HandAt(n)'
    BY <1>0, HandKept
  <2> QED
    BY <2>1 DEF HandAt
<1>3. \A n \in Nat : Ahead(n) => LaterAhead(n)
  <2> SUFFICES ASSUME NEW n \in Nat, Ahead(n) PROVE LaterAhead(n)
    OBVIOUS
  <2>1. Ahead(n)'
    BY <1>0, AheadKept
  <2> QED
    BY <2>1 DEF Ahead, HandAt
<1>9. SUFFICES /\ \A i, j \in DOMAIN ch' : i < j => PeriodEnd(ch'[i]) <= ch'[j].pos
               /\ \A i \in DOMAIN ch' : HandLater(PeriodEnd(ch'[i]))
               /\ stPc' \in Busy => LaterAhead(PeriodEnd(period'))
               /\ stPc' \in {"push", "send"} => EndPos(frame') = period'.pos + off'
  BY DEF PathInv, HandAt, Ahead, EndPos, PeriodEnd
<1>4. \A i \in DOMAIN ch : HandAt(PeriodEnd(ch[i])) /\ HandLater(PeriodEnd(ch[i]))
  BY <1>1, <1>2 DEF PathInv
<1> HIDE DEF HandLater, LaterAhead
<1>5. CASE fanPc = "send" /\ ch' = Append(ch, hand) /\ UNCHANGED <<stPc, period, off, frame>>
  <2>1. /\ DOMAIN ch = 1 .. Len(ch) /\ Len(ch) \in Nat
        /\ DOMAIN ch' = 1 .. Len(ch) + 1
        /\ \A i \in DOMAIN ch : ch'[i] = ch[i]
        /\ ch'[Len(ch) + 1] = hand
    BY <1>1, <1>5, ChannelElements
  <2>2. \A i \in DOMAIN ch : PeriodEnd(ch[i]) <= hand.pos
    BY <1>4, <1>5 DEF HandAt
  <2>3. \A i \in DOMAIN ch' : i \in DOMAIN ch \/ i = Len(ch) + 1
    BY <2>1
  <2>4. \A i, j \in DOMAIN ch' : i < j => i \in DOMAIN ch
    BY <2>1
  <2>5. \A i, j \in DOMAIN ch' : i < j => PeriodEnd(ch'[i]) <= ch'[j].pos
    BY <2>1, <2>2, <2>3, <2>4 DEF PathInv
  <2>6. HandLater(PeriodEnd(hand))
    <3>1. PeriodEnd(hand) = pos
      BY <1>5 DEF IsolationInv, FanInv, PeriodEnd
    <3>2. FanSend \/ UNCHANGED <<fanPc, ch>>
      BY <1>5 DEF Next, vars, fanVars, FanRead, FanGate, FanEnd, FanClose, StageRead, StageAdmit,
           StageFill, StageFault, PushLoad, PushDone, Subscribe, SubClose, ConnClose, Shutdown,
           FeedClose, PushSend, NextCheck, NextSelect, Write
    <3>3. Len(ch') = Len(ch) + 1
      BY <1>1, <1>5, ChannelOps
    <3>4. FanSend
      BY <2>1, <3>2, <3>3
    <3>5. pos' = pos /\ fanPc' = "read" /\ pos \in Nat
      BY <1>0, <3>4, FanNumbers DEF FanSend
    <3> QED
      BY <3>1, <3>5 DEF HandLater
  <2>7. \A i \in DOMAIN ch' : HandLater(PeriodEnd(ch'[i]))
    BY <1>4, <2>1, <2>3, <2>6
  <2>8. stPc' \in Busy => LaterAhead(PeriodEnd(period'))
    <3>1. stPc \in Busy => LaterAhead(PeriodEnd(period))
      BY <1>1, <1>3 DEF PathInv
    <3> QED
      BY <1>5, <3>1
  <2> QED
    BY <1>5, <2>5, <2>7, <2>8 DEF PathInv
<1>6. CASE /\ stPc = "read" /\ stPc' = "admit" /\ ch # <<>>
           /\ ch' = Tail(ch) /\ period' = Head(ch) /\ UNCHANGED <<fanPc, pos, hand>>
  <2>1. /\ 1 \in DOMAIN ch /\ period' = ch[1]
        /\ DOMAIN ch = 1 .. Len(ch) /\ Len(ch) \in Nat
        /\ \A i \in DOMAIN ch' : i + 1 \in DOMAIN ch /\ ch'[i] = ch[i + 1]
    BY <1>1, <1>6, ReceivedElements
  <2>2. \A i \in DOMAIN ch' : i \in Nat /\ 1 < i + 1
    <3>1. DOMAIN ch' = 1 .. Len(ch) - 1
      BY <1>1, <1>6, ReceivedElements
    <3> QED
      BY <2>1, <3>1
  <2>3. \A i, j \in DOMAIN ch' : i < j => PeriodEnd(ch'[i]) <= ch'[j].pos
    <3> SUFFICES ASSUME NEW i \in DOMAIN ch', NEW j \in DOMAIN ch', i < j
                 PROVE  PeriodEnd(ch'[i]) <= ch'[j].pos
      OBVIOUS
    <3>1. i + 1 \in DOMAIN ch /\ j + 1 \in DOMAIN ch /\ i + 1 < j + 1
      BY <2>1, <2>2
    <3>2. PeriodEnd(ch[i + 1]) <= ch[j + 1].pos
      BY <3>1 DEF PathInv
    <3> QED
      BY <2>1, <3>2
  <2>4. \A i \in DOMAIN ch' : HandLater(PeriodEnd(ch'[i]))
    BY <1>4, <2>1
  <2>5. LaterAhead(PeriodEnd(period'))
    <3>1. \A i \in DOMAIN ch' : PeriodEnd(period') <= ch'[i].pos
      BY <2>1, <2>2 DEF PathInv
    <3>2. HandLater(PeriodEnd(period'))
      BY <1>4, <2>1
    <3> QED
      BY <3>1, <3>2 DEF LaterAhead
  <2> QED
    BY <1>6, <2>3, <2>4, <2>5 DEF PathInv
<1>7. CASE ch' = ch /\ (stPc' = "admit" => stPc = "admit")
  <2>1. \A i, j \in DOMAIN ch' : i < j => PeriodEnd(ch'[i]) <= ch'[j].pos
    BY <1>7 DEF PathInv
  <2>2. \A i \in DOMAIN ch' : HandLater(PeriodEnd(ch'[i]))
    BY <1>4, <1>7
  <2>3. /\ stPc' \in Busy => stPc \in Busy /\ period' = period
        /\ stPc' \in {"push", "send"} => EndPos(frame') = period'.pos + off'
    <3>1. CASE StageFill
      <4>1. stPc = "fill" /\ stPc' \in {"push", "read", "fault"}
        BY <3>1 DEF StageFill, OpusFill, PcmFill, PeriodDone
      <4> QED
        BY <3>1, <4>1, FilledEnd
    <3>2. CASE StageRead \/ StageAdmit \/ StageFault \/ PushLoad \/ PushDone
      BY <1>7, <3>2 DEF StageRead, StageAdmit, StageFault, PushLoad, PushDone, PathInv
    <3>3. CASE UNCHANGED <<stPc, period, off, frame>>
      BY <3>3 DEF PathInv, EndPos
    <3>4. \/ StageFill \/ StageRead \/ StageAdmit \/ StageFault \/ PushLoad \/ PushDone
          \/ UNCHANGED <<stPc, period, off, frame>>
      BY DEF Next, vars, stageVars, FanRead, FanGate, FanSend, FanEnd, FanClose, Subscribe, SubClose,
             ConnClose, Shutdown, FeedClose, PushSend, NextCheck, NextSelect, Write
    <3> QED
      BY <3>1, <3>2, <3>3, <3>4
  <2>4. stPc' \in Busy => LaterAhead(PeriodEnd(period'))
    <3>1. stPc \in Busy => LaterAhead(PeriodEnd(period))
      BY <1>1, <1>3 DEF PathInv
    <3> QED
      BY <2>3, <3>1
  <2> QED
    BY <2>1, <2>2, <2>3, <2>4
<1> QED
  BY <1>5, <1>6, <1>7, ChannelStep

-----------------------------------------------------------------------------
(* Capture order *)

\* Position n is not ahead of the audio that the stage still has to encode.
StageAt(n) ==
    /\ stPc \in {"read", "admit", "fill"} /\ acc # <<>> => n <= framePos
    /\ stPc = "admit" => n <= period.pos
    /\ stPc \in {"fill", "push", "send"} => n <= period.pos + off
    /\ stPc \in {"read", "admit", "fill", "push", "send"} => Ahead(n)

\* Nor of the frame that client c is about to be offered.
Behind(c, n) ==
    StageAt(n) /\ (stPc = "push" \/ (stPc = "send" /\ c \in targets) => n <= frame.pos)

\* Sequence s of frames is in capture order, without a sample twice; all of s
\* lies before position n.
Sorted(s) == \A i, j \in DOMAIN s : i < j => EndPos(s[i]) <= s[j].pos
Before(s, n) == \A i \in DOMAIN s : EndPos(s[i]) <= n

\* What is on the way to a client is in capture order and behind everything
\* that is still to come.
LineInv ==
    \A c \in Subs :
        /\ Sorted(heard[c]) /\ Sorted(queue[c])
        /\ \A j \in DOMAIN queue[c] : Before(heard[c], queue[c][j].pos)
        /\ wPc[c] = "write" =>
              /\ Before(heard[c], wFrame[c].pos)
              /\ \A j \in DOMAIN queue[c] : EndPos(wFrame[c]) <= queue[c][j].pos
              /\ Behind(c, EndPos(wFrame[c]))
        /\ \A i \in DOMAIN heard[c] : Behind(c, EndPos(heard[c][i]))
        /\ \A i \in DOMAIN queue[c] : Behind(c, EndPos(queue[c][i]))

\* A position that everything to come is at or after stays so.
LEMMA BehindKept ==
    ASSUME IsolationInv, PathInv, [Next]_vars, NEW n \in Nat, NEW c \in Subs, Behind(c, n)
    PROVE  Behind(c, n)'
<1>0. TypeOK
  BY DEF IsolationInv
<1>1. /\ period.pos \in Nat /\ period.frames \in Nat /\ off \in Nat
      /\ ch \in Seq(Period) /\ \A i \in DOMAIN ch : ch[i] \in Period
  BY <1>0, StageNumbers, FanNumbers
<1>2. Ahead(n) => Ahead(n)'
  BY <1>0, AheadKept
<1>3. CASE StageRead
  <2>1. /\ stPc = "read" /\ UNCHANGED <<acc, framePos>>
        /\ stPc' = "done" \/ (stPc' = "admit" /\ ch # <<>> /\ period' = Head(ch))
    BY <1>3 DEF StageRead
  <2>2. ch # <<>> => 1 \in DOMAIN ch /\ Head(ch) = ch[1]
    BY <1>1, ReceivedElements
  <2>3. ch # <<>> => n <= Head(ch).pos
    BY <2>1, <2>2 DEF Behind, StageAt, Ahead
  <2> QED
    BY <1>2, <2>1, <2>3 DEF Behind, StageAt
<1>4. CASE StageAdmit
  <2>1. /\ stPc = "admit" /\ acc' \in {acc, <<>>} /\ framePos' = framePos
        /\ stPc' = "read" \/ (stPc' = "fill" /\ off' = 0 /\ period' = period)
    BY <1>4 DEF StageAdmit, OpusAdmit, PcmAdmit
  <2>2. period.pos + 0 = period.pos
    BY <1>1
  <2> QED
    BY <1>1, <1>2, <2>1, <2>2 DEF Behind, StageAt
<1>5. CASE StageFill
  <2>1. /\ stPc = "fill" /\ stPc' \in {"push", "read", "fault"}
        /\ stPc' = "read" => \/ UNCHANGED <<acc, framePos>>
                             \/ framePos' = IF acc = <<>> THEN period.pos + off ELSE framePos
    BY <1>5 DEF StageFill, OpusFill, PcmFill, PeriodDone
  <2>2. CASE stPc' = "push"
    <3>1. /\ period' = period /\ n <= frame'.pos
      BY <1>5, <2>1, <2>2, FilledEnd DEF Behind, StageAt
    <3>2. n <= period.pos + off'
      <4>1. frame' \in Frame /\ off' \in Nat
        BY <1>0, TypeStep DEF TypeOK, StageType
      <4>2. frame'.pos \in Nat /\ frame'.samples \in Seq(Nat)
        BY <4>1, RecordTypes
      <4>3. EndPos(frame') = period.pos + off'
        BY <1>5, <2>2, FilledEnd
      <4>4. frame'.pos <= frame'.pos + Len(frame'.samples) /\ frame'.pos + Len(frame'.samples) \in Nat
        BY <4>2
      <4> QED
        BY <3>1, <4>2, <4>3, <4>4 DEF EndPos
    <3> QED
      BY <1>2, <2>1, <2>2, <3>1, <3>2 DEF Behind, StageAt
  <2>3. CASE stPc' # "push"
    BY <1>2, <2>1, <2>3 DEF Behind, StageAt
  <2> QED
    BY <2>2, <2>3
<1>6. CASE StageFault
  <2>1. stPc' = "done"
    BY <1>6 DEF StageFault
  <2> QED
    BY <2>1 DEF Behind, StageAt
<1>7. CASE PushLoad
  <2>1. stPc = "push" /\ stPc' = "send" /\ UNCHANGED <<period, off, frame>>
    BY <1>7 DEF PushLoad
  <2> QED
    BY <1>2, <2>1 DEF Behind, StageAt
<1>8. CASE PushDone
  <2>1. /\ stPc = "send" /\ UNCHANGED <<period, off>>
        /\ stPc' = "fault" \/ (stPc' = "fill" /\ acc' = <<>>)
    BY <1>8 DEF PushDone
  <2> QED
    BY <1>2, <2>1 DEF Behind, StageAt
<1>9. CASE \E d \in Subs : PushSend(d)
  <2>1. /\ stPc = "send" /\ targets' \subseteq targets
        /\ UNCHANGED <<stPc, period, off, acc, framePos, frame>>
    BY <1>9 DEF PushSend
  <2> QED
    BY <1>2, <2>1 DEF Behind, StageAt
<1>10. CASE UNCHANGED <<stPc, period, off, acc, framePos, frame, targets>>
  BY <1>2, <1>10 DEF Behind, StageAt
<1>11. \/ StageRead \/ StageAdmit \/ StageFill \/ StageFault \/ PushLoad \/ PushDone
       \/ \E d \in Subs : PushSend(d)
       \/ UNCHANGED <<stPc, period, off, acc, framePos, frame, targets>>
  BY DEF Next, vars, stageVars, FanRead, FanGate, FanSend, FanEnd, FanClose, Subscribe, SubClose,
         ConnClose, Shutdown, FeedClose, NextCheck, NextSelect, Write
<1> QED
  BY <1>3, <1>4, <1>5, <1>6, <1>7, <1>8, <1>9, <1>10, <1>11

\* The end of a frame is behind everything to come once the client has it.
LEMMA SentIsBehind ==
    ASSUME IsolationInv, PathInv, NEW c \in Subs, PushSend(c)
    PROVE  Behind(c, EndPos(frame))'
<1>1. /\ period.pos \in Nat /\ period.frames \in Nat /\ off \in Nat
      /\ frame.pos \in Nat /\ frame.samples \in Seq(Nat)
  BY StageNumbers DEF IsolationInv
<1>2. /\ stPc = "send" /\ c \notin targets'
      /\ UNCHANGED <<stPc, period, off, acc, framePos, frame, pos, hand, fanPc, ch>>
  BY DEF PushSend, fanVars
<1>3. EndPos(frame) = period.pos + off /\ Ahead(PeriodEnd(period)) /\ off <= period.frames
  BY <1>2 DEF PathInv, IsolationInv, StageInv
<1>4. EndPos(frame) \in Nat /\ EndPos(frame) <= PeriodEnd(period) /\ PeriodEnd(period) \in Nat
  BY <1>1, <1>3 DEF PeriodEnd
<1>5. Ahead(EndPos(frame))
  <2>1. /\ pos \in Nat /\ hand.pos \in Nat
        /\ \A i \in DOMAIN ch : ch[i] \in Period
        /\ \A p \in Period : p.pos \in Nat
    BY FanNumbers DEF IsolationInv
  <2>2. \A i \in DOMAIN ch : ch[i].pos \in Nat
    BY <2>1
  <2> QED
    BY <1>3, <1>4, <2>1, <2>2 DEF Ahead, HandAt
<1>6. EndPos(frame) <= period.pos + off
  BY <1>3, <1>4
<1> QED
  BY <1>2, <1>5, <1>6 DEF Behind, StageAt, Ahead, HandAt, EndPos

\* Where frames and packets end.
LEMMA EndNumbers ==
    /\ \A f \in Frame : f.pos \in Nat /\ EndPos(f) \in Nat
    /\ \A p \in Packet : p.pos \in Nat /\ EndPos(p) \in Nat
<1>1. \A f \in Frame : f.pos \in Nat /\ f.samples \in Seq(Nat)
  BY RecordTypes
<1>2. \A p \in Packet : p.pos \in Nat /\ p.samples \in Seq(Nat)
  BY PacketTypes
<1>3. \A n \in Nat, u \in Seq(Nat) : n + Len(u) \in Nat
  OBVIOUS
<1> QED
  BY <1>1, <1>2, <1>3 DEF EndPos

\* Appending what starts at or after every end keeps a sequence in order.
LEMMA SortedAppended ==
    ASSUME NEW S, NEW q \in Seq(S), NEW x \in S, Sorted(q), Before(q, x.pos)
    PROVE  Sorted(Append(q, x))
<1>1. /\ DOMAIN q = 1 .. Len(q) /\ Len(q) \in Nat
      /\ DOMAIN Append(q, x) = 1 .. Len(q) + 1
      /\ \A i \in DOMAIN q : Append(q, x)[i] = q[i]
      /\ Append(q, x)[Len(q) + 1] = x
  BY ChannelElements
<1> SUFFICES ASSUME NEW i \in DOMAIN Append(q, x), NEW j \in DOMAIN Append(q, x), i < j
             PROVE  EndPos(Append(q, x)[i]) <= Append(q, x)[j].pos
  BY DEF Sorted
<1>2. i \in DOMAIN q /\ (j \in DOMAIN q \/ j = Len(q) + 1)
  BY <1>1
<1> QED
  BY <1>1, <1>2 DEF Sorted, Before

\* The rest of a sequence in order is in order, and after its head.
LEMMA SortedReceived ==
    ASSUME NEW S, NEW q \in Seq(S), q # <<>>, Sorted(q)
    PROVE  /\ Sorted(Tail(q))
           /\ \A j \in DOMAIN Tail(q) : EndPos(Head(q)) <= Tail(q)[j].pos
<1>1. /\ 1 \in DOMAIN q /\ Head(q) = q[1]
      /\ DOMAIN q = 1 .. Len(q) /\ Len(q) \in Nat
      /\ DOMAIN Tail(q) = 1 .. Len(q) - 1
      /\ \A i \in DOMAIN Tail(q) : i + 1 \in DOMAIN q /\ Tail(q)[i] = q[i + 1]
  BY ReceivedElements
<1>2. ASSUME NEW i \in DOMAIN Tail(q), NEW j \in DOMAIN Tail(q), i < j
      PROVE  EndPos(Tail(q)[i]) <= Tail(q)[j].pos
  <2>1. i + 1 \in DOMAIN q /\ j + 1 \in DOMAIN q /\ i + 1 < j + 1
    BY <1>1, <1>2
  <2> QED
    BY <1>1, <2>1 DEF Sorted
<1>3. ASSUME NEW j \in DOMAIN Tail(q) PROVE EndPos(Head(q)) <= Tail(q)[j].pos
  <2>1. j + 1 \in DOMAIN q /\ 1 < j + 1
    BY <1>1
  <2> QED
    BY <1>1, <2>1 DEF Sorted
<1> QED
  BY <1>2, <1>3 DEF Sorted

\* Every step keeps the clients' lines in capture order.
LEMMA LineStep ==
    ASSUME IsolationInv, PathInv, LineInv, [Next]_vars
    PROVE  LineInv'
<1> DEFINE Later(c, n) ==
             /\ stPc' \in {"read", "admit", "fill"} /\ acc' # <<>> => n <= framePos'
             /\ stPc' = "admit" => n <= period'.pos
             /\ stPc' \in {"fill", "push", "send"} => n <= period'.pos + off'
             /\ stPc' \in {"read", "admit", "fill", "push", "send"} =>
                   /\ n <= pos' /\ (fanPc' \in {"gate", "send"} => n <= hand'.pos)
                   /\ \A i \in DOMAIN ch' : n <= ch'[i].pos
             /\ stPc' = "push" \/ (stPc' = "send" /\ c \in targets') => n <= frame'.pos
           LineOK(c, h, q, pc, f) ==
             /\ Sorted(h) /\ Sorted(q)
             /\ \A j \in DOMAIN q : Before(h, q[j].pos)
             /\ pc = "write" => /\ Before(h, f.pos)
                                /\ \A j \in DOMAIN q : EndPos(f) <= q[j].pos
                                /\ Later(c, EndPos(f))
             /\ \A i \in DOMAIN h : Later(c, EndPos(h[i]))
             /\ \A i \in DOMAIN q : Later(c, EndPos(q[i]))
<1>0. /\ frame \in Frame /\ queue \in [Subs -> Seq(Frame)] /\ wFrame \in [Subs -> Frame]
      /\ heard \in [Subs -> Seq(Packet)]
      /\ wPc \in [Subs -> {"none", "check", "select", "write", "exit"}]
      /\ \A f \in Frame : f.pos \in Nat /\ EndPos(f) \in Nat
      /\ \A p \in Packet : p.pos \in Nat /\ EndPos(p) \in Nat
  BY EndNumbers DEF IsolationInv, TypeOK, FeedType, StageType, WriterType
<1>1. \A c \in Subs, n \in Nat : Behind(c, n) => Later(c, n)
  <2> SUFFICES ASSUME NEW c \in Subs, NEW n \in Nat, Behind(c, n) PROVE Later(c, n)
    OBVIOUS
  <2>1. Behind(c, n)'
    BY BehindKept
  <2> QED
    BY <2>1 DEF Behind, StageAt, Ahead, HandAt
<1>2. SUFFICES \A c \in Subs : LineOK(c, heard'[c], queue'[c], wPc'[c], wFrame'[c])
  BY DEF LineInv, Behind, StageAt, Ahead, HandAt, Sorted, Before, EndPos
<1> HIDE DEF Later
<1>3. \A c \in Subs : LineOK(c, heard[c], queue[c], wPc[c], wFrame[c])
  <2> SUFFICES ASSUME NEW c \in Subs PROVE LineOK(c, heard[c], queue[c], wPc[c], wFrame[c])
    OBVIOUS
  <2>1. /\ \A i \in DOMAIN heard[c] : EndPos(heard[c][i]) \in Nat
        /\ \A i \in DOMAIN queue[c] : EndPos(queue[c][i]) \in Nat
        /\ EndPos(wFrame[c]) \in Nat
    <3>1. heard[c] \in Seq(Packet) /\ queue[c] \in Seq(Frame) /\ wFrame[c] \in Frame
      BY <1>0
    <3>2. /\ \A i \in DOMAIN heard[c] : heard[c][i] \in Packet
          /\ \A i \in DOMAIN queue[c] : queue[c][i] \in Frame
      BY <3>1
    <3> QED
      BY <1>0, <3>1, <3>2
  <2> QED
    BY <1>1, <2>1 DEF LineInv
<1>4. ASSUME NEW c \in Subs, NEW d \in Subs, Subscribe(c) \/ NextCheck(c)
      PROVE  LineOK(d, heard'[d], queue'[d], wPc'[d], wFrame'[d])
  <2>1. /\ UNCHANGED <<queue, heard>>
        /\ wPc'[d] # "write" \/ (wPc'[d] = wPc[d] /\ wFrame'[d] = wFrame[d])
    BY <1>0, <1>4 DEF Subscribe, NextCheck, WriterExit, feedVars
  <2> QED
    BY <1>3, <2>1
<1>5. ASSUME NEW c \in Subs, NEW d \in Subs, PushSend(c)
      PROVE  LineOK(d, heard'[d], queue'[d], wPc'[d], wFrame'[d])
  <2>1. /\ stPc = "send" /\ c \in targets /\ UNCHANGED <<wPc, wFrame, heard>>
        /\ queue' = queue \/ queue' = [queue EXCEPT ![c] = Append(queue[c], frame)]
    BY <1>5 DEF PushSend, writerVars
  <2>2. CASE queue'[d] = queue[d]
    BY <1>3, <2>1, <2>2
  <2>3. CASE d = c /\ queue'[d] = Append(queue[d], frame)
    <3> DEFINE q == queue[d]
               h == heard[d]
    <3>1. /\ q \in Seq(Frame)
          /\ DOMAIN Append(q, frame) = 1 .. Len(q) + 1 /\ DOMAIN q = 1 .. Len(q) /\ Len(q) \in Nat
          /\ \A i \in DOMAIN q : Append(q, frame)[i] = q[i]
          /\ Append(q, frame)[Len(q) + 1] = frame
      <4>1. q \in Seq(Frame)
        BY <1>0
      <4> QED
        BY <1>0, <4>1, ChannelElements
    <3>2. /\ Before(q, frame.pos) /\ Before(h, frame.pos)
          /\ wPc[d] = "write" => EndPos(wFrame[d]) <= frame.pos
      BY <2>1, <2>3 DEF LineInv, Behind, Before
    <3>3. Later(d, EndPos(frame))
      <4>1. Behind(c, EndPos(frame))'
        BY <1>5, SentIsBehind
      <4>2. frame' = frame
        BY <1>5 DEF PushSend
      <4> QED
        BY <2>3, <4>1, <4>2 DEF Later, Behind, StageAt, Ahead, HandAt, EndPos
    <3>4. Sorted(Append(q, frame))
      <4>1. Sorted(q)
        BY DEF LineInv
      <4> QED
        BY <1>0, <3>1, <3>2, <4>1, SortedAppended
    <3>5. \A i \in DOMAIN Append(q, frame) : i \in DOMAIN q \/ Append(q, frame)[i] = frame
      BY <3>1
    <3>6. LineOK(d, h, q, wPc[d], wFrame[d])
      BY <1>3
    <3> HIDE DEF q, h
    <3>7. LineOK(d, h, Append(q, frame), wPc[d], wFrame[d])
      BY <3>1, <3>2, <3>3, <3>4, <3>5, <3>6
    <3> QED
      BY <2>1, <2>3, <3>7 DEF q, h
  <2> QED
    BY <1>0, <2>1, <2>2, <2>3
<1>6. ASSUME NEW c \in Subs, NEW d \in Subs, NextSelect(c)
      PROVE  LineOK(d, heard'[d], queue'[d], wPc'[d], wFrame'[d])
  <2>1. heard' = heard
    BY <1>6 DEF NextSelect
  <2>2. \/ /\ queue'[d] = queue[d]
           /\ wPc'[d] # "write" \/ (wPc'[d] = wPc[d] /\ wFrame'[d] = wFrame[d])
        \/ queue[d] # <<>> /\ queue'[d] = Tail(queue[d]) /\ wFrame'[d] = Head(queue[d])
    BY <1>0, <1>6 DEF NextSelect, WriterExit
  <2>3. CASE queue[d] # <<>> /\ queue'[d] = Tail(queue[d]) /\ wFrame'[d] = Head(queue[d])
    <3>1. queue[d] \in Seq(Frame)
      BY <1>0
    <3>2. /\ 1 \in DOMAIN queue[d] /\ wFrame'[d] = queue[d][1]
          /\ \A i \in DOMAIN queue'[d] : i + 1 \in DOMAIN queue[d] /\ queue'[d][i] = queue[d][i + 1]
      BY <2>3, <3>1, ReceivedElements
    <3>3. LineOK(d, heard[d], queue[d], wPc[d], wFrame[d])
      BY <1>3
    <3>4. /\ Sorted(queue'[d])
          /\ \A j \in DOMAIN queue'[d] : EndPos(wFrame'[d]) <= queue'[d][j].pos
      BY <2>3, <3>1, <3>3, SortedReceived
    <3> QED
      BY <2>1, <3>2, <3>3, <3>4
  <2> QED
    BY <1>3, <2>1, <2>2, <2>3
<1>7. ASSUME NEW c \in Subs, NEW d \in Subs, Write(c)
      PROVE  LineOK(d, heard'[d], queue'[d], wPc'[d], wFrame'[d])
  <2> DEFINE pkt == [pos |-> wFrame[c].pos, session |-> wFrame[c].session,
                     samples |-> wFrame[c].samples, run |-> wFrame[c].run,
                     ts |-> Timestamp(wFrame[c].pos, Base(c))]
  <2>1. /\ wPc[c] = "write" /\ wPc'[c] # "write" /\ queue' = queue
        /\ heard' = heard \/ heard' = [heard EXCEPT ![c] = Append(heard[c], pkt)]
    BY <1>0, <1>7 DEF Write, WriterExit, feedVars
  <2>2. wPc'[d] # "write" \/ (wPc'[d] = wPc[d] /\ wFrame'[d] = wFrame[d])
    BY <1>0, <1>7 DEF Write, WriterExit
  <2>3. pkt.pos = wFrame[c].pos /\ EndPos(pkt) = EndPos(wFrame[c])
    BY DEF EndPos
  <2> HIDE DEF pkt
  <2>4. CASE heard'[d] = heard[d]
    BY <1>3, <2>1, <2>2, <2>4
  <2>5. CASE d = c /\ heard'[d] = Append(heard[d], pkt)
    <3> DEFINE S == Packet \cup {pkt}
               h == heard[d]
    <3>1. h \in Seq(S) /\ pkt \in S
      BY <1>0
    <3>2. LineOK(d, h, queue[d], "write", wFrame[d])
      BY <1>3, <2>1, <2>5
    <3> HIDE DEF S, h
    <3>3. Sorted(Append(h, pkt))
      BY <2>3, <2>5, <3>1, <3>2, SortedAppended
    <3>4. /\ \A i \in DOMAIN h : Append(h, pkt)[i] = h[i]
          /\ \A i \in DOMAIN Append(h, pkt) : i \in DOMAIN h \/ Append(h, pkt)[i] = pkt
      <4>1. /\ DOMAIN h = 1 .. Len(h) /\ Len(h) \in Nat
            /\ DOMAIN Append(h, pkt) = 1 .. Len(h) + 1
            /\ \A i \in DOMAIN h : Append(h, pkt)[i] = h[i]
            /\ Append(h, pkt)[Len(h) + 1] = pkt
        BY <3>1, ChannelElements
      <4> QED
        BY <4>1
    <3>5. \A j \in DOMAIN queue[d] : Before(Append(h, pkt), queue[d][j].pos)
      BY <2>3, <2>5, <3>2, <3>4 DEF Before
    <3>6. \A i \in DOMAIN Append(h, pkt) : Later(d, EndPos(Append(h, pkt)[i]))
      BY <2>3, <2>5, <3>2, <3>4
    <3>7. LineOK(d, Append(h, pkt), queue[d], "exit", wFrame[d])
      BY <3>2, <3>3, <3>5, <3>6
    <3> QED
      BY <2>1, <2>5, <3>7 DEF h
  <2> QED
    BY <1>0, <2>1, <2>4, <2>5
<1>8. CASE UNCHANGED <<queue, wPc, wFrame, heard>>
  BY <1>3, <1>8
<1>9. \/ UNCHANGED <<queue, wPc, wFrame, heard>>
      \/ \E c \in Subs : Subscribe(c) \/ NextCheck(c) \/ PushSend(c) \/ NextSelect(c) \/ Write(c)
  BY DEF Next, vars, feedVars, writerVars, FanRead, FanGate, FanSend, FanEnd, FanClose, StageRead,
         StageAdmit, StageFill, StageFault, PushLoad, PushDone, Shutdown, FeedClose, SubClose, ConnClose
<1> QED
  BY <1>4, <1>5, <1>6, <1>7, <1>8, <1>9

\* Audio is made, queued and sent in capture order.
THEOREM OrderInvariant == Spec => [](PathInv /\ LineInv)
<1>1. Init => PathInv /\ LineInv
  <2> SUFFICES ASSUME Init PROVE PathInv /\ LineInv
    OBVIOUS
  <2>1. /\ stPc = "read" /\ DOMAIN ch = {}
        /\ \A c \in Subs : heard[c] = <<>> /\ queue[c] = <<>> /\ wPc[c] = "none"
    BY DEF Init
  <2>2. PathInv
    BY <2>1 DEF PathInv
  <2>3. LineInv
    BY <2>1 DEF LineInv, Sorted, Before
  <2> QED
    BY <2>2, <2>3
<1>2. IsolationInv /\ PathInv /\ LineInv /\ [Next]_vars => PathInv' /\ LineInv'
  BY PathStep, LineStep
<1> QED
  BY <1>1, <1>2, IsolationInvariant, PTL DEF Spec

\* Two sequences in order, the second after the first.
LEMMA SortedConcat ==
    ASSUME NEW S, NEW u \in Seq(S), NEW v \in Seq(S), Sorted(u), Sorted(v),
           \A j \in DOMAIN v : Before(u, v[j].pos)
    PROVE  Sorted(u \o v)
<1>1. /\ Len(u) \in Nat /\ Len(v) \in Nat /\ DOMAIN u = 1 .. Len(u) /\ DOMAIN v = 1 .. Len(v)
      /\ DOMAIN (u \o v) = 1 .. Len(u) + Len(v)
      /\ \A i \in 1 .. Len(u) + Len(v) : (u \o v)[i] = IF i <= Len(u) THEN u[i] ELSE v[i - Len(u)]
  <2>1. /\ u \o v \in Seq(S) /\ Len(u \o v) = Len(u) + Len(v)
        /\ \A i \in 1 .. Len(u) + Len(v) : (u \o v)[i] = IF i <= Len(u) THEN u[i] ELSE v[i - Len(u)]
    BY ConcatProperties
  <2> QED
    BY <2>1
<1> SUFFICES ASSUME NEW i \in DOMAIN (u \o v), NEW j \in DOMAIN (u \o v), i < j
             PROVE  EndPos((u \o v)[i]) <= (u \o v)[j].pos
  BY DEF Sorted
<1>2. CASE j <= Len(u)
  <2>1. i \in DOMAIN u /\ j \in DOMAIN u /\ (u \o v)[i] = u[i] /\ (u \o v)[j] = u[j]
    BY <1>1, <1>2
  <2> QED
    BY <2>1 DEF Sorted
<1>3. CASE i <= Len(u) /\ ~(j <= Len(u))
  <2>1. /\ i \in DOMAIN u /\ j - Len(u) \in DOMAIN v
        /\ (u \o v)[i] = u[i] /\ (u \o v)[j] = v[j - Len(u)]
    BY <1>1, <1>3
  <2> QED
    BY <2>1 DEF Before
<1>4. CASE ~(i <= Len(u)) /\ ~(j <= Len(u))
  <2>1. /\ i - Len(u) \in DOMAIN v /\ j - Len(u) \in DOMAIN v /\ i - Len(u) < j - Len(u)
        /\ (u \o v)[i] = v[i - Len(u)] /\ (u \o v)[j] = v[j - Len(u)]
    BY <1>1, <1>4
  <2> QED
    BY <2>1 DEF Sorted
<1>5. j <= Len(u) \/ (i <= Len(u) /\ ~(j <= Len(u))) \/ (~(i <= Len(u)) /\ ~(j <= Len(u)))
  BY <1>1
<1> QED
  BY <1>2, <1>3, <1>4, <1>5

\* A client's line is in capture order.
LEMMA LineOrdered ==
    ASSUME TypeOK, LineInv, NEW c \in Subs
    PROVE  Sorted(Line(c))
<1> DEFINE h == heard[c]
           f == wFrame[c]
           w == IF wPc[c] = "write" THEN <<f>> ELSE <<>>
           q == queue[c]
           T == Packet \cup Frame
<1>1. h \in Seq(T) /\ f \in T /\ q \in Seq(T)
  <2>1. heard[c] \in Seq(Packet) /\ queue[c] \in Seq(Frame) /\ wFrame[c] \in Frame
    BY DEF TypeOK, FeedType, WriterType
  <2> QED
    BY <2>1
<1>2. /\ Sorted(h) /\ Sorted(q)
      /\ \A j \in DOMAIN q : Before(h, q[j].pos)
      /\ wPc[c] = "write" => /\ Before(h, f.pos)
                             /\ \A j \in DOMAIN q : EndPos(f) <= q[j].pos
  BY DEF LineInv
<1>3. Line(c) = (h \o w) \o q
  BY DEF Line
<1> HIDE DEF h, f, q, T
<1>4. /\ w \in Seq(T) /\ Sorted(w)
      /\ \A j \in DOMAIN w : Before(h, w[j].pos)
      /\ \A j \in DOMAIN q : Before(w, q[j].pos)
  <2>1. w \in Seq(T)
    BY <1>1
  <2>2. CASE wPc[c] = "write"
    <3>1. w = <<f>> /\ DOMAIN w = {1} /\ w[1] = f
      BY <2>2
    <3>2. \A i, j \in DOMAIN w : ~(i < j)
      BY <3>1
    <3> QED
      BY <1>2, <2>1, <2>2, <3>1, <3>2 DEF Sorted, Before
  <2>3. CASE wPc[c] # "write"
    <3>1. DOMAIN w = {}
      BY <2>3
    <3> QED
      BY <2>1, <3>1 DEF Sorted, Before
  <2> QED
    BY <2>2, <2>3
<1> HIDE DEF w
<1>5. Sorted(h \o w)
  BY <1>1, <1>2, <1>4, SortedConcat
<1>6. h \o w \in Seq(T) /\ \A i \in DOMAIN (h \o w) : \/ \E j \in DOMAIN h : (h \o w)[i] = h[j]
                                                      \/ \E j \in DOMAIN w : (h \o w)[i] = w[j]
  <2>1. /\ h \o w \in Seq(T) /\ Len(h \o w) = Len(h) + Len(w)
        /\ \A i \in 1 .. Len(h) + Len(w) : (h \o w)[i] = IF i <= Len(h) THEN h[i] ELSE w[i - Len(h)]
    BY <1>1, <1>4, ConcatProperties
  <2>2. Len(h) \in Nat /\ Len(w) \in Nat /\ DOMAIN h = 1 .. Len(h) /\ DOMAIN w = 1 .. Len(w)
        /\ DOMAIN (h \o w) = 1 .. Len(h) + Len(w)
    BY <1>1, <1>4, <2>1
  <2>3. \A i \in 1 .. Len(h) + Len(w) : i \in 1 .. Len(h) \/ (~(i <= Len(h)) /\ i - Len(h) \in 1 .. Len(w))
    BY <2>2
  <2> QED
    BY <2>1, <2>2, <2>3
<1>7. \A j \in DOMAIN q : Before(h \o w, q[j].pos)
  BY <1>2, <1>4, <1>6 DEF Before
<1> QED
  BY <1>1, <1>2, <1>3, <1>5, <1>6, <1>7, SortedConcat

\* Division with remainder.
LEMMA Division ==
    ASSUME NEW m \in Nat \ {0}, NEW a \in Int
    PROVE  a \div m \in Int /\ a % m \in 0 .. m - 1 /\ a = m * (a \div m) + (a % m)
OBVIOUS

\* A multiple of m is congruent to 0.
LEMMA MultipleMod ==
    ASSUME NEW m \in Nat \ {0}, NEW k \in Int
    PROVE  (m * k) % m = 0
<1> DEFINE r == (m * k) % m
           q == (m * k) \div m
<1>1. m * k \in Int
  OBVIOUS
<1>2. q \in Int /\ r \in 0 .. m - 1 /\ m * k = m * q + r
  BY <1>1
<1> HIDE DEF q, r
<1>3. m * k - m * q = m * (k - q)
  BY <1>2
<1>4. k - q >= 1 \/ k - q <= -1 \/ k - q = 0
  BY <1>2
<1>5. k - q >= 1 => m * (k - q) >= m
  BY <1>2
<1>6. k - q <= -1 => m * (k - q) <= -m
  BY <1>2
<1>7. k = q
  BY <1>1, <1>2, <1>3, <1>4, <1>5, <1>6
<1>8. m * k = m * q
  BY <1>7
<1>9. m * q \in Int
  BY <1>2
<1> QED
  BY <1>1, <1>2, <1>8, <1>9 DEF r

\* Two numbers and their residues lie equally far apart, modulo m.
LEMMA ModDistance ==
    ASSUME NEW m \in Nat \ {0}, NEW a \in Int, NEW b \in Int
    PROVE  ((a % m) - (b % m) - (a - b)) % m = 0
<1> DEFINE p == a \div m
           q == b \div m
           r == a % m
           s == b % m
<1>1. p \in Int /\ r \in 0 .. m - 1 /\ a = m * p + r
  BY Division
<1>2. q \in Int /\ s \in 0 .. m - 1 /\ b = m * q + s
  BY Division
<1> HIDE DEF p, q, r, s
<1>3. m * (q - p) = m * q - m * p /\ m * q \in Int /\ m * p \in Int
  BY <1>1, <1>2
<1>4. r - s - (a - b) = m * (q - p)
  BY <1>1, <1>2, <1>3
<1>5. q - p \in Int
  BY <1>1, <1>2
<1>6. (m * (q - p)) % m = 0
  BY <1>5, MultipleMod
<1>7. (r - s - (a - b)) % m = 0
  BY <1>4, <1>6
<1> QED
  BY <1>7 DEF r, s

-----------------------------------------------------------------------------
(* The clock of a connection *)

\* Every packet a client was sent carries the timestamp of its position,
\* counted from the base the connection keeps once it has sent one.
ClockInv ==
    \A c \in Subs : \A i \in DOMAIN heard[c] :
        based[c] /\ heard[c][i].ts = Timestamp(heard[c][i].pos, basePos[c])

\* Every step keeps the connections' clocks.
LEMMA ClockStep ==
    ASSUME TypeOK, ClockInv, [Next]_vars
    PROVE  ClockInv'
<1>1. CASE \E c \in Subs : Write(c)
  <2>1. PICK c \in Subs : Write(c)
    BY <1>1
  <2> DEFINE pkt == [pos |-> wFrame[c].pos, session |-> wFrame[c].session,
                     samples |-> wFrame[c].samples, run |-> wFrame[c].run,
                     ts |-> Timestamp(wFrame[c].pos, Base(c))]
  <2>2. /\ based' = [based EXCEPT ![c] = TRUE]
        /\ basePos' = [basePos EXCEPT ![c] = Base(c)]
        /\ heard' = [heard EXCEPT ![c] = Append(@, pkt)] \/ heard' = heard
    BY <2>1 DEF Write
  <2>3. /\ based \in [Subs -> BOOLEAN] /\ basePos \in [Subs -> Nat]
        /\ heard \in [Subs -> Seq(Packet)]
    BY DEF TypeOK, WriterType
  <2>4. pkt.pos = wFrame[c].pos /\ pkt.ts = Timestamp(wFrame[c].pos, Base(c))
    OBVIOUS
  <2> HIDE DEF pkt
  <2>5. ASSUME NEW d \in Subs, d # c, NEW i \in DOMAIN heard'[d]
        PROVE  based'[d] /\ heard'[d][i].ts = Timestamp(heard'[d][i].pos, basePos'[d])
    <3>1. based'[d] = based[d] /\ basePos'[d] = basePos[d] /\ heard'[d] = heard[d]
      BY <2>2, <2>3, <2>5
    <3> QED
      BY <2>5, <3>1 DEF ClockInv
  <2>6. based'[c] /\ basePos'[c] = Base(c)
    BY <2>2, <2>3
  <2>7. \A i \in DOMAIN heard[c] : heard[c][i].ts = Timestamp(heard[c][i].pos, Base(c))
    BY DEF ClockInv, Base
  <2>8. ASSUME NEW i \in DOMAIN heard'[c]
        PROVE  heard'[c][i].ts = Timestamp(heard'[c][i].pos, Base(c))
    <3>1. CASE heard' = heard
      BY <2>7, <2>8, <3>1
    <3>2. CASE heard' = [heard EXCEPT ![c] = Append(@, pkt)]
      <4>1. heard'[c] = Append(heard[c], pkt) /\ heard[c] \in Seq(Packet)
        BY <2>3, <3>2
      <4>2. \/ i \in DOMAIN heard[c] /\ heard'[c][i] = heard[c][i]
            \/ heard'[c][i] = pkt
        BY <2>8, <4>1
      <4> QED
        BY <2>4, <2>7, <4>2
    <3> QED
      BY <2>2, <3>1, <3>2
  <2> QED
    BY <2>5, <2>6, <2>8 DEF ClockInv, Timestamp
<1>2. CASE UNCHANGED <<based, basePos, heard>>
  BY <1>2 DEF ClockInv, Timestamp
<1>3. (\E c \in Subs : Write(c)) \/ UNCHANGED <<based, basePos, heard>>
  BY DEF Next, vars, writerVars, FanRead, FanGate, FanSend, FanEnd, FanClose, StageRead, StageAdmit,
         StageFill, StageFault, PushLoad, PushDone, Shutdown, FeedClose, Subscribe, SubClose,
         ConnClose, PushSend, NextCheck, NextSelect
<1> QED
  BY <1>1, <1>2, <1>3

\* The RTP timestamps of a connection lie as far apart as their audio, in the
\* timestamp's width, across the wraparound too (writer.go runWriter).
THEOREM ClockFollowsAudio == Spec => []TimestampsFollowAudio
<1>1. Init => ClockInv
  BY DEF Init, ClockInv
<1>2. TypeOK /\ ClockInv /\ [Next]_vars => ClockInv'
  BY ClockStep
<1>3. TypeOK /\ ClockInv => TimestampsFollowAudio
  <2> SUFFICES ASSUME TypeOK, ClockInv, NEW c \in Subs,
                      NEW i \in DOMAIN heard[c], NEW j \in DOMAIN heard[c]
               PROVE  (heard[c][j].ts - heard[c][i].ts - (heard[c][j].pos - heard[c][i].pos))
                         % TSMod = 0
    BY DEF TimestampsFollowAudio
  <2> DEFINE a == StartTS + (heard[c][j].pos - basePos[c])
             b == StartTS + (heard[c][i].pos - basePos[c])
  <2>1. heard[c][j].pos \in Nat /\ heard[c][i].pos \in Nat /\ basePos[c] \in Nat
        /\ StartTS \in Nat /\ TSMod \in Nat \ {0}
    <3>1. heard[c] \in Seq(Packet) /\ basePos[c] \in Nat
      BY DEF TypeOK, WriterType
    <3> QED
      BY <3>1, TimestampAssumption, PacketTypes
  <2>2. a \in Int /\ b \in Int /\ a - b = heard[c][j].pos - heard[c][i].pos
    BY <2>1
  <2>3. heard[c][j].ts = a % TSMod /\ heard[c][i].ts = b % TSMod
    BY DEF ClockInv, Timestamp
  <2> HIDE DEF a, b
  <2>4. ((a % TSMod) - (b % TSMod) - (a - b)) % TSMod = 0
    BY <2>1, <2>2, ModDistance
  <2> QED
    BY <2>2, <2>3, <2>4
<1> QED
  BY <1>1, <1>2, <1>3, TypeCorrect, PTL DEF Spec

-----------------------------------------------------------------------------
(* The media path implements LiveAudio *)

\* A subscription that was never made joined no stretch of playing.
NewInv == \A c \in Subs : subState[c] = "new" => epochOf[c] = 0

\* No step gives a subscription that was never made a stretch of playing.
LEMMA NewStep == ASSUME TypeOK, NewInv, [Next]_vars PROVE NewInv'
<1>1. subState \in [Subs -> {"new", "open", "closed"}] /\ epochOf \in [Subs -> Nat]
  BY DEF TypeOK, FeedType, HistType
<1>2. ASSUME NEW c \in Subs, Subscribe(c) \/ SubClose(c) PROVE NewInv'
  <2>1. /\ \E s \in {"open", "closed"} : subState' = [subState EXCEPT ![c] = s]
        /\ epochOf' = epochOf \/ epochOf' = [epochOf EXCEPT ![c] = JoinEpoch(snap)]
    BY <1>2 DEF Subscribe, SubClose, histVars, joinVars
  <2> QED
    BY <1>1, <2>1 DEF NewInv
<1>3. CASE UNCHANGED <<subState, epochOf>>
  BY <1>3 DEF NewInv
<1>4. (\E c \in Subs : Subscribe(c) \/ SubClose(c)) \/ UNCHANGED <<subState, epochOf>>
  BY DEF Next, vars, feedVars, histVars, joinVars, FanRead, FanGate, FanSend, FanEnd, FanClose,
         StageRead, StageAdmit, StageFill, StageFault, PushLoad, PushDone, Shutdown, FeedClose,
         ConnClose, PushSend, NextCheck, NextSelect, Write
<1> QED
  BY <1>2, <1>3, <1>4

\* The block of one packet.
BlockOf(p) == [from |-> p.pos, to |-> EndPos(p)]

\* The blocks of what a client was sent, one by one.
LEMMA BlocksAre ==
    ASSUME NEW S, NEW s \in Seq(S)
    PROVE  /\ Blocks(s) \in Seq({BlockOf(x) : x \in S}) /\ Len(Blocks(s)) = Len(s)
           /\ \A i \in 1 .. Len(s) : Blocks(s)[i] = BlockOf(s[i])
<1>1. DOMAIN s = 1 .. Len(s) /\ Len(s) \in Nat /\ \A i \in 1 .. Len(s) : s[i] \in S
  OBVIOUS
<1>2. Blocks(s) = [i \in 1 .. Len(s) |-> BlockOf(s[i])]
  BY <1>1 DEF Blocks, BlockOf
<1>3. Blocks(s) \in [1 .. Len(s) -> {BlockOf(x) : x \in S}]
  BY <1>1, <1>2
<1> QED
  BY <1>1, <1>2, <1>3, SeqDef, LenProperties

\* A packet sent is a block heard.
LEMMA BlocksAppended ==
    ASSUME NEW S, NEW s \in Seq(S), NEW x \in S
    PROVE  Blocks(Append(s, x)) = Append(Blocks(s), BlockOf(x))
<1> DEFINE B == {BlockOf(y) : y \in S}
           u == Blocks(Append(s, x))
           v == Append(Blocks(s), BlockOf(x))
<1>1. /\ Append(s, x) \in Seq(S) /\ Len(Append(s, x)) = Len(s) + 1 /\ Len(s) \in Nat
      /\ \A i \in 1 .. Len(s) : Append(s, x)[i] = s[i]
      /\ Append(s, x)[Len(s) + 1] = x
  <2>1. /\ DOMAIN s = 1 .. Len(s) /\ Len(s) \in Nat
        /\ \A i \in DOMAIN s : Append(s, x)[i] = s[i]
        /\ Append(s, x)[Len(s) + 1] = x
    BY ChannelElements
  <2>2. Append(s, x) \in Seq(S) /\ Len(Append(s, x)) = Len(s) + 1
    BY ChannelOps
  <2> QED
    BY <2>1, <2>2
<1>2. /\ u \in Seq(B) /\ Len(u) = Len(s) + 1
      /\ \A i \in 1 .. Len(s) + 1 : u[i] = BlockOf(Append(s, x)[i])
  BY <1>1, BlocksAre
<1>3. /\ Blocks(s) \in Seq(B) /\ Len(Blocks(s)) = Len(s)
      /\ \A i \in 1 .. Len(s) : Blocks(s)[i] = BlockOf(s[i])
  BY BlocksAre
<1>4. BlockOf(x) \in B
  OBVIOUS
<1> HIDE DEF B, u
<1>5. /\ v \in Seq(B) /\ Len(v) = Len(s) + 1
      /\ \A i \in 1 .. Len(s) : v[i] = Blocks(s)[i]
      /\ v[Len(s) + 1] = BlockOf(x)
  <2>1. /\ DOMAIN Blocks(s) = 1 .. Len(Blocks(s))
        /\ \A i \in DOMAIN Blocks(s) : Append(Blocks(s), BlockOf(x))[i] = Blocks(s)[i]
        /\ Append(Blocks(s), BlockOf(x))[Len(Blocks(s)) + 1] = BlockOf(x)
    BY <1>3, <1>4, ChannelElements
  <2>2. v \in Seq(B) /\ Len(v) = Len(Blocks(s)) + 1
    BY <1>3, <1>4, ChannelOps
  <2> QED
    BY <1>3, <2>1, <2>2
<1> HIDE DEF v
<1>6. ASSUME NEW i \in 1 .. Len(u) PROVE u[i] = v[i]
  <2>1. i \in 1 .. Len(s) \/ i = Len(s) + 1
    BY <1>1, <1>2
  <2> QED
    BY <1>1, <1>2, <1>3, <1>5, <2>1
<1>7. u = v
  BY <1>2, <1>5, <1>6, SeqEqual
<1> QED
  BY <1>7 DEF u, v

\* All that was ever sent lies before the frontier.
LEMMA SentBeforeFrontier ==
    ASSUME IsolationInv, NEW c \in Subs, NEW i \in DOMAIN heard[c]
    PROVE  EndPos(heard[c][i]) <= Frontier
<1>1. /\ start \in Seq(Nat) /\ heard[c][i] \in Packet /\ Frontier \in Nat
      /\ \A e \in 1 .. Len(start) : start[e] <= Frontier
  <2>1. start \in Seq(Nat) /\ heard[c] \in Seq(Packet)
    BY DEF IsolationInv, TypeOK, WriterType, HistType
  <2>2. pos \in Nat /\ hand.pos \in Nat
    BY FanNumbers DEF IsolationInv
  <2> QED
    BY <2>1, <2>2 DEF Frontier, IsolationInv, FeedInv
<1> DEFINE e == heard[c][i].session
<1>2. e \in 1 .. Len(start) /\ EndPos(heard[c][i]) <= LimitAt(start, Frontier, e)
  BY DEF IsolationInv, ClientInv, FrameOK, Within, EndPos
<1>3. EndPos(heard[c][i]) \in Nat
  BY <1>1, EndNumbers
<1>4. LimitAt(start, Frontier, e) \in Nat /\ LimitAt(start, Frontier, e) <= Frontier
  <2> HIDE DEF e
  <2>1. CASE e < Len(start)
    <3>1. e + 1 \in 1 .. Len(start)
      BY <1>1, <1>2, <2>1
    <3> QED
      BY <1>1, <2>1, <3>1 DEF LimitAt
  <2>2. CASE ~(e < Len(start))
    BY <1>1, <2>2 DEF LimitAt
  <2> QED
    BY <2>1, <2>2
<1> QED
  BY <1>1, <1>2, <1>3, <1>4

\* PLAY is a client that joins a stretch of playing: the one that is on, or a
\* new one at the frontier.
LEMMA JoinMaps ==
    ASSUME IsolationInv, NewInv, NEW c \in Subs, Subscribe(c)
    PROVE  Live!Join(c)
<1>1. /\ snap \in [epoch : Nat, subs : SUBSET Subs] /\ start \in Seq(Nat)
      /\ epochOf \in [Subs -> Nat] /\ snap.epoch = Len(start)
      /\ pos \in Nat /\ hand.pos \in Nat /\ hand.frames \in Nat
  BY FanNumbers DEF IsolationInv, TypeOK, FeedType, HistType, FeedInv
<1>2. /\ snap' = [epoch |-> JoinEpoch(snap), subs |-> snap.subs \cup {c}]
      /\ subState[c] = "new" /\ epochOf' = [epochOf EXCEPT ![c] = JoinEpoch(snap)]
      /\ start' = IF Active(snap) THEN start ELSE Append(start, FirstPos)
      /\ UNCHANGED <<pos, heard>>
  BY DEF Subscribe, fanVars
<1>3. snap'.subs = snap.subs \cup {c} /\ epochOf[c] = 0
  BY <1>2 DEF NewInv
<1>4. Len(start') = JoinEpoch(snap)
  <2>1. CASE Active(snap)
    BY <1>1, <1>2, <2>1 DEF JoinEpoch
  <2>2. CASE ~Active(snap)
    <3>1. FirstPos \in Nat
      BY <1>1 DEF FirstPos
    <3>2. Len(Append(start, FirstPos)) = Len(start) + 1
      BY <1>1, <3>1, ChannelOps
    <3> QED
      BY <1>1, <1>2, <2>2, <3>2 DEF JoinEpoch
  <2> QED
    BY <2>1, <2>2
<1>5. CASE snap.subs # {}
  <2>1. start' = start
    BY <1>2, <1>5 DEF Active
  <2> QED
    BY <1>2, <1>3, <1>4, <1>5, <2>1 DEF Live!Join
<1>6. CASE snap.subs = {}
  <2>1. start' = Append(start, FirstPos)
    BY <1>2, <1>6 DEF Active
  <2>2. FirstPos = Frontier /\ FirstPos \in 0 .. pos
    <3>1. FirstPos \in Nat /\ FirstPos <= pos
      BY <1>1 DEF FirstPos, IsolationInv, FanInv
    <3> QED
      BY <1>1, <3>1 DEF FirstPos, Frontier
  <2>3. start # <<>> => start[Len(start)] <= FirstPos
    <3>1. start # <<>> => Len(start) \in 1 .. Len(start)
      BY <1>1
    <3> QED
      BY <2>2, <3>1 DEF IsolationInv, FeedInv
  <2>4. \A d \in Subs : \A i \in DOMAIN Blocks(heard[d]) : Blocks(heard[d])[i].to <= FirstPos
    BY <2>2, SentBeforeFrontier DEF Blocks
  <2>5. FirstPos <= pos
    BY <1>1, <2>2
  <2>6. Live!Begin(FirstPos)
    BY <2>1, <2>3, <2>4, <2>5 DEF Live!Begin
  <2> QED
    BY <1>2, <1>3, <1>4, <1>6, <2>2, <2>6 DEF Live!Join
<1> QED
  BY <1>5, <1>6

\* A packet sent is audio of the client's own stretch, heard after all that it
\* was sent before.
LEMMA WriteMaps ==
    ASSUME IsolationInv, LineInv, NEW c \in Subs, Write(c)
    PROVE  Live!Hear(c) \/ UNCHANGED Live!vars
<1> DEFINE f == wFrame[c]
           pkt == [pos |-> f.pos, session |-> f.session, samples |-> f.samples,
                   run |-> f.run, ts |-> Timestamp(f.pos, Base(c))]
           h == heard[c]
           e == epochOf[c]
<1>1. /\ wPc[c] = "write" /\ UNCHANGED <<pos, start, epochOf, snap>>
      /\ heard' = heard \/ heard' = [heard EXCEPT ![c] = Append(h, pkt)]
  BY DEF Write, feedVars, fanVars, histVars, joinVars
<1>2. /\ f \in Frame /\ h \in Seq(Packet) /\ heard \in [Subs -> Seq(Packet)]
      /\ start \in Seq(Nat) /\ pos \in Nat /\ hand.pos \in Nat /\ hand.frames \in Nat
  BY FanNumbers DEF IsolationInv, TypeOK, WriterType, HistType
<1>3. /\ f.pos \in Nat /\ f.samples \in Seq(Nat) /\ EndPos(f) \in Nat
      /\ pkt.pos = f.pos /\ EndPos(pkt) = EndPos(f)
  BY <1>2, RecordTypes, EndNumbers DEF EndPos
<1>4. f.pos < EndPos(f)
  <2>1. Len(f.samples) \in IF Mode = "opus" THEN {FrameLen} ELSE 1 .. FrameLen
    BY <1>1 DEF IsolationInv, ClientInv, FrameOK, WellFormed
  <2>2. Len(f.samples) > 0
    BY <2>1, SizesAssumption
  <2>3. Len(f.samples) \in Nat
    BY <1>3
  <2> QED
    BY <1>3, <2>2, <2>3 DEF EndPos
<1>5. /\ e \in 1 .. Len(start) /\ start[e] <= f.pos
      /\ EndPos(f) <= LimitAt(start, Frontier, e)
  BY <1>1 DEF IsolationInv, ClientInv, FrameOK, Within, EndPos
<1>6. LimitAt(start, Frontier, e) <= Live!End(e) /\ LimitAt(start, Frontier, e) \in Nat /\ Live!End(e) \in Nat
  <2> HIDE DEF e
  <2>1. Frontier \in Nat /\ Frontier <= pos
    BY <1>2 DEF Frontier, IsolationInv, FanInv
  <2>2. e < Len(start) => start[e + 1] \in Nat
    BY <1>2, <1>5
  <2> QED
    BY <1>2, <2>1, <2>2 DEF LimitAt, Live!End
<1>7. Live!HeardUpTo(c) \in Nat /\ Live!HeardUpTo(c) <= f.pos
  <2>1. Blocks(h) \in Seq({BlockOf(x) : x \in Packet}) /\ Len(Blocks(h)) = Len(h)
    BY <1>2, BlocksAre
  <2>2. CASE h = <<>>
    <3>1. Blocks(h) = <<>>
      BY <2>1, <2>2
    <3>2. start[e] \in Nat
      BY <1>2, <1>5
    <3> QED
      BY <1>5, <3>1, <3>2 DEF Live!HeardUpTo
  <2>3. CASE h # <<>>
    <3>1. Len(h) \in 1 .. Len(h) /\ Blocks(h) # <<>>
      BY <1>2, <2>1, <2>3
    <3>2. Len(h) \in DOMAIN h /\ h[Len(h)] \in Packet
      BY <1>2, <3>1
    <3>3. Blocks(h)[Len(h)].to = EndPos(h[Len(h)])
      BY <3>2 DEF Blocks
    <3>4. EndPos(h[Len(h)]) \in Nat
      BY <3>2, EndNumbers
    <3>5. EndPos(h[Len(h)]) <= f.pos
      BY <1>1, <3>2 DEF LineInv, Before
    <3> QED
      BY <2>1, <3>1, <3>3, <3>4, <3>5 DEF Live!HeardUpTo
  <2> QED
    BY <2>2, <2>3
<1>8. CASE heard' = heard
  BY <1>1, <1>8 DEF Live!vars
<1>9. CASE heard' = [heard EXCEPT ![c] = Append(h, pkt)]
  <2>1. Blocks(Append(h, pkt)) = Append(Blocks(h), [from |-> f.pos, to |-> EndPos(f)])
    <3>1. h \in Seq(Packet \cup {pkt}) /\ pkt \in Packet \cup {pkt}
      BY <1>2
    <3>2. Blocks(Append(h, pkt)) = Append(Blocks(h), BlockOf(pkt))
      BY <3>1, BlocksAppended
    <3>3. BlockOf(pkt) = [from |-> f.pos, to |-> EndPos(f)]
      BY <1>3 DEF BlockOf
    <3> QED
      BY <3>2, <3>3
  <2> HIDE DEF pkt
  <2>2. \A d \in Subs : heard'[d] = IF d = c THEN Append(h, pkt) ELSE heard[d]
    BY <1>2, <1>9
  <2>3. [d \in Subs |-> Blocks(heard'[d])] =
          [[d \in Subs |-> Blocks(heard[d])] EXCEPT ![c] =
             Append(@, [from |-> f.pos, to |-> EndPos(f)])]
    BY <2>1, <2>2
  <2>4. f.pos \in Live!HeardUpTo(c) .. Live!End(e) /\ EndPos(f) \in (f.pos + 1) .. Live!End(e)
    <3> HIDE DEF e
    <3>1. EndPos(f) <= Live!End(e)
      BY <1>3, <1>5, <1>6
    <3> QED
      BY <1>3, <1>4, <1>6, <1>7, <3>1
  <2>5. e # 0
    BY <1>5
  <2>6. [d \in Subs |-> Blocks(heard[d])]' = [d \in Subs |-> Blocks(heard'[d])]
    BY DEF Blocks, EndPos
  <2> HIDE DEF f
  <2> QED
    BY <1>1, <2>3, <2>4, <2>5, <2>6 DEF Live!Hear
<1> QED
  BY <1>1, <1>8, <1>9

\* Every step of the media path is a step of LiveAudio or changes nothing that
\* LiveAudio is about.
LEMMA StepMaps ==
    ASSUME IsolationInv, LineInv, NewInv, [Next]_vars
    PROVE  [Live!Next]_(Live!vars)
<1>1. CASE FanRead
  <2>1. PICK n \in PeriodLens : pos' = pos + n
    BY <1>1 DEF FanRead
  <2>2. pos \in Nat /\ n \in Nat /\ n > 0
    BY FanNumbers, SizesAssumption DEF IsolationInv
  <2>3. pos' \in Nat /\ pos' > pos
    BY <2>1, <2>2
  <2>4. UNCHANGED <<start, epochOf, snap, heard>>
    BY <1>1 DEF FanRead, feedVars, writerVars, histVars, joinVars
  <2> QED
    BY <2>3, <2>4 DEF Live!Next, Live!Capture
<1>2. ASSUME NEW c \in Subs, Subscribe(c) PROVE [Live!Next]_(Live!vars)
  BY <1>2, JoinMaps DEF Live!Next
<1>3. ASSUME NEW c \in Subs, SubClose(c) PROVE [Live!Next]_(Live!vars)
  <2>1. snap'.subs = snap.subs \ {c} /\ UNCHANGED <<pos, start, epochOf, heard>>
    BY <1>3 DEF SubClose, fanVars, writerVars, histVars, joinVars, IsolationInv, TypeOK, FeedType
  <2>2. CASE c \in snap.subs
    BY <2>1, <2>2 DEF Live!Next, Live!Leave
  <2>3. CASE c \notin snap.subs
    BY <2>1, <2>3 DEF Live!vars
  <2> QED
    BY <2>2, <2>3
<1>4. ASSUME NEW c \in Subs, Write(c) PROVE [Live!Next]_(Live!vars)
  BY <1>4, WriteMaps DEF Live!Next
<1>5. CASE UNCHANGED <<pos, start, epochOf, snap, heard>>
  BY <1>5 DEF Live!vars
<1>6. \/ FanRead \/ \E c \in Subs : Subscribe(c) \/ SubClose(c) \/ Write(c)
      \/ UNCHANGED <<pos, start, epochOf, snap, heard>>
  BY DEF Next, vars, feedVars, fanVars, writerVars, histVars, joinVars, FanGate, FanSend, FanEnd,
         FanClose, StageRead, StageAdmit, StageFill, StageFault, PushLoad, PushDone, Shutdown,
         FeedClose, ConnClose, PushSend, NextCheck, NextSelect
<1> QED
  BY <1>1, <1>2, <1>3, <1>4, <1>5, <1>6

\* The whole media path, with its queues, its encoder and its five kinds of
\* goroutine, does for its clients what LiveAudio promises (fanout.go,
\* pipeline.go, feed.go and writer.go together).
THEOREM MediaPathIsLiveAudio == Spec => ImplementsLiveAudio
<1>1. Init => NewInv /\ Live!Init
  <2> SUFFICES ASSUME Init PROVE NewInv /\ Live!Init
    OBVIOUS
  <2>1. NewInv
    BY DEF Init, NewInv
  <2>2. \A c \in Subs : Blocks(heard[c]) = <<>>
    <3>1. Blocks(<<>>) = <<>>
      <4>1. <<>> \in Seq({}) /\ Len(<<>>) = 0
        OBVIOUS
      <4>2. Len(Blocks(<<>>)) = 0 /\ Blocks(<<>>) \in Seq({BlockOf(x) : x \in {}})
        BY <4>1, BlocksAre
      <4> QED
        BY <4>2
    <3> QED
      BY <3>1 DEF Init
  <2>3. pos = 0 /\ start = <<>> /\ epochOf = [c \in Subs |-> 0] /\ snap.subs = {}
    BY DEF Init
  <2> QED
    BY <2>1, <2>2, <2>3 DEF Live!Init
<1>2. TypeOK /\ NewInv /\ [Next]_vars => NewInv'
  BY NewStep
<1>3. IsolationInv => TypeOK
  BY DEF IsolationInv
<1>4. IsolationInv /\ LineInv /\ NewInv /\ [Next]_vars => [Live!Next]_(Live!vars)
  BY StepMaps
<1> QED
  BY <1>1, <1>2, <1>3, <1>4, IsolationInvariant, OrderInvariant, PTL DEF Spec, ImplementsLiveAudio, Live!Spec

-----------------------------------------------------------------------------
(* No silent gaps *)

\* Period q is the next one of its session after p, or of a later session.
Follows(p, q) == p.session <= q.session /\ (p.session = q.session => q.pos = PeriodEnd(p))

\* Likewise for the period the fan-out delivers next.
FanNext(p) ==
    IF fanPc = "send"
      THEN Follows(p, hand)
      ELSE p.session <= snap.epoch /\ (p.session = snap.epoch /\ Active(snap) => FirstPos = PeriodEnd(p))

\* Likewise for the one the stage reads next.
NextUp(p) == IF ch # <<>> THEN Follows(p, ch[1]) ELSE FanNext(p)

\* Until audio is dropped, the periods of a session reach the stage without a
\* gap; the frame being delivered is of the session encoded now.
ChainInv ==
    /\ stPc \in {"push", "send"} => frame.session = session
    /\ dropped = 0 =>
         /\ \A i, j \in DOMAIN ch : j = i + 1 => Follows(ch[i], ch[j])
         /\ \A i \in DOMAIN ch : i = Len(ch) => FanNext(ch[i])
         /\ stPc \in {"admit", "fill", "push", "send"} => NextUp(period)

\* The drop counter never falls back to 0.
LEMMA DroppedGrows ==
    ASSUME TypeOK, [Next]_vars, dropped' = 0
    PROVE  /\ dropped = 0
           /\ FanSend => HasRoom(ch, FanoutBuffer)
           /\ PushDone => lost = 0
<1>1. dropped \in Nat /\ lost \in Nat
  BY DEF TypeOK, StageType
<1>2. CASE FanSend
  <2>1. HasRoom(ch, FanoutBuffer) /\ dropped' = dropped
    BY <1>1, <1>2 DEF FanSend
  <2>2. ~PushDone
    BY <1>2 DEF FanSend, PushDone, stageVars
  <2> QED
    BY <2>1, <2>2
<1>3. CASE PushDone
  <2>1. dropped = 0 /\ lost = 0
    BY <1>1, <1>3 DEF PushDone
  <2>2. ~FanSend
    BY <1>3 DEF FanSend, PushDone, stageVars
  <2> QED
    BY <2>1, <2>2
<1>4. CASE dropped' = dropped /\ ~FanSend /\ ~PushDone
  BY <1>4
<1>5. dropped' = dropped \/ FanSend \/ PushDone
  BY DEF Next, vars, FanRead, FanGate, FanEnd, FanClose, StageRead, StageAdmit, StageFill,
         StageFault, PushLoad, Subscribe, SubClose, ConnClose, Shutdown, FeedClose, PushSend,
         NextCheck, NextSelect, Write
<1> QED
  BY <1>2, <1>3, <1>4, <1>5

\* The period the fan-out delivers next stays the next one.
LEMMA FanNextKept ==
    ASSUME IsolationInv, [Next]_vars, NEW p \in Period, FanNext(p), ~FanSend
    PROVE  FanNext(p)'
<1>1. /\ pos \in Nat /\ hand \in Period /\ hand.pos \in Nat /\ hand.frames \in Nat
      /\ snap \in [epoch : Nat, subs : SUBSET Subs] /\ snap.epoch \in Nat /\ p.session \in Nat
  BY FanNumbers, RecordTypes DEF IsolationInv, TypeOK, FeedType
<1>2. CASE FanRead
  <2>1. PICK n \in PeriodLens : hand' = [pos |-> pos, frames |-> n, session |-> 0]
    BY <1>2 DEF FanRead
  <2>2. fanPc = "read" /\ fanPc' = "gate" /\ hand'.pos = pos /\ snap' = snap
    BY <1>2, <2>1 DEF FanRead, feedVars
  <2> QED
    BY <2>2 DEF FanNext, FirstPos, PeriodEnd
<1>3. CASE FanGate /\ Active(snap)
  <2>1. fanPc = "gate" /\ fanPc' = "send" /\ hand' = [hand EXCEPT !.session = snap.epoch]
    BY <1>3 DEF FanGate
  <2>2. hand'.pos = hand.pos /\ hand'.session = snap.epoch
    BY <1>1, <2>1 DEF Period
  <2> QED
    BY <1>3, <2>1, <2>2 DEF FanNext, FirstPos, Follows, PeriodEnd
<1>4. CASE FanGate /\ ~Active(snap)
  <2>1. fanPc = "gate" /\ fanPc' = "read" /\ snap' = snap
    BY <1>4 DEF FanGate, feedVars
  <2> QED
    BY <1>4, <2>1 DEF FanNext
<1>5. CASE FanEnd
  BY <1>5 DEF FanEnd, FanNext, FirstPos, PeriodEnd, feedVars
<1>6. ASSUME NEW c \in Subs, Subscribe(c) PROVE FanNext(p)'
  <2>1. snap'.epoch = JoinEpoch(snap) /\ UNCHANGED <<fanPc, hand, pos>>
    BY <1>6 DEF Subscribe, fanVars
  <2>2. CASE fanPc = "send"
    BY <2>1, <2>2 DEF FanNext, Follows, PeriodEnd
  <2>3. CASE fanPc # "send"
    <3>1. CASE Active(snap)
      BY <2>1, <2>3, <3>1 DEF FanNext, JoinEpoch, FirstPos, PeriodEnd
    <3>2. CASE ~Active(snap)
      <4>1. snap'.epoch = snap.epoch + 1
        BY <2>1, <3>2 DEF JoinEpoch
      <4>2. p.session <= snap.epoch
        BY <2>3 DEF FanNext
      <4> QED
        BY <1>1, <2>1, <2>3, <4>1, <4>2 DEF FanNext
    <3> QED
      BY <3>1, <3>2
  <2> QED
    BY <2>2, <2>3
<1>7. ASSUME NEW c \in Subs, SubClose(c) PROVE FanNext(p)'
  <2>1. /\ snap'.epoch = snap.epoch /\ snap'.subs = snap.subs \ {c}
        /\ UNCHANGED <<fanPc, hand, pos>>
    BY <1>1, <1>7 DEF SubClose, fanVars
  <2> QED
    BY <2>1 DEF FanNext, Follows, FirstPos, PeriodEnd, Active
<1>8. CASE UNCHANGED <<fanPc, hand, pos, snap>>
  BY <1>8 DEF FanNext, Follows, FirstPos, PeriodEnd
<1>9. \/ FanRead \/ FanGate \/ FanEnd \/ \E c \in Subs : Subscribe(c) \/ SubClose(c)
      \/ UNCHANGED <<fanPc, hand, pos, snap>>
  BY DEF Next, vars, feedVars, fanVars, FanClose, StageRead, StageAdmit, StageFill, StageFault,
         PushLoad, PushDone, ConnClose, Shutdown, FeedClose, PushSend, NextCheck, NextSelect, Write
<1> QED
  BY <1>2, <1>3, <1>4, <1>5, <1>6, <1>7, <1>8, <1>9

\* Every step keeps the chain of periods.
LEMMA ChainStep ==
    ASSUME IsolationInv, ChainInv, [Next]_vars
    PROVE  ChainInv'
<1> DEFINE NextLater(p) ==
             IF fanPc' = "send"
               THEN Follows(p, hand')
               ELSE /\ p.session <= snap'.epoch
                    /\ p.session = snap'.epoch /\ snap'.subs # {} =>
                         (IF fanPc' = "gate" THEN hand'.pos ELSE pos') = PeriodEnd(p)
           UpLater(p) == IF ch' # <<>> THEN Follows(p, ch'[1]) ELSE NextLater(p)
           Busy == {"admit", "fill", "push", "send"}
<1>0. /\ ch \in Seq(Period) /\ hand \in Period /\ period \in Period
      /\ pos \in Nat /\ hand.pos \in Nat /\ hand.frames \in Nat
      /\ \A i \in DOMAIN ch : ch[i] \in Period
      /\ DOMAIN ch = 1 .. Len(ch) /\ Len(ch) \in Nat
      /\ TypeOK
  <2>1. ch \in Seq(Period) /\ period \in Period /\ TypeOK
    BY DEF IsolationInv, TypeOK, FanType, StageType
  <2> QED
    BY <2>1, FanNumbers
<1>1. \A p \in Period : FanNext(p) /\ ~FanSend => NextLater(p)
  <2> SUFFICES ASSUME NEW p \in Period, FanNext(p), ~FanSend PROVE NextLater(p)
    OBVIOUS
  <2>1. FanNext(p)'
    BY FanNextKept
  <2> QED
    BY <2>1 DEF FanNext, FirstPos, Follows, PeriodEnd, Active
<1>2. SUFFICES /\ stPc' \in {"push", "send"} => frame'.session = session'
               /\ dropped' = 0 =>
                    /\ \A i, j \in DOMAIN ch' : j = i + 1 => Follows(ch'[i], ch'[j])
                    /\ \A i \in DOMAIN ch' : i = Len(ch') => NextLater(ch'[i])
                    /\ stPc' \in Busy => UpLater(period')
  BY DEF ChainInv, FanNext, NextUp, FirstPos, Follows, PeriodEnd, Active
<1> HIDE DEF NextLater
<1>3. stPc' \in {"push", "send"} => frame'.session = session'
  <2>1. CASE StageFill
    <3>1. session' = session /\ stPc = "fill"
      BY <2>1 DEF StageFill
    <3>2. stPc' = "push" => frame'.session = session
      BY <2>1, <3>1 DEF StageFill, OpusFill, PcmFill, PeriodDone
    <3> QED
      BY <2>1, <3>1, <3>2 DEF StageFill, OpusFill, PcmFill, PeriodDone
  <2>2. CASE StageRead \/ StageAdmit \/ StageFault \/ PushLoad \/ PushDone
    BY <2>2 DEF StageRead, StageAdmit, StageFault, PushLoad, PushDone, ChainInv
  <2>3. CASE UNCHANGED <<stPc, frame, session>>
    BY <2>3 DEF ChainInv
  <2>4. \/ StageFill \/ StageRead \/ StageAdmit \/ StageFault \/ PushLoad \/ PushDone
        \/ UNCHANGED <<stPc, frame, session>>
    BY DEF Next, vars, stageVars, FanRead, FanGate, FanSend, FanEnd, FanClose, Subscribe, SubClose,
           ConnClose, Shutdown, FeedClose, PushSend, NextCheck, NextSelect, Write
  <2> QED
    BY <2>1, <2>2, <2>3, <2>4
<1>4. SUFFICES ASSUME dropped' = 0
               PROVE  /\ \A i, j \in DOMAIN ch' : j = i + 1 => Follows(ch'[i], ch'[j])
                      /\ \A i \in DOMAIN ch' : i = Len(ch') => NextLater(ch'[i])
                      /\ stPc' \in Busy => UpLater(period')
  BY <1>3
<1>5. dropped = 0 /\ (FanSend => HasRoom(ch, FanoutBuffer))
  BY <1>0, <1>4, DroppedGrows
<1>6. /\ \A i, j \in DOMAIN ch : j = i + 1 => Follows(ch[i], ch[j])
      /\ \A i \in DOMAIN ch : i = Len(ch) => FanNext(ch[i])
      /\ stPc \in Busy => NextUp(period)
  BY <1>5 DEF ChainInv
<1>7. CASE FanSend
  <2>1. /\ ch' = Append(ch, hand) /\ fanPc = "send" /\ fanPc' = "read"
        /\ UNCHANGED <<snap, pos, stPc, period>>
    BY <1>5, <1>7 DEF FanSend, feedVars, stageVars
  <2>2. /\ DOMAIN ch' = 1 .. Len(ch) + 1 /\ Len(ch') = Len(ch) + 1 /\ ch' # <<>>
        /\ \A i \in DOMAIN ch : ch'[i] = ch[i]
        /\ ch'[Len(ch) + 1] = hand
    <3>1. /\ DOMAIN ch' = 1 .. Len(ch) + 1
          /\ \A i \in DOMAIN ch : ch'[i] = ch[i]
          /\ ch'[Len(ch) + 1] = hand
      BY <1>0, <2>1, ChannelElements
    <3>2. Len(ch') = Len(ch) + 1
      BY <1>0, <2>1, ChannelOps
    <3>3. ch' # <<>>
      BY <1>0, <2>1
    <3> QED
      BY <3>1, <3>2, <3>3
  <2>3. NextLater(hand)
    <3>1. /\ hand.session \in 1 .. Len(start) /\ Len(start) = snap.epoch
          /\ hand.pos + hand.frames = pos
      BY <2>1 DEF IsolationInv, FanInv, FeedInv, PeriodOK, Within
    <3>2. start \in Seq(Nat)
      BY DEF IsolationInv, TypeOK, HistType
    <3> QED
      BY <2>1, <3>1, <3>2 DEF NextLater, PeriodEnd
  <2>4. \A i \in DOMAIN ch : i = Len(ch) => Follows(ch[i], hand)
    BY <1>6, <2>1 DEF FanNext
  <2>5. ASSUME NEW i \in DOMAIN ch', NEW j \in DOMAIN ch', j = i + 1
        PROVE  Follows(ch'[i], ch'[j])
    <3>1. i \in DOMAIN ch /\ (j \in DOMAIN ch \/ (i = Len(ch) /\ j = Len(ch) + 1))
      BY <1>0, <2>2, <2>5
    <3> QED
      BY <1>6, <2>2, <2>4, <2>5, <3>1
  <2>6. \A i \in DOMAIN ch' : i = Len(ch') => NextLater(ch'[i])
    BY <2>2, <2>3
  <2>7. stPc \in Busy => Follows(period, ch'[1])
    <3>1. CASE ch = <<>>
      <4>1. Len(ch) + 1 = 1
        BY <3>1
      <4> QED
        BY <1>6, <2>1, <2>2, <3>1, <4>1 DEF NextUp, FanNext
    <3>2. CASE ch # <<>>
      <4>1. 1 \in DOMAIN ch
        BY <1>0, <3>2
      <4> QED
        BY <1>6, <2>2, <3>2, <4>1 DEF NextUp
    <3> QED
      BY <3>1, <3>2
  <2> QED
    BY <2>1, <2>2, <2>5, <2>6, <2>7
<1>8. CASE StageRead /\ stPc' = "admit"
  <2>1. ch # <<>> /\ ch' = Tail(ch) /\ period' = Head(ch) /\ ~FanSend
    BY <1>8 DEF StageRead, FanSend, stageVars
  <2>2. /\ 1 \in DOMAIN ch /\ period' = ch[1]
        /\ DOMAIN ch' = 1 .. Len(ch) - 1 /\ Len(ch') = Len(ch) - 1
        /\ \A i \in DOMAIN ch' : i + 1 \in DOMAIN ch /\ ch'[i] = ch[i + 1]
    <3>1. Len(ch') = Len(ch) - 1
      BY <1>0, <2>1
    <3> QED
      BY <1>0, <2>1, <3>1, ReceivedElements
  <2>3. ASSUME NEW i \in DOMAIN ch', NEW j \in DOMAIN ch', j = i + 1
        PROVE  Follows(ch'[i], ch'[j])
    <3>1. i + 1 \in DOMAIN ch /\ j + 1 \in DOMAIN ch /\ j + 1 = (i + 1) + 1
      BY <2>2, <2>3
    <3> QED
      BY <1>6, <2>2, <3>1
  <2>4. ASSUME NEW i \in DOMAIN ch', i = Len(ch') PROVE NextLater(ch'[i])
    <3>1. i + 1 \in DOMAIN ch /\ i + 1 = Len(ch)
      BY <1>0, <2>2, <2>4
    <3> QED
      BY <1>0, <1>1, <1>6, <2>1, <2>2, <3>1
  <2>5. UpLater(period')
    <3>1. CASE ch' = <<>>
      <4>1. Len(ch') = 0
        BY <3>1
      <4>2. Len(ch) = 1
        <5>1. Len(ch) \in Nat
          BY <1>0
        <5>2. Len(ch) - 1 = 0
          BY <2>2, <4>1
        <5> QED
          BY <5>1, <5>2
      <4>3. ch[1] \in Period /\ FanNext(ch[1])
        BY <1>0, <1>6, <2>2, <4>2
      <4>4. NextLater(ch[1])
        BY <1>1, <2>1, <4>3
      <4> QED
        BY <2>2, <3>1, <4>4
    <3>2. CASE ch' # <<>>
      <4>1. ch' \in Seq(Period)
        BY <1>0, <2>1
      <4>2. 1 \in DOMAIN ch'
        BY <3>2, <4>1
      <4>3. 1 + 1 \in DOMAIN ch /\ ch'[1] = ch[1 + 1]
        BY <2>2, <4>2
      <4>4. Follows(ch[1], ch[1 + 1])
        BY <1>6, <2>2, <4>3
      <4> QED
        BY <2>2, <3>2, <4>3, <4>4
    <3> QED
      BY <3>1, <3>2
  <2> QED
    BY <2>3, <2>4, <2>5
<1>9. CASE ch' = ch /\ ~FanSend /\ (stPc' \in Busy => stPc \in Busy /\ period' = period)
  <2>1. \A i \in DOMAIN ch' : i = Len(ch') => NextLater(ch'[i])
    BY <1>0, <1>1, <1>6, <1>9
  <2>2. stPc' \in Busy => UpLater(period')
    BY <1>0, <1>1, <1>6, <1>9 DEF NextUp
  <2> QED
    BY <1>6, <1>9, <2>1, <2>2
<1>10. \/ FanSend \/ (StageRead /\ stPc' = "admit")
       \/ ch' = ch /\ ~FanSend /\ (stPc' \in Busy => stPc \in Busy /\ period' = period)
  <2>1. CASE FanSend
    BY <2>1
  <2>2. CASE StageRead
    <3>1. ~FanSend
      BY <2>2 DEF StageRead, FanSend, stageVars
    <3> QED
      BY <2>2, <3>1 DEF StageRead
  <2>3. CASE StageAdmit \/ StageFill \/ StageFault \/ PushLoad \/ PushDone
    <3>1. ch' = ch
      BY <2>3 DEF StageAdmit, StageFill, StageFault, PushLoad, PushDone, fanVars
    <3>2. stPc' \in Busy => stPc \in Busy /\ period' = period
      BY <2>3 DEF StageAdmit, StageFill, StageFault, PushLoad, PushDone, OpusFill, PcmFill, PeriodDone
    <3> QED
      BY <3>1, <3>2
  <2>4. CASE UNCHANGED <<ch, stPc, period>>
    BY <2>4
  <2>5. \/ FanSend \/ StageRead \/ StageAdmit \/ StageFill \/ StageFault \/ PushLoad \/ PushDone
        \/ UNCHANGED <<ch, stPc, period>>
    BY DEF Next, vars, fanVars, stageVars, FanRead, FanGate, FanEnd, FanClose, Subscribe, SubClose,
           ConnClose, Shutdown, FeedClose, PushSend, NextCheck, NextSelect, Write
  <2> QED
    BY <2>1, <2>2, <2>3, <2>4, <2>5
<1> QED
  BY <1>7, <1>8, <1>9, <1>10

\* The stage's next period is of session e and starts at n.
NextIs(e, n) ==
    IF ch # <<>> THEN ch[1].session = e /\ ch[1].pos = n
    ELSE IF fanPc = "send" THEN hand.session = e /\ hand.pos = n
    ELSE FirstPos = n

\* Client c, which still gets what its session carries, was last given the
\* audio up to n: what comes next for it starts there.
Cont(c, n) ==
    /\ stPc = "send" /\ c \in targets => n = frame.pos
    /\ c \in snap.subs =>
         /\ stPc = "push" => n = frame.pos
         /\ stPc = "send" /\ c \notin targets /\ lost = 0 => n = period.pos + off
         /\ stPc = "fill" => n = IF acc = <<>> THEN period.pos + off ELSE framePos
         /\ stPc = "admit" => /\ period.session = epochOf[c]
                              /\ period.pos = IF acc = <<>> THEN n ELSE nextPos
         /\ stPc = "read" => NextIs(epochOf[c], IF acc = <<>> THEN n ELSE nextPos)
         /\ stPc \in {"read", "admit"} /\ acc # <<>> => n = framePos

\* While nothing is dropped the next period of a client's session follows the
\* one the stage has.
LEMMA NextIsUp ==
    ASSUME IsolationInv, ChainInv, dropped = 0, NEW c \in snap.subs,
           stPc \in {"fill", "push", "send"}, session = epochOf[c]
    PROVE  NextIs(epochOf[c], PeriodEnd(period))
<1>1. /\ snap.epoch \in Nat /\ epochOf[c] = snap.epoch /\ period.session = snap.epoch
      /\ snap.epoch = Len(start) /\ Active(snap) /\ NextUp(period)
  BY DEF IsolationInv, TypeOK, FeedType, FeedInv, StageInv, ChainInv, Active
<1>2. CASE ch # <<>>
  <2>1. 1 \in DOMAIN ch
    <3>1. ch \in Seq(Period)
      BY DEF IsolationInv, TypeOK, FanType
    <3> QED
      BY <1>2, <3>1
  <2>2. ch[1].session \in 1 .. Len(start)
    BY <2>1 DEF IsolationInv, FanInv, PeriodOK, Within
  <2>3. Follows(period, ch[1])
    BY <1>1, <1>2 DEF NextUp
  <2>4. ch[1].session = snap.epoch
    BY <1>1, <2>2, <2>3 DEF Follows
  <2> QED
    BY <1>1, <1>2, <2>3, <2>4 DEF NextIs, Follows
<1>3. CASE ch = <<>> /\ fanPc = "send"
  <2>1. hand.session \in 1 .. Len(start)
    BY <1>3 DEF IsolationInv, FanInv, PeriodOK, Within
  <2>2. Follows(period, hand)
    BY <1>1, <1>3 DEF NextUp, FanNext
  <2>3. hand.session = snap.epoch
    BY <1>1, <2>1, <2>2 DEF Follows
  <2> QED
    BY <1>1, <1>3, <2>2, <2>3 DEF NextIs, Follows
<1>4. CASE ch = <<>> /\ fanPc # "send"
  BY <1>1, <1>4 DEF NextUp, FanNext, NextIs
<1> QED
  BY <1>2, <1>3, <1>4

\* What comes next for a client that plays stays what comes next.
LEMMA NextIsKept ==
    ASSUME IsolationInv, [Next]_vars, dropped' = 0, NEW c \in Subs, c \in snap.subs, c \in snap'.subs,
           NEW n \in Nat, NextIs(epochOf[c], n), ~StageRead
    PROVE  NextIs(epochOf[c], n)' /\ epochOf'[c] = epochOf[c]
<1>1. /\ pos \in Nat /\ hand \in Period /\ hand.pos \in Nat /\ ch \in Seq(Period)
      /\ epochOf \in [Subs -> Nat] /\ epochOf[c] = snap.epoch /\ subState[c] = "open"
      /\ TypeOK
  BY FanNumbers DEF IsolationInv, TypeOK, HistType, FeedInv
<1>2. CASE FanRead
  <2>1. PICK m \in PeriodLens : hand' = [pos |-> pos, frames |-> m, session |-> 0]
    BY <1>2 DEF FanRead
  <2>2. /\ fanPc = "read" /\ fanPc' = "gate" /\ hand'.pos = pos /\ ch' = ch
        /\ epochOf' = epochOf
    BY <1>2, <2>1 DEF FanRead, histVars, joinVars
  <2> QED
    BY <2>2 DEF NextIs, FirstPos
<1>3. CASE FanGate
  <2>1. /\ fanPc = "gate" /\ fanPc' = "send" /\ hand' = [hand EXCEPT !.session = snap.epoch]
        /\ ch' = ch /\ epochOf' = epochOf
    BY <1>3 DEF FanGate, Active, histVars, joinVars
  <2>2. hand'.pos = hand.pos /\ hand'.session = snap.epoch
    BY <1>1, <2>1 DEF Period
  <2> QED
    BY <1>1, <2>1, <2>2 DEF NextIs, FirstPos
<1>4. CASE FanSend
  <2>1. /\ fanPc = "send" /\ ch' = Append(ch, hand) /\ epochOf' = epochOf
    BY <1>1, <1>4, DroppedGrows DEF FanSend, histVars, joinVars
  <2>2. /\ DOMAIN ch = 1 .. Len(ch) /\ Len(ch) \in Nat
        /\ \A i \in DOMAIN ch : ch'[i] = ch[i]
        /\ ch'[Len(ch) + 1] = hand
    BY <1>1, <2>1, ChannelElements
  <2>3. ch' # <<>>
    BY <1>1, <2>1
  <2>4. CASE ch = <<>>
    <3>1. Len(ch) + 1 = 1
      BY <2>4
    <3> QED
      BY <2>1, <2>2, <2>3, <2>4, <3>1 DEF NextIs
  <2>5. CASE ch # <<>>
    <3>1. 1 \in DOMAIN ch
      BY <1>1, <2>5
    <3> QED
      BY <2>1, <2>2, <2>3, <2>5, <3>1 DEF NextIs
  <2> QED
    BY <2>4, <2>5
<1>5. CASE FanEnd
  BY <1>5 DEF FanEnd, NextIs, FirstPos, histVars, joinVars
<1>6. CASE \E d \in Subs : Subscribe(d)
  <2>1. /\ UNCHANGED <<fanPc, pos, hand, ch>> /\ epochOf'[c] = epochOf[c]
    BY <1>1, <1>6 DEF Subscribe, fanVars
  <2> QED
    BY <2>1 DEF NextIs, FirstPos
<1>7. CASE UNCHANGED <<fanPc, pos, hand, ch, epochOf>>
  BY <1>7 DEF NextIs, FirstPos
<1>8. \/ FanRead \/ FanGate \/ FanSend \/ FanEnd \/ \E d \in Subs : Subscribe(d)
      \/ UNCHANGED <<fanPc, pos, hand, ch, epochOf>>
  BY DEF Next, vars, fanVars, histVars, joinVars, FanClose, StageAdmit, StageFill, StageFault,
         PushLoad, PushDone, SubClose, ConnClose, Shutdown, FeedClose, PushSend, NextCheck,
         NextSelect, Write
<1> QED
  BY <1>2, <1>3, <1>4, <1>5, <1>6, <1>7, <1>8

\* What comes next for a client, until it gets it or it is dropped, stays what
\* comes next.
LEMMA ContKept ==
    ASSUME IsolationInv, ChainInv, session <= snap.epoch, [Next]_vars, dropped' = 0,
           NEW c \in Subs, subState[c] # "new", epochOf[c] <= session,
           NEW n \in Nat, Cont(c, n), PushSend(c) => ~HasRoom(queue[c], SubQueueDepth)
    PROVE  Cont(c, n)'
<1>0. /\ TypeOK /\ dropped = 0 /\ (PushDone => lost = 0)
      /\ period \in Period /\ period.pos \in Nat /\ period.frames \in Nat /\ off \in Nat
      /\ session \in Nat /\ lost \in Nat /\ nextPos \in Nat /\ framePos \in Nat
      /\ acc \in Seq(Nat) /\ Len(acc) \in Nat
      /\ epochOf \in [Subs -> Nat] /\ snap \in [epoch : Nat, subs : SUBSET Subs]
  BY StageNumbers, DroppedGrows DEF IsolationInv, TypeOK, FeedType, StageType, HistType
<1>1. c \in snap.subs => session = epochOf[c] /\ epochOf[c] = snap.epoch /\ Active(snap)
  <2>1. c \in snap.subs => epochOf[c] = snap.epoch /\ Active(snap)
    BY DEF IsolationInv, FeedInv, Active
  <2> QED
    BY <1>0, <2>1
<1>2. c \in snap'.subs => c \in snap.subs
  <2>1. ASSUME NEW d \in Subs, Subscribe(d) \/ SubClose(d) PROVE c \in snap'.subs => c \in snap.subs
    BY <1>0, <2>1 DEF Subscribe, SubClose
  <2>2. snap' = snap \/ \E d \in Subs : Subscribe(d) \/ SubClose(d)
    BY DEF Next, vars, feedVars, FanRead, FanGate, FanSend, FanEnd, FanClose, StageRead, StageAdmit,
           StageFill, StageFault, PushLoad, PushDone, Shutdown, FeedClose, ConnClose, PushSend,
           NextCheck, NextSelect, Write
  <2> QED
    BY <2>1, <2>2
<1>3. CASE StageRead
  <2>1. /\ stPc = "read" /\ UNCHANGED <<acc, framePos, nextPos, epochOf, snap>>
        /\ stPc' = "done" \/ (stPc' = "admit" /\ ch # <<>> /\ period' = Head(ch))
    BY <1>3 DEF StageRead, feedVars, histVars, joinVars
  <2>2. ch # <<>> => Head(ch) = ch[1]
    OBVIOUS
  <2> QED
    BY <2>1, <2>2 DEF Cont, NextIs
<1>4. CASE StageAdmit
  <2>1. stPc = "admit" /\ UNCHANGED <<framePos, epochOf, snap>>
    BY <1>4 DEF StageAdmit, feedVars, histVars, joinVars
  <2>2. CASE c \in snap.subs
    <3>1. /\ period.session = snap.epoch /\ period.pos = IF acc = <<>> THEN n ELSE nextPos
          /\ acc # <<>> => n = framePos
      BY <1>1, <2>1, <2>2 DEF Cont
    <3>2. Admitted(period, snap) /\ ~Resets(snap) /\ ~GapInFrame(period)
      BY <1>1, <2>2, <3>1 DEF Admitted, Resets, GapInFrame
    <3>3. /\ stPc' = "fill" /\ off' = 0 /\ period' = period /\ acc' = acc
      BY <1>4, <3>2 DEF StageAdmit, OpusAdmit, PcmAdmit
    <3>4. period.pos + 0 = period.pos
      BY <1>0
    <3> QED
      BY <2>1, <3>1, <3>3, <3>4 DEF Cont
  <2>3. CASE c \notin snap.subs
    <3>1. stPc' # "send"
      BY <1>4 DEF StageAdmit
    <3> QED
      BY <2>1, <2>3, <3>1 DEF Cont
  <2> QED
    BY <2>2, <2>3
<1>5. CASE StageFill
  <2>1. /\ stPc = "fill" /\ stPc' \in {"push", "read", "fault"}
        /\ UNCHANGED <<epochOf, snap, ch, fanPc, hand, pos, session, nextPos>>
    BY <1>5 DEF StageFill, OpusFill, PcmFill, PeriodDone, feedVars, fanVars, histVars, joinVars
  <2>2. CASE c \notin snap.subs
    BY <2>1, <2>2 DEF Cont
  <2>3. CASE c \in snap.subs /\ stPc' = "push"
    <3>1. n = IF acc = <<>> THEN period.pos + off ELSE framePos
      BY <2>1, <2>3 DEF Cont
    <3>2. frame'.pos = IF Mode = "opus" /\ acc # <<>> THEN framePos ELSE period.pos + off
      BY <1>5, <2>3, FilledEnd
    <3>3. Mode # "opus" => acc = <<>>
      BY <2>1, ModeAssumption DEF IsolationInv, StageInv, AccInv
    <3>4. n = frame'.pos
      BY <3>1, <3>2, <3>3
    <3> QED
      BY <2>3, <3>4 DEF Cont
  <2>4. CASE c \in snap.subs /\ stPc' = "read"
    <3>1. n = IF acc = <<>> THEN period.pos + off ELSE framePos
      BY <2>1, <2>4 DEF Cont
    <3>2. NextIs(epochOf[c], PeriodEnd(period))
      BY <1>0, <1>1, <2>1, <2>4, NextIsUp
    <3>3. acc' # <<>> => nextPos = PeriodEnd(period)
      <4>1. acc' # <<>> => Mode = "opus"
        <5>1. CASE Mode = "opus"
          BY <5>1
        <5>2. CASE Mode # "opus"
          <6>1. acc = <<>>
            BY <2>1, <5>2, ModeAssumption DEF IsolationInv, StageInv, AccInv
          <6>2. acc' = acc
            BY <1>5, <5>2 DEF StageFill, PcmFill
          <6> QED
            BY <6>1, <6>2
        <5> QED
          BY <5>1, <5>2
      <4> QED
        BY <2>1, <4>1 DEF IsolationInv, StageInv, PeriodEnd
    <3>4. \/ ~More /\ UNCHANGED <<acc, framePos>>
          \/ More /\ Mode = "opus" /\ framePos' = n
             /\ acc' = acc \o Samples(period.pos + off, Lesser(FrameLen - Len(acc), period.frames - off))
      BY <1>5, <2>4, <3>1 DEF StageFill, OpusFill, PcmFill
    <3>5. CASE ~More /\ UNCHANGED <<acc, framePos>>
      <4>1. off = period.frames
        BY <1>0, <2>1, <3>5 DEF More, IsolationInv, StageInv
      <4>2. acc = <<>> => n = PeriodEnd(period)
        BY <3>1, <4>1 DEF PeriodEnd
      <4>3. NextIs(epochOf[c], IF acc = <<>> THEN n ELSE nextPos)
        BY <3>2, <3>3, <3>5, <4>2
      <4> QED
        BY <2>1, <2>4, <3>1, <3>5, <4>3 DEF Cont, NextIs, FirstPos
    <3>6. CASE /\ More /\ Mode = "opus" /\ framePos' = n
               /\ acc' = acc \o Samples(period.pos + off, Lesser(FrameLen - Len(acc), period.frames - off))
      <4> DEFINE take == Lesser(FrameLen - Len(acc), period.frames - off)
      <4>1. take \in Nat /\ take > 0
        <5>1. Len(acc) < FrameLen /\ off < period.frames
          BY <2>1, <3>6 DEF IsolationInv, StageInv, AccInv, More
        <5> QED
          BY <1>0, <5>1, SizesAssumption, TakeBounds
      <4> HIDE DEF take
      <4>2. acc' # <<>>
        <5>1. period.pos + off \in Nat
          BY <1>0
        <5>2. Samples(period.pos + off, take) \in Seq(Nat) /\ Len(Samples(period.pos + off, take)) = take
          BY <4>1, <5>1, SamplesType
        <5>3. Len(acc') = Len(acc) + take
          BY ZenonT(60), <1>0, <3>6, <5>2, ConcatProperties DEF take
        <5>4. Len(acc') # 0
          BY <1>0, <4>1, <5>3
        <5> QED
          BY <5>4
      <4>3. NextIs(epochOf[c], nextPos)
        BY <3>2, <3>3, <4>2
      <4> QED
        BY <2>1, <2>4, <3>6, <4>2, <4>3 DEF Cont, NextIs, FirstPos
    <3> QED
      BY <3>4, <3>5, <3>6
  <2>5. CASE stPc' = "fault"
    BY <2>5 DEF Cont
  <2> QED
    BY <2>1, <2>2, <2>3, <2>4, <2>5
<1>6. CASE StageFault
  <2>1. stPc' = "done"
    BY <1>6 DEF StageFault
  <2> QED
    BY <2>1 DEF Cont
<1>7. CASE PushLoad
  <2>1. /\ stPc = "push" /\ stPc' = "send" /\ UNCHANGED <<frame, snap>>
        /\ targets' = IF Deliverable(frame, snap) THEN snap.subs ELSE {}
    BY <1>7 DEF PushLoad, feedVars
  <2>2. c \in snap.subs => Deliverable(frame, snap)
    BY <1>1, <2>1 DEF Deliverable, ChainInv
  <2>3. c \in targets' => c \in snap.subs
    BY <2>1
  <2> QED
    BY <2>1, <2>2, <2>3 DEF Cont
<1>8. CASE PushDone
  <2>1. /\ stPc = "send" /\ targets = {} /\ UNCHANGED <<period, off, snap>>
        /\ stPc' = "fault" \/ (stPc' = "fill" /\ acc' = <<>>)
        /\ lost = 0
    BY <1>0, <1>8 DEF PushDone, feedVars
  <2> QED
    BY <2>1 DEF Cont
<1>9. ASSUME NEW d \in Subs, PushSend(d) PROVE Cont(c, n)'
  <2>1. /\ stPc = "send" /\ stPc' = "send" /\ targets' = targets \ {d}
        /\ UNCHANGED <<period, off, frame, snap>>
        /\ HasRoom(queue[d], SubQueueDepth) => lost' = lost
        /\ ~HasRoom(queue[d], SubQueueDepth) => lost' = lost + 1
    BY <1>9 DEF PushSend
  <2>2. CASE d = c
    <3>1. lost' = lost + 1 /\ c \notin targets'
      BY <1>9, <2>1, <2>2
    <3>2. lost' # 0
      BY <1>0, <3>1
    <3> QED
      BY <2>1, <3>1, <3>2 DEF Cont
  <2>3. CASE d # c
    <3>1. c \in targets' <=> c \in targets
      BY <2>1, <2>3
    <3>2. lost' = 0 => lost = 0
      BY <1>0, <2>1
    <3> QED
      BY <2>1, <3>1, <3>2 DEF Cont
  <2> QED
    BY <2>2, <2>3
<1>10. CASE UNCHANGED <<stPc, period, off, acc, framePos, nextPos, frame, targets, lost>>
  <2>1. CASE c \in snap'.subs
    <3>1. ~StageRead
      BY <1>10 DEF StageRead
    <3>2. c \in snap.subs
      BY <1>2, <2>1
    <3> DEFINE m == IF acc = <<>> THEN n ELSE nextPos
    <3>3. m \in Nat
      BY <1>0
    <3> HIDE DEF m
    <3>4. epochOf'[c] = epochOf[c]
      <4>1. CASE \E d \in Subs : Subscribe(d)
        BY <1>0, <4>1 DEF Subscribe
      <4>2. CASE epochOf' = epochOf
        BY <4>2
      <4>3. (\E d \in Subs : Subscribe(d)) \/ epochOf' = epochOf
        BY DEF Next, vars, histVars, joinVars, FanRead, FanGate, FanSend, FanEnd, FanClose, StageRead,
               StageAdmit, StageFill, StageFault, PushLoad, PushDone, Shutdown, FeedClose, SubClose,
               ConnClose, PushSend, NextCheck, NextSelect, Write
      <4> QED
        BY <4>1, <4>2, <4>3
    <3>5. stPc = "read" => NextIs(epochOf[c], m)
      BY <3>2 DEF Cont, m
    <3>6. stPc = "read" => NextIs(epochOf[c], m)'
      <4> SUFFICES ASSUME stPc = "read" PROVE NextIs(epochOf[c], m)'
        OBVIOUS
      <4>1. PICK k \in Nat : k = m
        BY <3>3
      <4>2. NextIs(epochOf[c], k)'
        BY <2>1, <3>1, <3>2, <3>5, <4>1, NextIsKept
      <4>3. m' = m
        BY <1>10 DEF m
      <4> QED
        BY <4>1, <4>2, <4>3 DEF NextIs
    <3>7. m' = IF acc' = <<>> THEN n ELSE nextPos'
      BY DEF m
    <3> QED
      BY <1>10, <2>1, <3>2, <3>4, <3>6, <3>7 DEF Cont, NextIs
  <2>2. CASE c \notin snap'.subs
    BY <1>10, <2>2 DEF Cont
  <2> QED
    BY <2>1, <2>2
<1>11. \/ StageRead \/ StageAdmit \/ StageFill \/ StageFault \/ PushLoad \/ PushDone
       \/ \E d \in Subs : PushSend(d)
       \/ UNCHANGED <<stPc, period, off, acc, framePos, nextPos, frame, targets, lost>>
  BY ZenonT(60) DEF Next, vars, stageVars, FanRead, FanGate, FanSend, FanEnd, FanClose, Subscribe, SubClose,
         ConnClose, Shutdown, FeedClose, NextCheck, NextSelect, Write
<1> QED
  BY <1>3, <1>4, <1>5, <1>6, <1>7, <1>8, <1>9, <1>10, <1>11

\* Each frame of s starts where the one before it ends.
Contig(s) == \A i, j \in DOMAIN s : j = i + 1 => s[j].pos = EndPos(s[i])

\* What comes next for client c, after its queue's frames up to n, or after what
\* it was sent up to n, starts at n.
QueueNext(c, n) == IF queue[c] # <<>> THEN queue[c][1].pos = n ELSE Cont(c, n)
LineNext(c, n) == IF wPc[c] = "write" THEN wFrame[c].pos = n ELSE QueueNext(c, n)

\* Until audio is dropped, what a client was sent has no gap, and goes on
\* without one in what its writer holds, in its queue and in what is to come.
GaplessInv ==
    dropped = 0 => \A c \in Subs :
        /\ Contig(heard[c])
        /\ wPc[c] # "exit" =>
             /\ Contig(queue[c])
             /\ \A i \in DOMAIN queue[c] : i = Len(queue[c]) => Cont(c, EndPos(queue[c][i]))
             /\ wPc[c] = "write" => QueueNext(c, EndPos(wFrame[c]))
             /\ \A i \in DOMAIN heard[c] : i = Len(heard[c]) => LineNext(c, EndPos(heard[c][i]))

\* The play sessions of what is on the way to a client have begun.
LEMMA ServedSession ==
    ASSUME IsolationInv, RunInv, NEW c \in Subs
    PROVE  /\ \A i \in DOMAIN heard[c] : subState[c] # "new" /\ epochOf[c] <= session
           /\ \A i \in DOMAIN queue[c] : subState[c] # "new" /\ epochOf[c] <= session
           /\ wPc[c] = "write" => subState[c] # "new" /\ epochOf[c] <= session
<1>1. /\ heard[c] \in Seq(Packet) /\ queue[c] \in Seq(Frame) /\ wFrame[c] \in Frame /\ epochOf[c] \in Nat
  BY DEF IsolationInv, TypeOK, FeedType, WriterType, HistType
<1>2. subState[c] = "new" => DOMAIN heard[c] = {} /\ DOMAIN queue[c] = {} /\ wPc[c] # "write"
  BY DEF IsolationInv, FeedInv
<1>3. ASSUME NEW r \in Nat, OnLine(c, epochOf[c], r) PROVE epochOf[c] <= session
  BY <1>1, <1>3 DEF RunInv, Made
<1>4. \A p \in Packet \cup Frame : p.run \in Nat
  BY DEF Packet, Frame
<1>5. ASSUME NEW i \in DOMAIN heard[c] PROVE epochOf[c] <= session
  <2>1. heard[c][i].session = epochOf[c] /\ heard[c][i] \in Packet
    BY <1>1 DEF IsolationInv, ClientInv
  <2>2. heard[c][i].run \in Nat
    BY <1>4, <2>1
  <2>3. OnLine(c, epochOf[c], heard[c][i].run)
    BY <2>1 DEF OnLine, Holds
  <2> QED
    BY <1>3, <2>2, <2>3
<1>6. ASSUME NEW i \in DOMAIN queue[c] PROVE epochOf[c] <= session
  <2>1. queue[c][i].session = epochOf[c] /\ queue[c][i] \in Frame
    BY <1>1 DEF IsolationInv, ClientInv
  <2>2. queue[c][i].run \in Nat
    BY <1>4, <2>1
  <2>3. OnLine(c, epochOf[c], queue[c][i].run)
    BY <2>1 DEF OnLine, Holds
  <2> QED
    BY <1>3, <2>2, <2>3
<1>7. ASSUME wPc[c] = "write" PROVE epochOf[c] <= session
  <2>1. wFrame[c].session = epochOf[c]
    BY <1>7 DEF IsolationInv, ClientInv
  <2>2. wFrame[c].run \in Nat
    BY <1>1, <1>4
  <2>3. OnLine(c, epochOf[c], wFrame[c].run)
    BY <1>7, <2>1 DEF OnLine
  <2> QED
    BY <1>3, <2>2, <2>3
<1> QED
  BY <1>2, <1>5, <1>6, <1>7

\* What comes next for a client that a frame was queued for follows the frame.
LEMMA SentIsNext ==
    ASSUME PathInv, NEW c \in Subs, PushSend(c)
    PROVE  Cont(c, EndPos(frame))'
<1>1. /\ stPc = "send" /\ c \notin targets'
      /\ UNCHANGED <<stPc, period, off, frame, snap>>
  BY DEF PushSend
<1>2. EndPos(frame) = period.pos + off
  BY <1>1 DEF PathInv
<1> QED
  BY <1>1, <1>2 DEF Cont, EndPos

\* Appending what starts at the end of the last element leaves no gap.
LEMMA ContigAppended ==
    ASSUME NEW S, NEW q \in Seq(S), NEW x \in S, Contig(q),
           \A i \in DOMAIN q : i = Len(q) => x.pos = EndPos(q[i])
    PROVE  /\ Contig(Append(q, x))
           /\ \A i \in DOMAIN Append(q, x) : i = Len(Append(q, x)) => Append(q, x)[i] = x
           /\ Append(q, x) # <<>>
           /\ Append(q, x)[1] = IF q = <<>> THEN x ELSE q[1]
<1>1. /\ DOMAIN q = 1 .. Len(q) /\ Len(q) \in Nat
      /\ DOMAIN Append(q, x) = 1 .. Len(q) + 1
      /\ \A i \in DOMAIN q : Append(q, x)[i] = q[i]
      /\ Append(q, x)[Len(q) + 1] = x
  BY ChannelElements
<1>2. Len(Append(q, x)) = Len(q) + 1
  BY ChannelOps
<1>3. ASSUME NEW i \in DOMAIN Append(q, x), NEW j \in DOMAIN Append(q, x), j = i + 1
      PROVE  Append(q, x)[j].pos = EndPos(Append(q, x)[i])
  <2>1. i \in DOMAIN q /\ (j \in DOMAIN q \/ (i = Len(q) /\ j = Len(q) + 1))
    BY <1>1, <1>3
  <2> QED
    BY <1>1, <1>3, <2>1 DEF Contig
<1>4. Append(q, x)[1] = IF q = <<>> THEN x ELSE q[1]
  <2>1. CASE q = <<>>
    <3>1. Len(q) + 1 = 1
      BY <2>1
    <3> QED
      BY <1>1, <2>1, <3>1
  <2>2. CASE q # <<>>
    <3>1. 1 \in DOMAIN q
      BY <2>2
    <3> QED
      BY <1>1, <2>2, <3>1
  <2> QED
    BY <2>1, <2>2
<1>5. Append(q, x) # <<>>
  OBVIOUS
<1> QED
  BY <1>1, <1>2, <1>3, <1>4, <1>5 DEF Contig

\* What follows the head of a sequence without gaps.
LEMMA ContigReceived ==
    ASSUME NEW S, NEW q \in Seq(S), q # <<>>, Contig(q)
    PROVE  /\ Contig(Tail(q))
           /\ Tail(q) # <<>> => Tail(q)[1].pos = EndPos(Head(q))
           /\ Tail(q) = <<>> => 1 = Len(q)
           /\ \A i \in DOMAIN Tail(q) : /\ i + 1 \in DOMAIN q /\ Tail(q)[i] = q[i + 1]
                                        /\ i = Len(Tail(q)) => i + 1 = Len(q)
           /\ 1 \in DOMAIN q /\ Head(q) = q[1]
<1>1. /\ 1 \in DOMAIN q /\ Head(q) = q[1]
      /\ DOMAIN q = 1 .. Len(q) /\ Len(q) \in Nat
      /\ DOMAIN Tail(q) = 1 .. Len(q) - 1
      /\ \A i \in DOMAIN Tail(q) : i + 1 \in DOMAIN q /\ Tail(q)[i] = q[i + 1]
  BY ReceivedElements
<1>2. Tail(q) \in Seq(S) /\ Len(Tail(q)) = Len(q) - 1
  OBVIOUS
<1>3. ASSUME NEW i \in DOMAIN Tail(q), NEW j \in DOMAIN Tail(q), j = i + 1
      PROVE  Tail(q)[j].pos = EndPos(Tail(q)[i])
  <2>1. i + 1 \in DOMAIN q /\ j + 1 \in DOMAIN q /\ j + 1 = (i + 1) + 1
    BY <1>1, <1>3
  <2> QED
    BY <1>1, <2>1 DEF Contig
<1>4. ASSUME Tail(q) # <<>> PROVE Tail(q)[1].pos = EndPos(Head(q))
  <2>1. 1 \in DOMAIN Tail(q)
    BY <1>2, <1>4
  <2>2. 1 + 1 \in DOMAIN q /\ Tail(q)[1] = q[1 + 1]
    BY <1>1, <2>1
  <2>3. q[1 + 1].pos = EndPos(q[1])
    BY <1>1, <2>2 DEF Contig
  <2> QED
    BY <1>1, <2>2, <2>3
<1>5. ASSUME Tail(q) = <<>> PROVE 1 = Len(q)
  <2>1. Len(q) # 1 => 1 \in DOMAIN Tail(q)
    BY <1>1
  <2>2. DOMAIN Tail(q) = {}
    BY <1>5
  <2> QED
    BY <2>1, <2>2
<1>6. \A i \in DOMAIN Tail(q) : i = Len(Tail(q)) => i + 1 = Len(q)
  BY <1>1, <1>2
<1> QED
  BY <1>1, <1>3, <1>4, <1>5, <1>6 DEF Contig

\* Every step keeps the clients' audio without gaps until some is dropped.
LEMMA GaplessStep ==
    ASSUME IsolationInv, PathInv, RunInv, ChainInv, GaplessInv, [Next]_vars
    PROVE  GaplessInv'
<1> SUFFICES ASSUME dropped' = 0 PROVE GaplessInv'
  BY DEF GaplessInv
<1> DEFINE NextIsLater(e, n) ==
             IF ch' # <<>> THEN ch'[1].session = e /\ ch'[1].pos = n
             ELSE IF fanPc' = "send" THEN hand'.session = e /\ hand'.pos = n
             ELSE (IF fanPc' = "gate" THEN hand'.pos ELSE pos') = n
           Later(c, n) ==
             /\ stPc' = "send" /\ c \in targets' => n = frame'.pos
             /\ c \in snap'.subs =>
                  /\ stPc' = "push" => n = frame'.pos
                  /\ stPc' = "send" /\ c \notin targets' /\ lost' = 0 => n = period'.pos + off'
                  /\ stPc' = "fill" => n = IF acc' = <<>> THEN period'.pos + off' ELSE framePos'
                  /\ stPc' = "admit" => /\ period'.session = epochOf'[c]
                                        /\ period'.pos = IF acc' = <<>> THEN n ELSE nextPos'
                  /\ stPc' = "read" => NextIsLater(epochOf'[c], IF acc' = <<>> THEN n ELSE nextPos')
                  /\ stPc' \in {"read", "admit"} /\ acc' # <<>> => n = framePos'
           QueueOK(c, q, n) == IF q # <<>> THEN q[1].pos = n ELSE Later(c, n)
           HeardOK(c, q, pc, f, n) == IF pc = "write" THEN f.pos = n ELSE QueueOK(c, q, n)
           LineOK(c, h, q, pc, f) ==
             /\ Contig(h)
             /\ pc # "exit" =>
                  /\ Contig(q)
                  /\ \A i \in DOMAIN q : i = Len(q) => Later(c, EndPos(q[i]))
                  /\ pc = "write" => QueueOK(c, q, EndPos(f))
                  /\ \A i \in DOMAIN h : i = Len(h) => HeardOK(c, q, pc, f, EndPos(h[i]))
<1>0. /\ frame \in Frame /\ queue \in [Subs -> Seq(Frame)] /\ wFrame \in [Subs -> Frame]
      /\ heard \in [Subs -> Seq(Packet)]
      /\ wPc \in [Subs -> {"none", "check", "select", "write", "exit"}]
      /\ \A f \in Frame : f.pos \in Nat /\ EndPos(f) \in Nat
      /\ \A p \in Packet : p.pos \in Nat /\ EndPos(p) \in Nat
      /\ dropped = 0 /\ session <= snap.epoch
  BY EndNumbers, DroppedGrows DEF IsolationInv, TypeOK, FeedType, StageType, WriterType, RunInv
<1>1. ASSUME NEW c \in Subs, NEW n \in Nat, Cont(c, n), subState[c] # "new", epochOf[c] <= session,
             PushSend(c) => ~HasRoom(queue[c], SubQueueDepth)
      PROVE  Later(c, n)
  <2>1. Cont(c, n)'
    BY <1>0, <1>1, ContKept
  <2> QED
    BY <2>1 DEF Cont, NextIs, FirstPos
<1>2. SUFFICES \A c \in Subs : LineOK(c, heard'[c], queue'[c], wPc'[c], wFrame'[c])
  BY DEF GaplessInv, LineNext, QueueNext, Cont, NextIs, FirstPos, Contig, EndPos
<1> HIDE DEF Later
<1>3. ASSUME NEW c \in Subs, PushSend(c) => ~HasRoom(queue[c], SubQueueDepth)
      PROVE  LineOK(c, heard[c], queue[c], wPc[c], wFrame[c])
  <2>1. /\ \A i \in DOMAIN heard[c] : EndPos(heard[c][i]) \in Nat
        /\ \A i \in DOMAIN queue[c] : EndPos(queue[c][i]) \in Nat
        /\ EndPos(wFrame[c]) \in Nat
    <3>1. heard[c] \in Seq(Packet) /\ queue[c] \in Seq(Frame) /\ wFrame[c] \in Frame
      BY <1>0
    <3>2. /\ \A i \in DOMAIN heard[c] : heard[c][i] \in Packet
          /\ \A i \in DOMAIN queue[c] : queue[c][i] \in Frame
      BY <3>1
    <3> QED
      BY <1>0, <3>1, <3>2
  <2>2. /\ \A i \in DOMAIN heard[c] : subState[c] # "new" /\ epochOf[c] <= session
        /\ \A i \in DOMAIN queue[c] : subState[c] # "new" /\ epochOf[c] <= session
        /\ wPc[c] = "write" => subState[c] # "new" /\ epochOf[c] <= session
    BY ServedSession
  <2>3. \A n \in Nat : Cont(c, n) /\ subState[c] # "new" /\ epochOf[c] <= session => Later(c, n)
    BY <1>1, <1>3
  <2>4. /\ Contig(heard[c])
        /\ wPc[c] # "exit" =>
             /\ Contig(queue[c])
             /\ \A i \in DOMAIN queue[c] : i = Len(queue[c]) => Cont(c, EndPos(queue[c][i]))
             /\ wPc[c] = "write" => QueueNext(c, EndPos(wFrame[c]))
             /\ \A i \in DOMAIN heard[c] : i = Len(heard[c]) => LineNext(c, EndPos(heard[c][i]))
    BY <1>0 DEF GaplessInv
  <2>5. wPc[c] = "write" /\ wPc[c] # "exit" => QueueOK(c, queue[c], EndPos(wFrame[c]))
    BY <2>1, <2>2, <2>3, <2>4 DEF QueueNext
  <2>6. wPc[c] # "exit" => \A i \in DOMAIN queue[c] : i = Len(queue[c]) => Later(c, EndPos(queue[c][i]))
    BY <2>1, <2>2, <2>3, <2>4
  <2>7. wPc[c] # "exit" => \A i \in DOMAIN heard[c] : i = Len(heard[c]) =>
            HeardOK(c, queue[c], wPc[c], wFrame[c], EndPos(heard[c][i]))
    BY <2>1, <2>2, <2>3, <2>4 DEF LineNext, QueueNext
  <2> HIDE DEF QueueOK, HeardOK
  <2> QED
    BY <2>4, <2>5, <2>6, <2>7
<1>4. ASSUME NEW c \in Subs, NEW d \in Subs, Subscribe(c) \/ NextCheck(c)
      PROVE  LineOK(d, heard'[d], queue'[d], wPc'[d], wFrame'[d])
  <2>1. /\ UNCHANGED <<queue, heard>>
        /\ \/ wPc'[d] = wPc[d] /\ wFrame'[d] = wFrame[d]
           \/ wPc[d] = "check" /\ wPc'[d] \in {"select", "exit"}
           \/ d = c /\ Subscribe(c)
        /\ ~PushSend(d)
    <3>1. ~PushSend(d)
      BY <1>4 DEF Subscribe, NextCheck, PushSend, stageVars
    <3> QED
      BY <1>0, <1>4, <3>1 DEF Subscribe, NextCheck, WriterExit, feedVars
  <2>2. LineOK(d, heard[d], queue[d], wPc[d], wFrame[d])
    BY <1>3, <2>1
  <2>3. CASE wPc'[d] = wPc[d] /\ wFrame'[d] = wFrame[d]
    BY <2>1, <2>2, <2>3
  <2>4. CASE wPc[d] = "check" /\ wPc'[d] \in {"select", "exit"}
    BY <2>1, <2>2, <2>4
  <2>5. CASE d = c /\ Subscribe(c)
    <3>1. heard'[d] = <<>> /\ queue'[d] = <<>> /\ wPc'[d] = "check"
      BY <1>0, <2>1, <2>5 DEF Subscribe, IsolationInv, FeedInv
    <3> QED
      BY <3>1 DEF Contig
  <2> QED
    BY <2>1, <2>3, <2>4, <2>5
<1>5. ASSUME NEW c \in Subs, NEW d \in Subs, PushSend(c)
      PROVE  LineOK(d, heard'[d], queue'[d], wPc'[d], wFrame'[d])
  <2>1. /\ stPc = "send" /\ c \in targets /\ UNCHANGED <<wPc, wFrame, heard>> /\ frame' = frame
        /\ HasRoom(queue[c], SubQueueDepth) => queue' = [queue EXCEPT ![c] = Append(queue[c], frame)]
        /\ ~HasRoom(queue[c], SubQueueDepth) => queue' = queue
    BY <1>5 DEF PushSend, writerVars
  <2>2. CASE d # c
    <3>1. targets' = targets \ {c}
      BY <1>5 DEF PushSend
    <3>2. ~PushSend(d)
      <4>1. d \in targets => d \in targets'
        BY <2>2, <3>1
      <4> QED
        BY <4>1 DEF PushSend
    <3>3. queue'[d] = queue[d]
      BY <1>0, <2>1, <2>2
    <3> QED
      BY <1>3, <2>1, <3>2, <3>3
  <2>3. CASE d = c /\ ~HasRoom(queue[c], SubQueueDepth)
    BY <1>3, <2>1, <2>3
  <2>4. CASE d = c /\ HasRoom(queue[c], SubQueueDepth)
    <3> DEFINE q == queue[d]
               h == heard[d]
               f == wFrame[d]
               a == Append(q, frame)
    <3>1. q \in Seq(Frame) /\ queue'[d] = a
      BY <1>0, <2>1, <2>4
    <3>2. \A n : Cont(d, n) => frame.pos = n
      BY <2>1, <2>4 DEF Cont
    <3>3. Later(d, EndPos(frame))
      <4>1. Cont(c, EndPos(frame))'
        BY <1>5, SentIsNext
      <4> QED
        BY <2>1, <2>4, <4>1 DEF Later, Cont, NextIs, FirstPos, EndPos
    <3>4. /\ Contig(h)
          /\ wPc[d] # "exit" =>
               /\ Contig(q)
               /\ \A i \in DOMAIN q : i = Len(q) => frame.pos = EndPos(q[i])
               /\ wPc[d] = "write" => IF q # <<>> THEN q[1].pos = EndPos(f) ELSE frame.pos = EndPos(f)
               /\ \A i \in DOMAIN h : i = Len(h) =>
                     IF wPc[d] = "write" THEN f.pos = EndPos(h[i])
                     ELSE IF q # <<>> THEN q[1].pos = EndPos(h[i]) ELSE frame.pos = EndPos(h[i])
      <4>1. /\ Contig(heard[d])
            /\ wPc[d] # "exit" =>
                 /\ Contig(queue[d])
                 /\ \A i \in DOMAIN queue[d] : i = Len(queue[d]) => Cont(d, EndPos(queue[d][i]))
                 /\ wPc[d] = "write" => QueueNext(d, EndPos(wFrame[d]))
                 /\ \A i \in DOMAIN heard[d] : i = Len(heard[d]) => LineNext(d, EndPos(heard[d][i]))
        BY <1>0 DEF GaplessInv
      <4> QED
        BY <3>2, <4>1 DEF LineNext, QueueNext
    <3> HIDE DEF q, h, f
    <3>5. CASE wPc[d] = "exit"
      <4>1. Contig(h)
        BY <3>4
      <4> QED
        BY <2>1, <3>5, <4>1 DEF h
    <3>6. CASE wPc[d] # "exit"
      <4>1. /\ Contig(a)
            /\ \A i \in DOMAIN a : i = Len(a) => a[i] = frame
            /\ a # <<>>
            /\ a[1] = IF q = <<>> THEN frame ELSE q[1]
        BY <1>0, <3>1, <3>4, <3>6, ContigAppended
      <4> HIDE DEF a
      <4>2. \A i \in DOMAIN a : i = Len(a) => Later(d, EndPos(a[i]))
        BY <3>3, <4>1
      <4>3. wPc[d] = "write" => QueueOK(d, a, EndPos(f))
        BY <3>4, <3>6, <4>1
      <4>4. \A i \in DOMAIN h : i = Len(h) => HeardOK(d, a, wPc[d], f, EndPos(h[i]))
        BY <3>4, <3>6, <4>1
      <4> HIDE DEF QueueOK, HeardOK
      <4>5. LineOK(d, h, a, wPc[d], f)
        BY <3>4, <4>1, <4>2, <4>3, <4>4
      <4> QED
        BY <2>1, <3>1, <4>5 DEF h, f
    <3> QED
      BY <3>5, <3>6
  <2> QED
    BY <2>2, <2>3, <2>4
<1>6. ASSUME NEW c \in Subs, NEW d \in Subs, NextSelect(c)
      PROVE  LineOK(d, heard'[d], queue'[d], wPc'[d], wFrame'[d])
  <2>1. heard' = heard /\ ~PushSend(d)
    <3>1. ~PushSend(d)
      BY <1>6 DEF NextSelect, PushSend, stageVars
    <3> QED
      BY <1>6, <3>1 DEF NextSelect
  <2>2. \/ queue'[d] = queue[d] /\ wPc'[d] = wPc[d] /\ wFrame'[d] = wFrame[d]
        \/ wPc'[d] = "exit"
        \/ /\ wPc[d] = "select" /\ wPc'[d] = "write"
           /\ queue[d] # <<>> /\ queue'[d] = Tail(queue[d]) /\ wFrame'[d] = Head(queue[d])
    BY SMTT(60), <1>0, <1>6 DEF NextSelect, WriterExit
  <2>3. LineOK(d, heard[d], queue[d], wPc[d], wFrame[d])
    BY <1>3, <2>1
  <2>4. CASE queue'[d] = queue[d] /\ wPc'[d] = wPc[d] /\ wFrame'[d] = wFrame[d]
    BY <2>1, <2>3, <2>4
  <2>5. CASE wPc'[d] = "exit"
    BY <2>1, <2>3, <2>5
  <2>6. CASE /\ wPc[d] = "select" /\ wPc'[d] = "write"
             /\ queue[d] # <<>> /\ queue'[d] = Tail(queue[d]) /\ wFrame'[d] = Head(queue[d])
    <3> DEFINE q == queue[d]
               t == Tail(q)
               h == heard[d]
    <3>1. q \in Seq(Frame) /\ q # <<>>
      BY <1>0, <2>6
    <3>2. /\ Contig(h) /\ Contig(q)
          /\ \A i \in DOMAIN q : i = Len(q) => Later(d, EndPos(q[i]))
          /\ \A i \in DOMAIN h : i = Len(h) => q[1].pos = EndPos(h[i])
      BY <2>3, <2>6
    <3> HIDE DEF q, h
    <3>3. /\ Contig(t)
          /\ t # <<>> => t[1].pos = EndPos(Head(q))
          /\ t = <<>> => 1 = Len(q)
          /\ \A i \in DOMAIN t : /\ i + 1 \in DOMAIN q /\ t[i] = q[i + 1]
                                 /\ i = Len(t) => i + 1 = Len(q)
          /\ 1 \in DOMAIN q /\ Head(q) = q[1]
      BY <3>1, <3>2, ContigReceived
    <3> HIDE DEF t
    <3>4. \A i \in DOMAIN t : i = Len(t) => Later(d, EndPos(t[i]))
      BY <3>2, <3>3
    <3>5. QueueOK(d, t, EndPos(Head(q)))
      BY <3>2, <3>3
    <3>6. \A i \in DOMAIN h : i = Len(h) => HeardOK(d, t, "write", Head(q), EndPos(h[i]))
      BY <3>2, <3>3
    <3> HIDE DEF QueueOK, HeardOK
    <3>7. LineOK(d, h, t, "write", Head(q))
      BY <3>2, <3>3, <3>4, <3>5, <3>6
    <3> QED
      BY <2>1, <2>6, <3>7 DEF q, t, h
  <2> QED
    BY <2>2, <2>4, <2>5, <2>6
<1>7. ASSUME NEW c \in Subs, NEW d \in Subs, Write(c)
      PROVE  LineOK(d, heard'[d], queue'[d], wPc'[d], wFrame'[d])
  <2> DEFINE pkt == [pos |-> wFrame[c].pos, session |-> wFrame[c].session,
                     samples |-> wFrame[c].samples, run |-> wFrame[c].run,
                     ts |-> Timestamp(wFrame[c].pos, Base(c))]
  <2>1. /\ wPc[c] = "write" /\ queue' = queue
        /\ \/ heard' = heard /\ wPc' = [wPc EXCEPT ![c] = "exit"]
           \/ heard' = [heard EXCEPT ![c] = Append(heard[c], pkt)] /\ wPc' = [wPc EXCEPT ![c] = "check"]
        /\ d # c => wFrame'[d] = wFrame[d]
    BY <1>0, <1>7 DEF Write, WriterExit, feedVars
  <2>2. ~PushSend(d)
    BY <1>7 DEF Write, PushSend, stageVars
  <2>3. pkt.pos = wFrame[c].pos /\ EndPos(pkt) = EndPos(wFrame[c])
    BY DEF EndPos
  <2> HIDE DEF pkt
  <2>4. LineOK(d, heard[d], queue[d], wPc[d], wFrame[d])
    BY <1>3, <2>2
  <2>5. CASE d # c
    <3>1. heard'[d] = heard[d] /\ wPc'[d] = wPc[d] /\ wFrame'[d] = wFrame[d]
      BY <1>0, <2>1, <2>5
    <3> QED
      BY <2>1, <2>4, <3>1
  <2>6. CASE d = c /\ heard' = heard /\ wPc' = [wPc EXCEPT ![c] = "exit"]
    <3>1. wPc'[d] = "exit"
      BY <1>0, <2>6
    <3> QED
      BY <2>4, <2>6, <3>1
  <2>7. CASE d = c /\ heard' = [heard EXCEPT ![c] = Append(heard[c], pkt)] /\ wPc' = [wPc EXCEPT ![c] = "check"]
    <3> DEFINE S == Packet \cup {pkt}
               h == heard[d]
               a == Append(h, pkt)
               q == queue[d]
               f == wFrame[d]
    <3>1. h \in Seq(S) /\ pkt \in S /\ heard'[d] = a /\ wPc'[d] = "check"
      BY <1>0, <2>7
    <3>2. /\ Contig(h) /\ Contig(q)
          /\ \A i \in DOMAIN q : i = Len(q) => Later(d, EndPos(q[i]))
          /\ QueueOK(d, q, EndPos(f))
          /\ \A i \in DOMAIN h : i = Len(h) => f.pos = EndPos(h[i])
      BY <2>1, <2>4, <2>7
    <3>3. pkt.pos = f.pos /\ EndPos(pkt) = EndPos(f)
      BY <2>3, <2>7
    <3> HIDE DEF S, h, q, f
    <3>4. /\ Contig(a)
          /\ \A i \in DOMAIN a : i = Len(a) => a[i] = pkt
      BY <3>1, <3>2, <3>3, ContigAppended
    <3> HIDE DEF a
    <3>5. \A i \in DOMAIN a : i = Len(a) => QueueOK(d, q, EndPos(a[i]))
      <4> HIDE DEF QueueOK
      <4> QED
        BY <3>2, <3>3, <3>4
    <3>6. LineOK(d, a, q, "check", wFrame'[d])
      <4> HIDE DEF QueueOK
      <4> QED
        BY <3>2, <3>4, <3>5
    <3> QED
      BY <2>1, <3>1, <3>6 DEF q
  <2> QED
    BY <2>1, <2>5, <2>6, <2>7
<1>8. ASSUME UNCHANGED <<queue, wPc, wFrame, heard>>, NEW d \in Subs
      PROVE  LineOK(d, heard'[d], queue'[d], wPc'[d], wFrame'[d])
  <2>1. PushSend(d) => ~HasRoom(queue[d], SubQueueDepth)
    <3> SUFFICES ASSUME PushSend(d), HasRoom(queue[d], SubQueueDepth) PROVE FALSE
      OBVIOUS
    <3>1. queue' = [queue EXCEPT ![d] = Append(queue[d], frame)]
      BY DEF PushSend
    <3>2. queue[d] = Append(queue[d], frame)
      BY <1>0, <1>8, <3>1
    <3>3. Len(Append(queue[d], frame)) = Len(queue[d]) + 1 /\ Len(queue[d]) \in Nat
      <4>1. queue[d] \in Seq(Frame)
        BY <1>0
      <4>2. Len(queue[d]) \in Nat
        BY <4>1
      <4> QED
        BY <1>0, <4>1, <4>2, ChannelOps
    <3>4. PICK k \in Nat : k = Len(queue[d])
      BY <3>3
    <3>5. Len(Append(queue[d], frame)) = k + 1
      BY <3>3, <3>4
    <3>6. Len(Append(queue[d], frame)) = k
      BY <3>2, <3>4
    <3> QED
      BY <3>5, <3>6
  <2>2. LineOK(d, heard[d], queue[d], wPc[d], wFrame[d])
    BY <1>3, <2>1
  <2> QED
    BY <1>8, <2>2
<1>9. \/ UNCHANGED <<queue, wPc, wFrame, heard>>
      \/ \E c \in Subs : Subscribe(c) \/ NextCheck(c) \/ PushSend(c) \/ NextSelect(c) \/ Write(c)
  BY DEF Next, vars, feedVars, writerVars, FanRead, FanGate, FanSend, FanEnd, FanClose, StageRead,
         StageAdmit, StageFill, StageFault, PushLoad, PushDone, Shutdown, FeedClose, SubClose, ConnClose
<1> QED
  BY <1>4, <1>5, <1>6, <1>7, <1>8, <1>9

\* As long as no audio was dropped, the periods reach the stage without a gap,
\* and what each client was sent goes on without one in what is queued for it
\* and in what is still to come (fanout.go distribute, pipeline.go Run, feed.go
\* Push, writer.go runWriter).
THEOREM GaplessInvariant == Spec => [](RunInv /\ ChainInv /\ GaplessInv)
<1>1. Init => RunInv /\ ChainInv /\ GaplessInv
  <2> SUFFICES ASSUME Init PROVE RunInv /\ ChainInv /\ GaplessInv
    OBVIOUS
  <2>1. /\ ch = <<>> /\ stPc = "read"
        /\ \A c \in Subs : heard[c] = <<>> /\ queue[c] = <<>> /\ wPc[c] = "none"
    BY DEF Init
  <2>2. ChainInv
    BY <2>1 DEF ChainInv
  <2>3. GaplessInv
    BY <2>1 DEF GaplessInv, Contig
  <2> QED
    BY <2>2, <2>3, InitRun
<1>2. IsolationInv /\ PathInv /\ RunInv /\ ChainInv /\ GaplessInv /\ [Next]_vars
         => (RunInv /\ ChainInv /\ GaplessInv)'
  BY RunStep, ChainStep, GaplessStep DEF IsolationInv
<1> QED
  BY <1>1, <1>2, IsolationInvariant, OrderInvariant, PTL DEF Spec

\* A client is sent every sample at most once and in capture order, and with a
\* gap only where the stream's drop counter shows a loss.
THEOREM AudioKeepsOrder == Spec => []AudioInOrder
<1>1. TypeOK /\ LineInv /\ GaplessInv => AudioInOrder
  <2> SUFFICES ASSUME TypeOK, LineInv, GaplessInv, NEW c \in Subs
               PROVE  /\ Sorted(Line(c))
                      /\ dropped = 0 =>
                            \A i \in 1 .. Len(heard[c]) - 1 : heard[c][i + 1].pos = EndPos(heard[c][i])
    BY DEF AudioInOrder, Sorted
  <2>1. Sorted(Line(c))
    BY LineOrdered
  <2>2. ASSUME dropped = 0, NEW i \in 1 .. Len(heard[c]) - 1
        PROVE  heard[c][i + 1].pos = EndPos(heard[c][i])
    <3>1. Contig(heard[c])
      BY <2>2 DEF GaplessInv
    <3>2. heard[c] \in Seq(Packet)
      BY DEF TypeOK, WriterType
    <3>3. i \in DOMAIN heard[c] /\ i + 1 \in DOMAIN heard[c]
      BY <3>2
    <3> QED
      BY <3>1, <3>3 DEF Contig
  <2> QED
    BY <2>1, <2>2
<1>2. IsolationInv => TypeOK
  BY DEF IsolationInv
<1> QED
  BY <1>1, <1>2, IsolationInvariant, OrderInvariant, GaplessInvariant, PTL

================================================================================
