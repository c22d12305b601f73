---------------------------- MODULE PlaySession ----------------------------
(***************************************************************************)
(* One stream's media path: the capture fan-out's consumer of that stream  *)
(* (internal/audio/fanout.go), the pipeline stage that encodes it          *)
(* (internal/pipeline/pipeline.go), the broadcast feed and its             *)
(* subscriptions (internal/rtspserver/feed.go) and the RTP writer of every *)
(* playing client (internal/rtspserver/writer.go).                         *)
(*                                                                         *)
(* The goroutines are the fan-out reader, the stage, one writer and one    *)
(* connection reader per client, and the appliance's run loop, which may   *)
(* close the feed and the capture at any moment.  They share an atomic     *)
(* snapshot pointer, bounded channels and a few flags; every access to     *)
(* shared state is a step of its own.                                      *)
(*                                                                         *)
(* Audio is the sequence of stream positions 0, 1, 2, ... of the capture:  *)
(* a sample IS its position, so that splicing, reordering or duplicating   *)
(* audio is visible in the state.                                          *)
(***************************************************************************)
EXTENDS Integers, Sequences, FiniteSets, Functions

CONSTANTS
    Subs,           \* subscription objects; each is used by one PLAY
    MaxClients,     \* maxClients: subscribers of one stream (8 in the code)
    SubQueueDepth,  \* subQueueDepth: frames queued per subscriber (64)
    FanoutBuffer,   \* fanoutBuffer: periods queued per consumer (8)
    PeriodLens,     \* frames one capture period may hold
    FrameLen,       \* samples of an Opus frame, or of a full L16 payload
    Mode,           \* "opus" or "pcm"
    TSMod,          \* width of an RTP timestamp (2^32)
    StartTS,        \* the random timestamp a connection starts at
    MaxPos          \* bound: the capture delivers no period beyond it

ASSUME SizesAssumption ==
    /\ MaxClients \in Nat \ {0}
    /\ SubQueueDepth \in Nat \ {0}
    /\ FanoutBuffer \in Nat \ {0}
    /\ FrameLen \in Nat \ {0}
    /\ PeriodLens \subseteq Nat \ {0}
    /\ MaxPos \in Nat

ASSUME ModeAssumption == Mode \in {"opus", "pcm"}

ASSUME TimestampAssumption == TSMod \in Nat \ {0} /\ StartTS \in 0 .. TSMod - 1

VARIABLES
    \* Feed and its subscriptions
    snap,      \* the published feedSnap: [epoch, subs]
    done,      \* Feed.done is closed: the device is gone
    subState,  \* Sub: "new" (not created), "open", "closed" (Sub.closed)
    queue,     \* Sub.ch
    \* fan-out reader
    fanPc, pos, hand, ch, chClosed, srcClosed,
    \* stage
    stPc, period, off, session, acc, framePos, nextPos, frame, targets, lost,
    stopping,  \* the appliance's context is cancelled
    \* the stream's shared "audio lost" counter
    dropped,
    \* writers and connections
    wPc, wFrame, based, basePos, ctxDone, heard,
    \* history: bookkeeping the properties are stated in, never read by a guard
    epochOf,   \* the play session a subscription joined
    start,     \* start[e]: first position that play session e may carry
    encRun,    \* how often the encoder has been reset
    closedAt   \* packets each client had been sent when the feed was closed

feedVars   == <<snap, done, subState, queue>>
fanVars    == <<fanPc, pos, hand, ch, chClosed>>
stageVars  == <<stPc, period, off, session, acc, framePos, nextPos, frame,
                targets, lost, encRun>>
writerVars == <<wPc, wFrame, based, basePos, ctxDone, heard>>
joinVars   == <<epochOf, start>>
histVars   == <<joinVars, closedAt>>

vars == <<feedVars, fanVars, srcClosed, stageVars, stopping, dropped,
          writerVars, histVars>>

-----------------------------------------------------------------------------
(* Data *)

\* The positions n, n+1, ..., n+len-1: len samples captured back to back.
Samples(n, len) == [i \in 1 .. len |-> n + i - 1]

\* audio.Period, as the fan-out hands it to the consumer: Pos, Frames, Session.
Period == [pos : Nat, frames : Nat, session : Nat]
NoPeriod == [pos |-> 0, frames |-> 0, session |-> 0]

\* pipeline.Frame: Pos, Session and its payload.  run names the encoder run
\* (the stretch between two Resets) that produced the payload.
Frame == [pos : Nat, session : Nat, samples : Seq(Nat), run : Nat]
NoFrame == [pos |-> 0, session |-> 0, samples |-> <<>>, run |-> 0]

\* What a writer put on the wire: the frame and its RTP timestamp.
Packet == [pos : Nat, session : Nat, samples : Seq(Nat), run : Nat, ts : Nat]

\* Feed.Session: active flag and play session of one snapshot.
Active(s) == s.subs # {}

Lesser(a, b) == IF a < b THEN a ELSE b

\* A non-blocking send on a buffered channel goes through while it has room.
HasRoom(q, depth) == Len(q) < depth

-----------------------------------------------------------------------------
(* Initial state: NewFanout, NewFeed, and a stage about to read. *)
Init ==
    /\ snap = [epoch |-> 0, subs |-> {}]
    /\ done = FALSE
    /\ subState = [c \in Subs |-> "new"]
    /\ queue = [c \in Subs |-> <<>>]
    /\ fanPc = "read"
    /\ pos = 0
    /\ hand = NoPeriod
    /\ ch = <<>>
    /\ chClosed = FALSE
    /\ srcClosed = FALSE
    /\ stPc = "read"
    /\ period = NoPeriod
    /\ off = 0
    /\ session = 0
    /\ acc = <<>>
    /\ framePos = 0
    /\ nextPos = 0
    /\ frame = NoFrame
    /\ targets = {}
    /\ lost = 0
    /\ stopping = FALSE
    /\ dropped = 0
    /\ wPc = [c \in Subs |-> "none"]
    /\ wFrame = [c \in Subs |-> NoFrame]
    /\ based = [c \in Subs |-> FALSE]
    /\ basePos = [c \in Subs |-> 0]
    /\ ctxDone = [c \in Subs |-> FALSE]
    /\ heard = [c \in Subs |-> <<>>]
    /\ epochOf = [c \in Subs |-> 0]
    /\ start = <<>>
    /\ encRun = 0
    /\ closedAt = [c \in Subs |-> 0]

-----------------------------------------------------------------------------
(* Fan-out reader: Fanout.Run and Fanout.distribute. *)

\* src.Read returns a period; distribute takes its position and advances the
\* stream position by its frames before it asks the gate.
FanRead ==
    /\ fanPc = "read"
    /\ ~srcClosed
    /\ \E n \in PeriodLens :
         /\ pos + n <= MaxPos
         /\ hand' = [pos |-> pos, frames |-> n, session |-> 0]
         /\ pos' = pos + n
    /\ fanPc' = "gate"
    /\ UNCHANGED <<feedVars, ch, chClosed, srcClosed, stageVars, stopping,
                   dropped, writerVars, histVars>>

\* The gate is one load of the feed's snapshot: an idle consumer is sent
\* nothing, an active one gets the period tagged with the play session.
FanGate ==
    /\ fanPc = "gate"
    /\ IF Active(snap)
         THEN /\ hand' = [hand EXCEPT !.session = snap.epoch]
              /\ fanPc' = "send"
         ELSE /\ hand' = NoPeriod
              /\ fanPc' = "read"
    /\ UNCHANGED <<feedVars, pos, ch, chClosed, srcClosed, stageVars, stopping,
                   dropped, writerVars, histVars>>

\* The non-blocking send: a full queue drops the whole period and counts it.
FanSend ==
    /\ fanPc = "send"
    /\ IF HasRoom(ch, FanoutBuffer)
         THEN ch' = Append(ch, hand) /\ UNCHANGED dropped
         ELSE dropped' = dropped + 1 /\ UNCHANGED ch
    /\ hand' = NoPeriod
    /\ fanPc' = "read"
    /\ UNCHANGED <<feedVars, pos, chClosed, srcClosed, stageVars, stopping,
                   writerVars, histVars>>

\* src.Read fails (the capture was closed, ended or broke): Run closes the
\* consumer's channel and returns.
FanEnd ==
    /\ fanPc = "read"
    /\ fanPc' = "done"
    /\ chClosed' = TRUE
    /\ UNCHANGED <<feedVars, pos, hand, ch, srcClosed, stageVars, stopping,
                   dropped, writerVars, histVars>>

\* Fanout.Close by the run loop (device stopped, failed or removed).
FanClose ==
    /\ ~srcClosed
    /\ srcClosed' = TRUE
    /\ UNCHANGED <<feedVars, fanVars, stageVars, stopping, dropped,
                   writerVars, histVars>>

-----------------------------------------------------------------------------
(* Stage: opusStage.Run or pcmStage.Run, started by appliance.pump. *)

ReadUntilDrained ==
    /\ stPc = "read"
    /\ ch # <<>>
    /\ period' = Head(ch)
    /\ ch' = Tail(ch)
    /\ stPc' = "admit"
    /\ UNCHANGED <<feedVars, fanPc, pos, hand, chClosed, srcClosed, off,
                   session, acc, framePos, nextPos, frame, targets, lost,
                   encRun, stopping, dropped, writerVars, histVars>>

\* src.Read: the next queued period, or the end of a closed and drained feed.
StageRead ==
    /\ stPc = "read"
    /\ \/ /\ ch # <<>>
          /\ period' = Head(ch)
          /\ ch' = Tail(ch)
          /\ stPc' = "admit"
       \/ /\ ch = <<>>
          /\ chClosed
          /\ stPc' = "done"
          /\ UNCHANGED <<ch, period>>
    /\ UNCHANGED <<feedVars, fanPc, pos, hand, chClosed, srcClosed, off,
                   session, acc, framePos, nextPos, frame, targets, lost,
                   encRun, stopping, dropped, writerVars, histVars>>

\* Gate.admit: a period queued while no client plays any more, or for another
\* play session than the feed reports now, is dropped unencoded.
AdmittedUntagged(p, s) == Active(s)
Admitted(p, s) == Active(s) /\ (p.session = 0 \/ p.session = s.epoch)

\* The encoder is reset when the gate reports another play session than the
\* one it last encoded for.
NeverResets(s) == FALSE
Resets(s) == s.epoch # session

\* The fan-out dropped audio inside the frame that is being filled.
GapIgnored(p) == FALSE
GapInFrame(p) == acc # <<>> /\ p.pos # nextPos

\* The Opus stage starts a new play session with a reset encoder and an empty
\* accumulator; inside a session a gap only discards the partial frame.
OpusAdmit(s) ==
    /\ session' = s.epoch
    /\ encRun' = IF Resets(s) THEN encRun + 1 ELSE encRun
    /\ acc' = IF Resets(s) \/ GapInFrame(period) THEN <<>> ELSE acc
    /\ nextPos' = period.pos + period.frames

\* The PCM stage keeps nothing between periods.
PcmAdmit(s) ==
    /\ session' = s.epoch
    /\ UNCHANGED <<encRun, acc, nextPos>>

StageAdmit ==
    /\ stPc = "admit"
    /\ IF Admitted(period, snap)
         THEN /\ IF Mode = "opus" THEN OpusAdmit(snap) ELSE PcmAdmit(snap)
              /\ off' = 0
              /\ stPc' = "fill"
              /\ UNCHANGED period
         ELSE /\ stPc' = "read"
              /\ period' = NoPeriod
              /\ UNCHANGED <<session, encRun, acc, nextPos, off>>
    /\ UNCHANGED <<feedVars, fanVars, srcClosed, framePos, frame, targets,
                   lost, stopping, dropped, writerVars, histVars>>

\* The period is used up: the stage goes back to read the next one.
PeriodDone ==
    /\ stPc' = "read"
    /\ period' = NoPeriod
    /\ off' = 0

\* One pass of the Opus loop: fill the accumulator up to the rest of the
\* frame; a frame that is full is encoded and emitted, a partial one waits
\* for the next period.  Encode may fail, which ends the stage.
OpusFill ==
    LET take == Lesser(FrameLen - Len(acc), period.frames - off)
        at   == IF acc = <<>> THEN period.pos + off ELSE framePos
        full == acc \o Samples(period.pos + off, take)
    IN  /\ framePos' = at
        /\ acc' = full
        /\ IF Len(full) < FrameLen
             THEN /\ PeriodDone
                  /\ UNCHANGED frame
             ELSE \/ /\ frame' = [pos |-> at, session |-> session,
                                  samples |-> full, run |-> encRun]
                     /\ off' = off + take
                     /\ stPc' = "push"
                     /\ UNCHANGED period
                  \/ /\ stPc' = "fault"
                     /\ UNCHANGED <<frame, off, period>>

\* Samples of the period that the next L16 payload takes.
PcmTake == Lesser(FrameLen, period.frames - off)

\* One payload of l16.Packetizer.Split: up to FrameLen samples of the period.
PcmFill ==
    /\ frame' = [pos |-> period.pos + off, session |-> session,
                 samples |-> Samples(period.pos + off, PcmTake), run |-> encRun]
    /\ off' = off + PcmTake
    /\ stPc' = "push"
    /\ UNCHANGED <<framePos, acc, period>>

\* Samples of the period are left to consume.
MoreWholePayloads == off + FrameLen <= period.frames
More == off < period.frames

StageFill ==
    /\ stPc = "fill"
    /\ \/ /\ More
          /\ IF Mode = "opus" THEN OpusFill ELSE PcmFill
       \/ /\ ~More
          /\ PeriodDone
          /\ UNCHANGED <<framePos, acc, frame>>
    /\ UNCHANGED <<feedVars, fanVars, srcClosed, session, nextPos, targets, lost, encRun,
                   stopping, dropped, writerVars, histVars>>

\* A stage that ended with an error closes the device's fan-out, unless the
\* appliance is shutting down.
StageFault ==
    /\ stPc = "fault"
    /\ stPc' = "done"
    /\ srcClosed' = (srcClosed \/ ~stopping)
    /\ UNCHANGED <<feedVars, fanVars, period, off, session, acc, framePos,
                   nextPos, frame, targets, lost, encRun, stopping, dropped,
                   writerVars, histVars>>

\* Nobody is left playing, or a teardown and the next PLAY overtook the frame
\* while it was encoded: it is not delivered.
DeliverableToAnyone(f, s) == Active(s)
Deliverable(f, s) == Active(s) /\ (f.session = 0 \/ f.session = s.epoch)

\* Feed.Push, first half: one load of the snapshot.
PushLoad ==
    /\ stPc = "push"
    /\ targets' = IF Deliverable(frame, snap) THEN snap.subs ELSE {}
    /\ lost' = 0
    /\ stPc' = "send"
    /\ UNCHANGED <<feedVars, fanVars, srcClosed, period, off, session, acc,
                   framePos, nextPos, frame, encRun, stopping, dropped,
                   writerVars, histVars>>

\* Feed.Push, second half: the frame is offered to each subscriber of that
\* snapshot in turn (in any order here, in join order in the code); a full
\* queue loses it for that subscriber only.
PushSend(c) ==
    /\ stPc = "send"
    /\ c \in targets
    /\ IF HasRoom(queue[c], SubQueueDepth)
         THEN /\ queue' = [queue EXCEPT ![c] = Append(@, frame)]
              /\ UNCHANGED lost
         ELSE /\ lost' = lost + 1
              /\ UNCHANGED queue
    /\ targets' = targets \ {c}
    /\ UNCHANGED <<snap, done, subState, fanVars, srcClosed, stPc, period, off,
                   session, acc, framePos, nextPos, frame, encRun, stopping,
                   dropped, writerVars, histVars>>

\* The emit callback's end: noteDropped adds the losses to the stream's
\* counter; a cancelled appliance context ends the stage, otherwise an Opus
\* stage empties its accumulator and goes on with the period.
PushDone ==
    /\ stPc = "send"
    /\ targets = {}
    /\ dropped' = dropped + lost
    /\ lost' = 0
    /\ frame' = NoFrame
    /\ IF stopping
         THEN stPc' = "fault" /\ UNCHANGED acc
         ELSE stPc' = "fill" /\ acc' = <<>>
    /\ UNCHANGED <<feedVars, fanVars, srcClosed, period, off, session,
                   framePos, nextPos, targets, encRun, stopping, writerVars,
                   histVars>>

\* The appliance shuts down: a.ctx is cancelled.
Shutdown ==
    /\ ~stopping
    /\ stopping' = TRUE
    /\ UNCHANGED <<feedVars, fanVars, srcClosed, stageVars, dropped,
                   writerVars, histVars>>

-----------------------------------------------------------------------------
(* Feed: Subscribe, Sub.Close and Close, each under Feed.mu. *)

\* First position the play session that starts now may carry: the period the
\* fan-out has read but not yet gated, or the next one it reads.
FirstPos == IF fanPc = "gate" THEN hand.pos ELSE pos

\* Only the first client of an idle stream starts a new play session.
JoinEpoch(s) == IF Active(s) THEN s.epoch ELSE s.epoch + 1

\* PLAY: Feed.Subscribe, then the connection starts its writer.
Subscribe(c) ==
    /\ subState[c] = "new"
    /\ ~done
    /\ Cardinality(snap.subs) < MaxClients
    /\ snap' = [epoch |-> JoinEpoch(snap), subs |-> snap.subs \cup {c}]
    /\ subState' = [subState EXCEPT ![c] = "open"]
    /\ wPc' = [wPc EXCEPT ![c] = "check"]
    /\ epochOf' = [epochOf EXCEPT ![c] = JoinEpoch(snap)]
    /\ start' = IF Active(snap) THEN start ELSE Append(start, FirstPos)
    /\ UNCHANGED <<done, queue, fanVars, srcClosed, stageVars, stopping,
                   dropped, wFrame, based, basePos, ctxDone, heard, closedAt>>

\* Sub.Close, from the connection's cleanup: the client left, or its writer
\* dropped the connection.  The play session is kept.
SubClose(c) ==
    /\ subState[c] = "open"
    /\ subState' = [subState EXCEPT ![c] = "closed"]
    /\ snap' = [snap EXCEPT !.subs = @ \ {c}]
    /\ UNCHANGED <<done, queue, fanVars, srcClosed, stageVars, stopping,
                   dropped, writerVars, histVars>>

\* connSession.close after the unsubscribe: the writer's context is cancelled.
ConnClose(c) ==
    /\ subState[c] = "closed"
    /\ ~ctxDone[c]
    /\ ctxDone' = [ctxDone EXCEPT ![c] = TRUE]
    /\ UNCHANGED <<feedVars, fanVars, srcClosed, stageVars, stopping, dropped,
                   wPc, wFrame, based, basePos, heard, histVars>>

\* Feed.Close: the device is gone.
FeedClose ==
    /\ ~done
    /\ done' = TRUE
    /\ closedAt' = [c \in Subs |-> Len(heard[c])]
    /\ UNCHANGED <<snap, subState, queue, fanVars, srcClosed, stageVars,
                   stopping, dropped, writerVars, joinVars>>

-----------------------------------------------------------------------------
(* Writer of one client: connSession.runWriter over Sub.Next. *)

\* The writer returns: its deferred cs.close cancels the context.
WriterExit(c) ==
    /\ wPc' = [wPc EXCEPT ![c] = "exit"]
    /\ ctxDone' = [ctxDone EXCEPT ![c] = TRUE]
    /\ wFrame' = [wFrame EXCEPT ![c] = NoFrame]

NextWithoutCheck(c) ==
    /\ wPc[c] = "check"
    /\ wPc' = [wPc EXCEPT ![c] = "select"]
    /\ UNCHANGED <<feedVars, fanVars, srcClosed, stageVars, stopping, dropped,
                   wFrame, based, basePos, ctxDone, heard, histVars>>

\* Sub.Next, first select: a closed feed wins over a queued frame.
NextCheck(c) ==
    /\ wPc[c] = "check"
    /\ IF done
         THEN WriterExit(c)
         ELSE /\ wPc' = [wPc EXCEPT ![c] = "select"]
              /\ UNCHANGED <<ctxDone, wFrame>>
    /\ UNCHANGED <<feedVars, fanVars, srcClosed, stageVars, stopping, dropped,
                   based, basePos, heard, histVars>>

\* The connection's context is cancelled, or the feed is closed.
Ended(c) == ctxDone[c] \/ done

\* Sub.Next, second select: any ready case, at random.
NextSelect(c) ==
    /\ wPc[c] = "select"
    /\ \/ /\ Ended(c)
          /\ WriterExit(c)
          /\ UNCHANGED queue
       \/ /\ queue[c] # <<>>
          /\ wFrame' = [wFrame EXCEPT ![c] = Head(queue[c])]
          /\ queue' = [queue EXCEPT ![c] = Tail(@)]
          /\ wPc' = [wPc EXCEPT ![c] = "write"]
          /\ UNCHANGED ctxDone
    /\ UNCHANGED <<snap, done, subState, fanVars, srcClosed, stageVars,
                   stopping, dropped, based, basePos, heard, histVars>>

\* The RTP timestamp of a frame: its distance from the first frame sent, from
\* the connection's random start, in the timestamp's width.
Timestamp(p, base) == (StartTS + (p - base)) % TSMod

\* The position that has timestamp StartTS: the first frame sent.
BaseNeverKept(c) == wFrame[c].pos
Base(c) == IF based[c] THEN basePos[c] ELSE wFrame[c].pos

\* The packet goes out, or the socket write fails (the peer is gone, or
\* cs.close dropped the socket) and the writer returns.
Write(c) ==
    /\ wPc[c] = "write"
    /\ based' = [based EXCEPT ![c] = TRUE]
    /\ basePos' = [basePos EXCEPT ![c] = Base(c)]
    /\ \/ /\ ~ctxDone[c]
          /\ heard' = [heard EXCEPT ![c] = Append(@,
                [pos |-> wFrame[c].pos, session |-> wFrame[c].session,
                 samples |-> wFrame[c].samples, run |-> wFrame[c].run,
                 ts |-> Timestamp(wFrame[c].pos, Base(c))])]
          /\ wPc' = [wPc EXCEPT ![c] = "check"]
          /\ wFrame' = [wFrame EXCEPT ![c] = NoFrame]
          /\ UNCHANGED ctxDone
       \/ /\ WriterExit(c)
          /\ UNCHANGED heard
    /\ UNCHANGED <<feedVars, fanVars, srcClosed, stageVars, stopping, dropped,
                   histVars>>

-----------------------------------------------------------------------------
FanStep == FanRead \/ FanGate \/ FanSend \/ FanEnd
StageStep == \/ StageRead \/ StageAdmit \/ StageFill \/ StageFault
             \/ PushLoad \/ PushDone \/ \E c \in Subs : PushSend(c)
WriterStep(c) == NextCheck(c) \/ NextSelect(c) \/ Write(c)

Next ==
    \/ FanRead \/ FanGate \/ FanSend \/ FanEnd \/ FanClose
    \/ StageRead \/ StageAdmit \/ StageFill \/ StageFault
    \/ PushLoad \/ PushDone
    \/ Shutdown \/ FeedClose
    \/ \E c \in Subs : \/ Subscribe(c) \/ SubClose(c) \/ ConnClose(c)
                       \/ PushSend(c)
                       \/ NextCheck(c) \/ NextSelect(c) \/ Write(c)

Spec == Init /\ [][Next]_vars

-----------------------------------------------------------------------------
(* Fairness: goroutines that can run do run.  Nothing makes a client join or
   leave, the device close or the appliance stop; only a read of a closed
   capture is sure to fail, and only a connection whose socket was dropped is
   sure to be cleaned up. *)
Fairness ==
    /\ WF_vars(FanGate) /\ WF_vars(FanSend)
    /\ WF_vars(srcClosed /\ FanEnd)
    /\ WF_vars(StageStep)
    /\ \A c \in Subs : /\ WF_vars(WriterStep(c))
                       /\ WF_vars(ctxDone[c] /\ SubClose(c))
                       /\ WF_vars(ConnClose(c))

FairSpec == Spec /\ Fairness

-----------------------------------------------------------------------------
(* Properties *)

FeedType ==
    /\ snap \in [epoch : Nat, subs : SUBSET Subs]
    /\ done \in BOOLEAN
    /\ subState \in [Subs -> {"new", "open", "closed"}]
    /\ queue \in [Subs -> Seq(Frame)]
    /\ \A c \in Subs : Len(queue[c]) <= SubQueueDepth

FanType ==
    /\ fanPc \in {"read", "gate", "send", "done"}
    /\ pos \in Nat
    /\ hand \in Period
    /\ ch \in Seq(Period)
    /\ Len(ch) <= FanoutBuffer
    /\ chClosed \in BOOLEAN
    /\ srcClosed \in BOOLEAN

StageType ==
    /\ stPc \in {"read", "admit", "fill", "push", "send", "fault", "done"}
    /\ period \in Period
    /\ off \in Nat
    /\ session \in Nat
    /\ acc \in Seq(Nat) /\ Len(acc) <= FrameLen
    /\ framePos \in Nat
    /\ nextPos \in Nat
    /\ frame \in Frame
    /\ targets \in SUBSET Subs
    /\ lost \in Nat
    /\ encRun \in Nat
    /\ stopping \in BOOLEAN
    /\ dropped \in Nat

WriterType ==
    /\ wPc \in [Subs -> {"none", "check", "select", "write", "exit"}]
    /\ wFrame \in [Subs -> Frame]
    /\ based \in [Subs -> BOOLEAN]
    /\ basePos \in [Subs -> Nat]
    /\ ctxDone \in [Subs -> BOOLEAN]
    /\ heard \in [Subs -> Seq(Packet)]

HistType ==
    /\ epochOf \in [Subs -> Nat]
    /\ start \in Seq(Nat)
    /\ closedAt \in [Subs -> Nat]

\* The types of the state, with the capacity of every queue.
TypeOK == FeedType /\ FanType /\ StageType /\ WriterType /\ HistType

\* Everything up to here has been offered to the gate: what the fan-out reads
\* or gates from now on lies at or after it.
Frontier == IF fanPc = "gate" THEN hand.pos ELSE pos

\* Play session e carries the positions from st[e] up to its limit: where the
\* next session starts, or the frontier fr while it is the last one.
LimitAt(st, fr, e) == IF e < Len(st) THEN st[e + 1] ELSE fr

\* The positions lo, ..., hi - 1 belong to play session e.
Within(st, fr, e, lo, hi) ==
    e \in 1 .. Len(st) /\ st[e] <= lo /\ hi <= LimitAt(st, fr, e)

InSession(p, e) == Within(start, Frontier, e, p, p + 1)

\* The frames on their way to client c, oldest first: sent, in the writer's
\* hands, queued.
Line(c) == heard[c] \o (IF wPc[c] = "write" THEN <<wFrame[c]>> ELSE <<>>) \o queue[c]

EndPos(f) == f.pos + Len(f.samples)

\* A frame is a run of audio captured back to back from its own position.
WellFormed(f) ==
    /\ f.samples = Samples(f.pos, Len(f.samples))
    /\ Len(f.samples) \in IF Mode = "opus" THEN {FrameLen} ELSE 1 .. FrameLen

\* No client is ever given a frame of another stretch of playing than the one
\* it joined, nor a frame holding one sample captured outside it: not through
\* a period queued for a stage that had fallen behind, not through a partial
\* frame, not through a frame overtaken by a teardown and the next PLAY while
\* it was encoded or while Push was ranging over an old snapshot.
SessionIsolation ==
    \A c \in Subs : \A i \in DOMAIN Line(c) :
        /\ Line(c)[i].session = epochOf[c]
        /\ \A k \in DOMAIN Line(c)[i].samples :
              InSession(Line(c)[i].samples[k], epochOf[c])

\* A frame on its way to a client is never spliced over audio the fan-out
\* dropped, and is stamped with the position of its first sample.
NoSplice ==
    \A c \in Subs : \A i \in DOMAIN Line(c) : WellFormed(Line(c)[i])

\* A client is sent every sample at most once and in capture order, and what it
\* is sent has a gap only if the stream's drop counter shows a loss: neither
\* the idle gate nor the session checks ever lose audio silently in the middle
\* of a play session.
AudioInOrder ==
    \A c \in Subs :
        /\ \A i, j \in DOMAIN Line(c) : i < j => EndPos(Line(c)[i]) <= Line(c)[j].pos
        /\ dropped = 0 =>
               \A i \in 1 .. Len(heard[c]) - 1 : heard[c][i + 1].pos = EndPos(heard[c][i])

\* The distance between two RTP timestamps of a connection is the distance of
\* their audio, in the timestamp's width: lost audio leaves a gap of exactly
\* its length and the clock never drifts, across the wraparound too.
TimestampsFollowAudio ==
    \A c \in Subs : \A i, j \in DOMAIN heard[c] :
        i <= j => (heard[c][j].ts - heard[c][i].ts - (heard[c][j].pos - heard[c][i].pos))
                     % TSMod = 0

\* Clients share an Opus encoder run exactly when they share a play session:
\* a new stretch of playing starts from a reset encoder, and the encoder is
\* never reset under clients that are playing, whoever joins or leaves.
OneEncoderRunPerSession ==
    Mode = "opus" =>
        \A c, d \in Subs : \A i \in DOMAIN Line(c), j \in DOMAIN Line(d) :
            (Line(c)[i].run = Line(d)[j].run) <=> (epochOf[c] = epochOf[d])

\* Once the device is gone a client gets at most the one packet its writer
\* had already committed to, however much is queued for it.
ClosureStopsAudio ==
    done => \A c \in Subs : Len(heard[c]) <= closedAt[c] + 1

\* Once the capture is closed the fan-out and the stage both end, so that the
\* pump can report and the device can be reopened; once the feed is closed every
\* writer ends and every slot is given back.
PathEnds ==
    /\ srcClosed ~> (fanPc = "done" /\ stPc = "done")
    /\ done ~> (snap.subs = {} /\ \A c \in Subs : wPc[c] \in {"none", "exit"})

-----------------------------------------------------------------------------
(* The inductive invariant behind SessionIsolation and NoSplice: every object
   that carries audio, from the fan-out's hand to the wire, lies within the
   play session it is tagged with. *)

PeriodOK(st, fr, p) == p.frames > 0 /\ Within(st, fr, p.session, p.pos, p.pos + p.frames)

FrameOK(st, fr, f) ==
    /\ WellFormed(f)
    /\ Within(st, fr, f.session, f.pos, f.pos + Len(f.samples))

\* The feed's session number counts the sessions; who plays, plays the last
\* one; a subscription not yet created has received nothing.
FeedInv ==
    /\ snap.epoch = Len(start)
    /\ \A e \in 1 .. Len(start) : start[e] <= Frontier
    /\ Active(snap) => start # <<>>
    /\ \A c \in snap.subs : subState[c] = "open" /\ epochOf[c] = snap.epoch
    /\ \A c \in Subs : subState[c] = "new" =>
          wPc[c] = "none" /\ queue[c] = <<>> /\ heard[c] = <<>>

FanInv ==
    /\ fanPc \in {"gate", "send"} => hand.frames > 0 /\ hand.pos + hand.frames = pos
    /\ fanPc = "send" => PeriodOK(start, Frontier, hand)
    /\ \A i \in DOMAIN ch : PeriodOK(start, Frontier, ch[i])

\* The partial frame ends where the stage continues to read.
AccInv ==
    stPc \in {"read", "admit", "fill"} =>
        /\ Len(acc) < FrameLen
        /\ Mode = "pcm" => acc = <<>>
        /\ acc # <<>> =>
             /\ acc = Samples(framePos, Len(acc))
             /\ Within(start, Frontier, session, framePos, framePos + Len(acc))
             /\ framePos + Len(acc) = IF stPc = "fill" THEN period.pos + off ELSE nextPos

StageInv ==
    /\ stPc \in {"admit", "fill", "push", "send"} => PeriodOK(start, Frontier, period)
    /\ stPc \in {"fill", "push", "send"} =>
          /\ session = period.session
          /\ off <= period.frames
          /\ Mode = "opus" => nextPos = period.pos + period.frames
    /\ stPc \in {"push", "send"} => FrameOK(start, Frontier, frame)
    /\ stPc = "send" => \A c \in targets : subState[c] # "new" /\ epochOf[c] = frame.session
    /\ AccInv

ClientInv ==
    \A c \in Subs :
        /\ \A i \in DOMAIN queue[c] : FrameOK(start, Frontier, queue[c][i])
                                      /\ queue[c][i].session = epochOf[c]
        /\ wPc[c] = "write" => FrameOK(start, Frontier, wFrame[c])
                               /\ wFrame[c].session = epochOf[c]
        /\ \A i \in DOMAIN heard[c] : FrameOK(start, Frontier, heard[c][i])
                                      /\ heard[c][i].session = epochOf[c]

IsolationInv == TypeOK /\ FeedInv /\ FanInv /\ StageInv /\ ClientInv

-----------------------------------------------------------------------------
(* PlaySession implements LiveAudio: clients are subscriptions, and a block is
   the stretch of positions of a packet that a writer sent. *)
Blocks(ps) == [i \in DOMAIN ps |-> [from |-> ps[i].pos, to |-> EndPos(ps[i])]]

Live == INSTANCE LiveAudio
          WITH Clients  <- Subs,
               captured <- pos,
               stretch  <- start,
               joined   <- epochOf,
               playing  <- snap.subs,
               blocks   <- [c \in Subs |-> Blocks(heard[c])]

\* The whole media path does for its clients what LiveAudio promises.
ImplementsLiveAudio == Live!Spec

=============================================================================
