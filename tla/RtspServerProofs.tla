-------------------------- MODULE RtspServerProofs --------------------------
(***************************************************************************)
(* Proofs about the RTSP server, for every number of connections, tokens,  *)
(* token changes and tracks: its type invariant; that trust always means   *)
(* the token in force, and that a revoked stream gets at most the packet   *)
(* its writer had decided on; that a connection streams once, from the     *)
(* numbers its client was told; and that the end of every connection is    *)
(* accounted for, in the feeds' slots and towards the listener.            *)
(***************************************************************************)
EXTENDS RtspServer, FiniteSetTheorems, SequenceTheorems, TLAPS

-----------------------------------------------------------------------------
(* The inductive invariant *)

\* What a connection's generations say: they are never ahead of the guard's,
\* a handler in the middle of a check holds a snapshot at least as new as the
\* generation it last stored, and a snapshot that is still current when the
\* stamp is due vouches for the token that was checked.
ReaderInv ==
    \A c \in Conns :
        /\ authGen[c] <= guard.gen
        /\ snapGen[c] <= guard.gen
        /\ rPc[c] \in {"check", "stamp"} => authGen[c] <= snapGen[c]
        /\ (rPc[c] = "stamp" /\ snapGen[c] = guard.gen) =>
              Enabled(guard) /\ proved[c] = guard.token

\* What a writer's snapshot says: a current one agrees with the guard, and a
\* packet decided under it is not revoked; while it holds an older one no
\* packet has gone out since the change.
WriterInv ==
    \A c \in Conns : wPc[c] \in {"decide", "write"} =>
        /\ wSnap[c].gen <= guard.gen
        /\ wSnap[c].gen # guard.gen => late[c] = 0
        /\ wSnap[c].gen = guard.gen => wSnap[c].enabled = Enabled(guard)
        /\ (wPc[c] = "write" /\ wSnap[c].gen = guard.gen) => ~Revoked(c)

AuthInv ==
    /\ TypeOK
    /\ ReaderInv
    /\ TrustMeansCurrentToken
    /\ WriterInv
    /\ RevokedGetsOnePacket

-----------------------------------------------------------------------------
(* Types, by owner *)

SystemTypes ==
    /\ guard \in [token : Tokens \cup {NoToken}, gen : Nat]
    /\ registered \in 0 .. MaxTracks /\ retiring \in 0 .. MaxTracks
    /\ feeds \in SUBSET Tracks /\ added \in Tracks
    /\ subs \in [Tracks -> SUBSET Conns]
    /\ stopping \in BOOLEAN
    /\ queue \in [Conns -> 0 .. QueueDepth]

ReaderTypes ==
    /\ rPc \in [Conns -> ReaderPcs]
    /\ request \in [Conns -> [method : Methods \cup {"none"}, token : Tokens \cup {NoToken}]]
    /\ snapGen \in [Conns -> Nat]
    /\ state \in [Conns -> {"init", "ready", "playing"}]
    /\ track \in [Conns -> 0 .. MaxTracks]
    /\ nonce \in [Conns -> BOOLEAN]
    /\ setups \in [Conns -> Nat] /\ announced \in [Conns -> Nat]
    /\ writing \in [Conns -> BOOLEAN] /\ teardown \in [Conns -> BOOLEAN]

SharedTypes ==
    /\ authed \in [Conns -> BOOLEAN] /\ authGen \in [Conns -> Nat]
    /\ evicted \in [Conns -> BOOLEAN] /\ closed \in [Conns -> BOOLEAN]
    /\ proved \in [Conns -> Tokens \cup {NoToken}]

WriterTypes ==
    /\ wPc \in [Conns -> {"none", "next", "snapshot", "decide", "write", "exit"}]
    /\ wSnap \in [Conns -> [enabled : BOOLEAN, gen : Nat]]
    /\ wStart \in [Conns -> Nat]
    /\ late \in [Conns -> 0 .. 2] /\ writers \in [Conns -> Nat]
    /\ events \in [Conns -> Seq({"connected"} \cup Reasons)]

\* Types of variables a step leaves alone.
LEMMA KeepSystemTypes == ASSUME SystemTypes, UNCHANGED <<guard, feedVars, subs, stopping, queue>> PROVE SystemTypes'
  BY DEF SystemTypes, feedVars, readerVars, authVars

\* Likewise for the reader's variables.
LEMMA KeepReaderTypes == ASSUME ReaderTypes, UNCHANGED <<readerVars>> PROVE ReaderTypes'
  BY DEF ReaderTypes, feedVars, readerVars, authVars

\* Likewise for what reader and writer share.
LEMMA KeepSharedTypes == ASSUME SharedTypes, UNCHANGED <<authVars, evicted, closed>> PROVE SharedTypes'
  BY DEF SharedTypes, feedVars, readerVars, authVars

\* Likewise for the writer's variables.
LEMMA KeepWriterTypes == ASSUME WriterTypes, UNCHANGED <<wPc, wSnap, wStart, late, writers, events>> PROVE WriterTypes'
  BY DEF WriterTypes, feedVars, readerVars, authVars

\* A handler that returns leaves its program counter, request and snapshot typed.
ReturnTypes ==
    /\ rPc' \in [Conns -> ReaderPcs]
    /\ request' \in [Conns -> [method : Methods \cup {"none"}, token : Tokens \cup {NoToken}]]
    /\ snapGen' \in [Conns -> Nat]

\* Return leaves those three typed.
LEMMA ReturnKeepsTypes ==
    ASSUME TypeOK, NEW c \in Conns, NEW pc \in ReaderPcs, Return(c, pc)
    PROVE  ReturnTypes
  BY DEF TypeOK, Return, Goto, NoRequest, Methods, ReturnTypes

\* A challenge keeps the reader's types.
LEMMA UnauthorizedTypes ==
    ASSUME TypeOK, NEW c \in Conns, Unauthorized(c),
           UNCHANGED <<state, track, setups, announced, writing, teardown>>
    PROVE  ReaderTypes'
<1>1. \E pc \in ReaderPcs : Return(c, pc)
  BY DEF Unauthorized, ReaderPcs
<1>2. ReturnTypes
  BY <1>1, ReturnKeepsTypes
<1>3. ReaderTypes /\ nonce' \in [Conns -> BOOLEAN]
  BY DEF TypeOK, ReaderTypes, Unauthorized
<1> QED
  BY <1>2, <1>3 DEF ReaderTypes, ReturnTypes

\* A step of the guard or the run loop keeps the types.
LEMMA SystemStepTypes ==
    ASSUME TypeOK,
           \/ \E t \in Tokens \cup {NoToken} : SetToken(t)
           \/ RemoveTrack \/ CloseFeed \/ AddTrack
           \/ \E t \in Tracks : Push(t)
           \/ Shutdown
    PROVE  TypeOK'

<1>1. ASSUME NEW t \in Tokens \cup {NoToken}, SetToken(t) PROVE TypeOK'
  <2>1. SystemTypes'
    BY <1>1, SizesAssumption DEF SystemTypes, SetToken, feedVars, TypeOK
  <2>2. ReaderTypes'
    BY <1>1, KeepReaderTypes DEF SetToken, TypeOK, ReaderTypes, feedVars, readerVars, authVars, writerVars
  <2>3. SharedTypes'
    BY <1>1, KeepSharedTypes DEF SetToken, TypeOK, SharedTypes, feedVars, readerVars, authVars, writerVars
  <2>4. WriterTypes'
    BY <1>1, SizesAssumption DEF WriterTypes, SetToken, writerVars, TypeOK
  <2> QED
    BY <2>1, <2>2, <2>3, <2>4 DEF TypeOK, SystemTypes, ReaderTypes, SharedTypes, WriterTypes
<1>2. CASE RemoveTrack
  <2>1. SystemTypes'
    BY <1>2, SizesAssumption DEF SystemTypes, RemoveTrack, feedVars, TypeOK
  <2>2. ReaderTypes'
    BY <1>2, KeepReaderTypes DEF RemoveTrack, TypeOK, ReaderTypes, feedVars, readerVars, authVars, writerVars
  <2>3. SharedTypes'
    BY <1>2, KeepSharedTypes DEF RemoveTrack, TypeOK, SharedTypes, feedVars, readerVars, authVars, writerVars
  <2>4. WriterTypes'
    BY <1>2, KeepWriterTypes DEF RemoveTrack, TypeOK, WriterTypes, feedVars, readerVars, authVars, writerVars
  <2> QED
    BY <2>1, <2>2, <2>3, <2>4 DEF TypeOK, SystemTypes, ReaderTypes, SharedTypes, WriterTypes
<1>3. CASE CloseFeed
  <2>1. SystemTypes'
    BY <1>3, SizesAssumption DEF SystemTypes, CloseFeed, feedVars, TypeOK
  <2>2. ReaderTypes'
    BY <1>3, KeepReaderTypes DEF CloseFeed, TypeOK, ReaderTypes, feedVars, readerVars, authVars, writerVars
  <2>3. SharedTypes'
    BY <1>3, KeepSharedTypes DEF CloseFeed, TypeOK, SharedTypes, feedVars, readerVars, authVars, writerVars
  <2>4. WriterTypes'
    BY <1>3, KeepWriterTypes DEF CloseFeed, TypeOK, WriterTypes, feedVars, readerVars, authVars, writerVars
  <2> QED
    BY <2>1, <2>2, <2>3, <2>4 DEF TypeOK, SystemTypes, ReaderTypes, SharedTypes, WriterTypes
<1>4. CASE AddTrack
  <2>1. SystemTypes'
    BY <1>4, SizesAssumption DEF SystemTypes, AddTrack, Tracks, feedVars, TypeOK
  <2>2. ReaderTypes'
    BY <1>4, KeepReaderTypes DEF AddTrack, TypeOK, ReaderTypes, feedVars, readerVars, authVars, writerVars
  <2>3. SharedTypes'
    BY <1>4, KeepSharedTypes DEF AddTrack, TypeOK, SharedTypes, feedVars, readerVars, authVars, writerVars
  <2>4. WriterTypes'
    BY <1>4, KeepWriterTypes DEF AddTrack, TypeOK, WriterTypes, feedVars, readerVars, authVars, writerVars
  <2> QED
    BY <2>1, <2>2, <2>3, <2>4 DEF TypeOK, SystemTypes, ReaderTypes, SharedTypes, WriterTypes
<1>5. ASSUME NEW t \in Tracks, Push(t) PROVE TypeOK'
  <2>1. SystemTypes'
    <3>1. ASSUME NEW d \in Conns
          PROVE  (IF d \in subs[t] /\ queue[d] < QueueDepth
                    THEN queue[d] + 1 ELSE queue[d]) \in 0 .. QueueDepth
      <4>1. queue[d] \in 0 .. QueueDepth
        BY DEF TypeOK
      <4> QED
        BY <4>1, SizesAssumption
    <3>2. queue' \in [Conns -> 0 .. QueueDepth]
      BY <1>5, <3>1 DEF Push
    <3> QED
      BY <1>5, <3>2 DEF SystemTypes, Push, feedVars, TypeOK
  <2>2. ReaderTypes'
    BY <1>5, KeepReaderTypes DEF Push, TypeOK, ReaderTypes, feedVars, readerVars, authVars, writerVars
  <2>3. SharedTypes'
    BY <1>5, KeepSharedTypes DEF Push, TypeOK, SharedTypes, feedVars, readerVars, authVars, writerVars
  <2>4. WriterTypes'
    BY <1>5, KeepWriterTypes DEF Push, TypeOK, WriterTypes, feedVars, readerVars, authVars, writerVars
  <2> QED
    BY <2>1, <2>2, <2>3, <2>4 DEF TypeOK, SystemTypes, ReaderTypes, SharedTypes, WriterTypes
<1>6. CASE Shutdown
  <2>1. SystemTypes'
    BY <1>6, SizesAssumption DEF SystemTypes, Shutdown, feedVars, TypeOK
  <2>2. ReaderTypes'
    BY <1>6, KeepReaderTypes DEF Shutdown, TypeOK, ReaderTypes, feedVars, readerVars, authVars, writerVars
  <2>3. SharedTypes'
    BY <1>6, KeepSharedTypes DEF Shutdown, TypeOK, SharedTypes, feedVars, readerVars, authVars, writerVars
  <2>4. WriterTypes'
    BY <1>6, KeepWriterTypes DEF Shutdown, TypeOK, WriterTypes, feedVars, readerVars, authVars, writerVars
  <2> QED
    BY <2>1, <2>2, <2>3, <2>4 DEF TypeOK, SystemTypes, ReaderTypes, SharedTypes, WriterTypes
<1> QED
  BY <1>1, <1>2, <1>3, <1>4, <1>5, <1>6

\* A step of a connection's reader or writer keeps the types.
LEMMA ConnStepTypes ==
    ASSUME TypeOK, NEW c \in Conns,
           \/ Accept(c) \/ ReadEnds(c)
           \/ \E m \in Methods, t \in Tokens \cup {NoToken} : Receive(c, m, t)
           \/ CheckDigest(c) \/ StoreGen(c)
           \/ Describe(c) \/ Setup(c) \/ Play(c) \/ StartWriter(c) \/ Teardown(c)
           \/ Unsubscribe(c) \/ CloseConn(c) \/ Join(c)
           \/ NextFrame(c) \/ TakeSnapshot(c) \/ Decide(c) \/ Write(c)
    PROVE  TypeOK'
<1> USE DEF ReaderPcs
<1>1. CASE Accept(c)
  <2>1. SystemTypes'
    BY <1>1, KeepSystemTypes DEF Accept, TypeOK, SystemTypes, feedVars, readerVars, authVars, writerVars
  <2>2. ReaderTypes'
    BY <1>1, SizesAssumption DEF ReaderTypes, Accept, Goto, readerVars, TypeOK
  <2>3. SharedTypes'
    BY <1>1, KeepSharedTypes DEF Accept, TypeOK, SharedTypes, feedVars, readerVars, authVars, writerVars
  <2>4. WriterTypes'
    BY <1>1, KeepWriterTypes DEF Accept, TypeOK, WriterTypes, feedVars, readerVars, authVars, writerVars
  <2> QED
    BY <2>1, <2>2, <2>3, <2>4 DEF TypeOK, SystemTypes, ReaderTypes, SharedTypes, WriterTypes
<1>2. CASE ReadEnds(c)
  <2>1. SystemTypes'
    BY <1>2, KeepSystemTypes DEF ReadEnds, TypeOK, SystemTypes, feedVars, readerVars, authVars, writerVars
  <2>2. ReaderTypes'
    BY <1>2, SizesAssumption DEF ReaderTypes, ReadEnds, Goto, readerVars, TypeOK
  <2>3. SharedTypes'
    BY <1>2, KeepSharedTypes DEF ReadEnds, TypeOK, SharedTypes, feedVars, readerVars, authVars, writerVars
  <2>4. WriterTypes'
    BY <1>2, KeepWriterTypes DEF ReadEnds, TypeOK, WriterTypes, feedVars, readerVars, authVars, writerVars
  <2> QED
    BY <2>1, <2>2, <2>3, <2>4 DEF TypeOK, SystemTypes, ReaderTypes, SharedTypes, WriterTypes
<1>3. ASSUME NEW m \in Methods, NEW t \in Tokens \cup {NoToken}, Receive(c, m, t)
      PROVE  TypeOK'
  <2>1. SystemTypes'
    BY <1>3, KeepSystemTypes DEF Receive, TypeOK, SystemTypes, feedVars, readerVars, authVars, writerVars
  <2>2. ReaderTypes'
    <3>1. CASE Unauthorized(c)
      BY <1>3, <3>1, UnauthorizedTypes DEF Receive
    <3>2. CASE ~Unauthorized(c)
      <4>1. [method |-> m, token |-> t]
               \in [method : Methods \cup {"none"}, token : Tokens \cup {NoToken}]
        OBVIOUS
      <4>2. /\ request' = [request EXCEPT ![c] = [method |-> m, token |-> t]]
            /\ snapGen' = [snapGen EXCEPT ![c] = guard.gen]
            /\ \E pc \in {"handle", "check"} : rPc' = [rPc EXCEPT ![c] = pc]
            /\ UNCHANGED <<nonce, state, track, setups, announced, writing, teardown>>
        BY <1>3, <3>2 DEF Receive, Goto
      <4>3. guard.gen \in Nat /\ ReaderTypes
        BY DEF TypeOK, ReaderTypes
      <4> QED
        BY <4>1, <4>2, <4>3 DEF ReaderTypes
    <3> QED
      BY <3>1, <3>2
  <2>3. SharedTypes'
    BY <1>3, KeepSharedTypes DEF Receive, TypeOK, SharedTypes, feedVars, readerVars, authVars, writerVars
  <2>4. WriterTypes'
    BY <1>3, KeepWriterTypes DEF Receive, TypeOK, WriterTypes, feedVars, readerVars, authVars, writerVars
  <2> QED
    BY <2>1, <2>2, <2>3, <2>4 DEF TypeOK, SystemTypes, ReaderTypes, SharedTypes, WriterTypes
<1>4. CASE CheckDigest(c)
  <2>1. SystemTypes'
    BY <1>4, KeepSystemTypes DEF CheckDigest, TypeOK, SystemTypes, feedVars, readerVars, authVars, writerVars
  <2>2. ReaderTypes'
    <3>1. CASE Unauthorized(c)
      BY <1>4, <3>1, UnauthorizedTypes DEF CheckDigest
    <3>2. CASE ~Unauthorized(c)
      <4>1. /\ rPc' = [rPc EXCEPT ![c] = "stamp"]
            /\ UNCHANGED <<nonce, request, snapGen, state, track, setups, announced,
                           writing, teardown>>
        BY <1>4, <3>2 DEF CheckDigest, Goto
      <4>2. ReaderTypes
        BY DEF TypeOK, ReaderTypes
      <4> QED
        BY <4>1, <4>2 DEF ReaderTypes
    <3> QED
      BY <3>1, <3>2
  <2>3. SharedTypes'
    BY ZenonT(60), <1>4, SizesAssumption DEF SharedTypes, CheckDigest, Unauthorized, Return, Goto, NoRequest, Enabled, Methods, authVars, writerVars, TypeOK
  <2>4. WriterTypes'
    BY <1>4, KeepWriterTypes DEF CheckDigest, TypeOK, WriterTypes, feedVars, readerVars, authVars, writerVars
  <2> QED
    BY <2>1, <2>2, <2>3, <2>4 DEF TypeOK, SystemTypes, ReaderTypes, SharedTypes, WriterTypes
<1>5. CASE StoreGen(c)
  <2>1. SystemTypes'
    BY <1>5, KeepSystemTypes DEF StoreGen, TypeOK, SystemTypes, feedVars, readerVars, authVars, writerVars
  <2>2. ReaderTypes'
    BY <1>5, SizesAssumption DEF ReaderTypes, StoreGen, Goto, Stamp, readerVars, TypeOK
  <2>3. SharedTypes'
    BY <1>5, SizesAssumption DEF SharedTypes, StoreGen, Goto, Stamp, authVars, writerVars, TypeOK
  <2>4. WriterTypes'
    BY <1>5, KeepWriterTypes DEF StoreGen, TypeOK, WriterTypes, feedVars, readerVars, authVars, writerVars
  <2> QED
    BY <2>1, <2>2, <2>3, <2>4 DEF TypeOK, SystemTypes, ReaderTypes, SharedTypes, WriterTypes
<1>6. CASE Describe(c)
  <2>1. SystemTypes'
    BY <1>6, KeepSystemTypes DEF Describe, TypeOK, SystemTypes, feedVars, readerVars, authVars, writerVars
  <2>2. ReaderTypes'
    BY <1>6, SizesAssumption DEF ReaderTypes, Describe, Return, Goto, NoRequest, Methods, readerVars, TypeOK
  <2>3. SharedTypes'
    BY <1>6, KeepSharedTypes DEF Describe, TypeOK, SharedTypes, feedVars, readerVars, authVars, writerVars
  <2>4. WriterTypes'
    BY <1>6, KeepWriterTypes DEF Describe, TypeOK, WriterTypes, feedVars, readerVars, authVars, writerVars
  <2> QED
    BY <2>1, <2>2, <2>3, <2>4 DEF TypeOK, SystemTypes, ReaderTypes, SharedTypes, WriterTypes
<1>7. CASE Setup(c)
  <2>1. SystemTypes'
    BY <1>7, KeepSystemTypes DEF Setup, TypeOK, SystemTypes, feedVars, readerVars, authVars, writerVars
  <2>2. ReaderTypes'
    <3>1. ReaderTypes /\ registered \in 0 .. MaxTracks
      BY DEF TypeOK, ReaderTypes
    <3>2. ReturnTypes
      BY <1>7, ReturnKeepsTypes DEF Setup
    <3>3. /\ track' \in [Conns -> 0 .. MaxTracks]
          /\ setups' \in [Conns -> Nat]
          /\ state' \in [Conns -> {"init", "ready", "playing"}]
      <4>1. \/ UNCHANGED <<track, setups, state>>
            \/ /\ track' = [track EXCEPT ![c] = registered]
               /\ setups' = [setups EXCEPT ![c] = @ + 1]
               /\ state' = [state EXCEPT ![c] = "ready"]
        BY <1>7 DEF Setup
      <4>2. setups[c] + 1 \in Nat
        BY <3>1 DEF ReaderTypes
      <4>3. track' \in [Conns -> 0 .. MaxTracks]
        BY <3>1, <4>1 DEF ReaderTypes
      <4>4. setups' \in [Conns -> Nat]
        BY <3>1, <4>1, <4>2 DEF ReaderTypes
      <4>5. state' \in [Conns -> {"init", "ready", "playing"}]
        BY <3>1, <4>1 DEF ReaderTypes
      <4> QED
        BY <4>3, <4>4, <4>5
    <3>4. UNCHANGED <<nonce, announced, writing, teardown>>
      BY <1>7 DEF Setup
    <3> QED
      BY <3>1, <3>2, <3>3, <3>4 DEF ReaderTypes, ReturnTypes
  <2>3. SharedTypes'
    BY <1>7, KeepSharedTypes DEF Setup, TypeOK, SharedTypes, feedVars, readerVars, authVars, writerVars
  <2>4. WriterTypes'
    BY <1>7, KeepWriterTypes DEF Setup, TypeOK, WriterTypes, feedVars, readerVars, authVars, writerVars
  <2> QED
    BY <2>1, <2>2, <2>3, <2>4 DEF TypeOK, SystemTypes, ReaderTypes, SharedTypes, WriterTypes
<1>8. CASE Play(c)
  <2>1. SystemTypes'
    BY SMTT(60), <1>8, SizesAssumption DEF SystemTypes, Play, CanSubscribe, Return, Goto, NoRequest, Methods, Tracks, feedVars, ReaderTypes, TypeOK
  <2>2. ReaderTypes'
    <3>1. ReaderTypes
      BY DEF TypeOK, ReaderTypes
    <3>2. ReturnTypes
      <4>1. CASE Return(c, "read")
        BY <4>1, ReturnKeepsTypes
      <4>2. CASE Goto(c, "respond") /\ UNCHANGED <<request, snapGen>>
        BY <3>1, <4>2 DEF ReaderTypes, ReturnTypes, Goto
      <4> QED
        BY <1>8, <4>1, <4>2 DEF Play
    <3>3. /\ state' \in [Conns -> {"init", "ready", "playing"}]
          /\ announced' \in [Conns -> Nat]
      BY <1>8, <3>1 DEF Play, ReaderTypes
    <3>4. UNCHANGED <<track, nonce, setups, writing, teardown>>
      BY <1>8 DEF Play
    <3> QED
      BY <3>1, <3>2, <3>3, <3>4 DEF ReaderTypes, ReturnTypes
  <2>3. SharedTypes'
    BY <1>8, KeepSharedTypes DEF Play, TypeOK, SharedTypes, feedVars, readerVars, authVars, writerVars
  <2>4. WriterTypes'
    BY <1>8, KeepWriterTypes DEF Play, TypeOK, WriterTypes, feedVars, readerVars, authVars, writerVars
  <2> QED
    BY <2>1, <2>2, <2>3, <2>4 DEF TypeOK, SystemTypes, ReaderTypes, SharedTypes, WriterTypes
<1>9. CASE StartWriter(c)
  <2>1. SystemTypes'
    BY <1>9, KeepSystemTypes DEF StartWriter, TypeOK, SystemTypes, feedVars, readerVars, authVars, writerVars
  <2>2. ReaderTypes'
    BY <1>9, SizesAssumption DEF ReaderTypes, StartWriter, Return, Goto, NoRequest, Methods, Reasons, readerVars, TypeOK
  <2>3. SharedTypes'
    BY <1>9, KeepSharedTypes DEF StartWriter, TypeOK, SharedTypes, feedVars, readerVars, authVars, writerVars
  <2>4. WriterTypes'
    BY SMTT(60), <1>9, SizesAssumption DEF WriterTypes, StartWriter, Return, Goto, NoRequest, Methods, Reasons, writerVars, ReaderTypes, TypeOK
  <2> QED
    BY <2>1, <2>2, <2>3, <2>4 DEF TypeOK, SystemTypes, ReaderTypes, SharedTypes, WriterTypes
<1>10. CASE Teardown(c)
  <2>1. SystemTypes'
    BY <1>10, KeepSystemTypes DEF Teardown, TypeOK, SystemTypes, feedVars, readerVars, authVars, writerVars
  <2>2. ReaderTypes'
    BY <1>10, SizesAssumption DEF ReaderTypes, Teardown, Return, Goto, NoRequest, Methods, readerVars, TypeOK
  <2>3. SharedTypes'
    BY <1>10, KeepSharedTypes DEF Teardown, TypeOK, SharedTypes, feedVars, readerVars, authVars, writerVars
  <2>4. WriterTypes'
    BY <1>10, KeepWriterTypes DEF Teardown, TypeOK, WriterTypes, feedVars, readerVars, authVars, writerVars
  <2> QED
    BY <2>1, <2>2, <2>3, <2>4 DEF TypeOK, SystemTypes, ReaderTypes, SharedTypes, WriterTypes
<1>11. CASE Unsubscribe(c)
  <2>1. SystemTypes'
    BY <1>11, SizesAssumption DEF SystemTypes, Unsubscribe, Goto, feedVars, TypeOK
  <2>2. ReaderTypes'
    BY <1>11, SizesAssumption DEF ReaderTypes, Unsubscribe, Goto, readerVars, TypeOK
  <2>3. SharedTypes'
    BY <1>11, KeepSharedTypes DEF Unsubscribe, TypeOK, SharedTypes, feedVars, readerVars, authVars, writerVars
  <2>4. WriterTypes'
    BY <1>11, KeepWriterTypes DEF Unsubscribe, TypeOK, WriterTypes, feedVars, readerVars, authVars, writerVars
  <2> QED
    BY <2>1, <2>2, <2>3, <2>4 DEF TypeOK, SystemTypes, ReaderTypes, SharedTypes, WriterTypes
<1>12. CASE CloseConn(c)
  <2>1. SystemTypes'
    BY <1>12, KeepSystemTypes DEF CloseConn, TypeOK, SystemTypes, feedVars, readerVars, authVars, writerVars
  <2>2. ReaderTypes'
    BY <1>12, SizesAssumption DEF ReaderTypes, CloseConn, Goto, readerVars, TypeOK
  <2>3. SharedTypes'
    BY <1>12, SizesAssumption DEF SharedTypes, CloseConn, Goto, authVars, writerVars, TypeOK
  <2>4. WriterTypes'
    BY <1>12, KeepWriterTypes DEF CloseConn, TypeOK, WriterTypes, feedVars, readerVars, authVars, writerVars
  <2> QED
    BY <2>1, <2>2, <2>3, <2>4 DEF TypeOK, SystemTypes, ReaderTypes, SharedTypes, WriterTypes
<1>13. CASE Join(c)
  <2>1. SystemTypes'
    BY <1>13, KeepSystemTypes DEF Join, TypeOK, SystemTypes, feedVars, readerVars, authVars, writerVars
  <2>2. ReaderTypes'
    BY <1>13, SizesAssumption DEF ReaderTypes, Join, Goto, Reason, Reasons, readerVars, TypeOK
  <2>3. SharedTypes'
    BY <1>13, KeepSharedTypes DEF Join, TypeOK, SharedTypes, feedVars, readerVars, authVars, writerVars
  <2>4. WriterTypes'
    BY <1>13, SizesAssumption DEF WriterTypes, Join, Goto, Reason, Reasons, writerVars, TypeOK
  <2> QED
    BY <2>1, <2>2, <2>3, <2>4 DEF TypeOK, SystemTypes, ReaderTypes, SharedTypes, WriterTypes
<1>14. CASE NextFrame(c)
  <2>1. SystemTypes'
    <3>1. SystemTypes /\ queue[c] \in 0 .. QueueDepth
      BY DEF TypeOK, SystemTypes
    <3>2. \/ UNCHANGED queue
          \/ queue[c] > 0 /\ queue' = [queue EXCEPT ![c] = @ - 1]
      BY <1>14 DEF NextFrame
    <3>3. queue' \in [Conns -> 0 .. QueueDepth]
      BY <3>1, <3>2, SizesAssumption DEF SystemTypes
    <3> QED
      BY <1>14, <3>1, <3>3 DEF SystemTypes, NextFrame, feedVars
  <2>2. ReaderTypes'
    BY <1>14, KeepReaderTypes DEF NextFrame, TypeOK, ReaderTypes, feedVars, readerVars, authVars, writerVars
  <2>3. SharedTypes'
    BY ZenonT(60), <1>14, SizesAssumption DEF SharedTypes, NextFrame, WriterExit, authVars, writerVars, TypeOK
  <2>4. WriterTypes'
    <3>1. \E pc \in {"exit", "snapshot"} : wPc' = [wPc EXCEPT ![c] = pc]
      BY <1>14 DEF NextFrame, WriterExit
    <3>2. WriterTypes /\ UNCHANGED <<wSnap, wStart, late, writers, events>>
      BY <1>14 DEF NextFrame, TypeOK, WriterTypes
    <3> QED
      BY <3>1, <3>2 DEF WriterTypes
  <2> QED
    BY <2>1, <2>2, <2>3, <2>4 DEF TypeOK, SystemTypes, ReaderTypes, SharedTypes, WriterTypes
<1>15. CASE TakeSnapshot(c)
  <2>1. SystemTypes'
    BY <1>15, KeepSystemTypes DEF TakeSnapshot, TypeOK, SystemTypes, feedVars, readerVars, authVars, writerVars
  <2>2. ReaderTypes'
    BY <1>15, KeepReaderTypes DEF TakeSnapshot, TypeOK, ReaderTypes, feedVars, readerVars, authVars, writerVars
  <2>3. SharedTypes'
    BY <1>15, KeepSharedTypes DEF TakeSnapshot, TypeOK, SharedTypes, feedVars, readerVars, authVars, writerVars
  <2>4. WriterTypes'
    BY <1>15, SizesAssumption DEF WriterTypes, TakeSnapshot, Enabled, writerVars, TypeOK
  <2> QED
    BY <2>1, <2>2, <2>3, <2>4 DEF TypeOK, SystemTypes, ReaderTypes, SharedTypes, WriterTypes
<1>16. CASE Decide(c)
  <2>1. SystemTypes'
    BY <1>16, KeepSystemTypes DEF Decide, TypeOK, SystemTypes, feedVars, readerVars, authVars, writerVars
  <2>2. ReaderTypes'
    BY <1>16, KeepReaderTypes DEF Decide, TypeOK, ReaderTypes, feedVars, readerVars, authVars, writerVars
  <2>3. SharedTypes'
    BY ZenonT(60), <1>16, SizesAssumption DEF SharedTypes, Decide, WriterExit, authVars, writerVars, TypeOK
  <2>4. WriterTypes'
    BY ZenonT(60), <1>16, SizesAssumption DEF WriterTypes, Decide, WriterExit, writerVars, TypeOK
  <2> QED
    BY <2>1, <2>2, <2>3, <2>4 DEF TypeOK, SystemTypes, ReaderTypes, SharedTypes, WriterTypes
<1>17. CASE Write(c)
  <2>1. SystemTypes'
    BY <1>17, KeepSystemTypes DEF Write, TypeOK, SystemTypes, feedVars, readerVars, authVars, writerVars
  <2>2. ReaderTypes'
    BY <1>17, KeepReaderTypes DEF Write, TypeOK, ReaderTypes, feedVars, readerVars, authVars, writerVars
  <2>3. SharedTypes'
    BY <1>17, SizesAssumption DEF SharedTypes, Write, WriterExit, authVars, writerVars, TypeOK
  <2>4. WriterTypes'
    <3>1. \E pc \in {"exit", "next"} : wPc' = [wPc EXCEPT ![c] = pc]
      BY <1>17 DEF Write, WriterExit
    <3>2. WriterTypes /\ UNCHANGED <<wSnap, wStart, writers, events>>
      BY <1>17 DEF Write, TypeOK, WriterTypes
    <3>3. late' \in [Conns -> 0 .. 2]
      <4>1. late[c] \in 0 .. 2
        BY <3>2 DEF WriterTypes
      <4>2. late' = late \/ \E n \in 0 .. 2 : late' = [late EXCEPT ![c] = n]
        BY <1>17, <4>1 DEF Write
      <4> QED
        BY <3>2, <4>2 DEF WriterTypes
    <3> QED
      BY <3>1, <3>2, <3>3 DEF WriterTypes
  <2> QED
    BY <2>1, <2>2, <2>3, <2>4 DEF TypeOK, SystemTypes, ReaderTypes, SharedTypes, WriterTypes
<1> QED
  BY <1>1, <1>2, <1>3, <1>4, <1>5, <1>6, <1>7, <1>8, <1>9, <1>10, <1>11, <1>12, <1>13, <1>14, <1>15, <1>16, <1>17

\* The initial states are typed.
LEMMA InitTypes == ASSUME Init PROVE TypeOK
<1>1. SystemTypes
  <2>1. guard \in [token : Tokens \cup {NoToken}, gen : Nat]
    <3>1. PICK t \in Tokens \cup {NoToken} :
            guard = [token |-> t, gen |-> IF t = NoToken THEN 0 ELSE 1]
      BY DEF Init
    <3>2. (IF t = NoToken THEN 0 ELSE 1) \in Nat
      OBVIOUS
    <3> QED
      BY <3>1, <3>2
  <2>2. 1 \in Tracks /\ {1} \in SUBSET Tracks
    BY SizesAssumption DEF Tracks
  <2>3. subs \in [Tracks -> SUBSET Conns] /\ queue \in [Conns -> 0 .. QueueDepth]
    BY SizesAssumption DEF Init
  <2>4. registered \in 0 .. MaxTracks /\ retiring \in 0 .. MaxTracks
    BY SizesAssumption DEF Init
  <2>5. feeds \in SUBSET Tracks /\ added \in Tracks /\ stopping \in BOOLEAN
    BY <2>2 DEF Init
  <2> QED
    BY <2>1, <2>3, <2>4, <2>5 DEF SystemTypes
<1>2. ReaderTypes
  <2>1. NoRequest \in [method : Methods \cup {"none"}, token : Tokens \cup {NoToken}]
    BY DEF NoRequest
  <2>2. request = [c \in Conns |-> NoRequest]
    BY DEF Init, NoRequest
  <2> QED
    BY <2>1, <2>2, SizesAssumption DEF Init, ReaderTypes, ReaderPcs
<1>3. SharedTypes
  BY DEF Init, SharedTypes
<1>4. WriterTypes
  BY DEF Init, WriterTypes
<1> QED
  BY <1>1, <1>2, <1>3, <1>4
     DEF TypeOK, SystemTypes, ReaderTypes, SharedTypes, WriterTypes

\* Every step keeps the types.
LEMMA StepTypes == ASSUME TypeOK, [Next]_vars PROVE TypeOK'
<1>1. CASE UNCHANGED vars
  BY <1>1 DEF TypeOK, vars, feedVars, readerVars, authVars, writerVars
<1>2. CASE Next
  BY <1>2, SystemStepTypes, ConnStepTypes DEF Next
<1> QED
  BY <1>1, <1>2

\* The server's variables keep their types (RtspServer's TypeOK).
THEOREM TypeCorrect == Spec => []TypeOK
<1>1. Init => TypeOK
  BY InitTypes
<1>2. TypeOK /\ [Next]_vars => TypeOK'
  BY StepTypes
<1> QED
  BY <1>1, <1>2, PTL DEF Spec

-----------------------------------------------------------------------------
(* Access control *)

\* A step after which no handler is newly in the middle of a check.
QuietReader ==
    \A d \in Conns :
        \/ rPc'[d] = rPc[d] /\ snapGen'[d] = snapGen[d]
        \/ rPc'[d] \notin {"check", "stamp"} /\ snapGen'[d] <= guard.gen

\* A step after which no writer newly holds a snapshot.
QuietWriter ==
    \A d \in Conns :
        /\ late'[d] = late[d]
        /\ \/ wPc'[d] = wPc[d] /\ wSnap'[d] = wSnap[d]
           \/ wPc'[d] \notin {"decide", "write"}

\* Such a step keeps what the invariant says of readers.
LEMMA QuietReaderKeeps ==
    ASSUME AuthInv, QuietReader, UNCHANGED <<guard, authVars>>
    PROVE  ReaderInv' /\ TrustMeansCurrentToken'
<1>1. ReaderInv /\ TrustMeansCurrentToken
  BY DEF AuthInv
<1>2. ReaderInv'
  BY <1>1 DEF ReaderInv, QuietReader, authVars, Enabled
<1>3. TrustMeansCurrentToken'
  BY <1>1 DEF TrustMeansCurrentToken, authVars, Enabled, AuthorizedUnder
<1> QED
  BY <1>2, <1>3

\* Such a step keeps what the invariant says of writers.
LEMMA QuietWriterKeeps ==
    ASSUME AuthInv, QuietWriter, UNCHANGED <<guard, authVars>>
    PROVE  WriterInv' /\ RevokedGetsOnePacket'
<1>1. WriterInv /\ RevokedGetsOnePacket
  BY DEF AuthInv
<1>2. WriterInv'
  BY <1>1 DEF WriterInv, QuietWriter, authVars, Enabled, Revoked, AuthorizedUnder
<1>3. RevokedGetsOnePacket'
  BY <1>1 DEF RevokedGetsOnePacket, QuietWriter
<1> QED
  BY <1>2, <1>3

\* The parts of the invariant that are not its types.
AuthParts == ReaderInv /\ TrustMeansCurrentToken /\ WriterInv /\ RevokedGetsOnePacket

\* A token change makes every generation and every snapshot an old one.
LEMMA SetTokenAuth ==
    ASSUME AuthInv, NEW t \in Tokens \cup {NoToken}, SetToken(t)
    PROVE  AuthParts'
<1>1. /\ ReaderInv /\ WriterInv
      /\ guard.gen \in Nat /\ guard'.gen = guard.gen + 1
      /\ late' = [c \in Conns |-> 0]
      /\ UNCHANGED <<rPc, snapGen, authed, authGen, proved, wPc, wSnap>>
      /\ \A c \in Conns : authGen[c] \in Nat /\ snapGen[c] \in Nat /\ wSnap[c].gen \in Nat
  BY DEF AuthInv, TypeOK, SetToken, readerVars, authVars
<1>2. \A c \in Conns : /\ authGen'[c] <= guard.gen /\ snapGen'[c] <= guard.gen
                       /\ rPc'[c] \in {"check", "stamp"} => authGen'[c] <= snapGen'[c]
  BY <1>1 DEF ReaderInv
<1>3. ReaderInv'
  BY <1>1, <1>2 DEF ReaderInv
<1>4. TrustMeansCurrentToken'
  BY <1>1, <1>2 DEF TrustMeansCurrentToken, AuthorizedUnder
<1>5. \A c \in Conns : wPc'[c] \in {"decide", "write"} => wSnap'[c].gen <= guard.gen
  BY <1>1 DEF WriterInv
<1>6. WriterInv'
  BY <1>1, <1>5 DEF WriterInv
<1>7. RevokedGetsOnePacket'
  BY <1>1 DEF RevokedGetsOnePacket
<1> QED
  BY <1>3, <1>4, <1>6, <1>7 DEF AuthParts

\* The run loop and the pipeline touch nothing the invariant speaks of.
LEMMA SystemAuth ==
    ASSUME AuthInv, RemoveTrack \/ CloseFeed \/ AddTrack \/ Shutdown
                    \/ \E t \in Tracks : Push(t)
    PROVE  AuthParts'
<1>1. UNCHANGED <<guard, authVars, readerVars, writerVars>>
  BY DEF RemoveTrack, CloseFeed, AddTrack, Shutdown, Push
<1>2. QuietReader /\ QuietWriter
  BY <1>1 DEF QuietReader, QuietWriter, readerVars, writerVars
<1> QED
  BY <1>1, <1>2, QuietReaderKeeps, QuietWriterKeeps DEF AuthParts

\* So do the handlers and the cleanup, which leave a check behind or start none.
LEMMA HandlerAuth ==
    ASSUME AuthInv, NEW c \in Conns,
           \/ Accept(c) \/ ReadEnds(c)
           \/ Describe(c) \/ Setup(c) \/ Play(c) \/ StartWriter(c) \/ Teardown(c)
           \/ Unsubscribe(c) \/ CloseConn(c) \/ Join(c)
    PROVE  AuthParts'
<1>1. UNCHANGED <<guard, authVars>>
  BY DEF Accept, ReadEnds, Describe, Setup, Play, StartWriter, Teardown, Unsubscribe,
         CloseConn, Join
<1>2. /\ rPc \in [Conns -> ReaderPcs] /\ snapGen \in [Conns -> Nat]
      /\ wPc \in [Conns -> {"none", "next", "snapshot", "decide", "write", "exit"}]
      /\ guard.gen \in Nat
      /\ snapGen[c] <= guard.gen
  BY DEF AuthInv, TypeOK, ReaderInv
<1>3. /\ \E pc \in {"read", "unsubscribe", "respond", "close", "join", "gone"} :
           rPc' = [rPc EXCEPT ![c] = pc]
      /\ snapGen' = snapGen \/ snapGen' = [snapGen EXCEPT ![c] = 0]
  BY DEF Accept, ReadEnds, Describe, Setup, Play, StartWriter, Teardown, Unsubscribe,
         CloseConn, Join, Return, Goto
<1>4. QuietReader
  BY <1>2, <1>3 DEF QuietReader
<1>5. /\ UNCHANGED <<wSnap, late>>
      /\ wPc' = wPc \/ wPc' = [wPc EXCEPT ![c] = "next"]
  BY DEF Accept, ReadEnds, Describe, Setup, Play, StartWriter, Teardown, Unsubscribe,
         CloseConn, Join, writerVars
<1>6. QuietWriter
  BY <1>2, <1>5 DEF QuietWriter
<1> QED
  BY <1>1, <1>4, <1>6, QuietReaderKeeps, QuietWriterKeeps DEF AuthParts

\* The snapshot a request takes is the current generation.
LEMMA ReceiveAuth ==
    ASSUME AuthInv, NEW c \in Conns, NEW m \in Methods, NEW t \in Tokens \cup {NoToken},
           Receive(c, m, t)
    PROVE  AuthParts'
<1>1. UNCHANGED <<guard, authVars, writerVars>>
  BY DEF Receive
<1>2. WriterInv' /\ RevokedGetsOnePacket'
  BY <1>1, QuietWriterKeeps DEF QuietWriter, writerVars
<1>3. /\ rPc \in [Conns -> ReaderPcs] /\ snapGen \in [Conns -> Nat]
      /\ guard.gen \in Nat /\ ReaderInv /\ TrustMeansCurrentToken
  BY DEF AuthInv, TypeOK
<1>4. \/ /\ \E pc \in {"read", "unsubscribe"} : rPc' = [rPc EXCEPT ![c] = pc]
         /\ snapGen' = [snapGen EXCEPT ![c] = 0]
      \/ /\ \E pc \in {"handle", "check"} : rPc' = [rPc EXCEPT ![c] = pc]
         /\ snapGen' = [snapGen EXCEPT ![c] = guard.gen]
  BY DEF Receive, Unauthorized, Return, Goto
<1>5. ReaderInv'
  <2> SUFFICES ASSUME NEW d \in Conns
               PROVE  /\ authGen[d] <= guard.gen
                      /\ snapGen'[d] <= guard.gen
                      /\ rPc'[d] \in {"check", "stamp"} => authGen[d] <= snapGen'[d]
                      /\ (rPc'[d] = "stamp" /\ snapGen'[d] = guard.gen) =>
                            Enabled(guard) /\ proved[d] = guard.token
    BY <1>1 DEF ReaderInv, authVars, Enabled
  <2>1. authGen[d] <= guard.gen /\ snapGen[d] <= guard.gen
    BY <1>3 DEF ReaderInv
  <2>2. CASE d = c
    BY <1>3, <1>4, <2>1, <2>2
  <2>3. CASE d # c
    BY <1>3, <1>4, <2>3 DEF ReaderInv
  <2> QED
    BY <2>2, <2>3
<1>6. TrustMeansCurrentToken'
  BY <1>1, <1>3 DEF TrustMeansCurrentToken, authVars, AuthorizedUnder, Enabled
<1> QED
  BY <1>2, <1>5, <1>6 DEF AuthParts

\* A valid answer names the token of the guard at that moment.
LEMMA CheckDigestAuth ==
    ASSUME AuthInv, NEW c \in Conns, CheckDigest(c)
    PROVE  AuthParts'
<1>1. UNCHANGED <<guard, authGen, writerVars>>
  BY DEF CheckDigest
<1>2. CASE Unauthorized(c) /\ UNCHANGED <<authed, proved>>
  <2>1. UNCHANGED <<guard, authVars>> /\ QuietWriter
    BY <1>1, <1>2 DEF authVars, QuietWriter, writerVars
  <2>2. /\ rPc \in [Conns -> ReaderPcs] /\ snapGen \in [Conns -> Nat]
        /\ guard.gen \in Nat
    BY DEF AuthInv, TypeOK
  <2>3. /\ \E pc \in {"read", "unsubscribe"} : rPc' = [rPc EXCEPT ![c] = pc]
        /\ snapGen' = [snapGen EXCEPT ![c] = 0]
    BY <1>2 DEF Unauthorized, Return, Goto
  <2>4. QuietReader
    BY <2>2, <2>3 DEF QuietReader
  <2> QED
    BY <2>1, <2>4, QuietReaderKeeps, QuietWriterKeeps DEF AuthParts
<1>3. CASE ~(Unauthorized(c) /\ UNCHANGED <<authed, proved>>)
  <2>1. /\ Enabled(guard) /\ rPc[c] = "check"
        /\ authed' = [authed EXCEPT ![c] = TRUE]
        /\ proved' = [proved EXCEPT ![c] = guard.token]
        /\ rPc' = [rPc EXCEPT ![c] = "stamp"]
        /\ snapGen' = snapGen
    BY <1>3 DEF CheckDigest, Goto
  <2>2. /\ rPc \in [Conns -> ReaderPcs] /\ authed \in [Conns -> BOOLEAN]
        /\ proved \in [Conns -> Tokens \cup {NoToken}]
        /\ ReaderInv /\ TrustMeansCurrentToken /\ WriterInv /\ RevokedGetsOnePacket
    BY DEF AuthInv, TypeOK
  <2>3. ReaderInv'
    BY <1>1, <2>1, <2>2 DEF ReaderInv, Enabled
  <2>4. TrustMeansCurrentToken'
    BY <1>1, <2>1, <2>2 DEF TrustMeansCurrentToken, AuthorizedUnder, Enabled
  <2>5. \A d \in Conns : AuthorizedUnder(d, guard.gen) => AuthorizedUnder(d, guard.gen)'
    BY <1>1, <2>1, <2>2 DEF AuthorizedUnder
  <2>6. WriterInv'
    BY <1>1, <2>2, <2>5 DEF WriterInv, Revoked, Enabled, writerVars
  <2>7. RevokedGetsOnePacket'
    BY <1>1, <2>2 DEF RevokedGetsOnePacket, writerVars
  <2> QED
    BY <2>3, <2>4, <2>6, <2>7 DEF AuthParts
<1> QED
  BY <1>2, <1>3

\* The stamp is the snapshot's generation: trust is moved forward, never back,
\* and to the current generation only if the token checked is the current one.
LEMMA StoreGenAuth ==
    ASSUME AuthInv, NEW c \in Conns, StoreGen(c)
    PROVE  AuthParts'
<1>1. /\ rPc[c] = "stamp"
      /\ authGen' = [authGen EXCEPT ![c] = snapGen[c]]
      /\ rPc' = [rPc EXCEPT ![c] = "handle"]
      /\ UNCHANGED <<guard, snapGen, authed, proved, writerVars>>
  BY DEF StoreGen, Stamp, Goto
<1>2. /\ rPc \in [Conns -> ReaderPcs] /\ authGen \in [Conns -> Nat]
      /\ snapGen \in [Conns -> Nat] /\ guard.gen \in Nat
      /\ ReaderInv /\ TrustMeansCurrentToken /\ WriterInv /\ RevokedGetsOnePacket
  BY DEF AuthInv, TypeOK
<1>3. ReaderInv'
  BY <1>1, <1>2 DEF ReaderInv, Enabled
<1>4. TrustMeansCurrentToken'
  BY <1>1, <1>2 DEF TrustMeansCurrentToken, ReaderInv, AuthorizedUnder, Enabled
<1>5. ASSUME NEW d \in Conns, AuthorizedUnder(d, guard.gen)
      PROVE  AuthorizedUnder(d, guard.gen)'
  <2>1. d = c => authGen[c] = guard.gen /\ authGen[c] <= snapGen[c] /\ snapGen[c] <= guard.gen
    BY <1>1, <1>2, <1>5 DEF ReaderInv, AuthorizedUnder
  <2>2. authGen'[d] = authGen[d]
    BY <1>1, <1>2, <2>1
  <2> QED
    BY <1>1, <1>5, <2>2 DEF AuthorizedUnder
<1>6. WriterInv'
  BY <1>1, <1>2, <1>5 DEF WriterInv, Revoked, Enabled, writerVars
<1>7. RevokedGetsOnePacket'
  BY <1>1, <1>2 DEF RevokedGetsOnePacket, writerVars
<1> QED
  BY <1>3, <1>4, <1>6, <1>7 DEF AuthParts

\* A writer decides on a snapshot it just took, and a packet decided on an old
\* one is the first since the change.
LEMMA WriterAuth ==
    ASSUME AuthInv, NEW c \in Conns,
           NextFrame(c) \/ TakeSnapshot(c) \/ Decide(c) \/ Write(c)
    PROVE  AuthParts'
<1>1. UNCHANGED <<guard, readerVars, authVars>>
  BY DEF NextFrame, TakeSnapshot, Decide, Write
<1>2. ReaderInv' /\ TrustMeansCurrentToken'
  BY <1>1, QuietReaderKeeps DEF QuietReader, readerVars
<1>3. /\ wPc \in [Conns -> {"none", "next", "snapshot", "decide", "write", "exit"}]
      /\ wSnap \in [Conns -> [enabled : BOOLEAN, gen : Nat]]
      /\ late \in [Conns -> 0 .. 2]
      /\ guard.gen \in Nat
      /\ WriterInv /\ RevokedGetsOnePacket
  BY DEF AuthInv, TypeOK
<1>4. \A d \in Conns : Revoked(d)' <=> Revoked(d)
  BY <1>1 DEF Revoked, Enabled, AuthorizedUnder, authVars
<1>5. CASE NextFrame(c)
  <2>1. /\ \E pc \in {"exit", "snapshot"} : wPc' = [wPc EXCEPT ![c] = pc]
        /\ UNCHANGED <<wSnap, late>>
    BY <1>5 DEF NextFrame, WriterExit
  <2>2. QuietWriter
    BY <1>3, <2>1 DEF QuietWriter
  <2> QED
    BY <1>1, <1>2, <2>2, QuietWriterKeeps DEF AuthParts
<1>6. CASE TakeSnapshot(c)
  <2>1. /\ wPc' = [wPc EXCEPT ![c] = "decide"]
        /\ wSnap' = [wSnap EXCEPT ![c] = [enabled |-> Enabled(guard), gen |-> guard.gen]]
        /\ late' = late
    BY <1>6 DEF TakeSnapshot
  <2>2. WriterInv'
    BY <1>1, <1>3, <1>4, <2>1 DEF WriterInv, Enabled
  <2>3. RevokedGetsOnePacket'
    BY <1>3, <2>1 DEF RevokedGetsOnePacket
  <2> QED
    BY <1>2, <2>2, <2>3 DEF AuthParts
<1>7. CASE Decide(c)
  <2>1. /\ wPc[c] = "decide" /\ UNCHANGED <<wSnap, late>>
        /\ \/ wPc' = [wPc EXCEPT ![c] = "exit"]
           \/ ~ShouldEvict(c) /\ wPc' = [wPc EXCEPT ![c] = "write"]
    BY <1>7 DEF Decide, WriterExit
  <2>2. wSnap[c].gen = guard.gen /\ ~ShouldEvict(c) => ~Revoked(c)
    BY <1>3, <2>1 DEF WriterInv, ShouldEvict, Revoked
  <2>3. WriterInv'
    BY <1>1, <1>3, <1>4, <2>1, <2>2 DEF WriterInv, Enabled
  <2>4. RevokedGetsOnePacket'
    BY <1>3, <2>1 DEF RevokedGetsOnePacket
  <2> QED
    BY <1>2, <2>3, <2>4 DEF AuthParts
<1>8. CASE Write(c)
  <2>1. /\ wPc[c] = "write" /\ UNCHANGED wSnap
        /\ \E pc \in {"next", "exit"} : wPc' = [wPc EXCEPT ![c] = pc]
        /\ \/ late' = late
           \/ late' = [late EXCEPT ![c] = IF Revoked(c) /\ @ < 2 THEN @ + 1 ELSE @]
    BY <1>8 DEF Write, WriterExit
  <2>2. WriterInv'
    <3> SUFFICES ASSUME NEW d \in Conns, wPc'[d] \in {"decide", "write"}
                 PROVE  /\ d # c
      BY <1>1, <1>3, <1>4, <2>1 DEF WriterInv, Enabled
    <3> QED
      BY <1>3, <2>1
  <2>3. Revoked(c) => late[c] = 0
    BY <1>3, <2>1 DEF WriterInv
  <2>4. RevokedGetsOnePacket'
    <3>1. \A d \in Conns : late[d] <= 1
      BY <1>3 DEF RevokedGetsOnePacket
    <3>2. \A d \in Conns : late'[d] <= 1
      BY <1>3, <2>1, <2>3, <3>1
    <3> QED
      BY <3>2 DEF RevokedGetsOnePacket
  <2> QED
    BY <1>2, <2>2, <2>4 DEF AuthParts
<1> QED
  BY <1>5, <1>6, <1>7, <1>8

\* The inductive invariant behind both access-control theorems.
THEOREM AccessInvariant == Spec => []AuthInv
<1>1. Init => AuthInv
  <2> SUFFICES ASSUME Init PROVE AuthInv
    OBVIOUS
  <2>1. TypeOK
    BY InitTypes
  <2>2. guard.gen \in Nat /\ (guard.gen = 0 => ~Enabled(guard))
    BY <2>1, TokenAssumption DEF TypeOK, Init, Enabled
  <2>3. ReaderInv
    BY <2>2 DEF Init, ReaderInv
  <2>4. TrustMeansCurrentToken
    BY DEF Init, TrustMeansCurrentToken, AuthorizedUnder
  <2>5. WriterInv /\ RevokedGetsOnePacket
    BY DEF Init, WriterInv, RevokedGetsOnePacket
  <2> QED
    BY <2>1, <2>3, <2>4, <2>5 DEF AuthInv
<1>2. AuthInv /\ [Next]_vars => AuthInv'
  <2> SUFFICES ASSUME AuthInv, [Next]_vars PROVE AuthInv'
    OBVIOUS
  <2>1. TypeOK'
    BY StepTypes DEF AuthInv
  <2>2. AuthParts'
    <3>1. CASE UNCHANGED vars
      <4>1. UNCHANGED <<guard, authVars>> /\ QuietReader /\ QuietWriter
        BY <3>1 DEF vars, QuietReader, QuietWriter, readerVars, writerVars
      <4> QED
        BY <4>1, QuietReaderKeeps, QuietWriterKeeps DEF AuthParts
    <3>2. CASE Next
      BY <3>2, SetTokenAuth, SystemAuth, HandlerAuth, ReceiveAuth, CheckDigestAuth,
         StoreGenAuth, WriterAuth DEF Next
    <3> QED
      BY <3>1, <3>2
  <2> QED
    BY <2>1, <2>2 DEF AuthInv, AuthParts
<1> QED
  BY <1>1, <1>2, PTL DEF Spec

\* Whatever the interleaving of token changes with the snapshot, the Digest
\* check and the two stores of authorized, a connection counted as authorized
\* has proved the token in force.
THEOREM TrustIsCurrent == Spec => []TrustMeansCurrentToken
<1>1. AuthInv => TrustMeansCurrentToken
  BY DEF AuthInv
<1> QED
  BY <1>1, AccessInvariant, PTL

\* A stream whose authority a token change revoked gets at most one packet.
THEOREM OnePacketPastRevocation == Spec => []RevokedGetsOnePacket
<1>1. AuthInv => RevokedGetsOnePacket
  BY DEF AuthInv
<1> QED
  BY <1>1, AccessInvariant, PTL

-----------------------------------------------------------------------------
(* The life of a connection *)

\* The stages of a connection's playing: it subscribes, answers, and only then
\* has a writer, which starts from the numbers of the last SETUP; no SETUP
\* passes after that.
StreamInv ==
    \A c \in Conns :
        /\ rPc[c] = "respond" => state[c] = "playing" /\ wPc[c] = "none"
        /\ wPc[c] # "none" => state[c] = "playing" /\ announced[c] = setups[c] /\ wStart[c] = setups[c]
        /\ writers[c] = IF wPc[c] = "none" THEN 0 ELSE 1
        /\ writing[c] <=> wPc[c] # "none"

\* Who holds a slot plays on that very track and has not been cleaned up.
SlotInv ==
    \A t \in Tracks :
        /\ IsFiniteSet(subs[t]) /\ Cardinality(subs[t]) <= MaxClients
        /\ \A c \in subs[t] : /\ state[c] = "playing" /\ track[c] = t
                              /\ rPc[c] \notin {"close", "join", "gone"}

\* What the listener has been told of a connection that plays, or has played.
ReportInv ==
    \A c \in Conns :
        /\ rPc[c] = "gone" => wPc[c] \in {"none", "exit"}
        /\ events[c] = IF wPc[c] = "none" THEN <<>>
                       ELSE IF rPc[c] = "gone" THEN <<"connected", Reason(c)>> ELSE <<"connected">>

LifeInv == TypeOK /\ StreamInv /\ SlotInv /\ ReportInv


\* What a step of a connection does to the program counters and flags the invariants read.
LEMMA StreamStep ==
    ASSUME LifeInv, NEW c \in Conns, HandlerStep(c) \/ WriterStep(c) \/ Accept(c) \/ ReadEnds(c)
             \/ \E m \in Methods, t \in Tokens \cup {NoToken} : Receive(c, m, t)
    PROVE  StreamInv'
<1>1. /\ StreamInv
      /\ rPc \in [Conns -> ReaderPcs] /\ state \in [Conns -> {"init", "ready", "playing"}]
      /\ wPc \in [Conns -> {"none", "next", "snapshot", "decide", "write", "exit"}]
      /\ setups \in [Conns -> Nat] /\ announced \in [Conns -> Nat] /\ wStart \in [Conns -> Nat]
      /\ writers \in [Conns -> Nat] /\ writing \in [Conns -> BOOLEAN]
  BY DEF LifeInv, TypeOK
<1>2. CASE \/ Accept(c) \/ ReadEnds(c) \/ CheckDigest(c) \/ StoreGen(c) \/ Describe(c) \/ Teardown(c)
           \/ Unsubscribe(c) \/ CloseConn(c) \/ Join(c)
           \/ \E m \in Methods, t \in Tokens \cup {NoToken} : Receive(c, m, t)
  <2>1. /\ \E pc \in ReaderPcs \ {"respond"} : rPc' = [rPc EXCEPT ![c] = pc]
        /\ UNCHANGED <<state, wPc, announced, setups, wStart, writers, writing>>
    BY <1>2 DEF Accept, ReadEnds, CheckDigest, StoreGen, Describe, Teardown, Unsubscribe, CloseConn, Join,
             Receive, Return, Goto, Unauthorized, ReaderPcs, writerVars
  <2> QED
    BY <1>1, <2>1 DEF StreamInv
<1>3. CASE Setup(c)
  <2>1. /\ rPc[c] = "handle" /\ rPc' = [rPc EXCEPT ![c] = "read"]
        /\ UNCHANGED <<wPc, announced, wStart, writers, writing>>
        /\ \/ UNCHANGED <<setups, state>>
           \/ /\ state[c] # "playing"
              /\ setups' = [setups EXCEPT ![c] = @ + 1]
              /\ state' = [state EXCEPT ![c] = "ready"]
    BY <1>3 DEF Setup, SetupAllowed, Return, Goto, writerVars
  <2> QED
    BY <1>1, <2>1 DEF StreamInv
<1>4. CASE Play(c)
  <2>1. /\ rPc[c] = "handle"
        /\ UNCHANGED <<wPc, setups, wStart, writers, writing>>
        /\ \/ /\ state[c] = "ready" /\ state' = [state EXCEPT ![c] = "playing"]
              /\ rPc' = [rPc EXCEPT ![c] = "respond"]
              /\ UNCHANGED announced
           \/ /\ announced' = announced \/ announced' = [announced EXCEPT ![c] = setups[c]]
              /\ rPc' = [rPc EXCEPT ![c] = "read"]
              /\ UNCHANGED state
    BY <1>4 DEF Play, Return, Goto, writerVars
  <2> QED
    BY <1>1, <2>1 DEF StreamInv
<1>5. CASE StartWriter(c)
  <2>1. /\ rPc[c] = "respond" /\ rPc' = [rPc EXCEPT ![c] = "read"]
        /\ announced' = [announced EXCEPT ![c] = setups[c]]
        /\ writing' = [writing EXCEPT ![c] = TRUE]
        /\ wPc' = [wPc EXCEPT ![c] = "next"]
        /\ wStart' = [wStart EXCEPT ![c] = setups[c]]
        /\ writers' = [writers EXCEPT ![c] = @ + 1]
        /\ UNCHANGED <<state, setups>>
    BY <1>5 DEF StartWriter, Return, Goto
  <2> QED
    BY <1>1, <2>1 DEF StreamInv
<1>6. CASE WriterStep(c)
  <2>1. /\ wPc[c] # "none" /\ \E pc \in {"next", "snapshot", "decide", "write", "exit"} : wPc' = [wPc EXCEPT ![c] = pc]
        /\ UNCHANGED <<rPc, state, announced, setups, wStart, writers, writing>>
    BY <1>6 DEF WriterStep, NextFrame, TakeSnapshot, Decide, Write, WriterExit, readerVars
  <2> QED
    BY <1>1, <2>1 DEF StreamInv
<1> QED
  BY <1>2, <1>3, <1>4, <1>5, <1>6 DEF HandlerStep

\* Nor does a step of the guard, the run loop or the pipeline touch any of it.
LEMMA SystemLife ==
    ASSUME LifeInv,
           \/ \E t \in Tokens \cup {NoToken} : SetToken(t)
           \/ RemoveTrack \/ CloseFeed \/ AddTrack
           \/ \E t \in Tracks : Push(t)
           \/ Shutdown
    PROVE  StreamInv' /\ SlotInv' /\ ReportInv'
<1>1. UNCHANGED <<subs, readerVars, wPc, wStart, evicted, writers, events>>
  BY DEF SetToken, RemoveTrack, CloseFeed, AddTrack, Push, Shutdown, writerVars
<1> QED
  BY <1>1 DEF LifeInv, StreamInv, SlotInv, ReportInv, Reason, readerVars

\* A slot is taken by the PLAY that starts a connection's playing, within the
\* cap, and given back by the cleanup before it goes on.
LEMMA SlotStep ==
    ASSUME LifeInv, NEW c \in Conns, HandlerStep(c) \/ WriterStep(c) \/ Accept(c) \/ ReadEnds(c)
             \/ \E m \in Methods, t \in Tokens \cup {NoToken} : Receive(c, m, t)
    PROVE  SlotInv'
<1>1. /\ SlotInv
      /\ rPc \in [Conns -> ReaderPcs] /\ state \in [Conns -> {"init", "ready", "playing"}]
      /\ track \in [Conns -> 0 .. MaxTracks] /\ subs \in [Tracks -> SUBSET Conns]
  BY DEF LifeInv, TypeOK
<1>2. CASE \/ Accept(c) \/ ReadEnds(c) \/ CheckDigest(c) \/ StoreGen(c) \/ Describe(c) \/ Teardown(c)
           \/ StartWriter(c) \/ WriterStep(c)
           \/ \E m \in Methods, t \in Tokens \cup {NoToken} : Receive(c, m, t)
  <2>1. /\ \E pc \in {"read", "check", "stamp", "handle", "unsubscribe", rPc[c]} : rPc' = [rPc EXCEPT ![c] = pc]
        /\ UNCHANGED <<state, track, subs>>
    BY <1>1, <1>2 DEF Accept, ReadEnds, CheckDigest, StoreGen, Describe, Teardown, StartWriter, Receive, Return,
             Goto, Unauthorized, WriterStep, NextFrame, TakeSnapshot, Decide, Write, readerVars
  <2> QED
    BY <1>1, <2>1 DEF SlotInv
<1>3. CASE Setup(c)
  <2>1. /\ rPc' = [rPc EXCEPT ![c] = "read"] /\ UNCHANGED subs
        /\ \/ UNCHANGED <<track, state>>
           \/ /\ state[c] # "playing"
              /\ track' = [track EXCEPT ![c] = registered]
              /\ state' = [state EXCEPT ![c] = "ready"]
    BY <1>3 DEF Setup, SetupAllowed, Return, Goto
  <2>2. ASSUME NEW t \in Tracks, NEW d \in subs[t], d = c PROVE UNCHANGED <<track, state>>
    BY <1>1, <2>1, <2>2 DEF SlotInv
  <2> QED
    BY <1>1, <2>1, <2>2 DEF SlotInv
<1>4. CASE Play(c)
  <2>1. CASE state[c] = "ready" /\ CanSubscribe(track[c]) /\ rPc' = [rPc EXCEPT ![c] = "respond"]
    <3>1. /\ UNCHANGED track
          /\ state' = [state EXCEPT ![c] = "playing"]
          /\ subs' = [subs EXCEPT ![track[c]] = @ \cup {c}]
      BY <1>1, <1>4, <2>1 DEF Play, Return, Goto
    <3> SUFFICES ASSUME NEW t \in Tracks
                 PROVE  /\ IsFiniteSet(subs'[t]) /\ Cardinality(subs'[t]) <= MaxClients
                        /\ \A d \in subs'[t] : /\ state'[d] = "playing" /\ track'[d] = t
                                               /\ rPc'[d] \notin {"close", "join", "gone"}
      BY DEF SlotInv
    <3>2. IsFiniteSet(subs[t]) /\ Cardinality(subs[t]) <= MaxClients
      BY <1>1 DEF SlotInv
    <3>3. CASE t = track[c]
      <4>1. subs'[t] = subs[t] \cup {c} /\ Cardinality(subs[t]) < MaxClients
        BY <1>1, <2>1, <3>1, <3>3 DEF CanSubscribe
      <4>2. IsFiniteSet(subs'[t]) /\ Cardinality(subs'[t]) \in {Cardinality(subs[t]), Cardinality(subs[t]) + 1}
        BY <3>2, <4>1, FS_AddElement
      <4>3. Cardinality(subs'[t]) <= MaxClients
        BY <3>2, <4>1, <4>2, FS_CardinalityType, SizesAssumption
      <4> QED
        BY <1>1, <2>1, <3>1, <3>3, <4>1, <4>2, <4>3 DEF SlotInv
    <3>4. CASE t # track[c]
      <4>1. subs'[t] = subs[t]
        BY <1>1, <3>1, <3>4
      <4> QED
        BY <1>1, <2>1, <3>1, <3>2, <4>1 DEF SlotInv
    <3> QED
      BY <3>3, <3>4
  <2>2. CASE ~(state[c] = "ready" /\ CanSubscribe(track[c]) /\ rPc' = [rPc EXCEPT ![c] = "respond"])
    <3>1. rPc' = [rPc EXCEPT ![c] = "read"] /\ UNCHANGED <<state, track, subs>>
      BY <1>4, <2>2 DEF Play, Return, Goto
    <3> QED
      BY <1>1, <3>1 DEF SlotInv
  <2> QED
    BY <2>1, <2>2
<1>5. CASE Unsubscribe(c)
  <2>1. /\ rPc' = [rPc EXCEPT ![c] = "close"] /\ UNCHANGED <<state, track>>
        /\ subs' = [t \in Tracks |-> subs[t] \ {c}]
    BY <1>5 DEF Unsubscribe, Goto
  <2>2. \A t \in Tracks : IsFiniteSet(subs'[t]) /\ Cardinality(subs'[t]) <= Cardinality(subs[t])
    BY <1>1, <2>1, FS_Subset DEF SlotInv
  <2>3. \A t \in Tracks : Cardinality(subs[t]) \in Nat /\ Cardinality(subs'[t]) \in Nat
    BY <1>1, <2>2, FS_CardinalityType DEF SlotInv
  <2>4. \A t \in Tracks : Cardinality(subs'[t]) <= MaxClients
    BY <1>1, <2>2, <2>3, SizesAssumption DEF SlotInv
  <2> QED
    BY <1>1, <2>1, <2>2, <2>4 DEF SlotInv
<1>6. CASE CloseConn(c) \/ Join(c)
  <2>1. /\ rPc[c] \in {"close", "join"} /\ \E pc \in {"join", "gone"} : rPc' = [rPc EXCEPT ![c] = pc]
        /\ UNCHANGED <<state, track, subs>>
    BY <1>6 DEF CloseConn, Join, Goto
  <2> QED
    BY <1>1, <2>1 DEF SlotInv
<1> QED
  BY <1>2, <1>3, <1>4, <1>5, <1>6 DEF HandlerStep

\* What appending makes of a sequence.
LEMMA AppendFacts ==
    ASSUME NEW S, NEW u \in Seq(S), NEW y \in S
    PROVE  /\ Append(u, y) \in Seq(S) /\ Len(Append(u, y)) = Len(u) + 1
           /\ \A i \in 1 .. Len(u) : Append(u, y)[i] = u[i]
           /\ Append(u, y)[Len(u) + 1] = y
<1>1. Append(u, y) \in Seq(S) /\ Len(Append(u, y)) = Len(u) + 1
  OBVIOUS
<1>2. \A i \in 1 .. Len(u) : Append(u, y)[i] = u[i]
  OBVIOUS
<1>3. Append(u, y)[Len(u) + 1] = y
  OBVIOUS
<1> QED
  BY <1>1, <1>2, <1>3

\* Appending to a sequence of one, given what comes out.
LEMMA AppendOf ==
    ASSUME NEW S, NEW u \in Seq(S), NEW y \in S, NEW v \in Seq(S),
           Len(u) = 1, Len(v) = 2, v[1] = u[1], v[2] = y
    PROVE  Append(u, y) = v
<1> DEFINE w == Append(u, y)
<1>4. w \in Seq(S) /\ Len(w) = Len(u) + 1 /\ w[Len(u) + 1] = y
  BY ZenonT(60), AppendFacts
<1>5. \A i \in 1 .. Len(u) : w[i] = u[i]
  BY AppendFacts
<1> HIDE DEF w
<1>6. Len(w) = 2 /\ w[2] = v[2] /\ w[1] = v[1]
  BY <1>4, <1>5
<1>7. \A i \in 1 .. 2 : w[i] = v[i]
  <2>1. \A i \in 1 .. 2 : i = 1 \/ i = 2
    OBVIOUS
  <2> QED
    BY <2>1, <1>6
<1>8. w = v
  BY <1>4, <1>6, <1>7, SeqEqual
<1> QED
  BY <1>8 DEF w

\* Appending to a sequence of one.
LEMMA AppendToOne == ASSUME NEW x, NEW y PROVE Append(<<x>>, y) = <<x, y>>
<1>1. /\ <<x>> \in Seq({x, y}) /\ Len(<<x>>) = 1 /\ <<x>>[1] = x
      /\ <<x, y>> \in Seq({x, y}) /\ Len(<<x, y>>) = 2 /\ <<x, y>>[1] = x /\ <<x, y>>[2] = y
  OBVIOUS
<1> QED
  BY <1>1, AppendOf

\* The writer is joined before the connection's end is reported.
LEMMA ReportStep ==
    ASSUME LifeInv, NEW c \in Conns, HandlerStep(c) \/ WriterStep(c) \/ Accept(c) \/ ReadEnds(c)
             \/ \E m \in Methods, t \in Tokens \cup {NoToken} : Receive(c, m, t)
    PROVE  ReportInv'
<1>1. /\ StreamInv /\ ReportInv
      /\ rPc \in [Conns -> ReaderPcs] /\ evicted \in [Conns -> BOOLEAN] /\ teardown \in [Conns -> BOOLEAN]
      /\ wPc \in [Conns -> {"none", "next", "snapshot", "decide", "write", "exit"}]
      /\ events \in [Conns -> Seq({"connected"} \cup Reasons)]
  BY DEF LifeInv, TypeOK
<1>2. CASE \/ Accept(c) \/ ReadEnds(c) \/ CheckDigest(c) \/ StoreGen(c) \/ Describe(c) \/ Setup(c) \/ Play(c)
           \/ Teardown(c) \/ Unsubscribe(c)
           \/ \E m \in Methods, t \in Tokens \cup {NoToken} : Receive(c, m, t)
  <2>1. /\ rPc[c] # "gone" /\ \E pc \in ReaderPcs \ {"gone"} : rPc' = [rPc EXCEPT ![c] = pc]
        /\ teardown' = teardown \/ teardown' = [teardown EXCEPT ![c] = TRUE]
        /\ UNCHANGED <<wPc, events, evicted>>
    BY <1>2 DEF Accept, ReadEnds, CheckDigest, StoreGen, Describe, Setup, Play, Teardown, Unsubscribe, Receive,
             Return, Goto, Unauthorized, ReaderPcs, writerVars
  <2> QED
    BY <1>1, <2>1 DEF ReportInv, Reason
<1>3. CASE StartWriter(c)
  <2>1. /\ rPc[c] = "respond" /\ rPc' = [rPc EXCEPT ![c] = "read"]
        /\ wPc' = [wPc EXCEPT ![c] = "next"]
        /\ events' = [events EXCEPT ![c] = Append(events[c], "connected")]
        /\ UNCHANGED <<evicted, teardown>>
    BY <1>3 DEF StartWriter, Return, Goto
  <2>2. events[c] = <<>>
    BY <1>1, <2>1 DEF StreamInv, ReportInv
  <2>3. Append(events[c], "connected") = <<"connected">>
    BY <2>2
  <2> QED
    BY <1>1, <2>1, <2>3 DEF ReportInv, Reason
<1>4. CASE CloseConn(c)
  <2>1. /\ rPc[c] = "close" /\ rPc' = [rPc EXCEPT ![c] = IF writing[c] THEN "join" ELSE "gone"]
        /\ UNCHANGED <<wPc, events, evicted, teardown>>
    BY <1>4 DEF CloseConn, Goto
  <2>2. ~writing[c] => wPc[c] = "none"
    BY <1>1 DEF StreamInv
  <2> QED
    BY <1>1, <2>1, <2>2 DEF ReportInv, Reason
<1>5. CASE Join(c)
  <2>1. /\ rPc[c] = "join" /\ wPc[c] = "exit" /\ rPc' = [rPc EXCEPT ![c] = "gone"]
        /\ events' = [events EXCEPT ![c] = Append(events[c], Reason(c))]
        /\ UNCHANGED <<wPc, evicted, teardown>>
    BY <1>5 DEF Join, WriterDone, Goto, writerVars
  <2>2. events[c] = <<"connected">>
    BY <1>1, <2>1 DEF ReportInv
  <2>3. Append(events[c], Reason(c)) = <<"connected", Reason(c)>>
    BY <2>2, AppendToOne
  <2> QED
    BY <1>1, <2>1, <2>3 DEF ReportInv, Reason
<1>6. CASE WriterStep(c)
  <2>1. /\ wPc[c] \notin {"none", "exit"}
        /\ \E pc \in {"next", "snapshot", "decide", "write", "exit"} : wPc' = [wPc EXCEPT ![c] = pc]
        /\ evicted' = evicted \/ evicted' = [evicted EXCEPT ![c] = TRUE]
        /\ UNCHANGED <<rPc, events, teardown>>
    BY <1>6 DEF WriterStep, NextFrame, TakeSnapshot, Decide, Write, WriterExit, readerVars
  <2>2. rPc[c] # "gone"
    BY <1>1, <2>1 DEF ReportInv
  <2> QED
    BY <1>1, <2>1, <2>2 DEF ReportInv, Reason
<1> QED
  BY <1>2, <1>3, <1>4, <1>5, <1>6 DEF HandlerStep

\* The inductive invariant of a connection's life, from its accept to its last
\* report.
THEOREM LifeInvariant == Spec => []LifeInv
<1>1. Init => LifeInv
  <2> SUFFICES ASSUME Init PROVE LifeInv
    OBVIOUS
  <2>1. TypeOK
    BY InitTypes
  <2>2. StreamInv
    BY DEF Init, StreamInv
  <2>3. SlotInv
    BY FS_EmptySet, SizesAssumption DEF Init, SlotInv
  <2>4. ReportInv
    BY DEF Init, ReportInv
  <2> QED
    BY <2>1, <2>2, <2>3, <2>4 DEF LifeInv
<1>2. LifeInv /\ [Next]_vars => LifeInv'
  <2> SUFFICES ASSUME LifeInv, [Next]_vars PROVE LifeInv'
    OBVIOUS
  <2>1. TypeOK'
    BY StepTypes DEF LifeInv
  <2>2. StreamInv' /\ SlotInv' /\ ReportInv'
    <3>1. CASE UNCHANGED vars
      <4>1. UNCHANGED <<subs, readerVars, wPc, wStart, evicted, writers, events>>
        BY <3>1 DEF vars, writerVars
      <4> QED
        BY <4>1 DEF LifeInv, StreamInv, SlotInv, ReportInv, Reason, readerVars
    <3>2. CASE Next
      BY <3>2, SystemLife, StreamStep, SlotStep, ReportStep DEF Next, HandlerStep, WriterStep
    <3> QED
      BY <3>1, <3>2
  <2> QED
    BY <2>1, <2>2 DEF LifeInv
<1> QED
  BY <1>1, <1>2, PTL DEF Spec

\* A connection has one writer at most, and the stream it sends starts from
\* the numbers its client was last told in RTP-Info, whatever it requests
\* while it plays (session.go respondSetup, respondPlay).
THEOREM StreamIsAnnounced == Spec => []OneStreamAsAnnounced
<1>1. LifeInv => OneStreamAsAnnounced
  BY DEF LifeInv, StreamInv, OneStreamAsAnnounced
<1> QED
  BY <1>1, LifeInvariant, PTL

\* No feed has more subscribers than its cap, no slot outlives its connection,
\* and the listener hears of both ends of a connection's playing or of neither
\* (feed.go Subscribe, serveConn's cleanup, DisconnectReason).
THEOREM ConnectionsAccounted == Spec => []GoneIsAccountedFor
<1>1. LifeInv => GoneIsAccountedFor
  BY DEF LifeInv, StreamInv, SlotInv, ReportInv, GoneIsAccountedFor
<1> QED
  BY <1>1, LifeInvariant, PTL

=============================================================================
