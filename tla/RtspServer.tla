----------------------------- MODULE RtspServer -----------------------------
(***************************************************************************)
(* The RTSP server of one stream path: its connections (serveConn, handle, *)
(* authorized and the handlers of internal/rtspserver/session.go), their   *)
(* writers (writer.go), the shared-token guard (internal/auth/guard.go)    *)
(* and the track registered at the path (server.go).                       *)
(*                                                                         *)
(* Goroutines: one reader and, once it plays, one writer per connection;   *)
(* the run loop, which retires a track and registers its successor; the    *)
(* configuration API, which changes the token at any moment.  The reader   *)
(* and the writer share two atomics (authed, authGen), the connection's    *)
(* close and the eviction mark.                                            *)
(*                                                                         *)
(* What a request carries is abstracted to its method and the token its    *)
(* Digest answer was computed with; methods whose answer changes nothing   *)
(* (OPTIONS needs no token and changes nothing at all) are "DESCRIBE".     *)
(* The audio itself is PlaySession's subject: a frame here is a unit.      *)
(***************************************************************************)
EXTENDS Naturals, Sequences, FiniteSets

CONSTANTS
    Conns,       \* connections; each is accepted once
    Tokens,      \* the tokens an operator may set
    NoToken,     \* the empty token: open access
    MaxClients,  \* maxClients: subscribers of one feed
    QueueDepth,  \* subQueueDepth
    MaxGen,      \* bound: token changes
    MaxTracks,   \* bound: tracks registered at the path over time
    MaxSetups    \* bound: successful SETUPs of one connection

ASSUME TokenAssumption == NoToken \notin Tokens

ASSUME SizesAssumption ==
    /\ MaxClients \in Nat \ {0} /\ QueueDepth \in Nat \ {0}
    /\ MaxGen \in Nat /\ MaxTracks \in Nat \ {0} /\ MaxSetups \in Nat

VARIABLES
    guard,       \* Guard.state: [token, gen]
    registered,  \* Server.tracks at the path: a track, 0 when none
    retiring,    \* track unregistered whose feed the run loop closes next, 0
    feeds,       \* tracks whose feed is open
    added,       \* tracks registered so far; track n is the n-th
    subs,        \* subscribers of each track's feed
    stopping,    \* the server's context is cancelled
    \* reader goroutine
    rPc, request, snapGen, state, track, nonce, setups, announced, writing, teardown,
    \* shared by reader and writer
    authed, authGen, evicted, closed,
    \* writer goroutine
    wPc, wSnap, wStart, queue,
    \* history, never read by a guard
    proved,      \* token the connection last proved to know
    late,        \* packets sent since the last token change without authority,
                 \* counted up to 2
    writers,     \* writers started
    events       \* what the Listener was told of the connection

feedVars   == <<registered, retiring, feeds, added>>
readerVars == <<rPc, request, snapGen, state, track, nonce, setups, announced,
                writing, teardown>>
authVars   == <<authed, authGen, proved>>
writerVars == <<wPc, wSnap, wStart, evicted, closed, late, writers>>

vars == <<guard, feedVars, subs, stopping, readerVars, authVars, writerVars,
          queue, events>>

Tracks == 1 .. MaxTracks

-----------------------------------------------------------------------------
Init ==
    /\ \E t \in Tokens \cup {NoToken} :
         guard = [token |-> t, gen |-> IF t = NoToken THEN 0 ELSE 1]
    /\ registered = 1
    /\ retiring = 0
    /\ feeds = {1}
    /\ added = 1
    /\ subs = [t \in Tracks |-> {}]
    /\ stopping = FALSE
    /\ rPc = [c \in Conns |-> "new"]
    /\ request = [c \in Conns |-> [method |-> "none", token |-> NoToken]]
    /\ snapGen = [c \in Conns |-> 0]
    /\ state = [c \in Conns |-> "init"]
    /\ track = [c \in Conns |-> 0]
    /\ nonce = [c \in Conns |-> FALSE]
    /\ setups = [c \in Conns |-> 0]
    /\ announced = [c \in Conns |-> 0]
    /\ writing = [c \in Conns |-> FALSE]
    /\ teardown = [c \in Conns |-> FALSE]
    /\ authed = [c \in Conns |-> FALSE]
    /\ authGen = [c \in Conns |-> 0]
    /\ evicted = [c \in Conns |-> FALSE]
    /\ closed = [c \in Conns |-> FALSE]
    /\ wPc = [c \in Conns |-> "none"]
    /\ wSnap = [c \in Conns |-> [enabled |-> FALSE, gen |-> 0]]
    /\ wStart = [c \in Conns |-> 0]
    /\ queue = [c \in Conns |-> 0]
    /\ proved = [c \in Conns |-> NoToken]
    /\ late = [c \in Conns |-> 0]
    /\ writers = [c \in Conns |-> 0]
    /\ events = [c \in Conns |-> <<>>]

-----------------------------------------------------------------------------
(* Guard and run loop *)

Enabled(g) == g.token # NoToken

\* Guard.Set with a token that differs from the current one: token and
\* generation move as one pair.  Setting the current token changes nothing.
SetToken(t) ==
    /\ t # guard.token
    /\ guard.gen < MaxGen
    /\ guard' = [token |-> t, gen |-> guard.gen + 1]
    /\ late' = [c \in Conns |-> 0]
    /\ UNCHANGED <<feedVars, subs, stopping, readerVars, authVars, wPc, wSnap,
                   wStart, evicted, closed, writers, queue, events>>

\* The run loop stops or loses a device: RemoveTrack, then Feed.Close.
RemoveTrack ==
    /\ registered # 0
    /\ retiring' = registered
    /\ registered' = 0
    /\ UNCHANGED <<guard, feeds, added, subs, stopping, readerVars, authVars,
                   writerVars, queue, events>>

CloseFeed ==
    /\ retiring # 0
    /\ feeds' = feeds \ {retiring}
    /\ retiring' = 0
    /\ UNCHANGED <<guard, registered, added, subs, stopping, readerVars, authVars,
                   writerVars, queue, events>>

\* The device was reopened: AddTrack with a new feed at the same path.
AddTrack ==
    /\ registered = 0 /\ retiring = 0
    /\ added < MaxTracks
    /\ added' = added + 1
    /\ registered' = added + 1
    /\ feeds' = feeds \cup {added + 1}
    /\ UNCHANGED <<guard, retiring, subs, stopping, readerVars, authVars,
                   writerVars, queue, events>>

\* The pipeline pushes a frame: every subscriber with room gets it.
Push(t) ==
    /\ \E c \in subs[t] : queue[c] < QueueDepth
    /\ queue' = [c \in Conns |-> IF c \in subs[t] /\ queue[c] < QueueDepth
                                   THEN queue[c] + 1 ELSE queue[c]]
    /\ UNCHANGED <<guard, feedVars, subs, stopping, readerVars, authVars,
                   writerVars, events>>

Shutdown ==
    /\ ~stopping
    /\ stopping' = TRUE
    /\ UNCHANGED <<guard, feedVars, subs, readerVars, authVars, writerVars,
                   queue, events>>

-----------------------------------------------------------------------------
(* Reader: serveConn and handle *)

Methods == {"DESCRIBE", "SETUP", "PLAY", "TEARDOWN"}

NoRequest == [method |-> "none", token |-> NoToken]

Goto(c, pc) == rPc' = [rPc EXCEPT ![c] = pc]

\* The handler returns: its request and its snapshot are gone.
Return(c, pc) ==
    /\ Goto(c, pc)
    /\ request' = [request EXCEPT ![c] = NoRequest]
    /\ snapGen' = [snapGen EXCEPT ![c] = 0]

Accept(c) ==
    /\ rPc[c] = "new"
    /\ ~stopping
    /\ Goto(c, "read")
    /\ UNCHANGED <<guard, feedVars, subs, stopping, request, snapGen, state, track,
                   nonce, setups, announced, writing, teardown, authVars,
                   writerVars, queue, events>>

\* The socket fails, the peer leaves, the idle timeout passes, the context is
\* cancelled or a request is malformed: serveConn returns.
ReadEnds(c) ==
    /\ rPc[c] = "read"
    /\ Goto(c, "unsubscribe")
    /\ UNCHANGED <<guard, feedVars, subs, stopping, request, snapGen, state, track,
                   nonce, setups, announced, writing, teardown, authVars,
                   writerVars, queue, events>>

\* authorizedUnder: trusted exactly under the generation it authenticated for.
AuthorizedUnder(c, gen) == authed[c] /\ authGen[c] = gen

\* respondUnauthorized: the nonce is minted with the first challenge; beyond
\* negotiation the connection is then torn down.
Unauthorized(c) ==
    /\ nonce' = [nonce EXCEPT ![c] = TRUE]
    /\ Return(c, IF state[c] = "init" THEN "read" ELSE "unsubscribe")

\* A request arrives and authorized takes its one snapshot of the guard.  A
\* connection already trusted, and any connection under open access, proceeds;
\* the others need an answer to their nonce.
Receive(c, m, t) ==
    /\ rPc[c] = "read"
    /\ \/ /\ Enabled(guard) /\ ~AuthorizedUnder(c, guard.gen) /\ ~nonce[c]
          /\ Unauthorized(c)
       \/ /\ ~Enabled(guard) \/ AuthorizedUnder(c, guard.gen) \/ nonce[c]
          /\ request' = [request EXCEPT ![c] = [method |-> m, token |-> t]]
          /\ snapGen' = [snapGen EXCEPT ![c] = guard.gen]
          /\ Goto(c, IF ~Enabled(guard) \/ AuthorizedUnder(c, guard.gen)
                        THEN "handle" ELSE "check")
          /\ UNCHANGED nonce
    /\ UNCHANGED <<guard, feedVars, subs, stopping, state, track, setups, announced,
                   writing, teardown, authVars, writerVars, queue, events>>

\* CheckDigest, against the token the guard holds by now; on success authed is
\* stored first.
CheckDigest(c) ==
    /\ rPc[c] = "check"
    /\ IF Enabled(guard) /\ request[c].token = guard.token
         THEN /\ authed' = [authed EXCEPT ![c] = TRUE]
              /\ proved' = [proved EXCEPT ![c] = guard.token]
              /\ Goto(c, "stamp")
              /\ UNCHANGED <<nonce, request, snapGen>>
         ELSE Unauthorized(c) /\ UNCHANGED <<authed, proved>>
    /\ UNCHANGED <<guard, feedVars, subs, stopping, state, track,
                   setups, announced, writing, teardown, authGen, writerVars,
                   queue, events>>

\* The generation a valid answer is recorded under: the snapshot's, read
\* before the check.
StampReadLate(c) == guard.gen
Stamp(c) == snapGen[c]

StoreGen(c) ==
    /\ rPc[c] = "stamp"
    /\ authGen' = [authGen EXCEPT ![c] = Stamp(c)]
    /\ Goto(c, "handle")
    /\ UNCHANGED <<guard, feedVars, subs, stopping, request, snapGen, state, track,
                   nonce, setups, announced, writing, teardown, authed, proved,
                   writerVars, queue, events>>

\* DESCRIBE, GET_PARAMETER and unknown methods answer and change nothing.
Describe(c) ==
    /\ rPc[c] = "handle" /\ request[c].method = "DESCRIBE"
    /\ Return(c, "read")
    /\ UNCHANGED <<guard, feedVars, subs, stopping, state, track,
                   nonce, setups, announced, writing, teardown, authVars,
                   writerVars, queue, events>>

\* respondSetup: 404 without a track at the path, 455 when the connection is
\* bound to another track or plays.
SetupWhilePlaying(c) == registered # 0 /\ track[c] \in {0, registered}
SetupAllowed(c) == /\ registered # 0
                   /\ track[c] \in {0, registered}
                   /\ state[c] # "playing"

\* A SETUP that passes (it may still name a transport other than TCP, 461)
\* binds the track and draws a new session id, sequence start and timestamp
\* start: setups numbers these draws.
Setup(c) ==
    /\ rPc[c] = "handle" /\ request[c].method = "SETUP"
    /\ \/ /\ SetupAllowed(c)
          /\ setups[c] < MaxSetups
          /\ track' = [track EXCEPT ![c] = registered]
          /\ setups' = [setups EXCEPT ![c] = @ + 1]
          /\ state' = [state EXCEPT ![c] = "ready"]
       \/ UNCHANGED <<track, setups, state>>
    /\ Return(c, "read")
    /\ UNCHANGED <<guard, feedVars, subs, stopping, nonce,
                   announced, writing, teardown, authVars, writerVars, queue, events>>

\* Feed.Subscribe succeeds: the feed is open and below its cap.
CanSubscribe(t) == t \in feeds /\ Cardinality(subs[t]) < MaxClients

\* respondPlay up to the response: only the step from Ready to Playing
\* subscribes; a refusal (453, 404) leaves the connection Ready, and a wrong
\* session id (454) changes nothing.
Play(c) ==
    /\ rPc[c] = "handle" /\ request[c].method = "PLAY"
    /\ \/ /\ state[c] = "ready" /\ CanSubscribe(track[c])
          /\ subs' = [subs EXCEPT ![track[c]] = @ \cup {c}]
          /\ state' = [state EXCEPT ![c] = "playing"]
          /\ Goto(c, "respond")
          /\ UNCHANGED <<announced, request, snapGen>>
       \/ /\ state[c] = "playing"
          /\ announced' = [announced EXCEPT ![c] = setups[c]]
          /\ Return(c, "read")
          /\ UNCHANGED <<subs, state>>
       \/ /\ Return(c, "read")
          /\ UNCHANGED <<subs, state, announced>>
    /\ UNCHANGED <<guard, feedVars, stopping, track, nonce, setups,
                   writing, teardown, authVars, writerVars, queue, events>>

\* The rest of respondPlay: the response with RTP-Info, the listener, and only
\* then the writer, which starts from the SETUP's numbers.
StartWriter(c) ==
    /\ rPc[c] = "respond"
    /\ announced' = [announced EXCEPT ![c] = setups[c]]
    /\ events' = [events EXCEPT ![c] = Append(@, "connected")]
    /\ writing' = [writing EXCEPT ![c] = TRUE]
    /\ wPc' = [wPc EXCEPT ![c] = "next"]
    /\ wStart' = [wStart EXCEPT ![c] = setups[c]]
    /\ writers' = [writers EXCEPT ![c] = @ + 1]
    /\ Return(c, "read")
    /\ UNCHANGED <<guard, feedVars, subs, stopping, state, track,
                   nonce, setups, teardown, authVars, wSnap, evicted, closed, late,
                   queue>>

Teardown(c) ==
    /\ rPc[c] = "handle" /\ request[c].method = "TEARDOWN"
    /\ teardown' = [teardown EXCEPT ![c] = TRUE]
    /\ Return(c, "unsubscribe")
    /\ UNCHANGED <<guard, feedVars, subs, stopping, state, track,
                   nonce, setups, announced, writing, authVars, writerVars, queue,
                   events>>

\* serveConn's deferred cleanup: Sub.Close, then the connection, then the join
\* with the writer, then the listener.
Unsubscribe(c) ==
    /\ rPc[c] = "unsubscribe"
    /\ subs' = [t \in Tracks |-> subs[t] \ {c}]
    /\ Goto(c, "close")
    /\ UNCHANGED <<guard, feedVars, stopping, request, snapGen, state, track, nonce,
                   setups, announced, writing, teardown, authVars, writerVars,
                   queue, events>>

CloseConn(c) ==
    /\ rPc[c] = "close"
    /\ closed' = [closed EXCEPT ![c] = TRUE]
    /\ Goto(c, IF writing[c] THEN "join" ELSE "gone")
    /\ UNCHANGED <<guard, feedVars, subs, stopping, request, snapGen, state, track,
                   nonce, setups, announced, writing, teardown, authVars, wPc, wSnap,
                   wStart, evicted, late, writers, queue, events>>

\* DisconnectReason: an eviction wins over a TEARDOWN, which wins over a drop.
Reason(c) == IF evicted[c] THEN "evicted"
             ELSE IF teardown[c] THEN "teardown" ELSE "readError"

\* The cleanup may report and go once the writer has returned.
JoinSkipped(c) == TRUE
WriterDone(c) == wPc[c] = "exit"

Join(c) ==
    /\ rPc[c] = "join"
    /\ WriterDone(c)
    /\ events' = [events EXCEPT ![c] = Append(@, Reason(c))]
    /\ Goto(c, "gone")
    /\ UNCHANGED <<guard, feedVars, subs, stopping, request, snapGen, state, track,
                   nonce, setups, announced, writing, teardown, authVars,
                   writerVars, queue>>

-----------------------------------------------------------------------------
(* Writer: runWriter *)

ExitLeavesOpen(c) == wPc' = [wPc EXCEPT ![c] = "exit"] /\ UNCHANGED closed

\* Every return of the writer closes the connection, then signals the join.
WriterExit(c) ==
    /\ wPc' = [wPc EXCEPT ![c] = "exit"]
    /\ closed' = [closed EXCEPT ![c] = TRUE]

\* Sub.Next: the feed's closure wins over a queued frame, a cancelled context
\* may lose to one.
NextFrame(c) ==
    /\ wPc[c] = "next"
    /\ \/ /\ track[c] \notin feeds \/ closed[c] \/ stopping
          /\ WriterExit(c)
          /\ UNCHANGED queue
       \/ /\ track[c] \in feeds
          /\ queue[c] > 0
          /\ queue' = [queue EXCEPT ![c] = @ - 1]
          /\ wPc' = [wPc EXCEPT ![c] = "snapshot"]
          /\ UNCHANGED closed
    /\ UNCHANGED <<guard, feedVars, subs, stopping, readerVars, authVars, wSnap,
                   wStart, evicted, late, writers, events>>

TakeSnapshot(c) ==
    /\ wPc[c] = "snapshot"
    /\ wSnap' = [wSnap EXCEPT ![c] = [enabled |-> Enabled(guard), gen |-> guard.gen]]
    /\ wPc' = [wPc EXCEPT ![c] = "decide"]
    /\ UNCHANGED <<guard, feedVars, subs, stopping, readerVars, authVars, wStart,
                   evicted, closed, late, writers, queue, events>>

\* shouldEvict, over that snapshot and the connection's atomics.
EvictsOpenOnly(c) == wSnap[c].enabled /\ ~authed[c]
ShouldEvict(c) == wSnap[c].enabled /\ ~AuthorizedUnder(c, wSnap[c].gen)

Decide(c) ==
    /\ wPc[c] = "decide"
    /\ IF ShouldEvict(c)
         THEN /\ evicted' = [evicted EXCEPT ![c] = TRUE]
              /\ WriterExit(c)
         ELSE /\ wPc' = [wPc EXCEPT ![c] = "write"]
              /\ UNCHANGED <<evicted, closed>>
    /\ UNCHANGED <<guard, feedVars, subs, stopping, readerVars, authVars, wSnap,
                   wStart, late, writers, queue, events>>

\* The connection may not be streamed to: the token changed under it.
Revoked(c) == Enabled(guard) /\ ~AuthorizedUnder(c, guard.gen)

\* The packet goes out, or the write fails and the writer returns.
Write(c) ==
    /\ wPc[c] = "write"
    /\ \/ /\ ~closed[c]
          /\ wPc' = [wPc EXCEPT ![c] = "next"]
          /\ late' = [late EXCEPT ![c] = IF Revoked(c) /\ @ < 2 THEN @ + 1 ELSE @]
          /\ UNCHANGED closed
       \/ WriterExit(c) /\ UNCHANGED late
    /\ UNCHANGED <<guard, feedVars, subs, stopping, readerVars, authVars, wSnap,
                   wStart, evicted, writers, queue, events>>

-----------------------------------------------------------------------------
HandlerStep(c) ==
    \/ CheckDigest(c) \/ StoreGen(c)
    \/ Describe(c) \/ Setup(c) \/ Play(c) \/ StartWriter(c) \/ Teardown(c)
    \/ Unsubscribe(c) \/ CloseConn(c) \/ Join(c)
WriterStep(c) == NextFrame(c) \/ TakeSnapshot(c) \/ Decide(c) \/ Write(c)

Next ==
    \/ \E t \in Tokens \cup {NoToken} : SetToken(t)
    \/ RemoveTrack \/ CloseFeed \/ AddTrack
    \/ \E t \in Tracks : Push(t)
    \/ Shutdown
    \/ \E c \in Conns :
         \/ Accept(c) \/ ReadEnds(c)
         \/ \E m \in Methods, t \in Tokens \cup {NoToken} : Receive(c, m, t)
         \/ CheckDigest(c) \/ StoreGen(c)
         \/ Describe(c) \/ Setup(c) \/ Play(c) \/ StartWriter(c) \/ Teardown(c)
         \/ Unsubscribe(c) \/ CloseConn(c) \/ Join(c)
         \/ NextFrame(c) \/ TakeSnapshot(c) \/ Decide(c) \/ Write(c)

Spec == Init /\ [][Next]_vars

(* Fairness: handlers and writers that can run do run, an open feed with
   subscribers keeps producing frames, a retired feed is closed, and a reader
   whose socket was dropped runs out of buffered requests. *)
Fairness ==
    /\ WF_vars(CloseFeed)
    /\ \A t \in Tracks : WF_vars(t \in feeds /\ Push(t))
    /\ \A c \in Conns : /\ WF_vars(HandlerStep(c))
                        /\ WF_vars(WriterStep(c))
                        /\ SF_vars(closed[c] /\ ReadEnds(c))

FairSpec == Spec /\ Fairness

-----------------------------------------------------------------------------
(* Properties *)

ReaderPcs == {"new", "read", "check", "stamp", "handle", "respond",
              "unsubscribe", "close", "join", "gone"}
Reasons == {"evicted", "teardown", "readError"}

TypeOK ==
    /\ guard \in [token : Tokens \cup {NoToken}, gen : Nat]
    /\ registered \in 0 .. MaxTracks /\ retiring \in 0 .. MaxTracks
    /\ feeds \in SUBSET Tracks /\ added \in Tracks
    /\ subs \in [Tracks -> SUBSET Conns]
    /\ stopping \in BOOLEAN
    /\ rPc \in [Conns -> ReaderPcs]
    /\ request \in [Conns -> [method : Methods \cup {"none"}, token : Tokens \cup {NoToken}]]
    /\ snapGen \in [Conns -> Nat]
    /\ state \in [Conns -> {"init", "ready", "playing"}]
    /\ track \in [Conns -> 0 .. MaxTracks]
    /\ nonce \in [Conns -> BOOLEAN]
    /\ setups \in [Conns -> Nat] /\ announced \in [Conns -> Nat]
    /\ writing \in [Conns -> BOOLEAN] /\ teardown \in [Conns -> BOOLEAN]
    /\ authed \in [Conns -> BOOLEAN] /\ authGen \in [Conns -> Nat]
    /\ evicted \in [Conns -> BOOLEAN] /\ closed \in [Conns -> BOOLEAN]
    /\ wPc \in [Conns -> {"none", "next", "snapshot", "decide", "write", "exit"}]
    /\ wSnap \in [Conns -> [enabled : BOOLEAN, gen : Nat]]
    /\ wStart \in [Conns -> Nat]
    /\ queue \in [Conns -> 0 .. QueueDepth]
    /\ proved \in [Conns -> Tokens \cup {NoToken}]
    /\ late \in [Conns -> 0 .. 2] /\ writers \in [Conns -> Nat]
    /\ events \in [Conns -> Seq({"connected"} \cup Reasons)]

\* A connection that counts as authenticated has proved the token that is in
\* force now: never an older one, however a rotation falls between the
\* snapshot, the Digest check and the two stores (session.go authorized).
TrustMeansCurrentToken ==
    \A c \in Conns : AuthorizedUnder(c, guard.gen) =>
        Enabled(guard) /\ proved[c] = guard.token

\* After a token change a streaming connection that has not proved the new
\* token gets at most the one packet its writer had already decided on.
RevokedGetsOnePacket == \A c \in Conns : late[c] <= 1

\* A connection sends one RTP stream, numbered from what its client was last
\* told in RTP-Info, whatever it requests while it plays.
OneStreamAsAnnounced ==
    \A c \in Conns :
        /\ writers[c] <= 1
        /\ wPc[c] # "none" => announced[c] = wStart[c]

\* The feed's slots are held by live connections set up on that very track and
\* never more than its cap: refusals, drops and rebuilt tracks leak none.  A
\* connection that is gone has no writer left and has reported both ends of its
\* playing, or neither; an eviction is reported as one.
GoneIsAccountedFor ==
    /\ \A t \in Tracks :
          /\ Cardinality(subs[t]) <= MaxClients
          /\ \A c \in subs[t] : track[c] = t /\ rPc[c] \notin {"close", "join", "gone"}
    /\ \A c \in Conns : rPc[c] = "gone" =>
          /\ wPc[c] \in {"none", "exit"}
          /\ events[c] = IF writers[c] = 0 THEN <<>> ELSE <<"connected", Reason(c)>>

\* A streaming connection that the token in force does not cover is dropped, or
\* proves the token, even if its client never sends another request; and when a
\* writer returns, for whatever reason, the reader is unblocked and the
\* connection ends.
RevokedIsEvicted ==
    \A c \in Conns :
        /\ (wPc[c] \notin {"none", "exit"} /\ Revoked(c))
              ~> ~(wPc[c] \notin {"none", "exit"} /\ Revoked(c))
        /\ wPc[c] = "exit" ~> rPc[c] = "gone"

=============================================================================
