----------------------------- MODULE LiveAudio -----------------------------
(***************************************************************************)
(* What a stream promises its clients, with no queues, threads or encoder: *)
(* every client hears, in capture order and at most once, blocks of audio  *)
(* captured during the stretch of playing it joined.  A stretch starts     *)
(* when a client joins an idle stream.  Audio may be lost, never repeated, *)
(* reordered or carried from one stretch into another.                     *)
(***************************************************************************)
EXTENDS Integers, Sequences

CONSTANT Clients

VARIABLES
    captured,  \* samples captured so far
    stretch,   \* stretch[e]: position where stretch e of playing began
    joined,    \* the stretch a client joined, 0 before it plays
    playing,   \* clients playing now
    blocks     \* what each client has heard: [from, to] half-open blocks

vars == <<captured, stretch, joined, playing, blocks>>

Init ==
    /\ captured = 0
    /\ stretch = <<>>
    /\ joined = [c \in Clients |-> 0]
    /\ playing = {}
    /\ blocks = [c \in Clients |-> <<>>]

Capture ==
    /\ captured' \in Nat
    /\ captured' > captured
    /\ UNCHANGED <<stretch, joined, playing, blocks>>

\* A stretch begins no earlier than the one before it, and after everything
\* that anyone has heard.
Begin(p) ==
    /\ p <= captured
    /\ stretch # <<>> => stretch[Len(stretch)] <= p
    /\ \A c \in Clients : \A i \in DOMAIN blocks[c] : blocks[c][i].to <= p
    /\ stretch' = Append(stretch, p)

Join(c) ==
    /\ joined[c] = 0
    /\ IF playing = {} THEN \E p \in 0 .. captured : Begin(p) ELSE UNCHANGED stretch
    /\ joined' = [joined EXCEPT ![c] = Len(stretch')]
    /\ playing' = playing \cup {c}
    /\ UNCHANGED <<captured, blocks>>

Leave(c) ==
    /\ c \in playing
    /\ playing' = playing \ {c}
    /\ UNCHANGED <<captured, stretch, joined, blocks>>

\* Where the audio of stretch e ends: where the next one begins, or now.
End(e) == IF e < Len(stretch) THEN stretch[e + 1] ELSE captured

HeardUpTo(c) == IF blocks[c] = <<>> THEN stretch[joined[c]]
                ELSE blocks[c][Len(blocks[c])].to

\* A packet that was on its way when its client left may still arrive.
Hear(c) ==
    /\ joined[c] # 0
    /\ \E p \in HeardUpTo(c) .. End(joined[c]) : \E q \in (p + 1) .. End(joined[c]) :
          blocks' = [blocks EXCEPT ![c] = Append(@, [from |-> p, to |-> q])]
    /\ UNCHANGED <<captured, stretch, joined, playing>>

Next == Capture \/ \E c \in Clients : Join(c) \/ Leave(c) \/ Hear(c)

Spec == Init /\ [][Next]_vars

=============================================================================
