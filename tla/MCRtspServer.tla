---- MODULE MCRtspServer ----
(* Instances of RtspServer for TLC. *)
EXTENDS RtspServer, TLC

\* Neither connections nor tokens are told apart by the specification.
Symmetry == Permutations(Conns) \cup Permutations(Tokens)

====
