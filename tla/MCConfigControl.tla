---- MODULE MCConfigControl ----
(* Instances of ConfigControl for TLC. *)
EXTENDS ConfigControl, TLC

\* Nothing tells handlers, commands or the values of a configuration apart.
Symmetry == Permutations(Handlers) \cup Permutations(Clis)
                \cup Permutations(Tokens) \cup Permutations(Bodies)

====
