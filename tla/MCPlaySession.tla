--------------------------- MODULE MCPlaySession ---------------------------
(* Small instances of PlaySession for TLC. *)
EXTENDS PlaySession, TLC

Symmetry == Permutations(Subs)

\* Bound of the runs that ask about clients coming and going only: the device
\* and the appliance stay up.
StaysUp == ~done /\ ~srcClosed /\ ~chClosed /\ ~stopping /\ stPc # "fault"

=============================================================================
