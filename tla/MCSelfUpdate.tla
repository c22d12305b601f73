---- MODULE MCSelfUpdate ----
(* Instances of SelfUpdate for TLC.  Pids are taken by CHOOSE, so they are no
   symmetry set. *)
EXTENDS SelfUpdate, TLC

====
