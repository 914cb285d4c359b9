-------------------------- MODULE MCReplayGuard --------------------------
(* ReplayGuard for TLC: the constants of the header guard, scaled down     *)
(* with their proportions kept (Ttl = Early + Late), and two threads, so   *)
(* that a replay can overtake its original.  The clock of one sender leads *)
(* a little, that of the other by all that is accepted: the first message  *)
(* is timely, the second is not, and passes twice.                         *)
EXTENDS ReplayGuard, TLC

CONSTANTS m1, m2

MCLead == (m1 :> 1) @@ (m2 :> Early)

Symmetry == Permutations(Threads)
==========================================================================
