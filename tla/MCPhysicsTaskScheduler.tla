----------------------- MODULE MCPhysicsTaskScheduler -----------------------
(* Instances of PhysicsTaskScheduler for TLC. *)
EXTENDS PhysicsTaskScheduler, TLC

\* Lines of sight are not kept.
CacheOff == -1

Symmetry == Permutations(Workers) \cup Permutations(Actors)

=============================================================================
