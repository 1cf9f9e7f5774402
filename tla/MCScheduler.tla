---------------------------- MODULE MCScheduler -----------------------------
(***************************************************************************)
(* Scheduler on small instances: three targets, so that the map holds      *)
(* others to rearrange when it grows, with timers for every frame, for one *)
(* frame, and one that is called after a delay and once more; and two      *)
(* targets, or timers for every frame only, for the shortest               *)
(* counterexamples.                                                        *)
(***************************************************************************)
EXTENDS Scheduler

CONSTANTS g1, g2, g3, k1, k2

Once == [interval |-> 0, repeat |-> 0, delay |-> 0]
Always == [interval |-> 0, repeat |-> Forever, delay |-> 0]
Twice == [interval |-> 1, repeat |-> 1, delay |-> 3]

MixedUses ==
  {<<g1, k1, Always>>, <<g1, k2, Twice>>, <<g2, k1, Once>>, <<g3, k1, Once>>}

DelayedUses ==
  {<<g1, k1, Always>>, <<g1, k2, Twice>>, <<g2, k1, Always>>, <<g2, k1, Twice>>}

FrameUses ==
  {<<g1, k1, Always>>, <<g1, k2, Always>>, <<g2, k1, Always>>, <<g3, k1, Always>>}

Symmetry == Permutations({g2, g3})
=============================================================================
