----------------------- MODULE MCProgressCycleGuard -----------------------
EXTENDS ProgressCycleGuard, TLC
CONSTANTS x1, x2, x3, a1, a2
MCPages   == {x1, x2, x3}
MCActions == {a1, a2}
Renaming  == Permutations(Pages) \cup Permutations(Actions)
=============================================================================
