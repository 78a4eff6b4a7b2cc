------------------------ MODULE MCSuccessorWatcher ------------------------
EXTENDS SuccessorWatcher, TLC
CONSTANTS s1, s2, s3
MCSnapshots == {s1, s2, s3}
Later == Permutations(Snapshots \ {Before})
=============================================================================
