------------------------ MODULE MCTickOrchestrator ------------------------
EXTENDS TickOrchestrator, TLC
MCSnapshots == {"s1", "s2"}
MCActions   == {"a1", "a2"}
=============================================================================
