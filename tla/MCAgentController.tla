-------------------------- MODULE MCAgentController --------------------------
EXTENDS AgentController

Page(screen, floor, hero, view, fine, ready) ==
    [screen |-> screen, floor |-> floor, hero |-> hero, view |-> view, fine |-> fine, ready |-> ready,
     cancel |-> screen = "card_select" /\ ~ready]

\* A combat before an action, one changed in the hash only with nothing left to play, and
\* one after the first round of the next game; a card selection before (it can be
\* canceled) and after; the end; the main menu.
MCPages ==
    {Page("combat", 2, "ironclad", 1, 1, FALSE), Page("combat", 2, "ironclad", 1, 2, TRUE),
     Page("combat", 1, "ironclad", 2, 1, FALSE),
     Page("card_select", 2, "ironclad", 1, 1, FALSE), Page("card_select", 2, "ironclad", 1, 1, TRUE),
     Page("game_over", 2, "ironclad", 1, 1, TRUE), Page("waiting", 0, "unknown", 1, 1, FALSE)}
=============================================================================
