--------------------------- MODULE MCAgentLookup ---------------------------
EXTENDS AgentLookup

Offsets == {0, 3, 6, 9}
Lengths == 1..3
Requests == 0..8
=============================================================================
