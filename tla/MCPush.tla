------------------------------- MODULE MCPush -------------------------------
EXTENDS Push, TLC

CONSTANTS p1, p2, a, b, docs, events

WithEvents == p1 :> docs @@ p2 :> events
OnlyEvents == p1 :> events
Single == p1 :> docs
=============================================================================
